---------------------------- MODULE ErrorAnswers ----------------------------
(***************************************************************************)
(* How an error reaches the caller of the API. The agent refuses a call,   *)
(* or nobody answers; the agent service throws, NATS carries what is left  *)
(* of the exception to the service that asked, which wraps it, catches it  *)
(* and throws again, and NATS carries that to the gateway. Every layer     *)
(* reads the fields under which it expects the layer before to have put    *)
(* the status and the reason.                                              *)
(*                                                                         *)
(* A value of JavaScript is a function from paths of field names to what   *)
(* is there, "object" for the inner nodes: of the fields that are not      *)
(* set, and of those JSON drops, there is no path.                         *)
(***************************************************************************)
EXTENDS Integers, Sequences, TLC

CONSTANTS
  Statuses,   \* the status codes an agent answers with
  Bodies      \* what an agent may say: fields of the body

VARIABLES
  op,         \* the operation that was asked for
  at,         \* how far the error has come
  arose,      \* where it arose: [kind, status, body]
  err,        \* the exception on its way: [class, value, json]
  wire,       \* what NATS carries
  answer      \* what the gateway says: [status, message, error]

vars == <<op, at, arose, err, wire, answer>>

(* What the constants have to be; the suites assume it of their instances. *)
ConstantsAssumption ==
  /\ Statuses \subseteq {"400", "404", "409", "422", "500"}
  /\ Bodies \subseteq SUBSET {"reason", "message"} \union {{"text"}, {"duplicates"}}

-----------------------------------------------------------------------------
(* Values.                                                                 *)
Nothing  == <<>>
Text(s)  == <<>> :> s
Object(fields) ==
  <<>> :> "object" @@
  [p \in UNION {{<<f>> \o q : q \in DOMAIN fields[f]} : f \in DOMAIN fields} |-> fields[p[1]][Tail(p)]]
NoFields == <<>> :> "object"

Truthy(v) == <<>> \in DOMAIN v
IsText(v) == Truthy(v) /\ v[<<>>] # "object"
At(v, f)  == [p \in {Tail(q) : q \in {q \in DOMAIN v \ {<<>>} : q[1] = f}} |-> v[<<f>> \o p]]
Or(v, w)  == IF Truthy(v) THEN v ELSE w

(* Exceptions: their class, their value, and what of it JSON keeps.        *)
HttpException(response, status) ==
  LET message == IF IsText(At(response, "message")) THEN At(response, "message") ELSE Text("Http Exception")
      value == Object([response |-> response, status |-> status, message |-> message])
  IN  [class |-> "http", value |-> value, json |-> value]

\* NotFoundException and the like.
NestException(status, message) ==
  LET value == Object([
        response |-> Object([statusCode |-> Text(status), message |-> Text(message), error |-> Text("described")]),
        status |-> Text(status), message |-> Text(message)])
  IN  [class |-> "nest", value |-> value, json |-> value]

RpcValue(e) ==
  Object([error |-> e,
          message |-> IF IsText(At(e, "message")) THEN At(e, "message") ELSE Text("Rpc Exception")])
RpcException(e) == [class |-> "rpc", value |-> RpcValue(e), json |-> RpcValue(e)]

\* A TypeError: JSON leaves nothing of it.
PlainError(message) == [class |-> "plain", value |-> Object([message |-> Text(message)]), json |-> NoFields]

\* The database finds no record to update.
PrismaError ==
  [class |-> "prisma", value |-> Object([message |-> Text("no record"), code |-> Text("P2025")]),
   json |-> Object([code |-> Text("P2025")])]

NoError == [class |-> "none", value |-> Nothing, json |-> Nothing]

\* error.response ? error.response : error
Rethrown(e) == RpcException(Or(At(e.value, "response"), e.json))

-----------------------------------------------------------------------------
(* Where it arises.                                                        *)
Answers  == [kind : {"answered"}, status : Statuses, body : Bodies]
Plainly(kind, status) == [kind |-> kind, status |-> status, body |-> {}]
Refused  == Plainly("refused", "404")      \* ECONNREFUSED
Odd      == Plainly("odd", "500")          \* no answer, and a 400 in the text: an address, a port
Down     == Plainly("down", "500")         \* no answer
Keyless  == Plainly("keyless", "404")      \* the organisation has no key for its agent
Silent   == Plainly("silent", "500")       \* no agent service, or no service
Missing  == Plainly("missing", "404")      \* the service refuses by itself
Unfound  == Plainly("unfound", "404")      \* the database finds no record
NoCause  == Plainly("none", "none")

Reason(c)  == IF c.status = "404" THEN "it was not found" ELSE "it was refused"
Body(c) ==
  IF c.body = {"text"} THEN Text("it said so")
  ELSE IF c.body = {} THEN Nothing
  ELSE IF c.body = {"duplicates"} THEN Object([message |-> Text("duplicate predicates and attributes")])
  ELSE Object([f \in c.body |-> IF f = "reason" THEN Text(Reason(c)) ELSE Text("explained")])

\* What CommonService makes of a call that failed.
handleCommonErrors(c) ==
  LET said == Or(Body(c), Text("Request failed"))
      failed(fields) == HttpException(Object([statusCode |-> Text(c.status)] @@ fields), Text(c.status))
  IN  CASE c.kind = "refused" -> failed([error |-> Text("ECONNREFUSED")])
        [] c.kind = "odd" -> PlainError("Cannot read properties of undefined")
        [] c.kind = "down" ->
             failed([message |-> Text("network failure"), error |-> Text("network failure")])
        [] c.kind = "answered" /\ c.status \in {"404", "422"} -> failed([error |-> said])
        [] c.kind = "answered" /\ c.status \notin {"404", "422"} ->
             failed([message |-> Text("Request failed"), error |-> said])

getOrgAgentApiKey == NestException("404", "API key is not found")

(* The four ways in which the agent service lets it go.                    *)
handleAgentSpinupStatusErrors(e) == IF e.json = NoFields THEN NestException("500", "agent down") ELSE e

AgentError(style, c) ==
  LET e == IF c = Keyless THEN getOrgAgentApiKey ELSE handleCommonErrors(c)
  IN  CASE style = "throw" -> e
        [] style = "agentCall" -> Rethrown(handleAgentSpinupStatusErrors(e))
        [] style = "createSchema" ->
             Rethrown(IF c = Keyless THEN e ELSE NestException("500", "agent down"))

-----------------------------------------------------------------------------
(* NATS: the filter of the services, and the calls that wrap what they     *)
(* receive.                                                                *)
HttpExceptionFilter(e) ==
  LET response == At(e.value, "response")
      sent(message, code) == RpcValue(Object([message |-> message, code |-> code]))
  IN  CASE e.class = "rpc" -> At(e.value, "error")
        [] e.class = "http" -> sent(response, Or(At(e.value, "status"), Text("400")))
        [] e.class = "prisma" -> sent(At(e.value, "message"), Text("404"))
        [] e.class \in {"nest", "plain"} ->
             sent(Or(At(response, "message"), At(e.value, "message")),
                  Or(At(response, "statusCode"), Text("500")))

Silence == Object([message |-> Text("Empty response")])

natsCall(e) ==
  HttpException(Object([status |-> At(e, "statusCode"), error |-> At(e, "message")]), At(e, "error"))

\* Around natsCall once more, or around a call to another service.
statusCall(e) ==
  HttpException(Object([status |-> At(e, "status"), error |-> At(e, "message")]), At(e, "status"))

verificationCall(e) ==
  HttpException(Object([status |-> At(e, "statusCode"), error |-> At(e, "error"), message |-> At(e, "message")]),
                At(e, "error"))

_createW3CSchema(e) ==
  LET inner == At(At(At(e, "error"), "message"), "error")
  IN  IF Truthy(inner)
      THEN HttpException(Object([status |-> At(At(e, "error"), "code"), error |-> At(e, "message"),
                                 message |-> At(inner, "message")]),
                         At(e, "error"))
      ELSE PlainError("Cannot read properties of undefined")

Received(wrapper, e) ==
  CASE wrapper = "natsCall" -> natsCall(e)
    [] wrapper = "twice" -> statusCall(natsCall(e).value)
    [] wrapper = "verification" -> verificationCall(e)
    [] wrapper = "w3c" -> _createW3CSchema(e)

-----------------------------------------------------------------------------
(* What the service makes of it.                                           *)
Inner(e) == At(At(At(e.value, "status"), "message"), "error")
Code(e)  == At(At(e.value, "status"), "code")
Told(message, code) == RpcException(Object([message |-> message, statusCode |-> code]))

\* Wrong on purpose: the status is looked for where HttpException keeps it.
HandleErrorByStatus(e) ==
  IF Truthy(Inner(e)) THEN Told(Or(At(Inner(e), "reason"), Inner(e)), At(e.value, "status")) ELSE Rethrown(e)

handleError(e) ==
  IF Truthy(Inner(e)) THEN Told(Or(At(Inner(e), "reason"), Inner(e)), Code(e)) ELSE Rethrown(e)

getIssueCredentialsbyCredentialRecordId(e) ==
  IF Truthy(Inner(e))
  THEN Told(Or(At(Inner(e), "reason"), Or(At(Inner(e), "message"), Inner(e))), Code(e))
  ELSE Rethrown(e)

outOfBandCredentialOffer(e) ==
  IF Truthy(Inner(e)) THEN Told(Or(At(Inner(e), "reason"), At(Inner(e), "message")), Code(e)) ELSE Rethrown(e)

verificationErrorHandling(e) == Told(Or(At(Inner(e), "reason"), Inner(e)), Code(e))

\* What credo does not support is told in the platform's own words.
sendProofRequest(e) ==
  IF At(Inner(e), "message") = Text("duplicate predicates and attributes")
  THEN Told(Text("duplicate attributes"), Text("500"))
  ELSE verificationErrorHandling(e)

OuterReason(e) == At(At(At(e.value, "response"), "error"), "reason")

\* The connection by its id, an invitation received, a proof to verify.
reasonHandling(e, text) ==
  IF Truthy(OuterReason(e))
  THEN RpcException(Object([message |-> Text(text), statusCode |-> At(At(e.value, "response"), "status"),
                            error |-> OuterReason(e)]))
  ELSE Rethrown(e)

receiveInvitationUrl(e) ==
  IF Truthy(At(Inner(e), "message"))
  THEN RpcException(Object([message |-> At(Inner(e), "message"), statusCode |-> Text("409"), error |-> Text("Conflict")]))
  ELSE reasonHandling(e, "Connection not found")

getProofPresentationById(e) ==
  LET message == Or(OuterReason(e), At(e.value, "message"))
  IN  IF message = Text("it was not found") THEN NestException("404", "it was not found") ELSE Rethrown(e)

Caught(catch, e) ==
  CASE catch = "rethrow" -> Rethrown(e)
    [] catch = "handleError" -> handleError(e)
    [] catch = "byRecord" -> getIssueCredentialsbyCredentialRecordId(e)
    [] catch = "oobOffer" -> outOfBandCredentialOffer(e)
    [] catch = "proofRequest" -> sendProofRequest(e)
    [] catch = "oobProof" -> verificationErrorHandling(e)
    [] catch = "connection" -> reasonHandling(e, "Connection not found")
    [] catch = "proof" -> reasonHandling(e, "Proof not found")
    [] catch = "byUrl" -> receiveInvitationUrl(e)
    [] catch = "proofById" -> getProofPresentationById(e)

-----------------------------------------------------------------------------
(* The operations: how the agent service throws, how the service wraps     *)
(* what it receives, and how it catches.                                   *)
Style(agent, wrapper, catch) == [agent |-> agent, wrapper |-> wrapper, catch |-> catch]

getAllConnections        == Style("throw", "natsCall", "rethrow")
getConnectionsById       == Style("agentCall", "natsCall", "connection")
getQuestionAnswersRecord == Style("agentCall", "natsCall", "handleError")
sendQuestion             == Style("throw", "natsCall", "handleError")
sendBasicMessage         == Style("throw", "natsCall", "handleError")
receiveByUrl             == Style("throw", "twice", "byUrl")
receiveInvitation        == Style("throw", "natsCall", "connection")
createInvitation         == Style("throw", "twice", "handleError")
proofById                == Style("agentCall", "verification", "proofById")
verifiedProof            == Style("agentCall", "verification", "proof")
verifyPresentation       == Style("agentCall", "verification", "proof")
requestProof             == Style("throw", "verification", "proofRequest")
requestProofOob          == Style("throw", "verification", "oobProof")
issuedById               == Style("throw", "natsCall", "byRecord")
offerOob                 == Style("throw", "natsCall", "oobOffer")
getSchemaById            == Style("throw", "natsCall", "handleError")
createSchema             == Style("createSchema", "verification", "rethrow")
createW3CSchema          == Style("throw", "w3c", "rethrow")
createCredDef            == Style("throw", "natsCall", "handleError")
getCredDef               == Style("throw", "natsCall", "handleError")

Ops ==
  "connections" :> getAllConnections @@ "connection" :> getConnectionsById @@
  "questions" :> getQuestionAnswersRecord @@ "question" :> sendQuestion @@ "message" :> sendBasicMessage @@
  "receiveUrl" :> receiveByUrl @@ "receive" :> receiveInvitation @@ "invite" :> createInvitation @@
  "proof" :> proofById @@ "verified" :> verifiedProof @@ "verify" :> verifyPresentation @@
  "request" :> requestProof @@ "oobProof" :> requestProofOob @@ "issued" :> issuedById @@
  "oobOffer" :> offerOob @@ "schema" :> getSchemaById @@ "createSchema" :> createSchema @@
  "w3c" :> createW3CSchema @@ "createCredDef" :> createCredDef @@ "credDef" :> getCredDef

-----------------------------------------------------------------------------
(* The gateway.                                                            *)
Reply(e) ==
  [status |-> Or(At(e, "statusCode"), Text("500")),
   message |-> Or(At(e, "message"), Text("Something went wrong!")),
   error |-> Or(At(e, "error"), Text("Internal Server error"))]

\* An object has no "includes": the interceptor fails, and its failure is answered.
NatsInterceptor(e) ==
  IF Truthy(At(e, "message")) /\ ~IsText(At(e, "message"))
  THEN Object([message |-> Text("includes is not a function")])
  ELSE IF At(e, "message") = At(Silence, "message")
  THEN Object([message |-> Text("no subscribers")])
  ELSE e

CustomExceptionFilter(e) == Reply(NatsInterceptor(e))

-----------------------------------------------------------------------------
Init ==
  /\ op \in DOMAIN Ops
  /\ at = "asked" /\ arose = NoCause /\ err = NoError /\ wire = Nothing /\ answer = Nothing

Throw(cause, e, place) ==
  /\ at = "asked"
  /\ arose' = cause /\ err' = e /\ at' = place
  /\ UNCHANGED <<op, wire, answer>>

AgentFails ==
  \E c \in Answers \union {Refused, Odd, Down, Keyless} : Throw(c, AgentError(Ops[op].agent, c), "agent")

ServiceRefuses == Throw(Missing, NestException("404", "no such address"), "service")
DatabaseFails  == Throw(Unfound, PrismaError, "service")

Carry(e, next) ==
  /\ wire' = e /\ at' = next
  /\ UNCHANGED <<op, err, answer>>

AgentReplies   == at = "agent" /\ Carry(HttpExceptionFilter(err), "asking") /\ UNCHANGED arose
ServiceReplies == at = "caught" /\ Carry(HttpExceptionFilter(err), "gateway") /\ UNCHANGED arose

\* Nobody listens: the client finds out by itself.
AgentServiceSilent == at = "asked" /\ arose' = Silent /\ Carry(Silence, "asking")
ServiceSilent      == at = "asked" /\ arose' = Silent /\ Carry(Silence, "gateway")

CallRejects ==
  /\ at = "asking"
  /\ err' = Received(Ops[op].wrapper, wire) /\ at' = "service"
  /\ UNCHANGED <<op, arose, wire, answer>>

ServiceCatches ==
  /\ at = "service"
  /\ err' = Caught(Ops[op].catch, err) /\ at' = "caught"
  /\ UNCHANGED <<op, arose, wire, answer>>

GatewayAnswers ==
  /\ at = "gateway"
  /\ answer' = CustomExceptionFilter(wire) /\ at' = "answered"
  /\ UNCHANGED <<op, arose, err, wire>>

Next ==
  \/ AgentFails \/ ServiceRefuses \/ DatabaseFails \/ AgentServiceSilent \/ ServiceSilent
  \/ AgentReplies \/ CallRejects \/ ServiceCatches \/ ServiceReplies \/ GatewayAnswers

Spec == Init /\ [][Next]_vars
-----------------------------------------------------------------------------
\* Types of the variables; an answer has a status, a message and an error.
TypeOK ==
  /\ op \in DOMAIN Ops
  /\ at \in {"asked", "agent", "asking", "service", "caught", "gateway", "answered"}
  /\ arose \in Answers \union {NoCause, Refused, Odd, Down, Keyless, Silent, Missing, Unfound}
  /\ err.class \in {"none", "http", "nest", "rpc", "plain", "prisma"}
  /\ DOMAIN wire \subseteq Seq(STRING)
  /\ at = "answered" => \A f \in {"status", "message", "error"} : Truthy(answer[f])

\* The status of an answer is the one the error arose with, or 500 when it got
\* lost; only the explanation an agent gives to an invitation received by its
\* URL is a conflict whatever it was (the catches read the status at different
\* depths, and an exception of natsCall has an object for its status).
AnswerHasOrigin ==
  at = "answered" =>
    \/ answer.status \in {Text("500"), Text(arose.status)}
    \/ /\ op = "receiveUrl" /\ arose.kind = "answered"
       /\ answer.status = Text("409") /\ answer.error = Text("Conflict")

\* The operations whose catch reads the error at the depth at which their call
\* puts it.
Reading ==
  {"question", "message", "invite", "verified", "verify", "request", "oobProof", "issued", "oobOffer",
   "schema", "createCredDef", "credDef"}

\* When the agent gives a reason for its refusal, the caller of these operations
\* is told the reason and the status of the agent, through two services and
\* three filters (request: credo's complaint about duplicates aside).
ReasonTold ==
  at = "answered" /\ op \in Reading /\ "reason" \in arose.body
    => /\ answer.status = Text(arose.status)
       /\ Text(Reason(arose)) \in {answer.message, answer.error}

\* What a service refuses by itself is a 404 with its text at the gateway, but
\* for the proof requests, whose catch never hands an exception on
\* (verificationErrorHandling).
RefusalTold ==
  at = "answered" /\ arose = Missing /\ op \notin {"request", "oobProof"}
    => answer.status = Text("404") /\ answer.message = Text("no such address")

=============================================================================
