----------------------------- MODULE AgentCalls -----------------------------
(***************************************************************************)
(* The calls an organisation makes to its agent. A service reads where     *)
(* the organisation's wallet is, makes an address of it and hands the      *)
(* address to the agent service, which reads the key of the agent by       *)
(* itself and makes the call. In between, the wallet of the organisation   *)
(* may be deleted and another one be made, elsewhere and of another type.  *)
(***************************************************************************)
EXTENDS Integers, FiniteSets, Sequences, TLC

CONSTANTS
  Orgs,
  Platform,    \* the organisation whose agent the shared wallets are at
  Agents,
  Setup,       \* Orgs -> [type, agent]: the wallets at the start
  Calls,       \* the requests that are made
  Plans,       \* what they may ask for: Calls -> [op, org, role, reuse]
  Movers,      \* organisations whose wallet may be deleted and made again
  MaxMoves,    \* bound: wallets deleted
  MaxFaults    \* bound: calls that fail or whose answer is lost

VARIABLES
  rows,        \* org_agents, by organisation
  times,       \* how many rows each organisation has had
  wallets,     \* the wallets there are at the agents
  invitations, \* agent_invitations of each organisation, in the order they were made
  at,          \* where each call is
  asked,       \* what it asks for
  todo,        \* the reads of the row it has yet to make
  row,         \* the row of its organisation it has read
  url,         \* the address it has made: [type, agent, tenant]
  key,         \* the key it has found
  did,         \* the wallet whose DID it hands over
  made,        \* the wallet its invitation was made in
  sent,        \* <<call, agent, key>> of every call to an agent
  done,        \* <<call, wallet, did>> of every call an agent carried out
  moved,       \* calls during which the wallet was changed
  held,        \* the organisations each agent was dedicated to
  faults

registers == <<row, url, key, did, made>>
vars == <<rows, times, wallets, invitations, at, asked, todo, registers, sent, done, moved, held, faults>>

-----------------------------------------------------------------------------
(* What a service does before it hands a call over: the roles that may ask *)
(* for it, the reads that the address takes, the DID that goes with it.    *)
Operators == {"owner", "admin"}
Verifiers == Operators \union {"verifier"}
Staff     == Verifiers \union {"issuer", "member"}
Everybody == Staff \union {"holder"}

OneRead   == {"row"}
TwoReads  == {"endpoint", "type"}

Op(roles, reads, uses) == [roles |-> roles, reads |-> reads, uses |-> uses]

GetAllConnections  == Op(Staff, OneRead, "none")
GetConnection      == Op(Staff, OneRead, "none")
GetQuestionRecords == Op(Everybody, OneRead, "none")
SendQuestion       == Op(Everybody, OneRead, "none")
SendBasicMessage   == Op(Everybody, OneRead, "none")
ReceiveInvitationUrl == Op(Operators, OneRead, "none")
ReceiveInvitation  == Op(Operators, OneRead, "none")
CreateInvitation   == Op(Staff, OneRead, "invitation")
GetProof           == Op(Everybody, OneRead, "none")
GetVerifiedProof   == Op(Everybody, OneRead, "none")
RequestProof       == Op(Verifiers, OneRead, "none")
VerifyPresentation == Op(Verifiers, OneRead, "none")
RequestProofOob    == Op(Verifiers, OneRead, "invitation")
GetIssued          == Op(Everybody, OneRead, "none")
GetSchema          == Op(Staff, TwoReads, "none")
GetCredDef         == Op(Staff, TwoReads, "none")
CreateCredDef      == Op(Operators, TwoReads, "none")
GetHealth          == Op(Everybody, OneRead, "none")
SignData           == Op(Everybody, OneRead, "primary")
VerifySignature    == Op(Everybody, OneRead, "none")

Ops ==
  [connections |-> GetAllConnections, connection |-> GetConnection,
   questions |-> GetQuestionRecords, question |-> SendQuestion,
   message |-> SendBasicMessage, receiveUrl |-> ReceiveInvitationUrl,
   receive |-> ReceiveInvitation, invite |-> CreateInvitation,
   proof |-> GetProof, verified |-> GetVerifiedProof,
   request |-> RequestProof, verify |-> VerifyPresentation,
   oob |-> RequestProofOob, issued |-> GetIssued,
   schema |-> GetSchema, credDef |-> GetCredDef, createCredDef |-> CreateCredDef,
   health |-> GetHealth, sign |-> SignData, signature |-> VerifySignature]

(* What the agent service does with it: whether the call goes to the       *)
(* wallet or to the agent, and whether the DID is read after the key.      *)
ToWallet == [to |-> "wallet"]
ToAgent  == [to |-> "agent"]

ConnectionCalls == [o \in {"connections", "connection"} |-> ToWallet]
QuestionCalls   == [o \in {"questions", "question"} |-> ToWallet]
MessageCalls    == [o \in {"message"} |-> ToWallet]
ReceiveCalls    == [o \in {"receiveUrl", "receive"} |-> ToWallet]
InviteCalls     == [o \in {"invite"} |-> ToWallet]
ProofCalls      == [o \in {"proof", "request", "verify"} |-> ToWallet]
OobProofCalls   == [o \in {"verified", "oob"} |-> ToWallet]
IssuedCalls     == [o \in {"issued"} |-> ToWallet]
LedgerCalls     == [o \in {"schema", "credDef", "createCredDef"} |-> ToWallet]
HealthCalls     == [o \in {"health"} |-> ToAgent]
SignCalls       == [o \in {"sign"} |-> ToWallet]
SignatureCalls  == [o \in {"signature"} |-> ToWallet]

Command ==
  ConnectionCalls @@ QuestionCalls @@ MessageCalls @@ ReceiveCalls @@ InviteCalls @@
  ProofCalls @@ OobProofCalls @@ IssuedCalls @@ LedgerCalls @@ HealthCalls @@
  SignCalls @@ SignatureCalls

(* What the constants have to be; the suites assume it of their instances. *)
(* Shared wallets are at the agent of the platform, a dedicated one has an *)
(* agent for itself.                                                       *)
ConstantsAssumption ==
  /\ Platform \in Orgs /\ Movers \subseteq Orgs
  /\ MaxMoves \in Nat /\ MaxFaults \in Nat
  /\ "none" \notin Orgs \cup Agents
  /\ \A o \in Orgs : Setup[o].type \in {"none", "shared", "dedicated"} /\ Setup[o].agent \in Agents
  /\ \A o, q \in Orgs : Setup[o].type = "dedicated" /\ Setup[q].type = "dedicated" /\ o # q
                         => Setup[o].agent # Setup[q].agent
  /\ \A o \in Orgs : Setup[o].type = "shared" =>
       Setup[Platform].type = "dedicated" /\ Setup[o].agent = Setup[Platform].agent
  /\ Setup[Platform].type # "shared"
  /\ \A f \in Plans : \A c \in Calls : f[c].op \in DOMAIN Ops /\ f[c].org \in Orgs

op(c)  == asked[c].op
org(c) == asked[c].org

NoRow    == [type |-> "none"]
NoUrl    == [type |-> "none", agent |-> "none", tenant |-> [n |-> 0]]
NoKey    == [of |-> "none"]
NoWallet == [org |-> "none"]
Own      == [n |-> 0]                  \* the agent's own wallet
Nowhere  == "none"                     \* the endpoint of a row not complete yet

\* An agent takes its own key only.
KeyOf(a) == [of |-> a]

Wallet(o, type, a, n) ==
  [org |-> o, agent |-> a, tenant |-> IF type = "shared" THEN [n |-> n, of |-> o] ELSE Own]

Row(o, type, a, n) ==
  [type |-> type, agent |-> a, tenant |-> Wallet(o, type, a, n).tenant, n |-> n,
   wallet |-> Wallet(o, type, a, n)]

Half(n) == [type |-> "half", agent |-> Nowhere, tenant |-> Own, n |-> n, wallet |-> NoWallet]

Exists(r)   == r.type # "none"
Complete(r) == r.type \in {"shared", "dedicated"}

Init ==
  /\ rows = [o \in Orgs |-> IF Setup[o].type = "none" THEN NoRow
                            ELSE Row(o, Setup[o].type, Setup[o].agent, 0)]
  /\ times = [o \in Orgs |-> 0]
  /\ wallets = {rows[o].wallet : o \in {o \in Orgs : Exists(rows[o])}}
  /\ invitations = [o \in Orgs |-> <<>>]
  /\ at = [c \in Calls |-> "idle"] /\ todo = [c \in Calls |-> {}]
  /\ asked \in Plans
  /\ row = [c \in Calls |-> NoRow] /\ url = [c \in Calls |-> NoUrl]
  /\ key = [c \in Calls |-> NoKey] /\ did = [c \in Calls |-> NoWallet]
  /\ made = [c \in Calls |-> NoWallet]
  /\ sent = {} /\ done = {} /\ moved = {} /\ faults = 0
  /\ held = [a \in Agents |-> {o \in Orgs : Setup[o].type = "dedicated" /\ Setup[o].agent = a}]

world == <<asked, rows, times, wallets, moved, held>>

GoTo(c, where) == at' = [at EXCEPT ![c] = where]
Ended == {"idle", "refused", "answered", "failed"}

-----------------------------------------------------------------------------
\* The guard of the gateway.
Ask(c) ==
  /\ at[c] = "idle"
  /\ IF asked[c].role \in Ops[op(c)].roles
     THEN GoTo(c, "read") /\ todo' = [todo EXCEPT ![c] = Ops[op(c)].reads]
     ELSE GoTo(c, "refused") /\ UNCHANGED todo
  /\ UNCHANGED <<world, invitations, registers, sent, done, faults>>

\* Wrong on purpose: nobody is told that there is no wallet.
SilentWithoutRow(c) == GoTo(c, at[c])

NoWalletHere(c) == GoTo(c, "failed")

\* A type that is not there is looked for without a condition: any will do.
TypeOf(r) == IF Complete(r) THEN {r.type} ELSE {"shared", "dedicated"}

\* Wrong on purpose: the address of the agent, whatever the type.
PlainAddress(type, a, t) == [type |-> type, agent |-> a, tenant |-> Own]

\* The address of the tenant, or of the agent's own wallet.
Address(type, a, t) ==
  [type |-> type, agent |-> a, tenant |-> IF type = "shared" THEN t ELSE Own]

AfterAddress(c) == IF Ops[op(c)].uses = "invitation" THEN "did" ELSE "key"

\* One read gives endpoint, type and tenant.
ReadRow(c) ==
  /\ at[c] = "read" /\ "row" \in todo[c]
  /\ LET r == rows[org(c)]
     IN IF Exists(r)
        THEN /\ row' = [row EXCEPT ![c] = r]
             /\ \E type \in TypeOf(r) : url' = [url EXCEPT ![c] = Address(type, r.agent, r.tenant)]
             /\ GoTo(c, AfterAddress(c))
        ELSE NoWalletHere(c) /\ UNCHANGED <<row, url>>
  /\ todo' = [todo EXCEPT ![c] = {}]
  /\ UNCHANGED <<world, invitations, key, did, made, sent, done, faults>>

Pending(c, read) == at[c] = "read" /\ read \in todo[c]
Finish(c, read)  == todo' = [todo EXCEPT ![c] = @ \ {read}]
AfterReads(c, read, type) ==
  IF todo[c] # {read} THEN "read" ELSE IF type = "shared" THEN "tenant" ELSE "key"

\* The ledger services read the endpoint, the type and the tenant by
\* themselves, the schema service the first two in either order.
ReadEndpoint(c) ==
  /\ Pending(c, "endpoint") /\ Finish(c, "endpoint")
  /\ LET r == rows[org(c)]
     IN IF Exists(r)
        THEN url' = [url EXCEPT ![c].agent = r.agent] /\ GoTo(c, AfterReads(c, "endpoint", url[c].type))
        ELSE NoWalletHere(c) /\ UNCHANGED url
  /\ UNCHANGED <<world, invitations, row, key, did, made, sent, done, faults>>

ReadType(c) ==
  /\ Pending(c, "type") /\ Finish(c, "type")
  /\ op(c) = "schema" \/ "endpoint" \notin todo[c]
  /\ LET r == rows[org(c)]
     IN IF Exists(r)
        THEN \E type \in TypeOf(r) :
               url' = [url EXCEPT ![c].type = type] /\ GoTo(c, AfterReads(c, "type", type))
        ELSE NoWalletHere(c) /\ UNCHANGED url
  /\ UNCHANGED <<world, invitations, row, key, did, made, sent, done, faults>>

ReadTenant(c) ==
  /\ at[c] = "tenant"
  /\ LET r == rows[org(c)]
     IN IF Exists(r)
        THEN url' = [url EXCEPT ![c] = Address("shared", @.agent, r.tenant)] /\ GoTo(c, "key")
        ELSE NoWalletHere(c) /\ UNCHANGED url
  /\ UNCHANGED <<world, todo, invitations, row, key, did, made, sent, done, faults>>

\* The DID of the first invitation of the organisation is used again.
ReadInvitationDid(c) ==
  /\ at[c] = "did" /\ Ops[op(c)].uses = "invitation"
  /\ LET of == invitations[org(c)]
     IN did' = [did EXCEPT ![c] = IF asked[c].reuse /\ of # <<>> THEN of[1].wallet ELSE NoWallet]
  /\ GoTo(c, "key")
  /\ UNCHANGED <<world, todo, invitations, row, url, key, made, sent, done, faults>>

\* The DID that signs is the primary one of the organisation.
ReadPrimaryDid(c) ==
  /\ at[c] = "did" /\ Ops[op(c)].uses = "primary"
  /\ IF Complete(rows[org(c)])
     THEN did' = [did EXCEPT ![c] = rows[org(c)].wallet] /\ GoTo(c, "call")
     ELSE GoTo(c, "failed") /\ UNCHANGED did
  /\ UNCHANGED <<world, todo, invitations, row, url, key, made, sent, done, faults>>

AfterKey(c) == IF Ops[op(c)].uses = "primary" THEN "did" ELSE "call"

NeedsPlatformKey(r) == r.type = "shared"

ReadKey(c) ==
  /\ at[c] = "key"
  /\ LET r == rows[org(c)]
     IN CASE ~Complete(r)        -> GoTo(c, "failed") /\ UNCHANGED key
          [] NeedsPlatformKey(r) -> GoTo(c, "platform key") /\ UNCHANGED key
          [] OTHER -> GoTo(c, AfterKey(c)) /\ key' = [key EXCEPT ![c] = KeyOf(r.agent)]
  /\ UNCHANGED <<world, todo, invitations, row, url, did, made, sent, done, faults>>

HasKey(p) == Complete(p)

ReadPlatformKey(c) ==
  /\ at[c] = "platform key"
  /\ LET p == rows[Platform]
     IN IF HasKey(p)
        THEN /\ key' = [key EXCEPT ![c] = IF Complete(p) THEN KeyOf(p.agent) ELSE NoKey]
             /\ GoTo(c, AfterKey(c))
        ELSE GoTo(c, "failed") /\ UNCHANGED key
  /\ UNCHANGED <<world, todo, invitations, row, url, did, made, sent, done, faults>>

-----------------------------------------------------------------------------
\* The wallets the address and the key give access to.
Reached(c) ==
  {w \in wallets : /\ w.agent = url[c].agent /\ w.tenant = url[c].tenant
                   /\ key[c] = KeyOf(w.agent)}

Fault == faults < MaxFaults /\ faults' = faults + 1

\* The agent carries the call out, or not; its answer may be lost.
Call(c) ==
  /\ at[c] = "call"
  /\ sent' = sent \union {<<c, url[c].agent, key[c]>>}
  /\ IF Command[op(c)].to = "agent"
     THEN /\ GoTo(c, IF key[c] = KeyOf(url[c].agent) THEN "answered" ELSE "failed")
          /\ UNCHANGED <<done, made, faults>>
     ELSE IF Reached(c) = {}
     THEN GoTo(c, "failed") /\ UNCHANGED <<done, made, faults>>
     ELSE \E w \in Reached(c) :
            /\ done' = done \union {<<c, w, did[c]>>}
            /\ \/ /\ GoTo(c, IF op(c) = "invite" THEN "shorten" ELSE "answered")
                  /\ made' = [made EXCEPT ![c] = w] /\ UNCHANGED faults
               \/ Fault /\ GoTo(c, "failed") /\ UNCHANGED made
  /\ UNCHANGED <<world, todo, invitations, row, url, key, did>>

\* The agent is down, or the call is lost on the way to the service.
Lost(c) ==
  /\ at[c] \in {"key", "call", "shorten"} /\ Fault /\ GoTo(c, "failed")
  /\ UNCHANGED <<world, todo, invitations, registers, sent, done>>

\* The object store keeps the invitation and gives it a short address.
Shorten(c) ==
  /\ at[c] = "shorten" /\ GoTo(c, "save")
  /\ UNCHANGED <<world, todo, invitations, registers, sent, done, faults>>

\* The row that was read at first.
AgentOf(c) == row[c].n

\* The row must still be there: the invitation refers to it.
SaveInvitation(c) ==
  /\ at[c] = "save"
  /\ LET r == rows[org(c)]
     IN IF Exists(r) /\ r.n = AgentOf(c)
        THEN /\ invitations' = [invitations EXCEPT ![org(c)] =
                                  Append(@, [n |-> AgentOf(c), wallet |-> made[c]])]
             /\ GoTo(c, "answered")
        ELSE GoTo(c, "failed") /\ UNCHANGED invitations
  /\ UNCHANGED <<world, todo, registers, sent, done, faults>>

-----------------------------------------------------------------------------
(* The wallets change under the calls.                                     *)
OnTheWay(c, o) == at[c] \notin Ended /\ (org(c) = o \/ o = Platform)

Moves(o) == moved' = moved \union {c \in Calls : OnTheWay(c, o)}

calls == <<at, asked, todo, registers, sent, done, faults>>

\* The row, the DIDs and the invitations go, then the wallet itself.
DeleteWallet(o) ==
  /\ o \in Movers /\ Complete(rows[o])
  /\ Cardinality({x \in Orgs \X (1 .. MaxMoves) : x[2] <= times[x[1]]}) < MaxMoves
  /\ rows' = [rows EXCEPT ![o] = NoRow] /\ times' = [times EXCEPT ![o] = @ + 1]
  /\ invitations' = [invitations EXCEPT ![o] = <<>>]
  /\ Moves(o)
  /\ UNCHANGED <<wallets, held, calls>>

RemoveWallet(w) ==
  /\ w \notin {rows[o].wallet : o \in {o \in Orgs : Exists(rows[o])}}
  /\ wallets' = IF w.tenant = Own THEN {v \in wallets : v.agent # w.agent} ELSE wallets \ {w}
  /\ UNCHANGED <<rows, times, invitations, moved, held, calls>>

\* A wallet is made, somewhere else: a row without an agent at first.
StartWallet(o) ==
  /\ o \in Movers /\ rows[o] = NoRow
  /\ rows' = [rows EXCEPT ![o] = Half(times[o])]
  /\ UNCHANGED <<times, wallets, invitations, moved, held, calls>>

FinishWallet(o, type, a) ==
  /\ rows[o].type = "half"
  /\ IF type = "shared"
     THEN /\ o # Platform /\ Complete(rows[Platform]) /\ a = rows[Platform].agent
          /\ rows[Platform].wallet \in wallets
     ELSE a \notin {w.agent : w \in wallets}
                   \union {rows[q].agent : q \in {q \in Orgs : Complete(rows[q])}}
  /\ rows' = [rows EXCEPT ![o] = Row(o, type, a, times[o])]
  /\ wallets' = wallets \union {Wallet(o, type, a, times[o])}
  /\ held' = IF type = "shared" THEN held ELSE [held EXCEPT ![a] = @ \union {o}]
  /\ Moves(o)
  /\ UNCHANGED <<times, invitations, calls>>

Step(c) ==
  \/ ReadRow(c) \/ ReadEndpoint(c) \/ ReadType(c) \/ ReadTenant(c)
  \/ ReadInvitationDid(c) \/ ReadKey(c) \/ ReadPlatformKey(c) \/ ReadPrimaryDid(c)
  \/ Call(c) \/ Shorten(c) \/ SaveInvitation(c)

Next ==
  \/ \E c \in Calls : Ask(c) \/ Step(c) \/ Lost(c)
  \/ \E o \in Orgs : DeleteWallet(o) \/ StartWallet(o)
  \/ \E w \in wallets : RemoveWallet(w)
  \/ \E o \in Orgs, type \in {"shared", "dedicated"}, a \in Agents : FinishWallet(o, type, a)

Spec == Init /\ [][Next]_vars

\* The services go on; requests, faults and changes of a wallet need not come.
FairSpec == Spec /\ \A c \in Calls : WF_vars(Step(c))

-----------------------------------------------------------------------------
(* Properties.                                                             *)

\* Every register has its type, and no agent is called without a key.
TypeOK ==
  /\ \A o \in Orgs : rows[o].type \in {"none", "half", "shared", "dedicated"}
  /\ \A w \in wallets : w.org \in Orgs /\ w.agent \in Agents
  /\ asked \in Plans
  /\ \A c \in Calls :
       /\ at[c] \in {"idle", "refused", "read", "tenant", "did", "key", "platform key", "call",
                     "shorten", "save", "answered", "failed"}
       /\ todo[c] \subseteq {"row", "endpoint", "type"}
  /\ \A s \in sent : s[1] \in Calls /\ \E a \in Agents : s[3] = KeyOf(a)
  /\ faults \in 0 .. MaxFaults

\* A call is carried out in a wallet of the organisation it was asked for, in
\* particular never in the wallet of the agent that holds the tenant.  The
\* ledger services, which read the row piece by piece, are the exception when
\* the wallet is changed meanwhile, and so is an agent that was dedicated to the
\* organisation and is another one's by the time of the call.
OwnWallet ==
  \A d \in done : \/ d[2].org = org(d[1])
                  \/ Ops[op(d[1])].reads = TwoReads /\ d[1] \in moved
                  \/ {d[2].org, org(d[1])} \subseteq held[d[2].agent] /\ d[1] \in moved

\* A key is shown to no agent but its own, unless a wallet was changed while
\* the call was made or the platform's agent is no longer the one the shared
\* wallets were made at.
KeyFits ==
  \A s \in sent : \/ s[3] = KeyOf(s[2])
                  \/ s[1] \in moved
                  \/ times[Platform] > 0

\* The invitations of an organisation were made in the wallet it has now.
InvitationsOfWallet ==
  \A o \in Orgs : \A i \in 1 .. Len(invitations[o]) :
    Complete(rows[o]) /\ invitations[o][i].wallet = rows[o].wallet

\* A DID handed over with a call is one of the wallet the call goes to, unless
\* the wallet was changed meanwhile.
DidIsKnown ==
  \A d \in done : d[3] # NoWallet => d[3] = d[2] \/ d[1] \in moved

\* A request that was let in and is not answered yet.
Underway(c) == at[c] \notin Ended

=============================================================================
