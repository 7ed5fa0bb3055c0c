-------------------------- MODULE ExchangeRecords --------------------------
(***************************************************************************)
(* What the platform knows of the exchanges an agent has with wallets.     *)
(* The agent calls a webhook of the gateway at every change of state of a  *)
(* connection, a credential or a presentation; the gateway stores the      *)
(* event in a row, tells the webhook of the organisation, with retries,    *)
(* and answers. The agent does not wait for the answer.                    *)
(***************************************************************************)
EXTENDS Integers, FiniteSets

CONSTANTS
  Exchanges,
  KindOf,      \* what an exchange is about
  LastState,   \* states of an exchange are 1..LastState
  Naming,      \* the states whose events name the schema
  Retries,     \* attempts after the first one, 3 in the code
  MaxFaults,   \* bound: events that cannot be stored
  MaxWipes     \* bound: deletions of the records of a kind

Kinds == {"connection", "credential", "presentation"}

ASSUME ConstantsAssumption ==
  /\ KindOf \in [Exchanges -> Kinds]
  /\ LastState \in Nat \ {0}
  /\ Naming \subseteq 1..LastState
  /\ Retries \in Nat /\ MaxFaults \in Nat /\ MaxWipes \in Nat

States == 1..LastState
Events == Exchanges \X States
NoRow  == [state |-> 0, named |-> FALSE]

VARIABLES
  progress,   \* how far an exchange has come at the agent
  row,        \* the row of an exchange, with whether it names the schema
  hooked,     \* the organisation has registered a webhook
  pc,         \* how far the gateway has come with an event
  outcome,    \* whether an event was stored
  attempts,   \* calls of the organisation's webhook for an event
  heard,      \* those the organisation has received
  unseen,     \* those it has received and whose answer was lost
  crossed,    \* an event was sent before the one before it was answered
  wiped,      \* the row was deleted and not written since
  faults, wipes

vars == <<progress, row, hooked, pc, outcome, attempts, heard, unseen, crossed,
          wiped, faults, wipes>>

Init ==
  /\ progress = [x \in Exchanges |-> 0]
  /\ row = [x \in Exchanges |-> NoRow]
  /\ hooked = FALSE
  /\ pc = [e \in Events |-> "none"]
  /\ outcome = [e \in Events |-> "none"]
  /\ attempts = [e \in Events |-> 0]
  /\ heard = [e \in Events |-> 0]
  /\ unseen = [e \in Events |-> 0]
  /\ crossed = [x \in Exchanges |-> FALSE]
  /\ wiped = [x \in Exchanges |-> FALSE]
  /\ faults = 0 /\ wipes = 0

-----------------------------------------------------------------------------
InFlight(x) == \E s \in States : pc[<<x, s>>] \notin {"none", "over"}
RowsOf(k)   == {x \in Exchanges : KindOf[x] = k /\ row[x] # NoRow}
delivery    == <<attempts, heard, unseen>>

Move(e, from, to) ==
  /\ pc[e] = from
  /\ pc' = [pc EXCEPT ![e] = to]

\* The agent moves an exchange and calls the gateway.
Advance(x) ==
  LET s == progress[x] + 1 IN
  /\ s \in States
  /\ progress' = [progress EXCEPT ![x] = s]
  /\ pc' = [pc EXCEPT ![<<x, s>>] = "store"]
  /\ crossed' = [crossed EXCEPT ![x] = @ \/ InFlight(x)]
  /\ UNCHANGED <<row, hooked, outcome, delivery, wiped, faults, wipes>>

RegisterWebhook ==
  /\ ~hooked /\ hooked' = TRUE
  /\ UNCHANGED <<progress, row, pc, outcome, delivery, crossed, wiped, faults, wipes>>

-----------------------------------------------------------------------------
\* The event is stored: one row for an exchange, the last event wins.

Write(e, named) ==
  /\ row' = [row EXCEPT ![e[1]] = [state |-> e[2], named |-> named]]
  /\ outcome' = [outcome EXCEPT ![e] = "stored"]
  /\ wiped' = [wiped EXCEPT ![e[1]] = FALSE]
  /\ UNCHANGED <<progress, hooked, delivery, crossed, faults, wipes>>

\* saveConnectionWebhook: an update writes the state alone.
StoreConnection(e) ==
  /\ KindOf[e[1]] = "connection"
  /\ Move(e, "store", "url")
  /\ Write(e, FALSE)

\* Wrong on purpose: nobody waits for the row to be written.
NotAwaited(e) ==
  /\ KindOf[e[1]] = "credential"
  /\ Move(e, "store", "url")
  /\ UNCHANGED <<progress, row, hooked, outcome, delivery, crossed, wiped, faults, wipes>>

\* Wrong on purpose: the schema is that of the event that made the row.
FirstName(e) ==
  /\ KindOf[e[1]] = "credential"
  /\ Move(e, "store", "url")
  /\ Write(e, IF row[e[1]] = NoRow THEN e[2] \in Naming ELSE row[e[1]].named)

\* saveIssuedCredentialDetails: an update writes the schema too, or no name.
StoreCredential(e) ==
  /\ KindOf[e[1]] = "credential"
  /\ Move(e, "store", "url")
  /\ Write(e, e[2] \in Naming)

\* storeProofPresentation: the schema is that of the event that made the row.
StorePresentation(e) ==
  /\ KindOf[e[1]] = "presentation"
  /\ Move(e, "store", "url")
  /\ Write(e, IF row[e[1]] = NoRow THEN e[2] \in Naming ELSE row[e[1]].named)

\* The gateway logs what the service answers and goes on.
StoreFails(e) ==
  /\ Move(e, "store", "url")
  /\ outcome' = [outcome EXCEPT ![e] = "failed"]
  /\ faults < MaxFaults /\ faults' = faults + 1
  /\ UNCHANGED <<progress, row, hooked, delivery, crossed, wiped, wipes>>

-----------------------------------------------------------------------------
\* The organisation's webhook is looked up and called.

FindUrl(e) ==
  /\ hooked
  /\ Move(e, "url", "post")
  /\ UNCHANGED <<progress, row, hooked, outcome, delivery, crossed, wiped, faults, wipes>>

NoUrl(e) ==
  /\ ~hooked
  /\ Move(e, "url", "over")
  /\ UNCHANGED <<progress, row, hooked, outcome, delivery, crossed, wiped, faults, wipes>>

NextTry(e) == IF attempts[e] < Retries THEN "post" ELSE "over"

Accepted(e) ==
  /\ Move(e, "post", "over")
  /\ attempts' = [attempts EXCEPT ![e] = @ + 1]
  /\ heard' = [heard EXCEPT ![e] = @ + 1]
  /\ UNCHANGED <<progress, row, hooked, outcome, unseen, crossed, wiped, faults, wipes>>

Refused(e) ==
  /\ Move(e, "post", NextTry(e))
  /\ attempts' = [attempts EXCEPT ![e] = @ + 1]
  /\ UNCHANGED <<progress, row, hooked, outcome, heard, unseen, crossed, wiped, faults, wipes>>

AnswerLost(e) ==
  /\ Move(e, "post", NextTry(e))
  /\ attempts' = [attempts EXCEPT ![e] = @ + 1]
  /\ heard' = [heard EXCEPT ![e] = @ + 1]
  /\ unseen' = [unseen EXCEPT ![e] = @ + 1]
  /\ UNCHANGED <<progress, row, hooked, outcome, crossed, wiped, faults, wipes>>

-----------------------------------------------------------------------------
\* Rows of a kind are deleted while nothing of a later kind is there.
Wipe(k) ==
  /\ wipes < MaxWipes /\ wipes' = wipes + 1
  /\ k \in {"credential", "connection"} => RowsOf("presentation") = {}
  /\ k = "connection" => RowsOf("credential") = {}
  /\ row' = [x \in Exchanges |-> IF x \in RowsOf(k) THEN NoRow ELSE row[x]]
  /\ wiped' = [x \in Exchanges |-> wiped[x] \/ x \in RowsOf(k)]
  /\ RowsOf(k) # {}
  /\ UNCHANGED <<progress, hooked, pc, outcome, delivery, crossed, faults>>

Handle(e) ==
  \/ StoreConnection(e) \/ StoreCredential(e) \/ StorePresentation(e) \/ StoreFails(e)
  \/ FindUrl(e) \/ NoUrl(e)
  \/ Accepted(e) \/ Refused(e) \/ AnswerLost(e)

Next ==
  \/ \E x \in Exchanges : Advance(x)
  \/ \E e \in Events : Handle(e)
  \/ \E k \in Kinds : Wipe(k)
  \/ RegisterWebhook

\* A process that holds an event goes on; agent and people need not.
Fairness == \A e \in Events : WF_vars(Handle(e))
Spec     == Init /\ [][Next]_vars /\ Fairness

-----------------------------------------------------------------------------
TypeOK ==
  /\ progress \in [Exchanges -> 0..LastState]
  /\ row \in [Exchanges -> [state : 0..LastState, named : BOOLEAN]]
  /\ hooked \in BOOLEAN
  /\ pc \in [Events -> {"none", "store", "url", "post", "over"}]
  /\ outcome \in [Events -> {"none", "stored", "failed"}]
  /\ attempts \in [Events -> 0..(Retries + 1)]
  /\ heard \in [Events -> 0..(Retries + 1)] /\ unseen \in [Events -> 0..(Retries + 1)]
  /\ crossed \in [Exchanges -> BOOLEAN] /\ wiped \in [Exchanges -> BOOLEAN]
  /\ faults \in 0..MaxFaults /\ wipes \in 0..MaxWipes

\* Once the gateway has answered every event of an exchange, its row shows
\* where the exchange is, and a credential's row names its schema if that
\* event did: unless events overtook one another, the last one could not be
\* stored, or the row was deleted.
SettledIsCurrent ==
  \A x \in Exchanges :
    (progress[x] > 0 /\ ~InFlight(x) /\ ~crossed[x]) =>
      \/ outcome[<<x, progress[x]>>] = "failed" \/ wiped[x]
      \/ /\ row[x].state = progress[x]
         /\ KindOf[x] = "credential" => row[x].named = (progress[x] \in Naming)

\* An organisation that is told of a state finds the row at that state or
\* further, with the same exceptions: the row is written before the call.
HeardIsVisible ==
  \A e \in Events :
    heard[e] > 0 =>
      \/ outcome[e] = "failed" \/ crossed[e[1]] \/ wiped[e[1]]
      \/ row[e[1]].state >= e[2]

\* An organisation hears of an event twice only if its own answer was lost.
HeardOnce == \A e \in Events : heard[e] <= 1 + unseen[e]

\* What an organisation hears through its webhook is visible in its records,
\* and it hears it once, although the gateway repeats calls without an answer.
HeardKept == HeardIsVisible /\ HeardOnce
=============================================================================
