----------------------- MODULE ExchangeRecordsProofs -----------------------
(***************************************************************************)
(* What TLAPS proves of ExchangeRecords for all exchanges, any number of   *)
(* states and retries, and any number of failures and deletions.           *)
(***************************************************************************)
EXTENDS ExchangeRecords, TLAPS

-----------------------------------------------------------------------------
\* The invariants behind the theorems.

\* An event was sent exactly if its exchange has come that far, and stored or
\* not exactly if the gateway has got beyond storing it.
EventsSent ==
  \A x \in Exchanges, s \in States :
    /\ (pc[<<x, s>>] = "none") = (s > progress[x])
    /\ (outcome[<<x, s>>] = "none") = (pc[<<x, s>>] \in {"none", "store"})

\* As long as no event has overtaken another one, only the last one is open.
OthersAnswered ==
  \A x \in Exchanges, s \in States :
    ~crossed[x] /\ s < progress[x] => pc[<<x, s>>] = "over"

\* A row never shows a state its exchange has not reached, shows no earlier
\* one than any stored event unless events overtook one another or the row was
\* deleted, and a credential's row names its schema as its last event did.
RowsFollow ==
  /\ \A x \in Exchanges :
       /\ row[x].state <= progress[x]
       /\ KindOf[x] = "credential" /\ row[x].state # 0 => row[x].named = (row[x].state \in Naming)
  /\ \A x \in Exchanges, s \in States :
       outcome[<<x, s>>] = "stored" /\ ~crossed[x] /\ ~wiped[x] => row[x].state >= s

\* The calls of the organisation's webhook for an event.
CallsCounted ==
  \A e \in Events :
    /\ pc[e] \in {"none", "store", "url"} => attempts[e] = 0
    /\ pc[e] = "post" => attempts[e] <= Retries
    /\ heard[e] <= attempts[e] /\ unseen[e] <= heard[e]

\* Until the gateway has done with an event, the organisation has received it
\* only with answers that were lost; afterwards once more at most.
HeardAsSeen ==
  \A e \in Events :
    /\ pc[e] # "over" => heard[e] = unseen[e]
    /\ heard[e] <= 1 + unseen[e]

-----------------------------------------------------------------------------
\* Type correctness.

\* Every initial state is well typed.
LEMMA InitTypeOK == Init => TypeOK
<1> SUFFICES ASSUME Init PROVE TypeOK
  OBVIOUS
<1>1. /\ 0 \in 0..LastState /\ 0 \in 0..(Retries + 1)
      /\ 0 \in 0..MaxFaults /\ 0 \in 0..MaxWipes
  BY ConstantsAssumption
<1>2. row \in [Exchanges -> [state : 0..LastState, named : BOOLEAN]]
  BY <1>1 DEF Init, NoRow
<1> QED
  BY <1>1, <1>2 DEF Init, TypeOK

\* Every step keeps the types; the attempts stay within bounds because they
\* are counted.
LEMMA NextTypeOK == TypeOK /\ CallsCounted /\ [Next]_vars => TypeOK'
<1> SUFFICES ASSUME TypeOK, CallsCounted, [Next]_vars PROVE TypeOK'
  OBVIOUS
<1> USE ConstantsAssumption DEF TypeOK, delivery
<1>0. CASE UNCHANGED vars
  BY <1>0 DEF vars
<1>1. ASSUME NEW x \in Exchanges, Advance(x) PROVE TypeOK'
  BY <1>1 DEF Advance, States, Events
<1>2. CASE RegisterWebhook
  BY <1>2 DEF RegisterWebhook
<1>3. ASSUME NEW k \in Kinds, Wipe(k) PROVE TypeOK'
  BY <1>3 DEF Wipe, NoRow
<1>4. ASSUME NEW e \in Events PROVE /\ e[1] \in Exchanges /\ e[2] \in 0..LastState
                                   /\ attempts[e] \in Nat /\ heard[e] \in Nat /\ unseen[e] \in Nat
  BY <1>4 DEF Events, States
<1>5. ASSUME NEW e \in Events, StoreConnection(e) PROVE TypeOK'
  BY <1>4, <1>5 DEF StoreConnection, Move, Write
<1>6. ASSUME NEW e \in Events, StoreCredential(e) PROVE TypeOK'
  BY <1>4, <1>6 DEF StoreCredential, Move, Write
<1>7. ASSUME NEW e \in Events, StorePresentation(e) PROVE TypeOK'
  <2>1. row[e[1]].named \in BOOLEAN
    BY <1>4
  <2>2. (IF row[e[1]] = NoRow THEN e[2] \in Naming ELSE row[e[1]].named) \in BOOLEAN
    <3>1. CASE row[e[1]] = NoRow
      BY <3>1
    <3>2. CASE row[e[1]] # NoRow
      BY <2>1, <3>2
    <3> QED
      BY <3>1, <3>2
  <2> QED
    BY <1>4, <1>7, <2>2 DEF StorePresentation, Move, Write
<1>8. ASSUME NEW e \in Events, StoreFails(e) PROVE TypeOK'
  BY <1>8 DEF StoreFails, Move
<1>9. ASSUME NEW e \in Events, FindUrl(e) \/ NoUrl(e) PROVE TypeOK'
  BY <1>9 DEF FindUrl, NoUrl, Move
<1>10. ASSUME NEW e \in Events, Accepted(e) \/ Refused(e) \/ AnswerLost(e) PROVE TypeOK'
  <2>1. attempts[e] <= Retries /\ heard[e] <= attempts[e] /\ unseen[e] <= heard[e]
    BY <1>10 DEF CallsCounted, Accepted, Refused, AnswerLost, Move
  <2>2. NextTry(e) \in {"post", "over"}
    BY DEF NextTry
  <2>3. /\ attempts[e] + 1 \in 0..(Retries + 1)
        /\ heard[e] + 1 \in 0..(Retries + 1) /\ unseen[e] + 1 \in 0..(Retries + 1)
    BY <1>4, <2>1
  <2>4. CASE Accepted(e)
    BY <2>3, <2>4 DEF Accepted, Move
  <2>5. CASE Refused(e)
    BY <2>2, <2>3, <2>5 DEF Refused, Move
  <2>6. CASE AnswerLost(e)
    BY <2>2, <2>3, <2>6 DEF AnswerLost, Move
  <2> QED
    BY <1>10, <2>4, <2>5, <2>6
<1> QED
  BY <1>0, <1>1, <1>2, <1>3, <1>5, <1>6, <1>7, <1>8, <1>9, <1>10 DEF Next, Handle

-----------------------------------------------------------------------------
\* What the gateway does with one event.

\* An event is a pair of an exchange and a state.
LEMMA EventIsPair ==
  ASSUME NEW e \in Events
  PROVE  /\ e[1] \in Exchanges /\ e[2] \in States /\ e[2] \in Nat
         /\ e = <<e[1], e[2]>>
  BY ConstantsAssumption DEF Events, States

\* Handling an event leaves the exchanges and all other events alone; it moves
\* this one on, and takes it from the states where it is not stored to those
\* where it is, or has failed to be.
LEMMA HandleMoves ==
  ASSUME TypeOK, EventsSent, NEW e \in Events, Handle(e)
  PROVE  /\ progress' = progress /\ crossed' = crossed
         /\ pc[e] \in {"store", "url", "post"} /\ pc'[e] \in {"url", "post", "over"}
         /\ outcome'[e] # "none"
         /\ \A f \in Events \ {e} : pc'[f] = pc[f] /\ outcome'[f] = outcome[f]
<1>1. CASE StoreConnection(e) \/ StoreCredential(e) \/ StorePresentation(e) \/ StoreFails(e)
  BY <1>1 DEF TypeOK, StoreConnection, StoreCredential, StorePresentation, StoreFails, Move, Write
<1>2. CASE FindUrl(e) \/ NoUrl(e) \/ Accepted(e) \/ Refused(e) \/ AnswerLost(e)
  <2>1. outcome' = outcome
    BY <1>2 DEF FindUrl, NoUrl, Accepted, Refused, AnswerLost
  <2>2. pc[e] \in {"url", "post"}
    BY <1>2 DEF FindUrl, NoUrl, Accepted, Refused, AnswerLost, Move
  <2>3. outcome[e] # "none"
    BY <2>2, EventIsPair DEF EventsSent
  <2> QED
    BY <1>2, <2>1, <2>2, <2>3
       DEF TypeOK, FindUrl, NoUrl, Accepted, Refused, AnswerLost, Move, NextTry, delivery
<1> QED
  BY <1>1, <1>2 DEF Handle

-----------------------------------------------------------------------------
\* Each part of the invariant holds at first and is kept by every step.

LEMMA InitParts == Init => EventsSent /\ OthersAnswered /\ RowsFollow /\ CallsCounted /\ HeardAsSeen
<1> SUFFICES ASSUME Init
             PROVE  EventsSent /\ OthersAnswered /\ RowsFollow /\ CallsCounted /\ HeardAsSeen
  OBVIOUS
<1> USE ConstantsAssumption
<1>1. EventsSent /\ OthersAnswered
  BY DEF Init, EventsSent, OthersAnswered, States, Events
<1>2. RowsFollow
  BY DEF Init, RowsFollow, States, Events, NoRow
<1>3. CallsCounted /\ HeardAsSeen
  BY DEF Init, CallsCounted, HeardAsSeen
<1> QED
  BY <1>1, <1>2, <1>3

LEMMA EventsStep ==
  ASSUME TypeOK, EventsSent, OthersAnswered, [Next]_vars
  PROVE  EventsSent' /\ OthersAnswered'
<1> USE ConstantsAssumption
<1>1. CASE UNCHANGED <<progress, pc, outcome, crossed>>
  BY <1>1 DEF EventsSent, OthersAnswered
<1>2. ASSUME NEW x \in Exchanges, Advance(x) PROVE EventsSent' /\ OthersAnswered'
  <2> DEFINE s == progress[x] + 1
  <2>1. s \in States /\ <<x, s>> \in Events /\ progress[x] \in Nat
    BY <1>2 DEF Advance, TypeOK, States, Events
  <2>2. /\ progress' = [progress EXCEPT ![x] = s]
        /\ pc' = [pc EXCEPT ![<<x, s>>] = "store"]
        /\ crossed' = [crossed EXCEPT ![x] = @ \/ InFlight(x)]
        /\ outcome' = outcome
    BY <1>2 DEF Advance
  <2>3. ASSUME NEW y \in Exchanges, NEW t \in States
        PROVE  /\ <<y, t>> \in Events /\ t \in Nat /\ progress[y] \in Nat
               /\ progress'[y] = IF y = x THEN s ELSE progress[y]
               /\ pc'[<<y, t>>] = IF y = x /\ t = s THEN "store" ELSE pc[<<y, t>>]
    BY <2>2 DEF TypeOK, States, Events
  <2>0. ASSUME NEW y \in Exchanges, ~crossed'[y]
        PROVE  ~crossed[y] /\ (y = x => ~InFlight(x))
    <3>1. crossed'[y] = IF y = x THEN (crossed[y] \/ InFlight(x)) ELSE crossed[y]
      BY <2>2, Zenon DEF TypeOK
    <3> QED
      BY <2>0, <3>1, Zenon
  <2>4. EventsSent'
    <3> SUFFICES ASSUME NEW y \in Exchanges, NEW t \in States
                 PROVE  /\ (pc'[<<y, t>>] = "none") = (t > progress'[y])
                        /\ (outcome'[<<y, t>>] = "none") = (pc'[<<y, t>>] \in {"none", "store"})
      BY DEF EventsSent
    <3>1. /\ (pc[<<y, t>>] = "none") = (t > progress[y])
          /\ (outcome[<<y, t>>] = "none") = (pc[<<y, t>>] \in {"none", "store"})
      BY DEF EventsSent
    <3>2. CASE y = x /\ t = s
      BY <2>1, <2>2, <2>3, <3>1, <3>2
    <3>3. CASE y # x \/ t # s
      BY <2>1, <2>2, <2>3, <3>1, <3>3
    <3> QED
      BY <3>2, <3>3
  <2>5. ASSUME NEW y \in Exchanges, NEW t \in States, ~crossed'[y], t < progress'[y]
        PROVE  pc'[<<y, t>>] = "over"
    <3>1. CASE y # x
      BY <2>3, <2>5, <2>0, <3>1 DEF OthersAnswered
    <3>2. CASE y = x
      <4>1. ~InFlight(x) /\ t <= progress[x] /\ t # s
        <5>1. ~InFlight(x)
          BY <2>0, <2>5, <3>2
        <5>2. t < s /\ t \in Nat /\ progress[x] \in Nat
          BY <2>1, <2>3, <2>5, <3>2
        <5> QED
          BY <5>1, <5>2
      <4>2. pc[<<x, t>>] \in {"none", "over"} /\ pc[<<x, t>>] # "none"
        BY <2>3, <3>2, <4>1 DEF InFlight, EventsSent
      <4> QED
        BY <2>3, <3>2, <4>1, <4>2
    <3> QED
      BY <3>1, <3>2
  <2> QED
    BY <2>4, <2>5 DEF OthersAnswered
<1>3. ASSUME NEW e \in Events, Handle(e) PROVE EventsSent' /\ OthersAnswered'
  <2>1. ASSUME NEW x \in Exchanges, NEW s \in States
        PROVE  /\ <<x, s>> \in Events
               /\ (pc'[<<x, s>>] = "none") = (pc[<<x, s>>] = "none")
               /\ (outcome'[<<x, s>>] = "none") = (pc'[<<x, s>>] \in {"none", "store"})
               /\ pc[<<x, s>>] = "over" => pc'[<<x, s>>] = "over"
    <3>1. <<x, s>> \in Events
      BY DEF Events
    <3>2. CASE <<x, s>> = e
      BY <1>3, <3>1, <3>2, HandleMoves
    <3>3. CASE <<x, s>> # e
      BY <1>3, <3>1, <3>3, HandleMoves DEF EventsSent
    <3> QED
      BY <3>1, <3>2, <3>3
  <2>2. progress' = progress /\ crossed' = crossed
    BY <1>3, HandleMoves
  <2> QED
    BY <2>1, <2>2 DEF EventsSent, OthersAnswered
<1>4. CASE RegisterWebhook \/ \E k \in Kinds : Wipe(k)
  BY <1>1, <1>4 DEF RegisterWebhook, Wipe
<1> QED
  BY <1>1, <1>2, <1>3, <1>4 DEF Next, vars

LEMMA RowsStep ==
  ASSUME TypeOK, EventsSent, OthersAnswered, RowsFollow, [Next]_vars
  PROVE  RowsFollow'
<1> USE ConstantsAssumption
<1>1. CASE UNCHANGED <<progress, row, outcome, crossed, wiped>>
  BY <1>1 DEF RowsFollow
<1>2. ASSUME NEW x \in Exchanges, Advance(x) PROVE RowsFollow'
  <2>1. \A y \in Exchanges : progress[y] \in Nat /\ row[y].state \in Nat
    BY DEF TypeOK
  <2>2. /\ UNCHANGED <<row, outcome, wiped>>
        /\ \A y \in Exchanges : progress'[y] >= progress[y] /\ progress'[y] \in Nat
        /\ \A y \in Exchanges : ~crossed'[y] => ~crossed[y]
    BY <1>2, <2>1 DEF Advance, TypeOK
  <2> QED
    BY <2>1, <2>2 DEF RowsFollow
<1>3. ASSUME NEW e \in Events, pc[e] = "store",
             UNCHANGED <<progress, crossed>>,
             outcome' = [outcome EXCEPT ![e] = "stored"], wiped' = [wiped EXCEPT ![e[1]] = FALSE],
             row'[e[1]].state = e[2],
             KindOf[e[1]] = "credential" => row'[e[1]].named = (e[2] \in Naming),
             \A y \in Exchanges \ {e[1]} : row'[y] = row[y]
      PROVE  RowsFollow'
  <2> DEFINE x == e[1]
             s == e[2]
  <2>1. x \in Exchanges /\ s \in States /\ s \in Nat /\ e = <<x, s>>
    BY EventIsPair
  <2>2. progress[x] \in Nat /\ s <= progress[x]
    BY <1>3, <2>1 DEF EventsSent, TypeOK
  <2>3. ~crossed[x] => s = progress[x]
    BY <1>3, <2>1, <2>2 DEF OthersAnswered
  <2>5. ASSUME NEW y \in Exchanges
        PROVE  /\ row'[y].state <= progress'[y]
               /\ KindOf[y] = "credential" /\ row'[y].state # 0
                    => row'[y].named = (row'[y].state \in Naming)
    BY <1>3, <2>1, <2>2 DEF RowsFollow, TypeOK
  <2>6. ASSUME NEW y \in Exchanges, NEW t \in States,
               outcome'[<<y, t>>] = "stored", ~crossed'[y], ~wiped'[y]
        PROVE  row'[y].state >= t
    <3>1. <<y, t>> \in Events /\ t \in Nat
      BY DEF Events, States
    <3>2. CASE y = x
      <4>1. t <= progress[x]
        BY <1>3, <2>1, <2>2, <2>6, <3>1, <3>2 DEF EventsSent, TypeOK
      <4> QED
        BY <1>3, <2>1, <2>3, <2>6, <3>2, <4>1 DEF TypeOK
    <3>3. CASE y # x
      <4>1. <<y, t>> # e
        BY <2>1, <3>3
      <4> QED
        BY <1>3, <2>1, <2>6, <3>1, <3>3, <4>1 DEF RowsFollow, TypeOK
    <3> QED
      BY <3>2, <3>3
  <2> QED
    BY <2>5, <2>6 DEF RowsFollow
<1>4. ASSUME NEW e \in Events, Handle(e) PROVE RowsFollow'
  <2>1. CASE StoreConnection(e)
    BY <1>3, <2>1, EventIsPair DEF StoreConnection, Move, Write, TypeOK
  <2>2. CASE StoreCredential(e)
    BY <1>3, <2>2, EventIsPair DEF StoreCredential, Move, Write, TypeOK
  <2>3. CASE StorePresentation(e)
    BY <1>3, <2>3, EventIsPair DEF StorePresentation, Move, Write, TypeOK
  <2>4. CASE StoreFails(e)
    <3>1. /\ UNCHANGED <<progress, row, crossed, wiped>>
          /\ \A f \in Events : outcome'[f] = "stored" => outcome[f] = "stored"
      BY <2>4 DEF StoreFails, TypeOK
    <3> QED
      BY <3>1 DEF RowsFollow, Events
  <2>5. CASE FindUrl(e) \/ NoUrl(e) \/ Accepted(e) \/ Refused(e) \/ AnswerLost(e)
    BY <1>1, <2>5 DEF FindUrl, NoUrl, Accepted, Refused, AnswerLost
  <2> QED
    BY <1>4, <2>1, <2>2, <2>3, <2>4, <2>5 DEF Handle
<1>5. ASSUME NEW k \in Kinds, Wipe(k) PROVE RowsFollow'
  <2>1. UNCHANGED <<progress, outcome, crossed>>
    BY <1>5 DEF Wipe
  <2>2. ASSUME NEW y \in Exchanges
        PROVE  /\ row'[y] = (IF y \in RowsOf(k) THEN NoRow ELSE row[y])
               /\ ~wiped'[y] => ~wiped[y] /\ y \notin RowsOf(k)
               /\ progress[y] \in Nat
    <3>1. wiped'[y] = (wiped[y] \/ y \in RowsOf(k))
      BY <1>5, Zenon DEF Wipe
    <3>2. ~wiped'[y] => ~wiped[y] /\ y \notin RowsOf(k)
      BY <3>1, Zenon
    <3>3. row'[y] = (IF y \in RowsOf(k) THEN NoRow ELSE row[y])
      BY <1>5 DEF Wipe
    <3> QED
      BY <3>2, <3>3 DEF TypeOK
  <2> QED
    BY <2>1, <2>2 DEF RowsFollow, NoRow
<1>6. CASE RegisterWebhook
  BY <1>1, <1>6 DEF RegisterWebhook
<1> QED
  BY <1>1, <1>2, <1>4, <1>5, <1>6 DEF Next, vars

LEMMA CallsStep ==
  ASSUME TypeOK, EventsSent, CallsCounted, HeardAsSeen, [Next]_vars
  PROVE  CallsCounted' /\ HeardAsSeen'
<1> USE ConstantsAssumption
<1>1. CASE UNCHANGED <<pc, delivery>>
  BY <1>1 DEF CallsCounted, HeardAsSeen, delivery
<1>2. ASSUME NEW x \in Exchanges, Advance(x) PROVE CallsCounted' /\ HeardAsSeen'
  <2> DEFINE e == <<x, progress[x] + 1>>
  <2>1. e \in Events /\ pc[e] = "none"
    BY <1>2 DEF Advance, TypeOK, States, Events, EventsSent
  <2>2. pc' = [pc EXCEPT ![e] = "store"] /\ UNCHANGED delivery
    BY <1>2 DEF Advance
  <2>3. /\ attempts' = attempts /\ heard' = heard /\ unseen' = unseen
        /\ \A f \in Events : pc'[f] = IF f = e THEN "store" ELSE pc[f]
    BY <2>2 DEF TypeOK, delivery
  <2> QED
    BY <2>1, <2>3 DEF CallsCounted, HeardAsSeen
<1>3. ASSUME NEW e \in Events, Handle(e) PROVE CallsCounted' /\ HeardAsSeen'
  <2>1. \A f \in Events : attempts[f] \in Nat /\ heard[f] \in Nat /\ unseen[f] \in Nat
    BY DEF TypeOK
  <2>2. CASE StoreConnection(e) \/ StoreCredential(e) \/ StorePresentation(e) \/ StoreFails(e)
             \/ FindUrl(e) \/ NoUrl(e)
    <3>1. /\ attempts' = attempts /\ heard' = heard /\ unseen' = unseen
          /\ pc[e] \in {"store", "url"}
          /\ pc' = [pc EXCEPT ![e] = pc'[e]]
      BY <2>2 DEF StoreConnection, StoreCredential, StorePresentation, StoreFails, FindUrl, NoUrl,
                  Move, Write, delivery, TypeOK
    <3>2. \A f \in Events : pc'[f] = IF f = e THEN pc'[e] ELSE pc[f]
      BY <3>1 DEF TypeOK
    <3> QED
      BY <2>1, <3>1, <3>2 DEF CallsCounted, HeardAsSeen
  <2>3. CASE Accepted(e)
    BY <2>1, <2>3 DEF Accepted, Move, CallsCounted, HeardAsSeen, TypeOK
  <2>4. CASE Refused(e)
    BY <2>1, <2>4 DEF Refused, Move, NextTry, CallsCounted, HeardAsSeen, TypeOK
  <2>5. CASE AnswerLost(e)
    BY <2>1, <2>5 DEF AnswerLost, Move, NextTry, CallsCounted, HeardAsSeen, TypeOK
  <2> QED
    BY <1>3, <2>2, <2>3, <2>4, <2>5 DEF Handle
<1>4. CASE RegisterWebhook \/ \E k \in Kinds : Wipe(k)
  BY <1>1, <1>4 DEF RegisterWebhook, Wipe
<1> QED
  BY <1>1, <1>2, <1>3, <1>4 DEF Next, vars, delivery

-----------------------------------------------------------------------------
\* The theorems.

\* The inductive invariant.
IInv ==
  /\ TypeOK
  /\ EventsSent /\ OthersAnswered
  /\ RowsFollow
  /\ CallsCounted /\ HeardAsSeen

LEMMA Invariance == Spec => []IInv
<1>1. Init => IInv
  BY InitTypeOK, InitParts DEF IInv
<1>2. IInv /\ [Next]_vars => IInv'
  BY NextTypeOK, EventsStep, RowsStep, CallsStep DEF IInv
<1> QED
  BY <1>1, <1>2, PTL DEF Spec

\* The variables of ExchangeRecords keep their types.
THEOREM TypeCorrect == Spec => []TypeOK
<1>1. IInv => TypeOK
  BY DEF IInv
<1> QED
  BY <1>1, Invariance, PTL

\* Once every event of an exchange is answered, its row shows where the
\* exchange is, unless events overtook one another, the last one could not be
\* stored, or the row was deleted (saveIssuedCredentialDetails and its like).
THEOREM SettledRowsAreCurrent == Spec => []SettledIsCurrent
<1>1. IInv => SettledIsCurrent
  <2> SUFFICES ASSUME IInv, NEW x \in Exchanges,
                      progress[x] > 0, ~InFlight(x), ~crossed[x],
                      outcome[<<x, progress[x]>>] # "failed", ~wiped[x]
               PROVE  /\ row[x].state = progress[x]
                      /\ KindOf[x] = "credential" => row[x].named = (progress[x] \in Naming)
    BY DEF SettledIsCurrent
  <2>1. progress[x] \in States /\ progress[x] \in Nat /\ <<x, progress[x]>> \in Events
    BY ConstantsAssumption DEF IInv, TypeOK, States, Events
  <2>2. pc[<<x, progress[x]>>] = "over"
    BY <2>1 DEF IInv, InFlight, EventsSent
  <2>3. outcome[<<x, progress[x]>>] = "stored"
    BY <2>1, <2>2 DEF IInv, TypeOK, EventsSent
  <2>4. row[x].state \in Nat /\ row[x].state <= progress[x] /\ row[x].state >= progress[x]
    BY <2>1, <2>3 DEF IInv, RowsFollow, TypeOK
  <2> QED
    BY <2>1, <2>4 DEF IInv, RowsFollow
<1> QED
  BY <1>1, Invariance, PTL

\* An organisation that was told of a state finds the row at that state or
\* further, with the same exceptions: webhooks are called after the row is written.
THEOREM HeardStatesAreVisible == Spec => []HeardIsVisible
<1>1. IInv => HeardIsVisible
  <2> SUFFICES ASSUME IInv, NEW e \in Events, heard[e] > 0,
                      outcome[e] # "failed", ~crossed[e[1]], ~wiped[e[1]]
               PROVE  row[e[1]].state >= e[2]
    BY DEF HeardIsVisible
  <2>1. e[1] \in Exchanges /\ e[2] \in States /\ e = <<e[1], e[2]>>
    BY EventIsPair
  <2>2. pc[e] \notin {"none", "store"}
    BY DEF IInv, CallsCounted, TypeOK
  <2>3. outcome[e] = "stored"
    BY <2>1, <2>2 DEF IInv, EventsSent, TypeOK
  <2> QED
    BY <2>1, <2>3 DEF IInv, RowsFollow
<1> QED
  BY <1>1, Invariance, PTL

\* The retries of the webhook make an organisation hear of an event twice only
\* if its own answer was lost.
THEOREM HeardOnlyOnce == Spec => []HeardOnce
<1>1. IInv => HeardOnce
  BY DEF IInv, HeardAsSeen, HeardOnce
<1> QED
  BY <1>1, Invariance, PTL

\* HeardKept: what an organisation hears is visible, and it hears it once.
THEOREM HeardIsKept == Spec => []HeardKept
<1>1. HeardIsVisible /\ HeardOnce => HeardKept
  BY DEF HeardKept
<1> QED
  BY <1>1, HeardStatesAreVisible, HeardOnlyOnce, PTL
=============================================================================
