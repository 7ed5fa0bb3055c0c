------------------------ MODULE CredentialDelivery ------------------------
(***************************************************************************)
(* What bulk issuance promises, with no queue, no worker and no crash: an  *)
(* entry of an upload is registered, the recipient is offered the          *)
(* credential, and only then is the entry closed and its claims            *)
(* forgotten; an upload is certified complete only when nobody in it was   *)
(* left out. An operator may withdraw uploads at any time.                 *)
(***************************************************************************)
CONSTANTS Files, Recipients

VARIABLES
  ledger,    \* how far each entry has come
  certified  \* uploads shown as completed

Entries   == Files \X Recipients
EntriesOf(f) == {f} \X Recipients
Init ==
  /\ ledger = [e \in Entries |-> "none"]
  /\ certified = {}

Advance(e, from, to) ==
  /\ ledger[e] = from
  /\ ledger' = [ledger EXCEPT ![e] = to]
  /\ UNCHANGED certified

Register(e) == Advance(e, "none", "open")
Offer(e)    == Advance(e, "open", "offered")
Close(e)    == Advance(e, "offered", "closed")

Certify(f) ==
  /\ \A e \in EntriesOf(f) : ledger[e] \in {"offered", "closed"}
  /\ certified' = certified \cup {f}
  /\ UNCHANGED ledger

\* The upload is worked on again: it is shown as complete no more.
Reopen(f) ==
  /\ certified' = certified \ {f}
  /\ UNCHANGED ledger

Withdraw(F) ==
  /\ ledger' = [e \in Entries |-> IF e[1] \in F THEN "withdrawn" ELSE ledger[e]]
  /\ certified' = certified \ F

Next ==
  \/ \E e \in Entries : Register(e) \/ Offer(e) \/ Close(e)
  \/ \E f \in Files : Certify(f) \/ Reopen(f)
  \/ \E F \in SUBSET Files : Withdraw(F)

Spec == Init /\ [][Next]_<<ledger, certified>>
=============================================================================
