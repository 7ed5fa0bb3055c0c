------------------------------ MODULE Offers ------------------------------
(***************************************************************************)
(* Offers of credentials and requests for proofs that an organisation      *)
(* makes directly: several on connections at a time, several by e-mail,    *)
(* or a single one as a link. For each item the agent makes an offer; for  *)
(* an e-mail its invitation is shortened, written on the envelope that     *)
(* all requests of a service share, and sent. The request gets one         *)
(* answer.                                                                 *)
(***************************************************************************)
EXTENDS Integers, FiniteSets

CONSTANTS
  Batches,
  KindOf,      \* what a request is
  Asked,       \* the number of items of a request
  MaxFaults    \* bound: calls of agent, shortener or mail that fail

\* offer: credentials on connections     proof: proofs on connections
\* oobMail, proofMail: by e-mail         oobLink, proofLink: one invitation
Kinds  == {"offer", "proof", "oobMail", "proofMail", "oobLink", "proofLink"}
Mails  == {"oobMail", "proofMail"}
Links  == {"oobLink", "proofLink"}

(* What the constants have to be; the suites assume it of their instances. *)
ConstantsAssumption ==
  /\ KindOf \in [Batches -> Kinds]
  /\ Asked \in [Batches -> Nat]
  /\ \A b \in Batches : KindOf[b] \in Links => Asked[b] = 1
  /\ MaxFaults \in Nat

Largest  == CHOOSE n \in {Asked[b] : b \in Batches} : \A b \in Batches : Asked[b] <= n
Items    == {it \in Batches \X (1..Largest) : it[2] <= Asked[it[1]]}
Services == {"issuance", "verification"}
Nobody   == <<>>

Service(b) == IF KindOf[b] \in {"offer", "oobMail", "oobLink"} THEN "issuance" ELSE "verification"
ItemsOf(b) == {it \in Items : it[1] = b}

VARIABLES
  pc,         \* how far a request has come
  at,         \* the item it is at, for those that take one after the other
  made,       \* items the agent has made an offer for
  reported,   \* those the service knows of
  broken,     \* items that failed
  envelope,   \* the fields of a mail that a service fills in before sending
  posted,     \* mails: whom they went to and whose invitation they hold
  link,       \* the invitation and the deep link that a single offer returns
  answer,     \* what the request is told
  faults

vars == <<pc, at, made, reported, broken, envelope, posted, link, answer, faults>>

Init ==
  /\ pc = [b \in Batches |-> "idle"]
  /\ at = [b \in Batches |-> 1]
  /\ made = {} /\ reported = {} /\ broken = {}
  /\ envelope = [s \in Services |-> [to |-> Nobody, invitation |-> Nobody]]
  /\ posted = {}
  /\ link = [b \in Batches |-> [invitation |-> "none", deep |-> "none"]]
  /\ answer = [b \in Batches |-> "open"]
  /\ faults = 0

-----------------------------------------------------------------------------
Move(b, from, to) ==
  /\ pc[b] = from
  /\ pc' = [pc EXCEPT ![b] = to]

Fault == faults < MaxFaults /\ faults' = faults + 1

Tell(b, a) == answer' = [answer EXCEPT ![b] = a]

\* The gateway passes a request on.
Arrive(b, kinds) ==
  /\ KindOf[b] \in kinds
  /\ Move(b, "idle", "look")
  /\ UNCHANGED <<at, made, reported, broken, envelope, posted, link, answer, faults>>

AskOffers(b)   == Arrive(b, {"offer"})
AskByMail(b)   == Arrive(b, {"oobMail"})
AskLink(b)     == Arrive(b, {"oobLink"})
AskProofs(b)   == Arrive(b, {"proof"})
AskOobProof(b) == Arrive(b, {"proofMail", "proofLink"})

\* A request without what its type requires.
Reject(b) ==
  /\ Move(b, "idle", "over")
  /\ Tell(b, "refused")
  /\ UNCHANGED <<at, made, reported, broken, envelope, posted, link, faults>>

\* Which endpoint the agent has for the request.
LookUp(b) ==
  /\ Move(b, "look", CASE KindOf[b] = "offer" -> "all"
                       [] Asked[b] = 0        -> "done"
                       [] OTHER               -> "make")
  /\ UNCHANGED <<at, made, reported, broken, envelope, posted, link, answer, faults>>

\* No agent, no such type of agent, or a credential that its schema refuses.
Refuse(b) ==
  /\ Move(b, "look", "over")
  /\ Tell(b, "refused")
  /\ UNCHANGED <<at, made, reported, broken, envelope, posted, link, faults>>

-----------------------------------------------------------------------------
\* sendCredentialCreateOffer: all items at a time, each waited for.

Open(b) == ItemsOf(b) \ (reported \cup broken)

MakeOne(it) ==
  /\ pc[it[1]] = "all" /\ it \in Open(it[1])
  /\ made' = made \cup {it}
  /\ reported' = reported \cup {it}
  /\ UNCHANGED <<pc, at, broken, envelope, posted, link, answer, faults>>

\* Refused before or by the agent, or made and the answer lost.
OneFails(it) ==
  /\ pc[it[1]] = "all" /\ it \in Open(it[1])
  /\ Fault
  /\ made' \in {made, made \cup {it}}
  /\ broken' = broken \cup {it}
  /\ UNCHANGED <<pc, at, reported, envelope, posted, link, answer>>

Outcome(b) ==
  IF ItemsOf(b) \subseteq reported THEN "all"
  ELSE IF ItemsOf(b) \cap reported = {} THEN "none"
  ELSE "some"

\* Promise.allSettled: the answer waits for every item.
Settle(b) ==
  /\ Open(b) = {}
  /\ Move(b, "all", "over")
  /\ Tell(b, Outcome(b))
  /\ UNCHANGED <<at, made, reported, broken, envelope, posted, link, faults>>

-----------------------------------------------------------------------------
\* The others take one item after the other.

Item(b) == <<b, at[b]>>

\* An item is over; a delay, and the next one.
NextItem(b) ==
  /\ at' = [at EXCEPT ![b] = @ + 1]
  /\ pc' = [pc EXCEPT ![b] = IF at[b] < Asked[b] THEN "make" ELSE "done"]

MakeOffer(b) ==
  /\ pc[b] = "make"
  /\ made' = made \cup {Item(b)}
  /\ reported' = reported \cup {Item(b)}
  /\ IF KindOf[b] = "proof" THEN NextItem(b) ELSE pc' = [pc EXCEPT ![b] = "shorten"] /\ at' = at
  /\ UNCHANGED <<broken, envelope, posted, link, answer, faults>>

Shorten(b) ==
  /\ KindOf[b] \in Mails
  /\ Move(b, "shorten", "mail")
  /\ UNCHANGED <<at, made, reported, broken, envelope, posted, link, answer, faults>>

\* Wrong on purpose: an addressee on the envelope is not replaced.
KeptAddress(b) ==
  [to |-> IF envelope[Service(b)].to = Nobody THEN Item(b) ELSE envelope[Service(b)].to,
   invitation |-> Item(b)]

Written(b) == [to |-> Item(b), invitation |-> Item(b)]

\* The envelope is filled in and handed to the mail service in one go: no
\* other request is let in between.
SendMail(b) ==
  /\ pc[b] = "mail"
  /\ envelope' = [envelope EXCEPT ![Service(b)] = Written(b)]
  /\ posted' = posted \cup {Written(b)}
  /\ NextItem(b)
  /\ UNCHANGED <<made, reported, broken, link, answer, faults>>

\* The mail service refuses: the error is kept and the next item follows.
MailFails(b) ==
  /\ pc[b] = "mail"
  /\ Fault
  /\ broken' = broken \cup {Item(b)}
  /\ envelope' = [envelope EXCEPT ![Service(b)] = Written(b)]
  /\ NextItem(b)
  /\ UNCHANGED <<made, reported, posted, link, answer>>

\* The agent or the shortener fails.  Proofs by e-mail go on with the next
\* item; offers by e-mail and proofs on connections end here.
ItemFails(b) ==
  /\ pc[b] \in {"make", "shorten"} /\ KindOf[b] \in Mails \cup {"proof"}
  /\ Fault
  /\ broken' = broken \cup {Item(b)}
  /\ IF KindOf[b] = "proofMail" THEN NextItem(b) /\ answer' = answer
     ELSE /\ pc' = [pc EXCEPT ![b] = "over"] /\ at' = at
          /\ Tell(b, "error")
  /\ UNCHANGED <<made, reported, envelope, posted, link>>

Conclude(b) ==
  /\ Move(b, "done", "over")
  /\ Tell(b, IF ItemsOf(b) \cap broken = {} THEN "all" ELSE "error")
  /\ UNCHANGED <<at, made, reported, broken, envelope, posted, link, faults>>

-----------------------------------------------------------------------------
\* A single invitation: as the agent made it, or shortened.  The deep link of
\* an offer is made from the agent's address, as that of the name is hidden.
GiveLink(b) ==
  /\ pc[b] = "shorten" /\ KindOf[b] \in Links
  /\ \E inv \in {"agent's invitation", "short invitation"} :
       link' = [link EXCEPT ![b] =
         [invitation |-> inv,
          deep |-> CASE KindOf[b] = "oobLink"        -> "agent's address"
                     [] inv = "short invitation"     -> inv
                     [] OTHER                        -> "none"]]
  /\ pc' = [pc EXCEPT ![b] = "over"]
  /\ Tell(b, "all")
  /\ UNCHANGED <<at, made, reported, broken, envelope, posted, faults>>

LinkFails(b) ==
  /\ pc[b] \in {"make", "shorten"} /\ KindOf[b] \in Links
  /\ Fault
  /\ broken' = broken \cup {Item(b)}
  /\ pc' = [pc EXCEPT ![b] = "over"]
  /\ Tell(b, "error")
  /\ UNCHANGED <<at, made, reported, envelope, posted, link>>

-----------------------------------------------------------------------------
Step(b) ==
  \/ AskOffers(b) \/ AskByMail(b) \/ AskLink(b) \/ AskProofs(b) \/ AskOobProof(b)
  \/ Reject(b) \/ LookUp(b) \/ Refuse(b) \/ Settle(b)
  \/ MakeOffer(b) \/ Shorten(b) \/ SendMail(b) \/ MailFails(b) \/ ItemFails(b) \/ Conclude(b)
  \/ GiveLink(b) \/ LinkFails(b)
  \/ \E it \in ItemsOf(b) : MakeOne(it) \/ OneFails(it)

Next == \E b \in Batches : Step(b)

\* Every call ends, so that a request that has begun goes on.
Fairness == \A b \in Batches : WF_vars(Step(b))
Spec     == Init /\ [][Next]_vars /\ Fairness

-----------------------------------------------------------------------------
TypeOK ==
  /\ pc \in [Batches -> {"idle", "look", "all", "make", "shorten", "mail", "done", "over"}]
  /\ \A b \in Batches : at[b] \in 1..(Asked[b] + 1)
  /\ {made, reported, broken} \subseteq SUBSET Items
  /\ \A m \in posted : {m.to, m.invitation} \subseteq Items
  /\ \A s \in Services : {envelope[s].to, envelope[s].invitation} \subseteq Items \cup {Nobody}
  /\ answer \in [Batches -> {"open", "all", "some", "none", "error", "refused"}]
  /\ \A b \in Batches : link[b].deep # "none" => KindOf[b] \in Links
  /\ faults \in 0..MaxFaults

\* A request that is told that all went well has an offer for every item, and
\* every addressee has a mail; "some" and "none" count as the agent told.
AnswerIsTrue ==
  \A b \in Batches :
    /\ answer[b] = "all" =>
         /\ ItemsOf(b) \subseteq made
         /\ KindOf[b] \in Mails => \A it \in ItemsOf(b) : \E m \in posted : m.to = it
    /\ answer[b] = "some" => made \cap ItemsOf(b) # {}

\* A mail holds the invitation that was made for the one it goes to, although
\* all requests of a service write on one envelope.
MailToOwner == \A m \in posted : m.to = m.invitation /\ m.invitation \in made

\* Every item is tried, unless an earlier item of a kind that stops at its
\* first failure has failed; proofs by e-mail never stop.
EveryItemTried ==
  \A b \in Batches :
    (pc[b] = "over" /\ answer[b] # "refused") =>
      \A it \in ItemsOf(b) :
        \/ it \in reported \cup broken
        \/ KindOf[b] \in {"proof", "oobMail"} /\ \E i \in 1..it[2] : <<b, i>> \in broken

=============================================================================
