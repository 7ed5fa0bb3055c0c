----------------------------- MODULE ProofDetails -----------------------------
(***************************************************************************)
(* What a verifier asks for and what it is shown. The service turns the    *)
(* items asked for into the agent's request; the holder answers with       *)
(* credentials of its own; the agent verifies the answer; and the service  *)
(* reads names, values and where they come from out of request and         *)
(* answer, which know each other only by the keys of the request.          *)
(***************************************************************************)
EXTENDS Naturals, Sequences, FiniteSets, SequencesExt, TLC

CONSTANTS
  Credentials,  \* of the holder
  Of,           \* credential -> [credDef, schema, names, certificate]
  Asked,        \* requests: [format, items], or descriptors
  AsGiven       \* requests that come in the agent's form already

None == "none"

(* An Indy item: a name, several names or a bound on one, and where it must*)
(* come from.  A descriptor: a schema and the paths of its first field.    *)
ConstantsAssumption ==
  /\ \A r \in Asked : r.format \in {"indy", "exchange"}
  /\ \A r \in Asked : r.format = "indy" =>
       \A k \in 1..Len(r.items) : r.items[k].kind \in {"name", "names", "bound"} /\ r.items[k].names # {}
  /\ AsGiven \subseteq Asked

VARIABLES
  asked,        \* what the verifier asks for
  requested,    \* the agent's request: key -> [kind, names, restricted, credDef, schema]
  presented,    \* the credential the holder takes for each key
  identifiers,  \* the credentials of the answer, in their order
  verified,
  details,      \* what the verifier is shown
  pc

vars == <<asked, requested, presented, identifiers, verified, details, pc>>

Init ==
  /\ asked \in Asked
  /\ requested = <<>> /\ presented = <<>> /\ identifiers = <<>>
  /\ verified = FALSE
  /\ details = <<>>
  /\ pc = "start"

Keys == 1..Len(asked.items)
KeysOf(kinds) == SelectSeq([i \in Keys |-> i], LAMBDA k : requested[k].kind \in kinds)

-----------------------------------------------------------------------------
_proofRequestPayload(k) ==
  LET item == asked.items[k]
  IN [kind |-> item.kind, names |-> item.names,
      restricted |-> TRUE, credDef |-> item.credDef, schema |-> item.schema]

(* A request out of band is handed on as it came: an item that names no    *)
(* source has no restrictions at all.                                      *)
HandedOn(k) ==
  LET item == asked.items[k]
  IN [kind |-> item.kind, names |-> item.names,
      restricted |-> item.credDef # None \/ item.schema # None, credDef |-> item.credDef, schema |-> item.schema]

SendRequest ==
  /\ pc = "start"
  /\ requested' = IF asked.format = "exchange" THEN <<>>
                  ELSE [k \in Keys |-> IF asked \in AsGiven THEN HandedOn(k) ELSE _proofRequestPayload(k)]
  /\ pc' = "sent"
  /\ UNCHANGED <<asked, presented, identifiers, verified, details>>

(* The holder takes for each item a credential that satisfies it; its agent*)
(* lists the credentials it has used, each once.                           *)
Meets(c, k) ==
  IF asked.format = "exchange" THEN Of[c].schema = asked.items[k].schema
  ELSE /\ requested[k].names \subseteq Of[c].names
       /\ requested[k].credDef \in {None, Of[c].credDef} /\ requested[k].schema \in {None, Of[c].schema}

Present ==
  /\ pc = "sent"
  /\ \E chosen \in [Keys -> Credentials] :
       /\ \A k \in Keys : Meets(chosen[k], k)
       /\ presented' = chosen
       /\ \E order \in SetToSeqs({chosen[k] : k \in Keys}) :
            identifiers' = IF asked.format = "exchange" THEN chosen ELSE order
  /\ pc' = "presented"
  /\ UNCHANGED <<asked, requested, verified, details>>

Verify ==
  /\ pc = "presented" /\ ~verified
  /\ verified' = TRUE
  /\ UNCHANGED <<asked, requested, presented, identifiers, details, pc>>

-----------------------------------------------------------------------------
(* The details.  The source of an item is read from its restrictions, or   *)
(* from the first credential of the answer.                                *)
Source(credDef, schema) == [credDef |-> credDef, schema |-> schema]
FirstIdentifier == Source(Of[identifiers[1]].credDef, Of[identifiers[1]].schema)

_schemaCredDefRestriction(k) ==
  IF requested[k].restricted THEN Source(requested[k].credDef, requested[k].schema) ELSE FirstIdentifier

SourceOf(k) == _schemaCredDefRestriction(k)

Detail(k, from) == [key |-> k, names |-> requested[k].names, from |-> from]

(* Of what is revealed only single names are looked up; values of a group  *)
(* lie elsewhere in the answer.                                            *)
revealed_attrs == {k \in Keys : requested[k].kind = "name"}

AttributeDetails(keys) == [i \in DOMAIN SelectSeq(keys, LAMBDA k : k \in revealed_attrs) |->
  LET k == SelectSeq(keys, LAMBDA j : j \in revealed_attrs)[i] IN Detail(k, SourceOf(k))]

(* With both attributes and bounds asked for, a bound without restrictions *)
(* keeps the source of what was read before it.                            *)
Bounds(keys, before) ==
  FoldLeft(LAMBDA acc, k :
             LET from == IF requested[k].restricted THEN Source(requested[k].credDef, requested[k].schema) ELSE acc.from
             IN [from |-> from, out |-> Append(acc.out, Detail(k, from))],
           [from |-> before, out |-> <<>>], keys).out

IndyDetails ==
  LET attrs  == KeysOf({"name", "names"})
      bounds == KeysOf({"bound"})
  IN IF attrs # <<>> /\ bounds # <<>>
     THEN AttributeDetails(attrs) \o Bounds(bounds, SourceOf(Last(attrs)))
     ELSE AttributeDetails(attrs) \o [i \in DOMAIN bounds |-> Detail(bounds[i], SourceOf(bounds[i]))]

(* A descriptor belongs to the credential in the same place; the template  *)
(* of the certificate is always that of the first.                         *)
ExchangeDetails ==
  [k \in Keys |->
     [key |-> k, names |-> asked.items[k].names \intersect Of[identifiers[k]].names,
      from |-> [schema |-> asked.items[k].schema, certificate |-> Of[identifiers[1]].certificate]]]

GetVerifiedProofDetails ==
  /\ pc \in {"sent", "presented"}
  /\ IF pc = "sent" THEN details' = details /\ pc' = "notFound"
     ELSE IF Keys = {} THEN details' = details /\ pc' = "serverError"
     ELSE /\ details' = IF asked.format = "exchange" THEN ExchangeDetails ELSE IndyDetails
          /\ pc' = "shown"
  /\ UNCHANGED <<asked, requested, presented, identifiers, verified>>

AskAgain ==
  /\ pc = "notFound" /\ presented = <<>>
  /\ pc' = "sent"
  /\ UNCHANGED <<asked, requested, presented, identifiers, verified, details>>

Next == SendRequest \/ Present \/ Verify \/ GetVerifiedProofDetails \/ AskAgain

Spec == Init /\ [][Next]_vars

-----------------------------------------------------------------------------
Shown == {details[i] : i \in DOMAIN details}

(* The credentials the holder was led to take come from where the verifier *)
(* wanted them.                                                            *)
AskedIsMet ==
  presented # <<>> /\ asked.format = "indy" =>
    \A k \in Keys : /\ asked.items[k].credDef \in {None, Of[presented[k]].credDef}
                    /\ asked.items[k].schema \in {None, Of[presented[k]].schema}

(* A detail that names a source names the credential its value is from:    *)
(* the item was asked from there, and the holder could take no other.      *)
SourceIsTrue ==
  pc = "shown" /\ asked.format = "indy" =>
    \A d \in Shown : /\ d.from.credDef \in {None, Of[presented[d.key]].credDef}
                     /\ d.from.schema \in {None, Of[presented[d.key]].schema}

(* Everything that was asked for and answered is shown, once and under its *)
(* names.                                                                  *)
AllShown ==
  pc = "shown" =>
    /\ Len(details) = Len(asked.items)
    /\ \A k \in Keys : \E d \in Shown : d.key = k /\ d.names = asked.items[k].names

=============================================================================
