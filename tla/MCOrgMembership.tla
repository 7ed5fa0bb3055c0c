-------------------------- MODULE MCOrgMembership --------------------------
(***************************************************************************)
(* Three small instances of OrgMembership in one run: `part`, chosen at    *)
(* the start, says which operations are asked for, on which organisations, *)
(* by how many requests.                                                   *)
(***************************************************************************)
EXTENDS OrgMembership, TLC

CONSTANTS
  Parts,      \* the instances that are run
  o1, i1,     \* the organisation and the invitation of the smaller instances
  allRoles    \* the roles the first instance gives, Owner among them

VARIABLE part

Among(ops, requests, orgs, invs, roles, failures) ==
  [ops |-> ops, requests |-> requests, orgs |-> orgs, invitations |-> invs,
   roles |-> roles, faults |-> failures]

\* Changes of roles in one organisation, with a failure or a crash; the
\* registration of all organisations beside another request; invitations
\* of two organisations.
Of(p) ==
  CASE p = "roles" ->
         Among({"accept", "update", "register", "map", "unregister"}, 2, {o1}, {i1}, allRoles, 1)
    [] p = "all" ->
         Among({"accept", "register", "map"}, 2, Orgs, {i1}, {Owner}, 0)
    [] p = "invited" ->
         Among({"invite", "accept", "reject", "withdraw"}, 3, Orgs, Invitations, {Owner}, 0)

\* Organisations that are left out are registered already; invitations that
\* are left out were never sent.
MCInit ==
  /\ part \in Parts
  /\ Init
  /\ Orgs \ Of(part).orgs \subseteq registered
  /\ \A i \in Invitations :
       /\ terms[i].org \in Of(part).orgs /\ terms[i].roles \subseteq Of(part).roles
       /\ i \notin Of(part).invitations =>
            status[i] = "none" /\ terms[i] = [user |-> terms[i].user, org |-> o1, roles |-> {Owner}]

\* Requests that were made, and what they are about.
Begun == {r \in Requests : pc[r] # "idle"}
Within ==
  /\ Cardinality(Begun) <= Of(part).requests
  /\ faults <= Of(part).faults
  /\ \A r \in Begun :
       job[r].op \in Of(part).ops /\ job[r].org \in Of(part).orgs /\ job[r].roles \subseteq Of(part).roles

\* Next of OrgMembership, with only so much asked for and failing.
MCNext ==
  /\ UNCHANGED part
  /\ \/ \E r \in Requests : Cardinality(Begun) < Of(part).requests /\ Asking(r) /\ Within'
     \/ \E r \in Requests : Work(r)
     \/ \E r \in Requests : Failing(r) /\ Within'
     \/ \E x \in onTheWay : InsertRow(x)
     \/ Crash /\ Within'

MCSpec == MCInit /\ [][MCNext]_<<vars, part>>

\* Requests are interchangeable.
Symmetry == Permutations(Requests)
=============================================================================
