--------------------------- MODULE OrgMembership ---------------------------
(***************************************************************************)
(* Who belongs to an organisation, and with which roles: invitations       *)
(* (createInvitation, updateOrgInvitation, deleteOrganizationInvitation),  *)
(* changes of a member's roles (updateUserRoles), and the registration of  *)
(* the organisation with Keycloak, which rewrites roles                    *)
(* (createOrgCredentials, registerOrgsMapUsers, deleteClientCredentials).  *)
(*                                                                         *)
(* Roles live twice: as rows of user_org_roles and, when the organisation  *)
(* has a Keycloak client, as role mappings of that client. No operation    *)
(* has a transaction, several start their calls together, and the rows     *)
(* are often inserted by promises nobody awaits: a request is answered     *)
(* while its rows are on their way, and the process dies if one is         *)
(* refused.                                                                *)
(***************************************************************************)
EXTENDS Integers, FiniteSets

CONSTANTS
  Users,        \* people with an account
  Founder,      \* the user who created the organisations
  Orgs,
  Roles,
  Owner,        \* the role a registration gives to whoever asks for it
  Invitations,  \* ids of rows of org_invitations
  Requests,
  Limit,        \* MAX_ORG_LIMIT
  Offered,      \* bound: the operations that are asked for
  MaxFaults     \* bound: failures and crashes of the environment

(* There is an organisation; rows are told from those of the founder, and a *)
(* request about no invitation from one about an invitation.                *)
ASSUME ConstantsAssumption ==
  /\ Founder \in Users
  /\ IsFiniteSet(Orgs) /\ Orgs # {}
  /\ Owner \in Roles
  /\ "none" \notin Invitations /\ "creation" \notin Requests
  /\ Limit \in Nat
  /\ Offered \subseteq {"invite", "accept", "reject", "withdraw", "update", "register", "map", "unregister"}
  /\ MaxFaults \in Nat

Status == {"none", "pending", "accepted", "rejected", "deleted"}
Ops    == Offered \cup {"none"}
Pcs    == {"idle", "read", "count", "details", "write", "change", "grant", "client", "owner",
           "calls", "clear", "regrant", "roles", "store", "remap", "over"}

\* Calls that are started together and awaited with Promise.all.
Calls  == {"status", "kcGrant", "kcDrop", "drop"}

VARIABLES
  \* PostgreSQL
  status,      \* org_invitations.status
  terms,       \* who is invited where, and with which roles
  rows,        \* user_org_roles; each row knows the request that inserted it
  registered,  \* organisations whose row has an idpId
  \* Keycloak
  clients,     \* organisations that have a client
  mapped,      \* role mappings <<user, organisation, role>>
  \* memory of the service
  pc, job,     \* where a request stands, and what it is about
  left,        \* calls of a request that have not settled
  sound,       \* no call of the last Promise.all failed, and rows were dropped
  onTheWay,    \* rows whose insertion nobody awaits
  \* history and bounds
  joined,      \* pairs <<user, organisation>> that had a role
  torn,        \* pairs with a known cause for having lost all roles
  drifted,     \* pairs with a known cause for two stores that disagree
  contested,   \* invitations with two requests at a time
  rushed,      \* users who accepted while their rows were changed, and pairs with
               \* two invitations at a time
  faults

database == <<status, terms, rows, registered>>
keycloak == <<clients, mapped>>
memory   == <<pc, job, left, sound, onTheWay>>
history  == <<joined, torn, drifted, contested, rushed>>
vars     == <<database, keycloak, memory, history, faults>>

Pairs == Users \X Orgs
NoJob == [op |-> "none", user |-> Founder, org |-> CHOOSE o \in Orgs : TRUE, roles |-> {},
          inv |-> "none", list |-> {}, cleared |-> {}, todo |-> {}]

\* The founder owns every organisation, registered or not; people may have
\* been invited before.
Init ==
  /\ registered \in SUBSET Orgs
  /\ clients = registered
  /\ rows = {[user |-> Founder, org |-> o, role |-> Owner, by |-> "creation"] : o \in Orgs}
  /\ mapped = {<<Founder, o, Owner>> : o \in registered}
  /\ status \in [Invitations -> {"none", "pending"}]
  /\ terms \in [Invitations -> [user : Users \ {Founder}, org : Orgs, roles : {{q} : q \in Roles}]]
  /\ \A i, j \in Invitations :
       i # j /\ status[i] = "pending" /\ status[j] = "pending"
         => <<terms[i].user, terms[i].org>> # <<terms[j].user, terms[j].org>>
  /\ pc = [r \in Requests |-> "idle"]
  /\ job = [r \in Requests |-> NoJob]
  /\ left = [r \in Requests |-> {}]
  /\ sound = [r \in Requests |-> TRUE]
  /\ onTheWay = {}
  /\ joined = {Founder} \X Orgs
  /\ torn = {} /\ drifted = {} /\ contested = {} /\ rushed = {}
  /\ faults = 0

-----------------------------------------------------------------------------
\* What the queries see, and who is at work.

RowsOf(u, o)   == {x \in rows : x.user = u /\ x.org = o}
RolesOf(u, o)  == {x.role : x \in RowsOf(u, o)}
MappedTo(u, o) == {q \in Roles : <<u, o, q>> \in mapped}
NewRows(r)     == {[user |-> job[r].user, org |-> job[r].org, role |-> q, by |-> r] : q \in job[r].roles}

\* userOrganizationCount.
OrgsOf(u) == {o \in Orgs : RowsOf(u, o) # {}}

\* checkInvitationExist.
AlreadyInvited(u, o) ==
  \E i \in Invitations :
    status[i] \in {"pending", "accepted"} /\ terms[i].user = u /\ terms[i].org = o

Underway  == {r \in Requests : pc[r] \notin {"idle", "over"}}
WholeOrg  == {"register", "map", "unregister"}

\* What a request may change the roles of; one that registers all
\* organisations concerns those that wait for their turn.
Touches(r, u, o) ==
  \/ job[r].op \in WholeOrg /\ (job[r].org = o \/ o \in job[r].todo)
  \/ job[r].op \in {"accept", "update"} /\ job[r].user = u /\ job[r].org = o

\* Requests and insertions that may still change the roles of a pair.
Arriving(u, o)     == \E x \in onTheWay : x.user = u /\ x.org = o
Busy(u, o)         == Arriving(u, o) \/ \E r \in Underway : Touches(r, u, o)
OthersBusy(r, u, o) == Arriving(u, o) \/ \E s \in Underway \ {r} : Touches(s, u, o)

\* While somebody accepts, and while rows are deleted to be inserted again, the
\* number of organisations does not count.
Accepting(r, u) == job[r].op = "accept" /\ job[r].user = u
Rewrites(r, u)  == job[r].op = "map" \/ (job[r].op \in {"update", "register"} /\ job[r].user = u)

\* A failure of the environment: a query, a call or the process itself.
Fault == faults < MaxFaults /\ faults' = faults + 1

Step(r, from, to) ==
  /\ pc[r] = from
  /\ pc' = [pc EXCEPT ![r] = to]

\* A request is refused: nothing was changed.
Refuse(r, from) ==
  /\ Step(r, from, "over")
  /\ UNCHANGED <<database, keycloak, job, left, sound, onTheWay, history, faults>>

-----------------------------------------------------------------------------
\* Requests enter through the gateway, whose guard looks for a role of the
\* asking user in the token (Keycloak) or in user_org_roles.

Manages(o) == \E u \in Users : RolesOf(u, o) \cup MappedTo(u, o) # {}

Ask(r, what) ==
  /\ what.op \in Offered
  /\ Step(r, "idle", "read")
  /\ job' = [job EXCEPT ![r] = what]
  /\ UNCHANGED <<database, keycloak, left, sound, onTheWay, joined, torn, faults>>

AskInvite(r, u, o, q) ==
  /\ Manages(o)
  /\ Ask(r, [NoJob EXCEPT !.op = "invite", !.user = u, !.org = o, !.roles = {q}])
  /\ rushed' = IF \E s \in Underway : job[s].op = "invite" /\ job[s].user = u /\ job[s].org = o
               THEN rushed \cup {<<u, o>>} ELSE rushed
  /\ UNCHANGED <<drifted, contested>>

AskAnswer(r, i, answer) ==
  /\ status[i] # "none"
  /\ LET t == terms[i] IN
     /\ Ask(r, [NoJob EXCEPT !.op = answer, !.user = t.user, !.org = t.org, !.roles = t.roles, !.inv = i])
     /\ drifted' = IF answer = "accept" /\ Busy(t.user, t.org)
                   THEN drifted \cup {<<t.user, t.org>>} ELSE drifted
     /\ rushed' = IF answer = "accept"
                        /\ \/ \E s \in Underway : Accepting(s, t.user) \/ Rewrites(s, t.user)
                           \/ \E x \in onTheWay : x.user = t.user
                     THEN rushed \cup {t.user} ELSE rushed
  /\ contested' = IF \E s \in Underway : job[s].inv = i THEN contested \cup {i} ELSE contested

AskWithdraw(r, i) ==
  /\ status[i] # "none"
  /\ Manages(terms[i].org)
  /\ Ask(r, [NoJob EXCEPT !.op = "withdraw", !.org = terms[i].org, !.inv = i])
  /\ contested' = IF \E s \in Underway : job[s].inv = i THEN contested \cup {i} ELSE contested
  /\ UNCHANGED <<drifted, rushed>>

AskUpdate(r, u, o, q) ==
  /\ Manages(o)
  /\ Ask(r, [NoJob EXCEPT !.op = "update", !.user = u, !.org = o, !.roles = {q}])
  /\ drifted' = IF Busy(u, o) THEN drifted \cup {<<u, o>>} ELSE drifted
  /\ rushed' = IF \E s \in Underway : Accepting(s, u) THEN rushed \cup {u} ELSE rushed
  /\ UNCHANGED contested

\* createOrgCredentials by an owner, registerOrgsMapUsers by the platform's
\* admin, deleteClientCredentials: they concern every member.
AskWholeOrg(r, op, u, o) ==
  /\ Owner \in RolesOf(u, o)
  /\ Ask(r, [NoJob EXCEPT !.op = op, !.user = u, !.org = o, !.roles = {Owner}])
  /\ drifted' = drifted \cup {p \in Pairs : p[2] = o /\ (Busy(p[1], o) \/ (op = "register" /\ p[1] # u))}
  /\ rushed' = rushed \cup {v \in Users : /\ op = "map" \/ (op = "register" /\ v = u)
                                         /\ \E s \in Underway : Accepting(s, v)}
  /\ UNCHANGED contested

-----------------------------------------------------------------------------
\* createInvitation: is the address invited already, then the row; the mail
\* that follows changes nothing, whatever comes of it.

\* Wrong on purpose: an accepted invitation does not count.
CheckPending(r) ==
  /\ job[r].op = "invite"
  /\ ~\E i \in Invitations : status[i] = "pending" /\ terms[i].user = job[r].user /\ terms[i].org = job[r].org
  /\ Step(r, "read", "write")
  /\ UNCHANGED <<database, keycloak, job, left, sound, onTheWay, history, faults>>

CheckInvited(r) ==
  /\ job[r].op = "invite"
  /\ ~AlreadyInvited(job[r].user, job[r].org)
  /\ Step(r, "read", "write")
  /\ UNCHANGED <<database, keycloak, job, left, sound, onTheWay, history, faults>>

InvitedAlready(r) ==
  /\ job[r].op = "invite"
  /\ AlreadyInvited(job[r].user, job[r].org)
  /\ Refuse(r, "read")

CreateSendInvitation(r, i) ==
  /\ job[r].op = "invite"
  /\ Step(r, "write", "over")
  /\ status[i] = "none"
  /\ status' = [status EXCEPT ![i] = "pending"]
  /\ terms' = [terms EXCEPT ![i] = [user |-> job[r].user, org |-> job[r].org, roles |-> job[r].roles]]
  /\ UNCHANGED <<rows, registered, keycloak, job, left, sound, onTheWay, history, faults>>

-----------------------------------------------------------------------------
\* updateOrgInvitation, deleteOrganizationInvitation

\* The invitation is read; transition allows an answer to a pending one only.
ReadInvitation(r) ==
  /\ job[r].op \in {"accept", "reject", "withdraw"}
  /\ status[job[r].inv] = "pending"
  /\ Step(r, "read", IF job[r].op = "accept" THEN "count" ELSE "write")
  /\ UNCHANGED <<database, keycloak, job, left, sound, onTheWay, history, faults>>

InvitationClosed(r) ==
  /\ job[r].op \in {"accept", "reject", "withdraw"}
  /\ status[job[r].inv] # "pending"
  /\ Refuse(r, "read")

\* Wrong on purpose: off by one.
CountOneMore(r) ==
  /\ Cardinality(OrgsOf(job[r].user)) <= Limit
  /\ Step(r, "count", "details")
  /\ UNCHANGED <<database, keycloak, job, left, sound, onTheWay, history, faults>>

\* The number of organisations is read next, and then the organisation.
CountOrgs(r) ==
  /\ Cardinality(OrgsOf(job[r].user)) < Limit
  /\ Step(r, "count", "details")
  /\ UNCHANGED <<database, keycloak, job, left, sound, onTheWay, history, faults>>

LimitReached(r) ==
  /\ Cardinality(OrgsOf(job[r].user)) >= Limit
  /\ Refuse(r, "count")

\* getOrganizationDetails: from here on the request takes the organisation
\* for registered or not.
ReadOrg(r) ==
  /\ pc[r] = "details"
  /\ pc' = [pc EXCEPT ![r] = IF job[r].org \in registered THEN "change" ELSE "write"]
  /\ UNCHANGED <<database, keycloak, job, left, sound, onTheWay, history, faults>>

\* The row is written by its id, whatever its status is by now.
SetStatus(r, s) ==
  /\ status[job[r].inv] # "deleted"
  /\ status' = [status EXCEPT ![job[r].inv] = s]
  /\ UNCHANGED <<terms, rows, registered>>

Reject(r) ==
  /\ job[r].op = "reject"
  /\ Step(r, "write", "over")
  /\ SetStatus(r, "rejected")
  /\ UNCHANGED <<keycloak, job, left, sound, onTheWay, history, faults>>

Withdraw(r) ==
  /\ job[r].op = "withdraw"
  /\ Step(r, "write", "over")
  /\ SetStatus(r, "deleted")
  /\ UNCHANGED <<keycloak, job, left, sound, onTheWay, history, faults>>

\* Without a client the status is written first, then one role at a time.
Accept(r) ==
  /\ job[r].op = "accept"
  /\ Step(r, "write", "grant")
  /\ SetStatus(r, "accepted")
  /\ UNCHANGED <<keycloak, job, left, sound, onTheWay, history, faults>>

InvitationGone(r) ==
  /\ job[r].op \in {"accept", "reject", "withdraw"}
  /\ status[job[r].inv] = "deleted"
  /\ Refuse(r, "write")

GrantRole(r) ==
  /\ Step(r, "grant", IF NewRows(r) \subseteq rows THEN "over" ELSE "grant")
  /\ rows' = IF NewRows(r) \subseteq rows THEN rows
             ELSE rows \cup {CHOOSE x \in NewRows(r) : x \notin rows}
  /\ joined' = joined \cup {<<job[r].user, job[r].org>>}
  /\ UNCHANGED <<status, terms, registered, keycloak, job, left, sound, onTheWay,
                 torn, drifted, contested, rushed, faults>>

\* Wrong on purpose: the role is only mapped in Keycloak.
AcceptMapped(r) ==
  /\ job[r].op = "accept"
  /\ Step(r, "change", "calls")
  /\ left' = [left EXCEPT ![r] = {"status", "kcGrant"}]
  /\ UNCHANGED <<database, keycloak, job, sound, onTheWay, history, faults>>

\* updateClientInvitation: the status, the role mapping and the rows at once.
AcceptClient(r) ==
  /\ job[r].op = "accept"
  /\ Step(r, "change", "calls")
  /\ left' = [left EXCEPT ![r] = {"status", "kcGrant"}]
  /\ onTheWay' = onTheWay \cup NewRows(r)
  /\ UNCHANGED <<database, keycloak, job, sound, history, faults>>

-----------------------------------------------------------------------------
\* Calls started together.  They settle in any order, and go on after one of
\* them has failed; Promise.all answers when nothing is left of them.

Pair(r) == <<job[r].user, job[r].org>>

\* The calls of a request on its way to the next stage.
Calling(r) == pc[r] \in {"calls", "clear", "regrant"}

Settle(r, call) ==
  /\ Calling(r) /\ call \in left[r]
  /\ left' = [left EXCEPT ![r] = @ \ {call}]
  /\ UNCHANGED <<pc, job, onTheWay, joined, drifted, contested, rushed, faults>>

StatusWritten(r) ==
  /\ Settle(r, "status")
  /\ SetStatus(r, "accepted")
  /\ UNCHANGED <<keycloak, sound, torn>>

\* createUserClientRole
RoleMapped(r) ==
  /\ Settle(r, "kcGrant")
  /\ job[r].org \in clients
  /\ mapped' = mapped \cup {<<job[r].user, job[r].org, q>> : q \in job[r].roles}
  /\ UNCHANGED <<database, clients, sound, torn>>

\* deleteUserClientRoles: whatever the user has in this client.
RolesUnmapped(r) ==
  /\ Settle(r, "kcDrop")
  /\ job[r].org \in clients
  /\ mapped' = {m \in mapped : <<m[1], m[2]>> # Pair(r)}
  /\ UNCHANGED <<database, clients, sound, torn>>

\* deleteOrgRoles.  updateUserClientRoles takes a count of 0 for a failure.
\* A registration starts this call together with the insertion of its own
\* row: the row may be among those that are deleted.
RowsDropped(r) ==
  /\ Settle(r, "drop")
  /\ rows' = rows \ RowsOf(job[r].user, job[r].org)
  /\ sound' = [sound EXCEPT ![r] = @ /\ (job[r].op = "update" => RowsOf(job[r].user, job[r].org) # {})]
  /\ torn' = IF NewRows(r) \cap onTheWay = {} /\ pc[r] = "calls" THEN torn \cup {Pair(r)} ELSE torn
  /\ UNCHANGED <<status, terms, registered, keycloak>>

\* deleteUserClientRoles takes an error for an answer: the user keeps the
\* roles in Keycloak and the request goes on.
RolesKept(r) ==
  /\ Calling(r) /\ "kcDrop" \in left[r]
  /\ left' = [left EXCEPT ![r] = @ \ {"kcDrop"}]
  /\ drifted' = drifted \cup {Pair(r)}
  /\ IF job[r].org \in clients THEN Fault ELSE UNCHANGED faults
  /\ UNCHANGED <<database, keycloak, pc, job, sound, onTheWay, joined, torn, contested, rushed>>

\* A call fails: the client or the invitation is gone, or a fault.
CallFails(r, call) ==
  /\ Calling(r) /\ call \in left[r] \ {"kcDrop"}
  /\ left' = [left EXCEPT ![r] = @ \ {call}]
  /\ sound' = [sound EXCEPT ![r] = FALSE]
  /\ torn' = torn \cup {Pair(r)}
  /\ drifted' = drifted \cup {Pair(r)}
  /\ \/ /\ \/ call = "kcGrant" /\ job[r].org \notin clients
           \/ call = "status" /\ status[job[r].inv] = "deleted"
        /\ UNCHANGED faults
     \/ Fault
  /\ UNCHANGED <<database, keycloak, pc, job, onTheWay, joined, contested, rushed>>

\* All calls have settled; a failure ends the request.
AllSettled(r) ==
  /\ Calling(r) /\ left[r] = {} /\ sound[r]
  /\ pc' = [pc EXCEPT ![r] = CASE pc[r] = "calls"   -> IF job[r].op = "accept" THEN "over" ELSE "store"
                                [] pc[r] = "clear"   -> "roles"
                                [] pc[r] = "regrant" -> IF job[r].op = "map" THEN "remap" ELSE "over"]
  /\ UNCHANGED <<database, keycloak, job, left, sound, onTheWay, history, faults>>

OneFailed(r) ==
  /\ Calling(r) /\ left[r] = {} /\ ~sound[r]
  /\ pc' = [pc EXCEPT ![r] = "over"]
  /\ drifted' = drifted \cup (IF job[r].op \in WholeOrg THEN Users \X {job[r].org} ELSE {Pair(r)})
  /\ UNCHANGED <<database, keycloak, job, left, sound, onTheWay, joined, torn, contested, rushed, faults>>

\* An insertion nobody awaits arrives.
InsertRow(x) ==
  /\ x \in onTheWay
  /\ onTheWay' = onTheWay \ {x}
  /\ rows' = rows \cup {x}
  /\ joined' = joined \cup {<<x.user, x.org>>}
  /\ UNCHANGED <<status, terms, registered, keycloak, pc, job, left, sound,
                 torn, drifted, contested, rushed, faults>>

-----------------------------------------------------------------------------
\* updateUserRoles

CheckMember(r) ==
  /\ job[r].op = "update"
  /\ RowsOf(job[r].user, job[r].org) # {}
  /\ Step(r, "read", "details")
  /\ UNCHANGED <<database, keycloak, job, left, sound, onTheWay, history, faults>>

NotAMember(r) ==
  /\ job[r].op = "update"
  /\ RowsOf(job[r].user, job[r].org) = {}
  /\ Refuse(r, "read")

\* Without a client: the rows are deleted, the new ones are not awaited.
ReplaceRows(r) ==
  /\ job[r].op = "update"
  /\ Step(r, "write", "over")
  /\ RowsOf(job[r].user, job[r].org) # {}
  /\ rows' = rows \ RowsOf(job[r].user, job[r].org)
  /\ onTheWay' = onTheWay \cup NewRows(r)
  /\ UNCHANGED <<status, terms, registered, keycloak, job, left, sound, history, faults>>

NothingToReplace(r) ==
  /\ job[r].op = "update"
  /\ RowsOf(job[r].user, job[r].org) = {}
  /\ Refuse(r, "write")

\* Wrong on purpose: Keycloak is not cleared.
ClearRows(r) ==
  /\ job[r].op = "update"
  /\ Step(r, "change", "clear")
  /\ left' = [left EXCEPT ![r] = {"drop"}]
  /\ UNCHANGED <<database, keycloak, job, sound, onTheWay, history, faults>>

\* updateUserClientRoles: both stores are cleared together.
ClearRoles(r) ==
  /\ job[r].op = "update"
  /\ Step(r, "change", "clear")
  /\ left' = [left EXCEPT ![r] = {"kcDrop", "drop"}]
  /\ UNCHANGED <<database, keycloak, job, sound, onTheWay, history, faults>>

\* Wrong on purpose: the roles are only granted in Keycloak.
RegrantMapped(r) ==
  /\ Step(r, "roles", "regrant")
  /\ left' = [left EXCEPT ![r] = {"kcGrant"}]
  /\ UNCHANGED <<database, keycloak, job, sound, onTheWay, history, faults>>

\* Then the new roles are granted, in Keycloak and as rows on their way.
Regrant(r) ==
  /\ Step(r, "roles", "regrant")
  /\ left' = [left EXCEPT ![r] = {"kcGrant"}]
  /\ onTheWay' = onTheWay \cup NewRows(r)
  /\ UNCHANGED <<database, keycloak, job, sound, history, faults>>

-----------------------------------------------------------------------------
\* createOrgCredentials and registerOrgsMapUsers: registerToKeycloak.

\* getOrganizationDetails; an organisation that is registered gets a new
\* secret and nothing else.
ReadUnregistered(r) ==
  /\ job[r].op = "register"
  /\ job[r].org \notin registered
  /\ Step(r, "read", "client")
  /\ UNCHANGED <<database, keycloak, job, left, sound, onTheWay, history, faults>>

NewSecret(r) ==
  /\ job[r].op = "register"
  /\ job[r].org \in registered
  /\ Refuse(r, "read")

\* getUnregisteredClientOrgs: all of them, with their members, in one query.
ReadAllUnregistered(r) ==
  /\ job[r].op = "map"
  /\ Step(r, "read", "remap")
  /\ job' = [job EXCEPT ![r].todo = Orgs \ registered,
                        ![r].list = {x \in rows : x.org \notin registered}]
  /\ drifted' = drifted \cup {p \in Pairs : p[2] \notin registered /\ OthersBusy(r, p[1], p[2])}
  /\ UNCHANGED <<database, keycloak, left, sound, onTheWay, joined, torn, contested, rushed, faults>>

\* An organisation without an owner is passed over.
SkipOrg(r, o) ==
  /\ o \in job[r].todo
  /\ ~\E x \in job[r].list : x.org = o /\ x.role = Owner
  /\ Step(r, "remap", "remap")
  /\ job' = [job EXCEPT ![r].todo = @ \ {o}, ![r].list = {x \in @ : x.org # o}]
  /\ UNCHANGED <<database, keycloak, left, sound, onTheWay, history, faults>>

\* The next organisation, in the name of one of its owners.
NextOrg(r, x) ==
  /\ job[r].todo # {}
  /\ {y \in job[r].list : y.org = job[r].org} = {} \/ job[r].org \in job[r].todo
  /\ x \in job[r].list /\ x.org \in job[r].todo /\ x.role = Owner
  /\ Step(r, "remap", "client")
  /\ job' = [job EXCEPT ![r].todo = @ \ {x.org}, ![r].org = x.org, ![r].user = x.user,
                        ![r].roles = {Owner}, ![r].cleared = {}]
  /\ UNCHANGED <<database, keycloak, left, sound, onTheWay, history, faults>>

\* createClient; the client's id is the organisation's, so that a second one
\* is refused for ever.
CreateClient(r) ==
  /\ job[r].org \notin clients
  /\ Step(r, "client", "owner")
  /\ clients' = clients \cup {job[r].org}
  /\ UNCHANGED <<database, mapped, job, left, sound, onTheWay, history, faults>>

\* The client's roles, then the owner in both stores: the old rows are
\* deleted and the new one is inserted at the same time.
RegisterOwner(r) ==
  /\ Step(r, "owner", "calls")
  /\ left' = [left EXCEPT ![r] = {"kcGrant", "drop"}]
  /\ onTheWay' = onTheWay \cup NewRows(r)
  /\ UNCHANGED <<database, keycloak, job, sound, history, faults>>

ClientExists(r) ==
  /\ job[r].org \in clients
  /\ Refuse(r, "client")

\* updateOrganizationById with the client's ids.
StoreClient(r) ==
  /\ job[r].op \in {"register", "map"}
  /\ Step(r, "store", IF job[r].op = "map" THEN "remap" ELSE "over")
  /\ registered' = registered \cup {job[r].org}
  /\ UNCHANGED <<status, terms, rows, keycloak, job, left, sound, onTheWay, history, faults>>

\* The rows that were read at the start are made anew, a member at a time;
\* what a member has by now is deleted first, once.
Remap(r, x) ==
  /\ x \in job[r].list /\ x.org = job[r].org /\ x.org \notin job[r].todo
  /\ Step(r, "remap", IF x.user \in job[r].cleared THEN "roles" ELSE "clear")
  /\ left' = [left EXCEPT ![r] = IF x.user \in job[r].cleared THEN {} ELSE {"kcDrop", "drop"}]
  /\ job' = [job EXCEPT ![r].list = @ \ {x}, ![r].user = x.user, ![r].roles = {x.role},
                        ![r].cleared = @ \cup {x.user}]
  /\ UNCHANGED <<database, keycloak, sound, onTheWay, history, faults>>

AllMapped(r) ==
  /\ job[r].list = {} /\ job[r].todo = {}
  /\ Refuse(r, "remap")

\* deleteClientCredentials: the client with all its roles, then its ids.
DeleteClient(r) ==
  /\ job[r].op = "unregister"
  /\ job[r].org \in registered /\ job[r].org \in clients
  /\ Step(r, "read", "store")
  /\ clients' = clients \ {job[r].org}
  /\ mapped' = {m \in mapped : m[2] # job[r].org}
  /\ UNCHANGED <<database, job, left, sound, onTheWay, history, faults>>

ForgetClient(r) ==
  /\ job[r].op = "unregister"
  /\ Step(r, "store", "over")
  /\ registered' = registered \ {job[r].org}
  /\ UNCHANGED <<status, terms, rows, keycloak, job, left, sound, onTheWay, history, faults>>

NoClient(r) ==
  /\ job[r].op = "unregister"
  /\ job[r].org \notin registered \/ job[r].org \notin clients
  /\ Refuse(r, "read")

-----------------------------------------------------------------------------
\* Failures.

\* The pairs whose roles a request is about.
Concerns(r) ==
  IF job[r].op \in WholeOrg THEN Users \X {job[r].org} ELSE {Pair(r)}

\* A query or a call fails, outside of Promise.all: the request is over.
Fail(r) ==
  /\ r \in Underway /\ ~Calling(r)
  /\ Fault
  /\ pc' = [pc EXCEPT ![r] = "over"]
  /\ drifted' = drifted \cup Concerns(r)
  /\ torn' = IF pc[r] = "roles" THEN torn \cup {Pair(r)} ELSE torn
  /\ UNCHANGED <<database, keycloak, job, left, sound, onTheWay, joined, contested, rushed>>

\* The process dies: of itself, or because an insertion that nobody awaits
\* was refused.  What was under way is lost.
Crash ==
  /\ Underway # {} \/ onTheWay # {}
  /\ Fault
  /\ pc' = [r \in Requests |-> IF r \in Underway THEN "over" ELSE pc[r]]
  /\ left' = [r \in Requests |-> {}]
  /\ onTheWay' = {}
  /\ drifted' = drifted \cup (UNION {Concerns(r) : r \in Underway}) \cup {<<x.user, x.org>> : x \in onTheWay}
  /\ torn' = torn \cup {Pair(r) : r \in {s \in Requests : Calling(s) \/ pc[s] = "roles"}}
                  \cup {<<x.user, x.org>> : x \in onTheWay}
  /\ UNCHANGED <<database, keycloak, job, sound, joined, contested, rushed>>

-----------------------------------------------------------------------------
Asking(r) ==
  \/ \E u \in Users \ {Founder}, o \in Orgs, q \in Roles : AskInvite(r, u, o, q)
  \/ \E u \in Users, o \in Orgs, q \in Roles : AskUpdate(r, u, o, q)
  \/ \E i \in Invitations, answer \in {"accept", "reject"} : AskAnswer(r, i, answer)
  \/ \E i \in Invitations : AskWithdraw(r, i)
  \/ \E op \in WholeOrg, u \in Users, o \in Orgs : AskWholeOrg(r, op, u, o)

Inviting(r) ==
  \/ CheckInvited(r)
  \/ InvitedAlready(r)
  \/ \E i \in Invitations : CreateSendInvitation(r, i)

Answering(r) ==
  \/ ReadInvitation(r) \/ InvitationClosed(r) \/ CountOrgs(r) \/ LimitReached(r)
  \/ ReadOrg(r) \/ Reject(r) \/ Withdraw(r) \/ Accept(r) \/ InvitationGone(r)
  \/ GrantRole(r) \/ AcceptClient(r)

Settling(r) ==
  \/ StatusWritten(r) \/ RoleMapped(r) \/ RolesUnmapped(r) \/ RowsDropped(r)
  \/ AllSettled(r) \/ OneFailed(r)

Updating(r) ==
  \/ CheckMember(r) \/ NotAMember(r) \/ ReplaceRows(r) \/ NothingToReplace(r)
  \/ ClearRoles(r) \/ Regrant(r)

Registering(r) ==
  \/ ReadUnregistered(r) \/ NewSecret(r) \/ ReadAllUnregistered(r)
  \/ \E o \in job[r].todo : SkipOrg(r, o)
  \/ \E x \in job[r].list : NextOrg(r, x) \/ Remap(r, x)
  \/ CreateClient(r) \/ RegisterOwner(r) \/ ClientExists(r) \/ StoreClient(r) \/ AllMapped(r)
  \/ DeleteClient(r) \/ NoClient(r) \/ ForgetClient(r)

Failing(r) ==
  \/ Fail(r)
  \/ RolesKept(r)
  \/ \E call \in Calls : CallFails(r, call)

Work(r) == Inviting(r) \/ Answering(r) \/ Settling(r) \/ Updating(r) \/ Registering(r)

Next ==
  \/ \E r \in Requests : Asking(r) \/ Work(r) \/ Failing(r)
  \/ \E x \in onTheWay : InsertRow(x)
  \/ Crash

\* A request that was taken up goes on, and promises settle.
Fairness ==
  /\ \A r \in Requests : WF_vars(Work(r))
  /\ WF_vars(\E x \in onTheWay : InsertRow(x))

Spec     == Init /\ [][Next]_vars
FairSpec == Spec /\ Fairness

-----------------------------------------------------------------------------
Row == [user : Users, org : Orgs, role : Roles, by : Requests \cup {"creation"}]

TypeOK ==
  /\ status \in [Invitations -> Status]
  /\ terms \in [Invitations -> [user : Users, org : Orgs, roles : SUBSET Roles]]
  /\ rows \subseteq Row /\ onTheWay \subseteq Row
  /\ registered \subseteq Orgs /\ clients \subseteq Orgs
  /\ mapped \subseteq Users \X Orgs \X Roles
  /\ pc \in [Requests -> Pcs]
  /\ job \in [Requests -> [op : Ops, user : Users, org : Orgs, roles : SUBSET Roles,
                             inv : Invitations \cup {"none"}, list : SUBSET Row,
                             cleared : SUBSET Users, todo : SUBSET Orgs]]
  /\ left \in [Requests -> SUBSET Calls]
  /\ sound \in [Requests -> BOOLEAN]
  /\ joined \subseteq Pairs /\ torn \subseteq Pairs /\ drifted \subseteq Pairs
  /\ contested \subseteq Invitations
  /\ rushed \subseteq Users \cup Pairs
  /\ faults \in 0..MaxFaults

\* Once nothing is under way for a member, the member has a role, although
\* every change deletes all roles first (deleteOrgRoles) and inserts the new
\* ones without waiting (updateUserOrgRole).  The known causes of a loss: a
\* failure in between, and a registration whose deletion runs after its own
\* insertion.
MemberHasRole ==
  \A p \in joined : Busy(p[1], p[2]) \/ p \in torn \/ RowsOf(p[1], p[2]) # {}

\* user_org_roles and the role mappings of the organisation's client say the
\* same of a user, once nothing is under way for that user.  They may differ
\* after a failure or a loss, after requests that overlapped, and for the other members
\* of an organisation whose owner asked for credentials (createOrgCredentials
\* maps nobody else; registerOrgsMapUsers does).
StoresAgree ==
  \A p \in Pairs :
    p[2] \in registered =>
      Busy(p[1], p[2]) \/ p \in drifted \cup torn \/ RolesOf(p[1], p[2]) = MappedTo(p[1], p[2])

\* An organisation has a client in Keycloak exactly when its row says so,
\* unless a registration or its withdrawal was cut short.  Two registrations
\* at a time do no harm: the second one is refused by Keycloak.
ClientKnown ==
  \A o \in Orgs :
    (o \in clients) = (o \in registered) \/ \E u \in Users : Busy(u, o) \/ <<u, o>> \in drifted

\* Roles that came with an invitation belong to an accepted one, unless two
\* requests were at work on it: the status is checked when it is read, never
\* when it is written.
RejectedGrantsNothing ==
  \A x \in rows :
    x.by \in Requests /\ job[x.by].op = "accept" =>
      \/ status[job[x.by].inv] = "accepted"
      \/ job[x.by].inv \in contested
      \/ x.by \in Underway
      \/ <<x.user, x.org>> \in drifted

\* Nobody is in more than Limit organisations, except who accepted two
\* invitations at a time, or one while roles of theirs were being replaced
\* (userOrganizationCount is read before the rows).
LimitHolds ==
  \A u \in Users \ {Founder} : Cardinality(OrgsOf(u)) <= Limit \/ u \in rushed

\* A person has one open invitation of an organisation, unless it was sent
\* twice at a time (checkInvitationExist is read before the row), or an
\* answer was written over another one after a new invitation.
OneOpenInvitation ==
  \A i, j \in Invitations :
    /\ i # j
    /\ status[i] \in {"pending", "accepted"} /\ status[j] \in {"pending", "accepted"}
    /\ <<terms[i].user, terms[i].org>> = <<terms[j].user, terms[j].org>>
    => <<terms[i].user, terms[i].org>> \in rushed \/ {i, j} \cap contested # {}

\* Members keep a role and organisations their client through every change
\* that first deletes and then inserts.
MembershipKept == MemberHasRole /\ ClientKnown

\* An invitation is open once and gives roles only if it was accepted.
InvitationsKept == OneOpenInvitation /\ RejectedGrantsNothing

\* Who accepted gets a role: the status is written before the rows are.
Accepted(i)    == status[i] = "accepted"
Received(i)    == faults > 0 \/ <<terms[i].user, terms[i].org>> \in joined
=============================================================================
