---------------------------- MODULE OrgCreation ----------------------------
(***************************************************************************)
(* createOrganization and updateOrganization. An organisation comes into   *)
(* being in several stores: its row, whose slug is unique, its client in   *)
(* Keycloak, and its owner's role in both. What comes before the row is    *)
(* checked by queries of their own; what fails after it leaves the row.    *)
(***************************************************************************)
EXTENDS Integers, FiniteSets, TLC

CONSTANTS
  Users, Names, Slugs,
  SlugOf,     \* createOrgSlug: not one-to-one
  Ids,        \* ids of rows of organisation
  Requests,
  Limit,      \* MAX_ORG_LIMIT
  MaxFaults   \* bound: failures and crashes

(* No organisation is called what stands for none; ids are given one at a  *)
(* time.                                                                   *)
ASSUME ConstantsAssumption ==
  /\ "none" \notin Names
  /\ SlugOf \in [Names -> Slugs]
  /\ IsFiniteSet(Ids)
  /\ Limit \in Nat
  /\ MaxFaults \in Nat

Pcs == {"idle", "count", "name", "slug", "insert", "client", "owner", "store", "webhook",
        "rename", "update", "log", "over"}

VARIABLES
  org,       \* rows of organisation, by id
  roles,     \* user_org_roles: <<user, organisation>>, as an owner
  clients,   \* Keycloak clients
  mapped,    \* owners in Keycloak: <<user, organisation>>
  pc, job,
  left,      \* calls of Promise.all that have not settled
  answer,
  stranded,  \* organisations whose creation failed half way
  rushed,    \* users with two creations at a time
  faults

stores   == <<org, roles, clients, mapped>>
requests == <<pc, job, left, answer>>
history  == <<stranded, rushed>>
vars     == <<stores, requests, history, faults>>

None == [name |-> "none", slug |-> "none", registered |-> FALSE]

Init ==
  /\ org = [o \in Ids |-> None]
  /\ roles = {} /\ clients = {} /\ mapped = {}
  /\ pc = [r \in Requests |-> "idle"]
  /\ job = [r \in Requests |-> [user |-> "none", name |-> "none", org |-> "none"]]
  /\ left = [r \in Requests |-> {}]
  /\ answer = [r \in Requests |-> "none"]
  /\ stranded = {} /\ rushed = {}
  /\ faults = 0

-----------------------------------------------------------------------------
Live        == {o \in Ids : org[o] # None}
Underway    == {r \in Requests : pc[r] \notin {"idle", "over"}}
Creating(o) == \E r \in Underway : job[r].org = o /\ pc[r] \in {"client", "owner", "store"}
OrgsOf(u)   == {o \in Live : <<u, o>> \in roles}
Taken(n)    == \E o \in Live : org[o].name = n
SlugTaken(s) == \E o \in Live : org[o].slug = s

Fault == faults < MaxFaults /\ faults' = faults + 1

Move(r, from, to) ==
  /\ pc[r] = from
  /\ pc' = [pc EXCEPT ![r] = to]

Answer(r, from, a) ==
  /\ Move(r, from, "over")
  /\ answer' = [answer EXCEPT ![r] = a]

\* A check passes or refuses; nothing is written.
Check(r, from, to, passes) ==
  /\ Move(r, from, to)
  /\ passes
  /\ UNCHANGED <<stores, job, left, answer, history, faults>>

Refuse(r, from) ==
  /\ Answer(r, from, "refused")
  /\ UNCHANGED <<stores, job, left, history, faults>>

-----------------------------------------------------------------------------
\* createOrganization

AskCreate(r, u, n) ==
  /\ Move(r, "idle", "count")
  /\ job' = [job EXCEPT ![r] = [user |-> u, name |-> n, org |-> "none"]]
  /\ rushed' = IF \E s \in Underway : job[s].user = u THEN rushed \cup {u} ELSE rushed
  /\ UNCHANGED <<stores, left, answer, stranded, faults>>

CountOrgs(r) == Check(r, "count", "name", Cardinality(OrgsOf(job[r].user)) < Limit)
TooMany(r)   == Refuse(r, "count") /\ Cardinality(OrgsOf(job[r].user)) >= Limit

CheckName(r) == Check(r, "name", "slug", ~Taken(job[r].name))
NameTaken(r) == Refuse(r, "name") /\ Taken(job[r].name)

CheckSlug(r) == Check(r, "slug", "insert", ~SlugTaken(SlugOf[job[r].name]))
SlugRefused(r) == Refuse(r, "slug") /\ SlugTaken(SlugOf[job[r].name])

\* Wrong on purpose: the slug is left out.
InsertUnslugged(r, o) ==
  /\ Move(r, "insert", "client")
  /\ o \notin Live
  /\ org' = [org EXCEPT ![o] = [name |-> job[r].name, slug |-> "", registered |-> FALSE]]
  /\ job' = [job EXCEPT ![r].org = o]
  /\ UNCHANGED <<roles, clients, mapped, left, answer, history, faults>>

\* Wrong on purpose: a creation waits for others of the same name.
InsertWaits(r, o) ==
  /\ Move(r, "insert", "client")
  /\ o \notin Live
  /\ ~SlugTaken(SlugOf[job[r].name])
  /\ \A s \in Underway \ {r} : job[s].name # job[r].name
  /\ org' = [org EXCEPT ![o] = [name |-> job[r].name, slug |-> SlugOf[job[r].name], registered |-> FALSE]]
  /\ job' = [job EXCEPT ![r].org = o]
  /\ UNCHANGED <<roles, clients, mapped, left, answer, history, faults>>

\* The unique slug decides between two creations that passed the checks.
InsertOrg(r, o) ==
  /\ Move(r, "insert", "client")
  /\ o \notin Live
  /\ ~SlugTaken(SlugOf[job[r].name])
  /\ org' = [org EXCEPT ![o] = [name |-> job[r].name, slug |-> SlugOf[job[r].name], registered |-> FALSE]]
  /\ job' = [job EXCEPT ![r].org = o]
  /\ UNCHANGED <<roles, clients, mapped, left, answer, history, faults>>

InsertRefused(r) == Refuse(r, "insert") /\ SlugTaken(SlugOf[job[r].name])

\* registerToKeycloak: the client and its roles.
CreateClient(r) ==
  /\ Move(r, "client", "owner")
  /\ clients' = clients \cup {job[r].org}
  /\ left' = [left EXCEPT ![r] = {"keycloak", "role"}]
  /\ UNCHANGED <<org, roles, mapped, job, answer, history, faults>>

\* The owner's role, in both stores at once; a creation waits for both.
MapOwner(r) ==
  /\ pc[r] = "owner" /\ "keycloak" \in left[r]
  /\ left' = [left EXCEPT ![r] = @ \ {"keycloak"}]
  /\ mapped' = mapped \cup {<<job[r].user, job[r].org>>}
  /\ UNCHANGED <<org, roles, clients, pc, job, answer, history, faults>>

InsertRole(r) ==
  /\ pc[r] = "owner" /\ "role" \in left[r]
  /\ left' = [left EXCEPT ![r] = @ \ {"role"}]
  /\ roles' = roles \cup {<<job[r].user, job[r].org>>}
  /\ UNCHANGED <<org, clients, mapped, pc, job, answer, history, faults>>

\* Wrong on purpose: only Keycloak is waited for.
OwnerMapped(r) == Check(r, "owner", "store", "keycloak" \notin left[r])

OwnerKnown(r) == Check(r, "owner", "store", left[r] = {})

StoreClient(r) ==
  /\ Move(r, "store", "webhook")
  /\ org' = [org EXCEPT ![job[r].org].registered = TRUE]
  /\ UNCHANGED <<roles, clients, mapped, job, left, answer, history, faults>>

\* The webhook of the notifications is stored by another service.
StoreWebhook(r) == Check(r, "webhook", "log", TRUE)

\* createActivity, the last thing both operations do.
CreateActivity(r) ==
  /\ Answer(r, "log", "done")
  /\ UNCHANGED <<stores, job, left, history, faults>>

-----------------------------------------------------------------------------
\* updateOrganization.  The invitation of the agent is looked up by a key
\* that is never its own, so that the row is always updated.

AskUpdate(r, u, o, n) ==
  /\ <<u, o>> \in roles \cup mapped
  /\ Move(r, "idle", "rename")
  /\ job' = [job EXCEPT ![r] = [user |-> u, name |-> n, org |-> o]]
  /\ UNCHANGED <<stores, left, answer, history, faults>>

OtherHasName(r) == \E o \in Live \ {job[r].org} : org[o].name = job[r].name

CheckRename(r)   == Check(r, "rename", "update", ~OtherHasName(r))
RenameRefused(r) == Refuse(r, "rename") /\ OtherHasName(r)

UpdateOrg(r) ==
  /\ Move(r, "update", "log")
  /\ \A o \in Live \ {job[r].org} : org[o].slug # SlugOf[job[r].name]
  /\ org' = [org EXCEPT ![job[r].org].name = job[r].name, ![job[r].org].slug = SlugOf[job[r].name]]
  /\ UNCHANGED <<roles, clients, mapped, job, left, answer, history, faults>>

UpdateRefused(r) ==
  /\ Refuse(r, "update")
  /\ \E o \in Live \ {job[r].org} : org[o].slug = SlugOf[job[r].name]

-----------------------------------------------------------------------------
\* Organisations a request leaves half made.
Leaves(r) == IF pc[r] \in {"client", "owner", "store"} THEN {job[r].org} ELSE {}

\* Any call fails; one that was started with it may still be carried out.
Fail(r) ==
  /\ r \in Underway
  /\ Fault
  /\ Answer(r, pc[r], "failed")
  /\ stranded' = stranded \cup Leaves(r)
  /\ \E late \in SUBSET left[r] :
       /\ mapped' = mapped \cup (IF "keycloak" \in late THEN {<<job[r].user, job[r].org>>} ELSE {})
       /\ roles' = roles \cup (IF "role" \in late THEN {<<job[r].user, job[r].org>>} ELSE {})
  /\ left' = [left EXCEPT ![r] = {}]
  /\ UNCHANGED <<org, clients, job, rushed>>

Crash ==
  /\ Underway # {}
  /\ Fault
  /\ pc' = [r \in Requests |-> IF r \in Underway THEN "over" ELSE pc[r]]
  /\ answer' = [r \in Requests |-> IF r \in Underway THEN "failed" ELSE answer[r]]
  /\ left' = [r \in Requests |-> {}]
  /\ stranded' = stranded \cup UNION {Leaves(r) : r \in Underway}
  /\ UNCHANGED <<stores, job, rushed>>

Checking(r) ==
  \/ CountOrgs(r) \/ TooMany(r) \/ CheckName(r) \/ NameTaken(r) \/ CheckSlug(r) \/ SlugRefused(r)

Creation(r) ==
  \/ \E o \in Ids : InsertOrg(r, o)
  \/ InsertRefused(r) \/ CreateClient(r) \/ MapOwner(r) \/ InsertRole(r)
  \/ OwnerKnown(r) \/ StoreClient(r) \/ StoreWebhook(r) \/ CreateActivity(r)

Updating(r) == CheckRename(r) \/ RenameRefused(r) \/ UpdateOrg(r) \/ UpdateRefused(r)

Work(r) == Checking(r) \/ Creation(r) \/ Updating(r)

Next ==
  \/ \E r \in Requests, u \in Users, n \in Names : AskCreate(r, u, n)
  \/ \E r \in Requests, u \in Users, n \in Names, o \in Ids : AskUpdate(r, u, o, n)
  \/ \E r \in Requests : Work(r) \/ Fail(r)
  \/ Crash

Spec == Init /\ [][Next]_vars

\* Requests that were taken up go on, as long as there is a free id.
Fairness == \A r \in Requests : WF_vars(Work(r))
FairSpec == Spec /\ Fairness

-----------------------------------------------------------------------------
TypeOK ==
  /\ org \in [Ids -> [name : Names \cup {"none"}, slug : Slugs \cup {"none"}, registered : BOOLEAN]]
  /\ roles \subseteq Users \X Ids /\ mapped \subseteq Users \X Ids
  /\ clients \subseteq Ids
  /\ pc \in [Requests -> Pcs]
  /\ job \in [Requests -> [user : Users \cup {"none"}, name : Names \cup {"none"}, org : Ids \cup {"none"}]]
  /\ left \in [Requests -> SUBSET {"keycloak", "role"}]
  /\ answer \in [Requests -> {"none", "done", "refused", "failed"}]
  /\ stranded \subseteq Ids /\ rushed \subseteq Users
  /\ faults \in 0..MaxFaults

\* No two organisations have the same name, although the name is not unique
\* in the database and is checked before the row is written: the slug is
\* unique, and every write of a name writes the slug that goes with it.
NamesDiffer == \A o, p \in Live : o # p => org[o].name # org[p].name

\* An organisation has an owner who is known to both stores and a client it
\* knows, once its creation is over, unless the creation failed half way.
OrgsHaveOwner ==
  \A o \in Live :
    \/ Creating(o)
    \/ o \in stranded
    \/ org[o].registered /\ o \in clients /\ \E u \in Users : <<u, o>> \in roles \cap mapped

\* Nobody owns more than Limit organisations, except who created two at a time.
OwnersWithinLimit == \A u \in Users : Cardinality(OrgsOf(u)) <= Limit \/ u \in rushed

\* A name that somebody asks for goes to an organisation, whoever makes it,
\* unless something failed, was refused for another reason or ids ran out:
\* two creations of the same name never refuse each other.
Wanted(n)       == \E r \in Requests : pc[r] = "insert" /\ job[r].name = n
Given(n)        == faults > 0 \/ Live = Ids \/ \E o \in Live : org[o].slug = SlugOf[n]

\* A creation that is over leaves an organisation whose owner both stores know,
\* and nobody owns more than the limit, which is looked at before the first of
\* some ten steps.
OwnersKept == OrgsHaveOwner /\ OwnersWithinLimit
=============================================================================
