------------------------ MODULE OrgMembershipProofs ------------------------
(***************************************************************************)
(* What TLAPS proves of OrgMembership for any number of users, roles,      *)
(* organisations, invitations and requests, any limit and any number of    *)
(* failures and crashes.                                                   *)
(***************************************************************************)
EXTENDS OrgMembership, FiniteSetTheorems, TLAPS

-----------------------------------------------------------------------------
\* The invariants behind the theorems.

\* The operation a request is for goes with the place it has reached, and it is
\* about an invitation, or gives roles, where the operation needs that.
Fits(r) ==
  /\ pc[r] = "idle" => job[r].op = "none"
  /\ pc[r] \in {"count", "grant"} => job[r].op = "accept"
  /\ pc[r] \in {"details", "change"} => job[r].op \in {"accept", "update"}
  /\ pc[r] = "write" => job[r].op \in {"invite", "accept", "reject", "withdraw", "update"}
  /\ pc[r] \in {"client", "owner"} => job[r].op \in {"register", "map"}
  /\ pc[r] = "calls" => job[r].op \in {"accept", "register", "map"}
  /\ pc[r] \in {"clear", "roles", "regrant"} => job[r].op \in {"update", "map"}
  /\ pc[r] = "store" => job[r].op \in {"register", "map", "unregister"}
  /\ pc[r] = "remap" => job[r].op = "map"
  /\ job[r].op \in {"invite", "accept", "update", "register", "map"} => job[r].roles # {}
  /\ job[r].op \in {"accept", "reject", "withdraw"} => job[r].inv \in Invitations

JobsFit == (\A r \in Requests : Fits(r)) /\ \A i \in Invitations : terms[i].roles # {}

\* The calls that are awaited are those of the place, and only while they are
\* awaited is a failure of one remembered.
CallsOf(r) ==
  /\ pc[r] = "calls" => left[r] \subseteq IF job[r].op = "accept" THEN {"status", "kcGrant"} ELSE {"kcGrant", "drop"}
  /\ pc[r] = "clear" => left[r] \subseteq {"kcDrop", "drop"}
  /\ pc[r] = "regrant" => left[r] \subseteq {"kcGrant"}
  /\ pc[r] = "clear" /\ "drop" \in left[r] => sound[r]
  /\ ~sound[r] => Calling(r) \/ pc[r] = "over"

CallsFit == \A r \in Requests : CallsOf(r)

\* A request that has deleted the rows of a pair and has yet to send new ones.
Owes(r) == pc[r] = "roles" \/ (pc[r] = "clear" /\ "drop" \notin left[r] /\ sound[r])

\* Who had a role has one, or a row on its way, or a request that owes one.
MembersKept ==
  \A p \in joined :
    \/ p \in torn
    \/ RowsOf(p[1], p[2]) # {}
    \/ Arriving(p[1], p[2])
    \/ \E r \in Requests : Owes(r) /\ Pair(r) = p

\* Rows of a request that accepts are of its pair, and there are none before it
\* grants.
RowsFit ==
  \A x \in rows \cup onTheWay :
    x.by \in Requests =>
      /\ pc[x.by] # "idle"
      /\ job[x.by].op = "accept" =>
           /\ pc[x.by] \in {"grant", "calls", "over"}
           /\ x.user = job[x.by].user /\ x.org = job[x.by].org

\* An invitation nobody contests has one request at work on it, which finds it
\* as it read it.
OneAnswer ==
  \A i \in Invitations \ contested : \A r, s \in Underway : job[r].inv = i /\ job[s].inv = i => r = s

AnswerFresh(r) ==
  LET i == job[r].inv
  IN /\ pc[r] \in {"count", "details", "change", "write"} => status[i] = "pending"
     /\ pc[r] = "grant" => status[i] = "accepted"
     /\ pc[r] = "calls" => IF "status" \in left[r] THEN status[i] = "pending" ELSE status[i] = "accepted" \/ ~sound[r]

AnswersFresh ==
  \A r \in Requests :
    job[r].op \in {"accept", "reject", "withdraw"} /\ job[r].inv \notin contested => AnswerFresh(r)

\* What an acceptance that is over has granted belongs to an accepted
\* invitation, unless it was contested or something failed.
GrantsAccepted ==
  \A x \in rows \cup onTheWay :
    x.by \in Requests /\ job[x.by].op = "accept" =>
      \/ status[job[x.by].inv] = "accepted"
      \/ job[x.by].inv \in contested
      \/ x.by \in Underway
      \/ <<x.user, x.org>> \in drifted

\* A pair nobody rushes has one request at work that invites, and when it has
\* checked, no other invitation is open.
Open(i) == status[i] \in {"pending", "accepted"}
Terms(i) == <<terms[i].user, terms[i].org>>

OneInvite ==
  \A r, s \in Underway :
    job[r].op = "invite" /\ job[s].op = "invite" /\ Pair(r) = Pair(s) /\ Pair(r) \notin rushed => r = s

InviteChecked ==
  \A r \in Requests :
    job[r].op = "invite" /\ pc[r] = "write" /\ Pair(r) \notin rushed =>
      \A i \in Invitations : Open(i) /\ Terms(i) = Pair(r) => i \in contested

\* What a request will insert again.
Restores(r, u, o) ==
  \/ /\ job[r].user = u /\ job[r].org = o
     /\ \/ job[r].op = "update" /\ pc[r] # "read"
        \/ job[r].op = "register"
        \/ job[r].op = "map" /\ pc[r] \notin {"read", "remap"}
  \/ job[r].op = "map" /\ \E x \in job[r].list : x.user = u /\ x.org = o

\* The organisations a user is in or will be in again, whoever is at work.
Potential(u) ==
  {o \in Orgs : RowsOf(u, o) # {} \/ Arriving(u, o) \/ \E r \in Underway : Restores(r, u, o)}

\* While somebody who is not rushed accepts, nobody else inserts rows of theirs.
AcceptsAlone ==
  \A r \in Underway :
    job[r].op = "accept" /\ job[r].user \notin rushed =>
      /\ \A s \in Underway : Accepting(s, job[r].user) => s = r
      /\ \A s \in Underway : ~Rewrites(s, job[r].user)
      /\ \A x \in onTheWay : x.user = job[r].user => x.by = r

\* So there is still room for the organisation when the rows come.
RoomForOne ==
  \A r \in Underway :
    /\ job[r].op = "accept" /\ job[r].user \notin rushed
    /\ pc[r] \in {"details", "write", "change", "grant"}
    => Cardinality(Potential(job[r].user) \ {job[r].org}) < Limit

WithinLimit == \A u \in Users \ {Founder} : Cardinality(Potential(u)) <= Limit \/ u \in rushed

\* Where nothing has drifted, one request at a time registers an organisation
\* or withdraws that.
Calm(o) == \A u \in Users : <<u, o>> \notin drifted

OneRegistration ==
  \A o \in Orgs : Calm(o) =>
    \A r, s \in Underway :
      /\ job[r].op \in WholeOrg /\ (job[r].org = o \/ o \in job[r].todo)
      /\ job[s].op \in WholeOrg /\ (job[s].org = o \/ o \in job[s].todo)
      => r = s

\* Between Keycloak and the database it knows where it is.
Made(r, o)      == job[r].org = o /\ job[r].op \in {"register", "map"} /\ pc[r] \in {"owner", "calls", "store"}
Withdrawn(r, o) == job[r].org = o /\ job[r].op = "unregister" /\ pc[r] = "store"

ClientsKnown ==
  \A o \in Orgs : Calm(o) =>
    /\ \A r \in Requests : Made(r, o) => o \in clients /\ o \notin registered
    /\ \A r \in Requests : Withdrawn(r, o) => o \notin clients /\ o \in registered
    /\ (\A r \in Requests : ~Made(r, o) /\ ~Withdrawn(r, o)) => (o \in clients <=> o \in registered)

\* The roles a member has or is about to have, those on their way, those a
\* registration of all organisations has yet to insert again, and those that are
\* being granted in Keycloak.
RowsAhead(u, o)  == {x \in rows \cup onTheWay : x.user = u /\ x.org = o}
RowsSent(u, o)   == {x \in onTheWay : x.user = u /\ x.org = o}
Promised(u, o)   == {x.role : x \in RowsAhead(u, o)}
Sent(u, o)       == {x.role : x \in RowsSent(u, o)}
Listed(r, u, o)  == {x.role : x \in {y \in job[r].list : y.user = u /\ y.org = o}}
Granting(r)      == IF "kcGrant" \in left[r] THEN job[r].roles ELSE {}

\* Of a registered organisation both stores say the same, and nothing is on its
\* way.
Even(u, o)    == o \in registered => Promised(u, o) = MappedTo(u, o)
AtRest(u, o)  == Sent(u, o) = {} /\ Even(u, o)

\* A request about one member changes both stores together, or only the rows
\* when the organisation is not registered.
MemberStage(r, u, o) ==
  /\ pc[r] \in {"read", "count", "details", "change"} => AtRest(u, o)
  /\ pc[r] = "change" => o \in registered
  /\ pc[r] \in {"write", "grant"} => o \notin registered
  /\ pc[r] \in {"calls", "regrant"} => Promised(u, o) = MappedTo(u, o) \cup Granting(r)
  /\ pc[r] \in {"clear", "roles"} => Sent(u, o) = {}
  /\ pc[r] = "clear" /\ "kcDrop" \notin left[r] => MappedTo(u, o) = {}
  /\ pc[r] = "clear" /\ "drop" \notin left[r] /\ sound[r] => Promised(u, o) = {}
  /\ pc[r] = "roles" => MappedTo(u, o) = {} /\ Promised(u, o) = {}

\* The owner in whose name an organisation is registered starts without
\* mappings, and gets the role in both stores at once.
OwnerStage(r, u, o) ==
  /\ job[r].roles = {Owner}
  /\ pc[r] \in {"client", "owner"} => Sent(u, o) = {} /\ o \notin registered
  /\ pc[r] = "owner" => MappedTo(u, o) = {}
  /\ pc[r] = "calls" =>
       /\ Sent(u, o) \subseteq {Owner}
       /\ "drop" \notin left[r] => Promised(u, o) = {Owner}
       /\ MappedTo(u, o) = {Owner} \ Granting(r)
  /\ pc[r] = "store" => Sent(u, o) \subseteq {Owner} /\ Promised(u, o) = {Owner} /\ MappedTo(u, o) = {Owner}

\* A member who waits for a registration of all organisations is on its list.
Waits(r, u, o) == Sent(u, o) = {} /\ (Listed(r, u, o) = {} => Promised(u, o) = {})

\* What such a registration has left of a member is mapped, or on its list still,
\* or being sent.
Rebuilt(u, o, more) == MappedTo(u, o) \subseteq Promised(u, o) /\ Promised(u, o) \subseteq MappedTo(u, o) \cup more

\* A member whose turn it is,
TurnStage(r, u, o) ==
  LET more == Listed(r, u, o) \cup job[r].roles
  IN /\ pc[r] = "clear" =>
          /\ Sent(u, o) \subseteq more
          /\ "drop" \notin left[r] => Promised(u, o) \subseteq more
          /\ "kcDrop" \notin left[r] => MappedTo(u, o) = {}
     /\ pc[r] \in {"roles", "regrant"} => Rebuilt(u, o, more)
     /\ pc[r] = "regrant" =>
          /\ job[r].roles \subseteq Promised(u, o)
          /\ "kcGrant" \notin left[r] => Rebuilt(u, o, Listed(r, u, o))

\* and one whose turn was, or is still to come.
BesideStage(r, u, o) ==
  IF u \in job[r].cleared
  THEN Rebuilt(u, o, Listed(r, u, o))
  ELSE Sent(u, o) \subseteq Listed(r, u, o) /\ (Listed(r, u, o) = {} => Even(u, o))

\* An organisation that waits, one that is being registered, and one whose
\* members are made anew.
TodoStage(r, u, o) ==
  /\ o \notin registered
  /\ Waits(r, u, o)
  /\ o = job[r].org => pc[r] = "remap" /\ job[r].cleared = {}

ClientStage(r, u, o) ==
  /\ job[r].cleared = {}
  /\ pc[r] = "client" => o \notin registered
  /\ IF u = job[r].user
     THEN OwnerStage(r, u, o) /\ Owner \in Listed(r, u, o)
     ELSE Waits(r, u, o) /\ (pc[r] # "client" => MappedTo(u, o) = {})

MembersStage(r, u, o) ==
  IF u = job[r].user /\ pc[r] # "remap"
  THEN u \in job[r].cleared /\ TurnStage(r, u, o)
  ELSE BesideStage(r, u, o)

MapStage(r, u, o) ==
  /\ pc[r] = "read" => AtRest(u, o) /\ job[r].cleared = {}
  /\ pc[r] # "read" /\ o \in job[r].todo => TodoStage(r, u, o)
  /\ pc[r] # "read" /\ o \notin job[r].todo =>
       /\ pc[r] \in {"client", "owner", "calls", "store"} => ClientStage(r, u, o)
       /\ pc[r] \in {"remap", "clear", "roles", "regrant"} => MembersStage(r, u, o)

\* What the stores hold while a request may change the roles of a pair.
RegisterStage(r, u, o) ==
  /\ u = job[r].user /\ o = job[r].org
  /\ pc[r] = "read" => AtRest(u, o)
  /\ OwnerStage(r, u, o)

StageOf(r, u, o) ==
  /\ job[r].op \in {"accept", "update"} => MemberStage(r, u, o)
  /\ job[r].op = "register" => RegisterStage(r, u, o)
  /\ job[r].op = "unregister" => o = job[r].org /\ (pc[r] = "read" => Even(u, o))
  /\ job[r].op = "map" => MapStage(r, u, o)

\* Where nothing has drifted, one request at a time may change the roles of a
\* pair.
OneToucher ==
  \A p \in Pairs \ drifted : \A r, s \in Underway :
    Touches(r, p[1], p[2]) /\ Touches(s, p[1], p[2]) => r = s

MappedHaveClient == \A m \in mapped : m[2] \in clients

\* And where nothing was torn either, the stores hold what its place says, or
\* the same when there is none.
StoresFit ==
  \A p \in Pairs \ (drifted \cup torn) :
    /\ \A r \in Underway : Touches(r, p[1], p[2]) => StageOf(r, p[1], p[2])
    /\ (\A r \in Underway : ~Touches(r, p[1], p[2])) => Even(p[1], p[2])

\* The inductive invariant.
IInv ==
  /\ TypeOK /\ JobsFit /\ CallsFit
  /\ MembersKept
  /\ RowsFit /\ OneAnswer /\ AnswersFresh /\ GrantsAccepted
  /\ OneInvite /\ InviteChecked /\ OneOpenInvitation
  /\ AcceptsAlone /\ RoomForOne /\ WithinLimit
  /\ OneRegistration /\ ClientsKnown
  /\ OneToucher /\ MappedHaveClient /\ StoresFit

-----------------------------------------------------------------------------
\* The steps of a request, by what they change.

\* Steps that only move the request on.
Checks(r) ==
  \/ CheckInvited(r) \/ ReadInvitation(r) \/ CountOrgs(r) \/ ReadOrg(r) \/ CheckMember(r)
  \/ ReadUnregistered(r) \/ AllSettled(r)

\* Steps that end it, and change nothing else.
Refusals(r) ==
  \/ InvitedAlready(r) \/ InvitationClosed(r) \/ LimitReached(r) \/ InvitationGone(r) \/ NotAMember(r)
  \/ NothingToReplace(r) \/ NewSecret(r) \/ ClientExists(r) \/ AllMapped(r) \/ NoClient(r)

\* Steps that write the status of an invitation.
Writes(r) == Reject(r) \/ Withdraw(r) \/ Accept(r) \/ StatusWritten(r)

\* Steps that send rows, without waiting for them.
Sends(r) == AcceptClient(r) \/ ReplaceRows(r) \/ Regrant(r) \/ RegisterOwner(r)

\* Steps that take up the next part of a request about many members.
TakesUp(r) ==
  \/ ReadAllUnregistered(r)
  \/ \E o \in job[r].todo : SkipOrg(r, o)
  \/ \E x \in job[r].list : NextOrg(r, x) \/ Remap(r, x)

\* Steps that create or delete a client, or store that.
Keeps(r) == CreateClient(r) \/ StoreClient(r) \/ DeleteClient(r) \/ ForgetClient(r)

\* Steps that map roles in Keycloak.
Maps(r) == RoleMapped(r) \/ RolesUnmapped(r)

\* Steps that lose something.
Loses(r) == OneFailed(r) \/ Failing(r)

Creates(r) == \E i \in Invitations : CreateSendInvitation(r, i)

Act(r) ==
  \/ Asking(r) \/ Checks(r) \/ Refusals(r) \/ Creates(r) \/ Writes(r) \/ GrantRole(r) \/ Sends(r)
  \/ ClearRoles(r) \/ RowsDropped(r) \/ Maps(r) \/ TakesUp(r) \/ Keeps(r) \/ Loses(r)

\* These are all of them.
LEMMA NextIsAct ==
  Next <=> (\E r \in Requests : Act(r)) \/ (\E x \in onTheWay : InsertRow(x)) \/ Crash
BY DEF Next, Act, Work, Inviting, Answering, Settling, Updating, Registering, Checks, Refusals, Creates,
       Writes, Sends, TakesUp, Keeps, Maps, Loses

-----------------------------------------------------------------------------
\* Type correctness.

Job == [op : Ops, user : Users, org : Orgs, roles : SUBSET Roles, inv : Invitations \cup {"none"},
        list : SUBSET Row, cleared : SUBSET Users, todo : SUBSET Orgs]

\* A request that was not made yet is about some organisation.
LEMMA NoJobTyped == NoJob \in Job
<1>1. (CHOOSE o \in Orgs : TRUE) \in Orgs
  BY ConstantsAssumption
<1> QED
  BY <1>1, ConstantsAssumption DEF NoJob, Job, Ops

\* Every initial state is well typed.
LEMMA InitTypeOK == Init => TypeOK
<1> SUFFICES ASSUME Init PROVE TypeOK
  OBVIOUS
<1>1. job \in [Requests -> Job]
  BY NoJobTyped DEF Init
<1>2. 0 \in 0..MaxFaults
  BY ConstantsAssumption
<1>3. rows \subseteq Row /\ mapped \subseteq Users \X Orgs \X Roles
  BY ConstantsAssumption DEF Init, Row
<1>4. terms \in [Invitations -> [user : Users, org : Orgs, roles : SUBSET Roles]]
  <2>1. terms \in [Invitations -> [user : Users \ {Founder}, org : Orgs, roles : {{q} : q \in Roles}]]
    BY DEF Init
  <2> QED
    BY <2>1
<1>5. joined \subseteq Pairs
  BY ConstantsAssumption DEF Init, Pairs
<1> QED
  BY <1>1, <1>2, <1>3, <1>4, <1>5 DEF Init, TypeOK, Job, Status, Pcs

\* What the rows of a request say of it is typed.
LEMMA JobTyped ==
  ASSUME TypeOK, NEW r \in Requests
  PROVE  /\ job \in [Requests -> Job] /\ job[r] \in Job
         /\ NewRows(r) \subseteq Row /\ Pair(r) \in Pairs
<1>1. job \in [Requests -> Job]
  BY DEF TypeOK, Job
<1>2. job[r] \in Job
  BY <1>1
<1>3. NewRows(r) \subseteq Row
  BY <1>2 DEF NewRows, Row, Job
<1>4. Pair(r) \in Pairs
  BY <1>2 DEF Pair, Pairs, Job
<1> QED
  BY <1>1, <1>2, <1>3, <1>4

\* What is asked for is typed.
LEMMA AskTyped ==
  ASSUME NEW op \in Offered, NEW u \in Users, NEW o \in Orgs, NEW p \in SUBSET Roles
  PROVE  [NoJob EXCEPT !.op = op, !.user = u, !.org = o, !.roles = p] \in Job
BY NoJobTyped DEF Job, Ops

LEMMA AnswerTyped ==
  ASSUME NEW op \in Offered, NEW u \in Users, NEW o \in Orgs, NEW p \in SUBSET Roles, NEW i \in Invitations
  PROVE  /\ [NoJob EXCEPT !.op = op, !.user = u, !.org = o, !.roles = p, !.inv = i] \in Job
         /\ [NoJob EXCEPT !.op = op, !.org = o, !.inv = i] \in Job
BY NoJobTyped DEF Job, Ops

\* Every step of a request keeps the types.
LEMMA AskTypeOK == ASSUME TypeOK, NEW r \in Requests, Asking(r) PROVE TypeOK'
<1>1. job \in [Requests -> Job]
  BY JobTyped
<1>2. job' \in [Requests -> Job]
  <2>1. ASSUME NEW u \in Users \ {Founder}, NEW o \in Orgs, NEW q \in Roles, AskInvite(r, u, o, q)
        PROVE  job' \in [Requests -> Job]
    <3>1. /\ job' = [job EXCEPT ![r] = [NoJob EXCEPT !.op = "invite", !.user = u, !.org = o, !.roles = {q}]]
          /\ [NoJob EXCEPT !.op = "invite", !.user = u, !.org = o, !.roles = {q}].op \in Offered
      BY <2>1 DEF AskInvite, Ask
    <3>2. "invite" \in Offered
      BY <3>1 DEF NoJob
    <3>3. {q} \in SUBSET Roles
      OBVIOUS
    <3>4. [NoJob EXCEPT !.op = "invite", !.user = u, !.org = o, !.roles = {q}] \in Job
      BY <3>2, <3>3, AskTyped
    <3> QED
      BY <1>1, <3>1, <3>4
  <2>2. ASSUME NEW u \in Users, NEW o \in Orgs, NEW q \in Roles, AskUpdate(r, u, o, q)
        PROVE  job' \in [Requests -> Job]
    <3>1. /\ job' = [job EXCEPT ![r] = [NoJob EXCEPT !.op = "update", !.user = u, !.org = o, !.roles = {q}]]
          /\ [NoJob EXCEPT !.op = "update", !.user = u, !.org = o, !.roles = {q}].op \in Offered
      BY <2>2 DEF AskUpdate, Ask
    <3>2. "update" \in Offered
      BY <3>1 DEF NoJob
    <3>3. {q} \in SUBSET Roles
      OBVIOUS
    <3>4. [NoJob EXCEPT !.op = "update", !.user = u, !.org = o, !.roles = {q}] \in Job
      BY <3>2, <3>3, AskTyped
    <3> QED
      BY <1>1, <3>1, <3>4
  <2>3. ASSUME NEW i \in Invitations, NEW a \in {"accept", "reject"}, AskAnswer(r, i, a)
        PROVE  job' \in [Requests -> Job]
    <3> DEFINE what == [NoJob EXCEPT !.op = a, !.user = terms[i].user, !.org = terms[i].org,
                                     !.roles = terms[i].roles, !.inv = i]
    <3>1. job' = [job EXCEPT ![r] = what] /\ what.op \in Offered
      BY <2>3 DEF AskAnswer, Ask
    <3>2. a \in Offered
      BY <3>1 DEF NoJob
    <3>3. terms[i] \in [user : Users, org : Orgs, roles : SUBSET Roles]
      BY DEF TypeOK
    <3>4. what \in Job
      BY <3>2, <3>3, AnswerTyped
    <3> QED
      BY <1>1, <3>1, <3>4
  <2>4. ASSUME NEW i \in Invitations, AskWithdraw(r, i) PROVE job' \in [Requests -> Job]
    <3> DEFINE what == [NoJob EXCEPT !.op = "withdraw", !.org = terms[i].org, !.inv = i]
    <3>1. job' = [job EXCEPT ![r] = what] /\ what.op \in Offered
      BY <2>4 DEF AskWithdraw, Ask
    <3>2. "withdraw" \in Offered
      BY <3>1 DEF NoJob
    <3>3. terms[i].org \in Orgs /\ Founder \in Users
      BY ConstantsAssumption DEF TypeOK
    <3>4. what \in Job
      BY <3>2, <3>3, AnswerTyped
    <3> QED
      BY <1>1, <3>1, <3>4
  <2>5. ASSUME NEW op \in WholeOrg, NEW u \in Users, NEW o \in Orgs, AskWholeOrg(r, op, u, o)
        PROVE  job' \in [Requests -> Job]
    <3> DEFINE what == [NoJob EXCEPT !.op = op, !.user = u, !.org = o, !.roles = {Owner}]
    <3>1. job' = [job EXCEPT ![r] = what] /\ what.op \in Offered
      BY <2>5 DEF AskWholeOrg, Ask
    <3>2. op \in Offered
      BY <3>1 DEF NoJob
    <3>3. {Owner} \in SUBSET Roles
      BY ConstantsAssumption
    <3>4. what \in Job
      BY <3>2, <3>3, AskTyped
    <3> QED
      BY <1>1, <3>1, <3>4
  <2> QED
    BY <2>1, <2>2, <2>3, <2>4, <2>5 DEF Asking
<1>3. pc' \in [Requests -> Pcs] /\ UNCHANGED <<database, keycloak, left, sound, onTheWay, joined, torn, faults>>
  BY DEF Asking, AskInvite, AskUpdate, AskAnswer, AskWithdraw, AskWholeOrg, Ask, Step, TypeOK, Pcs
<1>4. drifted' \subseteq Pairs /\ rushed' \subseteq Users \cup Pairs
  <2>0. drifted \subseteq Pairs /\ rushed \subseteq Users \cup Pairs
    BY DEF TypeOK
  <2>1. ASSUME NEW u \in Users \ {Founder}, NEW o \in Orgs, NEW q \in Roles, AskInvite(r, u, o, q)
        PROVE  drifted' \subseteq Pairs /\ rushed' \subseteq Users \cup Pairs
    BY <2>0, <2>1 DEF AskInvite, Pairs
  <2>2. ASSUME NEW u \in Users, NEW o \in Orgs, NEW q \in Roles, AskUpdate(r, u, o, q)
        PROVE  drifted' \subseteq Pairs /\ rushed' \subseteq Users \cup Pairs
    BY <2>0, <2>2 DEF AskUpdate, Pairs
  <2>3. ASSUME NEW i \in Invitations, NEW a \in {"accept", "reject"}, AskAnswer(r, i, a)
        PROVE  drifted' \subseteq Pairs /\ rushed' \subseteq Users \cup Pairs
    <3>1. terms[i].user \in Users /\ <<terms[i].user, terms[i].org>> \in Pairs
      BY DEF TypeOK, Pairs
    <3>2. drifted' = drifted \/ drifted' = drifted \cup {<<terms[i].user, terms[i].org>>}
      BY <2>3 DEF AskAnswer
    <3>3. rushed' = rushed \/ rushed' = rushed \cup {terms[i].user}
      BY <2>3 DEF AskAnswer
    <3> QED
      BY <2>0, <3>1, <3>2, <3>3
  <2>4. ASSUME NEW i \in Invitations, AskWithdraw(r, i)
        PROVE  drifted' \subseteq Pairs /\ rushed' \subseteq Users \cup Pairs
    BY <2>0, <2>4 DEF AskWithdraw
  <2>5. ASSUME NEW op \in WholeOrg, NEW u \in Users, NEW o \in Orgs, AskWholeOrg(r, op, u, o)
        PROVE  drifted' \subseteq Pairs /\ rushed' \subseteq Users \cup Pairs
    <3>1. drifted' \subseteq drifted \cup Pairs /\ rushed' \subseteq rushed \cup Users
      BY <2>5 DEF AskWholeOrg
    <3> QED
      BY <2>0, <3>1
  <2> QED
    BY <2>1, <2>2, <2>3, <2>4, <2>5 DEF Asking
<1>5. contested' \subseteq Invitations
  BY DEF Asking, AskInvite, AskUpdate, AskAnswer, AskWithdraw, AskWholeOrg, TypeOK
<1> QED
  BY <1>2, <1>3, <1>4, <1>5 DEF TypeOK, Job, database, keycloak

\* So do the steps that work on it,
LEMMA WorkTypeOK ==
  ASSUME TypeOK, NEW r \in Requests, Act(r), ~Asking(r), ~TakesUp(r), ~Loses(r)
  PROVE  TypeOK'
<1> USE DEF database, keycloak, history
<1>0. /\ NewRows(r) \subseteq Row /\ Pair(r) \in Pairs
      /\ job[r].user \in Users /\ job[r].org \in Orgs /\ job[r].roles \subseteq Roles
  BY JobTyped DEF Job
<1>1. CASE Checks(r)
  <2>1. pc' \in [Requests -> Pcs]
    BY <1>1 DEF Checks, CheckInvited, ReadInvitation, CountOrgs, ReadOrg, CheckMember, ReadUnregistered,
                AllSettled, Step, Calling, TypeOK, Pcs
  <2>2. UNCHANGED <<database, keycloak, job, left, sound, onTheWay, history, faults>>
    BY <1>1 DEF Checks, CheckInvited, ReadInvitation, CountOrgs, ReadOrg, CheckMember, ReadUnregistered,
                AllSettled
  <2> QED
    BY <2>1, <2>2 DEF TypeOK
<1>2. CASE Refusals(r)
  BY <1>2 DEF Refusals, InvitedAlready, InvitationClosed, LimitReached, InvitationGone, NotAMember,
              NothingToReplace, NewSecret, ClientExists, AllMapped, NoClient, Refuse, Step, TypeOK, Pcs
<1>3. CASE Creates(r)
  <2>1. PICK i \in Invitations : CreateSendInvitation(r, i)
    BY <1>3 DEF Creates
  <2>2. terms' \in [Invitations -> [user : Users, org : Orgs, roles : SUBSET Roles]]
    BY <1>0, <2>1 DEF CreateSendInvitation, TypeOK
  <2>3. status' \in [Invitations -> Status] /\ pc' \in [Requests -> Pcs]
    BY <2>1 DEF CreateSendInvitation, TypeOK, Step, Status, Pcs
  <2> QED
    BY <2>1, <2>2, <2>3 DEF CreateSendInvitation, TypeOK
<1>4. CASE Writes(r)
  <2>1. status' \in [Invitations -> Status]
    BY <1>4 DEF Writes, Reject, Withdraw, Accept, StatusWritten, SetStatus, TypeOK, Status
  <2>2. pc' \in [Requests -> Pcs] /\ left' \in [Requests -> SUBSET Calls]
    BY <1>4 DEF Writes, Reject, Withdraw, Accept, StatusWritten, Settle, Step, TypeOK, Pcs
  <2>3. UNCHANGED <<terms, rows, registered, keycloak, job, sound, onTheWay, history, faults>>
    BY <1>4 DEF Writes, Reject, Withdraw, Accept, StatusWritten, Settle, SetStatus
  <2> QED
    BY <2>1, <2>2, <2>3 DEF TypeOK
<1>5. CASE GrantRole(r)
  <2>1. rows' \subseteq Row /\ joined' \subseteq Pairs
    BY <1>0, <1>5 DEF GrantRole, TypeOK, Pair
  <2> QED
    BY <1>5, <2>1 DEF GrantRole, TypeOK, Step, Pcs
<1>6. CASE Sends(r)
  <2>1. rows' \subseteq Row /\ onTheWay' \subseteq Row
    BY <1>0, <1>6 DEF Sends, AcceptClient, ReplaceRows, Regrant, RegisterOwner, TypeOK
  <2>2. pc' \in [Requests -> Pcs]
    BY <1>6 DEF Sends, AcceptClient, ReplaceRows, Regrant, RegisterOwner, Step, TypeOK, Pcs
  <2>3. left' \in [Requests -> SUBSET Calls]
    BY <1>6 DEF Sends, AcceptClient, ReplaceRows, Regrant, RegisterOwner, TypeOK, Calls
  <2>4. UNCHANGED <<status, terms, registered, keycloak, job, sound, history, faults>>
    BY <1>6 DEF Sends, AcceptClient, ReplaceRows, Regrant, RegisterOwner
  <2> QED
    BY <2>1, <2>2, <2>3, <2>4 DEF TypeOK
<1>7. CASE ClearRoles(r)
  BY <1>7 DEF ClearRoles, Step, TypeOK, Pcs, Calls
<1>8. CASE RowsDropped(r)
  <2>1. sound' \in [Requests -> BOOLEAN]
    <3> DEFINE found == sound[r] /\ (job[r].op = "update" => RowsOf(job[r].user, job[r].org) # {})
    <3>1. sound' = [sound EXCEPT ![r] = found]
      BY <1>8 DEF RowsDropped
    <3>2. found \in BOOLEAN
      BY Zenon
    <3> HIDE DEF found
    <3> QED
      BY <3>1, <3>2 DEF TypeOK
  <2>2. torn' \subseteq Pairs
    BY <1>0, <1>8 DEF RowsDropped, TypeOK
  <2>3. rows' \subseteq Row
    BY <1>8 DEF RowsDropped, TypeOK
  <2>4. left' \in [Requests -> SUBSET Calls]
    BY <1>8 DEF RowsDropped, Settle, TypeOK
  <2>5. UNCHANGED <<status, terms, registered, keycloak, pc, job, onTheWay, joined, drifted, contested, rushed, faults>>
    BY <1>8 DEF RowsDropped, Settle
  <2> QED
    BY <2>1, <2>2, <2>3, <2>4, <2>5 DEF TypeOK
<1>9. CASE Maps(r)
  <2>1. mapped' \subseteq Users \X Orgs \X Roles
    BY <1>0, <1>9 DEF Maps, RoleMapped, RolesUnmapped, TypeOK
  <2>2. left' \in [Requests -> SUBSET Calls]
    BY <1>9 DEF Maps, RoleMapped, RolesUnmapped, Settle, TypeOK
  <2>3. UNCHANGED <<database, clients, pc, job, sound, onTheWay, history, faults>>
    BY <1>9 DEF Maps, RoleMapped, RolesUnmapped, Settle
  <2> QED
    BY <2>1, <2>2, <2>3 DEF TypeOK
<1>10. CASE Keeps(r)
  <2>1. registered' \subseteq Orgs /\ clients' \subseteq Orgs /\ mapped' \subseteq mapped
    BY <1>0, <1>10 DEF Keeps, CreateClient, StoreClient, DeleteClient, ForgetClient, TypeOK
  <2>2. pc' \in [Requests -> Pcs]
    BY <1>10 DEF Keeps, CreateClient, StoreClient, DeleteClient, ForgetClient, Step, TypeOK, Pcs
  <2>3. UNCHANGED <<status, terms, rows, job, left, sound, onTheWay, history, faults>>
    BY <1>10 DEF Keeps, CreateClient, StoreClient, DeleteClient, ForgetClient
  <2> QED
    BY <2>1, <2>2, <2>3 DEF TypeOK
<1> QED
  BY <1>1, <1>2, <1>3, <1>4, <1>5, <1>6, <1>7, <1>8, <1>9, <1>10 DEF Act

\* What a request that concerns many members goes on with.
LEMMA NextJobs ==
  ASSUME TypeOK, NEW r \in Requests
  PROVE  /\ ReadAllUnregistered(r) =>
              job' = [job EXCEPT ![r] = [job[r] EXCEPT !.todo = Orgs \ registered,
                                                       !.list = {x \in rows : x.org \notin registered}]]
         /\ \A o : SkipOrg(r, o) =>
              job' = [job EXCEPT ![r] = [job[r] EXCEPT !.todo = job[r].todo \ {o},
                                                       !.list = {x \in job[r].list : x.org # o}]]
         /\ \A x : NextOrg(r, x) =>
              job' = [job EXCEPT ![r] = [job[r] EXCEPT !.todo = job[r].todo \ {x.org}, !.org = x.org,
                                                       !.user = x.user, !.roles = {Owner}, !.cleared = {}]]
         /\ \A x : Remap(r, x) =>
              job' = [job EXCEPT ![r] = [job[r] EXCEPT !.list = job[r].list \ {x}, !.user = x.user,
                                                       !.roles = {x.role},
                                                       !.cleared = job[r].cleared \cup {x.user}]]
<1>0. job \in [Requests -> Job] /\ job[r] \in Job
  BY JobTyped
<1>1. ASSUME ReadAllUnregistered(r)
      PROVE  job' = [job EXCEPT ![r] = [job[r] EXCEPT !.todo = Orgs \ registered,
                                                      !.list = {x \in rows : x.org \notin registered}]]
  BY <1>1 DEF ReadAllUnregistered
<1>2. ASSUME NEW o, SkipOrg(r, o)
      PROVE  job' = [job EXCEPT ![r] = [job[r] EXCEPT !.todo = job[r].todo \ {o},
                                                      !.list = {x \in job[r].list : x.org # o}]]
  BY <1>0, <1>2 DEF SkipOrg
<1>3. ASSUME NEW x, NextOrg(r, x)
      PROVE  job' = [job EXCEPT ![r] = [job[r] EXCEPT !.todo = job[r].todo \ {x.org}, !.org = x.org,
                                                      !.user = x.user, !.roles = {Owner}, !.cleared = {}]]
  BY <1>0, <1>3 DEF NextOrg
<1>4. ASSUME NEW x, Remap(r, x)
      PROVE  job' = [job EXCEPT ![r] = [job[r] EXCEPT !.list = job[r].list \ {x}, !.user = x.user,
                                                      !.roles = {x.role},
                                                      !.cleared = job[r].cleared \cup {x.user}]]
  BY <1>0, <1>4 DEF Remap
<1> QED
  BY <1>1, <1>2, <1>3, <1>4

\* those that take up the next of many members,
LEMMA TakesUpTypeOK == ASSUME TypeOK, NEW r \in Requests, TakesUp(r) PROVE TypeOK'
<1>0. job \in [Requests -> Job] /\ job[r] \in Job
  BY JobTyped
<1>1. job' \in [Requests -> Job]
  <2>1. CASE ReadAllUnregistered(r)
    <3> DEFINE next == [job[r] EXCEPT !.todo = Orgs \ registered, !.list = {x \in rows : x.org \notin registered}]
    <3>1. job' = [job EXCEPT ![r] = next]
      BY <2>1, NextJobs
    <3>2. next \in Job
      BY <1>0 DEF TypeOK, Job
    <3> QED
      BY <1>0, <3>1, <3>2
  <2>2. ASSUME NEW o \in job[r].todo, SkipOrg(r, o) PROVE job' \in [Requests -> Job]
    <3> DEFINE next == [job[r] EXCEPT !.todo = job[r].todo \ {o}, !.list = {x \in job[r].list : x.org # o}]
    <3>1. job' = [job EXCEPT ![r] = next]
      BY <2>2, NextJobs
    <3>2. next \in Job
      BY <1>0 DEF Job
    <3> QED
      BY <1>0, <3>1, <3>2
  <2>3. ASSUME NEW x \in job[r].list, NextOrg(r, x) PROVE job' \in [Requests -> Job]
    <3> DEFINE next == [job[r] EXCEPT !.todo = job[r].todo \ {x.org}, !.org = x.org, !.user = x.user,
                                      !.roles = {Owner}, !.cleared = {}]
    <3>1. job' = [job EXCEPT ![r] = next]
      BY <2>3, NextJobs
    <3>2. x \in Row
      BY <1>0 DEF Job
    <3>3. next \in Job
      BY <1>0, <3>2, ConstantsAssumption DEF Job, Row
    <3> QED
      BY <1>0, <3>1, <3>3
  <2>4. ASSUME NEW x \in job[r].list, Remap(r, x) PROVE job' \in [Requests -> Job]
    <3> DEFINE next == [job[r] EXCEPT !.list = job[r].list \ {x}, !.user = x.user, !.roles = {x.role},
                                      !.cleared = job[r].cleared \cup {x.user}]
    <3>1. job' = [job EXCEPT ![r] = next]
      BY <2>4, NextJobs
    <3>2. x \in Row
      BY <1>0 DEF Job
    <3>3. next \in Job
      BY <1>0, <3>2 DEF Job, Row
    <3> QED
      BY <1>0, <3>1, <3>3
  <2> QED
    BY <2>1, <2>2, <2>3, <2>4 DEF TakesUp
<1>2. pc' \in [Requests -> Pcs]
  <2>1. \E to \in {"remap", "client", "roles", "clear"} : pc' = [pc EXCEPT ![r] = to]
    BY DEF TakesUp, ReadAllUnregistered, SkipOrg, NextOrg, Remap, Step
  <2> QED
    BY <2>1 DEF TypeOK, Pcs
<1>3. left' \in [Requests -> SUBSET Calls]
  <2>1. left' = left \/ \E set \in SUBSET Calls : left' = [left EXCEPT ![r] = set]
    <3>1. {} \in SUBSET Calls /\ {"kcDrop", "drop"} \in SUBSET Calls
      BY DEF Calls
    <3> QED
      BY <3>1 DEF TakesUp, ReadAllUnregistered, SkipOrg, NextOrg, Remap
  <2> QED
    BY <2>1 DEF TypeOK
<1>4. UNCHANGED <<database, keycloak, sound, onTheWay, joined, torn, contested, rushed, faults>>
  BY DEF TakesUp, ReadAllUnregistered, SkipOrg, NextOrg, Remap, history
<1>5. drifted' \subseteq Pairs
  BY DEF TakesUp, ReadAllUnregistered, SkipOrg, NextOrg, Remap, history, TypeOK
<1> QED
  BY <1>1, <1>2, <1>3, <1>4, <1>5 DEF TypeOK, Job, database, keycloak

\* and the failures.
LEMMA LosesTypeOK == ASSUME TypeOK, NEW r \in Requests, Loses(r) PROVE TypeOK'
<1>0. Pair(r) \in Pairs /\ job[r].org \in Orgs
  BY JobTyped DEF Job
<1>1. Concerns(r) \subseteq Pairs
  BY <1>0 DEF Concerns, Pairs
<1>2. drifted' \subseteq Pairs
  BY <1>0, <1>1 DEF Loses, OneFailed, Failing, Fail, RolesKept, CallFails, TypeOK, Concerns
<1>3. torn' \subseteq Pairs
  BY <1>0 DEF Loses, OneFailed, Failing, Fail, RolesKept, CallFails, TypeOK
<1>4. pc' \in [Requests -> Pcs]
  <2>1. pc' = pc \/ pc' = [pc EXCEPT ![r] = "over"]
    BY DEF Loses, OneFailed, Failing, Fail, RolesKept, CallFails
  <2> QED
    BY <2>1 DEF TypeOK, Pcs
<1>5. left' \in [Requests -> SUBSET Calls] /\ sound' \in [Requests -> BOOLEAN]
  <2>1. left' = left \/ \E set : left' = [left EXCEPT ![r] = left[r] \ set]
    BY DEF Loses, OneFailed, Failing, Fail, RolesKept, CallFails, TypeOK
  <2>2. sound' = sound \/ sound' = [sound EXCEPT ![r] = FALSE]
    BY DEF Loses, OneFailed, Failing, Fail, RolesKept, CallFails
  <2> QED
    BY <2>1, <2>2 DEF TypeOK
<1>6. faults' \in 0..MaxFaults
  BY ConstantsAssumption DEF Loses, OneFailed, Failing, Fail, RolesKept, CallFails, Fault, TypeOK
<1>7. UNCHANGED <<database, keycloak, job, onTheWay, joined, contested, rushed>>
  BY DEF Loses, OneFailed, Failing, Fail, RolesKept, CallFails
<1> QED
  BY <1>2, <1>3, <1>4, <1>5, <1>6, <1>7 DEF TypeOK, database, keycloak

LEMMA NextTypeOK == TypeOK /\ [Next]_vars => TypeOK'
<1> SUFFICES ASSUME TypeOK, [Next]_vars PROVE TypeOK'
  OBVIOUS
<1>0. CASE UNCHANGED vars
  BY <1>0 DEF vars, TypeOK, database, keycloak, memory, history
<1>1. ASSUME NEW r \in Requests, Act(r) PROVE TypeOK'
  <2>1. CASE Asking(r)
    BY <2>1, AskTypeOK
  <2>2. CASE TakesUp(r)
    BY <2>2, TakesUpTypeOK
  <2>3. CASE Loses(r)
    BY <2>3, LosesTypeOK
  <2>4. CASE ~Asking(r) /\ ~TakesUp(r) /\ ~Loses(r)
    BY <1>1, <2>4, WorkTypeOK
  <2> QED
    BY <2>1, <2>2, <2>3, <2>4
<1>2. ASSUME NEW x \in onTheWay, InsertRow(x) PROVE TypeOK'
  <2>1. x \in Row /\ <<x.user, x.org>> \in Pairs
    BY DEF TypeOK, Row, Pairs
  <2>2. rows' \subseteq Row /\ onTheWay' \subseteq Row /\ joined' \subseteq Pairs
    BY <1>2, <2>1 DEF InsertRow, TypeOK
  <2> QED
    BY <1>2, <2>2 DEF InsertRow, TypeOK, keycloak
<1>3. CASE Crash
  <2>1. \A r \in Requests : Pair(r) \in Pairs /\ job[r].org \in Orgs
    BY JobTyped DEF Job
  <2>2. \A r \in Requests : Concerns(r) \subseteq Pairs
    BY <2>1 DEF Concerns, Pairs
  <2>3. \A x \in onTheWay : <<x.user, x.org>> \in Pairs
    BY DEF TypeOK, Row, Pairs
  <2>4. drifted' \subseteq Pairs
    <3> SUFFICES \A p \in drifted' : p \in Pairs
      BY Zenon
    <3> TAKE p \in drifted'
    <3> DEFINE lost == UNION {Concerns(r) : r \in Underway}
    <3>0. p \in drifted \cup lost \cup {<<x.user, x.org>> : x \in onTheWay}
      BY <1>3 DEF Crash
    <3>1. p \in drifted \/ (\E r \in Underway : p \in Concerns(r)) \/ \E x \in onTheWay : p = <<x.user, x.org>>
      <4>1. p \in lost => \E r \in Underway : p \in Concerns(r)
        OBVIOUS
      <4> HIDE DEF lost
      <4> QED
        BY <3>0, <4>1
    <3> QED
      BY <2>2, <2>3, <3>1 DEF TypeOK, Underway
  <2>5. torn' \subseteq Pairs
    BY <1>3, <2>1, <2>3 DEF Crash, TypeOK
  <2>6. faults' \in 0..MaxFaults
    BY <1>3, ConstantsAssumption DEF Crash, Fault, TypeOK
  <2>7. pc' \in [Requests -> Pcs] /\ left' \in [Requests -> SUBSET Calls]
    BY <1>3 DEF Crash, TypeOK, Pcs
  <2>8. onTheWay' \subseteq Row /\ UNCHANGED <<database, keycloak, job, sound, joined, contested, rushed>>
    BY <1>3 DEF Crash
  <2> QED
    BY <2>4, <2>5, <2>6, <2>7, <2>8 DEF TypeOK, database, keycloak
<1> QED
  BY <1>0, <1>1, <1>2, <1>3, NextIsAct

-----------------------------------------------------------------------------
\* What one step can do.

\* A step of a request leaves the other requests alone.
LEMMA OthersStay ==
  ASSUME TypeOK, NEW r \in Requests, Act(r), NEW s \in Requests \ {r}
  PROVE  pc'[s] = pc[s] /\ job'[s] = job[s] /\ left'[s] = left[s] /\ sound'[s] = sound[s]
<1> USE DEF TypeOK, Step
<1>1. CASE Asking(r)
  BY <1>1 DEF Asking, AskInvite, AskUpdate, AskAnswer, AskWithdraw, AskWholeOrg, Ask
<1>2. CASE Checks(r)
  BY <1>2 DEF Checks, CheckInvited, ReadInvitation, CountOrgs, ReadOrg, CheckMember, ReadUnregistered,
              AllSettled
<1>3. CASE Refusals(r)
  BY <1>3 DEF Refusals, InvitedAlready, InvitationClosed, LimitReached, InvitationGone, NotAMember,
              NothingToReplace, NewSecret, ClientExists, AllMapped, NoClient, Refuse
<1>4. CASE Creates(r) \/ Writes(r) \/ GrantRole(r)
  BY <1>4 DEF Creates, CreateSendInvitation, Writes, Reject, Withdraw, Accept, StatusWritten, Settle, GrantRole
<1>5. CASE Sends(r) \/ ClearRoles(r)
  BY <1>5 DEF Sends, AcceptClient, ReplaceRows, Regrant, RegisterOwner, ClearRoles
<1>6. CASE RowsDropped(r) \/ Maps(r)
  BY <1>6 DEF RowsDropped, Maps, RoleMapped, RolesUnmapped, Settle
<1>7. CASE TakesUp(r)
  <2>1. \E next : job' = [job EXCEPT ![r] = next]
    BY <1>7, NextJobs DEF TakesUp
  <2>2. pc'[s] = pc[s] /\ left'[s] = left[s] /\ sound'[s] = sound[s]
    BY <1>7 DEF TakesUp, ReadAllUnregistered, SkipOrg, NextOrg, Remap
  <2> QED
    BY <2>1, <2>2
<1>8. CASE Keeps(r)
  BY <1>8 DEF Keeps, CreateClient, StoreClient, DeleteClient, ForgetClient
<1>9. CASE Loses(r)
  BY <1>9 DEF Loses, OneFailed, Failing, Fail, RolesKept, CallFails
<1> QED
  BY <1>1, <1>2, <1>3, <1>4, <1>5, <1>6, <1>7, <1>8, <1>9 DEF Act

\* Each part of the state is changed by few of them.
LEMMA Untouched ==
  ASSUME NEW r \in Requests, Act(r)
  PROVE  /\ ~GrantRole(r) /\ ~ReplaceRows(r) /\ ~RowsDropped(r) => rows' = rows
         /\ ~GrantRole(r) => joined' = joined
         /\ ~Sends(r) => onTheWay' = onTheWay
         /\ ~Creates(r) /\ ~Writes(r) => status' = status
         /\ ~Creates(r) => terms' = terms
         /\ ~Asking(r) /\ ~TakesUp(r) => job' = job
         /\ ~Keeps(r) => registered' = registered /\ clients' = clients
         /\ ~Asking(r) => contested' = contested /\ rushed' = rushed
         /\ torn \subseteq torn' /\ drifted \subseteq drifted'
         /\ contested \subseteq contested' /\ rushed \subseteq rushed'
<1> USE DEF database, keycloak, history
<1>1. CASE Asking(r)
  BY <1>1 DEF Asking, AskInvite, AskUpdate, AskAnswer, AskWithdraw, AskWholeOrg, Ask
<1>2. CASE Checks(r)
  BY <1>2 DEF Checks, CheckInvited, ReadInvitation, CountOrgs, ReadOrg, CheckMember, ReadUnregistered,
              AllSettled
<1>3. CASE Refusals(r)
  BY <1>3 DEF Refusals, InvitedAlready, InvitationClosed, LimitReached, InvitationGone, NotAMember,
              NothingToReplace, NewSecret, ClientExists, AllMapped, NoClient, Refuse
<1>4. CASE Creates(r) \/ Writes(r) \/ GrantRole(r)
  BY <1>4 DEF Creates, CreateSendInvitation, Writes, Reject, Withdraw, Accept, StatusWritten, SetStatus, Settle, GrantRole
<1>5. CASE Sends(r) \/ ClearRoles(r)
  BY <1>5 DEF Sends, AcceptClient, ReplaceRows, Regrant, RegisterOwner, ClearRoles
<1>6. CASE RowsDropped(r) \/ Maps(r)
  BY <1>6 DEF RowsDropped, Maps, RoleMapped, RolesUnmapped, Settle
<1>7. CASE TakesUp(r)
  BY <1>7 DEF TakesUp, ReadAllUnregistered, SkipOrg, NextOrg, Remap
<1>8. CASE Keeps(r)
  BY <1>8 DEF Keeps, CreateClient, StoreClient, DeleteClient, ForgetClient
<1>9. CASE Loses(r)
  BY <1>9 DEF Loses, OneFailed, Failing, Fail, RolesKept, CallFails
<1> QED
  BY <1>1, <1>2, <1>3, <1>4, <1>5, <1>6, <1>7, <1>8, <1>9 DEF Act

\* A request is asked for once, and works until it is over, on what it was
\* asked for.
LEMMA AskIsFirst ==
  ASSUME TypeOK, NEW r \in Requests, Asking(r)
  PROVE  /\ pc[r] = "idle" /\ pc'[r] = "read"
         /\ UNCHANGED <<database, keycloak, left, sound, onTheWay, joined, torn, faults>>
         /\ job'[r].op # "none" /\ job'[r].list = {} /\ job'[r].todo = {}
<1> USE DEF TypeOK, Step, Ask, NoJob
<1>1. CASE \E u \in Users \ {Founder}, o \in Orgs, q \in Roles : AskInvite(r, u, o, q)
  BY <1>1 DEF AskInvite
<1>2. CASE \E u \in Users, o \in Orgs, q \in Roles : AskUpdate(r, u, o, q)
  BY <1>2 DEF AskUpdate
<1>3. CASE \E i \in Invitations, answer \in {"accept", "reject"} : AskAnswer(r, i, answer)
  BY <1>3 DEF AskAnswer
<1>4. CASE \E i \in Invitations : AskWithdraw(r, i)
  BY <1>4 DEF AskWithdraw
<1>5. CASE \E op \in WholeOrg, u \in Users, o \in Orgs : AskWholeOrg(r, op, u, o)
  BY <1>5 DEF AskWholeOrg, WholeOrg
<1> QED
  BY <1>1, <1>2, <1>3, <1>4, <1>5 DEF Asking

\* What a request is asked for.
LEMMA AskedFields ==
  ASSUME TypeOK, NEW r \in Requests
  PROVE  /\ \A u, o, q : AskInvite(r, u, o, q) =>
              /\ job'[r].op = "invite" /\ job'[r].user = u /\ job'[r].org = o /\ job'[r].inv = "none"
              /\ job'[r].list = {} /\ job'[r].todo = {}
         /\ \A u, o, q : AskUpdate(r, u, o, q) =>
              /\ job'[r].op = "update" /\ job'[r].user = u /\ job'[r].org = o /\ job'[r].inv = "none"
              /\ job'[r].list = {} /\ job'[r].todo = {}
         /\ \A i, answer : AskAnswer(r, i, answer) =>
              /\ job'[r].op = answer /\ job'[r].user = terms[i].user /\ job'[r].org = terms[i].org
              /\ job'[r].inv = i /\ job'[r].list = {} /\ job'[r].todo = {}
         /\ \A i : AskWithdraw(r, i) =>
              /\ job'[r].op = "withdraw" /\ job'[r].inv = i /\ job'[r].list = {} /\ job'[r].todo = {}
         /\ \A op, u, o : AskWholeOrg(r, op, u, o) =>
              /\ job'[r].op = op /\ job'[r].user = u /\ job'[r].org = o /\ job'[r].inv = "none"
              /\ job'[r].list = {} /\ job'[r].todo = {}
<1> USE DEF Ask, NoJob
<1>0. job \in [Requests -> Job]
  BY JobTyped
<1>1. ASSUME NEW u, NEW o, NEW q, AskInvite(r, u, o, q)
      PROVE  /\ job'[r].op = "invite" /\ job'[r].user = u /\ job'[r].org = o /\ job'[r].inv = "none"
             /\ job'[r].list = {} /\ job'[r].todo = {}
  BY <1>0, <1>1 DEF AskInvite
<1>2. ASSUME NEW u, NEW o, NEW q, AskUpdate(r, u, o, q)
      PROVE  /\ job'[r].op = "update" /\ job'[r].user = u /\ job'[r].org = o /\ job'[r].inv = "none"
             /\ job'[r].list = {} /\ job'[r].todo = {}
  BY <1>0, <1>2 DEF AskUpdate
<1>3. ASSUME NEW i, NEW answer, AskAnswer(r, i, answer)
      PROVE  /\ job'[r].op = answer /\ job'[r].user = terms[i].user /\ job'[r].org = terms[i].org
             /\ job'[r].inv = i /\ job'[r].list = {} /\ job'[r].todo = {}
  BY <1>0, <1>3 DEF AskAnswer
<1>4. ASSUME NEW i, AskWithdraw(r, i)
      PROVE  job'[r].op = "withdraw" /\ job'[r].inv = i /\ job'[r].list = {} /\ job'[r].todo = {}
  BY <1>0, <1>4 DEF AskWithdraw
<1>5. ASSUME NEW op, NEW u, NEW o, AskWholeOrg(r, op, u, o)
      PROVE  /\ job'[r].op = op /\ job'[r].user = u /\ job'[r].org = o /\ job'[r].inv = "none"
             /\ job'[r].list = {} /\ job'[r].todo = {}
  BY <1>0, <1>5 DEF AskWholeOrg
<1> QED
  BY <1>1, <1>2, <1>3, <1>4, <1>5

LEMMA ActIsUnderway ==
  ASSUME TypeOK, NEW r \in Requests, Act(r), ~Asking(r)
  PROVE  pc[r] \notin {"idle", "over"} /\ pc'[r] # "idle"
<1> USE DEF TypeOK, Step
<1>2. CASE Checks(r)
  BY <1>2 DEF Checks, CheckInvited, ReadInvitation, CountOrgs, ReadOrg, CheckMember, ReadUnregistered,
              AllSettled, Calling
<1>3. CASE Refusals(r)
  BY <1>3 DEF Refusals, InvitedAlready, InvitationClosed, LimitReached, InvitationGone, NotAMember,
              NothingToReplace, NewSecret, ClientExists, AllMapped, NoClient, Refuse
<1>4. CASE Creates(r) \/ Writes(r) \/ GrantRole(r)
  BY <1>4 DEF Creates, CreateSendInvitation, Writes, Reject, Withdraw, Accept, StatusWritten, Settle, GrantRole, Calling
<1>5. CASE Sends(r) \/ ClearRoles(r)
  BY <1>5 DEF Sends, AcceptClient, ReplaceRows, Regrant, RegisterOwner, ClearRoles
<1>6. CASE RowsDropped(r) \/ Maps(r)
  BY <1>6 DEF RowsDropped, Maps, RoleMapped, RolesUnmapped, Settle, Calling
<1>7. CASE TakesUp(r)
  BY <1>7 DEF TakesUp, ReadAllUnregistered, SkipOrg, NextOrg, Remap
<1>8. CASE Keeps(r)
  BY <1>8 DEF Keeps, CreateClient, StoreClient, DeleteClient, ForgetClient
<1>9. CASE Loses(r)
  BY <1>9 DEF Loses, OneFailed, Failing, Fail, RolesKept, CallFails, Underway, Calling
<1> QED
  BY <1>2, <1>3, <1>4, <1>5, <1>6, <1>7, <1>8, <1>9 DEF Act

\* What a request then is about.
LEMMA NextFields ==
  ASSUME TypeOK, NEW r \in Requests
  PROVE  /\ ReadAllUnregistered(r) =>
              /\ job'[r].user = job[r].user /\ job'[r].org = job[r].org /\ job'[r].roles = job[r].roles
              /\ job'[r].op = job[r].op /\ job'[r].inv = job[r].inv
              /\ job'[r].todo = Orgs \ registered /\ job'[r].list = {x \in rows : x.org \notin registered}
         /\ \A o : SkipOrg(r, o) =>
              /\ job'[r].user = job[r].user /\ job'[r].org = job[r].org /\ job'[r].roles = job[r].roles
              /\ job'[r].op = job[r].op /\ job'[r].inv = job[r].inv
              /\ job'[r].todo = job[r].todo \ {o} /\ job'[r].list = {x \in job[r].list : x.org # o}
         /\ \A x : NextOrg(r, x) =>
              /\ job'[r].user = x.user /\ job'[r].org = x.org /\ job'[r].roles = {Owner}
              /\ job'[r].op = job[r].op /\ job'[r].inv = job[r].inv
              /\ job'[r].todo = job[r].todo \ {x.org} /\ job'[r].list = job[r].list
         /\ \A x : Remap(r, x) =>
              /\ job'[r].user = x.user /\ job'[r].org = job[r].org /\ job'[r].roles = {x.role}
              /\ job'[r].op = job[r].op /\ job'[r].inv = job[r].inv
              /\ job'[r].todo = job[r].todo /\ job'[r].list = job[r].list \ {x}
<1>0. job \in [Requests -> Job] /\ job[r] \in Job
  BY JobTyped
<1>1. ASSUME ReadAllUnregistered(r)
      PROVE  /\ job'[r].user = job[r].user /\ job'[r].org = job[r].org /\ job'[r].roles = job[r].roles
             /\ job'[r].op = job[r].op /\ job'[r].inv = job[r].inv
             /\ job'[r].todo = Orgs \ registered /\ job'[r].list = {x \in rows : x.org \notin registered}
  <2> DEFINE next == [job[r] EXCEPT !.todo = Orgs \ registered, !.list = {x \in rows : x.org \notin registered}]
  <2>1. job' = [job EXCEPT ![r] = next]
    BY <1>1, NextJobs
  <2>2. /\ next.user = job[r].user /\ next.org = job[r].org /\ next.roles = job[r].roles
        /\ next.op = job[r].op /\ next.inv = job[r].inv
        /\ next.todo = Orgs \ registered /\ next.list = {x \in rows : x.org \notin registered}
    BY <1>0 DEF Job
  <2> HIDE DEF next
  <2> QED
    BY <1>0, <2>1, <2>2
<1>2. ASSUME NEW o, SkipOrg(r, o)
      PROVE  /\ job'[r].user = job[r].user /\ job'[r].org = job[r].org /\ job'[r].roles = job[r].roles
             /\ job'[r].op = job[r].op /\ job'[r].inv = job[r].inv
             /\ job'[r].todo = job[r].todo \ {o} /\ job'[r].list = {x \in job[r].list : x.org # o}
  <2> DEFINE next == [job[r] EXCEPT !.todo = job[r].todo \ {o}, !.list = {x \in job[r].list : x.org # o}]
  <2>1. job' = [job EXCEPT ![r] = next]
    BY <1>2, NextJobs
  <2>2. /\ next.user = job[r].user /\ next.org = job[r].org /\ next.roles = job[r].roles
        /\ next.op = job[r].op /\ next.inv = job[r].inv
        /\ next.todo = job[r].todo \ {o} /\ next.list = {x \in job[r].list : x.org # o}
    BY <1>0 DEF Job
  <2> HIDE DEF next
  <2> QED
    BY <1>0, <2>1, <2>2
<1>3. ASSUME NEW x, NextOrg(r, x)
      PROVE  /\ job'[r].user = x.user /\ job'[r].org = x.org /\ job'[r].roles = {Owner}
             /\ job'[r].op = job[r].op /\ job'[r].inv = job[r].inv
             /\ job'[r].todo = job[r].todo \ {x.org} /\ job'[r].list = job[r].list
  <2> DEFINE next == [job[r] EXCEPT !.todo = job[r].todo \ {x.org}, !.org = x.org, !.user = x.user,
                                    !.roles = {Owner}, !.cleared = {}]
  <2>1. job' = [job EXCEPT ![r] = next]
    BY <1>3, NextJobs
  <2>2. /\ next.user = x.user /\ next.org = x.org /\ next.roles = {Owner}
        /\ next.op = job[r].op /\ next.inv = job[r].inv
        /\ next.todo = job[r].todo \ {x.org} /\ next.list = job[r].list
    BY <1>0 DEF Job
  <2> HIDE DEF next
  <2> QED
    BY <1>0, <2>1, <2>2
<1>4. ASSUME NEW x, Remap(r, x)
      PROVE  /\ job'[r].user = x.user /\ job'[r].org = job[r].org /\ job'[r].roles = {x.role}
             /\ job'[r].op = job[r].op /\ job'[r].inv = job[r].inv
             /\ job'[r].todo = job[r].todo /\ job'[r].list = job[r].list \ {x}
  <2> DEFINE next == [job[r] EXCEPT !.list = job[r].list \ {x}, !.user = x.user, !.roles = {x.role},
                                    !.cleared = job[r].cleared \cup {x.user}]
  <2>1. job' = [job EXCEPT ![r] = next]
    BY <1>4, NextJobs
  <2>2. /\ next.user = x.user /\ next.org = job[r].org /\ next.roles = {x.role}
        /\ next.op = job[r].op /\ next.inv = job[r].inv
        /\ next.todo = job[r].todo /\ next.list = job[r].list \ {x}
    BY <1>0 DEF Job
  <2> HIDE DEF next
  <2> QED
    BY <1>0, <2>1, <2>2
<1> QED
  BY <1>1, <1>2, <1>3, <1>4

LEMMA TakesUpForAll ==
  ASSUME TypeOK, NEW r \in Requests, TakesUp(r)
  PROVE  /\ job'[r].op = job[r].op /\ job'[r].inv = job[r].inv
         /\ pc[r] \in {"read", "remap"} /\ pc'[r] \in {"remap", "client", "roles", "clear"}
         /\ UNCHANGED <<database, keycloak, sound, onTheWay, joined, torn, contested, rushed, faults>>
         /\ ReadAllUnregistered(r) => job[r].op = "map"
         /\ job[r].roles # {} => job'[r].roles # {}
<1>1. job'[r].op = job[r].op /\ job'[r].inv = job[r].inv /\ (job[r].roles # {} => job'[r].roles # {})
  <2>1. CASE ReadAllUnregistered(r) \/ \E o : SkipOrg(r, o)
    BY <2>1, NextFields
  <2>2. CASE \E x : NextOrg(r, x)
    BY <2>2, NextFields
  <2>3. CASE \E x : Remap(r, x)
    BY <2>3, NextFields
  <2> QED
    BY <2>1, <2>2, <2>3 DEF TakesUp
<1>2. /\ pc[r] \in {"read", "remap"} /\ pc'[r] \in {"remap", "client", "roles", "clear"}
      /\ ReadAllUnregistered(r) => job[r].op = "map"
  BY DEF TakesUp, ReadAllUnregistered, SkipOrg, NextOrg, Remap, Step, TypeOK
<1>3. UNCHANGED <<database, keycloak, sound, onTheWay, joined, torn, contested, rushed, faults>>
  BY DEF TakesUp, ReadAllUnregistered, SkipOrg, NextOrg, Remap, history
<1> QED
  BY <1>1, <1>2, <1>3

LEMMA JobStays ==
  ASSUME TypeOK, NEW r \in Requests, Act(r), ~Asking(r)
  PROVE  job'[r].op = job[r].op /\ job'[r].inv = job[r].inv
BY Untouched, TakesUpForAll

-----------------------------------------------------------------------------
\* Each part of the invariant is kept by every step.

\* A request reaches the places of its operation.
LEMMA FitsStep ==
  ASSUME TypeOK, JobsFit, NEW r \in Requests, Act(r)
  PROVE  Fits(r)'
<1> USE DEF TypeOK, Step
<1>0. Fits(r)
  BY DEF JobsFit
<1>1. CASE Asking(r)
  <2>1. pc'[r] = "read"
    BY <1>1, AskIsFirst
  <2>2. /\ job'[r].op \in {"invite", "accept", "update", "register", "map"} => job'[r].roles # {}
        /\ job'[r].op \in {"accept", "reject", "withdraw"} => job'[r].inv \in Invitations
    <3> USE DEF Ask, NoJob
    <3>1. CASE \E u \in Users \ {Founder}, o \in Orgs, q \in Roles : AskInvite(r, u, o, q)
      BY <3>1 DEF AskInvite
    <3>2. CASE \E u \in Users, o \in Orgs, q \in Roles : AskUpdate(r, u, o, q)
      BY <3>2 DEF AskUpdate
    <3>3. CASE \E i \in Invitations, answer \in {"accept", "reject"} : AskAnswer(r, i, answer)
      BY <3>3 DEF AskAnswer, JobsFit
    <3>4. CASE \E i \in Invitations : AskWithdraw(r, i)
      BY <3>4 DEF AskWithdraw
    <3>5. CASE \E op \in WholeOrg, u \in Users, o \in Orgs : AskWholeOrg(r, op, u, o)
      BY <3>5 DEF AskWholeOrg, WholeOrg
    <3> QED
      BY <1>1, <3>1, <3>2, <3>3, <3>4, <3>5 DEF Asking
  <2> QED
    BY <2>1, <2>2 DEF Fits
<1>2. CASE TakesUp(r)
  <2>1. job[r].op = "map"
    BY <1>0, <1>2, TakesUpForAll DEF Fits, TakesUp, SkipOrg, NextOrg, Remap
  <2> QED
    BY <1>0, <1>2, <2>1, TakesUpForAll DEF Fits
<1>3. CASE ~Asking(r) /\ ~TakesUp(r)
  <2>0. job' = job
    BY <1>3, Untouched
  <2> USE DEF Fits
  <2>1. CASE Checks(r)
    BY <1>0, <2>0, <2>1 DEF Checks, CheckInvited, ReadInvitation, CountOrgs, ReadOrg, CheckMember, ReadUnregistered,
                AllSettled, Calling
  <2>2. CASE Refusals(r)
    BY <1>0, <2>0, <2>2 DEF Refusals, InvitedAlready, InvitationClosed, LimitReached, InvitationGone, NotAMember,
                NothingToReplace, NewSecret, ClientExists, AllMapped, NoClient, Refuse
  <2>3. CASE Creates(r) \/ Writes(r) \/ GrantRole(r)
    BY <1>0, <2>0, <2>3 DEF Creates, CreateSendInvitation, Writes, Reject, Withdraw, Accept, StatusWritten, Settle, GrantRole
  <2>4. CASE Sends(r) \/ ClearRoles(r)
    BY <1>0, <2>0, <2>4 DEF Sends, AcceptClient, ReplaceRows, Regrant, RegisterOwner, ClearRoles
  <2>5. CASE RowsDropped(r) \/ Maps(r)
    BY <1>0, <2>0, <2>5 DEF RowsDropped, Maps, RoleMapped, RolesUnmapped, Settle
  <2>6. CASE Keeps(r)
    BY <1>0, <2>0, <2>6 DEF Keeps, CreateClient, StoreClient, DeleteClient, ForgetClient
  <2>7. CASE Loses(r)
    BY <1>0, <2>0, <2>7 DEF Loses, OneFailed, Failing, Fail, RolesKept, CallFails
  <2> QED
    BY <1>3, <2>1, <2>2, <2>3, <2>4, <2>5, <2>6, <2>7 DEF Act
<1> QED
  BY <1>1, <1>2, <1>3

LEMMA JobsFitStep == TypeOK /\ JobsFit /\ Next => JobsFit'
<1> SUFFICES ASSUME TypeOK, JobsFit, Next PROVE JobsFit'
  OBVIOUS
<1>1. ASSUME NEW r \in Requests, Act(r) PROVE JobsFit'
  <2>1. Fits(r)'
    BY <1>1, FitsStep
  <2>2. ASSUME NEW s \in Requests \ {r} PROVE Fits(s)'
    <3>1. pc'[s] = pc[s] /\ job'[s] = job[s]
      BY <1>1, OthersStay
    <3> QED
      BY <3>1 DEF JobsFit, Fits
  <2>3. \A i \in Invitations : terms'[i].roles # {}
    <3>1. CASE Creates(r)
      BY <3>1 DEF Creates, CreateSendInvitation, JobsFit, Fits, TypeOK
    <3>2. CASE ~Creates(r)
      BY <1>1, <3>2, Untouched DEF JobsFit
    <3> QED
      BY <3>1, <3>2
  <2> QED
    BY <2>1, <2>2, <2>3 DEF JobsFit
<1>2. ASSUME NEW x \in onTheWay, InsertRow(x) PROVE JobsFit'
  BY <1>2 DEF InsertRow, JobsFit, Fits
<1>3. CASE Crash
  BY <1>3 DEF Crash, JobsFit, Fits, TypeOK, Underway, database
<1> QED
  BY <1>1, <1>2, <1>3, NextIsAct

\* Calls are awaited where they were started.
LEMMA CallsOfStep ==
  ASSUME TypeOK, JobsFit, CallsFit, NEW r \in Requests, Act(r)
  PROVE  CallsOf(r)'
<1> USE DEF TypeOK, Step, Calling
<1>0. CallsOf(r)
  BY DEF CallsFit
<1>1. CASE Asking(r)
  <2>1. pc[r] = "idle" /\ pc'[r] = "read" /\ sound' = sound
    BY <1>1, AskIsFirst
  <2> QED
    BY <1>0, <2>1, Zenon DEF CallsOf
<1>2. CASE TakesUp(r)
  <2>1. job'[r].op = job[r].op /\ sound' = sound /\ sound[r]
    BY <1>0, <1>2, TakesUpForAll DEF CallsOf
  <2>2. pc'[r] \in {"remap", "client", "roles", "clear"} /\ (pc'[r] = "clear" => left'[r] \subseteq {"kcDrop", "drop"})
    <3>1. CASE ReadAllUnregistered(r)
      BY <3>1 DEF ReadAllUnregistered
    <3>2. CASE \E o : SkipOrg(r, o)
      BY <3>2 DEF SkipOrg
    <3>3. CASE \E x : NextOrg(r, x)
      BY <3>3 DEF NextOrg
    <3>4. CASE \E x : Remap(r, x)
      BY <3>4 DEF Remap
    <3> QED
      BY <1>2, <3>1, <3>2, <3>3, <3>4 DEF TakesUp
  <2> QED
    BY <2>1, <2>2 DEF CallsOf
<1>3. CASE ~Asking(r) /\ ~TakesUp(r)
  <2>0. job' = job
    BY <1>3, Untouched
  <2> USE DEF CallsOf
  <2>1. CASE Checks(r)
    BY <1>0, <2>0, <2>1 DEF Checks, CheckInvited, ReadInvitation, CountOrgs, ReadOrg, CheckMember, ReadUnregistered,
                AllSettled
  <2>2. CASE Refusals(r)
    BY <1>0, <2>0, <2>2 DEF Refusals, InvitedAlready, InvitationClosed, LimitReached, InvitationGone, NotAMember,
                NothingToReplace, NewSecret, ClientExists, AllMapped, NoClient, Refuse
  <2>3. CASE Creates(r) \/ Writes(r) \/ GrantRole(r)
    BY <1>0, <2>0, <2>3 DEF Creates, CreateSendInvitation, Writes, Reject, Withdraw, Accept, StatusWritten, Settle, GrantRole
  <2>4. CASE Sends(r) \/ ClearRoles(r)
    <3>1. pc[r] = "owner" => job[r].op # "accept"
      BY DEF JobsFit, Fits
    <3> QED
      BY <1>0, <2>0, <2>4, <3>1 DEF Sends, AcceptClient, ReplaceRows, Regrant, RegisterOwner, ClearRoles
  <2>5. CASE RowsDropped(r)
    BY <1>0, <2>0, <2>5 DEF RowsDropped, Settle
  <2>8. CASE Maps(r)
    BY <1>0, <2>0, <2>8 DEF Maps, RoleMapped, RolesUnmapped, Settle
  <2>6. CASE Keeps(r)
    BY <1>0, <2>0, <2>6 DEF Keeps, CreateClient, StoreClient, DeleteClient, ForgetClient
  <2>7. CASE Loses(r)
    BY <1>0, <2>0, <2>7 DEF Loses, OneFailed, Failing, Fail, RolesKept, CallFails
  <2> QED
    BY <1>3, <2>1, <2>2, <2>3, <2>4, <2>5, <2>6, <2>7, <2>8 DEF Act
<1> QED
  BY <1>1, <1>2, <1>3

LEMMA CallsFitStep == TypeOK /\ JobsFit /\ CallsFit /\ Next => CallsFit'
<1> SUFFICES ASSUME TypeOK, JobsFit, CallsFit, Next PROVE CallsFit'
  OBVIOUS
<1>1. ASSUME NEW r \in Requests, Act(r) PROVE CallsFit'
  <2>1. CallsOf(r)'
    BY <1>1, CallsOfStep
  <2>2. ASSUME NEW s \in Requests \ {r} PROVE CallsOf(s)'
    <3>1. pc'[s] = pc[s] /\ job'[s] = job[s] /\ left'[s] = left[s] /\ sound'[s] = sound[s]
      BY <1>1, OthersStay
    <3> QED
      BY <3>1 DEF CallsFit, CallsOf, Calling
  <2> QED
    BY <2>1, <2>2 DEF CallsFit
<1>2. ASSUME NEW x \in onTheWay, InsertRow(x) PROVE CallsFit'
  BY <1>2 DEF InsertRow, CallsFit, CallsOf, Calling
<1>3. CASE Crash
  BY <1>3 DEF Crash, CallsFit, CallsOf, Calling, TypeOK, Underway
<1> QED
  BY <1>1, <1>2, <1>3, NextIsAct

-----------------------------------------------------------------------------
\* Members keep a role.

\* Whoever gives roles has rows to insert, of its pair.
LEMMA SomeNewRow ==
  ASSUME NEW r \in Requests, job[r].roles # {}
  PROVE  \E x : x \in NewRows(r)
<1>1. PICK q : q \in job[r].roles
  OBVIOUS
<1>2. [user |-> job[r].user, org |-> job[r].org, role |-> q, by |-> r] \in NewRows(r)
  BY <1>1 DEF NewRows
<1> QED
  BY <1>2

\* A row that is granted is the request's own.
LEMMA GrantedRow ==
  ASSUME NEW r \in Requests, GrantRole(r), JobsFit
  PROVE  /\ rows \subseteq rows' /\ rows' \subseteq rows \cup NewRows(r)
         /\ \E x \in NewRows(r) : x \in rows'
         /\ pc[r] = "grant" /\ job[r].op = "accept"
<1>1. pc[r] = "grant" /\ job[r].op = "accept" /\ job[r].roles # {}
  BY DEF GrantRole, Step, JobsFit, Fits
<1>2. CASE NewRows(r) \subseteq rows
  <2>1. rows' = rows
    BY <1>2 DEF GrantRole
  <2>2. PICK x : x \in NewRows(r)
    BY <1>1, SomeNewRow
  <2> QED
    BY <1>1, <1>2, <2>1, <2>2
<1>3. CASE ~(NewRows(r) \subseteq rows)
  <2> DEFINE new == CHOOSE x \in NewRows(r) : x \notin rows
  <2>1. new \in NewRows(r)
    BY <1>3
  <2>2. rows' = rows \cup {new}
    BY <1>3 DEF GrantRole
  <2> QED
    BY <1>1, <2>1, <2>2
<1> QED
  BY <1>2, <1>3

\* Rows are only deleted to be replaced.
LEMMA OnlyReplaced ==
  ASSUME NEW r \in Requests, Act(r), JobsFit
  PROVE  /\ ~ReplaceRows(r) /\ ~RowsDropped(r) => rows \subseteq rows'
         /\ rows' \subseteq rows \cup NewRows(r) /\ (~GrantRole(r) => rows' \subseteq rows)
         /\ onTheWay \subseteq onTheWay' /\ onTheWay' \subseteq onTheWay \cup NewRows(r)
         /\ Sends(r) => NewRows(r) \subseteq onTheWay'
<1>1. CASE Sends(r)
  BY <1>1, Untouched DEF Sends, AcceptClient, ReplaceRows, Regrant, RegisterOwner, database
<1>2. CASE ~Sends(r)
  <2>1. CASE GrantRole(r)
    BY <1>2, <2>1, GrantedRow, Untouched
  <2>2. CASE RowsDropped(r)
    BY <1>2, <2>2, Untouched DEF RowsDropped
  <2>3. CASE ~GrantRole(r) /\ ~RowsDropped(r)
    BY <1>2, <2>3, Untouched DEF Sends
  <2> QED
    BY <2>1, <2>2, <2>3
<1> QED
  BY <1>1, <1>2

\* Who owes rows sends them, or is known to have lost them.
LEMMA OwesStep ==
  ASSUME TypeOK, JobsFit, CallsFit, NEW r \in Requests, Act(r), Owes(r)
  PROVE  (Owes(r)' /\ job' = job) \/ Pair(r) \in torn' \/ Regrant(r)
<1> USE DEF TypeOK, Step, Owes
<1>1. pc[r] \in {"roles", "clear"} /\ ~Asking(r) /\ ~TakesUp(r)
  BY AskIsFirst, TakesUpForAll
<1>2. job' = job
  BY <1>1, Untouched
<1>3. CASE Checks(r)
  BY <1>1, <1>2, <1>3 DEF Checks, CheckInvited, ReadInvitation, CountOrgs, ReadOrg, CheckMember,
                          ReadUnregistered, AllSettled, Calling
<1>4. CASE Refusals(r)
  BY <1>1, <1>4 DEF Refusals, InvitedAlready, InvitationClosed, LimitReached, InvitationGone, NotAMember,
                    NothingToReplace, NewSecret, ClientExists, AllMapped, NoClient, Refuse
<1>5. CASE Creates(r) \/ Writes(r) \/ GrantRole(r)
  BY <1>1, <1>2, <1>5 DEF Creates, CreateSendInvitation, Writes, Reject, Withdraw, Accept, StatusWritten,
                          Settle, GrantRole, Calling, CallsFit, CallsOf
<1>6. CASE Sends(r) \/ ClearRoles(r)
  BY <1>1, <1>6 DEF Sends, AcceptClient, ReplaceRows, RegisterOwner, ClearRoles
<1>7. CASE RowsDropped(r) \/ Maps(r)
  <2>1. ~RowsDropped(r)
    BY <1>1 DEF RowsDropped, Settle, Calling
  <2> QED
    BY <1>1, <1>2, <1>7, <2>1 DEF Maps, RoleMapped, RolesUnmapped, Settle
<1>8. CASE Keeps(r)
  BY <1>1, <1>8 DEF Keeps, CreateClient, StoreClient, DeleteClient, ForgetClient
<1>9. CASE Loses(r)
  <2>1. OneFailed(r) => FALSE
    BY <1>1 DEF OneFailed, Calling
  <2>2. Fail(r) => Pair(r) \in torn'
    BY <1>1 DEF Fail, Calling
  <2>3. RolesKept(r) => Owes(r)'
    BY <1>1 DEF RolesKept, Calling
  <2>4. (\E call \in Calls : CallFails(r, call)) => Pair(r) \in torn'
    BY DEF CallFails
  <2> QED
    BY <1>2, <1>9, <2>1, <2>2, <2>3, <2>4 DEF Loses, Failing
<1> QED
  BY <1>1, <1>3, <1>4, <1>5, <1>6, <1>7, <1>8, <1>9 DEF Act

LEMMA MembersKeptStep ==
  TypeOK /\ JobsFit /\ CallsFit /\ MembersKept /\ Next => MembersKept'
<1> SUFFICES ASSUME TypeOK, JobsFit, CallsFit, MembersKept, Next PROVE MembersKept'
  OBVIOUS
<1> DEFINE Kept(p) == p \in torn \/ RowsOf(p[1], p[2]) # {} \/ Arriving(p[1], p[2])
                        \/ \E r \in Requests : Owes(r) /\ Pair(r) = p
<1> SUFFICES ASSUME NEW p \in joined' PROVE Kept(p)'
  BY DEF MembersKept
<1>0. p \in joined => Kept(p)
  BY DEF MembersKept
<1>1. ASSUME NEW r \in Requests, Act(r) PROVE Kept(p)'
  <2>0. torn \subseteq torn'
    BY <1>1, Untouched
  <2>1. ASSUME NEW s \in Requests \ {r}, Owes(s), Pair(s) = p PROVE Owes(s)' /\ Pair(s)' = p
    <3>1. pc'[s] = pc[s] /\ job'[s] = job[s] /\ left'[s] = left[s] /\ sound'[s] = sound[s]
      BY <1>1, OthersStay
    <3> QED
      BY <2>1, <3>1 DEF Owes, Pair
  <2>2. CASE GrantRole(r)
    <3>1. CASE p = Pair(r)
      <4>1. PICK x \in NewRows(r) : x \in rows'
        BY <2>2, GrantedRow
      <4>2. x.user = p[1] /\ x.org = p[2]
        BY <3>1 DEF NewRows, Pair
      <4> QED
        BY <4>1, <4>2 DEF RowsOf
    <3>2. CASE p # Pair(r)
      <4>1. p \in joined
        BY <2>2, <3>2 DEF GrantRole, Pair
      <4>2. rows \subseteq rows' /\ onTheWay' = onTheWay /\ ~Owes(r)
        BY <2>2, GrantedRow DEF GrantRole, Owes
      <4> QED
        BY <1>0, <2>0, <2>1, <4>1, <4>2 DEF RowsOf, Arriving
    <3> QED
      BY <3>1, <3>2
  <2>3. CASE ReplaceRows(r)
    <3>1. p \in joined /\ job[r].roles # {} /\ ~Owes(r)
      BY <1>1, <2>3, Untouched DEF ReplaceRows, GrantRole, Step, JobsFit, Fits, Owes
    <3>2. CASE p = Pair(r)
      <4>1. PICK x : x \in NewRows(r)
        BY <3>1, SomeNewRow
      <4>2. x \in onTheWay' /\ x.user = p[1] /\ x.org = p[2]
        BY <2>3, <3>2, <4>1 DEF ReplaceRows, NewRows, Pair
      <4> QED
        BY <4>2 DEF Arriving
    <3>3. CASE p # Pair(r)
      <4>1. p = <<p[1], p[2]>>
        BY <3>1 DEF TypeOK, Pairs
      <4>2. RowsOf(p[1], p[2]) \subseteq rows'
        BY <2>3, <3>3, <4>1 DEF ReplaceRows, RowsOf, Pair
      <4>3. onTheWay \subseteq onTheWay'
        BY <2>3 DEF ReplaceRows
      <4> QED
        BY <1>0, <2>0, <2>1, <3>1, <4>2, <4>3 DEF RowsOf, Arriving
    <3> QED
      BY <3>2, <3>3
  <2>4. CASE RowsDropped(r)
    <3>1. p \in joined /\ "drop" \in left[r] /\ pc[r] \in {"calls", "clear"} /\ ~Owes(r)
      BY <1>1, <2>4, Untouched DEF RowsDropped, Settle, Calling, GrantRole, Step, CallsFit, CallsOf, Owes
    <3>2. onTheWay' = onTheWay /\ job' = job /\ pc' = pc
      BY <2>4 DEF RowsDropped, Settle
    <3>3. CASE p = Pair(r) /\ pc[r] = "calls"
      <4>1. CASE NewRows(r) \cap onTheWay = {}
        BY <2>4, <3>3, <4>1 DEF RowsDropped
      <4>2. CASE NewRows(r) \cap onTheWay # {}
        <5>1. PICK x \in NewRows(r) : x \in onTheWay
          BY <4>2
        <5>2. x.user = p[1] /\ x.org = p[2]
          BY <3>3 DEF NewRows, Pair
        <5> QED
          BY <3>2, <5>1, <5>2 DEF Arriving
      <4> QED
        BY <4>1, <4>2
    <3>4. CASE p = Pair(r) /\ pc[r] = "clear"
      <4>1. "drop" \notin left'[r]
        BY <2>4 DEF RowsDropped, Settle, TypeOK
      <4>2. sound[r]
        BY <3>1, <3>4 DEF CallsFit, CallsOf
      <4>3. CASE sound'[r]
        <5>1. Owes(r)' /\ Pair(r)' = p
          BY <3>2, <3>4, <4>1, <4>3 DEF Owes, Pair
        <5> QED
          BY <5>1
      <4>4. CASE ~sound'[r]
        <5> DEFINE found == sound[r] /\ (job[r].op = "update" => RowsOf(job[r].user, job[r].org) # {})
        <5>1. sound' = [sound EXCEPT ![r] = found]
          BY <2>4 DEF RowsDropped
        <5>2. sound'[r] = found
          <6> HIDE DEF found
          <6> QED
            BY <5>1 DEF TypeOK
        <5>3. RowsOf(p[1], p[2]) = {}
          BY <3>4, <4>2, <4>4, <5>2 DEF Pair
        <5> QED
          BY <1>0, <2>0, <2>1, <3>1, <3>2, <5>3 DEF Arriving
      <4> QED
        BY <4>3, <4>4
    <3>5. CASE p # Pair(r)
      <4>1. p = <<p[1], p[2]>>
        BY <3>1 DEF TypeOK, Pairs
      <4>2. RowsOf(p[1], p[2]) \subseteq rows'
        BY <2>4, <3>5, <4>1 DEF RowsDropped, RowsOf, Pair
      <4> QED
        BY <1>0, <2>0, <2>1, <3>1, <3>2, <4>2 DEF RowsOf, Arriving
    <3> QED
      BY <3>1, <3>3, <3>4, <3>5
  <2>5. CASE ~GrantRole(r) /\ ~ReplaceRows(r) /\ ~RowsDropped(r)
    <3>1. p \in joined /\ rows \subseteq rows' /\ onTheWay \subseteq onTheWay'
      BY <1>1, <2>5, Untouched, OnlyReplaced
    <3>2. CASE Owes(r) /\ Pair(r) = p
      <4>1. CASE Owes(r)' /\ job' = job
        BY <3>2, <4>1 DEF Pair
      <4>2. CASE Regrant(r)
        <5>1. job[r].roles # {}
          BY <4>2 DEF Regrant, Step, JobsFit, Fits
        <5>2. PICK x : x \in NewRows(r)
          BY <5>1, SomeNewRow
        <5>3. x \in onTheWay' /\ x.user = p[1] /\ x.org = p[2]
          BY <3>2, <4>2, <5>2 DEF Regrant, NewRows, Pair
        <5> QED
          BY <5>3 DEF Arriving
      <4> QED
        BY <1>1, <3>2, <4>1, <4>2, OwesStep
    <3>3. CASE ~(Owes(r) /\ Pair(r) = p)
      BY <1>0, <2>0, <2>1, <3>1, <3>3 DEF RowsOf, Arriving
    <3> QED
      BY <3>2, <3>3
  <2> QED
    BY <2>2, <2>3, <2>4, <2>5
<1>2. ASSUME NEW x \in onTheWay, InsertRow(x) PROVE Kept(p)'
  <2>1. x \in rows' /\ rows \subseteq rows' /\ onTheWay' = onTheWay \ {x} /\ torn' = torn
    BY <1>2 DEF InsertRow
  <2>2. CASE x.user = p[1] /\ x.org = p[2]
    BY <2>1, <2>2 DEF RowsOf
  <2>3. CASE ~(x.user = p[1] /\ x.org = p[2])
    <3>1. p \in joined
      BY <1>2, <2>3 DEF InsertRow
    <3>2. \A r \in Requests : Owes(r)' = Owes(r) /\ Pair(r)' = Pair(r)
      BY <1>2 DEF InsertRow, Owes, Pair
    <3> QED
      BY <1>0, <2>1, <2>3, <3>1, <3>2 DEF RowsOf, Arriving
  <2> QED
    BY <2>2, <2>3
<1>3. CASE Crash
  <2>1. p \in joined /\ rows' = rows /\ torn \subseteq torn'
    BY <1>3 DEF Crash, database
  <2>2. ASSUME NEW r \in Requests, Owes(r), Pair(r) = p PROVE p \in torn'
    BY <1>3, <2>2 DEF Crash, Owes, Calling
  <2>3. ASSUME Arriving(p[1], p[2]) PROVE p \in torn'
    <3>1. p = <<p[1], p[2]>>
      BY <2>1 DEF TypeOK, Pairs
    <3> QED
      BY <1>3, <2>3, <3>1 DEF Crash, Arriving
  <2> QED
    BY <1>0, <2>1, <2>2, <2>3 DEF RowsOf
<1> QED
  BY <1>1, <1>2, <1>3, NextIsAct

-----------------------------------------------------------------------------
\* What was granted was accepted.

\* How an acceptance gets on.
LEMMA AcceptPlaces ==
  ASSUME TypeOK, JobsFit, NEW r \in Requests, Act(r), ~Asking(r), job[r].op = "accept"
  PROVE  /\ job' = job
         /\ pc'[r] \in {"count", "details", "change", "write"}
              => ReadInvitation(r) \/ pc[r] \in {"count", "details", "change", "write"}
         /\ pc'[r] = "grant" => (pc[r] = "grant" /\ ~Writes(r)) \/ Accept(r)
         /\ pc'[r] = "calls" => pc[r] = "calls" \/ AcceptClient(r)
         /\ pc[r] = "grant" => pc'[r] \in {"grant", "over"}
         /\ pc[r] = "calls" => pc'[r] \in {"calls", "over"}
<1> USE DEF TypeOK, Step
<1>0. Fits(r)
  BY DEF JobsFit
<1>1. CASE Checks(r) \/ Refusals(r)
  BY <1>0, <1>1 DEF Checks, CheckInvited, ReadInvitation, CountOrgs, ReadOrg, CheckMember, ReadUnregistered,
                AllSettled, Calling, Refusals, InvitedAlready, InvitationClosed, LimitReached, InvitationGone,
                NotAMember, NothingToReplace, NewSecret, ClientExists, AllMapped, NoClient, Refuse, Fits
<1>2. CASE Creates(r) \/ Writes(r) \/ GrantRole(r)
  BY <1>2 DEF Creates, CreateSendInvitation, Writes, Reject, Withdraw, Accept, StatusWritten, Settle, GrantRole,
              Calling
<1>3. CASE Sends(r) \/ ClearRoles(r)
  BY <1>0, <1>3 DEF Sends, AcceptClient, ReplaceRows, Regrant, RegisterOwner, ClearRoles, Fits
<1>4. CASE RowsDropped(r) \/ Maps(r)
  BY <1>4 DEF RowsDropped, Maps, RoleMapped, RolesUnmapped, Settle, Writes, Reject, Withdraw, Accept,
              StatusWritten, Calling
<1>5. CASE TakesUp(r) \/ Keeps(r)
  <2>1. ~TakesUp(r)
    BY <1>0 DEF TakesUp, ReadAllUnregistered, SkipOrg, NextOrg, Remap, Fits
  <2> QED
    BY <1>0, <1>5, <2>1 DEF Keeps, CreateClient, StoreClient, DeleteClient, ForgetClient, Fits
<1>6. CASE Loses(r)
  BY <1>6 DEF Loses, OneFailed, Failing, Fail, RolesKept, CallFails, Calling, Writes, Reject, Withdraw, Accept,
              StatusWritten, Settle
<1> QED
  BY <1>1, <1>2, <1>3, <1>4, <1>5, <1>6 DEF Act

\* Where a request sends rows.
LEMMA SendPlaces ==
  ASSUME TypeOK, JobsFit, NEW r \in Requests, Act(r), GrantRole(r) \/ Sends(r)
  PROVE  /\ job' = job /\ pc[r] \notin {"idle", "over"} /\ pc'[r] # "idle"
         /\ job[r].op = "accept" => GrantRole(r) \/ (AcceptClient(r) /\ pc'[r] = "calls")
         /\ GrantRole(r) => pc'[r] \in {"grant", "over"}
BY DEF TypeOK, Step, GrantRole, Sends, AcceptClient, ReplaceRows, Regrant, RegisterOwner, JobsFit, Fits

LEMMA RowsFitStep == TypeOK /\ JobsFit /\ RowsFit /\ Next => RowsFit'
<1> SUFFICES ASSUME TypeOK, JobsFit, RowsFit, Next PROVE RowsFit'
  OBVIOUS
<1> DEFINE Fine(x) ==
      /\ pc[x.by] # "idle"
      /\ job[x.by].op = "accept" =>
           /\ pc[x.by] \in {"grant", "calls", "over"}
           /\ x.user = job[x.by].user /\ x.org = job[x.by].org
<1> SUFFICES ASSUME NEW x \in (rows \cup onTheWay)', x.by \in Requests PROVE Fine(x)'
  BY DEF RowsFit
<1>0. x \in rows \cup onTheWay => Fine(x)
  BY DEF RowsFit
<1>1. ASSUME NEW r \in Requests, Act(r) PROVE Fine(x)'
  <2>1. CASE x \in rows \cup onTheWay /\ x.by # r
    BY <1>0, <1>1, <2>1, OthersStay
  <2>2. CASE x \in rows \cup onTheWay /\ x.by = r
    <3>1. ~Asking(r)
      BY <1>0, <2>2, AskIsFirst
    <3>2. pc'[r] # "idle" /\ pc[r] # "over" /\ job'[r].op = job[r].op
      BY <1>1, <3>1, ActIsUnderway, JobStays
    <3>3. CASE job[r].op = "accept"
      BY <1>0, <1>1, <2>2, <3>1, <3>2, <3>3, AcceptPlaces
    <3> QED
      BY <2>2, <3>2, <3>3
  <2>3. CASE x \notin rows \cup onTheWay
    <3>1. x \in NewRows(r) /\ (GrantRole(r) \/ Sends(r))
      BY <1>1, <2>3, OnlyReplaced, Untouched
    <3>2. x.by = r /\ x.user = job[r].user /\ x.org = job[r].org
      BY <3>1 DEF NewRows
    <3> QED
      BY <1>1, <3>1, <3>2, SendPlaces
  <2> QED
    BY <2>1, <2>2, <2>3
<1>2. ASSUME NEW y \in onTheWay, InsertRow(y) PROVE Fine(x)'
  BY <1>0, <1>2 DEF InsertRow
<1>3. CASE Crash
  BY <1>0, <1>3 DEF Crash, TypeOK, Underway, database
<1> QED
  BY <1>1, <1>2, <1>3, NextIsAct

\* A second answer to an invitation contests it.
LEMMA OneAnswerStep == TypeOK /\ OneAnswer /\ Next => OneAnswer'
<1> SUFFICES ASSUME TypeOK, OneAnswer, Next PROVE OneAnswer'
  OBVIOUS
<1> SUFFICES ASSUME NEW i \in Invitations, i \notin contested',
                    NEW s \in Requests, pc'[s] \notin {"idle", "over"}, job'[s].inv = i,
                    NEW t \in Requests, pc'[t] \notin {"idle", "over"}, job'[t].inv = i
             PROVE  s = t
  BY DEF OneAnswer, Underway
<1>0. ASSUME i \notin contested, s \in Underway, t \in Underway, job[s].inv = i, job[t].inv = i PROVE s = t
  BY <1>0 DEF OneAnswer
<1>1. ASSUME NEW r \in Requests, Act(r), ~Asking(r) PROVE s = t
  <2>1. i \notin contested /\ pc[r] \notin {"idle", "over"}
    BY <1>1, Untouched, ActIsUnderway
  <2>2. s \in Underway /\ job[s].inv = i
    BY <1>1, <2>1, OthersStay, JobStays DEF Underway
  <2>3. t \in Underway /\ job[t].inv = i
    BY <1>1, <2>1, OthersStay, JobStays DEF Underway
  <2> QED
    BY <1>0, <2>1, <2>2, <2>3
<1>2. ASSUME NEW r \in Requests, Asking(r) PROVE s = t
  <2>0. Act(r) /\ contested \subseteq contested'
    BY <1>2, Untouched DEF Act
  <2>1. \A q \in Requests \ {r} : pc'[q] = pc[q] /\ job'[q] = job[q]
    BY <2>0, OthersStay
  <2>2. ASSUME job'[r].inv = i, NEW q \in Underway, job[q].inv = i PROVE FALSE
    <3>1. i # "none"
      BY ConstantsAssumption
    <3>2. (\E answer : AskAnswer(r, i, answer)) \/ AskWithdraw(r, i)
      BY <1>2, <2>2, <3>1, AskedFields DEF Asking
    <3>3. i \in contested'
      BY <2>2, <3>2 DEF AskAnswer, AskWithdraw
    <3> QED
      BY <3>3
  <2>3. CASE s # r /\ t # r
    BY <1>0, <2>0, <2>1, <2>3 DEF Underway
  <2>4. CASE s = r /\ t # r
    BY <2>1, <2>2, <2>4 DEF Underway
  <2>5. CASE s # r /\ t = r
    BY <2>1, <2>2, <2>5 DEF Underway
  <2> QED
    BY <2>3, <2>4, <2>5
<1>3. ASSUME NEW x \in onTheWay, InsertRow(x) PROVE s = t
  BY <1>0, <1>3 DEF InsertRow, Underway
<1>4. CASE Crash
  BY <1>4 DEF Crash, Underway
<1> QED
  BY <1>1, <1>2, <1>3, <1>4, NextIsAct

\* Only whoever works on an invitation changes it, once it was sent.
LEMMA WhoWrites ==
  ASSUME TypeOK, JobsFit, CallsFit, NEW r \in Requests, Act(r), NEW i \in Invitations,
         status'[i] # status[i]
  PROVE  \/ status[i] = "none" /\ status'[i] = "pending" /\ Creates(r)
         \/ /\ Writes(r) /\ job[r].inv = i /\ r \in Underway
            /\ job[r].op \in {"accept", "reject", "withdraw"}
            /\ pc[r] = "write" \/ (pc[r] = "calls" /\ StatusWritten(r))
            /\ job[r].op = "accept" => status'[i] = "accepted"
<1>1. CASE Creates(r)
  BY <1>1 DEF Creates, CreateSendInvitation, TypeOK
<1>2. CASE Writes(r)
  <2>1. CASE Reject(r) \/ Withdraw(r) \/ Accept(r)
    BY <2>1 DEF Reject, Withdraw, Accept, SetStatus, Step, TypeOK, Writes, Underway
  <2>2. CASE StatusWritten(r)
    <3>1. pc[r] = "calls" /\ job[r].inv = i /\ status'[i] = "accepted"
      <4>1. pc[r] = "calls"
        BY <2>2 DEF StatusWritten, Settle, Calling, CallsFit, CallsOf
      <4>2. job[r].inv = i /\ status'[i] = "accepted"
        BY <2>2 DEF StatusWritten, SetStatus, TypeOK
      <4> QED
        BY <4>1, <4>2
    <3>2. CallsOf(r) /\ Fits(r) /\ "status" \in left[r]
      BY <2>2 DEF CallsFit, JobsFit, StatusWritten, Settle
    <3>3. job[r].op = "accept"
      BY <3>1, <3>2 DEF CallsOf
    <3> QED
      BY <2>2, <3>1, <3>3 DEF Writes, Underway
  <2> QED
    BY <1>2, <2>1, <2>2 DEF Writes
<1>3. CASE ~Creates(r) /\ ~Writes(r)
  BY <1>3, Untouched
<1> QED
  BY <1>1, <1>2, <1>3

\* An answer finds the invitation as it was read, if nobody else answers it.
LEMMA AnswerFreshStep ==
  ASSUME TypeOK, JobsFit, CallsFit, AnswersFresh, NEW r \in Requests, Act(r), ~Asking(r),
         job[r].op \in {"accept", "reject", "withdraw"}, job[r].inv \notin contested
  PROVE  AnswerFresh(r)'
<1> USE DEF TypeOK, Step
<1>0. Fits(r) /\ AnswerFresh(r) /\ CallsOf(r)
  BY DEF JobsFit, AnswersFresh, CallsFit
<1>1. CASE ReadInvitation(r)
  <2>1. pc'[r] \in {"count", "write"} /\ status'[job'[r].inv] = "pending"
    BY <1>1 DEF ReadInvitation, database
  <2> QED
    BY <2>1 DEF AnswerFresh
<1>2. CASE Writes(r)
  <2>1. job' = job /\ job[r].inv \in Invitations
    BY <1>0, <1>2 DEF Writes, Reject, Withdraw, Accept, StatusWritten, Settle, Fits
  <2>2. CASE Reject(r) \/ Withdraw(r)
    BY <2>2 DEF Reject, Withdraw, AnswerFresh
  <2>3. CASE Accept(r)
    <3>1. pc'[r] = "grant" /\ status'[job[r].inv] = "accepted"
      BY <2>1, <2>3 DEF Accept, SetStatus
    <3> QED
      BY <2>1, <3>1 DEF AnswerFresh
  <2>4. CASE StatusWritten(r)
    <3>1. pc' = pc /\ status'[job[r].inv] = "accepted" /\ "status" \notin left'[r]
      BY <2>1, <2>4 DEF StatusWritten, SetStatus, Settle
    <3>2. pc[r] = "calls"
      BY <1>0, <2>4 DEF StatusWritten, Settle, Calling, CallsOf
    <3> QED
      BY <2>1, <3>1, <3>2 DEF AnswerFresh
  <2> QED
    BY <1>2, <2>2, <2>3, <2>4 DEF Writes
<1>3. CASE ~ReadInvitation(r) /\ ~Writes(r) /\ pc'[r] \notin {"grant", "calls"}
  <2>1. pc'[r] \in {"count", "details", "change", "write"} =>
          pc[r] \in {"count", "details", "change", "write"} /\ status' = status /\ job' = job
    <3>1. CASE job[r].op = "accept"
      <4>1. ~Creates(r)
        BY <3>1 DEF Creates, CreateSendInvitation
      <4> QED
        BY <1>3, <3>1, <4>1, AcceptPlaces, Untouched
    <3>2. CASE job[r].op # "accept"
      BY <1>0, <1>3, <3>2 DEF Act, Checks, CheckInvited, CountOrgs, ReadOrg, CheckMember, ReadUnregistered,
           AllSettled, Calling, Refusals, InvitedAlready, InvitationClosed, LimitReached, InvitationGone,
           NotAMember, NothingToReplace, NewSecret, ClientExists, AllMapped, NoClient, Refuse, Creates,
           CreateSendInvitation, GrantRole, Sends, AcceptClient, ReplaceRows, Regrant, RegisterOwner, ClearRoles,
           RowsDropped, Maps, RoleMapped, RolesUnmapped, Settle, TakesUp, ReadAllUnregistered, SkipOrg, NextOrg,
           Remap, Keeps, CreateClient, StoreClient, DeleteClient, ForgetClient, Loses, OneFailed, Failing, Fail,
           RolesKept, CallFails, Fits
    <3> QED
      BY <3>1, <3>2
  <2> QED
    BY <1>0, <1>3, <2>1 DEF AnswerFresh
<1>4. CASE ~ReadInvitation(r) /\ ~Writes(r) /\ pc'[r] = "grant"
  <2>1. job[r].op = "accept"
    BY <1>0, <1>4, FitsStep, JobStays DEF Fits
  <2>2. pc[r] = "grant" /\ job' = job
    BY <1>4, <2>1, AcceptPlaces DEF Writes
  <2>3. status' = status
    BY <1>4, <2>2, Untouched DEF Creates, CreateSendInvitation
  <2> QED
    BY <1>0, <1>4, <2>2, <2>3 DEF AnswerFresh
<1>5. CASE ~ReadInvitation(r) /\ ~Writes(r) /\ pc'[r] = "calls"
  <2>1. job[r].op = "accept"
    BY <1>0, <1>5, FitsStep, JobStays DEF Fits
  <2>2. job' = job /\ (pc[r] = "calls" \/ AcceptClient(r))
    BY <1>5, <2>1, AcceptPlaces
  <2>3. status' = status
    BY <1>5, <2>2, Untouched DEF Creates, CreateSendInvitation, AcceptClient, database
  <2>4. CASE AcceptClient(r)
    <3>1. pc[r] = "change" /\ "status" \in left'[r]
      BY <2>4 DEF AcceptClient
    <3> QED
      BY <1>0, <1>5, <2>2, <2>3, <3>1 DEF AnswerFresh
  <2>5. CASE pc[r] = "calls" /\ left'[r] = left[r] /\ sound' = sound
    BY <1>0, <1>5, <2>2, <2>3, <2>5 DEF AnswerFresh
  <2>6. CASE pc[r] = "calls" /\ ~(left'[r] = left[r] /\ sound' = sound)
    <3>1. RoleMapped(r) \/ RolesUnmapped(r) \/ RolesKept(r) \/ (\E call \in Calls : CallFails(r, call))
      <4>1. ~Creates(r) /\ ~GrantRole(r) /\ ~Sends(r) /\ ~ClearRoles(r) /\ ~TakesUp(r)
        BY <2>6 DEF Creates, CreateSendInvitation, GrantRole, Sends, AcceptClient, ReplaceRows, Regrant,
             RegisterOwner, ClearRoles, TakesUp, ReadAllUnregistered, SkipOrg, NextOrg, Remap
      <4>2. ~Checks(r) /\ ~Refusals(r) /\ ~Keeps(r)
        BY <2>6 DEF Checks, CheckInvited, ReadInvitation, CountOrgs, ReadOrg, CheckMember, ReadUnregistered,
             AllSettled, Refusals, InvitedAlready, InvitationClosed, LimitReached, InvitationGone,
             NotAMember, NothingToReplace, NewSecret, ClientExists, AllMapped, NoClient, Refuse, Keeps,
             CreateClient, StoreClient, DeleteClient, ForgetClient
      <4>3. ~RowsDropped(r) /\ ~OneFailed(r) /\ ~Fail(r)
        BY <1>0, <1>5, <2>1, <2>6 DEF RowsDropped, Settle, OneFailed, Fail, CallsOf
      <4> QED
        BY <1>5, <4>1, <4>2, <4>3 DEF Act, Maps, Loses, Failing
    <3>2. CASE RoleMapped(r) \/ RolesUnmapped(r) \/ RolesKept(r)
      <4>1. sound' = sound /\ ("status" \in left'[r] <=> "status" \in left[r])
        BY <3>2 DEF RoleMapped, RolesUnmapped, RolesKept, Settle
      <4> QED
        BY <1>0, <1>5, <2>2, <2>3, <2>6, <4>1 DEF AnswerFresh
    <3>3. CASE \E call \in Calls : CallFails(r, call)
      <4>1. ~sound'[r] /\ ("status" \in left'[r] => "status" \in left[r])
        BY <3>3 DEF CallFails
      <4> QED
        BY <1>0, <1>5, <2>2, <2>3, <2>6, <4>1 DEF AnswerFresh
    <3> QED
      BY <3>1, <3>2, <3>3
  <2> QED
    BY <2>2, <2>4, <2>5, <2>6
<1> QED
  BY <1>1, <1>2, <1>3, <1>4, <1>5

LEMMA AnswersFreshStep ==
  TypeOK /\ JobsFit /\ CallsFit /\ OneAnswer /\ AnswersFresh /\ Next => AnswersFresh'
<1> SUFFICES ASSUME TypeOK, JobsFit, CallsFit, OneAnswer, AnswersFresh, Next,
                    NEW s \in Requests, job'[s].op \in {"accept", "reject", "withdraw"},
                    job'[s].inv \notin contested'
             PROVE  AnswerFresh(s)'
  BY DEF AnswersFresh
<1>1. ASSUME NEW r \in Requests, Act(r), r = s PROVE AnswerFresh(s)'
  <2>1. CASE Asking(r)
    BY <1>1, <2>1, AskIsFirst DEF AnswerFresh
  <2>2. CASE ~Asking(r)
    BY <1>1, <2>2, JobStays, Untouched, AnswerFreshStep
  <2> QED
    BY <2>1, <2>2
<1>2. ASSUME NEW r \in Requests, Act(r), r # s PROVE AnswerFresh(s)'
  <2>1. pc'[s] = pc[s] /\ job'[s] = job[s] /\ left'[s] = left[s] /\ sound'[s] = sound[s]
    BY <1>2, OthersStay
  <2>2. AnswerFresh(s) /\ job[s].inv \notin contested /\ job[s].inv \in Invitations
    BY <1>2, <2>1, Untouched DEF AnswersFresh, JobsFit, Fits
  <2>3. CASE status'[job[s].inv] = status[job[s].inv]
    BY <2>1, <2>2, <2>3 DEF AnswerFresh
  <2>4. CASE status'[job[s].inv] # status[job[s].inv]
    <3> DEFINE i == job[s].inv
    <3>1. CASE status[i] = "none"
      BY <2>1, <2>2, <3>1 DEF AnswerFresh
    <3>2. CASE job[r].inv = i /\ r \in Underway
      <4>1. s \notin Underway
        BY <1>2, <2>2, <3>2 DEF OneAnswer
      <4>2. pc[s] \in {"idle", "over"}
        BY <4>1 DEF Underway
      <4> QED
        BY <2>1, <4>2 DEF AnswerFresh
    <3> QED
      BY <1>2, <2>2, <2>4, <3>1, <3>2, WhoWrites
  <2> QED
    BY <2>3, <2>4
<1>3. ASSUME NEW x \in onTheWay, InsertRow(x) PROVE AnswerFresh(s)'
  BY <1>3 DEF InsertRow, AnswersFresh, AnswerFresh
<1>4. CASE Crash
  <2>1. pc'[s] \in {"idle", "over"}
    BY <1>4 DEF Crash, Underway
  <2> QED
    BY <2>1 DEF AnswerFresh
<1> QED
  BY <1>1, <1>2, <1>3, <1>4, NextIsAct

\* What is accepted stays so, if nobody contests it.
LEMMA AcceptedStays ==
  ASSUME TypeOK, JobsFit, CallsFit, AnswersFresh, NEW r \in Requests, Act(r), NEW i \in Invitations,
         status[i] = "accepted", i \notin contested
  PROVE  status'[i] = "accepted"
<1> SUFFICES ASSUME status'[i] # status[i] PROVE FALSE
  OBVIOUS
<1>1. /\ job[r].inv = i /\ job[r].op \in {"accept", "reject", "withdraw"}
      /\ job[r].op = "accept" => status'[i] = "accepted"
      /\ pc[r] = "write" \/ (pc[r] = "calls" /\ StatusWritten(r))
  BY WhoWrites
<1>2. pc[r] = "calls" => job[r].op = "accept"
  BY <1>1 DEF JobsFit, Fits
<1>3. AnswerFresh(r)
  BY <1>1 DEF AnswersFresh
<1> QED
  BY <1>1, <1>2, <1>3 DEF AnswerFresh

LEMMA GrantsAcceptedStep ==
  TypeOK /\ JobsFit /\ CallsFit /\ RowsFit /\ AnswersFresh /\ GrantsAccepted /\ Next => GrantsAccepted'
<1> SUFFICES ASSUME TypeOK, JobsFit, CallsFit, RowsFit, AnswersFresh, GrantsAccepted, Next
             PROVE  GrantsAccepted'
  OBVIOUS
<1> DEFINE Good(x) ==
      \/ status[job[x.by].inv] = "accepted"
      \/ job[x.by].inv \in contested
      \/ x.by \in Underway
      \/ <<x.user, x.org>> \in drifted
<1> SUFFICES ASSUME NEW x \in (rows \cup onTheWay)', x.by \in Requests, job'[x.by].op = "accept"
             PROVE  Good(x)'
  BY DEF GrantsAccepted
<1>0. x \in rows \cup onTheWay /\ job[x.by].op = "accept" => Good(x)
  BY DEF GrantsAccepted
<1>1. ASSUME NEW r \in Requests, Act(r) PROVE Good(x)'
  <2>0. contested \subseteq contested' /\ drifted \subseteq drifted'
    BY <1>1, Untouched
  <2>1. CASE x \in rows \cup onTheWay /\ x.by # r
    <3>1. pc'[x.by] = pc[x.by] /\ job'[x.by] = job[x.by]
      BY <1>1, <2>1, OthersStay
    <3>2. Good(x) /\ job[x.by].inv \in Invitations
      BY <1>0, <2>1, <3>1 DEF JobsFit, Fits
    <3>3. CASE status[job[x.by].inv] = "accepted" /\ job[x.by].inv \notin contested
      BY <1>1, <3>1, <3>2, <3>3, AcceptedStays
    <3> QED
      BY <2>0, <3>1, <3>2, <3>3 DEF Underway
  <2>2. CASE x \in rows \cup onTheWay /\ x.by = r
    <3>1. pc[r] # "idle" /\ ~Asking(r)
      BY <2>2, AskIsFirst DEF RowsFit
    <3>2. job[r].op = "accept" /\ pc'[r] # "idle"
      BY <1>1, <2>2, <3>1, JobStays, ActIsUnderway
    <3>3. job' = job /\ job[r].inv \in Invitations /\ Good(x)
      BY <1>0, <1>1, <2>2, <3>1, <3>2, AcceptPlaces DEF JobsFit, Fits
    <3>4. pc[r] \in {"grant", "calls"} /\ <<x.user, x.org>> = Pair(r)
      BY <1>1, <2>2, <3>1, <3>2, ActIsUnderway DEF RowsFit, Pair
    <3>5. CASE pc'[r] # "over"
      BY <2>2, <3>2, <3>5 DEF Underway
    <3>6. CASE pc'[r] = "over" /\ Loses(r)
      <4>1. Pair(r) \in drifted'
        BY <3>2, <3>4, <3>6 DEF Loses, OneFailed, Failing, Fail, RolesKept, CallFails, Concerns, WholeOrg, Pair
      <4> QED
        BY <3>4, <4>1
    <3>7. CASE pc'[r] = "over" /\ ~Loses(r) /\ job[r].inv \notin contested
      <4>1. AnswerFresh(r)
        BY <3>2, <3>7 DEF AnswersFresh
      <4>2. CASE pc[r] = "grant"
        <5>1. status[job[r].inv] = "accepted"
          BY <4>1, <4>2 DEF AnswerFresh
        <5> QED
          BY <1>1, <2>2, <3>3, <3>7, <5>1, AcceptedStays
      <4>3. CASE pc[r] = "calls"
        <5>1. AllSettled(r)
          <6>1. ~Creates(r) /\ ~Writes(r) /\ ~GrantRole(r) /\ ~Sends(r) /\ ~ClearRoles(r) /\ ~TakesUp(r)
            BY <3>7, <4>3 DEF Creates, CreateSendInvitation, GrantRole, Sends, AcceptClient, ReplaceRows, Regrant,
                 RegisterOwner, ClearRoles, TakesUp, ReadAllUnregistered, SkipOrg, NextOrg, Remap, Writes,
                 Reject, Withdraw, Accept, StatusWritten, Settle, Step
          <6>2. ~Refusals(r) /\ ~Keeps(r) /\ ~Maps(r) /\ ~RowsDropped(r)
            BY <3>7, <4>3 DEF Refusals, InvitedAlready, InvitationClosed, LimitReached, InvitationGone,
                 NotAMember, NothingToReplace, NewSecret, ClientExists, AllMapped, NoClient, Refuse, Keeps,
                 CreateClient, StoreClient, DeleteClient, ForgetClient, Maps, RoleMapped, RolesUnmapped,
                 RowsDropped, Settle, Step
          <6> QED
            BY <1>1, <3>1, <3>7, <4>3, <6>1, <6>2 DEF Act, Checks, CheckInvited, ReadInvitation, CountOrgs, ReadOrg,
               CheckMember, ReadUnregistered, Step
        <5>2. left[r] = {} /\ sound[r] /\ status' = status
          BY <5>1 DEF AllSettled, database
        <5> QED
          BY <2>2, <3>3, <4>1, <4>3, <5>2 DEF AnswerFresh
      <4> QED
        BY <3>4, <4>2, <4>3
    <3> QED
      BY <2>0, <2>2, <3>3, <3>5, <3>6, <3>7
  <2>3. CASE x \notin rows \cup onTheWay
    <3>1. x \in NewRows(r) /\ (GrantRole(r) \/ Sends(r))
      BY <1>1, <2>3, OnlyReplaced, Untouched
    <3>2. x.by = r
      BY <3>1 DEF NewRows
    <3>3. job' = job /\ (GrantRole(r) \/ pc'[r] = "calls")
      BY <1>1, <3>1, <3>2, SendPlaces
    <3>4. CASE GrantRole(r)
      <4>1. status' = status /\ contested' = contested /\ pc[r] = "grant" /\ job[r].op = "accept"
        BY <3>4, GrantedRow DEF GrantRole
      <4> QED
        BY <3>2, <3>3, <4>1 DEF AnswersFresh, AnswerFresh
    <3> QED
      BY <3>2, <3>3, <3>4 DEF Underway
  <2> QED
    BY <2>1, <2>2, <2>3
<1>2. ASSUME NEW y \in onTheWay, InsertRow(y) PROVE Good(x)'
  BY <1>0, <1>2 DEF InsertRow, Underway
<1>3. CASE Crash
  <2>1. x \in rows /\ job' = job /\ status' = status /\ contested' = contested /\ drifted \subseteq drifted'
    BY <1>3 DEF Crash, database
  <2>2. Good(x)
    BY <1>0, <2>1
  <2>3. CASE x.by \in Underway
    <3>1. <<x.user, x.org>> = Pair(x.by)
      BY <2>1 DEF RowsFit, Pair
    <3>2. Pair(x.by) \in Concerns(x.by)
      BY <2>1 DEF Concerns, WholeOrg
    <3>3. Concerns(x.by) \subseteq drifted'
      <4>1. drifted' = drifted \cup (UNION {Concerns(r) : r \in Underway}) \cup {<<y.user, y.org>> : y \in onTheWay}
        BY <1>3 DEF Crash
      <4>2. Concerns(x.by) \subseteq UNION {Concerns(r) : r \in Underway}
        BY <2>3
      <4> QED
        BY <4>1, <4>2, Zenon
    <3> QED
      BY <3>1, <3>2, <3>3
  <2> QED
    BY <2>1, <2>2, <2>3
<1> QED
  BY <1>1, <1>2, <1>3, NextIsAct

-----------------------------------------------------------------------------
\* One open invitation.

\* A request that invites is about the same pair until it is over.
LEMMA InviteStays ==
  ASSUME TypeOK, JobsFit, NEW r \in Requests, Act(r), ~Asking(r), job'[r].op = "invite"
  PROVE  /\ job' = job /\ job[r].op = "invite"
         /\ pc'[r] = "write" => CheckInvited(r)
<1> USE DEF TypeOK, Step
<1>0. Fits(r) /\ job[r].op = "invite"
  BY JobStays DEF JobsFit
<1>1. ~TakesUp(r)
  BY <1>0 DEF TakesUp, ReadAllUnregistered, SkipOrg, NextOrg, Remap, Fits
<1>2. ASSUME pc'[r] = "write", ~CheckInvited(r) PROVE FALSE
  <2>1. ~Checks(r) /\ ~Refusals(r)
    BY <1>0, <1>2 DEF Checks, CheckInvited, ReadInvitation, CountOrgs, ReadOrg, CheckMember, ReadUnregistered,
       AllSettled, Calling, Refusals, InvitedAlready, InvitationClosed, LimitReached, InvitationGone,
       NotAMember, NothingToReplace, NewSecret, ClientExists, AllMapped, NoClient, Refuse, Fits
  <2>2. ~Creates(r) /\ ~GrantRole(r) /\ ~Sends(r) /\ ~ClearRoles(r) /\ ~Keeps(r)
    BY <1>0, <1>2 DEF Creates, CreateSendInvitation, GrantRole, Sends, AcceptClient, ReplaceRows, Regrant,
       RegisterOwner, ClearRoles, Keeps, CreateClient, StoreClient, DeleteClient, ForgetClient
  <2>3. ~Writes(r) /\ ~RowsDropped(r) /\ ~Maps(r) /\ ~Loses(r)
    BY <1>0, <1>2 DEF Writes, Reject, Withdraw, Accept, StatusWritten, Settle, RowsDropped, Maps, RoleMapped,
       RolesUnmapped, Loses, OneFailed, Failing, Fail, RolesKept, CallFails, Calling
  <2> QED
    BY <1>1, <2>1, <2>2, <2>3 DEF Act
<1> QED
  BY <1>0, <1>1, <1>2, Untouched

\* A second invitation of a pair at a time rushes it.
LEMMA OneInviteStep == TypeOK /\ JobsFit /\ OneInvite /\ Next => OneInvite'
<1> SUFFICES ASSUME TypeOK, JobsFit, OneInvite, Next PROVE OneInvite'
  OBVIOUS
<1> SUFFICES ASSUME NEW s \in Requests, pc'[s] \notin {"idle", "over"}, job'[s].op = "invite",
                    NEW t \in Requests, pc'[t] \notin {"idle", "over"}, job'[t].op = "invite",
                    Pair(s)' = Pair(t)', Pair(s)' \notin rushed'
             PROVE  s = t
  BY DEF OneInvite, Underway
<1>0. ASSUME s \in Underway, t \in Underway, job[s].op = "invite", job[t].op = "invite",
             Pair(s) = Pair(t), Pair(s) \notin rushed
      PROVE  s = t
  BY <1>0 DEF OneInvite
<1>1. ASSUME NEW r \in Requests, Act(r), ~Asking(r) PROVE s = t
  <2>1. \A q \in {s, t} : pc[q] \notin {"idle", "over"} /\ job'[q] = job[q]
    BY <1>1, OthersStay, InviteStays, ActIsUnderway
  <2>2. rushed' = rushed
    BY <1>1, Untouched
  <2> QED
    BY <1>0, <2>1, <2>2 DEF Underway, Pair
<1>2. ASSUME NEW r \in Requests, Asking(r) PROVE s = t
  <2>0. Act(r) /\ rushed \subseteq rushed'
    BY <1>2, Untouched DEF Act
  <2>1. \A q \in Requests \ {r} : pc'[q] = pc[q] /\ job'[q] = job[q]
    BY <2>0, OthersStay
  <2>2. ASSUME job'[r].op = "invite", NEW q \in Underway, q # r, job[q].op = "invite", Pair(q) = Pair(r)'
        PROVE  Pair(r)' \in rushed'
    <3>1. PICK u, o, v : AskInvite(r, u, o, v)
      BY <1>2, <2>2, AskedFields DEF Asking, WholeOrg
    <3>2. Pair(r)' = <<u, o>> /\ job[q].user = u /\ job[q].org = o
      BY <2>2, <3>1, AskedFields DEF Pair
    <3> QED
      BY <2>2, <3>1, <3>2 DEF AskInvite
  <2>3. CASE s # r /\ t # r
    BY <1>0, <2>0, <2>1, <2>3 DEF Underway, Pair
  <2>4. CASE s = r /\ t # r
    <3>1. t \in Underway /\ job[t].op = "invite" /\ Pair(t) = Pair(r)'
      BY <2>1, <2>4 DEF Underway, Pair
    <3> QED
      BY <2>2, <2>4, <3>1
  <2>5. CASE s # r /\ t = r
    <3>1. s \in Underway /\ job[s].op = "invite" /\ Pair(s) = Pair(r)'
      BY <2>1, <2>5 DEF Underway, Pair
    <3> QED
      BY <2>2, <2>5, <3>1
  <2> QED
    BY <2>3, <2>4, <2>5
<1>3. ASSUME NEW x \in onTheWay, InsertRow(x) PROVE s = t
  BY <1>0, <1>3 DEF InsertRow, Underway, Pair
<1>4. CASE Crash
  BY <1>4 DEF Crash, Underway
<1> QED
  BY <1>1, <1>2, <1>3, <1>4, NextIsAct

\* An invitation that is open was so before, was just sent, or is contested.
LEMMA OpenBefore ==
  ASSUME TypeOK, JobsFit, CallsFit, AnswersFresh, NEW r \in Requests, Act(r), NEW i \in Invitations,
         Open(i)', i \notin contested
  PROVE  (Open(i) /\ terms'[i] = terms[i]) \/ CreateSendInvitation(r, i)
<1>1. CASE status'[i] = status[i]
  <2>1. Open(i)
    BY <1>1 DEF Open
  <2>2. terms'[i] = terms[i] \/ CreateSendInvitation(r, i)
    <3>1. CASE Creates(r)
      BY <3>1 DEF Creates, CreateSendInvitation, TypeOK
    <3>2. CASE ~Creates(r)
      BY <3>2, Untouched
    <3> QED
      BY <3>1, <3>2
  <2> QED
    BY <2>1, <2>2
<1>2. CASE status'[i] # status[i] /\ Creates(r)
  BY <1>2 DEF Creates, CreateSendInvitation, TypeOK
<1>3. CASE status'[i] # status[i] /\ ~Creates(r)
  <2>1. /\ job[r].inv = i /\ job[r].op \in {"accept", "reject", "withdraw"}
        /\ pc[r] = "write" \/ (pc[r] = "calls" /\ StatusWritten(r))
    BY <1>3, WhoWrites
  <2>2. AnswerFresh(r)
    BY <2>1 DEF AnswersFresh
  <2>3. StatusWritten(r) => "status" \in left[r]
    BY DEF StatusWritten, Settle
  <2>4. status[i] = "pending"
    BY <2>1, <2>2, <2>3 DEF AnswerFresh
  <2>5. terms' = terms
    BY <1>3, Untouched
  <2> QED
    BY <2>4, <2>5 DEF Open
<1> QED
  BY <1>1, <1>2, <1>3

LEMMA InviteCheckedStep ==
  TypeOK /\ JobsFit /\ CallsFit /\ AnswersFresh /\ OneInvite /\ InviteChecked /\ Next => InviteChecked'
<1> SUFFICES ASSUME TypeOK, JobsFit, CallsFit, AnswersFresh, OneInvite, InviteChecked, Next
             PROVE  InviteChecked'
  OBVIOUS
<1> SUFFICES ASSUME NEW s \in Requests, job'[s].op = "invite", pc'[s] = "write", Pair(s)' \notin rushed',
                    NEW i \in Invitations, Open(i)', Terms(i)' = Pair(s)', i \notin contested'
             PROVE  FALSE
  BY DEF InviteChecked
<1>0. ASSUME job[s].op = "invite", pc[s] = "write", Pair(s) \notin rushed, Open(i), Terms(i) = Pair(s),
             i \notin contested
      PROVE  FALSE
  BY <1>0 DEF InviteChecked
<1>1. ASSUME NEW r \in Requests, Act(r), r # s PROVE FALSE
  <2>1. pc'[s] = pc[s] /\ job'[s] = job[s]
    BY <1>1, OthersStay
  <2>2. i \notin contested /\ Pair(s)' \notin rushed
    BY <1>1, Untouched
  <2>3. CASE Open(i) /\ terms'[i] = terms[i]
    BY <1>0, <2>1, <2>2, <2>3 DEF Pair, Terms
  <2>4. CASE CreateSendInvitation(r, i)
    <3>1. Terms(i)' = Pair(r) /\ pc[r] = "write" /\ job[r].op = "invite"
      BY <2>4 DEF CreateSendInvitation, Terms, Pair, Step, TypeOK
    <3>2. Pair(r) = Pair(s) /\ Pair(s) \notin rushed
      BY <2>1, <2>2, <3>1 DEF Pair
    <3>3. r \in Underway /\ s \in Underway
      BY <2>1, <3>1 DEF Underway
    <3> QED
      BY <1>1, <2>1, <3>1, <3>2, <3>3 DEF OneInvite
  <2> QED
    BY <1>1, <2>2, <2>3, <2>4, OpenBefore
<1>2. CASE Act(s)
  <2>1. CASE Asking(s)
    BY <2>1, AskIsFirst
  <2>2. CASE ~Asking(s)
    <3>1. CheckInvited(s) /\ job' = job
      BY <1>2, <2>2, InviteStays
    <3>2. ~AlreadyInvited(job[s].user, job[s].org) /\ status' = status /\ terms' = terms
      BY <3>1 DEF CheckInvited, database
    <3> QED
      BY <3>1, <3>2 DEF AlreadyInvited, Open, Terms, Pair
  <2> QED
    BY <2>1, <2>2
<1>3. ASSUME NEW x \in onTheWay, InsertRow(x) PROVE FALSE
  BY <1>0, <1>3 DEF InsertRow, Pair, Open, Terms
<1>4. CASE Crash
  BY <1>4 DEF Crash, Underway, TypeOK
<1> QED
  BY <1>1, <1>2, <1>3, <1>4, NextIsAct

LEMMA OneOpenStep ==
  TypeOK /\ JobsFit /\ CallsFit /\ AnswersFresh /\ InviteChecked /\ OneOpenInvitation /\ Next => OneOpenInvitation'
<1> SUFFICES ASSUME TypeOK, JobsFit, CallsFit, AnswersFresh, InviteChecked, OneOpenInvitation, Next
             PROVE  OneOpenInvitation'
  OBVIOUS
<1> SUFFICES ASSUME NEW i \in Invitations, NEW j \in Invitations, i # j, Open(i)', Open(j)', Terms(i)' = Terms(j)',
                    i \notin contested', j \notin contested', Terms(i)' \notin rushed'
             PROVE  FALSE
  BY DEF OneOpenInvitation, Open, Terms
<1>0. ASSUME Open(i), Open(j), Terms(i) = Terms(j), i \notin contested, j \notin contested, Terms(i) \notin rushed
      PROVE  FALSE
  BY <1>0 DEF OneOpenInvitation, Open, Terms
<1>1. ASSUME NEW r \in Requests, Act(r) PROVE FALSE
  <2>1. i \notin contested /\ j \notin contested /\ Terms(i)' \notin rushed
    BY <1>1, Untouched
  <2>2. ASSUME NEW k \in Invitations, NEW l \in Invitations, k # l, CreateSendInvitation(r, k), Open(l)',
               l \notin contested, Terms(l)' = Terms(k)', Terms(k)' \notin rushed
        PROVE  FALSE
    <3>1. Terms(k)' = Pair(r) /\ pc[r] = "write" /\ job[r].op = "invite"
      BY <2>2 DEF CreateSendInvitation, Terms, Pair, Step, TypeOK
    <3>2. status'[l] = status[l] /\ terms'[l] = terms[l]
      BY <2>2 DEF CreateSendInvitation, TypeOK
    <3>3. Open(l) /\ Terms(l) = Pair(r)
      BY <2>2, <3>1, <3>2 DEF Open, Terms
    <3> QED
      BY <2>2, <3>1, <3>3 DEF InviteChecked
  <2>3. CASE CreateSendInvitation(r, i)
    BY <2>1, <2>2, <2>3
  <2>4. CASE CreateSendInvitation(r, j)
    BY <2>1, <2>2, <2>4
  <2>5. CASE ~CreateSendInvitation(r, i) /\ ~CreateSendInvitation(r, j)
    <3>1. Open(i) /\ terms'[i] = terms[i]
      BY <1>1, <2>1, <2>5, OpenBefore
    <3>2. Open(j) /\ terms'[j] = terms[j]
      BY <1>1, <2>1, <2>5, OpenBefore
    <3> QED
      BY <1>0, <2>1, <3>1, <3>2 DEF Terms
  <2> QED
    BY <2>3, <2>4, <2>5
<1>2. ASSUME NEW x \in onTheWay, InsertRow(x) PROVE FALSE
  BY <1>0, <1>2 DEF InsertRow, Open, Terms
<1>3. CASE Crash
  BY <1>0, <1>3 DEF Crash, Open, Terms, database
<1> QED
  BY <1>1, <1>2, <1>3, NextIsAct

-----------------------------------------------------------------------------
\* Keycloak and the database agree on who has a client.

\* A request that registers an organisation, or will, or withdraws that.
Registers(r, o) == job[r].op \in WholeOrg /\ (job[r].org = o \/ o \in job[r].todo)

\* It did so before, unless it has just been asked or has just read what is
\* not registered.
LEMMA RegistersBefore ==
  ASSUME TypeOK, NEW r \in Requests, Act(r), ~Asking(r), ~ReadAllUnregistered(r), NEW o, Registers(r, o)'
  PROVE  Registers(r, o)
<1>1. CASE \E p : SkipOrg(r, p)
  BY <1>1, NextFields DEF Registers
<1>2. ASSUME NEW x, NextOrg(r, x) PROVE Registers(r, o)
  <2>1. x.org \in job[r].todo
    BY <1>2 DEF NextOrg
  <2> QED
    BY <1>2, <2>1, NextFields DEF Registers
<1>3. CASE \E x : Remap(r, x)
  BY <1>3, NextFields DEF Registers
<1>4. CASE ~TakesUp(r)
  BY <1>4, Untouched DEF Registers
<1> QED
  BY <1>1, <1>2, <1>3, <1>4 DEF TakesUp

\* Whoever registers an organisation keeps all its pairs busy.
LEMMA RegistersTouch ==
  ASSUME NEW r, NEW o, Registers(r, o), NEW u
  PROVE  Touches(r, u, o)
BY DEF Registers, Touches

LEMMA CalmBefore == ASSUME NEW o, Calm(o)', drifted \subseteq drifted' PROVE Calm(o)
BY DEF Calm

\* A second registration at a time is known to be one.
LEMMA OneRegistrationStep == TypeOK /\ OneRegistration /\ Next => OneRegistration'
<1> SUFFICES ASSUME TypeOK, OneRegistration, Next PROVE OneRegistration'
  OBVIOUS
<1> SUFFICES ASSUME NEW o \in Orgs, Calm(o)',
                    NEW s \in Requests, pc'[s] \notin {"idle", "over"}, Registers(s, o)',
                    NEW t \in Requests, pc'[t] \notin {"idle", "over"}, Registers(t, o)'
             PROVE  s = t
  BY DEF OneRegistration, Underway, Registers
<1>0. ASSUME Calm(o), s \in Underway, t \in Underway, Registers(s, o), Registers(t, o) PROVE s = t
  BY <1>0 DEF OneRegistration, Registers
<1>1. ASSUME NEW r \in Requests, Act(r), ~Asking(r), ~ReadAllUnregistered(r) PROVE s = t
  <2>1. Calm(o) /\ pc[r] \notin {"idle", "over"}
    BY <1>1, Untouched, CalmBefore, ActIsUnderway
  <2>2. ASSUME NEW q \in Requests, pc'[q] \notin {"idle", "over"}, Registers(q, o)'
        PROVE  q \in Underway /\ Registers(q, o)
    <3>1. CASE q = r
      BY <1>1, <2>1, <2>2, <3>1, RegistersBefore DEF Underway
    <3>2. CASE q # r
      <4>1. pc'[q] = pc[q] /\ job'[q] = job[q]
        BY <1>1, <3>2, OthersStay
      <4> QED
        BY <2>2, <4>1 DEF Underway, Registers
    <3> QED
      BY <3>1, <3>2
  <2> QED
    BY <1>0, <2>1, <2>2
<1>2. ASSUME NEW r \in Requests, Act(r), Asking(r) \/ ReadAllUnregistered(r) PROVE s = t
  <2>0. Calm(o)
    BY <1>2, Untouched, CalmBefore
  <2>1. \A q \in Requests \ {r} : pc'[q] = pc[q] /\ job'[q] = job[q]
    BY <1>2, OthersStay
  <2>2. \A q \in Requests \ {r} : Registers(q, o)' = Registers(q, o)
    BY <2>1 DEF Registers
  <2>3. ASSUME NEW q \in Underway, q # r, Registers(q, o), Registers(r, o)'
        PROVE  ReadAllUnregistered(r) /\ Registers(r, o) /\ pc[r] = "read"
    <3>0. Founder \in Users /\ <<Founder, o>> \notin drifted' /\ <<Founder, o>> \in Pairs
      BY ConstantsAssumption DEF Calm, Pairs
    <3>1. CASE Asking(r)
      <4>1. PICK op, u, p : AskWholeOrg(r, op, u, p)
        <5>1. job'[r].op \notin {"invite", "update", "accept", "reject", "withdraw"}
          BY <2>3 DEF Registers, WholeOrg
        <5> QED
          BY <3>1, <5>1, AskedFields DEF Asking
      <4>2. p = o
        BY <2>3, <4>1, AskedFields DEF Registers
      <4>3. Busy(Founder, o)
        BY <2>3, RegistersTouch DEF Busy
      <4>4. <<Founder, o>> \in drifted'
        BY <3>0, <4>1, <4>2, <4>3 DEF AskWholeOrg
      <4> QED
        BY <3>0, <4>4
    <3>2. CASE ReadAllUnregistered(r)
      <4>1. OthersBusy(r, Founder, o)
        BY <2>3, RegistersTouch DEF OthersBusy
      <4>2. o \in registered
        BY <3>0, <3>2, <4>1 DEF ReadAllUnregistered
      <4>3. job'[r].org = job[r].org /\ job'[r].op = job[r].op /\ job'[r].todo = Orgs \ registered
        BY <3>2, NextFields
      <4> QED
        BY <2>3, <3>2, <4>2, <4>3 DEF Registers, ReadAllUnregistered, Step
    <3> QED
      BY <1>2, <3>1, <3>2
  <2>4. CASE s # r /\ t # r
    BY <1>0, <2>0, <2>1, <2>2, <2>4 DEF Underway
  <2>5. CASE s = r /\ t # r
    <3>1. t \in Underway /\ Registers(t, o)
      BY <2>1, <2>2, <2>5 DEF Underway
    <3>2. r \in Underway /\ Registers(r, o)
      BY <2>3, <2>5, <3>1 DEF Underway
    <3> QED
      BY <1>0, <2>0, <2>5, <3>1, <3>2
  <2>6. CASE s # r /\ t = r
    <3>1. s \in Underway /\ Registers(s, o)
      BY <2>1, <2>2, <2>6 DEF Underway
    <3>2. r \in Underway /\ Registers(r, o)
      BY <2>3, <2>6, <3>1 DEF Underway
    <3> QED
      BY <1>0, <2>0, <2>6, <3>1, <3>2
  <2> QED
    BY <2>4, <2>5, <2>6
<1>3. ASSUME NEW x \in onTheWay, InsertRow(x) PROVE s = t
  BY <1>0, <1>3 DEF InsertRow, Underway, Registers, Calm
<1>4. CASE Crash
  BY <1>4 DEF Crash, Underway
<1> QED
  BY <1>1, <1>2, <1>3, <1>4, NextIsAct

\* Between the two stores a request stays until it has stored what it did, or
\* is known to have failed.
LEMMA BetweenStays ==
  ASSUME TypeOK, JobsFit, NEW r \in Requests, Act(r), ~Keeps(r), NEW o \in Orgs, Calm(o)'
  PROVE  Made(r, o)' = Made(r, o) /\ Withdrawn(r, o)' = Withdrawn(r, o)
<1> USE DEF TypeOK, Step
<1>0. Fits(r)
  BY DEF JobsFit
<1>1. CASE Asking(r)
  BY <1>1, AskIsFirst DEF Made, Withdrawn
<1>2. CASE TakesUp(r)
  BY <1>2, TakesUpForAll DEF Made, Withdrawn
<1>3. CASE Loses(r) /\ pc'[r] # pc[r]
  <2>1. job' = job /\ pc'[r] = "over" /\ Concerns(r) \subseteq drifted'
    BY <1>3 DEF Loses, OneFailed, Failing, Fail, RolesKept, CallFails, Concerns
  <2>2. ASSUME Made(r, o) \/ Withdrawn(r, o) PROVE FALSE
    <3>1. job[r].op \in WholeOrg /\ job[r].org = o
      BY <2>2 DEF Made, Withdrawn, WholeOrg
    <3>2. <<Founder, o>> \in Concerns(r)
      BY <3>1, ConstantsAssumption DEF Concerns
    <3> QED
      BY <2>1, <3>2, ConstantsAssumption DEF Calm
  <2>3. ~Made(r, o)' /\ ~Withdrawn(r, o)'
    BY <2>1 DEF Made, Withdrawn
  <2> QED
    BY <2>2, <2>3 DEF Made, Withdrawn
<1>4. CASE ~Asking(r) /\ ~TakesUp(r) /\ ~(Loses(r) /\ pc'[r] # pc[r])
  <2>0. job' = job
    BY <1>4, Untouched
  <2> DEFINE Reg(p)  == job[r].op \in {"register", "map"} /\ p \in {"owner", "calls", "store"}
             With(p) == job[r].op = "unregister" /\ p = "store"
  <2> SUFFICES Reg(pc'[r]) = Reg(pc[r]) /\ With(pc'[r]) = With(pc[r])
    BY <2>0 DEF Made, Withdrawn
  <2>1. CASE Checks(r)
    BY <1>0, <2>1 DEF Checks, CheckInvited, ReadInvitation, CountOrgs, ReadOrg, CheckMember, ReadUnregistered,
       AllSettled, Calling, Fits
  <2>2. CASE Refusals(r)
    BY <1>0, <2>2 DEF Refusals, InvitedAlready, InvitationClosed, LimitReached, InvitationGone,
       NotAMember, NothingToReplace, NewSecret, ClientExists, AllMapped, NoClient, Refuse, Fits
  <2>3. CASE Creates(r) \/ Writes(r) \/ GrantRole(r)
    BY <2>3 DEF Creates, CreateSendInvitation, Writes, Reject, Withdraw, Accept, StatusWritten, Settle, GrantRole
  <2>4. CASE Sends(r) \/ ClearRoles(r)
    BY <1>0, <2>4 DEF Sends, AcceptClient, ReplaceRows, Regrant, RegisterOwner, ClearRoles, Fits
  <2>5. CASE RowsDropped(r) \/ Maps(r)
    BY <2>5 DEF RowsDropped, Maps, RoleMapped, RolesUnmapped, Settle
  <2>6. CASE Loses(r) /\ pc'[r] = pc[r]
    BY <2>6
  <2> QED
    BY <1>4, <2>1, <2>2, <2>3, <2>4, <2>5, <2>6 DEF Act
<1> QED
  BY <1>1, <1>2, <1>3, <1>4

\* Nobody else is between the stores with the same organisation.
LEMMA AloneBetween ==
  ASSUME OneRegistration, NEW o \in Orgs, Calm(o), NEW r \in Underway, job[r].op \in WholeOrg, job[r].org = o,
         NEW s \in Requests \ {r}
  PROVE  ~Made(s, o) /\ ~Withdrawn(s, o)
<1> SUFFICES ASSUME Made(s, o) \/ Withdrawn(s, o) PROVE FALSE
  OBVIOUS
<1>1. s \in Underway /\ job[s].op \in WholeOrg /\ job[s].org = o
  BY DEF Made, Withdrawn, Underway, WholeOrg
<1> QED
  BY <1>1 DEF OneRegistration

LEMMA ClientsKnownStep ==
  TypeOK /\ JobsFit /\ OneRegistration /\ ClientsKnown /\ Next => ClientsKnown'
<1> SUFFICES ASSUME TypeOK, JobsFit, OneRegistration, ClientsKnown, Next PROVE ClientsKnown'
  OBVIOUS
<1> DEFINE Known(o) ==
      /\ \A r \in Requests : Made(r, o) => o \in clients /\ o \notin registered
      /\ \A r \in Requests : Withdrawn(r, o) => o \notin clients /\ o \in registered
      /\ (\A r \in Requests : ~Made(r, o) /\ ~Withdrawn(r, o)) => (o \in clients <=> o \in registered)
<1> SUFFICES ASSUME NEW o \in Orgs, Calm(o)' PROVE Known(o)'
  BY DEF ClientsKnown
<1>0. Calm(o) => Known(o)
  BY DEF ClientsKnown
<1>1. ASSUME NEW r \in Requests, Act(r) PROVE Known(o)'
  <2>0. Known(o) /\ Calm(o)
    BY <1>0, <1>1, Untouched, CalmBefore
  <2>1. \A s \in Requests \ {r} : Made(s, o)' = Made(s, o) /\ Withdrawn(s, o)' = Withdrawn(s, o)
    BY <1>1, OthersStay DEF Made, Withdrawn
  <2>2. CASE ~Keeps(r)
    <3>1. \A s \in Requests : Made(s, o)' = Made(s, o) /\ Withdrawn(s, o)' = Withdrawn(s, o)
      BY <1>1, <2>1, <2>2, BetweenStays
    <3>2. registered' = registered /\ clients' = clients
      BY <1>1, <2>2, Untouched
    <3> QED
      BY <2>0, <3>1, <3>2
  <2>3. CASE Keeps(r) /\ job[r].org # o
    <3>1. job' = job /\ (o \in registered' <=> o \in registered) /\ (o \in clients' <=> o \in clients)
      BY <2>3 DEF Keeps, CreateClient, StoreClient, DeleteClient, ForgetClient, database, keycloak
    <3>2. Made(r, o)' = Made(r, o) /\ Withdrawn(r, o)' = Withdrawn(r, o)
      BY <2>3, <3>1 DEF Made, Withdrawn
    <3> QED
      BY <2>0, <2>1, <3>1, <3>2
  <2>4. CASE Keeps(r) /\ job[r].org = o
    <3>1. job' = job /\ r \in Underway /\ job[r].op \in WholeOrg
      BY <2>4 DEF Keeps, CreateClient, StoreClient, DeleteClient, ForgetClient, Step, Underway, WholeOrg,
         JobsFit, Fits
    <3>2. \A s \in Requests \ {r} : /\ ~Made(s, o) /\ ~Withdrawn(s, o)
                                    /\ ~Made(s, o)' /\ ~Withdrawn(s, o)'
      BY <2>0, <2>1, <2>4, <3>1, AloneBetween
    <3>3. CASE CreateClient(r)
      <4>1. ~Made(r, o) /\ ~Withdrawn(r, o) /\ o \notin clients
        BY <2>4, <3>3 DEF CreateClient, Step, Made, Withdrawn
      <4>2. o \notin registered
        BY <2>0, <3>2, <4>1
      <4>3. o \in clients' /\ o \notin registered' /\ ~Withdrawn(r, o)' /\ Made(r, o)'
        BY <2>4, <3>3, <4>2 DEF CreateClient, Step, TypeOK, Made, Withdrawn, database, JobsFit, Fits
      <4> QED
        BY <3>2, <4>3
    <3>4. CASE StoreClient(r)
      <4>1. Made(r, o)
        BY <2>4, <3>4 DEF StoreClient, Step, Made
      <4>2. o \in clients' /\ o \in registered' /\ ~Withdrawn(r, o)' /\ ~Made(r, o)'
        BY <2>0, <2>4, <3>4, <4>1 DEF StoreClient, Step, TypeOK, Made, Withdrawn, keycloak
      <4> QED
        BY <3>2, <4>2
    <3>5. CASE DeleteClient(r)
      <4>1. o \notin clients' /\ o \in registered' /\ Withdrawn(r, o)' /\ ~Made(r, o)'
        BY <2>4, <3>5 DEF DeleteClient, Step, TypeOK, Made, Withdrawn, database
      <4> QED
        BY <3>2, <4>1
    <3>6. CASE ForgetClient(r)
      <4>1. Withdrawn(r, o)
        BY <2>4, <3>6 DEF ForgetClient, Step, Withdrawn
      <4>2. o \notin clients' /\ o \notin registered' /\ ~Withdrawn(r, o)' /\ ~Made(r, o)'
        BY <2>0, <2>4, <3>6, <4>1 DEF ForgetClient, Step, TypeOK, Made, Withdrawn, keycloak
      <4> QED
        BY <3>2, <4>2
    <3> QED
      BY <2>4, <3>3, <3>4, <3>5, <3>6 DEF Keeps
  <2> QED
    BY <2>2, <2>3, <2>4
<1>2. ASSUME NEW x \in onTheWay, InsertRow(x) PROVE Known(o)'
  BY <1>0, <1>2 DEF InsertRow, Made, Withdrawn, Calm, keycloak
<1>3. CASE Crash
  <2>1. /\ registered' = registered /\ clients' = clients /\ drifted \subseteq drifted'
        /\ \A r \in Requests : ~Made(r, o)' /\ ~Withdrawn(r, o)'
    BY <1>3 DEF Crash, database, keycloak, Made, Withdrawn, Underway
  <2>2. ASSUME NEW r \in Requests, Made(r, o) \/ Withdrawn(r, o) PROVE FALSE
    <3>1. r \in Underway /\ job[r].op \in WholeOrg /\ job[r].org = o
      BY <2>2 DEF Made, Withdrawn, WholeOrg, Underway
    <3>2. <<Founder, o>> \in Concerns(r)
      BY <3>1, ConstantsAssumption DEF Concerns
    <3>3. Concerns(r) \subseteq drifted'
      <4>1. drifted' = drifted \cup (UNION {Concerns(q) : q \in Underway}) \cup {<<y.user, y.org>> : y \in onTheWay}
        BY <1>3 DEF Crash
      <4>2. Concerns(r) \subseteq UNION {Concerns(q) : q \in Underway}
        BY <3>1
      <4> QED
        BY <4>1, <4>2, Zenon
    <3> QED
      BY <3>2, <3>3, ConstantsAssumption DEF Calm
  <2> QED
    BY <1>0, <2>1, <2>2, CalmBefore
<1> QED
  BY <1>1, <1>2, <1>3, NextIsAct

-----------------------------------------------------------------------------
\* Nobody is in more organisations than the limit.

\* What a request accepts for, or gives again, it was asked for.
LEMMA SameWork ==
  ASSUME TypeOK, JobsFit, NEW r \in Requests, Act(r), ~Asking(r), NEW u
  PROVE  /\ Accepting(r, u)' => Accepting(r, u)
         /\ Rewrites(r, u)' => Rewrites(r, u)
         /\ job[r].op # "map" => job' = job
<1>1. job'[r].op = job[r].op
  BY JobStays
<1>2. job[r].op # "map" => ~TakesUp(r)
  BY DEF JobsFit, Fits, TakesUp, ReadAllUnregistered, SkipOrg, NextOrg, Remap, Step
<1>3. job[r].op # "map" => job' = job
  BY <1>2, Untouched
<1> QED
  BY <1>1, <1>3 DEF Accepting, Rewrites

\* Whoever sends rows of a user accepts for that user, or gives roles again.
LEMMA SendsFor ==
  ASSUME TypeOK, JobsFit, NEW r \in Requests, Act(r), Sends(r)
  PROVE  AcceptClient(r) \/ Rewrites(r, job[r].user)
BY DEF Sends, ReplaceRows, Regrant, RegisterOwner, Step, JobsFit, Fits, Rewrites

LEMMA AcceptsAloneStep == TypeOK /\ JobsFit /\ AcceptsAlone /\ Next => AcceptsAlone'
<1> SUFFICES ASSUME TypeOK, JobsFit, AcceptsAlone, Next PROVE AcceptsAlone'
  OBVIOUS
<1> DEFINE Alone(t) == /\ \A s \in Underway : Accepting(s, job[t].user) => s = t
                       /\ \A s \in Underway : ~Rewrites(s, job[t].user)
                       /\ \A x \in onTheWay : x.user = job[t].user => x.by = t
<1> SUFFICES ASSUME NEW t \in Requests, t \in Underway', job'[t].op = "accept", job'[t].user \notin rushed'
             PROVE  Alone(t)'
  BY DEF AcceptsAlone, Underway
<1>0. t \in Underway /\ job[t].op = "accept" /\ job[t].user \notin rushed => Alone(t)
  BY DEF AcceptsAlone
<1>1. ASSUME NEW r \in Requests, Act(r), ~Asking(r) PROVE Alone(t)'
  <2>0. r \in Underway /\ rushed' = rushed
    BY <1>1, Untouched, ActIsUnderway DEF Underway
  <2>1. t \in Underway /\ job'[t] = job[t]
    <3>1. CASE t = r
      BY <1>1, <2>0, <3>1, JobStays, SameWork
    <3>2. CASE t # r
      BY <1>1, <3>2, OthersStay DEF Underway
    <3> QED
      BY <3>1, <3>2
  <2> PICK u : u = job[t].user
    OBVIOUS
  <2>2. Alone(t)
    BY <1>0, <2>0, <2>1
  <2>3. ASSUME NEW s \in Requests, s \in Underway'
        PROVE  s \in Underway /\ (Accepting(s, u)' => Accepting(s, u)) /\ (Rewrites(s, u)' => Rewrites(s, u))
    <3>1. CASE s = r
      BY <1>1, <2>0, <3>1, SameWork
    <3>2. CASE s # r
      <4>1. pc'[s] = pc[s] /\ job'[s] = job[s]
        BY <1>1, <3>2, OthersStay
      <4> QED
        BY <2>3, <4>1 DEF Underway, Accepting, Rewrites
    <3> QED
      BY <3>1, <3>2
  <2>4. ASSUME NEW x \in onTheWay', x \notin onTheWay, x.user = u PROVE x.by = t
    <3>1. x \in NewRows(r) /\ Sends(r)
      BY <1>1, <2>4, OnlyReplaced, Untouched
    <3>2. x.by = r /\ job[r].user = u
      BY <2>4, <3>1 DEF NewRows
    <3>3. ~Rewrites(r, u)
      BY <2>0, <2>2
    <3>4. Accepting(r, u)
      BY <1>1, <3>1, <3>2, <3>3, SendsFor DEF AcceptClient, Accepting
    <3> QED
      BY <2>0, <2>2, <3>2, <3>4
  <2>5. /\ \A s \in Underway' : Accepting(s, u)' => s = t
        /\ \A s \in Underway' : ~Rewrites(s, u)'
        /\ \A x \in onTheWay' : x.user = u => x.by = t
    BY <2>2, <2>3, <2>4 DEF Underway
  <2>6. job'[t].user = u
    BY <2>1
  <2> QED
    BY <2>5, <2>6 DEF Accepting, Rewrites
<1>2. ASSUME NEW r \in Requests, Asking(r) PROVE Alone(t)'
  <2>0. Act(r) /\ rushed \subseteq rushed' /\ onTheWay' = onTheWay
    BY <1>2, Untouched, AskIsFirst DEF Act
  <2>1. \A s \in Requests \ {r} : pc'[s] = pc[s] /\ job'[s] = job[s]
    BY <2>0, OthersStay
  <2>2. \A s \in Requests \ {r} : s \in Underway' => s \in Underway
    BY <2>1 DEF Underway
  <2> PICK u : u = job'[t].user
    OBVIOUS
  <2>3. CASE t = r
    <3>1. PICK i : AskAnswer(r, i, "accept")
      <4>1. job'[r].op \notin {"invite", "update", "reject", "withdraw"} \cup WholeOrg
        BY <2>3 DEF WholeOrg
      <4> QED
        BY <1>2, <4>1, AskedFields DEF Asking
    <3>2. u = terms[i].user
      BY <2>3, <3>1, AskedFields
    <3>3. /\ ~\E s \in Underway : Accepting(s, u) \/ Rewrites(s, u)
          /\ ~\E x \in onTheWay : x.user = u
      BY <3>1, <3>2 DEF AskAnswer
    <3>4. \A s \in Requests \ {r} : s \in Underway' => ~Accepting(s, u)' /\ ~Rewrites(s, u)'
      BY <2>1, <2>2, <3>3 DEF Accepting, Rewrites
    <3>5. ~Rewrites(r, u)'
      BY <2>3 DEF Rewrites
    <3>6. /\ \A s \in Underway' : Accepting(s, u)' => s = t
          /\ \A s \in Underway' : ~Rewrites(s, u)'
          /\ \A x \in onTheWay' : x.user = u => x.by = t
      BY <2>0, <2>3, <3>3, <3>4, <3>5 DEF Underway
    <3> QED
      BY <3>6 DEF Accepting, Rewrites
  <2>4. CASE t # r
    <3>1. t \in Underway /\ job'[t] = job[t] /\ Alone(t) /\ Accepting(t, u)
      BY <1>0, <2>0, <2>1, <2>2, <2>4 DEF Accepting
    <3>2. ~Accepting(r, u)'
      <4> SUFFICES ASSUME job'[r].op = "accept", job'[r].user = u PROVE FALSE
        BY DEF Accepting
      <4>1. PICK i : AskAnswer(r, i, "accept")
        <5>1. job'[r].op \notin {"invite", "update", "reject", "withdraw"} \cup WholeOrg
          BY DEF WholeOrg
        <5> QED
          BY <1>2, <5>1, AskedFields DEF Asking
      <4>2. terms[i].user = u
        BY <4>1, AskedFields
      <4> QED
        BY <3>1, <4>1, <4>2 DEF AskAnswer
    <3>3. ~Rewrites(r, u)'
      <4>1. ASSUME job'[r].op = "update", job'[r].user = u PROVE FALSE
        <5>1. PICK o, q : AskUpdate(r, u, o, q)
          <6>1. job'[r].op \notin {"invite", "accept", "reject", "withdraw"} \cup WholeOrg
            BY <4>1 DEF WholeOrg
          <6> QED
            BY <1>2, <4>1, <6>1, AskedFields DEF Asking
        <5> QED
          BY <3>1, <5>1 DEF AskUpdate
      <4>2. ASSUME job'[r].op = "map" \/ (job'[r].op = "register" /\ job'[r].user = u) PROVE FALSE
        <5>1. PICK op, v, o : AskWholeOrg(r, op, v, o)
          <6>1. job'[r].op \notin {"invite", "update", "accept", "reject", "withdraw"}
            BY <4>2
          <6> QED
            BY <1>2, <6>1, AskedFields DEF Asking
        <5>2. op = "map" \/ (op = "register" /\ v = u)
          BY <4>2, <5>1, AskedFields
        <5>3. u \in Users
          <6>1. job[t] \in Job
            BY JobTyped
          <6> QED
            BY <3>1, <6>1 DEF Job
        <5> QED
          BY <3>1, <5>1, <5>2, <5>3 DEF AskWholeOrg
      <4> QED
        BY <4>1, <4>2 DEF Rewrites
    <3>4. \A s \in Requests \ {r} : s \in Underway' => (Accepting(s, u)' => s = t) /\ ~Rewrites(s, u)'
      BY <2>1, <2>2, <3>1 DEF Accepting, Rewrites
    <3>5. /\ \A s \in Underway' : Accepting(s, u)' => s = t
          /\ \A s \in Underway' : ~Rewrites(s, u)'
          /\ \A x \in onTheWay' : x.user = u => x.by = t
      BY <2>0, <3>1, <3>2, <3>3, <3>4 DEF Underway
    <3> QED
      BY <3>5 DEF Accepting, Rewrites
  <2> QED
    BY <2>3, <2>4
<1>3. ASSUME NEW x \in onTheWay, InsertRow(x) PROVE Alone(t)'
  BY <1>0, <1>3 DEF InsertRow, Underway, Accepting, Rewrites
<1>4. CASE Crash
  BY <1>4 DEF Crash, Underway
<1> QED
  BY <1>1, <1>2, <1>3, <1>4, NextIsAct

\* There are finitely many organisations, so these can be counted.
LEMMA PotentialCounted ==
  ASSUME NEW u
  PROVE  /\ IsFiniteSet(Potential(u)) /\ Cardinality(Potential(u)) \in Nat
         /\ OrgsOf(u) \subseteq Potential(u)
<1>1. Potential(u) \subseteq Orgs /\ OrgsOf(u) \subseteq Potential(u)
  BY DEF Potential, OrgsOf
<1>2. IsFiniteSet(Potential(u))
  BY <1>1, FS_Subset, ConstantsAssumption
<1> QED
  BY <1>1, <1>2, FS_CardinalityType

\* What a request will give again is given already, or was to be given.
LEMMA RestoresBefore ==
  ASSUME TypeOK, JobsFit, NEW r \in Requests, Act(r), r \in Underway', NEW u, NEW o, Restores(r, u, o)'
  PROVE  RowsOf(u, o) # {} \/ (r \in Underway /\ Restores(r, u, o))
<1> USE DEF Step
<1>1. CASE Asking(r)
  <2>1. pc'[r] = "read" /\ job'[r].list = {}
    BY <1>1, AskIsFirst
  <2>2. job'[r].op = "register" /\ job'[r].user = u /\ job'[r].org = o
    BY <2>1 DEF Restores
  <2>3. PICK op, v, p : AskWholeOrg(r, op, v, p)
    BY <1>1, <2>2, AskedFields DEF Asking
  <2>4. v = u /\ p = o
    BY <2>2, <2>3, AskedFields
  <2> QED
    BY <2>3, <2>4 DEF AskWholeOrg, RolesOf
<1>2. CASE TakesUp(r)
  <2>0. /\ r \in Underway /\ job'[r].op = job[r].op /\ job[r].op = "map"
        /\ pc'[r] \in {"remap", "client", "roles", "clear"}
    BY <1>2, TakesUpForAll DEF Underway, TakesUp, ReadAllUnregistered, SkipOrg, NextOrg, Remap, JobsFit, Fits
  <2>1. CASE ReadAllUnregistered(r)
    <3>0. job'[r].list = {x \in rows : x.org \notin registered}
      BY <2>1, NextFields
    <3>1. job'[r].list \subseteq rows /\ pc'[r] = "remap"
      BY <2>1, <3>0 DEF ReadAllUnregistered, Step, TypeOK
    <3>2. \E x \in job'[r].list : x.user = u /\ x.org = o
      BY <2>0, <3>1 DEF Restores
    <3> QED
      BY <3>1, <3>2 DEF RowsOf
  <2>2. ASSUME NEW p, SkipOrg(r, p) PROVE Restores(r, u, o)
    <3>0. job'[r].list = {x \in job[r].list : x.org # p}
      BY <2>2, NextFields
    <3>1. job'[r].list \subseteq job[r].list /\ pc'[r] = "remap"
      BY <2>2, <3>0 DEF SkipOrg, Step, TypeOK
    <3> QED
      BY <2>0, <3>1 DEF Restores
  <2>3. ASSUME NEW x, NextOrg(r, x) PROVE Restores(r, u, o)
    <3>1. job'[r].list = job[r].list /\ job'[r].user = x.user /\ job'[r].org = x.org
      BY <2>3, NextFields
    <3>2. x \in job[r].list
      BY <2>3 DEF NextOrg
    <3> QED
      BY <2>0, <3>1, <3>2 DEF Restores
  <2>4. ASSUME NEW x, Remap(r, x) PROVE Restores(r, u, o)
    <3>1. job'[r].list = job[r].list \ {x} /\ job'[r].user = x.user /\ job'[r].org = job[r].org
      BY <2>4, NextFields
    <3>2. x \in job[r].list /\ x.org = job[r].org
      BY <2>4 DEF Remap
    <3> QED
      BY <2>0, <3>1, <3>2 DEF Restores
  <2> QED
    BY <1>2, <2>0, <2>1, <2>2, <2>3, <2>4 DEF TakesUp
<1>3. CASE ~Asking(r) /\ ~TakesUp(r)
  <2>0. job' = job /\ r \in Underway
    BY <1>3, Untouched, ActIsUnderway DEF Underway
  <2>1. CASE pc'[r] = pc[r]
    BY <2>0, <2>1 DEF Restores
  <2>2. CASE job[r].op = "update" /\ pc[r] = "read" /\ pc'[r] # pc[r]
    <3>1. CheckMember(r)
      <4> USE DEF TypeOK
      <4>1. ~Checks(r) \/ CheckMember(r)
        BY <2>2 DEF Checks, CheckInvited, ReadInvitation, CountOrgs, ReadOrg, ReadUnregistered, AllSettled, Calling
      <4>2. pc'[r] # "over"
        BY DEF Underway
      <4>3. ~Refusals(r) /\ ~Loses(r)
        BY <2>2, <4>2 DEF Refusals, InvitedAlready, InvitationClosed, LimitReached, InvitationGone, NotAMember,
           NothingToReplace, NewSecret, ClientExists, AllMapped, NoClient, Refuse, Loses, OneFailed, Failing,
           Fail, RolesKept, CallFails
      <4>4. ~Creates(r) /\ ~Writes(r) /\ ~GrantRole(r) /\ ~Sends(r) /\ ~ClearRoles(r)
        BY <2>2 DEF Creates, CreateSendInvitation, Writes, Reject, Withdraw, Accept, StatusWritten, Settle,
           GrantRole, Sends, AcceptClient, ReplaceRows, Regrant, RegisterOwner, ClearRoles
      <4>5. ~RowsDropped(r) /\ ~Maps(r) /\ ~Keeps(r)
        BY <2>2 DEF RowsDropped, Maps, RoleMapped, RolesUnmapped, Settle, Keeps, CreateClient, StoreClient,
           DeleteClient, ForgetClient
      <4> QED
        BY <1>3, <4>1, <4>3, <4>4, <4>5 DEF Act
    <3>2. job[r].user = u /\ job[r].org = o
      BY <2>0, <2>2 DEF Restores
    <3> QED
      BY <3>1, <3>2 DEF CheckMember
  <2>3. CASE job[r].op = "map" /\ pc[r] \in {"read", "remap"} /\ pc'[r] # pc[r]
    <3> USE DEF TypeOK
    <3>0. pc'[r] # "over"
      BY DEF Underway
    <3>1. ~Checks(r) /\ ~Refusals(r) /\ ~Loses(r)
      BY <2>3, <3>0 DEF Checks, CheckInvited, ReadInvitation, CountOrgs, ReadOrg, CheckMember, ReadUnregistered,
         AllSettled, Calling, Refusals, InvitedAlready, InvitationClosed, LimitReached, InvitationGone,
         NotAMember, NothingToReplace, NewSecret, ClientExists, AllMapped, NoClient, Refuse, Loses, OneFailed,
         Failing, Fail, RolesKept, CallFails
    <3>2. ~Creates(r) /\ ~Writes(r) /\ ~GrantRole(r) /\ ~Sends(r) /\ ~ClearRoles(r)
      BY <2>3 DEF Creates, CreateSendInvitation, Writes, Reject, Withdraw, Accept, StatusWritten, Settle,
         GrantRole, Sends, AcceptClient, ReplaceRows, Regrant, RegisterOwner, ClearRoles
    <3>3. ~RowsDropped(r) /\ ~Maps(r) /\ ~Keeps(r)
      BY <2>3 DEF RowsDropped, Maps, RoleMapped, RolesUnmapped, Settle, Keeps, CreateClient, StoreClient,
         DeleteClient, ForgetClient
    <3> QED
      BY <1>3, <3>1, <3>2, <3>3 DEF Act
  <2>4. CASE ~(job[r].op = "update" /\ pc[r] = "read") /\ ~(job[r].op = "map" /\ pc[r] \in {"read", "remap"})
    BY <2>0, <2>4 DEF Restores
  <2> QED
    BY <2>1, <2>2, <2>3, <2>4
<1> QED
  BY <1>1, <1>2, <1>3

\* Where a user is or will be again is where the user was or was to be, or what
\* the request gives the user on an acceptance.
Grants(r) == GrantRole(r) \/ AcceptClient(r)

LEMMA PotentialStep ==
  ASSUME TypeOK, JobsFit, Next, NEW u, NEW o \in Potential(u)'
  PROVE  o \in Potential(u) \/ \E r \in Requests : Grants(r) /\ job[r].user = u /\ job[r].org = o
<1>0. o \in Orgs
  BY DEF Potential
<1>1. ASSUME NEW r \in Requests, Act(r), ~(Grants(r) /\ job[r].user = u /\ job[r].org = o)
      PROVE  o \in Potential(u)
  <2>1. CASE RowsOf(u, o)' # {}
    <3>1. PICK x \in rows' : x.user = u /\ x.org = o
      BY <2>1 DEF RowsOf
    <3>2. x \in rows
      BY <1>1, <3>1, OnlyReplaced DEF Grants, NewRows
    <3> QED
      BY <1>0, <3>1, <3>2 DEF Potential, RowsOf
  <2>2. CASE Arriving(u, o)'
    <3>1. PICK x \in onTheWay' : x.user = u /\ x.org = o
      BY <2>2 DEF Arriving
    <3>2. CASE x \in onTheWay
      BY <1>0, <3>1, <3>2 DEF Potential, Arriving
    <3>3. CASE x \notin onTheWay
      <4>1. Sends(r) /\ job[r].user = u /\ job[r].org = o
        BY <1>1, <3>1, <3>3, OnlyReplaced, Untouched DEF NewRows
      <4>2. r \in Underway /\ Restores(r, u, o)
        BY <1>1, <4>1 DEF Sends, Grants, ReplaceRows, Regrant, RegisterOwner, Step, JobsFit, Fits, Restores,
           Underway
      <4> QED
        BY <1>0, <4>2 DEF Potential
    <3> QED
      BY <3>2, <3>3
  <2>3. ASSUME NEW s \in Requests, s \in Underway', Restores(s, u, o)' PROVE o \in Potential(u)
    <3>1. CASE s = r
      BY <1>0, <1>1, <2>3, <3>1, RestoresBefore DEF Potential
    <3>2. CASE s # r
      <4>1. pc'[s] = pc[s] /\ job'[s] = job[s]
        BY <1>1, <3>2, OthersStay
      <4>2. s \in Underway /\ Restores(s, u, o)
        BY <2>3, <4>1 DEF Underway, Restores
      <4> QED
        BY <1>0, <4>2 DEF Potential
    <3> QED
      BY <3>1, <3>2
  <2> QED
    BY <2>1, <2>2, <2>3 DEF Potential, Underway
<1>2. ASSUME NEW x \in onTheWay, InsertRow(x) PROVE o \in Potential(u)
  <2>1. rows' = rows \cup {x} /\ onTheWay' \subseteq onTheWay /\ pc' = pc /\ job' = job
    BY <1>2 DEF InsertRow
  <2>2. RowsOf(u, o)' # {} => RowsOf(u, o) # {} \/ Arriving(u, o)
    BY <2>1 DEF RowsOf, Arriving
  <2>3. Arriving(u, o)' => Arriving(u, o)
    BY <2>1 DEF Arriving
  <2>4. \A r \in Requests : r \in Underway' /\ Restores(r, u, o)' => r \in Underway /\ Restores(r, u, o)
    BY <2>1 DEF Underway, Restores
  <2> QED
    BY <1>0, <2>2, <2>3, <2>4 DEF Potential, Underway
<1>3. CASE Crash
  <2>1. rows' = rows /\ onTheWay' = {} /\ Underway' = {}
    BY <1>3 DEF Crash, database, Underway
  <2> QED
    BY <1>0, <2>1 DEF Potential, RowsOf, Arriving
<1> QED
  BY <1>1, <1>2, <1>3, NextIsAct

\* An acceptance that has its place has counted.
LEMMA CountedBefore ==
  ASSUME TypeOK, JobsFit, NEW r \in Requests, Act(r), ~Asking(r), job[r].op = "accept",
         pc'[r] \in {"details", "write", "change", "grant"}
  PROVE  CountOrgs(r) \/ pc[r] \in {"details", "write", "change", "grant"}
<1> USE DEF TypeOK
<1>1. ReadInvitation(r) \/ pc[r] \in {"count", "details", "change", "write", "grant"}
  BY AcceptPlaces DEF Accept, Step
<1>2. ~ReadInvitation(r)
  BY DEF ReadInvitation, Step
<1>3. CASE pc[r] = "count"
  <2>1. ~Checks(r) \/ CountOrgs(r)
    BY <1>3 DEF Checks, CheckInvited, ReadInvitation, ReadOrg, CheckMember, ReadUnregistered, AllSettled,
       Calling, Step
  <2>2. ~Refusals(r) /\ ~Loses(r)
    BY <1>3 DEF Refusals, InvitedAlready, InvitationClosed, LimitReached, InvitationGone, NotAMember,
       NothingToReplace, NewSecret, ClientExists, AllMapped, NoClient, Refuse, Loses, OneFailed, Failing,
       Fail, RolesKept, CallFails, Calling, Step
  <2>3. ~Creates(r) /\ ~Writes(r) /\ ~GrantRole(r) /\ ~Sends(r) /\ ~ClearRoles(r)
    BY <1>3 DEF Creates, CreateSendInvitation, Writes, Reject, Withdraw, Accept, StatusWritten, Settle,
       GrantRole, Sends, AcceptClient, ReplaceRows, Regrant, RegisterOwner, ClearRoles, Calling, Step
  <2>4. ~RowsDropped(r) /\ ~Maps(r) /\ ~Keeps(r)
    BY <1>3 DEF RowsDropped, Maps, RoleMapped, RolesUnmapped, Settle, Keeps, CreateClient, StoreClient,
       DeleteClient, ForgetClient, Calling, Step
  <2>5. ~TakesUp(r)
    BY <1>3, TakesUpForAll
  <2> QED
    BY <2>1, <2>2, <2>3, <2>4, <2>5 DEF Act
<1> QED
  BY <1>1, <1>2, <1>3

\* Who grants, accepts.
LEMMA GrantsAccepts ==
  ASSUME TypeOK, JobsFit, NEW r \in Requests, Grants(r)
  PROVE  r \in Underway /\ job[r].op = "accept" /\ pc[r] \in {"grant", "change"}
BY DEF Grants, GrantRole, AcceptClient, Step, JobsFit, Fits, Underway

\* An acceptance that counts finds all organisations its user will be in.
LEMMA AllAreCounted ==
  ASSUME TypeOK, RowsFit, AcceptsAlone, NEW r \in Underway, job[r].op = "accept", job[r].user \notin rushed,
         pc[r] = "count"
  PROVE  Potential(job[r].user) \subseteq OrgsOf(job[r].user)
<1>1. r \in Requests
  BY DEF Underway
<1>2. ASSUME NEW o, Arriving(job[r].user, o) PROVE FALSE
  <2>1. PICK x \in onTheWay : x.user = job[r].user
    BY <1>2 DEF Arriving
  <2>2. x.by = r
    BY <2>1 DEF AcceptsAlone
  <2> QED
    BY <1>1, <2>1, <2>2 DEF RowsFit
<1>3. ASSUME NEW o, NEW s \in Underway, Restores(s, job[r].user, o) PROVE FALSE
  <2>1. Rewrites(s, job[r].user)
    BY <1>3 DEF Restores, Rewrites
  <2> QED
    BY <2>1 DEF AcceptsAlone
<1> QED
  BY <1>2, <1>3 DEF Potential, OrgsOf

LEMMA RoomForOneStep ==
  TypeOK /\ JobsFit /\ RowsFit /\ AcceptsAlone /\ RoomForOne /\ Next => RoomForOne'
<1> SUFFICES ASSUME TypeOK, JobsFit, RowsFit, AcceptsAlone, RoomForOne, Next,
                    NEW t \in Underway', job'[t].op = "accept", job'[t].user \notin rushed',
                    pc'[t] \in {"details", "write", "change", "grant"}
             PROVE  Cardinality(Potential(job[t].user)' \ {job'[t].org}) < Limit
  BY DEF RoomForOne, Underway
<1>0. t \in Requests
  BY DEF Underway
<1>1. /\ job'[t] = job[t] /\ rushed \subseteq rushed'
      /\ CountOrgs(t) \/ pc[t] \in {"details", "write", "change", "grant"}
  <2>1. ASSUME NEW r \in Requests, Act(r)
        PROVE  /\ job'[t] = job[t] /\ rushed \subseteq rushed'
               /\ CountOrgs(t) \/ pc[t] \in {"details", "write", "change", "grant"}
    <3>1. CASE t = r
      <4>1. ~Asking(r)
        BY <3>1, AskIsFirst
      <4>2. job[r].op = "accept"
        BY <1>0, <2>1, <3>1, <4>1, JobStays
      <4> QED
        BY <2>1, <3>1, <4>1, <4>2, AcceptPlaces, CountedBefore, Untouched
    <3>2. CASE t # r
      BY <1>0, <2>1, <3>2, OthersStay, Untouched
    <3> QED
      BY <3>1, <3>2
  <2>2. ASSUME NEW x \in onTheWay, InsertRow(x) PROVE job' = job /\ pc' = pc /\ rushed' = rushed
    BY <2>2 DEF InsertRow
  <2>3. ~Crash
    BY <1>0 DEF Crash, Underway, TypeOK
  <2> QED
    BY <2>1, <2>2, <2>3, NextIsAct
<1>2. PICK u : u = job[t].user
  OBVIOUS
<1>3. /\ t \in Underway /\ job[t].op = "accept" /\ u \notin rushed
  BY <1>0, <1>1, <1>2 DEF Underway, CountOrgs, Step
<1>4. Potential(u)' \ {job[t].org} \subseteq Potential(u)
  <2> SUFFICES ASSUME NEW o \in Potential(u)', o # job[t].org PROVE o \in Potential(u)
    OBVIOUS
  <2>1. CASE \E r \in Requests : Grants(r) /\ job[r].user = u /\ job[r].org = o
    <3>1. PICK r \in Requests : Grants(r) /\ job[r].user = u /\ job[r].org = o
      BY <2>1
    <3>2. r \in Underway /\ Accepting(r, u)
      BY <3>1, GrantsAccepts DEF Accepting
    <3>3. r = t
      BY <1>2, <1>3, <3>2 DEF AcceptsAlone
    <3> QED
      BY <3>1, <3>3
  <2> QED
    BY <2>1, PotentialStep
<1>5. Cardinality(Potential(u) \ {job[t].org}) < Limit
  <2>1. CASE CountOrgs(t)
    <3>1. pc[t] = "count" /\ Cardinality(OrgsOf(u)) < Limit
      BY <1>2, <2>1 DEF CountOrgs, Step
    <3>2. Potential(u) \subseteq OrgsOf(u)
      BY <1>2, <1>3, <3>1, AllAreCounted
    <3>3. OrgsOf(u) = Potential(u)
      BY <3>2, PotentialCounted
    <3>4. Cardinality(Potential(u) \ {job[t].org}) <= Cardinality(Potential(u))
      BY PotentialCounted, FS_Subset
    <3>5. Cardinality(Potential(u) \ {job[t].org}) \in Nat
      BY PotentialCounted, FS_Subset, FS_CardinalityType
    <3> QED
      BY <3>1, <3>3, <3>4, <3>5, PotentialCounted, ConstantsAssumption
  <2> QED
    BY <1>1, <1>2, <1>3, <2>1 DEF RoomForOne
<1>6. /\ IsFiniteSet(Potential(u) \ {job[t].org})
      /\ Cardinality(Potential(u) \ {job[t].org}) \in Nat
  BY PotentialCounted, FS_Subset, FS_CardinalityType
<1>7. Potential(u)' \ {job[t].org} \subseteq Potential(u) \ {job[t].org}
  BY <1>4
<1>8. /\ Cardinality(Potential(u)' \ {job[t].org}) \in Nat
      /\ Cardinality(Potential(u)' \ {job[t].org}) <= Cardinality(Potential(u) \ {job[t].org})
  BY <1>6, <1>7, FS_Subset, FS_CardinalityType
<1> QED
  BY <1>1, <1>2, <1>5, <1>6, <1>8, ConstantsAssumption

\* Nobody is to be in more organisations than the limit allows, who accepts one
\* invitation at a time.
LEMMA WithinLimitStep ==
  TypeOK /\ JobsFit /\ AcceptsAlone /\ RoomForOne /\ WithinLimit /\ Next => WithinLimit'
<1> SUFFICES ASSUME TypeOK, JobsFit, AcceptsAlone, RoomForOne, WithinLimit, Next,
                    NEW u \in Users \ {Founder}, u \notin rushed'
             PROVE  Cardinality(Potential(u)') <= Limit
  BY DEF WithinLimit
<1>0. u \notin rushed
  <2>1. ASSUME NEW r \in Requests, Act(r) PROVE rushed \subseteq rushed'
    BY <2>1, Untouched
  <2>2. (\E x \in onTheWay : InsertRow(x)) \/ Crash => rushed' = rushed
    BY DEF InsertRow, Crash
  <2> QED
    BY <2>1, <2>2, NextIsAct
<1>1. CASE \E r \in Requests : Grants(r) /\ job[r].user = u
  <2>1. PICK r \in Requests : Grants(r) /\ job[r].user = u
    BY <1>1
  <2>2. r \in Underway /\ job[r].op = "accept" /\ pc[r] \in {"grant", "change"}
    BY <2>1, GrantsAccepts
  <2>3. PICK o : o = job[r].org
    OBVIOUS
  <2> DEFINE Rest == Potential(u) \ {o}
  <2>4. Cardinality(Rest) < Limit
    BY <1>0, <2>1, <2>2, <2>3 DEF RoomForOne
  <2>5. IsFiniteSet(Rest) /\ Cardinality(Rest) \in Nat /\ o \notin Rest
    BY PotentialCounted, FS_Subset, FS_CardinalityType
  <2>6. Potential(u)' \subseteq Rest \cup {o}
    <3> SUFFICES ASSUME NEW p \in Potential(u)', p # o PROVE p \in Potential(u)
      OBVIOUS
    <3>1. CASE \E s \in Requests : Grants(s) /\ job[s].user = u /\ job[s].org = p
      <4>1. PICK s \in Requests : Grants(s) /\ job[s].user = u /\ job[s].org = p
        BY <3>1
      <4>2. s \in Underway /\ Accepting(s, u)
        BY <4>1, GrantsAccepts DEF Accepting
      <4>3. s = r
        BY <1>0, <2>1, <2>2, <4>2 DEF AcceptsAlone
      <4> QED
        BY <2>3, <4>1, <4>3
    <3> QED
      BY <3>1, PotentialStep
  <2> HIDE DEF Rest
  <2>7. IsFiniteSet(Rest \cup {o}) /\ Cardinality(Rest \cup {o}) = Cardinality(Rest) + 1
    BY <2>5, FS_AddElement
  <2>8. Cardinality(Potential(u)') \in Nat /\ Cardinality(Potential(u)') <= Cardinality(Rest \cup {o})
    BY <2>6, <2>7, FS_Subset, FS_CardinalityType
  <2> QED
    BY <2>4, <2>5, <2>7, <2>8, ConstantsAssumption
<1>2. CASE ~\E r \in Requests : Grants(r) /\ job[r].user = u
  <2>1. Potential(u)' \subseteq Potential(u)
    BY <1>2, PotentialStep
  <2>2. Cardinality(Potential(u)') \in Nat /\ Cardinality(Potential(u)') <= Cardinality(Potential(u))
    BY <2>1, PotentialCounted, FS_Subset, FS_CardinalityType
  <2>3. Cardinality(Potential(u)) <= Limit
    BY <1>0 DEF WithinLimit
  <2> QED
    BY <2>2, <2>3, PotentialCounted, ConstantsAssumption
<1> QED
  BY <1>1, <1>2

-----------------------------------------------------------------------------
\* Keycloak and the database say the same of a member.

\* What the sets of a pair are made of.
LEMMA SetsStay ==
  /\ rows' = rows /\ onTheWay' = onTheWay => \A u, o : Promised(u, o)' = Promised(u, o) /\ Sent(u, o)' = Sent(u, o)
  /\ mapped' = mapped => \A u, o : MappedTo(u, o)' = MappedTo(u, o)
BY DEF Promised, Sent, RowsAhead, RowsSent, MappedTo

\* Mappings are changed by few steps.
LEMMA MappedStays == ASSUME NEW r \in Requests, Act(r), ~Maps(r), ~DeleteClient(r) PROVE mapped' = mapped
<1> USE DEF database, keycloak
<1>1. CASE Asking(r)
  BY <1>1 DEF Asking, AskInvite, AskUpdate, AskAnswer, AskWithdraw, AskWholeOrg, Ask
<1>2. CASE Checks(r)
  BY <1>2 DEF Checks, CheckInvited, ReadInvitation, CountOrgs, ReadOrg, CheckMember, ReadUnregistered,
              AllSettled
<1>3. CASE Refusals(r)
  BY <1>3 DEF Refusals, InvitedAlready, InvitationClosed, LimitReached, InvitationGone, NotAMember,
              NothingToReplace, NewSecret, ClientExists, AllMapped, NoClient, Refuse
<1>4. CASE Creates(r) \/ Writes(r) \/ GrantRole(r)
  BY <1>4 DEF Creates, CreateSendInvitation, Writes, Reject, Withdraw, Accept, StatusWritten, GrantRole
<1>5. CASE Sends(r) \/ ClearRoles(r) \/ RowsDropped(r)
  BY <1>5 DEF Sends, AcceptClient, ReplaceRows, Regrant, RegisterOwner, ClearRoles, RowsDropped
<1>6. CASE TakesUp(r)
  BY <1>6 DEF TakesUp, ReadAllUnregistered, SkipOrg, NextOrg, Remap
<1>7. CASE Keeps(r)
  BY <1>7 DEF Keeps, CreateClient, StoreClient, ForgetClient
<1>8. CASE Loses(r)
  BY <1>8 DEF Loses, OneFailed, Failing, Fail, RolesKept, CallFails
<1> QED
  BY <1>1, <1>2, <1>3, <1>4, <1>5, <1>6, <1>7, <1>8 DEF Act

\* Rows and mappings change for the pair of the request that changes them, except
\* that a client takes all its mappings along.
LEMMA OtherPairs ==
  ASSUME TypeOK, NEW r \in Requests, Act(r), ~Asking(r), NEW u, NEW o, <<u, o>> # Pair(r)
  PROVE  /\ Promised(u, o)' = Promised(u, o) /\ Sent(u, o)' = Sent(u, o)
         /\ ~DeleteClient(r) => MappedTo(u, o)' = MappedTo(u, o)
<1>0. \A x \in NewRows(r) : <<x.user, x.org>> = Pair(r)
  BY DEF NewRows, Pair
<1>1. \A x : x.user = u /\ x.org = o => x \notin RowsOf(job[r].user, job[r].org) /\ x \notin NewRows(r)
  BY <1>0 DEF RowsOf, Pair
<1>2. \A x : x.user = u /\ x.org = o => (x \in rows' <=> x \in rows) /\ (x \in onTheWay' <=> x \in onTheWay)
  <2>1. CASE GrantRole(r)
    <3>1. onTheWay' = onTheWay /\ (rows' = rows \/ \E y \in NewRows(r) : rows' = rows \cup {y})
      BY <2>1 DEF GrantRole
    <3> QED
      BY <1>1, <3>1
  <2>2. CASE ReplaceRows(r)
    BY <1>1, <2>2 DEF ReplaceRows
  <2>3. CASE RowsDropped(r)
    BY <1>1, <2>3 DEF RowsDropped, Settle
  <2>4. CASE Sends(r) /\ ~ReplaceRows(r)
    BY <1>1, <2>4 DEF Sends, AcceptClient, Regrant, RegisterOwner, database
  <2>5. CASE ~GrantRole(r) /\ ~ReplaceRows(r) /\ ~RowsDropped(r) /\ ~Sends(r)
    BY <2>5, Untouched
  <2> QED
    BY <2>1, <2>2, <2>3, <2>4, <2>5
<1>3. RowsAhead(u, o)' = RowsAhead(u, o) /\ RowsSent(u, o)' = RowsSent(u, o)
  BY <1>2 DEF RowsAhead, RowsSent
<1>4. ~DeleteClient(r) => MappedTo(u, o)' = MappedTo(u, o)
  <2>1. CASE RoleMapped(r) \/ RolesUnmapped(r)
    <3>1. \A q \in Roles : <<u, o, q>> \in mapped' <=> <<u, o, q>> \in mapped
      BY <2>1 DEF RoleMapped, RolesUnmapped, Pair
    <3> QED
      BY <3>1 DEF MappedTo
  <2>2. CASE ~Maps(r) /\ ~DeleteClient(r)
    <3>1. mapped' = mapped
      BY <2>2, MappedStays
    <3> QED
      BY <3>1, SetsStay
  <2> QED
    BY <2>1, <2>2 DEF Maps
<1> QED
  BY <1>3, <1>4 DEF Promised, Sent

\* What a request sends, drops, maps and unmaps of its own pair.
LEMMA OwnSends ==
  ASSUME NEW r \in Requests, AcceptClient(r) \/ Regrant(r) \/ RegisterOwner(r), NEW u, NEW o, <<u, o>> = Pair(r)
  PROVE  /\ Promised(u, o)' = Promised(u, o) \cup job[r].roles /\ Sent(u, o)' = Sent(u, o) \cup job[r].roles
         /\ MappedTo(u, o)' = MappedTo(u, o)
<1>0. rows' = rows /\ onTheWay' = onTheWay \cup NewRows(r) /\ mapped' = mapped
  BY DEF AcceptClient, Regrant, RegisterOwner, database, keycloak
<1>1. \A x \in NewRows(r) : x.user = u /\ x.org = o /\ x.role \in job[r].roles
  BY DEF NewRows, Pair
<1>2. ASSUME NEW q \in job[r].roles PROVE \E x \in NewRows(r) : x.role = q
  <2>1. [user |-> job[r].user, org |-> job[r].org, role |-> q, by |-> r] \in NewRows(r)
    BY DEF NewRows
  <2> QED
    BY <2>1
<1>3. RowsAhead(u, o)' = RowsAhead(u, o) \cup NewRows(r) /\ RowsSent(u, o)' = RowsSent(u, o) \cup NewRows(r)
  BY <1>0, <1>1 DEF RowsAhead, RowsSent
<1> HIDE <1>0
<1>4. Promised(u, o)' = Promised(u, o) \cup job[r].roles
  BY <1>1, <1>2, <1>3 DEF Promised
<1>5. Sent(u, o)' = Sent(u, o) \cup job[r].roles
  BY <1>1, <1>2, <1>3 DEF Sent
<1> QED
  BY <1>0, <1>4, <1>5, SetsStay

\* What is on its way outlives a deletion of rows.
LEMMA OwnDrops ==
  ASSUME NEW r \in Requests, RowsDropped(r), NEW u, NEW o, <<u, o>> = Pair(r)
  PROVE  Promised(u, o)' = Sent(u, o) /\ Sent(u, o)' = Sent(u, o) /\ MappedTo(u, o)' = MappedTo(u, o)
<1>0. rows' = rows \ RowsOf(u, o) /\ onTheWay' = onTheWay /\ mapped' = mapped
  BY DEF RowsDropped, Settle, Pair, keycloak
<1>1. RowsAhead(u, o)' = RowsSent(u, o) /\ RowsSent(u, o)' = RowsSent(u, o)
  BY <1>0 DEF RowsAhead, RowsSent, RowsOf
<1> QED
  BY <1>0, <1>1, SetsStay DEF Promised, Sent

\* Mappings are made for the roles of the request, and dropped all together.
LEMMA OwnMaps ==
  ASSUME TypeOK, NEW r \in Requests, NEW u, NEW o, <<u, o>> = Pair(r)
  PROVE  /\ RoleMapped(r) => MappedTo(u, o)' = MappedTo(u, o) \cup job[r].roles
         /\ RolesUnmapped(r) => MappedTo(u, o)' = {}
         /\ Maps(r) => Promised(u, o)' = Promised(u, o) /\ Sent(u, o)' = Sent(u, o)
<1>0. job[r].roles \subseteq Roles
  BY JobTyped DEF Job
<1>1. RoleMapped(r) => MappedTo(u, o)' = MappedTo(u, o) \cup job[r].roles
  BY <1>0 DEF RoleMapped, MappedTo, Pair
<1>2. RolesUnmapped(r) => MappedTo(u, o)' = {}
  BY DEF RolesUnmapped, MappedTo
<1>3. Maps(r) => rows' = rows /\ onTheWay' = onTheWay
  BY DEF Maps, RoleMapped, RolesUnmapped, Settle, database
<1> QED
  BY <1>1, <1>2, <1>3, SetsStay

\* Most steps leave the stores as they are.
LEMMA SameSets ==
  ASSUME NEW r \in Requests, NEW u, NEW o,
         Checks(r) \/ Refusals(r) \/ Creates(r) \/ Writes(r) \/ ClearRoles(r) \/ TakesUp(r) \/ Loses(r)
         \/ CreateClient(r) \/ StoreClient(r) \/ ForgetClient(r)
  PROVE  Promised(u, o)' = Promised(u, o) /\ Sent(u, o)' = Sent(u, o) /\ MappedTo(u, o)' = MappedTo(u, o)
<1> USE DEF database, keycloak, history
<1> SUFFICES rows' = rows /\ onTheWay' = onTheWay /\ mapped' = mapped
  BY SetsStay
<1>2. CASE Checks(r)
  BY <1>2 DEF Checks, CheckInvited, ReadInvitation, CountOrgs, ReadOrg, CheckMember, ReadUnregistered,
              AllSettled
<1>3. CASE Refusals(r)
  BY <1>3 DEF Refusals, InvitedAlready, InvitationClosed, LimitReached, InvitationGone, NotAMember,
              NothingToReplace, NewSecret, ClientExists, AllMapped, NoClient, Refuse
<1>4. CASE Creates(r) \/ Writes(r) \/ ClearRoles(r)
  BY <1>4 DEF Creates, CreateSendInvitation, Writes, Reject, Withdraw, Accept, StatusWritten, SetStatus,
              Settle, ClearRoles
<1>5. CASE TakesUp(r)
  BY <1>5 DEF TakesUp, ReadAllUnregistered, SkipOrg, NextOrg, Remap
<1>6. CASE Loses(r)
  BY <1>6 DEF Loses, OneFailed, Failing, Fail, RolesKept, CallFails
<1>7. CASE CreateClient(r) \/ StoreClient(r) \/ ForgetClient(r)
  BY <1>7 DEF CreateClient, StoreClient, ForgetClient
<1> QED
  BY <1>2, <1>3, <1>4, <1>5, <1>6, <1>7

-----------------------------------------------------------------------------
\* A request about one member.

\* Losses mark the pair.
LEMMA LossesShow ==
  ASSUME TypeOK, NEW r \in Requests, Loses(r)
  PROVE  /\ Pair(r) \in drifted'
         /\ pc'[r] # pc[r] => Concerns(r) \subseteq drifted' /\ pc'[r] = "over"
         /\ UNCHANGED <<database, keycloak, job, onTheWay>>
<1>0. Pair(r) \in Concerns(r)
  BY JobTyped DEF Concerns, Pair, Job
<1> QED
  BY <1>0 DEF Loses, OneFailed, Failing, Fail, RolesKept, CallFails, Concerns, TypeOK

\* Where a request goes on when its calls have settled.
LEMMA Settled ==
  ASSUME TypeOK, NEW r \in Requests, AllSettled(r)
  PROVE  \/ pc[r] = "calls" /\ job[r].op = "accept" /\ pc'[r] = "over"
         \/ pc[r] = "calls" /\ job[r].op # "accept" /\ pc'[r] = "store"
         \/ pc[r] = "clear" /\ pc'[r] = "roles"
         \/ pc[r] = "regrant" /\ job[r].op = "map" /\ pc'[r] = "remap"
         \/ pc[r] = "regrant" /\ job[r].op # "map" /\ pc'[r] = "over"
BY DEF AllSettled, Calling, TypeOK

\* Both stores change together, or only the rows when there is no client.
LEMMA MemberStageStep ==
  ASSUME TypeOK, JobsFit, CallsFit, NEW r \in Requests, Act(r), ~Asking(r), job[r].op \in {"accept", "update"},
         NEW u, NEW o, <<u, o>> = Pair(r), <<u, o>> \notin drifted', MemberStage(r, u, o)
  PROVE  IF pc'[r] = "over" THEN Even(u, o)' ELSE MemberStage(r, u, o)'
<1> USE DEF TypeOK, Step
<1>0. Fits(r) /\ CallsOf(r) /\ u = job[r].user /\ o = job[r].org
  BY DEF JobsFit, CallsFit, Pair
<1>1. ~TakesUp(r) /\ ~Loses(r) /\ ~Keeps(r) /\ ~RegisterOwner(r) /\ ~Creates(r)
  <2>1. ~Loses(r)
    BY LossesShow
  <2>2. ~TakesUp(r) /\ ~Keeps(r) /\ ~RegisterOwner(r) /\ ~Creates(r)
    BY <1>0 DEF Fits, TakesUp, ReadAllUnregistered, SkipOrg, NextOrg, Remap, Keeps, CreateClient, StoreClient,
                DeleteClient, ForgetClient, RegisterOwner, Creates, CreateSendInvitation
  <2> QED
    BY <2>1, <2>2
<1>2. job' = job /\ registered' = registered
  BY <1>1, Untouched
<1>3. CASE Checks(r)
  <2>1. Promised(u, o)' = Promised(u, o) /\ Sent(u, o)' = Sent(u, o) /\ MappedTo(u, o)' = MappedTo(u, o)
    BY <1>3, SameSets DEF Checks
  <2>2. left' = left /\ sound' = sound
    BY <1>3 DEF Checks, CheckInvited, ReadInvitation, CountOrgs, ReadOrg, CheckMember, ReadUnregistered,
                AllSettled
  <2>3. CASE AllSettled(r)
    <3>1. \/ pc[r] \in {"calls", "regrant"} /\ pc'[r] = "over"
          \/ pc[r] = "clear" /\ pc'[r] = "roles"
      BY <1>0, <2>3, Settled DEF Fits
    <3>2. left[r] = {} /\ sound[r]
      BY <2>3 DEF AllSettled
    <3>3. CASE pc[r] \in {"calls", "regrant"} /\ pc'[r] = "over"
      <4>1. Granting(r) = {}
        BY <3>2 DEF Granting
      <4>2. Promised(u, o) = MappedTo(u, o)
        BY <3>3, <4>1 DEF MemberStage
      <4> QED
        BY <2>1, <3>3, <4>2 DEF Even
    <3>4. CASE pc[r] = "clear" /\ pc'[r] = "roles"
      <4>1. Sent(u, o) = {} /\ MappedTo(u, o) = {} /\ Promised(u, o) = {}
        BY <3>2, <3>4 DEF MemberStage
      <4> QED
        BY <2>1, <3>4, <4>1 DEF MemberStage
    <3> QED
      BY <3>1, <3>3, <3>4
  <2>4. CASE ~AllSettled(r)
    BY <1>0, <1>2, <1>3, <2>1, <2>2, <2>4 DEF Checks, CheckInvited, ReadInvitation, CountOrgs, ReadOrg,
       CheckMember, ReadUnregistered, MemberStage, Even, AtRest
  <2> QED
    BY <2>3, <2>4
<1>4. CASE Refusals(r)
  <2>1. Promised(u, o)' = Promised(u, o) /\ MappedTo(u, o)' = MappedTo(u, o)
    BY <1>4, SameSets
  <2>2. pc[r] \in {"read", "count", "write"} /\ pc'[r] = "over"
    BY <1>0, <1>4 DEF Refusals, InvitedAlready, InvitationClosed, LimitReached, InvitationGone, NotAMember,
       NothingToReplace, NewSecret, ClientExists, AllMapped, NoClient, Refuse, Fits
  <2> QED
    BY <1>0, <1>2, <2>1, <2>2 DEF MemberStage, Even, AtRest
<1>5. CASE Writes(r) \/ ClearRoles(r)
  <2>1. Promised(u, o)' = Promised(u, o) /\ Sent(u, o)' = Sent(u, o) /\ MappedTo(u, o)' = MappedTo(u, o)
    BY <1>5, SameSets
  <2>2. CASE Writes(r) /\ ~StatusWritten(r)
    <3>1. pc[r] = "write" /\ pc'[r] \in {"grant", "over"}
      BY <2>2 DEF Writes, Reject, Withdraw, Accept
    <3> QED
      BY <1>2, <3>1 DEF MemberStage, Even
  <2>3. CASE StatusWritten(r)
    <3>1. /\ pc[r] = "calls" /\ pc'[r] = "calls"
          /\ "kcGrant" \in left'[r] <=> "kcGrant" \in left[r]
      BY <1>0, <2>3 DEF StatusWritten, Settle, Calling, CallsOf
    <3>2. Granting(r)' = Granting(r)
      BY <1>2, <3>1 DEF Granting
    <3> QED
      BY <2>1, <3>1, <3>2 DEF MemberStage
  <2>4. CASE ClearRoles(r)
    <3>1. pc[r] = "change" /\ pc'[r] = "clear" /\ left'[r] = {"kcDrop", "drop"}
      BY <2>4 DEF ClearRoles
    <3> QED
      BY <2>1, <3>1 DEF MemberStage, AtRest
  <2> QED
    BY <1>5, <2>2, <2>3, <2>4
<1>6. CASE GrantRole(r) \/ ReplaceRows(r)
  <2>1. pc[r] \in {"grant", "write"} /\ pc'[r] \in {"grant", "over"}
    BY <1>6 DEF GrantRole, ReplaceRows
  <2> QED
    BY <1>0, <1>2, <2>1 DEF MemberStage, Even
<1>7. CASE AcceptClient(r) \/ Regrant(r)
  <2>1. /\ Promised(u, o)' = Promised(u, o) \cup job[r].roles /\ Sent(u, o)' = Sent(u, o) \cup job[r].roles
        /\ MappedTo(u, o)' = MappedTo(u, o)
    BY <1>7, OwnSends
  <2>2. /\ (pc[r] = "change" /\ pc'[r] = "calls") \/ (pc[r] = "roles" /\ pc'[r] = "regrant")
        /\ "kcGrant" \in left'[r]
    BY <1>7 DEF AcceptClient, Regrant
  <2>3. Granting(r)' = job[r].roles
    BY <1>2, <2>2 DEF Granting
  <2>4. Promised(u, o) = MappedTo(u, o)
    BY <2>2 DEF MemberStage, AtRest, Even
  <2> QED
    BY <2>1, <2>2, <2>3, <2>4 DEF MemberStage
<1>8. CASE RowsDropped(r)
  <2>1. Promised(u, o)' = Sent(u, o) /\ Sent(u, o)' = Sent(u, o) /\ MappedTo(u, o)' = MappedTo(u, o)
    BY <1>8, OwnDrops
  <2>2. pc[r] = "clear" /\ pc'[r] = "clear" /\ ("kcDrop" \in left'[r] <=> "kcDrop" \in left[r])
    BY <1>0, <1>8 DEF RowsDropped, Settle, Calling, CallsOf, Fits
  <2> QED
    BY <1>2, <2>1, <2>2 DEF MemberStage
<1>9. CASE RoleMapped(r)
  <2>1. /\ Promised(u, o)' = Promised(u, o) /\ Sent(u, o)' = Sent(u, o)
        /\ MappedTo(u, o)' = MappedTo(u, o) \cup job[r].roles
    BY <1>9, OwnMaps DEF Maps
  <2>2. pc[r] \in {"calls", "regrant"} /\ pc'[r] = pc[r] /\ "kcGrant" \in left[r] /\ "kcGrant" \notin left'[r]
    BY <1>0, <1>9 DEF RoleMapped, Settle, Calling, CallsOf
  <2> QED
    BY <1>2, <2>1, <2>2 DEF MemberStage, Granting
<1>10. CASE RolesUnmapped(r)
  <2>1. Promised(u, o)' = Promised(u, o) /\ Sent(u, o)' = Sent(u, o) /\ MappedTo(u, o)' = {}
    BY <1>10, OwnMaps DEF Maps
  <2>2. pc[r] = "clear" /\ pc'[r] = pc[r] /\ sound' = sound /\ ("drop" \in left'[r] <=> "drop" \in left[r])
    BY <1>0, <1>10 DEF RolesUnmapped, Settle, Calling, CallsOf
  <2> QED
    BY <1>2, <2>1, <2>2 DEF MemberStage
<1> QED
  BY <1>1, <1>3, <1>4, <1>5, <1>6, <1>7, <1>8, <1>9, <1>10 DEF Act, Sends, Maps

-----------------------------------------------------------------------------
\* The registration of an organisation, up to the storing of its client.

Clients == {"client", "owner", "calls", "store"}

\* These are the steps it takes.
LEMMA ClientActs ==
  ASSUME TypeOK, JobsFit, CallsFit, NEW r \in Requests, Act(r), ~Loses(r),
         job[r].op \in {"register", "map"}, pc[r] \in Clients
  PROVE  /\ \/ CreateClient(r) \/ ClientExists(r) \/ RegisterOwner(r) \/ RowsDropped(r) \/ RoleMapped(r)
            \/ AllSettled(r) \/ StoreClient(r)
         /\ job' = job /\ (~StoreClient(r) => registered' = registered)
<1> USE DEF TypeOK, Step, Clients
<1>0. Fits(r) /\ CallsOf(r)
  BY DEF JobsFit, CallsFit
<1>1. ~Asking(r) /\ ~TakesUp(r)
  BY AskIsFirst, TakesUpForAll
<1>2. ~Creates(r) /\ ~Writes(r) /\ ~GrantRole(r)
  BY <1>0 DEF Creates, CreateSendInvitation, Writes, Reject, Withdraw, Accept, StatusWritten, Settle, GrantRole,
     CallsOf, Calling
<1>3. ~ClearRoles(r) /\ (Sends(r) => RegisterOwner(r)) /\ (Maps(r) => RoleMapped(r))
  BY <1>0 DEF ClearRoles, Sends, AcceptClient, ReplaceRows, Regrant, Maps, RolesUnmapped, Settle, CallsOf, Calling
<1>4. Checks(r) => AllSettled(r)
  BY DEF Checks, CheckInvited, ReadInvitation, CountOrgs, ReadOrg, CheckMember, ReadUnregistered
<1>5. Refusals(r) => ClientExists(r)
  BY DEF Refusals, InvitedAlready, InvitationClosed, LimitReached, InvitationGone, NotAMember, NothingToReplace,
     NewSecret, AllMapped, NoClient, Refuse
<1>6. Keeps(r) => CreateClient(r) \/ StoreClient(r)
  BY DEF Keeps, DeleteClient, ForgetClient
<1>7. \/ CreateClient(r) \/ ClientExists(r) \/ RegisterOwner(r) \/ RowsDropped(r) \/ RoleMapped(r)
      \/ AllSettled(r) \/ StoreClient(r)
  BY <1>1, <1>2, <1>3, <1>4, <1>5, <1>6 DEF Act
<1>8. job' = job
  BY <1>1, Untouched
<1>9. ~StoreClient(r) => registered' = registered
  BY <1>7 DEF CreateClient, ClientExists, Refuse, RegisterOwner, RowsDropped, RoleMapped, AllSettled, database
<1> QED
  BY <1>7, <1>8, <1>9

\* The owner has the role in both stores when the client is stored.
LEMMA OwnerStageStep ==
  ASSUME TypeOK, JobsFit, CallsFit, MappedHaveClient, NEW r \in Requests, Act(r),
         job[r].op \in {"register", "map"}, pc[r] \in Clients,
         NEW u, NEW o, <<u, o>> = Pair(r), <<u, o>> \notin drifted' \cup torn', OwnerStage(r, u, o)
  PROVE  IF pc'[r] \in Clients THEN OwnerStage(r, u, o)' ELSE Even(u, o)' /\ Sent(u, o)' \subseteq {Owner}
<1> USE DEF Step, Clients
<1>0. /\ ~Loses(r) /\ u = job[r].user /\ o = job[r].org /\ job[r].roles = {Owner}
      /\ pc \in [Requests -> Pcs] /\ left \in [Requests -> SUBSET Calls] /\ CallsOf(r)
  BY LossesShow DEF Pair, OwnerStage, TypeOK, CallsFit
<1>1. job' = job /\ (~StoreClient(r) => registered' = registered)
  BY <1>0, ClientActs
<1>2. CASE CreateClient(r)
  <2>1. Promised(u, o)' = Promised(u, o) /\ Sent(u, o)' = Sent(u, o) /\ MappedTo(u, o)' = MappedTo(u, o)
    BY <1>2, SameSets
  <2>2. pc[r] = "client" /\ pc'[r] = "owner" /\ o \notin clients
    BY <1>0, <1>2 DEF CreateClient
  <2>3. MappedTo(u, o) = {}
    BY <2>2 DEF MappedHaveClient, MappedTo
  <2>4. ~StoreClient(r)
    BY <2>2 DEF StoreClient
  <2> QED
    BY <1>1, <2>1, <2>2, <2>3, <2>4 DEF OwnerStage
<1>3. CASE ClientExists(r)
  <2>1. Sent(u, o)' = Sent(u, o)
    BY <1>3, SameSets DEF Refusals
  <2>2. pc[r] = "client" /\ pc'[r] = "over"
    BY <1>0, <1>3 DEF ClientExists, Refuse
  <2>3. registered' = registered
    BY <1>3 DEF ClientExists, Refuse, database
  <2> QED
    BY <2>1, <2>2, <2>3 DEF OwnerStage, Even
<1>4. CASE RegisterOwner(r)
  <2>1. /\ Promised(u, o)' = Promised(u, o) \cup job[r].roles /\ Sent(u, o)' = Sent(u, o) \cup job[r].roles
        /\ MappedTo(u, o)' = MappedTo(u, o)
    BY <1>4, OwnSends
  <2>2. pc[r] = "owner" /\ pc'[r] = "calls" /\ left'[r] = {"kcGrant", "drop"}
    BY <1>0, <1>4 DEF RegisterOwner
  <2>3. Granting(r)' = {Owner}
    BY <1>0, <1>1, <2>2 DEF Granting
  <2>4. Sent(u, o) = {} /\ MappedTo(u, o) = {}
    BY <2>2 DEF OwnerStage
  <2> QED
    BY <1>0, <1>1, <2>1, <2>2, <2>3, <2>4 DEF OwnerStage
<1>5. CASE RowsDropped(r)
  <2>1. Promised(u, o)' = Sent(u, o) /\ Sent(u, o)' = Sent(u, o) /\ MappedTo(u, o)' = MappedTo(u, o)
    BY <1>5, OwnDrops
  <2>2. pc[r] = "calls" /\ pc'[r] = "calls" /\ ("kcGrant" \in left'[r] <=> "kcGrant" \in left[r])
    BY <1>0, <1>5 DEF RowsDropped, Settle, Calling
  <2>3. Granting(r)' = Granting(r)
    BY <1>1, <2>2 DEF Granting
  <2>4. Owner \in Sent(u, o)
    <3>1. NewRows(r) \cap onTheWay # {}
      BY <1>0, <1>5, <2>2 DEF RowsDropped, Pair
    <3>2. PICK x \in onTheWay : x \in NewRows(r)
      BY <3>1
    <3>3. x.user = u /\ x.org = o /\ x.role = Owner
      BY <1>0, <3>2 DEF NewRows
    <3>4. x \in RowsSent(u, o)
      BY <3>2, <3>3 DEF RowsSent
    <3> QED
      BY <3>3, <3>4 DEF Sent
  <2>5. Sent(u, o) = {Owner}
    BY <2>2, <2>4 DEF OwnerStage
  <2> QED
    BY <1>1, <2>1, <2>2, <2>3, <2>5 DEF OwnerStage
<1>6. CASE RoleMapped(r)
  <2>1. /\ Promised(u, o)' = Promised(u, o) /\ Sent(u, o)' = Sent(u, o)
        /\ MappedTo(u, o)' = MappedTo(u, o) \cup job[r].roles
    BY <1>6, OwnMaps DEF Maps
  <2>2. /\ pc[r] = "calls" /\ pc'[r] = "calls" /\ "kcGrant" \notin left'[r]
        /\ "drop" \in left'[r] <=> "drop" \in left[r]
    BY <1>0, <1>6 DEF RoleMapped, Settle, Calling
  <2>3. Granting(r)' = {} /\ MappedTo(u, o) \subseteq {Owner}
    BY <2>2 DEF Granting, OwnerStage
  <2> QED
    BY <1>0, <1>1, <2>1, <2>2, <2>3 DEF OwnerStage
<1>7. CASE AllSettled(r)
  <2>1. Promised(u, o)' = Promised(u, o) /\ Sent(u, o)' = Sent(u, o) /\ MappedTo(u, o)' = MappedTo(u, o)
    BY <1>7, SameSets DEF Checks
  <2>2. pc[r] = "calls" /\ pc'[r] = "store" /\ left[r] = {}
    BY <1>7, Settled DEF AllSettled
  <2>3. Granting(r) = {}
    BY <2>2 DEF Granting
  <2> QED
    BY <1>1, <2>1, <2>2, <2>3 DEF OwnerStage
<1>8. CASE StoreClient(r)
  <2>1. Promised(u, o)' = Promised(u, o) /\ Sent(u, o)' = Sent(u, o) /\ MappedTo(u, o)' = MappedTo(u, o)
    BY <1>8, SameSets
  <2>2. pc[r] = "store" /\ pc'[r] \in {"remap", "over"}
    BY <1>0, <1>8 DEF StoreClient
  <2> QED
    BY <2>1, <2>2 DEF OwnerStage, Even
<1> QED
  BY <1>0, <1>2, <1>3, <1>4, <1>5, <1>6, <1>7, <1>8, ClientActs

\* An organisation that registers alone: its owner is the only one to get a role.
LEMMA RegisterStageStep ==
  ASSUME TypeOK, JobsFit, CallsFit, MappedHaveClient, NEW r \in Requests, Act(r), ~Asking(r),
         job[r].op = "register", r \in Underway,
         NEW u, NEW o, <<u, o>> \notin drifted' \cup torn', RegisterStage(r, u, o)
  PROVE  IF pc'[r] = "over" THEN Even(u, o)' ELSE RegisterStage(r, u, o)'
<1> USE DEF Step
<1>0. /\ <<u, o>> = Pair(r) /\ OwnerStage(r, u, o) /\ ~Loses(r) /\ Fits(r) /\ pc \in [Requests -> Pcs]
  BY LossesShow DEF RegisterStage, Pair, JobsFit, TypeOK
<1>1. ~TakesUp(r)
  BY <1>0 DEF Fits, TakesUp, ReadAllUnregistered, SkipOrg, NextOrg, Remap
<1>2. job' = job
  BY <1>1, Untouched
<1>3. CASE pc[r] \in Clients
  <2>1. IF pc'[r] \in Clients THEN OwnerStage(r, u, o)' ELSE Even(u, o)' /\ Sent(u, o)' \subseteq {Owner}
    BY <1>0, <1>3, OwnerStageStep
  <2>2. pc'[r] \in Clients \cup {"over"}
    BY <1>0, <1>3, ClientActs, Settled DEF Clients, CreateClient, ClientExists, Refuse, RegisterOwner, RowsDropped,
       RoleMapped, Settle, StoreClient
  <2> QED
    BY <1>2, <2>1, <2>2 DEF RegisterStage, Clients
<1>4. CASE pc[r] = "read"
  <2>1. ReadUnregistered(r) \/ NewSecret(r)
    BY <1>0, <1>1, <1>4 DEF Act, Checks, CheckInvited, ReadInvitation, CountOrgs, ReadOrg, CheckMember, AllSettled,
       Refusals, InvitedAlready, InvitationClosed, LimitReached, InvitationGone, NotAMember, NothingToReplace,
       ClientExists, AllMapped, NoClient, Refuse, Creates, CreateSendInvitation, Writes, Reject, Withdraw, Accept,
       StatusWritten, Settle, GrantRole, Sends, AcceptClient, ReplaceRows, Regrant, RegisterOwner, ClearRoles,
       RowsDropped, Maps, RoleMapped, RolesUnmapped, Calling, Keeps, CreateClient, StoreClient, DeleteClient,
       ForgetClient
  <2>2. Promised(u, o)' = Promised(u, o) /\ Sent(u, o)' = Sent(u, o) /\ MappedTo(u, o)' = MappedTo(u, o)
    BY <2>1, SameSets DEF Checks, Refusals
  <2>3. registered' = registered /\ (pc'[r] = "over" \/ (pc'[r] = "client" /\ o \notin registered))
    BY <1>0, <2>1 DEF ReadUnregistered, NewSecret, Refuse, database, Pair
  <2> QED
    BY <1>2, <1>4, <2>2, <2>3 DEF RegisterStage, OwnerStage, AtRest, Even
<1>5. pc[r] \in Clients \cup {"read"}
  BY <1>0 DEF Underway, Fits, Clients, Pcs
<1> QED
  BY <1>3, <1>4, <1>5

-----------------------------------------------------------------------------
\* The registration of all organisations, one after the other.

\* Which members it has cleared, and whom it still lists.
LEMMA NextMembers ==
  ASSUME TypeOK, NEW r \in Requests
  PROVE  /\ \A o : SkipOrg(r, o) =>
              /\ job'[r].cleared = job[r].cleared
              /\ \A u, p : Listed(r, u, p)' = IF p = o THEN {} ELSE Listed(r, u, p)
         /\ \A x : NextOrg(r, x) => job'[r].cleared = {} /\ \A u, p : Listed(r, u, p)' = Listed(r, u, p)
         /\ \A x : Remap(r, x) =>
              /\ job'[r].cleared = job[r].cleared \cup {x.user}
              /\ \A u, p : /\ Listed(r, u, p)' \subseteq Listed(r, u, p)
                           /\ Listed(r, u, p) \subseteq Listed(r, u, p)' \cup {x.role}
                           /\ <<u, p>> # <<x.user, x.org>> => Listed(r, u, p)' = Listed(r, u, p)
<1>0. job \in [Requests -> Job] /\ job[r] \in Job
  BY JobTyped
<1>1. ASSUME NEW o, SkipOrg(r, o)
      PROVE  /\ job'[r].cleared = job[r].cleared
             /\ \A u, p : Listed(r, u, p)' = IF p = o THEN {} ELSE Listed(r, u, p)
  <2> DEFINE next == [job[r] EXCEPT !.todo = job[r].todo \ {o}, !.list = {x \in job[r].list : x.org # o}]
  <2>0. next.cleared = job[r].cleared
    BY <1>0 DEF Job
  <2>1. job' = [job EXCEPT ![r] = next]
    BY <1>1, NextJobs
  <2> HIDE DEF next
  <2>2. job'[r].list = {x \in job[r].list : x.org # o}
    BY <1>1, NextFields
  <2>3. \A u, p : Listed(r, u, p)' = IF p = o THEN {} ELSE Listed(r, u, p)
    BY <2>2 DEF Listed
  <2> QED
    BY <1>0, <2>0, <2>1, <2>3
<1>2. ASSUME NEW x, NextOrg(r, x)
      PROVE  job'[r].cleared = {} /\ \A u, p : Listed(r, u, p)' = Listed(r, u, p)
  <2> DEFINE next == [job[r] EXCEPT !.todo = job[r].todo \ {x.org}, !.org = x.org, !.user = x.user,
                                    !.roles = {Owner}, !.cleared = {}]
  <2>0. next.cleared = {}
    BY <1>0 DEF Job
  <2>1. job' = [job EXCEPT ![r] = next]
    BY <1>2, NextJobs
  <2> HIDE DEF next
  <2>2. \A u, p : Listed(r, u, p)' = Listed(r, u, p)
    BY <1>2, NextFields DEF Listed
  <2> QED
    BY <1>0, <2>0, <2>1, <2>2
<1>3. ASSUME NEW x, Remap(r, x)
      PROVE  /\ job'[r].cleared = job[r].cleared \cup {x.user}
             /\ \A u, p : /\ Listed(r, u, p)' \subseteq Listed(r, u, p)
                          /\ Listed(r, u, p) \subseteq Listed(r, u, p)' \cup {x.role}
                          /\ <<u, p>> # <<x.user, x.org>> => Listed(r, u, p)' = Listed(r, u, p)
  <2> DEFINE next == [job[r] EXCEPT !.list = job[r].list \ {x}, !.user = x.user, !.roles = {x.role},
                                    !.cleared = job[r].cleared \cup {x.user}]
  <2>0. next.cleared = job[r].cleared \cup {x.user}
    BY <1>0 DEF Job
  <2>1. job' = [job EXCEPT ![r] = next]
    BY <1>3, NextJobs
  <2> HIDE DEF next
  <2>2. job'[r].list = job[r].list \ {x}
    BY <1>3, NextFields
  <2>3. \A u, p : /\ Listed(r, u, p)' \subseteq Listed(r, u, p)
                  /\ Listed(r, u, p) \subseteq Listed(r, u, p)' \cup {x.role}
                  /\ <<u, p>> # <<x.user, x.org>> => Listed(r, u, p)' = Listed(r, u, p)
    BY <2>2 DEF Listed
  <2> QED
    BY <1>0, <2>0, <2>1, <2>3
<1> QED
  BY <1>1, <1>2, <1>3

\* Where it goes on.
LEMMA TakesUpPlaces ==
  ASSUME TypeOK, NEW r \in Requests
  PROVE  /\ ReadAllUnregistered(r) => pc[r] = "read" /\ pc'[r] = "remap"
         /\ \A o : SkipOrg(r, o) => pc[r] = "remap" /\ pc'[r] = "remap"
         /\ \A x : NextOrg(r, x) => pc[r] = "remap" /\ pc'[r] = "client"
         /\ \A x : Remap(r, x) =>
              pc[r] = "remap" /\ pc'[r] = IF x.user \in job[r].cleared THEN "roles" ELSE "clear"
<1>0. pc \in [Requests -> Pcs]
  BY DEF TypeOK
<1> QED
  BY <1>0 DEF ReadAllUnregistered, SkipOrg, NextOrg, Remap, Step

\* The steps it takes.
LEMMA MapActs ==
  ASSUME TypeOK, JobsFit, CallsFit, NEW r \in Requests, Act(r), ~Asking(r), ~Loses(r), ~ReadAllUnregistered(r),
         job[r].op = "map"
  PROVE  /\ \/ pc[r] \in Clients
            \/ pc[r] = "remap" /\ (TakesUp(r) \/ AllMapped(r))
            \/ pc[r] = "clear" /\ (RowsDropped(r) \/ RolesUnmapped(r) \/ AllSettled(r))
            \/ pc[r] = "roles" /\ Regrant(r)
            \/ pc[r] = "regrant" /\ (RoleMapped(r) \/ AllSettled(r))
         /\ ~StoreClient(r) => registered' = registered
         /\ ~DeleteClient(r)
<1> USE DEF Step, Clients
<1>0. Fits(r) /\ CallsOf(r) /\ pc \in [Requests -> Pcs]
  BY DEF JobsFit, CallsFit, TypeOK
<1>1. ~Creates(r) /\ ~Writes(r) /\ ~GrantRole(r) /\ ~ClearRoles(r)
  BY <1>0 DEF Creates, CreateSendInvitation, Writes, Reject, Withdraw, Accept, StatusWritten, Settle, GrantRole,
     ClearRoles, Fits, CallsOf, Calling
<1>2. Checks(r) => AllSettled(r)
  BY <1>0 DEF Checks, CheckInvited, ReadInvitation, CountOrgs, ReadOrg, CheckMember, ReadUnregistered, Fits
<1>3. Refusals(r) => ClientExists(r) \/ AllMapped(r)
  BY <1>0 DEF Refusals, InvitedAlready, InvitationClosed, LimitReached, InvitationGone, NotAMember, NothingToReplace,
     NewSecret, NoClient, Refuse, Fits
<1>4. (Sends(r) => RegisterOwner(r) \/ Regrant(r)) /\ (Keeps(r) => CreateClient(r) \/ StoreClient(r)) /\ ~DeleteClient(r)
  BY DEF Sends, AcceptClient, ReplaceRows, Keeps, DeleteClient, ForgetClient
<1>5. \/ AllSettled(r) \/ ClientExists(r) \/ AllMapped(r) \/ RegisterOwner(r) \/ Regrant(r) \/ RowsDropped(r)
      \/ RoleMapped(r) \/ RolesUnmapped(r) \/ TakesUp(r) \/ CreateClient(r) \/ StoreClient(r)
  BY <1>1, <1>2, <1>3, <1>4 DEF Act, Maps
<1>6. /\ AllSettled(r) \/ RowsDropped(r) \/ RoleMapped(r) \/ RolesUnmapped(r) => pc[r] \in {"calls", "clear", "regrant"}
      /\ ClientExists(r) \/ RegisterOwner(r) \/ CreateClient(r) \/ StoreClient(r) => pc[r] \in Clients
      /\ AllMapped(r) \/ TakesUp(r) => pc[r] = "remap"
      /\ Regrant(r) => pc[r] = "roles"
  BY DEF AllSettled, RowsDropped, RoleMapped, RolesUnmapped, Settle, Calling, ClientExists, Refuse, RegisterOwner,
     CreateClient, StoreClient, AllMapped, TakesUp, SkipOrg, NextOrg, Remap, Regrant
<1>7. /\ RowsDropped(r) => pc[r] # "regrant"
      /\ RoleMapped(r) => pc[r] # "clear"
      /\ RolesUnmapped(r) => pc[r] # "regrant"
  BY <1>0 DEF RowsDropped, RoleMapped, RolesUnmapped, Settle, CallsOf
<1>8. ~StoreClient(r) => registered' = registered
  BY <1>5, Untouched DEF AllSettled, ClientExists, AllMapped, Refuse, RegisterOwner, Regrant, RowsDropped, RoleMapped,
     RolesUnmapped, CreateClient, TakesUp, SkipOrg, NextOrg, Remap, ReadAllUnregistered, database
<1> QED
  BY <1>4, <1>5, <1>6, <1>7, <1>8

\* What a request may change the roles of, when it registers all organisations.
LEMMA MapTouches ==
  ASSUME NEW r \in Requests, job[r].op = "map", NEW u, NEW o
  PROVE  Touches(r, u, o) <=> o = job[r].org \/ o \in job[r].todo
BY DEF Touches, WholeOrg

\* A request reads what it is about only once.
LEMMA NextPlace == ASSUME TypeOK, NEW r \in Requests, Act(r), ~Asking(r), ~Loses(r) PROVE pc'[r] # "read"
<1> USE DEF TypeOK, Step
<1>2. CASE Checks(r)
  BY <1>2, Settled DEF Checks, CheckInvited, ReadInvitation, CountOrgs, ReadOrg, CheckMember, ReadUnregistered
<1>3. CASE Refusals(r)
  BY <1>3 DEF Refusals, InvitedAlready, InvitationClosed, LimitReached, InvitationGone, NotAMember,
              NothingToReplace, NewSecret, ClientExists, AllMapped, NoClient, Refuse
<1>4. CASE Creates(r) \/ Writes(r) \/ GrantRole(r)
  BY <1>4 DEF Creates, CreateSendInvitation, Writes, Reject, Withdraw, Accept, StatusWritten, Settle, GrantRole, Calling
<1>5. CASE Sends(r) \/ ClearRoles(r)
  BY <1>5 DEF Sends, AcceptClient, ReplaceRows, Regrant, RegisterOwner, ClearRoles
<1>6. CASE RowsDropped(r) \/ Maps(r)
  BY <1>6 DEF RowsDropped, Maps, RoleMapped, RolesUnmapped, Settle, Calling
<1>7. CASE TakesUp(r)
  BY <1>7, TakesUpForAll
<1>8. CASE Keeps(r)
  BY <1>8 DEF Keeps, CreateClient, StoreClient, DeleteClient, ForgetClient
<1> QED
  BY <1>2, <1>3, <1>4, <1>5, <1>6, <1>7, <1>8 DEF Act

\* An organisation waits until it is passed over or taken up.
LEMMA TodoStageStep ==
  ASSUME TypeOK, JobsFit, CallsFit, NEW r \in Requests, Act(r), ~Asking(r), ~Loses(r), ~ReadAllUnregistered(r),
         job[r].op = "map", NEW u, NEW o \in job[r].todo, pc[r] # "read", TodoStage(r, u, o)
  PROVE  IF pc'[r] = "over" \/ ~Touches(r, u, o)' THEN Even(u, o)' ELSE MapStage(r, u, o)'
<1> USE DEF Step
<1>0. o \notin registered /\ Waits(r, u, o) /\ (o = job[r].org => pc[r] = "remap" /\ job[r].cleared = {})
  BY DEF TodoStage
<1>1. o \notin registered'
  <2>1. CASE StoreClient(r)
    <3>1. pc[r] = "store" /\ registered' = registered \cup {job[r].org}
      BY <2>1 DEF StoreClient
    <3> QED
      BY <1>0, <3>1
  <2> QED
    BY <1>0, <2>1, MapActs
<1>2. Promised(u, o)' = Promised(u, o) /\ Sent(u, o)' = Sent(u, o)
  <2>1. CASE <<u, o>> = Pair(r)
    <3>1. TakesUp(r) \/ AllMapped(r)
      BY <1>0, <2>1, MapActs DEF Pair, Clients
    <3> QED
      BY <3>1, SameSets DEF Refusals
  <2>2. CASE <<u, o>> # Pair(r)
    BY <2>2, OtherPairs
  <2> QED
    BY <2>1, <2>2
<1>3. Even(u, o)'
  BY <1>1 DEF Even
<1>4. pc'[r] # "read" /\ job'[r].op = "map"
  BY NextPlace, JobStays
<1>5. ASSUME NEW p \in job[r].todo, SkipOrg(r, p), o = p, Touches(r, u, o)' PROVE MapStage(r, u, o)'
  <2>1. /\ job'[r].org = job[r].org /\ o \notin job'[r].todo /\ job'[r].cleared = job[r].cleared
        /\ pc[r] = "remap" /\ pc'[r] = "remap"
    BY <1>5, NextFields, NextMembers, TakesUpPlaces
  <2>2. o = job[r].org
    BY <1>4, <1>5, <2>1 DEF Touches, WholeOrg
  <2>3. BesideStage(r, u, o)'
    BY <1>0, <1>2, <1>3, <2>1, <2>2 DEF BesideStage, Waits
  <2> QED
    BY <2>1, <2>3 DEF MapStage, MembersStage, Clients
<1>6. ASSUME NEW x \in job[r].list, NextOrg(r, x), o = x.org PROVE MapStage(r, u, o)' /\ pc'[r] # "over"
  <2>1. /\ job'[r].org = o /\ o \notin job'[r].todo /\ job'[r].cleared = {} /\ job'[r].user = x.user
        /\ job'[r].roles = {Owner} /\ pc'[r] = "client" /\ Listed(r, u, o)' = Listed(r, u, o)
    BY <1>6, NextFields, NextMembers, TakesUpPlaces
  <2>2. u = x.user => Owner \in Listed(r, u, o)
    BY <1>6 DEF Listed, NextOrg
  <2>3. u = x.user => OwnerStage(r, u, o)'
    BY <1>0, <1>1, <1>2, <2>1 DEF OwnerStage, Waits
  <2>4. Waits(r, u, o)'
    BY <1>0, <1>2, <2>1 DEF Waits
  <2>5. ClientStage(r, u, o)'
    BY <1>1, <2>1, <2>2, <2>3, <2>4 DEF ClientStage
  <2> QED
    BY <2>1, <2>5 DEF MapStage
<1>7. ASSUME ~(\E p \in job[r].todo : SkipOrg(r, p) /\ o = p), ~(\E x \in job[r].list : NextOrg(r, x) /\ o = x.org)
      PROVE  pc'[r] = "over" \/ MapStage(r, u, o)'
  <2>1. o \in job'[r].todo /\ Listed(r, u, o)' = Listed(r, u, o)
    <3>1. CASE ~TakesUp(r)
      BY <3>1, Untouched DEF Listed
    <3>2. ASSUME NEW p \in job[r].todo, SkipOrg(r, p) PROVE o \in job'[r].todo /\ Listed(r, u, o)' = Listed(r, u, o)
      BY <1>7, <3>2, NextFields, NextMembers
    <3>3. ASSUME NEW x \in job[r].list, NextOrg(r, x) PROVE o \in job'[r].todo /\ Listed(r, u, o)' = Listed(r, u, o)
      BY <1>7, <3>3, NextFields, NextMembers
    <3>4. ASSUME NEW x \in job[r].list, Remap(r, x) PROVE o \in job'[r].todo /\ Listed(r, u, o)' = Listed(r, u, o)
      <4>1. x.org \notin job[r].todo
        BY <3>4 DEF Remap
      <4>2. <<u, o>> # <<x.user, x.org>>
        BY <4>1
      <4> QED
        BY <3>4, <4>2, NextFields, NextMembers
    <3> QED
      BY <3>1, <3>2, <3>3, <3>4 DEF TakesUp
  <2>2. o = job'[r].org => pc'[r] \in {"remap", "over"} /\ (pc'[r] = "remap" => job'[r].cleared = {})
    <3> SUFFICES ASSUME o = job'[r].org
                 PROVE  pc'[r] \in {"remap", "over"} /\ (pc'[r] = "remap" => job'[r].cleared = {})
      OBVIOUS
    <3>1. CASE ~TakesUp(r)
      <4>1. o = job[r].org /\ job'[r] = job[r]
        BY <3>1, Untouched
      <4>2. AllMapped(r)
        BY <1>0, <3>1, <4>1, MapActs DEF Clients
      <4> QED
        BY <4>2 DEF AllMapped, Refuse, TypeOK
    <3>2. ASSUME NEW p \in job[r].todo, SkipOrg(r, p)
          PROVE  pc'[r] \in {"remap", "over"} /\ (pc'[r] = "remap" => job'[r].cleared = {})
      BY <1>0, <3>2, NextFields, NextMembers, TakesUpPlaces
    <3>3. ASSUME NEW x \in job[r].list, NextOrg(r, x) PROVE FALSE
      BY <1>7, <3>3, NextFields
    <3>4. ASSUME NEW x \in job[r].list, Remap(r, x) PROVE FALSE
      <4>1. job[r].org \notin job[r].todo
        BY <3>4 DEF Remap
      <4> QED
        BY <3>4, <4>1, NextFields
    <3> QED
      BY <3>1, <3>2, <3>3, <3>4 DEF TakesUp
  <2>3. Waits(r, u, o)'
    BY <1>0, <1>2, <2>1 DEF Waits
  <2>4. pc'[r] = "over" \/ TodoStage(r, u, o)'
    BY <1>1, <2>2, <2>3 DEF TodoStage
  <2> QED
    BY <1>4, <2>1, <2>4 DEF MapStage
<1> QED
  BY <1>3, <1>5, <1>6, <1>7

\* An organisation's client is made for all its members, the owner is mapped and
\* the others still wait.
LEMMA ClientStageStep ==
  ASSUME TypeOK, JobsFit, CallsFit, MappedHaveClient, NEW r \in Requests, Act(r), ~Asking(r), ~Loses(r),
         job[r].op = "map", NEW u, NEW o, o = job[r].org, o \notin job[r].todo, pc[r] \in Clients,
         <<u, o>> \notin drifted' \cup torn', ClientStage(r, u, o)
  PROVE  IF pc'[r] = "over" THEN Even(u, o)' ELSE MapStage(r, u, o)'
<1> USE DEF Step
<1>0. /\ \/ CreateClient(r) \/ ClientExists(r) \/ RegisterOwner(r) \/ RowsDropped(r) \/ RoleMapped(r)
         \/ AllSettled(r) \/ StoreClient(r)
      /\ job' = job /\ (~StoreClient(r) => registered' = registered)
  BY ClientActs
<1>1. /\ pc'[r] \in {"owner", "calls", "store"} \/ (StoreClient(r) /\ pc'[r] = "remap")
         \/ (ClientExists(r) /\ pc'[r] = "over")
      /\ CreateClient(r) \/ ClientExists(r) <=> pc[r] = "client"
      /\ CreateClient(r) => o \notin clients
      /\ ClientExists(r) => pc'[r] = "over"
  BY <1>0, Settled DEF TypeOK, CreateClient, ClientExists, Refuse, RegisterOwner, RowsDropped,
     RoleMapped, Settle, Calling, AllSettled, StoreClient, Clients
<1>2. Listed(r, u, o)' = Listed(r, u, o)
  BY <1>0 DEF Listed
<1>3. SUFFICES \/ pc'[r] = "over" /\ Even(u, o)'
               \/ pc'[r] = "remap" /\ BesideStage(r, u, o)'
               \/ pc'[r] \in {"owner", "calls", "store"} /\ ClientStage(r, u, o)'
  BY <1>0 DEF MapStage, MembersStage
<1>4. CASE u = job[r].user
  <2>1. OwnerStage(r, u, o) /\ Owner \in Listed(r, u, o) /\ <<u, o>> = Pair(r) /\ job[r].cleared = {}
    BY <1>4 DEF ClientStage, Pair
  <2>2. IF pc'[r] \in Clients THEN OwnerStage(r, u, o)' ELSE Even(u, o)' /\ Sent(u, o)' \subseteq {Owner}
    BY <2>1, OwnerStageStep
  <2>3. CASE pc'[r] = "over"
    BY <2>2, <2>3 DEF Clients
  <2>4. CASE pc'[r] = "remap"
    BY <1>0, <1>2, <2>1, <2>2, <2>4 DEF BesideStage, Clients
  <2>5. CASE pc'[r] \in {"owner", "calls", "store"}
    BY <1>0, <1>2, <1>4, <2>1, <2>2, <2>5 DEF ClientStage, Clients
  <2> QED
    BY <1>1, <2>3, <2>4, <2>5
<1>5. CASE u # job[r].user
  <2>0. ~DeleteClient(r)
    BY <1>0 DEF DeleteClient
  <2>1. Promised(u, o)' = Promised(u, o) /\ Sent(u, o)' = Sent(u, o) /\ MappedTo(u, o)' = MappedTo(u, o)
    BY <1>5, <2>0, OtherPairs DEF Pair
  <2>2. Waits(r, u, o) /\ (pc[r] # "client" => MappedTo(u, o) = {}) /\ job[r].cleared = {}
    BY <1>5 DEF ClientStage
  <2>3. Waits(r, u, o)'
    BY <1>2, <2>1, <2>2 DEF Waits
  <2>4. CASE pc'[r] = "over"
    <3>1. o \notin registered /\ ~StoreClient(r)
      BY <1>1, <2>4 DEF ClientStage, StoreClient
    <3> QED
      BY <1>0, <2>4, <3>1 DEF Even
  <2>5. CASE pc'[r] # "over"
    <3>1. MappedTo(u, o)' = {}
      <4>1. CASE pc[r] = "client"
        <5>1. o \notin clients
          BY <1>1, <2>5, <4>1
        <5> QED
          BY <2>1, <5>1 DEF MappedHaveClient, MappedTo
      <4> QED
        BY <2>1, <2>2, <4>1
    <3>2. CASE pc'[r] = "remap"
      BY <1>0, <1>2, <2>1, <2>2, <3>1, <3>2 DEF BesideStage, Waits, Even
    <3>3. CASE pc'[r] \in {"owner", "calls", "store"}
      BY <1>0, <1>5, <2>2, <2>3, <3>1, <3>3 DEF ClientStage
    <3> QED
      BY <1>1, <2>5, <3>2, <3>3
  <2> QED
    BY <2>4, <2>5
<1> QED
  BY <1>4, <1>5

\* A call that settles leaves the others open.
LEMMA OneCall ==
  ASSUME TypeOK, NEW r \in Requests, NEW call, Settle(r, call)
  PROVE  /\ pc'[r] = pc[r] /\ pc[r] \in {"calls", "clear", "regrant"} /\ call \in left[r]
         /\ \A other : other \in left'[r] <=> other \in left[r] /\ other # call
BY DEF Settle, Calling, TypeOK

\* The member whose turn it is.
LEMMA TurnStageStep ==
  ASSUME TypeOK, JobsFit, CallsFit, NEW r \in Requests, Act(r), ~Asking(r), ~Loses(r),
         job[r].op = "map", NEW u, NEW o, <<u, o>> = Pair(r), pc[r] \in {"clear", "roles", "regrant"},
         u \in job[r].cleared, TurnStage(r, u, o)
  PROVE  /\ job' = job /\ registered' = registered
         /\ \/ pc'[r] \in {"clear", "roles", "regrant"} /\ TurnStage(r, u, o)'
            \/ pc'[r] = "remap" /\ BesideStage(r, u, o)'
<1> USE DEF Step
<1>0. /\ \/ pc[r] = "clear" /\ (RowsDropped(r) \/ RolesUnmapped(r) \/ AllSettled(r))
         \/ pc[r] = "roles" /\ Regrant(r)
         \/ pc[r] = "regrant" /\ (RoleMapped(r) \/ AllSettled(r))
      /\ registered' = registered
      /\ pc \in [Requests -> Pcs] /\ left \in [Requests -> SUBSET Calls] /\ CallsOf(r)
  BY MapActs DEF TypeOK, CallsFit, Clients, ReadAllUnregistered, StoreClient
<1>1. job' = job
  <2>1. ~TakesUp(r)
    BY TakesUpForAll
  <2> QED
    BY <2>1, Untouched
<1>2. Listed(r, u, o)' = Listed(r, u, o)
  BY <1>1 DEF Listed
<1>3. CASE RowsDropped(r)
  <2>1. Promised(u, o)' = Sent(u, o) /\ Sent(u, o)' = Sent(u, o) /\ MappedTo(u, o)' = MappedTo(u, o)
    BY <1>3, OwnDrops
  <2>2. pc[r] = "clear" /\ pc'[r] = "clear" /\ ("kcDrop" \in left'[r] <=> "kcDrop" \in left[r])
    BY <1>0, <1>3, OneCall DEF RowsDropped, CallsOf
  <2> QED
    BY <1>0, <1>1, <1>2, <2>1, <2>2 DEF TurnStage
<1>4. CASE RolesUnmapped(r)
  <2>1. Promised(u, o)' = Promised(u, o) /\ Sent(u, o)' = Sent(u, o) /\ MappedTo(u, o)' = {}
    BY <1>4, OwnMaps DEF Maps
  <2>2. pc[r] = "clear" /\ pc'[r] = "clear" /\ ("drop" \in left'[r] <=> "drop" \in left[r])
    BY <1>0, <1>4, OneCall DEF RolesUnmapped, CallsOf
  <2> QED
    BY <1>0, <1>1, <1>2, <2>1, <2>2 DEF TurnStage
<1>5. CASE Regrant(r)
  <2>1. /\ Promised(u, o)' = Promised(u, o) \cup job[r].roles /\ Sent(u, o)' = Sent(u, o) \cup job[r].roles
        /\ MappedTo(u, o)' = MappedTo(u, o)
    BY <1>5, OwnSends
  <2>2. pc[r] = "roles" /\ pc'[r] = "regrant" /\ "kcGrant" \in left'[r]
    BY <1>0, <1>5 DEF Regrant
  <2> QED
    BY <1>0, <1>1, <1>2, <2>1, <2>2 DEF TurnStage, Rebuilt
<1>6. CASE RoleMapped(r)
  <2>1. /\ Promised(u, o)' = Promised(u, o) /\ Sent(u, o)' = Sent(u, o)
        /\ MappedTo(u, o)' = MappedTo(u, o) \cup job[r].roles
    BY <1>6, OwnMaps DEF Maps
  <2>2. pc[r] = "regrant" /\ pc'[r] = "regrant"
    BY <1>0, <1>6, OneCall DEF RoleMapped, CallsOf
  <2> QED
    BY <1>0, <1>1, <1>2, <2>1, <2>2 DEF TurnStage, Rebuilt
<1>7. CASE AllSettled(r)
  <2>1. Promised(u, o)' = Promised(u, o) /\ Sent(u, o)' = Sent(u, o) /\ MappedTo(u, o)' = MappedTo(u, o)
    BY <1>7, SameSets DEF Checks
  <2>2. /\ (pc[r] = "clear" /\ pc'[r] = "roles") \/ (pc[r] = "regrant" /\ pc'[r] = "remap")
        /\ left[r] = {}
    BY <1>0, <1>7, Settled DEF AllSettled
  <2>3. CASE pc[r] = "clear" /\ pc'[r] = "roles"
    BY <1>0, <1>1, <1>2, <2>1, <2>2, <2>3 DEF TurnStage, Rebuilt
  <2>4. CASE pc[r] = "regrant" /\ pc'[r] = "remap"
    <3>1. Rebuilt(u, o, Listed(r, u, o))
      BY <2>2, <2>4 DEF TurnStage
    <3>2. BesideStage(r, u, o)'
      BY <1>1, <1>2, <2>1, <3>1 DEF BesideStage, Rebuilt
    <3> QED
      BY <1>0, <1>1, <2>4, <3>2
  <2> QED
    BY <2>2, <2>3, <2>4
<1> QED
  BY <1>0, <1>3, <1>4, <1>5, <1>6, <1>7

\* Of whom nothing is listed any more both stores say the same.
LEMMA BesideEven ==
  ASSUME NEW r, NEW u, NEW o, BesideStage(r, u, o), Listed(r, u, o) = {}
  PROVE  Even(u, o)
<1>1. CASE u \in job[r].cleared
  <2>1. Rebuilt(u, o, {})
    BY <1>1 DEF BesideStage
  <2>2. Promised(u, o) = MappedTo(u, o)
    BY <2>1 DEF Rebuilt
  <2> QED
    BY <2>2 DEF Even
<1>2. CASE u \notin job[r].cleared
  BY <1>2 DEF BesideStage
<1> QED
  BY <1>1, <1>2

\* Members are made anew, one at a time.
LEMMA MembersStageStep ==
  ASSUME TypeOK, JobsFit, CallsFit, NEW r \in Requests, Act(r), ~Asking(r), ~Loses(r), ~ReadAllUnregistered(r),
         job[r].op = "map", NEW u, NEW o, o = job[r].org, o \notin job[r].todo,
         pc[r] \in {"remap", "clear", "roles", "regrant"}, MembersStage(r, u, o)
  PROVE  IF pc'[r] = "over" \/ ~Touches(r, u, o)' THEN Even(u, o)' ELSE MapStage(r, u, o)'
<1>1. /\ registered' = registered /\ ~DeleteClient(r)
      /\ pc[r] = "remap" => TakesUp(r) \/ AllMapped(r)
  BY MapActs DEF Clients, StoreClient, Step
<1>2. CASE pc[r] # "remap" /\ u = job[r].user
  <2>1. u \in job[r].cleared /\ TurnStage(r, u, o) /\ <<u, o>> = Pair(r)
    BY <1>2 DEF MembersStage, Pair
  <2>2. /\ job' = job
        /\ \/ pc'[r] \in {"clear", "roles", "regrant"} /\ TurnStage(r, u, o)'
           \/ pc'[r] = "remap" /\ BesideStage(r, u, o)'
    BY <1>2, <2>1, TurnStageStep
  <2>3. MembersStage(r, u, o)' /\ Touches(r, u, o)'
    BY <1>2, <2>1, <2>2 DEF MembersStage, Touches, WholeOrg
  <2> QED
    BY <2>2, <2>3 DEF MapStage, Clients
<1>3. CASE pc[r] # "remap" /\ u # job[r].user
  <2>1. Promised(u, o)' = Promised(u, o) /\ Sent(u, o)' = Sent(u, o) /\ MappedTo(u, o)' = MappedTo(u, o)
    BY <1>1, <1>3, OtherPairs DEF Pair
  <2>2. job' = job
    <3>1. ~TakesUp(r)
      BY <1>3, TakesUpForAll
    <3> QED
      BY <3>1, Untouched
  <2>3. pc'[r] \in {"remap", "clear", "roles", "regrant", "over"}
    BY <1>3, MapActs, Settled, OneCall DEF Clients, RowsDropped, RolesUnmapped, RoleMapped, Regrant, Step, TypeOK
  <2>4. pc'[r] # "over"
    BY <1>3, MapActs, Settled, OneCall DEF Clients, RowsDropped, RolesUnmapped, RoleMapped, Regrant, Step, TypeOK
  <2>5. Listed(r, u, o)' = Listed(r, u, o) /\ BesideStage(r, u, o)
    BY <1>3, <2>2 DEF Listed, MembersStage
  <2>6. BesideStage(r, u, o)'
    BY <1>1, <2>1, <2>2, <2>5 DEF BesideStage, Rebuilt, Even
  <2>7. MembersStage(r, u, o)' /\ Touches(r, u, o)'
    BY <1>3, <2>2, <2>6 DEF MembersStage, Touches, WholeOrg
  <2> QED
    BY <2>2, <2>3, <2>4, <2>7 DEF MapStage, Clients
<1>4. CASE pc[r] = "remap"
  <2>0. BesideStage(r, u, o)
    BY <1>4 DEF MembersStage
  <2>1. Promised(u, o)' = Promised(u, o) /\ Sent(u, o)' = Sent(u, o) /\ MappedTo(u, o)' = MappedTo(u, o)
    BY <1>1, <1>4, SameSets DEF Refusals
  <2>2. CASE AllMapped(r)
    <3>1. Listed(r, u, o) = {} /\ pc'[r] = "over"
      BY <2>2 DEF AllMapped, Listed, Refuse, Step, TypeOK
    <3>2. Even(u, o)'
      BY <1>1, <2>0, <2>1, <3>1, BesideEven DEF Even
    <3> QED
      BY <3>1, <3>2
  <2>3. ASSUME NEW p \in job[r].todo, SkipOrg(r, p) PROVE MapStage(r, u, o)' /\ Touches(r, u, o)' /\ pc'[r] # "over"
    <3>1. /\ job'[r].org = o /\ job'[r].user = job[r].user /\ job'[r].cleared = job[r].cleared
          /\ job'[r].op = "map" /\ o \notin job'[r].todo /\ pc'[r] = "remap" /\ Listed(r, u, o)' = Listed(r, u, o)
      BY <2>3, NextFields, NextMembers, TakesUpPlaces
    <3>2. BesideStage(r, u, o)'
      BY <1>1, <2>0, <2>1, <3>1 DEF BesideStage, Rebuilt, Even
    <3> QED
      BY <3>1, <3>2 DEF MapStage, MembersStage, Touches, WholeOrg
  <2>4. ASSUME NEW x \in job[r].list, NextOrg(r, x) PROVE Even(u, o)' /\ ~Touches(r, u, o)'
    <3>1. x.org \in job[r].todo /\ {y \in job[r].list : y.org = o} = {}
      BY <2>4 DEF NextOrg
    <3>2. job'[r].org # o /\ o \notin job'[r].todo /\ job'[r].op = "map"
      BY <2>4, <3>1, NextFields
    <3>3. Listed(r, u, o) = {}
      BY <3>1 DEF Listed
    <3>4. Even(u, o)'
      BY <1>1, <2>0, <2>1, <3>3, BesideEven DEF Even
    <3> QED
      BY <3>2, <3>4 DEF Touches, WholeOrg
  <2>5. ASSUME NEW x \in job[r].list, Remap(r, x) PROVE MapStage(r, u, o)' /\ Touches(r, u, o)' /\ pc'[r] # "over"
    <3>0. x.org = o /\ pc'[r] = IF x.user \in job[r].cleared THEN "roles" ELSE "clear"
      BY <2>5, TakesUpPlaces DEF Remap
    <3>1. /\ job'[r].org = o /\ job'[r].user = x.user /\ job'[r].cleared = job[r].cleared \cup {x.user}
          /\ job'[r].op = "map" /\ o \notin job'[r].todo /\ job'[r].roles = {x.role}
      BY <2>5, NextFields, NextMembers
    <3>2. /\ Listed(r, u, o)' \subseteq Listed(r, u, o)
          /\ Listed(r, u, o) \subseteq Listed(r, u, o)' \cup {x.role}
          /\ <<u, o>> # <<x.user, x.org>> => Listed(r, u, o)' = Listed(r, u, o)
      BY <2>5, NextMembers
    <3>3. CASE u = x.user
      <4>1. pc'[r] = "clear" => left'[r] = {"kcDrop", "drop"}
        BY <2>5, <3>0 DEF Remap, TypeOK
      <4>2. TurnStage(r, u, o)'
        BY <2>0, <2>1, <3>0, <3>1, <3>2, <3>3, <4>1 DEF TurnStage, BesideStage, Rebuilt
      <4> QED
        BY <3>0, <3>1, <3>3, <4>2 DEF MapStage, MembersStage, Clients, Touches, WholeOrg
    <3>4. CASE u # x.user
      <4>1. BesideStage(r, u, o)'
        BY <1>1, <2>0, <2>1, <3>1, <3>2, <3>4 DEF BesideStage, Rebuilt, Even
      <4> QED
        BY <3>0, <3>1, <3>4, <4>1 DEF MapStage, MembersStage, Clients, Touches, WholeOrg
    <3> QED
      BY <3>3, <3>4
  <2> QED
    BY <1>1, <1>4, <2>2, <2>3, <2>4, <2>5 DEF TakesUp
<1> QED
  BY <1>2, <1>3, <1>4

\* A loss is about the organisation at work; the others still wait.
LEMMA MapLoses ==
  ASSUME TypeOK, JobsFit, CallsFit, NEW r \in Requests, Loses(r), job[r].op = "map", NEW u \in Users, NEW o,
         o = job[r].org \/ o \in job[r].todo, pc[r] \notin {"idle", "over"}, <<u, o>> \notin drifted', MapStage(r, u, o)
  PROVE  IF pc'[r] = "over" THEN Even(u, o)' ELSE MapStage(r, u, o)'
<1>0. /\ job' = job /\ registered' = registered
      /\ Promised(u, o)' = Promised(u, o) /\ Sent(u, o)' = Sent(u, o) /\ MappedTo(u, o)' = MappedTo(u, o)
  BY LossesShow, SameSets DEF database
<1>1. CASE pc'[r] = "over"
  <2>1. Concerns(r) \subseteq drifted'
    BY <1>1, LossesShow
  <2>2. o # job[r].org
    BY <2>1 DEF Concerns, WholeOrg
  <2>3. Even(u, o)
    BY <2>2 DEF MapStage, TodoStage, AtRest, Even
  <2> QED
    BY <1>0, <1>1, <2>3 DEF Even
<1>2. CASE pc'[r] # "over"
  <2>1. pc'[r] = pc[r] /\ <<u, o>> # Pair(r)
    BY <1>2, LossesShow
  <2>2. o = job[r].org => u # job[r].user
    BY <2>1 DEF Pair
  <2>3. Listed(r, u, o)' = Listed(r, u, o)
    BY <1>0 DEF Listed
  <2>4. Waits(r, u, o)' = Waits(r, u, o) /\ BesideStage(r, u, o)' = BesideStage(r, u, o) /\ AtRest(u, o)' = AtRest(u, o)
    BY <1>0, <2>3 DEF Waits, BesideStage, Rebuilt, Even, AtRest
  <2>5. TodoStage(r, u, o)' = TodoStage(r, u, o)
    BY <1>0, <2>1, <2>4 DEF TodoStage
  <2>6. o = job[r].org => ClientStage(r, u, o)' = ClientStage(r, u, o) /\ MembersStage(r, u, o)' = MembersStage(r, u, o)
    BY <1>0, <2>1, <2>2, <2>4 DEF ClientStage, MembersStage
  <2> QED
    BY <1>0, <1>2, <2>1, <2>4, <2>5, <2>6 DEF MapStage
<1> QED
  BY <1>1, <1>2

\* What is not registered is read with its members, all of them.
LEMMA MapReads ==
  ASSUME TypeOK, NEW r \in Requests, ReadAllUnregistered(r), NEW u, NEW o \in Orgs, AtRest(u, o),
         o = job[r].org => job[r].cleared = {}
  PROVE  Touches(r, u, o)' => MapStage(r, u, o)'
<1>1. /\ job'[r].org = job[r].org /\ job'[r].op = "map" /\ pc'[r] = "remap"
      /\ job'[r].todo = Orgs \ registered /\ job'[r].list = {x \in rows : x.org \notin registered}
  BY NextFields, TakesUpPlaces, TakesUpForAll DEF TakesUp, ReadAllUnregistered
<1>2. job'[r].cleared = job[r].cleared
  <2> DEFINE next == [job[r] EXCEPT !.todo = Orgs \ registered, !.list = {x \in rows : x.org \notin registered}]
  <2>0. job \in [Requests -> Job] /\ job[r] \in Job
    BY JobTyped
  <2>1. next.cleared = job[r].cleared
    BY <2>0 DEF Job
  <2>2. job' = [job EXCEPT ![r] = next]
    BY NextJobs
  <2> HIDE DEF next
  <2> QED
    BY <2>0, <2>1, <2>2
<1>3. /\ Promised(u, o)' = Promised(u, o) /\ Sent(u, o)' = Sent(u, o) /\ MappedTo(u, o)' = MappedTo(u, o)
      /\ registered' = registered
  BY SameSets DEF TakesUp, ReadAllUnregistered, database
<1>4. CASE o \in registered
  <2>1. Touches(r, u, o)' => o = job[r].org
    BY <1>1, <1>4 DEF Touches, WholeOrg
  <2>2. o = job[r].org => BesideStage(r, u, o)'
    BY <1>2, <1>3 DEF BesideStage, AtRest, Even
  <2> QED
    BY <1>1, <1>4, <2>1, <2>2 DEF MapStage, MembersStage, Clients
<1>5. CASE o \notin registered
  <2>1. Listed(r, u, o)' = {x.role : x \in {y \in rows : y.user = u /\ y.org = o}}
    BY <1>1, <1>5 DEF Listed
  <2>2. RowsSent(u, o) = {}
    BY DEF AtRest, Sent
  <2>3. RowsAhead(u, o) = {y \in rows : y.user = u /\ y.org = o}
    BY <2>2 DEF RowsAhead, RowsSent
  <2>4. Listed(r, u, o)' = Promised(u, o)
    BY <2>1, <2>3 DEF Promised
  <2>5. TodoStage(r, u, o)'
    BY <1>1, <1>2, <1>3, <1>5, <2>4 DEF TodoStage, Waits, AtRest
  <2> QED
    BY <1>1, <1>5, <2>5 DEF MapStage
<1> QED
  BY <1>4, <1>5

-----------------------------------------------------------------------------
\* One request at a time, and its stage.

\* Mappings belong to a client that is there: it is made without any, and takes
\* them along.
LEMMA MappedHaveClientStep == MappedHaveClient /\ Next => MappedHaveClient'
<1> SUFFICES ASSUME MappedHaveClient, Next PROVE MappedHaveClient'
  OBVIOUS
<1>1. ASSUME NEW r \in Requests, Act(r) PROVE MappedHaveClient'
  <2>1. CASE DeleteClient(r)
    BY <2>1 DEF DeleteClient, MappedHaveClient
  <2>2. CASE Maps(r)
    <3>1. clients' = clients
      BY <2>2 DEF Maps, RoleMapped, RolesUnmapped, keycloak
    <3>2. CASE RoleMapped(r)
      BY <3>1, <3>2 DEF RoleMapped, MappedHaveClient
    <3>3. CASE RolesUnmapped(r)
      BY <3>1, <3>3 DEF RolesUnmapped, MappedHaveClient
    <3> QED
      BY <2>2, <3>2, <3>3 DEF Maps
  <2>3. CASE ~DeleteClient(r) /\ ~Maps(r)
    <3>1. mapped' = mapped
      BY <1>1, <2>3, MappedStays
    <3>2. clients \subseteq clients'
      BY <1>1, <2>3, Untouched DEF Keeps, CreateClient, StoreClient, ForgetClient, keycloak
    <3> QED
      BY <3>1, <3>2 DEF MappedHaveClient
  <2> QED
    BY <2>1, <2>2, <2>3
<1>2. ASSUME NEW x \in onTheWay, InsertRow(x) PROVE MappedHaveClient'
  BY <1>2 DEF InsertRow, MappedHaveClient, keycloak
<1>3. CASE Crash
  BY <1>3 DEF Crash, MappedHaveClient, keycloak
<1> QED
  BY <1>1, <1>2, <1>3, NextIsAct

\* Only a registration of all organisations takes up anything.
LEMMA TakesUpMaps == ASSUME JobsFit, NEW r \in Requests, TakesUp(r) PROVE job[r].op = "map"
BY DEF JobsFit, Fits, TakesUp, ReadAllUnregistered, SkipOrg, NextOrg, Remap, Step

\* A request may change a pair for the first time when it is asked for, or when
\* it reads what is not registered.
LEMMA TouchesBefore ==
  ASSUME TypeOK, JobsFit, NEW r \in Requests, Act(r), ~Asking(r), ~ReadAllUnregistered(r), NEW u, NEW o, Touches(r, u, o)'
  PROVE  Touches(r, u, o)
<1>1. CASE TakesUp(r)
  <2>1. Registers(r, o)'
    BY <1>1, TakesUpMaps, TakesUpForAll DEF Touches, Registers
  <2> QED
    BY <2>1, RegistersBefore, RegistersTouch
<1>2. CASE ~TakesUp(r)
  BY <1>2, Untouched DEF Touches
<1> QED
  BY <1>1, <1>2

\* The pair is known to have drifted if somebody else is at work on it then.
LEMMA Newcomers ==
  ASSUME TypeOK, NEW r \in Requests, Asking(r) \/ ReadAllUnregistered(r), NEW u \in Users, NEW o \in Orgs,
         <<u, o>> \notin drifted', Touches(r, u, o)', r \notin Underway \/ ~Touches(r, u, o)
  PROVE  ~OthersBusy(r, u, o)
<1>0. <<u, o>> \in Pairs
  BY DEF Pairs
<1>1. CASE Asking(r)
  <2>0. OthersBusy(r, u, o) => Busy(u, o)
    BY DEF OthersBusy, Busy
  <2>1. ASSUME NEW v, NEW p, NEW q, AskUpdate(r, v, p, q) PROVE ~Busy(u, o)
    <3>1. v = u /\ p = o
      BY <2>1, AskedFields DEF Touches, WholeOrg
    <3> QED
      BY <2>1, <3>1 DEF AskUpdate
  <2>2. ASSUME NEW i, NEW answer \in {"accept", "reject"}, AskAnswer(r, i, answer) PROVE ~Busy(u, o)
    <3>1. answer = "accept" /\ terms[i].user = u /\ terms[i].org = o
      BY <2>2, AskedFields DEF Touches, WholeOrg
    <3> QED
      BY <2>2, <3>1 DEF AskAnswer
  <2>3. ASSUME NEW op \in WholeOrg, NEW v, NEW p, AskWholeOrg(r, op, v, p) PROVE ~Busy(u, o)
    <3>1. p = o
      BY <2>3, AskedFields DEF Touches, WholeOrg
    <3> QED
      BY <1>0, <2>3, <3>1 DEF AskWholeOrg
  <2>4. ASSUME NEW v, NEW p, NEW q, AskInvite(r, v, p, q) PROVE FALSE
    BY <2>4, AskedFields DEF Touches, WholeOrg
  <2>5. ASSUME NEW i, AskWithdraw(r, i) PROVE FALSE
    BY <2>5, AskedFields DEF Touches, WholeOrg
  <2> QED
    BY <1>1, <2>0, <2>1, <2>2, <2>3, <2>4, <2>5 DEF Asking
<1>2. CASE ReadAllUnregistered(r)
  <2>1. /\ job'[r].org = job[r].org /\ job'[r].op = job[r].op /\ job'[r].todo = Orgs \ registered
        /\ job[r].op = "map" /\ pc[r] = "read"
    BY <1>2, NextFields, TakesUpPlaces, TakesUpForAll DEF TakesUp
  <2>2. ~Touches(r, u, o)
    BY <2>1 DEF Underway
  <2>3. o \notin registered
    BY <2>1, <2>2 DEF Touches, WholeOrg
  <2> QED
    BY <1>0, <1>2, <2>3 DEF ReadAllUnregistered
<1> QED
  BY <1>1, <1>2

\* No second request joins in where nothing has drifted.
LEMMA OneToucherStep == TypeOK /\ JobsFit /\ OneToucher /\ Next => OneToucher'
<1> SUFFICES ASSUME TypeOK, JobsFit, OneToucher, Next,
                    NEW u \in Users, NEW o \in Orgs, <<u, o>> \notin drifted',
                    NEW s \in Requests, pc'[s] \notin {"idle", "over"}, Touches(s, u, o)',
                    NEW t \in Requests, pc'[t] \notin {"idle", "over"}, Touches(t, u, o)'
             PROVE  s = t
  BY DEF OneToucher, Underway, Pairs, Touches
<1>0. ASSUME <<u, o>> \notin drifted, s \in Underway, t \in Underway, Touches(s, u, o), Touches(t, u, o) PROVE s = t
  BY <1>0 DEF OneToucher, Pairs
<1>1. ASSUME NEW r \in Requests, Act(r) PROVE s = t
  <2>0. <<u, o>> \notin drifted
    BY <1>1, Untouched
  <2>1. ASSUME NEW q \in Requests \ {r}, pc'[q] \notin {"idle", "over"}, Touches(q, u, o)'
        PROVE  q \in Underway /\ Touches(q, u, o)
    <3>1. pc'[q] = pc[q] /\ job'[q] = job[q]
      BY <1>1, OthersStay
    <3> QED
      BY <2>1, <3>1 DEF Underway, Touches
  <2>2. ASSUME pc'[r] \notin {"idle", "over"}, Touches(r, u, o)', NEW q \in Underway, q # r, Touches(q, u, o)
        PROVE  r \in Underway /\ Touches(r, u, o)
    <3>1. CASE Asking(r) \/ ReadAllUnregistered(r)
      BY <2>2, <3>1, Newcomers DEF OthersBusy
    <3>2. CASE ~Asking(r) /\ ~ReadAllUnregistered(r)
      BY <1>1, <2>2, <3>2, TouchesBefore, ActIsUnderway DEF Underway
    <3> QED
      BY <3>1, <3>2
  <2>3. CASE s # r /\ t # r
    BY <1>0, <2>0, <2>1, <2>3
  <2>4. CASE s = r /\ t # r
    <3>1. t \in Underway /\ Touches(t, u, o)
      BY <2>1, <2>4
    <3>2. r \in Underway /\ Touches(r, u, o)
      BY <2>2, <2>4, <3>1
    <3> QED
      BY <1>0, <2>0, <2>4, <3>1, <3>2
  <2>5. CASE s # r /\ t = r
    <3>1. s \in Underway /\ Touches(s, u, o)
      BY <2>1, <2>5
    <3>2. r \in Underway /\ Touches(r, u, o)
      BY <2>2, <2>5, <3>1
    <3> QED
      BY <1>0, <2>0, <2>5, <3>1, <3>2
  <2> QED
    BY <2>3, <2>4, <2>5
<1>2. ASSUME NEW x \in onTheWay, InsertRow(x) PROVE s = t
  BY <1>0, <1>2 DEF InsertRow, Underway, Touches
<1>3. CASE Crash
  BY <1>3 DEF Crash, Underway
<1> QED
  BY <1>1, <1>2, <1>3, NextIsAct

-----------------------------------------------------------------------------
\* What the stores hold is that of the stage.

\* A stage stays while the request and the stores do; rows may arrive.
LEMMA StageStays ==
  ASSUME NEW s \in Requests, NEW u, NEW o, StageOf(s, u, o),
         pc'[s] = pc[s], job'[s] = job[s], left'[s] = left[s], sound'[s] = sound[s],
         Promised(u, o)' = Promised(u, o), MappedTo(u, o)' = MappedTo(u, o), Sent(u, o)' \subseteq Sent(u, o),
         o \in registered' <=> o \in registered
  PROVE  StageOf(s, u, o)'
<1>1. Even(u, o)' = Even(u, o) /\ (AtRest(u, o) => AtRest(u, o)')
  BY DEF Even, AtRest
<1>2. Granting(s)' = Granting(s) /\ Listed(s, u, o)' = Listed(s, u, o)
  BY DEF Granting, Listed
<1>3. CASE job[s].op \in {"accept", "update"}
  <2>1. MemberStage(s, u, o)
    BY <1>3 DEF StageOf
  <2>2. MemberStage(s, u, o)'
    BY <1>1, <1>2, <2>1 DEF MemberStage
  <2> QED
    BY <1>3, <2>2 DEF StageOf
<1>4. OwnerStage(s, u, o) => OwnerStage(s, u, o)'
  BY <1>2 DEF OwnerStage
<1>5. CASE job[s].op = "register"
  BY <1>1, <1>4, <1>5 DEF StageOf, RegisterStage
<1>6. CASE job[s].op = "map"
  <2>1. Waits(s, u, o) => Waits(s, u, o)'
    BY <1>2 DEF Waits
  <2>2. TodoStage(s, u, o) => TodoStage(s, u, o)'
    BY <2>1 DEF TodoStage
  <2>3. ClientStage(s, u, o) => ClientStage(s, u, o)'
    BY <1>2, <1>4, <2>1 DEF ClientStage
  <2>4. BesideStage(s, u, o) => BesideStage(s, u, o)'
    BY <1>1, <1>2 DEF BesideStage, Rebuilt
  <2>5. TurnStage(s, u, o) => TurnStage(s, u, o)'
    BY <1>2 DEF TurnStage, Rebuilt
  <2>6. MembersStage(s, u, o) => MembersStage(s, u, o)'
    BY <2>4, <2>5 DEF MembersStage
  <2>7. MapStage(s, u, o) => MapStage(s, u, o)'
    BY <1>1, <2>2, <2>3, <2>6 DEF MapStage
  <2> QED
    BY <1>6, <2>7 DEF StageOf
<1>7. CASE job[s].op \notin {"accept", "update", "register", "map"}
  BY <1>1, <1>7 DEF StageOf
<1> QED
  BY <1>3, <1>5, <1>6, <1>7

\* Who may not change a pair does not.
LEMMA NotTouching ==
  ASSUME TypeOK, JobsFit, NEW r \in Requests, Act(r), NEW u, NEW o, r \notin Underway \/ ~Touches(r, u, o)
  PROVE  /\ Promised(u, o)' = Promised(u, o) /\ Sent(u, o)' = Sent(u, o) /\ MappedTo(u, o)' = MappedTo(u, o)
         /\ o \in registered' <=> o \in registered
<1>0. Fits(r)
  BY DEF JobsFit
<1>1. CASE Asking(r)
  BY <1>1, AskIsFirst, SetsStay DEF database, keycloak
<1>2. CASE ~Asking(r)
  <2>1. ~Touches(r, u, o)
    BY <1>2, ActIsUnderway DEF Underway
  <2>2. Keeps(r) => job[r].org # o
    BY <1>0, <2>1 DEF Keeps, CreateClient, StoreClient, DeleteClient, ForgetClient, Touches, WholeOrg, Fits, Step
  <2>3. o \in registered' <=> o \in registered
    <3>1. CASE Keeps(r)
      BY <2>2, <3>1 DEF Keeps, CreateClient, StoreClient, DeleteClient, ForgetClient, database
    <3> QED
      BY <3>1, Untouched
  <2>4. CASE <<u, o>> # Pair(r)
    <3>1. Promised(u, o)' = Promised(u, o) /\ Sent(u, o)' = Sent(u, o)
      BY <1>2, <2>4, OtherPairs
    <3>2. CASE DeleteClient(r)
      <4>1. \A q : <<u, o, q>> \in mapped' <=> <<u, o, q>> \in mapped
        BY <2>2, <3>2 DEF Keeps, DeleteClient
      <4> QED
        BY <2>3, <3>1, <4>1 DEF MappedTo
    <3>3. CASE ~DeleteClient(r)
      BY <1>2, <2>3, <2>4, <3>1, <3>3, OtherPairs
    <3> QED
      BY <3>2, <3>3
  <2>5. CASE <<u, o>> = Pair(r)
    <3>1. job[r].op \notin {"accept", "update", "register", "map", "unregister"}
      BY <2>1, <2>5 DEF Touches, WholeOrg, Pair
    <3>2. ~GrantRole(r) /\ ~Sends(r) /\ ~RowsDropped(r) /\ ~Maps(r) /\ ~Keeps(r) /\ ~TakesUp(r)
      BY <1>0, <3>1, TakesUpMaps DEF GrantRole, Sends, AcceptClient, ReplaceRows, Regrant, RegisterOwner, RowsDropped,
         Maps, RoleMapped, RolesUnmapped, Settle, Calling, Keeps, CreateClient, StoreClient, DeleteClient,
         ForgetClient, Fits, Step
    <3> QED
      BY <1>2, <2>3, <3>2, SameSets DEF Act
  <2> QED
    BY <2>4, <2>5
<1> QED
  BY <1>1, <1>2

\* A request starts on stores at rest.
LEMMA AskStage ==
  ASSUME TypeOK, NEW r \in Requests, Asking(r), NEW u \in Users, NEW o \in Orgs, <<u, o>> \notin drifted',
         Touches(r, u, o)', AtRest(u, o)
  PROVE  StageOf(r, u, o)'
<1>1. pc'[r] = "read" /\ AtRest(u, o)' /\ Even(u, o)'
  BY AskIsFirst, SetsStay DEF database, keycloak, AtRest, Even
<1>2. ASSUME NEW op \in WholeOrg, NEW v \in Users, NEW p \in Orgs, AskWholeOrg(r, op, v, p)
      PROVE  StageOf(r, u, o)'
  <2> DEFINE what == [NoJob EXCEPT !.op = op, !.user = v, !.org = p, !.roles = {Owner}]
  <2>0. what.op = op /\ what.user = v /\ what.org = p /\ what.roles = {Owner} /\ what.cleared = {} /\ what.todo = {}
    BY DEF NoJob
  <2>1. job' = [job EXCEPT ![r] = what]
    BY <1>2 DEF AskWholeOrg, Ask
  <2> HIDE DEF what
  <2>2. /\ job'[r].op = op /\ job'[r].user = v /\ job'[r].org = p /\ job'[r].roles = {Owner} /\ job'[r].cleared = {}
        /\ job'[r].todo = {}
    BY <2>0, <2>1 DEF TypeOK
  <2>3. p = o
    BY <2>2 DEF Touches, WholeOrg
  <2>4. op = "register" => u = v
    BY <1>2, <2>3 DEF AskWholeOrg, Pairs
  <2>5. OwnerStage(r, u, o)'
    BY <1>1, <2>2 DEF OwnerStage
  <2>6. op = "register" => RegisterStage(r, u, o)'
    BY <1>1, <2>2, <2>3, <2>4, <2>5 DEF RegisterStage
  <2>7. MapStage(r, u, o)'
    BY <1>1, <2>2 DEF MapStage, Clients
  <2> QED
    BY <1>1, <2>2, <2>3, <2>6, <2>7 DEF StageOf, WholeOrg
<1>3. CASE job'[r].op \in {"accept", "update"}
  <2>1. MemberStage(r, u, o)'
    BY <1>1 DEF MemberStage
  <2> QED
    BY <1>3, <2>1 DEF StageOf
<1>4. CASE job'[r].op \notin {"accept", "update"}
  <2>1. ASSUME NEW v, NEW p, NEW q, AskInvite(r, v, p, q) PROVE FALSE
    BY <2>1, AskedFields DEF Touches, WholeOrg
  <2>2. ASSUME NEW v, NEW p, NEW q, AskUpdate(r, v, p, q) PROVE FALSE
    BY <1>4, <2>2, AskedFields
  <2>3. ASSUME NEW i, NEW answer \in {"accept", "reject"}, AskAnswer(r, i, answer) PROVE FALSE
    BY <1>4, <2>3, AskedFields DEF Touches, WholeOrg
  <2>4. ASSUME NEW i, AskWithdraw(r, i) PROVE FALSE
    BY <2>4, AskedFields DEF Touches, WholeOrg
  <2> QED
    BY <1>2, <2>1, <2>2, <2>3, <2>4 DEF Asking
<1> QED
  BY <1>3, <1>4

\* A registration is withdrawn with all mappings.
LEMMA UnregisterStep ==
  ASSUME TypeOK, JobsFit, NEW r \in Requests, Act(r), ~Asking(r), job[r].op = "unregister",
         NEW u \in Users, NEW o, o = job[r].org, <<u, o>> \notin drifted', pc[r] = "read" => Even(u, o)
  PROVE  IF pc'[r] = "over" THEN Even(u, o)' ELSE pc'[r] = "read" => Even(u, o)'
<1> USE DEF Step
<1>0. Fits(r) /\ pc \in [Requests -> Pcs] /\ pc[r] \notin {"idle", "over"}
  BY ActIsUnderway DEF JobsFit, TypeOK
<1>1. pc[r] \in {"read", "store"}
  BY <1>0 DEF Fits, Pcs
<1>2. CASE Loses(r)
  <2>1. pc'[r] = pc[r]
    BY <1>2, LossesShow DEF Concerns, WholeOrg
  <2>2. /\ Promised(u, o)' = Promised(u, o) /\ MappedTo(u, o)' = MappedTo(u, o) /\ registered' = registered
    BY <1>2, SameSets, LossesShow DEF database
  <2> QED
    BY <1>0, <2>1, <2>2 DEF Even
<1>3. CASE DeleteClient(r)
  BY <1>0, <1>3 DEF DeleteClient
<1>4. CASE ForgetClient(r)
  BY <1>4 DEF ForgetClient, Even
<1>5. CASE NoClient(r)
  <2>1. Refusals(r) /\ pc[r] = "read" /\ registered' = registered
    BY <1>5 DEF Refusals, NoClient, Refuse, database
  <2> QED
    BY <2>1, SameSets DEF Even
<1>6. DeleteClient(r) \/ ForgetClient(r) \/ NoClient(r) \/ Loses(r)
  <2>1. ~Checks(r) /\ ~Creates(r) /\ ~Writes(r) /\ ~GrantRole(r)
    BY <1>0, <1>1 DEF Checks, CheckInvited, ReadInvitation, CountOrgs, ReadOrg, CheckMember, ReadUnregistered,
       AllSettled, Calling, Creates, CreateSendInvitation, Writes, Reject, Withdraw, Accept, StatusWritten, Settle,
       GrantRole
  <2>2. ~Sends(r) /\ ~ClearRoles(r) /\ ~RowsDropped(r) /\ ~Maps(r) /\ ~TakesUp(r)
    BY <1>0, <1>1, TakesUpMaps DEF Sends, AcceptClient, ReplaceRows, Regrant, RegisterOwner, ClearRoles, RowsDropped,
       Maps, RoleMapped, RolesUnmapped, Settle, Calling
  <2>3. Refusals(r) => NoClient(r)
    BY <1>0, <1>1 DEF Refusals, InvitedAlready, InvitationClosed, LimitReached, InvitationGone, NotAMember,
              NothingToReplace, NewSecret, ClientExists, AllMapped, Refuse
  <2>4. Keeps(r) => DeleteClient(r) \/ ForgetClient(r)
    BY <1>0, <1>1 DEF Keeps, CreateClient, StoreClient
  <2> QED
    BY <2>1, <2>2, <2>3, <2>4 DEF Act
<1> QED
  BY <1>2, <1>3, <1>4, <1>5, <1>6

\* A request goes from stage to stage, and leaves the stores even.
LEMMA StageOfStep ==
  ASSUME TypeOK, JobsFit, CallsFit, MappedHaveClient, NEW r \in Requests, Act(r), ~Asking(r), ~ReadAllUnregistered(r),
         NEW u \in Users, NEW o \in Orgs, <<u, o>> \notin drifted' \cup torn', Touches(r, u, o), StageOf(r, u, o)
  PROVE  IF pc'[r] = "over" \/ ~Touches(r, u, o)' THEN Even(u, o)' ELSE StageOf(r, u, o)'
<1>0. r \in Underway /\ job'[r].op = job[r].op /\ pc[r] \notin {"idle", "over"}
  BY ActIsUnderway, JobStays DEF Underway
<1>1. job[r].op # "map" => ~TakesUp(r) /\ job' = job
  BY TakesUpMaps, Untouched
<1>2. CASE job[r].op \in {"accept", "update"}
  <2>1. <<u, o>> = Pair(r) /\ MemberStage(r, u, o) /\ Touches(r, u, o)'
    BY <1>1, <1>2 DEF StageOf, Touches, WholeOrg, Pair
  <2>2. IF pc'[r] = "over" THEN Even(u, o)' ELSE MemberStage(r, u, o)'
    BY <1>2, <2>1, MemberStageStep
  <2> QED
    BY <1>0, <1>2, <2>1, <2>2 DEF StageOf
<1>3. CASE job[r].op = "register"
  <2>1. RegisterStage(r, u, o) /\ Touches(r, u, o)'
    BY <1>1, <1>3 DEF StageOf, Touches
  <2>2. IF pc'[r] = "over" THEN Even(u, o)' ELSE RegisterStage(r, u, o)'
    BY <1>0, <1>3, <2>1, RegisterStageStep
  <2> QED
    BY <1>0, <1>3, <2>1, <2>2 DEF StageOf
<1>4. CASE job[r].op = "unregister"
  <2>1. o = job[r].org /\ (pc[r] = "read" => Even(u, o)) /\ Touches(r, u, o)' /\ o = job'[r].org
    BY <1>1, <1>4 DEF StageOf, Touches
  <2>2. IF pc'[r] = "over" THEN Even(u, o)' ELSE pc'[r] = "read" => Even(u, o)'
    BY <1>4, <2>1, UnregisterStep
  <2> QED
    BY <1>0, <1>4, <2>1, <2>2 DEF StageOf
<1>5. CASE job[r].op = "map"
  <2>0. MapStage(r, u, o) /\ (o = job[r].org \/ o \in job[r].todo)
    BY <1>5, MapTouches DEF StageOf
  <2>1. CASE Loses(r)
    <3>1. Touches(r, u, o)'
      BY <2>1, LossesShow DEF Touches
    <3>2. IF pc'[r] = "over" THEN Even(u, o)' ELSE MapStage(r, u, o)'
      BY <1>0, <1>5, <2>0, <2>1, MapLoses
    <3> QED
      BY <1>0, <1>5, <3>1, <3>2 DEF StageOf
  <2>2. CASE ~Loses(r) /\ o \in job[r].todo
    <3>1. pc[r] # "read"
      BY <1>5, <2>2, MapActs DEF Clients
    <3>2. TodoStage(r, u, o)
      BY <2>0, <2>2, <3>1 DEF MapStage
    <3>3. IF pc'[r] = "over" \/ ~Touches(r, u, o)' THEN Even(u, o)' ELSE MapStage(r, u, o)'
      BY <1>5, <2>2, <3>1, <3>2, TodoStageStep
    <3> QED
      BY <1>0, <1>5, <3>3 DEF StageOf
  <2>3. CASE ~Loses(r) /\ o \notin job[r].todo /\ pc[r] \in Clients
    <3>1. ClientStage(r, u, o)
      BY <2>0, <2>3 DEF MapStage, Clients
    <3>2. job' = job
      BY <2>3, ClientActs, <1>5
    <3>3. Touches(r, u, o)'
      BY <3>2 DEF Touches
    <3>4. IF pc'[r] = "over" THEN Even(u, o)' ELSE MapStage(r, u, o)'
      BY <1>5, <2>0, <2>3, <3>1, ClientStageStep
    <3> QED
      BY <1>0, <1>5, <3>3, <3>4 DEF StageOf
  <2>4. CASE ~Loses(r) /\ o \notin job[r].todo /\ pc[r] \notin Clients
    <3>1. pc[r] \in {"remap", "clear", "roles", "regrant"}
      BY <1>5, <2>4, MapActs
    <3>2. MembersStage(r, u, o)
      BY <2>0, <2>4, <3>1 DEF MapStage
    <3>3. IF pc'[r] = "over" \/ ~Touches(r, u, o)' THEN Even(u, o)' ELSE MapStage(r, u, o)'
      BY <1>5, <2>0, <2>4, <3>1, <3>2, MembersStageStep
    <3> QED
      BY <1>0, <1>5, <3>3 DEF StageOf
  <2> QED
    BY <2>1, <2>2, <2>3, <2>4
<1>6. job[r].op \in {"accept", "update", "register", "map", "unregister"}
  BY DEF Touches, WholeOrg
<1> QED
  BY <1>2, <1>3, <1>4, <1>5, <1>6

\* Where nobody was at work and no row is on its way, the stores are at rest.
LEMMA NobodyAtWork ==
  ASSUME JobsFit, StoresFit, NEW r \in Requests, NEW u \in Users, NEW o \in Orgs, <<u, o>> \notin drifted \cup torn,
         ~OthersBusy(r, u, o), r \notin Underway \/ ~Touches(r, u, o)
  PROVE  AtRest(u, o)
<1>1. \A s \in Underway : ~Touches(s, u, o)
  BY DEF OthersBusy
<1>2. Even(u, o)
  BY <1>1 DEF StoresFit, Pairs
<1>3. Sent(u, o) = {}
  BY DEF OthersBusy, Arriving, Sent, RowsSent
<1> QED
  BY <1>2, <1>3 DEF AtRest

\* A registration that reads what is not registered takes up members at rest.
LEMMA ReadStep ==
  ASSUME TypeOK, NEW r \in Requests, ReadAllUnregistered(r), NEW u, NEW o \in Orgs, AtRest(u, o),
         o = job[r].org => job[r].cleared = {}
  PROVE  IF pc'[r] = "over" \/ ~Touches(r, u, o)' THEN Even(u, o)' ELSE StageOf(r, u, o)'
<1>0. TakesUp(r)
  BY DEF TakesUp
<1>1. pc'[r] = "remap" /\ job'[r].op = "map" /\ registered' = registered
  BY <1>0, TakesUpPlaces, TakesUpForAll DEF database
<1>2. Even(u, o)'
  BY <1>0, <1>1, SameSets DEF AtRest, Even
<1>3. Touches(r, u, o)' => MapStage(r, u, o)'
  BY MapReads
<1> QED
  BY <1>1, <1>2, <1>3 DEF StageOf

\* A crash leaves a pair alone that no request and no row had to do with.
LEMMA CrashLeavesEven ==
  ASSUME StoresFit, Crash, NEW u \in Users, NEW o \in Orgs, <<u, o>> \notin drifted' \cup torn'
  PROVE  Even(u, o)'
<1>0. /\ <<u, o>> \notin drifted \cup torn /\ rows' = rows /\ onTheWay' = {} /\ mapped' = mapped
      /\ registered' = registered
  BY DEF Crash, database, keycloak
<1>1. \A x \in onTheWay : <<x.user, x.org>> # <<u, o>>
  BY DEF Crash
<1>2. RowsAhead(u, o)' = RowsAhead(u, o)
  BY <1>0, <1>1 DEF RowsAhead
<1>3. Promised(u, o)' = Promised(u, o) /\ MappedTo(u, o)' = MappedTo(u, o)
  BY <1>0, <1>2, SetsStay DEF Promised
<1>4. Even(u, o)
  <2>1. CASE \A s \in Underway : ~Touches(s, u, o)
    BY <1>0, <2>1 DEF StoresFit, Pairs
  <2>2. ASSUME NEW s \in Underway, Touches(s, u, o) PROVE Even(u, o)
    <3>1. StageOf(s, u, o)
      BY <1>0, <2>2 DEF StoresFit, Pairs
    <3>2. <<u, o>> \notin Concerns(s)
      BY DEF Crash
    <3>3. job[s].op \in WholeOrg /\ job[s].org # o /\ o \in job[s].todo
      BY <2>2, <3>2 DEF Touches, Concerns, Pair, WholeOrg
    <3>4. MapStage(s, u, o)
      BY <3>1, <3>3 DEF StageOf, RegisterStage, WholeOrg
    <3> QED
      BY <3>3, <3>4 DEF MapStage, TodoStage, AtRest, Even
  <2> QED
    BY <2>1, <2>2
<1> QED
  BY <1>0, <1>3, <1>4 DEF Even

\* Every step leaves the stores at what the stages say.
LEMMA StoresFitStep ==
  TypeOK /\ JobsFit /\ CallsFit /\ OneToucher /\ MappedHaveClient /\ StoresFit /\ Next => StoresFit'
<1> SUFFICES ASSUME TypeOK, JobsFit, CallsFit, OneToucher, MappedHaveClient, StoresFit, Next,
                    NEW u \in Users, NEW o \in Orgs, <<u, o>> \notin drifted' \cup torn'
             PROVE  /\ \A s \in Requests : pc'[s] \notin {"idle", "over"} /\ Touches(s, u, o)' => StageOf(s, u, o)'
                    /\ (\A s \in Requests : pc'[s] \notin {"idle", "over"} => ~Touches(s, u, o)') => Even(u, o)'
  <2>1. ASSUME NEW p \in Pairs \ (drifted' \cup torn') PROVE p[1] \in Users /\ p[2] \in Orgs /\ p = <<p[1], p[2]>>
    BY DEF Pairs
  <2> QED
    BY <2>1 DEF StoresFit, Underway
<1> DEFINE AtWork(s) == s \in Underway /\ Touches(s, u, o)
           Still(s)  == pc'[s] \notin {"idle", "over"} /\ Touches(s, u, o)'
<1>1. ASSUME NEW r \in Requests, Act(r)
      PROVE  (\A s \in Requests : Still(s) => StageOf(s, u, o)') /\ ((\A s \in Requests : ~Still(s)) => Even(u, o)')
  <2>0. <<u, o>> \notin drifted \cup torn /\ <<u, o>> \in Pairs
    BY <1>1, Untouched DEF Pairs
  <2>1. \A s \in Requests : AtWork(s) => StageOf(s, u, o)
    BY <2>0 DEF StoresFit, Underway
  <2>2. ASSUME NEW s \in Requests \ {r} PROVE Still(s) <=> AtWork(s)
    <3>1. pc'[s] = pc[s] /\ job'[s] = job[s]
      BY <1>1, OthersStay
    <3> QED
      BY <3>1 DEF Underway, Touches
  <2>3. CASE AtWork(r)
    <3>1. ~Asking(r) /\ pc'[r] # "idle"
      BY <1>1, <2>3, AskIsFirst, ActIsUnderway DEF Underway
    <3>2. IF pc'[r] = "over" \/ ~Touches(r, u, o)' THEN Even(u, o)' ELSE StageOf(r, u, o)'
      <4>1. CASE ReadAllUnregistered(r)
        <5>1. MapStage(r, u, o) /\ pc[r] = "read"
          BY <2>1, <2>3, <4>1, TakesUpPlaces, TakesUpForAll DEF StageOf, TakesUp
        <5> QED
          BY <4>1, <5>1, ReadStep DEF MapStage
      <4>2. CASE ~ReadAllUnregistered(r)
        BY <1>1, <2>1, <2>3, <3>1, <4>2, StageOfStep
      <4> QED
        BY <4>1, <4>2
    <3>3. \A s \in Requests \ {r} : ~Still(s)
      BY <2>0, <2>2, <2>3 DEF OneToucher, Underway
    <3> QED
      BY <3>1, <3>2, <3>3
  <2>4. CASE ~AtWork(r)
    <3>1. /\ Promised(u, o)' = Promised(u, o) /\ Sent(u, o)' = Sent(u, o) /\ MappedTo(u, o)' = MappedTo(u, o)
          /\ o \in registered' <=> o \in registered
      BY <1>1, <2>4, NotTouching
    <3>2. ASSUME NEW s \in Requests \ {r}, Still(s) PROVE StageOf(s, u, o)'
      <4>1. StageOf(s, u, o)
        BY <2>1, <2>2, <3>2
      <4>2. pc'[s] = pc[s] /\ job'[s] = job[s] /\ left'[s] = left[s] /\ sound'[s] = sound[s]
        BY <1>1, OthersStay
      <4> QED
        BY <3>1, <4>1, <4>2, StageStays
    <3>3. ASSUME Still(r) PROVE StageOf(r, u, o)'
      <4>1. Asking(r) \/ ReadAllUnregistered(r)
        BY <1>1, <2>4, <3>3, TouchesBefore, ActIsUnderway DEF Underway
      <4>2. AtRest(u, o)
        BY <2>0, <2>4, <3>3, <4>1, Newcomers, NobodyAtWork
      <4>3. CASE Asking(r)
        BY <3>3, <4>2, <4>3, AskStage
      <4>4. CASE ReadAllUnregistered(r)
        <5>1. job[r].op = "map" /\ r \in Underway
          BY <4>4, TakesUpPlaces, TakesUpForAll DEF TakesUp, Underway
        <5>2. o # job[r].org
          BY <2>4, <5>1, MapTouches
        <5> QED
          BY <3>3, <4>2, <4>4, <5>2, ReadStep
      <4> QED
        BY <4>1, <4>3, <4>4
    <3>4. ASSUME \A s \in Requests : ~Still(s) PROVE Even(u, o)'
      <4>1. \A s \in Underway : ~Touches(s, u, o)
        BY <2>2, <2>4, <3>4 DEF Underway
      <4>2. Even(u, o)
        BY <2>0, <4>1 DEF StoresFit
      <4> QED
        BY <3>1, <4>2 DEF Even
    <3> QED
      BY <3>2, <3>3, <3>4
  <2> QED
    BY <2>3, <2>4
<1>2. ASSUME NEW x \in onTheWay, InsertRow(x)
      PROVE  (\A s \in Requests : Still(s) => StageOf(s, u, o)') /\ ((\A s \in Requests : ~Still(s)) => Even(u, o)')
  <2>1. /\ pc' = pc /\ job' = job /\ left' = left /\ sound' = sound /\ drifted' = drifted /\ torn' = torn
        /\ mapped' = mapped /\ registered' = registered
        /\ onTheWay' = onTheWay \ {x} /\ rows' = rows \cup {x}
    BY <1>2 DEF InsertRow, keycloak
  <2>2. RowsAhead(u, o)' = RowsAhead(u, o) /\ RowsSent(u, o)' \subseteq RowsSent(u, o)
    BY <2>1 DEF RowsAhead, RowsSent
  <2>3. Promised(u, o)' = Promised(u, o) /\ Sent(u, o)' \subseteq Sent(u, o) /\ MappedTo(u, o)' = MappedTo(u, o)
    BY <2>1, <2>2, SetsStay DEF Promised, Sent
  <2>4. <<u, o>> \in Pairs \ (drifted \cup torn)
    BY <2>1 DEF Pairs
  <2>5. ASSUME NEW s \in Requests, Still(s) PROVE StageOf(s, u, o)'
    <3>1. StageOf(s, u, o)
      BY <2>1, <2>4, <2>5 DEF StoresFit, Underway, Touches
    <3> QED
      BY <2>1, <2>3, <3>1, StageStays
  <2>6. ASSUME \A s \in Requests : ~Still(s) PROVE Even(u, o)'
    <3>1. \A s \in Underway : ~Touches(s, u, o)
      BY <2>1, <2>6 DEF Underway, Touches
    <3>2. Even(u, o)
      BY <2>4, <3>1 DEF StoresFit
    <3> QED
      BY <2>1, <2>3, <3>2 DEF Even
  <2> QED
    BY <2>5, <2>6
<1>3. CASE Crash
  <2>1. \A s \in Requests : pc'[s] \in {"idle", "over"}
    BY <1>3 DEF Crash, Underway
  <2> QED
    BY <1>3, <2>1, CrashLeavesEven
<1> QED
  BY <1>1, <1>2, <1>3, NextIsAct

-----------------------------------------------------------------------------
\* The inductive invariant holds.

LEMMA InitIInv == Init => IInv
<1> SUFFICES ASSUME Init PROVE IInv
  OBVIOUS
<1>1. TypeOK
  BY InitTypeOK
<1>2. /\ \A r \in Requests : pc[r] = "idle" /\ job[r].op = "none" /\ left[r] = {} /\ sound[r] = TRUE
      /\ Underway = {} /\ onTheWay = {}
  <2>1. NoJob.op = "none"
    BY DEF NoJob
  <2> QED
    BY <2>1 DEF Init, Underway
<1>3. JobsFit
  <2>1. \A i \in Invitations : terms[i].roles # {}
    <3> SUFFICES ASSUME NEW i \in Invitations PROVE terms[i].roles # {}
      OBVIOUS
    <3>1. terms[i].roles \in {{q} : q \in Roles}
      BY DEF Init
    <3> QED
      BY <3>1
  <2>2. \A r \in Requests : Fits(r)
    BY <1>2 DEF Fits
  <2> QED
    BY <2>1, <2>2 DEF JobsFit
<1>4. CallsFit
  BY <1>2 DEF CallsFit, CallsOf
<1>5. \A x \in rows \cup onTheWay : x.user = Founder /\ x.by = "creation"
  BY DEF Init
<1>6. MembersKept
  <2> SUFFICES ASSUME NEW p \in joined PROVE RowsOf(p[1], p[2]) # {}
    BY DEF MembersKept
  <2>1. p[1] = Founder /\ p[2] \in Orgs
    BY DEF Init
  <2>2. [user |-> Founder, org |-> p[2], role |-> Owner, by |-> "creation"] \in RowsOf(p[1], p[2])
    BY <2>1 DEF Init, RowsOf
  <2> QED
    BY <2>2
<1>7. RowsFit /\ GrantsAccepted
  BY <1>5, ConstantsAssumption DEF RowsFit, GrantsAccepted
<1>8. OneAnswer /\ OneInvite /\ AcceptsAlone /\ RoomForOne
  BY <1>2 DEF OneAnswer, OneInvite, AcceptsAlone, RoomForOne
<1>9. AnswersFresh /\ InviteChecked
  BY <1>2 DEF AnswersFresh, InviteChecked
<1>10. OneOpenInvitation
  <2>1. \A i \in Invitations : status[i] \in {"none", "pending"}
    BY DEF Init
  <2> QED
    BY <2>1 DEF Init, OneOpenInvitation
<1>11. WithinLimit
  <2> SUFFICES ASSUME NEW u \in Users \ {Founder} PROVE Cardinality(Potential(u)) <= Limit
    BY DEF WithinLimit
  <2>1. Potential(u) = {}
    BY <1>2, <1>5 DEF Potential, RowsOf, Arriving
  <2> QED
    BY <2>1, FS_EmptySet, ConstantsAssumption
<1>12. OneRegistration
  BY <1>2 DEF OneRegistration
<1>13. ClientsKnown
  <2>1. \A r \in Requests, o \in Orgs : ~Made(r, o) /\ ~Withdrawn(r, o)
    BY <1>2 DEF Made, Withdrawn
  <2> QED
    BY <2>1 DEF ClientsKnown, Init
<1>14. OneToucher /\ MappedHaveClient
  BY <1>2 DEF OneToucher, MappedHaveClient, Init
<1>15. StoresFit
  <2> SUFFICES ASSUME NEW u \in Users, NEW o \in registered PROVE Promised(u, o) = MappedTo(u, o)
    BY <1>2 DEF StoresFit, Even, Pairs
  <2>0. o \in Orgs
    BY DEF Init
  <2>1. CASE u = Founder
    <3>1. RowsAhead(u, o) = {[user |-> Founder, org |-> o, role |-> Owner, by |-> "creation"]}
      BY <1>2, <2>0, <2>1 DEF RowsAhead, Init
    <3>2. Promised(u, o) = {Owner}
      BY <3>1 DEF Promised
    <3>3. MappedTo(u, o) = {Owner}
      BY <2>1, ConstantsAssumption DEF MappedTo, Init
    <3> QED
      BY <3>2, <3>3
  <2>2. CASE u # Founder
    <3>1. RowsAhead(u, o) = {}
      BY <1>5, <2>2 DEF RowsAhead
    <3>2. Promised(u, o) = {}
      BY <3>1 DEF Promised
    <3>3. MappedTo(u, o) = {}
      BY <2>2 DEF MappedTo, Init
    <3> QED
      BY <3>2, <3>3
  <2> QED
    BY <2>1, <2>2
<1> QED
  BY <1>1, <1>3, <1>4, <1>6, <1>7, <1>8, <1>9, <1>10, <1>11, <1>12, <1>13, <1>14, <1>15 DEF IInv

LEMMA NextIInv == IInv /\ [Next]_vars => IInv'
<1> SUFFICES ASSUME IInv, [Next]_vars PROVE IInv'
  OBVIOUS
<1>1. CASE Next
  <2> USE DEF IInv
  <2>1. TypeOK' /\ JobsFit' /\ CallsFit'
    BY <1>1, NextTypeOK, JobsFitStep, CallsFitStep
  <2>2. MembersKept' /\ RowsFit'
    BY <1>1, MembersKeptStep, RowsFitStep
  <2>3. OneAnswer' /\ AnswersFresh' /\ GrantsAccepted'
    BY <1>1, OneAnswerStep, AnswersFreshStep, GrantsAcceptedStep
  <2>4. OneInvite' /\ InviteChecked' /\ OneOpenInvitation'
    BY <1>1, OneInviteStep, InviteCheckedStep, OneOpenStep
  <2>5. AcceptsAlone' /\ RoomForOne' /\ WithinLimit'
    BY <1>1, AcceptsAloneStep, RoomForOneStep, WithinLimitStep
  <2>6. OneRegistration' /\ ClientsKnown'
    BY <1>1, OneRegistrationStep, ClientsKnownStep
  <2>7. OneToucher' /\ MappedHaveClient' /\ StoresFit'
    BY <1>1, OneToucherStep, MappedHaveClientStep, StoresFitStep
  <2> QED
    BY <2>1, <2>2, <2>3, <2>4, <2>5, <2>6, <2>7
<1>2. CASE UNCHANGED vars
  <2> USE <1>2 DEF IInv, vars, database, keycloak, memory, history
  <2>1. TypeOK'
    BY NextTypeOK
  <2>2. JobsFit' /\ CallsFit'
    BY DEF JobsFit, Fits, CallsFit, CallsOf, Calling
  <2>3. MembersKept' /\ RowsFit'
    BY DEF MembersKept, RowsOf, Arriving, Owes, Pair, RowsFit
  <2>4. OneAnswer' /\ AnswersFresh' /\ GrantsAccepted'
    BY DEF OneAnswer, AnswersFresh, AnswerFresh, GrantsAccepted, Underway
  <2>5. OneInvite' /\ InviteChecked' /\ OneOpenInvitation'
    BY DEF OneInvite, InviteChecked, OneOpenInvitation, Open, Terms, Pair, Underway
  <2>6. Underway' = Underway /\ \A u : Potential(u)' = Potential(u)
    BY DEF Underway, Potential, RowsOf, Arriving, Restores
  <2>7. AcceptsAlone' /\ RoomForOne' /\ WithinLimit'
    BY <2>6 DEF AcceptsAlone, RoomForOne, WithinLimit, Accepting, Rewrites
  <2>8. OneRegistration' /\ ClientsKnown'
    BY <2>6 DEF OneRegistration, ClientsKnown, Calm, Made, Withdrawn
  <2>9. OneToucher' /\ MappedHaveClient'
    BY <2>6 DEF OneToucher, MappedHaveClient, Touches
  <2>10. StoresFit'
    <3>1. \A u, o : Promised(u, o)' = Promised(u, o) /\ Sent(u, o)' = Sent(u, o) /\ MappedTo(u, o)' = MappedTo(u, o)
      BY SetsStay
    <3>2. \A s \in Requests : \A u, o : StageOf(s, u, o) => StageOf(s, u, o)'
      BY <3>1, StageStays
    <3>3. \A s, u, o : Touches(s, u, o)' = Touches(s, u, o) /\ Even(u, o)' = Even(u, o)
      BY <3>1 DEF Touches, Even
    <3> QED
      BY <2>6, <3>2, <3>3 DEF StoresFit, Underway
  <2> QED
    BY <2>1, <2>2, <2>3, <2>4, <2>5, <2>7, <2>8, <2>9, <2>10
<1> QED
  BY <1>1, <1>2

LEMMA Inductive == Spec => []IInv
BY InitIInv, NextIInv, PTL DEF Spec

-----------------------------------------------------------------------------
\* What follows from it.

\* Types are correct.
THEOREM TypeCorrect == Spec => []TypeOK
<1>1. IInv => TypeOK
  BY DEF IInv
<1> QED
  BY <1>1, Inductive, PTL

\* A member for whom nothing is under way has a role, unless a call failed in
\* between or a registration deleted its own row: every change of roles deletes
\* all of them first.
THEOREM MembersHaveRoles == Spec => []MemberHasRole
<1>1. IInv => MemberHasRole
  <2> SUFFICES ASSUME IInv, NEW p \in joined PROVE Busy(p[1], p[2]) \/ p \in torn \/ RowsOf(p[1], p[2]) # {}
    BY DEF MemberHasRole
  <2>1. CASE \E r \in Requests : Owes(r) /\ Pair(r) = p
    <3>1. PICK r \in Requests : Owes(r) /\ Pair(r) = p
      BY <2>1
    <3>2. r \in Underway /\ job[r].op \in {"update", "map"}
      BY <3>1 DEF IInv, Owes, JobsFit, Fits, Underway
    <3>3. job[r].user = p[1] /\ job[r].org = p[2]
      BY <3>1 DEF Pair
    <3> QED
      BY <3>2, <3>3 DEF Busy, Touches, WholeOrg
  <2> QED
    BY <2>1 DEF IInv, MembersKept, Busy
<1> QED
  BY <1>1, Inductive, PTL

\* Roles that came with an invitation belong to an accepted one, unless two
\* requests were at work on it or something failed.
THEOREM AnswersAreKept == Spec => []RejectedGrantsNothing
<1>1. IInv => RejectedGrantsNothing
  BY DEF IInv, GrantsAccepted, RejectedGrantsNothing
<1> QED
  BY <1>1, Inductive, PTL

\* A person has one open invitation of an organisation, unless two were sent at
\* a time or one was answered twice.
THEOREM InvitationsAreSingle == Spec => []OneOpenInvitation
<1>1. IInv => OneOpenInvitation
  BY DEF IInv
<1> QED
  BY <1>1, Inductive, PTL

\* Nobody is in more organisations than the limit allows, who accepts one
\* invitation at a time while their roles stay.
THEOREM LimitIsKept == Spec => []LimitHolds
<1>1. IInv => LimitHolds
  <2> SUFFICES ASSUME IInv, NEW u \in Users \ {Founder}, u \notin rushed
               PROVE  Cardinality(OrgsOf(u)) <= Limit
    BY DEF LimitHolds
  <2>1. Cardinality(Potential(u)) <= Limit
    BY DEF IInv, WithinLimit
  <2>2. /\ Cardinality(OrgsOf(u)) <= Cardinality(Potential(u))
        /\ Cardinality(OrgsOf(u)) \in Nat /\ Cardinality(Potential(u)) \in Nat
    BY PotentialCounted, FS_Subset, FS_CardinalityType
  <2> QED
    BY <2>1, <2>2, ConstantsAssumption
<1> QED
  BY <1>1, Inductive, PTL

\* An organisation has a client exactly when its row says so, unless a
\* registration or its withdrawal is under way or was cut short.
THEOREM ClientsAreKnown == Spec => []ClientKnown
<1>1. IInv => ClientKnown
  <2> SUFFICES ASSUME IInv, NEW o \in Orgs, Calm(o), \A u \in Users : ~Busy(u, o)
               PROVE  o \in clients <=> o \in registered
    BY DEF ClientKnown, Calm
  <2>1. ASSUME NEW r \in Requests, Made(r, o) \/ Withdrawn(r, o) PROVE FALSE
    <3>1. r \in Underway /\ Touches(r, Founder, o)
      BY <2>1 DEF Made, Withdrawn, Underway, Touches, WholeOrg
    <3> QED
      BY <3>1, ConstantsAssumption DEF Busy
  <2> QED
    BY <2>1 DEF IInv, ClientsKnown
<1> QED
  BY <1>1, Inductive, PTL

\* MembershipKept: members keep a role and organisations their client.
THEOREM MembershipIsKept == Spec => []MembershipKept
<1>1. MemberHasRole /\ ClientKnown => MembershipKept
  BY DEF MembershipKept
<1> QED
  BY <1>1, MembersHaveRoles, ClientsAreKnown, PTL

\* InvitationsKept: an invitation is open once and grants only what was accepted.
THEOREM InvitationsAreKept == Spec => []InvitationsKept
<1>1. OneOpenInvitation /\ RejectedGrantsNothing => InvitationsKept
  BY DEF InvitationsKept
<1> QED
  BY <1>1, InvitationsAreSingle, AnswersAreKept, PTL

\* The database and Keycloak say the same of a member of a registered
\* organisation, once nothing is under way for that member, unless a failure, a
\* loss, requests that overlapped or a registration in the name of somebody else
\* account for the difference.
THEOREM StoresAgreeAlways == Spec => []StoresAgree
<1>1. IInv => StoresAgree
  <2> SUFFICES ASSUME IInv, NEW u \in Users, NEW o \in registered, ~Busy(u, o), <<u, o>> \notin drifted \cup torn
               PROVE  RolesOf(u, o) = MappedTo(u, o)
    BY DEF StoresAgree, Pairs
  <2>1. <<u, o>> \in Pairs
    BY DEF IInv, TypeOK, Pairs
  <2>2. Promised(u, o) = MappedTo(u, o)
    BY <2>1 DEF IInv, StoresFit, Busy, Even
  <2>3. RowsAhead(u, o) = RowsOf(u, o)
    BY DEF Busy, Arriving, RowsAhead, RowsOf
  <2> QED
    BY <2>2, <2>3 DEF Promised, RolesOf
<1> QED
  BY <1>1, Inductive, PTL
=============================================================================
