--------------------------- MODULE PlatformProofs ---------------------------
(***************************************************************************)
(* What TLAPS proves of Platform for all constants: of OrgCreation, for    *)
(* any number of users, names, rows and requests, any limit and any number *)
(* of failures and crashes; of InvitationBatches, for any lists and        *)
(* requests, any number of them at a time; of Notifications, for any       *)
(* number of registrations and messages; and of DatabaseSeed, for any      *)
(* versions of the master data, any agents and any runs cut short.         *)
(***************************************************************************)
EXTENDS Platform, FiniteSetTheorems, SequenceTheorems, TLAPS

-----------------------------------------------------------------------------
\* The invariants behind the theorems.

\* Where a request is to make an organisation, and where it has made one.
MakingPcs == {"count", "name", "slug", "insert", "client", "owner", "store", "webhook"}
MadePcs   == {"client", "owner", "store", "webhook"}

\* A request that is under way names who and what it is for, and the row it
\* works on is there. Calls are in flight only while the owner is mapped.
JobsFit ==
  \A r \in Requests :
    /\ pc[r] \notin {"idle", "over"} => job[r].user \in Users /\ job[r].name \in Names
    /\ pc[r] \in MadePcs \cup {"rename", "update"} => job[r].org \in Live
    /\ left[r] # {} => pc[r] = "owner"

\* Roles are of organisations that are there.
RolesOfRows == roles \subseteq Users \X Live /\ mapped \subseteq Users \X Live

\* The slug of a row is the one of its name, and nobody else's.
RowsSlugged == \A o \in Live : org[o].name \in Names /\ org[o].slug = SlugOf[org[o].name]
SlugsDiffer == \A o, p \in Live : o # p => org[o].slug # org[p].slug

\* What a creation has done is where its next steps look for it.
Stage(r) ==
  /\ pc[r] \in {"owner", "store"} => job[r].org \in clients
  /\ pc[r] = "owner" =>
       /\ "keycloak" \notin left[r] => <<job[r].user, job[r].org>> \in mapped
       /\ "role" \notin left[r] => <<job[r].user, job[r].org>> \in roles
  /\ pc[r] = "store" => <<job[r].user, job[r].org>> \in roles \cap mapped

StagesKept == \A r \in Requests : Stage(r)

\* Who is not rushed has one creation under way at most.
OneCreation ==
  \A r, s \in Requests :
    /\ pc[r] \in MakingPcs /\ pc[s] \in MakingPcs
    /\ job[r].user = job[s].user
    /\ job[r].user \notin rushed
    => r = s

\* Between its check of the limit and the role of its owner there is room for
\* one organisation more.
Counted(r) ==
  \/ pc[r] \in {"name", "slug", "insert", "client"}
  \/ pc[r] = "owner" /\ "role" \in left[r]

RoomForOne ==
  \A r \in Requests :
    Counted(r) /\ job[r].user \notin rushed => Cardinality(OrgsOf(job[r].user)) < Limit

\* The inductive invariant.
IInv ==
  /\ TypeOK /\ JobsFit /\ RolesOfRows
  /\ RowsSlugged /\ SlugsDiffer
  /\ StagesKept /\ OrgsHaveOwner
  /\ OneCreation /\ RoomForOne /\ OwnersWithinLimit

-----------------------------------------------------------------------------
\* Type correctness.

\* Every initial state is well typed.
LEMMA InitTypeOK == Init => TypeOK
<1> SUFFICES ASSUME Init PROVE TypeOK
  OBVIOUS
<1>1. 0 \in 0..MaxFaults
  BY ConstantsAssumption
<1> QED
  BY <1>1 DEF Init, TypeOK, None, Pcs

\* Every step keeps the types; what is written for a request is what it named.
LEMMA NextTypeOK == TypeOK /\ JobsFit /\ [Next]_vars => TypeOK'
<1> SUFFICES ASSUME TypeOK, JobsFit, [Next]_vars PROVE TypeOK'
  OBVIOUS
<1> USE ConstantsAssumption DEF TypeOK, stores, requests, history
<1>0. CASE UNCHANGED vars
  BY <1>0 DEF vars
<1>1. ASSUME NEW r \in Requests, NEW u \in Users, NEW n \in Names, AskCreate(r, u, n) PROVE TypeOK'
  BY <1>1 DEF AskCreate, Move, Pcs
<1>2. ASSUME NEW r \in Requests, NEW u \in Users, NEW n \in Names, NEW o \in Ids, AskUpdate(r, u, o, n)
      PROVE  TypeOK'
  BY <1>2 DEF AskUpdate, Move, Pcs
<1>3. ASSUME NEW r \in Requests,
             CountOrgs(r) \/ CheckName(r) \/ CheckSlug(r) \/ OwnerKnown(r) \/ StoreWebhook(r) \/ CheckRename(r)
      PROVE  TypeOK'
  BY <1>3 DEF CountOrgs, CheckName, CheckSlug, OwnerKnown, StoreWebhook, CheckRename, Check, Move, Pcs
<1>4. ASSUME NEW r \in Requests,
             \/ TooMany(r) \/ NameTaken(r) \/ SlugRefused(r) \/ InsertRefused(r) \/ CreateActivity(r)
             \/ RenameRefused(r) \/ UpdateRefused(r)
      PROVE  TypeOK'
  BY <1>4 DEF TooMany, NameTaken, SlugRefused, InsertRefused, CreateActivity, RenameRefused,
              UpdateRefused, Refuse, Answer, Move, Pcs
<1>5. ASSUME NEW r \in Requests, NEW o \in Ids, InsertOrg(r, o) PROVE TypeOK'
  <2>1. job[r].name \in Names
    BY <1>5 DEF InsertOrg, Move, JobsFit
  <2>2. [name |-> job[r].name, slug |-> SlugOf[job[r].name], registered |-> FALSE]
          \in [name : Names \cup {"none"}, slug : Slugs \cup {"none"}, registered : BOOLEAN]
    BY <2>1
  <2>3. org' \in [Ids -> [name : Names \cup {"none"}, slug : Slugs \cup {"none"}, registered : BOOLEAN]]
    BY <1>5, <2>2 DEF InsertOrg
  <2>4. pc' \in [Requests -> Pcs]
    BY <1>5 DEF InsertOrg, Move, Pcs
  <2>5. job' \in [Requests -> [user : Users \cup {"none"}, name : Names \cup {"none"}, org : Ids \cup {"none"}]]
    <3>1. job' = [job EXCEPT ![r] = [job[r] EXCEPT !.org = o]]
      BY <1>5 DEF InsertOrg
    <3>2. [job[r] EXCEPT !.org = o] \in [user : Users \cup {"none"}, name : Names \cup {"none"}, org : Ids \cup {"none"}]
      OBVIOUS
    <3> QED
      BY <3>1, <3>2
  <2>6. UNCHANGED <<roles, clients, mapped, left, answer, history, faults>>
    BY <1>5 DEF InsertOrg
  <2> QED
    BY <2>3, <2>4, <2>5, <2>6
<1>6. ASSUME NEW r \in Requests, CreateClient(r) \/ MapOwner(r) \/ InsertRole(r) PROVE TypeOK'
  <2>1. job[r].user \in Users /\ job[r].org \in Ids
    BY <1>6 DEF CreateClient, MapOwner, InsertRole, Move, JobsFit, MadePcs, Live
  <2>2. CASE CreateClient(r)
    BY <2>1, <2>2 DEF CreateClient, Move, Pcs
  <2>3. CASE MapOwner(r)
    BY <2>1, <2>3 DEF MapOwner
  <2>4. CASE InsertRole(r)
    BY <2>1, <2>4 DEF InsertRole
  <2> QED
    BY <1>6, <2>2, <2>3, <2>4
<1>7. ASSUME NEW r \in Requests, StoreClient(r) \/ UpdateOrg(r) PROVE TypeOK'
  <2>1. job[r].name \in Names /\ job[r].org \in Ids
    BY <1>7 DEF StoreClient, UpdateOrg, Move, JobsFit, MadePcs, Live
  <2>0. org \in [Ids -> [name : Names \cup {"none"}, slug : Slugs \cup {"none"}, registered : BOOLEAN]]
    OBVIOUS
  <2>2. SlugOf[job[r].name] \in Slugs
    BY <2>1
  <2>3. org' \in [Ids -> [name : Names \cup {"none"}, slug : Slugs \cup {"none"}, registered : BOOLEAN]]
    <3>1. CASE StoreClient(r)
      <4>1. org' = [org EXCEPT ![job[r].org] = [org[job[r].org] EXCEPT !.registered = TRUE]]
        BY <3>1 DEF StoreClient
      <4> HIDE DEF TypeOK, stores, requests, history
      <4>2. [org[job[r].org] EXCEPT !.registered = TRUE]
              \in [name : Names \cup {"none"}, slug : Slugs \cup {"none"}, registered : BOOLEAN]
        BY <2>0, <2>1
      <4> QED
        BY <2>0, <2>1, <4>1, <4>2
    <3>2. CASE UpdateOrg(r)
      <4>1. org' = [org EXCEPT ![job[r].org] =
                      [org[job[r].org] EXCEPT !.name = job[r].name, !.slug = SlugOf[job[r].name]]]
        BY <3>2 DEF UpdateOrg
      <4> HIDE DEF TypeOK, stores, requests, history
      <4>2. [org[job[r].org] EXCEPT !.name = job[r].name, !.slug = SlugOf[job[r].name]]
              \in [name : Names \cup {"none"}, slug : Slugs \cup {"none"}, registered : BOOLEAN]
        BY <2>0, <2>1, <2>2
      <4> QED
        BY <2>0, <2>1, <4>1, <4>2
    <3> QED
      BY <1>7, <3>1, <3>2
  <2>4. pc' \in [Requests -> Pcs]
    BY <1>7 DEF StoreClient, UpdateOrg, Move, Pcs
  <2>5. UNCHANGED <<roles, clients, mapped, job, left, answer, history, faults>>
    BY <1>7 DEF StoreClient, UpdateOrg
  <2> QED
    BY <2>3, <2>4, <2>5
<1>8. ASSUME NEW r \in Requests, Fail(r) PROVE TypeOK'
  <2>1. left[r] # {} => job[r].user \in Users /\ job[r].org \in Ids
    BY DEF JobsFit, MadePcs, Live
  <2>2. Leaves(r) \subseteq Ids
    BY DEF Leaves, JobsFit, MadePcs, Live
  <2>3. roles' \subseteq Users \X Ids /\ mapped' \subseteq Users \X Ids
    BY <1>8, <2>1 DEF Fail
  <2>4. faults' \in 0..MaxFaults
    BY <1>8 DEF Fail, Fault
  <2>5. stranded' \subseteq Ids
    BY <1>8, <2>2 DEF Fail
  <2> QED
    BY <1>8, <2>3, <2>4, <2>5 DEF Fail, Answer, Move, Pcs
<1>9. CASE Crash
  <2>1. \A r \in Requests : Leaves(r) \subseteq Ids
    BY DEF Leaves, JobsFit, MadePcs, Live
  <2>2. stranded' \subseteq Ids
    BY <1>9, <2>1 DEF Crash, Underway
  <2>3. faults' \in 0..MaxFaults
    BY <1>9 DEF Crash, Fault
  <2> QED
    BY <1>9, <2>2, <2>3 DEF Crash, Pcs
<1> QED
  BY <1>0, <1>1, <1>2, <1>3, <1>4, <1>5, <1>6, <1>7, <1>8, <1>9
     DEF Next, Work, Checking, Creation, Updating

-----------------------------------------------------------------------------
\* What one step can do.

\* A step of one request.
Act(r) ==
  \/ \E u \in Users, n \in Names : AskCreate(r, u, n)
  \/ \E u \in Users, n \in Names, o \in Ids : AskUpdate(r, u, o, n)
  \/ Work(r) \/ Fail(r)

\* It leaves the other requests alone.
LEMMA OthersStay ==
  ASSUME TypeOK, NEW r \in Requests, Act(r), NEW s \in Requests \ {r}
  PROVE  pc'[s] = pc[s] /\ job'[s] = job[s] /\ left'[s] = left[s]
<1> USE DEF TypeOK, Move, requests
<1>1. CASE \E u \in Users, n \in Names : AskCreate(r, u, n)
  BY <1>1 DEF AskCreate
<1>2. CASE \E u \in Users, n \in Names, o \in Ids : AskUpdate(r, u, o, n)
  BY <1>2 DEF AskUpdate
<1>3. CASE Checking(r) \/ Updating(r)
  BY <1>3 DEF Checking, Updating, CountOrgs, TooMany, CheckName, NameTaken, CheckSlug, SlugRefused,
              CheckRename, RenameRefused, UpdateOrg, UpdateRefused, Check, Refuse, Answer
<1>4. CASE Creation(r)
  BY <1>4 DEF Creation, InsertOrg, InsertRefused, CreateClient, MapOwner, InsertRole, OwnerKnown,
              StoreClient, StoreWebhook, CreateActivity, Check, Refuse, Answer
<1>5. CASE Fail(r)
  BY <1>5 DEF Fail, Answer
<1> QED
  BY <1>1, <1>2, <1>3, <1>4, <1>5 DEF Act, Work

\* No row is deleted, and no role or client either.
LEMMA StoresGrow ==
  ASSUME TypeOK, JobsFit, Next
  PROVE  /\ Live \subseteq Live' /\ clients \subseteq clients'
         /\ roles \subseteq roles' /\ mapped \subseteq mapped'
<1> USE ConstantsAssumption DEF TypeOK, stores
<1>1. CASE Crash
  BY <1>1 DEF Crash, Live
<1>2. ASSUME NEW r \in Requests, Act(r), ~ \E o \in Ids : InsertOrg(r, o), ~StoreClient(r), ~UpdateOrg(r)
      PROVE  org' = org
  BY <1>2 DEF Act, AskCreate, AskUpdate, Work, Checking, Creation, Updating, CountOrgs, TooMany,
              CheckName, NameTaken, CheckSlug, SlugRefused, InsertRefused, CreateClient, MapOwner,
              InsertRole, OwnerKnown, StoreWebhook, CreateActivity, CheckRename, RenameRefused,
              UpdateRefused, Check, Refuse, Fail
<1>3. ASSUME NEW r \in Requests, Act(r)
      PROVE  clients \subseteq clients' /\ roles \subseteq roles' /\ mapped \subseteq mapped'
  BY <1>3 DEF Act, AskCreate, AskUpdate, Work, Checking, Creation, Updating, CountOrgs, TooMany,
              CheckName, NameTaken, CheckSlug, SlugRefused, InsertOrg, InsertRefused, CreateClient,
              MapOwner, InsertRole, OwnerKnown, StoreClient, StoreWebhook, CreateActivity,
              CheckRename, RenameRefused, UpdateOrg, UpdateRefused, Check, Refuse, Fail
<1>4. ASSUME NEW r \in Requests, (\E o \in Ids : InsertOrg(r, o)) \/ StoreClient(r) \/ UpdateOrg(r)
      PROVE  Live \subseteq Live'
  <2>1. job[r].name \in Names
    BY <1>4 DEF InsertOrg, StoreClient, UpdateOrg, Move, JobsFit
  <2>2. StoreClient(r) => job[r].org \in Live
    BY DEF StoreClient, Move, JobsFit, MadePcs
  <2>3. CASE StoreClient(r)
    <3>1. \A o \in Live \ {job[r].org} : org'[o] = org[o]
      BY <2>3 DEF StoreClient, Live
    <3>2. job[r].org \in Ids /\ org'[job[r].org].registered
      BY <2>2, <2>3 DEF StoreClient, Live
    <3>3. job[r].org \in Live'
      BY <3>2 DEF Live, None
    <3> QED
      BY <3>1, <3>3 DEF Live
  <2>4. CASE \E o \in Ids : InsertOrg(r, o)
    BY <2>4 DEF InsertOrg, Live
  <2>5. CASE UpdateOrg(r)
    <3>1. \A o \in Live \ {job[r].org} : org'[o] = org[o]
      BY <2>5 DEF UpdateOrg, Live
    <3>2. job[r].org \in Ids /\ org'[job[r].org].name = job[r].name
      BY <2>5 DEF UpdateOrg, Move, JobsFit, MadePcs, Live
    <3>3. job[r].org \in Live'
      BY <2>1, <3>2 DEF Live, None
    <3> QED
      BY <3>1, <3>3 DEF Live
  <2> QED
    BY <1>4, <2>3, <2>4, <2>5
<1>5. ASSUME NEW r \in Requests, Act(r) PROVE Live \subseteq Live'
  BY <1>2, <1>4, <1>5 DEF Live
<1> QED
  BY <1>1, <1>3, <1>5 DEF Next, Act

-----------------------------------------------------------------------------
\* Each part of the invariant holds at first and is kept by every step.

LEMMA InitParts == Init => IInv
<1> SUFFICES ASSUME Init PROVE IInv
  OBVIOUS
<1>1. TypeOK
  BY InitTypeOK
<1>2. Live = {}
  BY DEF Init, Live
<1>3. /\ \A r \in Requests : pc[r] = "idle" /\ left[r] = {}
      /\ roles = {} /\ mapped = {} /\ rushed = {}
  BY DEF Init
<1>4. JobsFit /\ RolesOfRows
  BY <1>2, <1>3 DEF JobsFit, RolesOfRows, MadePcs
<1>5. RowsSlugged /\ SlugsDiffer /\ OrgsHaveOwner
  BY <1>2 DEF RowsSlugged, SlugsDiffer, OrgsHaveOwner
<1>6. StagesKept /\ OneCreation /\ RoomForOne
  BY <1>3 DEF StagesKept, Stage, OneCreation, MakingPcs, RoomForOne, Counted
<1>7. OwnersWithinLimit
  <2> SUFFICES ASSUME NEW u \in Users PROVE Cardinality(OrgsOf(u)) <= Limit
    BY DEF OwnersWithinLimit
  <2>1. OrgsOf(u) = {}
    BY <1>2 DEF OrgsOf
  <2>2. Cardinality(OrgsOf(u)) = 0
    BY <2>1, FS_EmptySet
  <2> QED
    BY <2>2, ConstantsAssumption
<1> QED
  BY <1>1, <1>4, <1>5, <1>6, <1>7 DEF IInv

\* A request that was made keeps its user and its name.
LEMMA JobsStay ==
  ASSUME TypeOK, NEW r \in Requests, Act(r), pc[r] # "idle"
  PROVE  /\ job'[r].user = job[r].user /\ job'[r].name = job[r].name
         /\ pc[r] # "insert" => job' = job
<1> USE DEF TypeOK, Move, requests
<1>1. CASE Checking(r) \/ Updating(r)
  BY <1>1 DEF Checking, Updating, CountOrgs, TooMany, CheckName, NameTaken, CheckSlug, SlugRefused,
              CheckRename, RenameRefused, UpdateOrg, UpdateRefused, Check, Refuse, Answer
<1>2. CASE Creation(r) /\ ~ \E o \in Ids : InsertOrg(r, o)
  BY <1>2 DEF Creation, InsertRefused, CreateClient, MapOwner, InsertRole, OwnerKnown,
              StoreClient, StoreWebhook, CreateActivity, Check, Refuse, Answer
<1>3. CASE \E o \in Ids : InsertOrg(r, o)
  BY <1>3 DEF InsertOrg
<1>4. CASE Fail(r)
  BY <1>4 DEF Fail, Answer
<1> QED
  BY <1>1, <1>2, <1>3, <1>4 DEF Act, Work, AskCreate, AskUpdate

\* What is asked for is named, rows are there before they are worked on, and
\* calls are answered or given up before a request goes on.
LEMMA JobsFitStep == TypeOK /\ JobsFit /\ RolesOfRows /\ Next => JobsFit'
<1> SUFFICES ASSUME TypeOK, JobsFit, RolesOfRows, Next PROVE JobsFit'
  OBVIOUS
<1> DEFINE Fits(s) ==
      /\ pc[s] \notin {"idle", "over"} => job[s].user \in Users /\ job[s].name \in Names
      /\ pc[s] \in MadePcs \cup {"rename", "update"} => job[s].org \in Live
      /\ left[s] # {} => pc[s] = "owner"
<1> SUFFICES ASSUME NEW s \in Requests PROVE Fits(s)'
  BY DEF JobsFit
<1>0. Live \subseteq Live'
  BY StoresGrow
<1>1. CASE Crash
  BY <1>1 DEF Crash, TypeOK, Underway, MadePcs
<1>2. ASSUME NEW r \in Requests, Act(r), r # s PROVE Fits(s)'
  <2>1. pc'[s] = pc[s] /\ job'[s] = job[s] /\ left'[s] = left[s]
    BY <1>2, OthersStay
  <2> QED
    BY <1>0, <2>1 DEF JobsFit
<1>3. CASE \E u \in Users, n \in Names : AskCreate(s, u, n)
  BY <1>3 DEF AskCreate, Move, JobsFit, TypeOK, MadePcs
<1>4. CASE \E u \in Users, n \in Names, o \in Ids : AskUpdate(s, u, o, n)
  <2>1. PICK u \in Users, n \in Names, o \in Ids : AskUpdate(s, u, o, n)
    BY <1>4
  <2>2. o \in Live
    BY <2>1 DEF AskUpdate, RolesOfRows
  <2> QED
    BY <1>0, <2>1, <2>2 DEF AskUpdate, Move, JobsFit, TypeOK, MadePcs
<1>5. CASE Checking(s) \/ Updating(s)
  <2>1. job' = job /\ left' = left /\ pc[s] \notin {"idle", "over"}
    BY <1>5 DEF Checking, Updating, CountOrgs, TooMany, CheckName, NameTaken, CheckSlug, SlugRefused,
                CheckRename, RenameRefused, UpdateOrg, UpdateRefused, Check, Refuse, Answer, Move
  <2>2. pc'[s] \in MadePcs \cup {"rename", "update"} => pc[s] = "rename"
    BY <1>5 DEF Checking, Updating, CountOrgs, TooMany, CheckName, NameTaken, CheckSlug, SlugRefused,
                CheckRename, RenameRefused, UpdateOrg, UpdateRefused, Check, Refuse, Answer, Move,
                TypeOK, MadePcs
  <2>3. pc[s] # "owner"
    BY <1>5 DEF Checking, Updating, CountOrgs, TooMany, CheckName, NameTaken, CheckSlug, SlugRefused,
                CheckRename, RenameRefused, UpdateOrg, UpdateRefused, Check, Refuse, Answer, Move
  <2> QED
    BY <1>0, <2>1, <2>2, <2>3 DEF JobsFit
<1>6. CASE Creation(s)
  <2>1. CASE \E o \in Ids : InsertOrg(s, o)
    <3>1. PICK o \in Ids : InsertOrg(s, o)
      BY <2>1
    <3>2. pc[s] = "insert" /\ pc'[s] = "client" /\ left' = left
      BY <3>1 DEF InsertOrg, Move, TypeOK
    <3>3. job'[s].org = o /\ job'[s].user = job[s].user /\ job'[s].name = job[s].name
      BY <3>1 DEF InsertOrg, TypeOK
    <3>4. job[s].name \in Names /\ org'[o].name = job[s].name
      BY <3>1, <3>2 DEF InsertOrg, JobsFit, TypeOK
    <3>5. o \in Live'
      BY <3>4, ConstantsAssumption DEF Live, None
    <3> QED
      BY <3>2, <3>3, <3>5 DEF JobsFit
  <2>2. CASE ~ \E o \in Ids : InsertOrg(s, o)
    <3>1. pc[s] \notin {"idle", "over"} /\ pc[s] \in MadePcs \cup {"log", "insert"}
      BY <1>6, <2>2 DEF Creation, InsertRefused, CreateClient, MapOwner, InsertRole, OwnerKnown,
                        StoreClient, StoreWebhook, CreateActivity, Check, Refuse, Answer, Move, MadePcs
    <3>2. job' = job
      BY <1>6, <2>2 DEF Creation, InsertRefused, CreateClient, MapOwner, InsertRole, OwnerKnown,
                        StoreClient, StoreWebhook, CreateActivity, Check, Refuse, Answer
    <3>3. pc'[s] \in MadePcs \cup {"rename", "update"} => pc[s] \in MadePcs
      BY <1>6, <2>2 DEF Creation, InsertRefused, CreateClient, MapOwner, InsertRole, OwnerKnown,
                        StoreClient, StoreWebhook, CreateActivity, Check, Refuse, Answer, Move,
                        MadePcs, TypeOK
    <3>4. left'[s] # {} => pc'[s] = "owner"
      BY <1>6, <2>2 DEF Creation, InsertRefused, CreateClient, MapOwner, InsertRole, OwnerKnown,
                        StoreClient, StoreWebhook, CreateActivity, Check, Refuse, Answer, Move,
                        TypeOK, JobsFit
    <3> QED
      BY <1>0, <3>1, <3>2, <3>3, <3>4 DEF JobsFit
  <2> QED
    BY <2>1, <2>2
<1>7. CASE Fail(s)
  BY <1>7 DEF Fail, Answer, Move, TypeOK, MadePcs
<1> QED
  BY <1>1, <1>2, <1>3, <1>4, <1>5, <1>6, <1>7 DEF Next, Act, Work

\* Roles are given for rows that are there.
LEMMA RolesOfRowsStep == TypeOK /\ JobsFit /\ RolesOfRows /\ Next => RolesOfRows'
<1> SUFFICES ASSUME TypeOK, JobsFit, RolesOfRows, Next PROVE RolesOfRows'
  OBVIOUS
<1>0. Live \subseteq Live'
  BY StoresGrow
<1>1. CASE Crash
  BY <1>0, <1>1 DEF Crash, stores, RolesOfRows
<1>2. ASSUME NEW r \in Requests, Act(r) PROVE RolesOfRows'
  <2>1. CASE Fail(r)
    <3>1. left[r] # {} => <<job[r].user, job[r].org>> \in Users \X Live
      BY DEF JobsFit, MadePcs
    <3> QED
      BY <1>0, <2>1, <3>1 DEF Fail, RolesOfRows
  <2>2. CASE MapOwner(r) \/ InsertRole(r)
    <3>1. <<job[r].user, job[r].org>> \in Users \X Live
      BY <2>2 DEF MapOwner, InsertRole, JobsFit, MadePcs
    <3> QED
      BY <1>0, <2>2, <3>1 DEF MapOwner, InsertRole, RolesOfRows
  <2>3. CASE ~Fail(r) /\ ~MapOwner(r) /\ ~InsertRole(r)
    <3>1. roles' = roles /\ mapped' = mapped
      BY <1>2, <2>3
         DEF Act, AskCreate, AskUpdate, Work, Checking, Creation, Updating, CountOrgs, TooMany,
             CheckName, NameTaken, CheckSlug, SlugRefused, InsertOrg, InsertRefused, CreateClient,
             OwnerKnown, StoreClient, StoreWebhook, CreateActivity, CheckRename, RenameRefused,
             UpdateOrg, UpdateRefused, Check, Refuse, stores
    <3> QED
      BY <1>0, <3>1 DEF RolesOfRows
  <2> QED
    BY <2>1, <2>2, <2>3
<1> QED
  BY <1>1, <1>2 DEF Next, Act

\* What a step does to the rows: it makes one, renames one, marks one as
\* registered, or leaves them alone.
LEMMA RowsStep ==
  ASSUME TypeOK, JobsFit, Next
  PROVE  \/ org' = org
         \/ \E r \in Requests : StoreClient(r)
         \/ \E r \in Requests, o \in Ids : InsertOrg(r, o)
         \/ \E r \in Requests : UpdateOrg(r)
<1> SUFFICES ASSUME ~ \E r \in Requests : StoreClient(r),
                    ~ \E r \in Requests, o \in Ids : InsertOrg(r, o),
                    ~ \E r \in Requests : UpdateOrg(r)
             PROVE  org' = org
  OBVIOUS
<1> QED
  BY DEF Next, AskCreate, AskUpdate, Work, Checking, Creation, Updating, CountOrgs, TooMany,
         CheckName, NameTaken, CheckSlug, SlugRefused, InsertRefused, CreateClient, MapOwner,
         InsertRole, OwnerKnown, StoreWebhook, CreateActivity, CheckRename, RenameRefused,
         UpdateRefused, Check, Refuse, Fail, Crash, stores

\* Marking a row changes neither its name nor its slug, and makes no other.
LEMMA MarkStays ==
  ASSUME TypeOK, JobsFit, NEW r \in Requests, StoreClient(r)
  PROVE  /\ job[r].org \in Live /\ org'[job[r].org].registered
         /\ Live' = Live
         /\ \A o \in Ids : org'[o].name = org[o].name /\ org'[o].slug = org[o].slug
         /\ \A o \in Ids \ {job[r].org} : org'[o] = org[o]
<1>1. job[r].org \in Live
  BY DEF StoreClient, Move, JobsFit, MadePcs
<1>2. job[r].org \in Ids
  BY <1>1 DEF Live
<1>3. \A o \in Ids \ {job[r].org} : org'[o] = org[o]
  BY <1>2 DEF StoreClient, TypeOK
<1>4. /\ org'[job[r].org].registered
      /\ org'[job[r].org].name = org[job[r].org].name
      /\ org'[job[r].org].slug = org[job[r].org].slug
  BY <1>2 DEF StoreClient, TypeOK
<1>5. org'[job[r].org] # None
  BY <1>4 DEF None
<1>6. Live' = Live
  BY <1>1, <1>3, <1>5 DEF Live
<1> QED
  BY <1>1, <1>2, <1>3, <1>4, <1>6

\* Every write of a name writes the slug that goes with it, and the database
\* refuses a slug that is there.
LEMMA RowsKeptStep ==
  TypeOK /\ JobsFit /\ RowsSlugged /\ SlugsDiffer /\ Next => RowsSlugged' /\ SlugsDiffer'
<1> SUFFICES ASSUME TypeOK, JobsFit, RowsSlugged, SlugsDiffer, Next
             PROVE  RowsSlugged' /\ SlugsDiffer'
  OBVIOUS
<1>1. CASE org' = org
  BY <1>1 DEF RowsSlugged, SlugsDiffer, Live
<1>2. ASSUME NEW r \in Requests, StoreClient(r) PROVE RowsSlugged' /\ SlugsDiffer'
  <2>1. /\ Live' = Live
        /\ \A o \in Ids : org'[o].name = org[o].name /\ org'[o].slug = org[o].slug
    BY <1>2, MarkStays
  <2>2. Live \subseteq Ids
    BY DEF Live
  <2> QED
    BY <2>1, <2>2 DEF RowsSlugged, SlugsDiffer
<1>3. ASSUME NEW r \in Requests, NEW o \in Ids, InsertOrg(r, o) PROVE RowsSlugged' /\ SlugsDiffer'
  <2>1. job[r].name \in Names
    BY <1>3 DEF InsertOrg, Move, JobsFit
  <2>2. /\ \A p \in Ids \ {o} : org'[p] = org[p]
        /\ org'[o].name = job[r].name /\ org'[o].slug = SlugOf[job[r].name]
    BY <1>3 DEF InsertOrg, TypeOK
  <2>3. \A p \in Live : org[p].slug # SlugOf[job[r].name]
    BY <1>3 DEF InsertOrg, SlugTaken
  <2>4. \A p \in Live' : p = o \/ (p \in Live /\ org'[p] = org[p])
    <3> SUFFICES ASSUME NEW p \in Live', p # o PROVE p \in Live /\ org'[p] = org[p]
      OBVIOUS
    <3>1. p \in Ids /\ org'[p] # None
      BY DEF Live
    <3>2. org'[p] = org[p]
      BY <2>2, <3>1
    <3> QED
      BY <3>1, <3>2 DEF Live
  <2>5. RowsSlugged'
    BY <2>1, <2>2, <2>4 DEF RowsSlugged
  <2>6. SlugsDiffer'
    BY <2>2, <2>3, <2>4 DEF SlugsDiffer
  <2> QED
    BY <2>5, <2>6
<1>4. ASSUME NEW r \in Requests, UpdateOrg(r) PROVE RowsSlugged' /\ SlugsDiffer'
  <2> DEFINE o == job[r].org
  <2>1. job[r].name \in Names /\ o \in Live
    BY <1>4 DEF UpdateOrg, Move, JobsFit
  <2>2. /\ \A p \in Ids \ {o} : org'[p] = org[p]
        /\ org'[o].name = job[r].name /\ org'[o].slug = SlugOf[job[r].name]
    BY <1>4, <2>1 DEF UpdateOrg, TypeOK, Live
  <2>3. \A p \in Live \ {o} : org[p].slug # SlugOf[job[r].name]
    BY <1>4 DEF UpdateOrg
  <2>4. \A p \in Live' : p = o \/ (p \in Live \ {o} /\ org'[p] = org[p])
    <3> SUFFICES ASSUME NEW p \in Live', p # o PROVE p \in Live \ {o} /\ org'[p] = org[p]
      OBVIOUS
    <3>1. p \in Ids /\ org'[p] # None
      BY DEF Live
    <3>2. org'[p] = org[p]
      BY <2>2, <3>1
    <3> QED
      BY <3>1, <3>2 DEF Live
  <2> HIDE DEF o
  <2>5. RowsSlugged'
    BY <2>1, <2>2, <2>4 DEF RowsSlugged
  <2>6. SlugsDiffer'
    BY <2>2, <2>3, <2>4 DEF SlugsDiffer
  <2> QED
    BY <2>5, <2>6
<1> QED
  BY <1>1, <1>2, <1>3, <1>4, RowsStep

\* Nothing a creation has stored is taken back before it goes on.
LEMMA StagesKeptStep == TypeOK /\ JobsFit /\ StagesKept /\ Next => StagesKept'
<1> SUFFICES ASSUME TypeOK, JobsFit, StagesKept, Next, NEW s \in Requests PROVE Stage(s)'
  BY DEF StagesKept
<1>0. clients \subseteq clients' /\ roles \subseteq roles' /\ mapped \subseteq mapped'
  BY StoresGrow
<1>1. CASE Crash
  BY <1>1 DEF Crash, TypeOK, Stage, Underway
<1>2. ASSUME NEW r \in Requests, Act(r), r # s PROVE Stage(s)'
  <2>1. pc'[s] = pc[s] /\ job'[s] = job[s] /\ left'[s] = left[s]
    BY <1>2, OthersStay
  <2> QED
    BY <1>0, <2>1 DEF StagesKept, Stage
<1>3. CASE CreateClient(s)
  BY <1>3 DEF CreateClient, Move, TypeOK, Stage
<1>4. CASE MapOwner(s)
  <2>2. <<job[s].user, job[s].org>> \in mapped' /\ pc[s] = "owner"
    BY <1>4 DEF MapOwner
  <2>3. pc' = pc /\ job' = job /\ ("role" \notin left'[s] => "role" \notin left[s])
    BY <1>4 DEF MapOwner, TypeOK
  <2> QED
    BY <1>0, <2>2, <2>3 DEF StagesKept, Stage
<1>5. CASE InsertRole(s)
  <2>1. <<job[s].user, job[s].org>> \in roles' /\ pc[s] = "owner"
    BY <1>5 DEF InsertRole
  <2>2. pc' = pc /\ job' = job /\ ("keycloak" \notin left'[s] => "keycloak" \notin left[s])
    BY <1>5 DEF InsertRole, TypeOK
  <2> QED
    BY <1>0, <2>1, <2>2 DEF StagesKept, Stage
<1>6. CASE OwnerKnown(s)
  <2>1. pc[s] = "owner" /\ pc'[s] = "store" /\ left[s] = {} /\ job' = job
    BY <1>6 DEF OwnerKnown, Check, Move, TypeOK
  <2>2. job[s].org \in clients /\ <<job[s].user, job[s].org>> \in roles \cap mapped
    BY <2>1 DEF StagesKept, Stage
  <2> QED
    BY <1>0, <2>1, <2>2 DEF Stage
<1>7. CASE Act(s) /\ ~CreateClient(s) /\ ~MapOwner(s) /\ ~InsertRole(s) /\ ~OwnerKnown(s)
  <2>1. pc'[s] \notin {"owner", "store"}
    <3>1. CASE Checking(s) \/ Updating(s)
      BY <3>1 DEF Checking, Updating, CountOrgs, TooMany, CheckName, NameTaken, CheckSlug, SlugRefused,
                  CheckRename, RenameRefused, UpdateOrg, UpdateRefused, Check, Refuse, Answer, Move, TypeOK
    <3>2. CASE Creation(s)
      BY <1>7, <3>2 DEF Creation, InsertOrg, InsertRefused, StoreClient, StoreWebhook, CreateActivity,
                        Check, Refuse, Answer, Move, TypeOK
    <3>3. CASE ~Work(s)
      BY <1>7, <3>3 DEF Act, AskCreate, AskUpdate, Fail, Answer, Move, TypeOK
    <3> QED
      BY <3>1, <3>2, <3>3 DEF Work
  <2> QED
    BY <2>1 DEF Stage
<1> QED
  BY <1>1, <1>2, <1>3, <1>4, <1>5, <1>6, <1>7 DEF Next, Act

\* A creation goes through its stages, or it is stranded; its last one marks
\* the row.
LEMMA CreationGoesOn ==
  ASSUME TypeOK, JobsFit, Next, NEW r \in Requests, pc[r] \in {"client", "owner", "store"}
  PROVE  \/ pc'[r] \in {"client", "owner", "store"} /\ job'[r] = job[r]
         \/ StoreClient(r)
         \/ job[r].org \in stranded'
<1>1. CASE Crash
  <2>1. r \in Underway /\ job[r].org \in Leaves(r)
    BY DEF Underway, Leaves
  <2> QED
    BY <1>1, <2>1 DEF Crash
<1>2. ASSUME NEW s \in Requests, Act(s), s # r PROVE pc'[r] = pc[r] /\ job'[r] = job[r]
  BY <1>2, OthersStay
<1>3. CASE Creation(r)
  BY <1>3 DEF Creation, InsertOrg, InsertRefused, CreateClient, MapOwner, InsertRole, OwnerKnown,
              StoreWebhook, CreateActivity, Check, Refuse, Answer, Move, TypeOK
<1>4. CASE Fail(r)
  BY <1>4 DEF Fail, Leaves
<1>5. ~Checking(r) /\ ~Updating(r)
  BY DEF Checking, Updating, CountOrgs, TooMany, CheckName, NameTaken, CheckSlug, SlugRefused,
         CheckRename, RenameRefused, UpdateOrg, UpdateRefused, Check, Refuse, Answer, Move
<1>6. /\ ~ \E u \in Users, n \in Names : AskCreate(r, u, n)
      /\ ~ \E u \in Users, n \in Names, o \in Ids : AskUpdate(r, u, o, n)
  BY DEF AskCreate, AskUpdate, Move
<1> QED
  BY <1>1, <1>2, <1>3, <1>4, <1>5, <1>6 DEF Next, Act, Work

\* What is known of a row stays known.
LEMMA MarksStay ==
  ASSUME TypeOK, JobsFit, Next, NEW o \in Live, org[o].registered
  PROVE  org'[o].registered
<1>1. CASE org' = org
  BY <1>1
<1>2. ASSUME NEW r \in Requests, StoreClient(r) PROVE org'[o].registered
  BY <1>2, MarkStays DEF Live
<1>3. ASSUME NEW r \in Requests, NEW p \in Ids, InsertOrg(r, p) PROVE org'[o].registered
  BY <1>3 DEF InsertOrg, TypeOK, Live
<1>4. ASSUME NEW r \in Requests, UpdateOrg(r) PROVE org'[o].registered
  <2>1. job[r].org \in Ids /\ o \in Ids
    BY <1>4 DEF UpdateOrg, Move, JobsFit, Live
  <2>2. CASE o = job[r].org
    BY <1>4, <2>1, <2>2 DEF UpdateOrg, TypeOK
  <2>3. CASE o # job[r].org
    BY <1>4, <2>1, <2>3 DEF UpdateOrg, TypeOK
  <2> QED
    BY <2>2, <2>3
<1> QED
  BY <1>1, <1>2, <1>3, <1>4, RowsStep

\* A new row is one that is being created.
LEMMA NewIsCreated ==
  ASSUME TypeOK, JobsFit, Next, NEW o \in Live' \ Live
  PROVE  Creating(o)'
<1>1. o \in Ids /\ org[o] = None /\ org'[o] # None
  BY DEF Live
<1>2. ASSUME NEW r \in Requests, UpdateOrg(r) PROVE org'[o] = org[o]
  BY <1>1, <1>2 DEF UpdateOrg, Move, JobsFit, TypeOK
<1>3. ASSUME NEW r \in Requests, NEW p \in Ids, InsertOrg(r, p) PROVE Creating(o)'
  <2>1. o = p
    BY <1>1, <1>3 DEF InsertOrg, TypeOK
  <2>2. pc'[r] = "client" /\ job'[r].org = o
    BY <1>3, <2>1 DEF InsertOrg, Move, TypeOK
  <2> QED
    BY <2>2 DEF Creating, Underway
<1>4. ASSUME NEW r \in Requests, StoreClient(r) PROVE FALSE
  BY <1>4, MarkStays
<1> QED
  BY <1>1, <1>2, <1>3, <1>4, RowsStep

\* Who was not yet owned and known is still being created, or stranded, or
\* the creation has just ended with its owner and its client in place.
LEMMA OrgsHaveOwnerStep == TypeOK /\ JobsFit /\ StagesKept /\ OrgsHaveOwner /\ Next => OrgsHaveOwner'
<1> SUFFICES ASSUME TypeOK, JobsFit, StagesKept, OrgsHaveOwner, Next, NEW o \in Live'
             PROVE  \/ Creating(o)'
                    \/ o \in stranded'
                    \/ org'[o].registered /\ o \in clients' /\ \E u \in Users : <<u, o>> \in roles' \cap mapped'
  BY DEF OrgsHaveOwner
<1>0. clients \subseteq clients' /\ roles \subseteq roles' /\ mapped \subseteq mapped'
  BY StoresGrow
<1>1. CASE o \notin Live
  BY <1>1, NewIsCreated
<1>2. CASE o \in stranded
  BY <1>2 DEF Next, AskCreate, AskUpdate, Work, Checking, Creation, Updating, CountOrgs, TooMany,
              CheckName, NameTaken, CheckSlug, SlugRefused, InsertOrg, InsertRefused, CreateClient,
              MapOwner, InsertRole, OwnerKnown, StoreClient, StoreWebhook, CreateActivity,
              CheckRename, RenameRefused, UpdateOrg, UpdateRefused, Check, Refuse, Fail, Crash, history
<1>3. CASE o \in Live /\ org[o].registered /\ o \in clients /\ \E u \in Users : <<u, o>> \in roles \cap mapped
  BY <1>0, <1>3, MarksStay
<1>4. CASE o \in Live /\ Creating(o)
  <2>1. PICK r \in Requests : job[r].org = o /\ pc[r] \in {"client", "owner", "store"}
    BY <1>4 DEF Creating, Underway
  <2>2. CASE pc'[r] \in {"client", "owner", "store"} /\ job'[r] = job[r]
    BY <2>1, <2>2 DEF Creating, Underway
  <2>3. CASE StoreClient(r)
    <3>1. org'[o].registered
      BY <2>1, <2>3, MarkStays
    <3>2. pc[r] = "store" /\ job[r].user \in Users
      BY <2>3 DEF StoreClient, Move, JobsFit
    <3>3. o \in clients /\ <<job[r].user, o>> \in roles \cap mapped
      BY <2>1, <3>2 DEF StagesKept, Stage
    <3> QED
      BY <1>0, <3>1, <3>2, <3>3
  <2> QED
    BY <2>1, <2>2, <2>3, CreationGoesOn
<1> QED
  BY <1>1, <1>2, <1>3, <1>4 DEF OrgsHaveOwner

-----------------------------------------------------------------------------
\* The limit.

\* Roles are given one at a time, by a creation that still owes its owner one.
LEMMA RolesStep ==
  ASSUME TypeOK, Next
  PROVE  \/ roles' = roles
         \/ \E s \in Requests :
              /\ "role" \in left[s] /\ (InsertRole(s) \/ Fail(s))
              /\ roles' = roles \cup {<<job[s].user, job[s].org>>}
<1>1. ASSUME NEW s \in Requests, InsertRole(s)
      PROVE  "role" \in left[s] /\ roles' = roles \cup {<<job[s].user, job[s].org>>}
  BY <1>1 DEF InsertRole
<1>2. ASSUME NEW s \in Requests, Fail(s), roles' # roles
      PROVE  "role" \in left[s] /\ roles' = roles \cup {<<job[s].user, job[s].org>>}
  BY <1>2 DEF Fail
<1>3. CASE \A s \in Requests : ~InsertRole(s) /\ ~Fail(s)
  BY <1>3 DEF Next, AskCreate, AskUpdate, Work, Checking, Creation, Updating, CountOrgs, TooMany,
              CheckName, NameTaken, CheckSlug, SlugRefused, InsertOrg, InsertRefused, CreateClient,
              MapOwner, OwnerKnown, StoreClient, StoreWebhook, CreateActivity, CheckRename,
              RenameRefused, UpdateOrg, UpdateRefused, Check, Refuse, Crash, stores
<1> QED
  BY <1>1, <1>2, <1>3

\* So what a user owns are the rows his roles name, and their number is finite.
LEMMA OwnedRows ==
  ASSUME TypeOK, RolesOfRows, NEW u \in Users
  PROVE  /\ OrgsOf(u) = {o \in Ids : <<u, o>> \in roles}
         /\ IsFiniteSet(OrgsOf(u)) /\ Cardinality(OrgsOf(u)) \in Nat
<1>1. OrgsOf(u) = {o \in Ids : <<u, o>> \in roles}
  BY DEF OrgsOf, RolesOfRows, Live
<1>2. OrgsOf(u) \subseteq Ids
  BY <1>1
<1>3. IsFiniteSet(OrgsOf(u))
  BY <1>2, FS_Subset, ConstantsAssumption
<1> QED
  BY <1>1, <1>3, FS_CardinalityType

\* Users stay rushed.
LEMMA RushedStay == Next => rushed \subseteq rushed'
BY DEF Next, AskCreate, AskUpdate, Work, Checking, Creation, Updating, CountOrgs, TooMany,
       CheckName, NameTaken, CheckSlug, SlugRefused, InsertOrg, InsertRefused, CreateClient,
       MapOwner, InsertRole, OwnerKnown, StoreClient, StoreWebhook, CreateActivity, CheckRename,
       RenameRefused, UpdateOrg, UpdateRefused, Check, Refuse, Fail, Crash, history

\* What is making an organisation has been, for the same user, or begins now.
LEMMA MakingBefore ==
  ASSUME TypeOK, Next, NEW r \in Requests, pc'[r] \in MakingPcs
  PROVE  \/ pc[r] \in MakingPcs /\ job'[r].user = job[r].user
         \/ \E u \in Users, n \in Names : AskCreate(r, u, n)
<1>1. CASE Crash
  BY <1>1 DEF Crash, TypeOK, MakingPcs, Underway
<1>2. ASSUME NEW s \in Requests, Act(s), s # r PROVE pc'[r] = pc[r] /\ job'[r] = job[r]
  BY <1>2, OthersStay
<1>3. CASE Checking(r)
  BY <1>3 DEF Checking, CountOrgs, TooMany, CheckName, NameTaken, CheckSlug, SlugRefused,
              Check, Refuse, Answer, Move, TypeOK, MakingPcs
<1>4. ~Updating(r)
  BY DEF Updating, CheckRename, RenameRefused, UpdateOrg, UpdateRefused, Check, Refuse, Answer, Move,
         TypeOK, MakingPcs
<1>5. CASE Creation(r)
  <2>1. pc[r] \in MakingPcs
    BY <1>5 DEF Creation, InsertOrg, InsertRefused, CreateClient, MapOwner, InsertRole, OwnerKnown,
                StoreClient, StoreWebhook, CreateActivity, Check, Refuse, Answer, Move, TypeOK, MakingPcs
  <2>2. pc[r] # "idle" /\ Act(r)
    BY <1>5, <2>1 DEF MakingPcs, Act, Work
  <2> QED
    BY <2>1, <2>2, JobsStay
<1>6. ~Fail(r) /\ ~ \E u \in Users, n \in Names, o \in Ids : AskUpdate(r, u, o, n)
  BY DEF Fail, AskUpdate, Answer, Move, TypeOK, MakingPcs
<1> QED
  BY <1>1, <1>2, <1>3, <1>4, <1>5, <1>6 DEF Next, Act, Work

\* Only a creation that begins is a second one, and then its user is rushed.
LEMMA OneCreationStep == TypeOK /\ JobsFit /\ OneCreation /\ Next => OneCreation'
<1> SUFFICES ASSUME TypeOK, JobsFit, OneCreation, Next,
                    NEW r \in Requests, NEW s \in Requests, r # s,
                    pc'[r] \in MakingPcs, pc'[s] \in MakingPcs,
                    job'[r].user = job'[s].user, job'[r].user \notin rushed'
             PROVE  FALSE
  BY DEF OneCreation
<1>1. rushed \subseteq rushed'
  BY RushedStay
<1>2. ASSUME NEW a \in Requests, NEW b \in Requests, a # b, pc'[b] \in MakingPcs,
             job'[a].user = job'[b].user, job'[a].user \notin rushed',
             NEW u \in Users, NEW n \in Names, AskCreate(a, u, n)
      PROVE  FALSE
  <2>1. pc'[b] = pc[b] /\ job'[b] = job[b]
    BY <1>2, OthersStay DEF Act
  <2>2. job'[a].user = u
    BY <1>2 DEF AskCreate, TypeOK
  <2>3. b \in Underway /\ job[b].user = u
    BY <1>2, <2>1, <2>2 DEF Underway, MakingPcs
  <2>4. u \in rushed'
    BY <1>2, <2>3 DEF AskCreate
  <2> QED
    BY <1>2, <2>2, <2>4
<1>3. pc[r] \in MakingPcs /\ job'[r].user = job[r].user
  BY <1>2, MakingBefore
<1>4. pc[s] \in MakingPcs /\ job'[s].user = job[s].user
  BY <1>2, MakingBefore
<1> QED
  BY <1>1, <1>3, <1>4 DEF OneCreation

\* Where there has to be room there had to be before, or the check has just
\* found some.
LEMMA CountedBefore ==
  ASSUME TypeOK, JobsFit, Next, NEW r \in Requests, Counted(r)'
  PROVE  Counted(r) \/ CountOrgs(r)
<1>1. CASE Crash
  BY <1>1 DEF Crash, TypeOK, Counted, Underway
<1>2. ASSUME NEW s \in Requests, Act(s), s # r PROVE Counted(r)
  BY <1>2, OthersStay DEF Counted
<1>3. CASE Checking(r)
  BY <1>3 DEF Checking, TooMany, CheckName, NameTaken, CheckSlug, SlugRefused,
              Check, Refuse, Answer, Move, TypeOK, Counted
<1>4. ~Updating(r)
  BY DEF Updating, CheckRename, RenameRefused, UpdateOrg, UpdateRefused, Check, Refuse, Answer, Move,
         TypeOK, Counted
<1>5. CASE Creation(r)
  BY <1>5 DEF Creation, InsertOrg, InsertRefused, CreateClient, MapOwner, InsertRole, OwnerKnown,
              StoreClient, StoreWebhook, CreateActivity, Check, Refuse, Answer, Move, TypeOK, Counted
<1>6. /\ ~Fail(r)
      /\ ~ \E u \in Users, n \in Names : AskCreate(r, u, n)
      /\ ~ \E u \in Users, n \in Names, o \in Ids : AskUpdate(r, u, o, n)
  BY DEF Fail, AskCreate, AskUpdate, Answer, Move, TypeOK, Counted
<1> QED
  BY <1>1, <1>2, <1>3, <1>4, <1>5, <1>6 DEF Next, Act, Work

\* What a user owns changes only by a creation of his that has room for it.
LEMMA OwnedStep ==
  ASSUME TypeOK, RolesOfRows, RolesOfRows', TypeOK', JobsFit, Next, NEW u \in Users
  PROVE  \/ OrgsOf(u)' = OrgsOf(u)
         \/ \E s \in Requests :
              /\ "role" \in left[s] /\ (InsertRole(s) \/ Fail(s))
              /\ job[s].user = u /\ pc[s] = "owner"
              /\ OrgsOf(u)' = OrgsOf(u) \cup {job[s].org}
<1>1. OrgsOf(u) = {o \in Ids : <<u, o>> \in roles} /\ OrgsOf(u)' = {o \in Ids : <<u, o>> \in roles'}
  BY OwnedRows DEF OrgsOf, RolesOfRows, Live
<1>2. CASE roles' = roles
  BY <1>1, <1>2
<1>3. ASSUME NEW s \in Requests, "role" \in left[s], InsertRole(s) \/ Fail(s),
             roles' = roles \cup {<<job[s].user, job[s].org>>}, OrgsOf(u)' # OrgsOf(u)
      PROVE  job[s].user = u /\ pc[s] = "owner" /\ OrgsOf(u)' = OrgsOf(u) \cup {job[s].org}
  <2>1. pc[s] = "owner" /\ job[s].org \in Ids
    BY <1>3 DEF JobsFit, MadePcs, Live
  <2>2. job[s].user = u
    BY <1>1, <1>3
  <2> QED
    BY <1>1, <1>3, <2>1, <2>2
<1> QED
  BY <1>2, <1>3, RolesStep

\* What an only creation has found room for, it uses up itself.
LEMMA RoomForOneStep ==
  TypeOK /\ TypeOK' /\ JobsFit /\ RolesOfRows /\ RolesOfRows' /\ OneCreation /\ RoomForOne /\ Next
    => RoomForOne'
<1> SUFFICES ASSUME TypeOK, TypeOK', JobsFit, RolesOfRows, RolesOfRows', OneCreation, RoomForOne, Next,
                    NEW r \in Requests, Counted(r)', job'[r].user \notin rushed'
             PROVE  (Cardinality(OrgsOf(job[r].user)) < Limit)'
  BY DEF RoomForOne
<1>1. Counted(r) \/ CountOrgs(r)
  BY CountedBefore
<1>2. pc[r] \in MakingPcs /\ job'[r].user = job[r].user
  <2>1. pc'[r] \in MakingPcs
    BY DEF Counted, MakingPcs
  <2>2. ~ \E v \in Users, n \in Names : AskCreate(r, v, n)
    BY DEF AskCreate, Move, TypeOK, Counted
  <2> QED
    BY <2>1, <2>2, MakingBefore
<1>3. PICK u \in Users : u = job[r].user
  BY <1>2 DEF JobsFit, MakingPcs
<1>4. u \notin rushed
  BY <1>2, <1>3, RushedStay
<1>5. Cardinality(OrgsOf(u)) < Limit
  BY <1>1, <1>3, <1>4 DEF RoomForOne, CountOrgs, Check
<1>6. ASSUME NEW s \in Requests, "role" \in left[s], InsertRole(s) \/ Fail(s), job[s].user = u, pc[s] = "owner"
      PROVE  FALSE
  <2>1. s = r
    BY <1>2, <1>3, <1>4, <1>6 DEF OneCreation, MakingPcs
  <2> QED
    BY <1>6, <2>1 DEF InsertRole, Fail, Answer, Move, TypeOK, Counted
<1>7. OrgsOf(u)' = OrgsOf(u)
  BY <1>6, OwnedStep
<1>8. OrgsOf(job[r].user)' = OrgsOf(u)'
  BY <1>2, <1>3 DEF OrgsOf
<1> QED
  BY <1>5, <1>7, <1>8

\* So nobody who is not rushed goes over the limit.
LEMMA OwnersWithinLimitStep ==
  TypeOK /\ TypeOK' /\ JobsFit /\ RolesOfRows /\ RolesOfRows' /\ RoomForOne /\ OwnersWithinLimit /\ Next
    => OwnersWithinLimit'
<1> SUFFICES ASSUME TypeOK, TypeOK', JobsFit, RolesOfRows, RolesOfRows', RoomForOne, OwnersWithinLimit, Next,
                    NEW u \in Users, u \notin rushed'
             PROVE  Cardinality(OrgsOf(u)') <= Limit
  BY DEF OwnersWithinLimit
<1>1. u \notin rushed /\ Cardinality(OrgsOf(u)) <= Limit
  BY RushedStay DEF OwnersWithinLimit
<1>2. IsFiniteSet(OrgsOf(u)) /\ Cardinality(OrgsOf(u)) \in Nat
  BY OwnedRows
<1>3. ASSUME NEW s \in Requests, "role" \in left[s], job[s].user = u, pc[s] = "owner",
             OrgsOf(u)' = OrgsOf(u) \cup {job[s].org}
      PROVE  Cardinality(OrgsOf(u)') <= Limit
  <2>1. Cardinality(OrgsOf(u)) < Limit
    BY <1>1, <1>3 DEF RoomForOne, Counted
  <2>2. \/ Cardinality(OrgsOf(u) \cup {job[s].org}) = Cardinality(OrgsOf(u))
        \/ Cardinality(OrgsOf(u) \cup {job[s].org}) = Cardinality(OrgsOf(u)) + 1
    BY <1>2, FS_AddElement, Zenon
  <2>3. IsFiniteSet(OrgsOf(u) \cup {job[s].org})
    BY <1>2, FS_AddElement
  <2>4. Cardinality(OrgsOf(u) \cup {job[s].org}) \in Nat
    BY <2>3, FS_CardinalityType
  <2> QED
    BY <1>2, <1>3, <2>1, <2>2, <2>4, ConstantsAssumption
<1> QED
  BY <1>1, <1>3, OwnedStep

-----------------------------------------------------------------------------
\* The theorems.

\* The invariant is inductive.
LEMMA IInvStep == IInv /\ [Next]_vars => IInv'
<1> SUFFICES ASSUME IInv, [Next]_vars PROVE IInv'
  OBVIOUS
<1>1. TypeOK'
  BY NextTypeOK DEF IInv
<1>2. CASE Next
  <2>1. JobsFit' /\ RolesOfRows'
    BY <1>2, JobsFitStep, RolesOfRowsStep DEF IInv
  <2>2. RowsSlugged' /\ SlugsDiffer' /\ StagesKept' /\ OrgsHaveOwner'
    BY <1>2, RowsKeptStep, StagesKeptStep, OrgsHaveOwnerStep DEF IInv
  <2>3. OneCreation' /\ RoomForOne' /\ OwnersWithinLimit'
    BY <1>1, <1>2, <2>1, OneCreationStep, RoomForOneStep, OwnersWithinLimitStep DEF IInv
  <2> QED
    BY <1>1, <2>1, <2>2, <2>3 DEF IInv
<1>3. CASE UNCHANGED vars
  BY <1>3, <1>1
     DEF vars, stores, requests, history, IInv, JobsFit, RolesOfRows, RowsSlugged, SlugsDiffer,
         StagesKept, Stage, OrgsHaveOwner, OneCreation, RoomForOne, Counted, OwnersWithinLimit,
         Live, OrgsOf, Creating, Underway
<1> QED
  BY <1>2, <1>3

\* It holds in every behaviour.
LEMMA AlwaysIInv == Spec => []IInv
<1> QED
  BY InitParts, IInvStep, PTL DEF Spec

\* TypeOK: rows, roles, clients and requests are what they are declared to be.
THEOREM TypeCorrect == Spec => []TypeOK
<1>1. IInv => TypeOK
  BY DEF IInv
<1> QED
  BY <1>1, AlwaysIInv, PTL

\* NamesDiffer: no two organisations have the same name, however many are made
\* and renamed at a time, because rows of one name would have one slug.
THEOREM NamesAreUnique == Spec => []NamesDiffer
<1>1. IInv => NamesDiffer
  BY DEF IInv, RowsSlugged, SlugsDiffer, NamesDiffer
<1> QED
  BY <1>1, AlwaysIInv, PTL

\* OrgsHaveOwner: an organisation whose creation is over is registered, has its
\* client and an owner whom both stores know, unless the creation failed.
THEOREM FinishedOrgsAreOwned == Spec => []OrgsHaveOwner
<1>1. IInv => OrgsHaveOwner
  BY DEF IInv
<1> QED
  BY <1>1, AlwaysIInv, PTL

\* OwnersWithinLimit: the limit that createOrganization checks long before it
\* stores the role holds for everybody who makes one organisation at a time.
THEOREM LimitIsKept == Spec => []OwnersWithinLimit
<1>1. IInv => OwnersWithinLimit
  BY DEF IInv
<1> QED
  BY <1>1, AlwaysIInv, PTL

\* OwnersKept: finished organisations have an owner, and nobody too many.
THEOREM OwnersAreKept == Spec => []OwnersKept
<1>1. OrgsHaveOwner /\ OwnersWithinLimit => OwnersKept
  BY DEF OwnersKept
<1> QED
  BY <1>1, FinishedOrgsAreOwned, LimitIsKept, PTL

-----------------------------------------------------------------------------
\* Invitations by the list: the inductive invariant.

BatchPcs == {"idle", "roles", "exists", "create", "mail", "activity", "created", "failed"}

BatchesTyped ==
  /\ place \in [Requests -> BatchPcs]
  /\ list \in [Requests -> BatchLists]
  /\ at \in [Requests -> Nat \ {0}]
  /\ crossed \in SUBSET Requests
  /\ failures \in 0..MaxFaults
  /\ Batches!TypeOK

\* A request has a place of its list in hand, or is past its end.
AtFits ==
  \A r \in Requests :
    /\ place[r] \in {"roles", "exists", "create", "mail"} => at[r] \in 1..Len(list[r])
    /\ place[r] = "idle" => at[r] = 1
    /\ place[r] \in {"activity", "created"} => at[r] = Len(list[r]) + 1

\* Who is under way next to another request is known to be.
AloneUnlessCrossed ==
  \A r, s \in Batches!UnderWay : r = s \/ {r, s} \subseteq crossed

\* What was checked still holds when the row is written, unless another request
\* has written one meanwhile.
SameAddress(r) == {row \in Batches!Open : Batches!EmailOf(row) = Batches!EmailOf(Batches!InHand(r))}

StillUninvited ==
  \A r \in Requests : place[r] = "create" =>
    \A row \in SameAddress(r) : {r, row[1]} \subseteq crossed

RolesChecked ==
  Registered =>
    \A r \in Requests :
      place[r] \in {"exists", "create"} => Batches!RolesOf(Batches!InHand(r)) \subseteq Roles

\* The places of its list a request has a row for, or has passed over.
Through(r) == {i \in 1..Len(list[r]) :
  /\ i < at[r] \/ (i = at[r] /\ place[r] = "mail")
  /\ list[r][i].email # Inviter}

ThroughInvited == \A r \in Requests : \A i \in Through(r) : Batches!Answering(<<r, i>>) # {}

\* A mail that is missing is about to be sent, unless something failed.
MailsFollow ==
  /\ \A r \in Requests : place[r] = "mail" => Batches!InHand(r) \in rows
  /\ failures = 0 =>
       \A row \in rows \ mailed : place[row[1]] = "mail" /\ row = Batches!InHand(row[1])

ThroughMailed ==
  failures = 0 =>
    \A r \in Requests \ crossed : \A i \in Through(r) :
      (place[r] = "mail" /\ i = at[r]) \/ Batches!Answering(<<r, i>>) \cap mailed # {}

BatchesInv ==
  /\ BatchesTyped /\ AtFits
  /\ AloneUnlessCrossed /\ StillUninvited /\ Batches!OneOpen
  /\ RolesChecked /\ Batches!RolesThere
  /\ ThroughInvited /\ MailsFollow /\ ThroughMailed

-----------------------------------------------------------------------------
LEMMA BatchesConstants ==
  /\ MaxFaults \in Nat
  /\ BatchLists \subseteq Seq([email : DOMAIN Lower, roles : SUBSET RoleIds \ {{}}])
  BY InstancesAssumption DEF Batches!ConstantsAssumption

LEMMA ListsAreLong == \A l \in BatchLists : Len(l) \in Nat /\ (l = <<>> <=> Len(l) = 0)
<1>1. \A l \in BatchLists : l \in Seq([email : DOMAIN Lower, roles : SUBSET RoleIds \ {{}}])
  BY BatchesConstants
<1> QED
  BY <1>1, EmptySeq, LenProperties

LEMMA BatchesInit == Batches!Init => BatchesInv
<1> SUFFICES ASSUME Batches!Init PROVE BatchesInv
  OBVIOUS
<1> USE BatchesConstants, ListsAreLong DEF Batches!Init
<1>1. BatchesTyped
  BY DEF BatchesTyped, BatchPcs, Batches!TypeOK
<1>2. AtFits /\ AloneUnlessCrossed /\ StillUninvited
  BY DEF AtFits, AloneUnlessCrossed, StillUninvited, Batches!UnderWay
<1>3. Batches!OneOpen /\ RolesChecked /\ Batches!RolesThere
  BY DEF Batches!OneOpen, Batches!Open, RolesChecked, Batches!RolesThere
<1>4. \A r \in Requests : Through(r) = {}
  BY DEF Through
<1>5. ThroughInvited /\ MailsFollow /\ ThroughMailed
  BY <1>4 DEF ThroughInvited, MailsFollow, ThroughMailed
<1> QED
  BY <1>1, <1>2, <1>3, <1>5 DEF BatchesInv

\* What a step of a request may do to it, whatever else it does: the place it
\* goes to and the invitation it has in hand there.
Goes(r, p, i) ==
  /\ place' = [place EXCEPT ![r] = p] /\ at' = [at EXCEPT ![r] = i]
  /\ UNCHANGED <<list, rejected>>

\* The steps by what they touch: a request begins, goes on, passes over or has
\* sent an invitation, writes a row, or fails; an invitee rejects.
Begins(r) ==
  /\ place[r] = "idle"
  /\ Goes(r, IF list[r] = <<>> THEN "activity" ELSE "roles", at[r])
  /\ crossed' = IF Batches!UnderWay = {} THEN crossed ELSE crossed \cup Batches!UnderWay \cup {r}
  /\ UNCHANGED <<rows, mailed, failures>>

Turns(r) ==
  /\ \/ place[r] = "roles" /\ Batches!RolesFound(r) /\ Goes(r, "exists", at[r])
     \/ place[r] = "roles" /\ Goes(r, "failed", at[r])
     \/ place[r] = "exists" /\ ~Batches!checkInvitationExist(r) /\ Goes(r, "create", at[r])
     \/ place[r] = "activity" /\ Goes(r, "created", at[r])
  /\ UNCHANGED <<rows, mailed, crossed, failures>>

Onward(r) == IF at[r] = Len(list[r]) THEN "activity" ELSE "roles"

Passes(r) ==
  /\ place[r] = "exists"
  /\ Batches!checkInvitationExist(r) \/ Batches!EmailOf(Batches!InHand(r)) = Inviter
  /\ Goes(r, Onward(r), at[r] + 1)
  /\ UNCHANGED <<rows, mailed, crossed, failures>>

Writes(r) ==
  /\ place[r] = "create"
  /\ Goes(r, "mail", at[r])
  /\ rows' = rows \cup {Batches!InHand(r)}
  /\ UNCHANGED <<mailed, crossed, failures>>

Mails(r) ==
  /\ place[r] = "mail"
  /\ Goes(r, Onward(r), at[r] + 1)
  /\ \/ mailed' = mailed \cup {Batches!InHand(r)} /\ UNCHANGED failures
     \/ UNCHANGED mailed /\ failures' = failures + 1 /\ failures' \in 0..MaxFaults
  /\ UNCHANGED <<rows, crossed>>

Fails(r) ==
  /\ r \in Batches!UnderWay
  /\ Goes(r, "failed", at[r])
  /\ failures' = failures + 1 /\ failures' \in 0..MaxFaults
  /\ UNCHANGED <<rows, mailed, crossed>>

LEMMA InviteIs ==
  ASSUME BatchesTyped, NEW r \in Requests, Batches!Invite(r)
  PROVE  Begins(r) \/ Turns(r) \/ Passes(r) \/ Writes(r) \/ Mails(r) \/ Fails(r)
<1> USE DEF BatchesTyped, Goes, Batches!Goes
<1>0. at = [at EXCEPT ![r] = at[r]]
  OBVIOUS
<1>1. CASE Batches!createInvitation(r)
  BY <1>0, <1>1 DEF Batches!createInvitation, Begins
<1>2. CASE Batches!CheckRoles(r) \/ Batches!orgRoleIdNotFound(r)
  BY <1>0, <1>2 DEF Batches!CheckRoles, Batches!orgRoleIdNotFound, Turns
<1>3. CASE Batches!ToInvite(r)
  BY <1>0, <1>3 DEF Batches!ToInvite, Turns
<1>4. CASE Batches!PassedOver(r)
  BY <1>4 DEF Batches!PassedOver, Batches!NextInvitation, Passes, Onward
<1>5. CASE Batches!createSendInvitation(r)
  BY <1>0, <1>5 DEF Batches!createSendInvitation, Writes
<1>6. CASE Batches!sendInviteEmailTemplate(r)
  BY <1>6 DEF Batches!sendInviteEmailTemplate, Batches!NextInvitation, Mails, Onward
<1>7. CASE Batches!MailNotSent(r)
  <2>1. failures' = failures + 1 /\ failures' \in 0..MaxFaults
    BY <1>7, BatchesConstants DEF Batches!MailNotSent, Batches!Fault
  <2> QED
    BY <1>7, <2>1 DEF Batches!MailNotSent, Batches!NextInvitation, Mails, Onward
<1>8. CASE Batches!CallFails(r)
  <2>1. failures' = failures + 1 /\ failures' \in 0..MaxFaults
    BY <1>8, BatchesConstants DEF Batches!CallFails, Batches!Fault
  <2> QED
    BY <1>0, <1>8, <2>1 DEF Batches!CallFails, Fails
<1>9. CASE Batches!createActivity(r)
  BY <1>0, <1>9 DEF Batches!createActivity, Turns
<1> QED
  BY <1>1, <1>2, <1>3, <1>4, <1>5, <1>6, <1>7, <1>8, <1>9 DEF Batches!Invite

LEMMA BatchesNextIs ==
  ASSUME BatchesTyped, Batches!Next
  PROVE  \/ \E r \in Requests : \/ Begins(r) \/ Turns(r) \/ Passes(r)
                                \/ Writes(r) \/ Mails(r) \/ Fails(r)
         \/ \E row \in rows : Batches!Rejects(row)
  BY InviteIs DEF Batches!Next

RequestSteps(r) == Begins(r) \/ Turns(r) \/ Passes(r) \/ Writes(r) \/ Mails(r) \/ Fails(r)

\* Everything a step of one request leaves alone.
LEMMA OthersWait ==
  ASSUME BatchesTyped, NEW r \in Requests, RequestSteps(r)
  PROVE  /\ \A s \in Requests \ {r} : place'[s] = place[s] /\ at'[s] = at[s]
         /\ list' = list /\ rejected' = rejected
         /\ crossed \subseteq crossed' /\ rows \subseteq rows' /\ mailed \subseteq mailed'
         /\ failures' = 0 => failures = 0
  BY BatchesConstants DEF RequestSteps, BatchesTyped, Begins, Turns, Passes, Writes, Mails, Fails, Goes

LEMMA BatchesTypes ==
  ASSUME BatchesTyped, AtFits, MailsFollow, Batches!Next
  PROVE  BatchesTyped'
<1> USE DEF BatchesTyped
<1>1. ASSUME NEW r \in Requests, RequestSteps(r)
      PROVE  BatchesTyped'
  <2>1. at[r] + 1 \in Nat \ {0} /\ Len(list[r]) \in Nat
    BY ListsAreLong
  <2>2. place' \in [Requests -> BatchPcs] /\ at' \in [Requests -> Nat \ {0}] /\ UNCHANGED <<list, rejected>>
    BY <1>1, <2>1 DEF RequestSteps, Begins, Turns, Passes, Writes, Mails, Fails, Goes, Onward, BatchPcs
  <2>3. crossed' \in SUBSET Requests /\ failures' \in 0..MaxFaults
    BY <1>1 DEF RequestSteps, Begins, Turns, Passes, Writes, Mails, Fails, Batches!UnderWay
  <2>4. \/ rows' = rows
        \/ rows' = rows \cup {<<r, at[r]>>} /\ at[r] \in 1..Len(list[r])
    BY <1>1 DEF RequestSteps, Begins, Turns, Passes, Writes, Mails, Fails, AtFits, Batches!InHand
  <2>5. rows' \subseteq UNION {{<<s, i>> : i \in 1..Len(list[s])} : s \in Requests}
    BY <2>4 DEF Batches!TypeOK
  <2>6. mailed' \subseteq rows'
    <3>1. mailed' = mailed \/ (mailed' = mailed \cup {Batches!InHand(r)} /\ place[r] = "mail")
      BY <1>1 DEF RequestSteps, Begins, Turns, Passes, Writes, Mails, Fails
    <3> QED
      BY <2>4, <3>1 DEF MailsFollow, Batches!TypeOK
  <2>7. \A s \in Requests : at'[s] \in 1..(Len(list[s]) + 1)
    <3>1. at'[r] \in 1..(Len(list[r]) + 1)
      <4>1. at'[r] = at[r] \/ (at'[r] = at[r] + 1 /\ place[r] \in {"exists", "mail"})
        BY <1>1 DEF RequestSteps, Begins, Turns, Passes, Writes, Mails, Fails, Goes
      <4> QED
        BY <2>1, <4>1 DEF AtFits, Batches!TypeOK
    <3> QED
      BY <1>1, <3>1, OthersWait DEF Batches!TypeOK
  <2>8. Batches!TypeOK'
    BY <2>2, <2>4, <2>5, <2>6, <2>7 DEF Batches!TypeOK
  <2> QED
    BY <2>2, <2>3, <2>8
<1>2. ASSUME NEW row \in rows, Batches!Rejects(row)
      PROVE  BatchesTyped'
  BY <1>2 DEF Batches!Rejects, Batches!TypeOK
<1> QED
  BY <1>1, <1>2, BatchesNextIs DEF RequestSteps

LEMMA AtFitsStep ==
  ASSUME BatchesTyped, AtFits, Batches!Next
  PROVE  AtFits'
<1>1. ASSUME NEW r \in Requests, RequestSteps(r)
      PROVE  AtFits'
  <2>1. Len(list[r]) \in Nat /\ at[r] \in Nat \ {0} /\ (list[r] = <<>> <=> Len(list[r]) = 0)
    BY ListsAreLong DEF BatchesTyped
  <2>2. /\ place'[r] \in {"roles", "exists", "create", "mail"} => at'[r] \in 1..Len(list[r])
        /\ place'[r] = "idle" => at'[r] = 1
        /\ place'[r] \in {"activity", "created"} => at'[r] = Len(list[r]) + 1
    BY <1>1, <2>1 DEF RequestSteps, BatchesTyped, Begins, Turns, Passes, Writes, Mails, Fails, Goes,
      Onward, AtFits
  <2> QED
    BY <1>1, <2>2, OthersWait DEF AtFits
<1>2. ASSUME NEW row \in rows, Batches!Rejects(row)
      PROVE  AtFits'
  BY <1>2 DEF Batches!Rejects, AtFits
<1> QED
  BY <1>1, <1>2, BatchesNextIs DEF RequestSteps

LEMMA AloneStep ==
  ASSUME BatchesTyped, AloneUnlessCrossed, Batches!Next
  PROVE  AloneUnlessCrossed'
<1> USE DEF AloneUnlessCrossed, Batches!UnderWay
<1>1. ASSUME NEW r \in Requests, RequestSteps(r)
      PROVE  AloneUnlessCrossed'
  <2>1. \A s \in Requests \ {r} : place'[s] = place[s]
    BY <1>1, OthersWait
  <2>2. crossed \subseteq crossed'
    BY <1>1, OthersWait
  <2>3. CASE r \in Batches!UnderWay
    BY <2>1, <2>2, <2>3
  <2>4. CASE r \notin Batches!UnderWay
    <3>1. Begins(r)
      BY <1>1, <2>4 DEF RequestSteps, Turns, Passes, Writes, Mails, Fails
    <3> QED
      BY <2>1, <2>2, <3>1 DEF Begins
  <2> QED
    BY <2>3, <2>4
<1>2. ASSUME NEW row \in rows, Batches!Rejects(row)
      PROVE  AloneUnlessCrossed'
  BY <1>2 DEF Batches!Rejects
<1> QED
  BY <1>1, <1>2, BatchesNextIs DEF RequestSteps

\* Rows are written by requests under way, and seen by the others of them.
LEMMA RowsAreMine ==
  ASSUME NEW r \in Requests, RequestSteps(r)
  PROVE  rows' = rows \/ (rows' = rows \cup {Batches!InHand(r)} /\ Writes(r))
  BY DEF RequestSteps, Begins, Turns, Passes, Writes, Mails, Fails

LEMMA UninvitedStep ==
  ASSUME BatchesTyped, AloneUnlessCrossed, StillUninvited, Batches!Next
  PROVE  StillUninvited'
<1> USE DEF StillUninvited, SameAddress, Batches!Open, Batches!InHand, Batches!EmailOf
<1>1. ASSUME NEW r \in Requests, RequestSteps(r)
      PROVE  StillUninvited'
  <2> SUFFICES ASSUME NEW s \in Requests, place'[s] = "create"
               PROVE  \A row \in SameAddress(s)' : {s, row[1]} \subseteq crossed'
    OBVIOUS
  <2>0. crossed \subseteq crossed' /\ rejected' = rejected /\ list' = list
    BY <1>1, OthersWait
  <2>1. CASE s = r
    <3>1. at'[s] = at[s] /\ rows' = rows /\ ~Batches!checkInvitationExist(s)
      BY <1>1, <2>1 DEF RequestSteps, BatchesTyped, Begins, Turns, Passes, Writes, Mails, Fails, Goes, Onward
    <3> QED
      BY <2>0, <3>1 DEF Batches!checkInvitationExist
  <2>2. CASE s # r
    <3>1. place[s] = "create" /\ at'[s] = at[s]
      BY <1>1, <2>2, OthersWait
    <3>2. Writes(r) => {r, s} \subseteq crossed
      BY <2>2, <3>1 DEF Writes, AloneUnlessCrossed, Batches!UnderWay
    <3>3. \A row \in SameAddress(s)' : row \in SameAddress(s) \/ (Writes(r) /\ row[1] = r)
      BY <1>1, <2>0, <3>1, RowsAreMine
    <3> QED
      BY <2>0, <3>1, <3>2, <3>3
  <2> QED
    BY <2>1, <2>2
<1>2. ASSUME NEW row \in rows, Batches!Rejects(row)
      PROVE  StillUninvited'
  BY <1>2 DEF Batches!Rejects
<1> QED
  BY <1>1, <1>2, BatchesNextIs DEF RequestSteps

LEMMA OneOpenStep ==
  ASSUME BatchesTyped, StillUninvited, Batches!OneOpen, Batches!Next
  PROVE  Batches!OneOpen'
<1> USE DEF Batches!OneOpen, Batches!Open, Batches!EmailOf
<1>1. ASSUME NEW r \in Requests, RequestSteps(r)
      PROVE  Batches!OneOpen'
  <2>1. list' = list /\ rejected' = rejected /\ crossed \subseteq crossed'
    BY <1>1, OthersWait
  <2>2. CASE rows' = rows
    BY <2>1, <2>2
  <2>3. CASE rows' = rows \cup {Batches!InHand(r)} /\ Writes(r)
    <3>1. \A row \in rows \ rejected :
            list[row[1]][row[2]].email = list[r][at[r]].email => {r, row[1]} \subseteq crossed
      BY <2>3 DEF StillUninvited, SameAddress, Writes, Batches!InHand
    <3> QED
      BY <2>1, <2>3, <3>1 DEF Batches!InHand
  <2> QED
    BY <1>1, <2>2, <2>3, RowsAreMine
<1>2. ASSUME NEW row \in rows, Batches!Rejects(row)
      PROVE  Batches!OneOpen'
  BY <1>2 DEF Batches!Rejects
<1> QED
  BY <1>1, <1>2, BatchesNextIs DEF RequestSteps

LEMMA RolesCheckedStep ==
  ASSUME BatchesTyped, RolesChecked, Batches!RolesThere, Batches!Next
  PROVE  RolesChecked' /\ Batches!RolesThere'
<1> USE DEF RolesChecked, Batches!RolesThere, Batches!RolesOf, Batches!InHand
<1>1. ASSUME NEW r \in Requests, RequestSteps(r)
      PROVE  RolesChecked' /\ Batches!RolesThere'
  <2>1. list' = list /\ \A s \in Requests \ {r} : place'[s] = place[s] /\ at'[s] = at[s]
    BY <1>1, OthersWait
  <2>2. Registered /\ place'[r] \in {"exists", "create"} => list[r][at'[r]].roles \subseteq Roles
    BY <1>1 DEF RequestSteps, BatchesTyped, Begins, Turns, Passes, Writes, Mails, Fails, Goes, Onward,
      Batches!RolesFound
  <2>3. Batches!RolesThere'
    <3>1. CASE rows' = rows
      BY <2>1, <3>1
    <3>2. CASE rows' = rows \cup {<<r, at[r]>>} /\ Writes(r)
      BY <2>1, <3>2 DEF Writes
    <3> QED
      BY <1>1, <3>1, <3>2, RowsAreMine
  <2> QED
    BY <2>1, <2>2, <2>3
<1>2. ASSUME NEW row \in rows, Batches!Rejects(row)
      PROVE  RolesChecked' /\ Batches!RolesThere'
  BY <1>2 DEF Batches!Rejects
<1> QED
  BY <1>1, <1>2, BatchesNextIs DEF RequestSteps

\* A request gets through one place of its list at a time.
LEMMA ThroughGrows ==
  ASSUME BatchesTyped, AtFits, NEW r \in Requests, RequestSteps(r),
         NEW s \in Requests, NEW i \in Through(s)'
  PROVE  \/ i \in Through(s)
         \/ /\ s = r /\ i = at[r] /\ (Passes(r) \/ Writes(r))
            /\ i \in 1..Len(list[r]) /\ list[r][i].email # Inviter
<1>1. list' = list
  BY OthersWait
<1>2. CASE s # r
  BY <1>1, <1>2, OthersWait DEF Through
<1>3. CASE s = r
  <2>1. Len(list[r]) \in Nat /\ at[r] \in Nat \ {0} /\ i \in Nat
    BY <1>3, <1>1, ListsAreLong DEF BatchesTyped, Through
  <2>2. CASE Begins(r)
    BY <1>1, <1>3, <2>1, <2>2 DEF Begins, Goes, BatchesTyped, AtFits, Through
  <2>3. CASE Turns(r) \/ Fails(r)
    BY <1>1, <1>3, <2>1, <2>3 DEF Turns, Fails, Goes, BatchesTyped, Through
  <2>4. CASE Passes(r)
    BY <1>1, <1>3, <2>1, <2>4 DEF Passes, Onward, Goes, BatchesTyped, Through
  <2>5. CASE Writes(r)
    BY <1>1, <1>3, <2>1, <2>5 DEF Writes, Goes, BatchesTyped, Through
  <2>6. CASE Mails(r)
    BY <1>1, <1>3, <2>1, <2>6 DEF Mails, Onward, Goes, BatchesTyped, Through
  <2> QED
    BY <2>2, <2>3, <2>4, <2>5, <2>6 DEF RequestSteps
<1> QED
  BY <1>2, <1>3

LEMMA ThroughInvitedStep ==
  ASSUME BatchesTyped, AtFits, ThroughInvited, Batches!Next
  PROVE  ThroughInvited'
<1> USE DEF ThroughInvited, Batches!Answering, Batches!EmailOf
<1>1. ASSUME NEW r \in Requests, RequestSteps(r)
      PROVE  ThroughInvited'
  <2> SUFFICES ASSUME NEW s \in Requests, NEW i \in Through(s)'
               PROVE  Batches!Answering(<<s, i>>)' # {}
    OBVIOUS
  <2>0. list' = list /\ rows \subseteq rows'
    BY <1>1, OthersWait
  <2>1. CASE i \in Through(s)
    BY <2>0, <2>1
  <2>2. CASE s = r /\ i = at[r] /\ Passes(r) /\ list[r][i].email # Inviter
    BY <2>0, <2>2 DEF Passes, Batches!checkInvitationExist, Batches!Open, Batches!InHand
  <2>3. CASE s = r /\ i = at[r] /\ Writes(r)
    BY <2>0, <2>3 DEF Writes, Batches!InHand
  <2> QED
    BY <1>1, <2>1, <2>2, <2>3, ThroughGrows
<1>2. ASSUME NEW row \in rows, Batches!Rejects(row)
      PROVE  ThroughInvited'
  BY <1>2 DEF Batches!Rejects, Through
<1> QED
  BY <1>1, <1>2, BatchesNextIs DEF RequestSteps

LEMMA MailsFollowStep ==
  ASSUME BatchesTyped, MailsFollow, Batches!Next
  PROVE  MailsFollow'
<1> USE DEF MailsFollow, Batches!InHand
<1>1. ASSUME NEW r \in Requests, RequestSteps(r)
      PROVE  MailsFollow'
  <2>0. /\ \A s \in Requests \ {r} : place'[s] = place[s] /\ at'[s] = at[s]
        /\ rows \subseteq rows' /\ mailed \subseteq mailed' /\ (failures' = 0 => failures = 0)
    BY <1>1, OthersWait
  <2>1. place'[r] = "mail" => <<r, at'[r]>> \in rows'
    BY <1>1 DEF RequestSteps, BatchesTyped, Begins, Turns, Passes, Writes, Mails, Fails, Goes, Onward
  <2>2. ASSUME failures' = 0, NEW row \in rows' \ mailed'
        PROVE  place'[row[1]] = "mail" /\ row = <<row[1], at'[row[1]]>>
    <3>1. failures = 0
      BY <2>0, <2>2
    <3>2. row[1] \in Requests
      <4>1. row \in rows \/ row = <<r, at[r]>>
        BY <1>1, RowsAreMine
      <4> QED
        BY <4>1 DEF BatchesTyped, Batches!TypeOK
    <3>3. CASE Writes(r) /\ row = <<r, at[r]>>
      BY <3>3 DEF Writes, Goes, BatchesTyped
    <3>4. CASE row \in rows
      <4>1. place[row[1]] = "mail" /\ row = <<row[1], at[row[1]]>>
        BY <2>0, <2>2, <3>1, <3>4
      <4>2. row[1] # r
        <5>1. SUFFICES ASSUME row[1] = r PROVE FALSE
          OBVIOUS
        <5>2. Mails(r) \/ Fails(r)
          BY <1>1, <4>1, <5>1 DEF RequestSteps, Begins, Turns, Passes, Writes
        <5>3. failures + 1 # 0
          BY BatchesConstants DEF BatchesTyped
        <5>4. mailed' = mailed \cup {<<r, at[r]>>}
          BY <2>2, <5>2, <5>3 DEF Mails, Fails
        <5> QED
          BY <2>2, <4>1, <5>1, <5>4
      <4> QED
        BY <2>0, <3>2, <4>1, <4>2
    <3> QED
      BY <1>1, <2>2, <3>3, <3>4, RowsAreMine
  <2> QED
    BY <2>0, <2>1, <2>2
<1>2. ASSUME NEW row \in rows, Batches!Rejects(row)
      PROVE  MailsFollow'
  BY <1>2 DEF Batches!Rejects
<1> QED
  BY <1>1, <1>2, BatchesNextIs DEF RequestSteps

LEMMA ThroughMailedStep ==
  ASSUME BatchesTyped, AtFits, AloneUnlessCrossed, MailsFollow, ThroughMailed, Batches!Next
  PROVE  ThroughMailed'
<1> USE DEF Batches!Answering, Batches!EmailOf
<1>1. ASSUME NEW r \in Requests, RequestSteps(r)
      PROVE  ThroughMailed'
  <2> SUFFICES ASSUME failures' = 0, NEW s \in Requests \ crossed', NEW i \in Through(s)'
               PROVE  \/ place'[s] = "mail" /\ i = at'[s]
                      \/ Batches!Answering(<<s, i>>)' \cap mailed' # {}
    BY DEF ThroughMailed
  <2>0. /\ list' = list /\ rows \subseteq rows' /\ mailed \subseteq mailed'
        /\ failures = 0 /\ s \notin crossed
        /\ \A q \in Requests \ {r} : place'[q] = place[q] /\ at'[q] = at[q]
    BY <1>1, OthersWait
  <2>1. CASE i \in Through(s)
    <3>1. CASE Batches!Answering(<<s, i>>) \cap mailed # {}
      BY <2>0, <3>1
    <3>2. CASE place[s] = "mail" /\ i = at[s] /\ s # r
      BY <2>0, <3>2
    <3>3. CASE place[s] = "mail" /\ i = at[s] /\ s = r
      <4>1. Mails(r) \/ Fails(r)
        BY <1>1, <3>3 DEF RequestSteps, Begins, Turns, Passes, Writes
      <4>2. failures + 1 # 0
        BY BatchesConstants DEF BatchesTyped
      <4>3. mailed' = mailed \cup {<<r, at[r]>>}
        BY <4>1, <4>2 DEF Mails, Fails, Batches!InHand
      <4>4. <<r, at[r]>> \in rows
        BY <3>3 DEF MailsFollow, Batches!InHand
      <4> QED
        BY <2>0, <3>3, <4>3, <4>4
    <3> QED
      BY <2>0, <2>1, <3>1, <3>2, <3>3 DEF ThroughMailed
  <2>2. CASE s = r /\ i = at[r] /\ Passes(r) /\ list[r][i].email # Inviter
    <3>1. PICK row \in rows \ rejected : list[row[1]][row[2]].email = list[r][i].email
      BY <2>2 DEF Passes, Batches!checkInvitationExist, Batches!Open, Batches!InHand
    <3>2. row \in mailed
      <4>1. SUFFICES ASSUME row \notin mailed PROVE FALSE
        OBVIOUS
      <4>2. place[row[1]] = "mail" /\ row[1] \in Requests
        BY <2>0, <3>1, <4>1 DEF MailsFollow, BatchesTyped, Batches!TypeOK
      <4> QED
        BY <2>0, <2>2, <4>2 DEF AloneUnlessCrossed, Batches!UnderWay, Passes
    <3> QED
      BY <2>0, <2>2, <3>1, <3>2
  <2>3. CASE s = r /\ i = at[r] /\ Writes(r)
    BY <2>3 DEF Writes, Goes, BatchesTyped
  <2> QED
    BY <1>1, <2>1, <2>2, <2>3, ThroughGrows
<1>2. ASSUME NEW row \in rows, Batches!Rejects(row)
      PROVE  ThroughMailed'
  BY <1>2 DEF Batches!Rejects, Through, ThroughMailed
<1> QED
  BY <1>1, <1>2, BatchesNextIs DEF RequestSteps

LEMMA BatchesInductive == BatchesInv /\ Batches!Next => BatchesInv'
  BY BatchesTypes, AtFitsStep, AloneStep, UninvitedStep, OneOpenStep, RolesCheckedStep,
     ThroughInvitedStep, MailsFollowStep, ThroughMailedStep DEF BatchesInv

\* What a list that went through leaves follows from its last place.
LEMMA BatchesKept ==
  ASSUME BatchesInv
  PROVE  /\ Batches!TypeOK /\ Batches!OneOpen /\ Batches!CreatedIsInvited
         /\ Batches!CreatedIsMailed /\ Batches!RolesThere
<1> USE DEF BatchesInv
<1>1. ASSUME NEW r \in Requests, place[r] = "created", NEW row \in Batches!Created(r)
      PROVE  \E i \in Through(r) : row = <<r, i>>
  <2>1. PICK i \in 1..Len(list[r]) : row = <<r, i>> /\ list[r][i].email # Inviter
    BY <1>1 DEF Batches!Created
  <2>2. at[r] = Len(list[r]) + 1 /\ Len(list[r]) \in Nat
    BY <1>1, ListsAreLong DEF AtFits, BatchesTyped
  <2> QED
    BY <2>1, <2>2 DEF Through
<1>2. Batches!CreatedIsInvited
  BY <1>1 DEF Batches!CreatedIsInvited, ThroughInvited
<1>3. Batches!CreatedIsMailed
  BY <1>1 DEF Batches!CreatedIsMailed, ThroughMailed
<1> QED
  BY <1>2, <1>3 DEF BatchesTyped

-----------------------------------------------------------------------------
\* Notifications: the inductive invariant.

\* A row that a message has read is still the one of its organisation, and what
\* is past the post has arrived there.
ReadStays ==
  \A m \in Messages :
    /\ mpc[m] \in {"post", "check", "sent", "failed", "invalidUrl"} =>
         webhook[m] = notification[clientCode[m]]
    /\ mpc[m] \in {"check", "sent"} => <<m, webhook[m]>> \in got

PostsInv == Posts!TypeOK /\ ReadStays /\ Posts!RegisteredInForce /\ Posts!ArrivesAtItsOwn

LEMMA PostsConstants == MaxLosses \in Nat /\ Unset \notin Urls
  BY InstancesAssumption DEF Posts!ConstantsAssumption

LEMMA PostsInit == Posts!Init => PostsInv
  BY PostsConstants
  DEF Posts!Init, PostsInv, Posts!TypeOK, ReadStays, Posts!RegisteredInForce, Posts!ArrivesAtItsOwn

\* A row once written stays; who is the first to ask for it is who writes it.
LEMMA RowsStayPut ==
  ASSUME Posts!TypeOK, NEW r \in Registrations,
         Posts!storeOrgWebhookEndpoint(r) \/ Posts!RegisteredAlready(r) \/ Posts!RegistrationFails(r)
  PROVE  /\ \A o \in Orgs : notification[o] # Unset => notification'[o] = notification[o]
         /\ notification' \in [Orgs -> Urls \cup {Unset}]
         /\ rpc' \in [Registrations -> {"asked", "registered", "refused", "failed"}]
         /\ \A s \in Registrations \ {r} : rpc'[s] = rpc[s]
         /\ rpc'[r] = "registered" => notification'[entry[r].orgId] = entry[r].notificationWebhook
         /\ failures' \in 0..MaxLosses
         /\ UNCHANGED <<entry, mpc, clientCode, webhook, got>>
<1> USE PostsConstants DEF Posts!TypeOK, Posts!StoredFor, Posts!Registers
<1>1. CASE Posts!storeOrgWebhookEndpoint(r)
  BY <1>1 DEF Posts!storeOrgWebhookEndpoint
<1>2. CASE Posts!RegisteredAlready(r)
  BY <1>2 DEF Posts!RegisteredAlready
<1>3. CASE Posts!RegistrationFails(r)
  BY <1>3 DEF Posts!RegistrationFails, Posts!Fault
<1> QED
  BY <1>1, <1>2, <1>3

\* A step of a message changes nothing but the message and what has arrived.
MessageSteps(m) ==
  \/ Posts!getOrgWebhookEndpoint(m) \/ Posts!notFound(m)
  \/ Posts!httpPost(m) \/ Posts!handleCommonErrors(m) \/ Posts!isValidUrl(m)

LEMMA MessageGoes ==
  ASSUME Posts!TypeOK, ReadStays, NEW m \in Messages, MessageSteps(m)
  PROVE  /\ Posts!TypeOK'
         /\ \A n \in Messages \ {m} : mpc'[n] = mpc[n] /\ webhook'[n] = webhook[n]
         /\ UNCHANGED <<notification, rpc, entry, clientCode>>
         /\ got' = got \/ (got' = got \cup {<<m, webhook[m]>>} /\ mpc[m] = "post")
         /\ mpc'[m] \in {"post", "check", "sent", "failed", "invalidUrl"} =>
              webhook'[m] = notification[clientCode[m]]
         /\ mpc'[m] \in {"check", "sent"} => <<m, webhook'[m]>> \in got'
<1> USE PostsConstants DEF Posts!TypeOK, ReadStays, Posts!Goes
<1>1. CASE Posts!getOrgWebhookEndpoint(m)
  BY <1>1 DEF Posts!getOrgWebhookEndpoint
<1>2. CASE Posts!notFound(m)
  BY <1>2 DEF Posts!notFound
<1>3. CASE Posts!httpPost(m)
  <2>1. mpc[m] = "post" /\ got \cup {<<m, webhook[m]>>} \subseteq Messages \X Urls
    BY <1>3 DEF Posts!httpPost
  <2> QED
    BY <1>3, <2>1 DEF Posts!httpPost
<1>4. CASE Posts!handleCommonErrors(m)
  <2>1. mpc[m] = "post" /\ got \cup {<<m, webhook[m]>>} \subseteq Messages \X Urls
    BY <1>4 DEF Posts!handleCommonErrors
  <2>2. got' = got \/ got' = got \cup {<<m, webhook[m]>>}
    BY <1>4 DEF Posts!handleCommonErrors
  <2>3. failures' \in 0..MaxLosses
    BY <1>4 DEF Posts!handleCommonErrors, Posts!Fault
  <2> QED
    BY <1>4, <2>1, <2>2, <2>3 DEF Posts!handleCommonErrors
<1>5. CASE Posts!isValidUrl(m)
  BY <1>5 DEF Posts!isValidUrl
<1> QED
  BY <1>1, <1>2, <1>3, <1>4, <1>5 DEF MessageSteps

LEMMA PostsInductive == PostsInv /\ Posts!Next => PostsInv'
<1> SUFFICES ASSUME PostsInv, Posts!Next PROVE PostsInv'
  OBVIOUS
<1> USE DEF PostsInv
<1>1. ASSUME NEW r \in Registrations,
             Posts!storeOrgWebhookEndpoint(r) \/ Posts!RegisteredAlready(r) \/ Posts!RegistrationFails(r)
      PROVE  PostsInv'
  <2>1. Posts!TypeOK'
    BY <1>1, RowsStayPut DEF Posts!TypeOK
  <2>2. ReadStays'
    BY <1>1, RowsStayPut, PostsConstants DEF ReadStays, Posts!TypeOK
  <2>3. Posts!RegisteredInForce'
    BY <1>1, RowsStayPut, PostsConstants DEF Posts!RegisteredInForce, Posts!StoredFor, Posts!TypeOK
  <2>4. Posts!ArrivesAtItsOwn'
    <3>1. ASSUME NEW g \in got
          PROVE  /\ clientCode[g[1]] \in Orgs /\ g[2] # Unset
                 /\ g[2] = notification[clientCode[g[1]]]
      BY PostsConstants DEF Posts!ArrivesAtItsOwn, Posts!TypeOK
    <3>2. UNCHANGED <<got, clientCode>>
      BY <1>1, RowsStayPut
    <3>3. \A o \in Orgs : notification[o] # Unset => notification'[o] = notification[o]
      BY <1>1, RowsStayPut
    <3> QED
      BY <3>1, <3>2, <3>3 DEF Posts!ArrivesAtItsOwn
  <2> QED
    BY <2>1, <2>2, <2>3, <2>4
<1>2. ASSUME NEW m \in Messages, MessageSteps(m)
      PROVE  PostsInv'
  <2>1. Posts!TypeOK' /\ ReadStays'
    BY <1>2, MessageGoes DEF ReadStays
  <2>2. Posts!RegisteredInForce'
    BY <1>2, MessageGoes DEF Posts!RegisteredInForce, Posts!StoredFor
  <2>3. Posts!ArrivesAtItsOwn'
    <3>1. UNCHANGED <<notification, clientCode>>
      BY <1>2, MessageGoes
    <3>2. CASE got' = got
      BY <3>1, <3>2 DEF Posts!ArrivesAtItsOwn
    <3>3. CASE got' = got \cup {<<m, webhook[m]>>} /\ mpc[m] = "post"
      BY <3>1, <3>3 DEF Posts!ArrivesAtItsOwn, ReadStays
    <3> QED
      BY <1>2, <3>2, <3>3, MessageGoes
  <2> QED
    BY <2>1, <2>2, <2>3
<1> QED
  BY <1>1, <1>2 DEF Posts!Next, MessageSteps

LEMMA PostsKept == PostsInv => Posts!SentHasArrived
  BY DEF PostsInv, ReadStays, Posts!SentHasArrived

-----------------------------------------------------------------------------
\* The seed: the inductive invariant.

SeedPcs == DOMAIN Seed!Steps \cup Seed!Gaps \cup {"idle", "failed", "done"}
MasterRows == UNION {UNION {Master[v][t] : t \in Seed!Tables} : v \in 1..Len(Master)}

SeedTyped ==
  /\ quiet \in BOOLEAN /\ version \in 1..Len(Master)
  /\ rows \in [Seed!Tables -> SUBSET MasterRows]
  /\ platformUser \in BOOLEAN /\ platformOrg \in BOOLEAN /\ platformAdmin \in BOOLEAN
  /\ stored \in SUBSET Agents /\ pending \in SUBSET stored /\ typed \in SUBSET Schemas
  /\ ledgerOf \in [Agents -> {Seed!Null} \cup ledgers]
  /\ didRows \in SUBSET (stored \X {"seed", "platform"})
  /\ place \in SeedPcs
  /\ place = "ledgersGone" => ledgers = {}
  /\ platformUserId \in BOOLEAN
  /\ made \in Nat /\ crashes \in 0..MaxCrashes

\* The steps behind a table, or another thing a run brings up to date.
Late == {"dids", "types", "geo", "clients", "done"}
Behind ==
  [userRoles |-> Late,
   ledgerConfig |-> Late \cup {"userRoles"},
   ledgers |-> Late \cup {"userRoles", "ledgerConfig", "ledgerConfigGone"},
   orgAgentTypes |-> Late \cup {"userRoles", "ledgerConfig", "ledgerConfigGone", "ledgers", "ledgersGone"},
   agentTypes |-> SeedPcs \ {"idle", "failed", "config", "roles", "agentTypes"},
   roles |-> SeedPcs \ {"idle", "failed", "config", "roles"},
   config |-> SeedPcs \ {"idle", "failed", "config"}]

\* A table that all versions seed alike is empty or has all of its rows.
Same == {t \in Seed!Tables : \A v \in 1..Len(Master) : Master[v][t] = Master[1][t]}

AllOrNothing ==
  \A t \in Same :
    /\ rows[t] = {} \/ Master[1][t] \subseteq rows[t]
    /\ place \in Behind[t] => Master[1][t] \subseteq rows[t]

\* The ledgers are those of one version, made by one run.
LedgersOf(v, k) == {<<n, k>> : n \in Master[v]["ledgers"]}

LedgersOfOneRun ==
  /\ ledgers = {} \/ \E v \in 1..Len(Master), k \in Nat : ledgers = LedgersOf(v, k)
  /\ place \in Behind["ledgers"] =>
       ledgers # {} /\ Cardinality(ledgers) = Cardinality(Master[version]["ledgers"])

ConfigOfVersion == place \in Behind["ledgerConfig"] => ledgerConfig = Master[version]["ledgerConfig"]

\* An agent has a ledger only when it is stored.
LedgersOfStored == \A a \in Agents : ledgerOf[a] # Seed!Null => a \in stored

\* While a seed runs no DID is still to be stored, and such a one has no row.
QuietRuns ==
  quiet =>
    /\ Seed!Running => pending = {}
    /\ \A a \in pending : ~Seed!HasRow(a)
    /\ place \in {"types", "geo", "clients", "done"} =>
         \A a \in stored \ (pending \cup Configured) : Seed!HasRow(a)

SeedInv ==
  /\ SeedTyped /\ AllOrNothing /\ LedgersOfOneRun /\ ConfigOfVersion /\ LedgersOfStored
  /\ QuietRuns /\ Seed!OneDidRow

-----------------------------------------------------------------------------
LEMMA SeedConstants ==
  /\ Len(Master) \in Nat \ {0}
  /\ \A v \in 1..Len(Master) : \A t \in Seed!Tables \cup {"ledgers", "ledgerConfig"} : Master[v][t] # {}
  /\ \A v \in 1..Len(Master) : IsFiniteSet(Master[v]["ledgers"])
  /\ IsFiniteSet(Agents) /\ Old \subseteq Agents
  /\ MaxCrashes \in Nat /\ CrashAt \subseteq DOMAIN Seed!Steps \cup Seed!Gaps
<1>1. Seed!ConstantsAssumption
  BY InstancesAssumption
<1>2. \A S : Seed!IsFiniteSet(S) <=> IsFiniteSet(S)
  BY DEF Seed!IsFiniteSet, IsFiniteSet
<1> QED
  BY <1>1, <1>2 DEF Seed!ConstantsAssumption

LEMMA CountsAreCounts == \A S : Seed!Cardinality(S) = Cardinality(S)
  BY DEF Seed!Cardinality, Cardinality

LEMMA SeedInit == Seed!Init => SeedInv
<1> SUFFICES ASSUME Seed!Init PROVE SeedInv
  OBVIOUS
<1> USE SeedConstants DEF Seed!Init
<1>1. SeedTyped
  <2>1. place \in SeedPcs
    BY DEF SeedPcs
  <2>2. rows \in [Seed!Tables -> SUBSET MasterRows]
    OBVIOUS
  <2>3. ledgerOf \in [Agents -> {Seed!Null} \cup ledgers] /\ crashes \in 0..MaxCrashes /\ made \in Nat
    OBVIOUS
  <2>4. version \in 1..Len(Master) /\ stored \in SUBSET Agents
    OBVIOUS
  <2>5. pending = {} /\ didRows = {} /\ typed = {} /\ place # "ledgersGone"
    OBVIOUS
  <2>6. /\ quiet \in BOOLEAN /\ platformUserId \in BOOLEAN
        /\ platformUser \in BOOLEAN /\ platformOrg \in BOOLEAN /\ platformAdmin \in BOOLEAN
    OBVIOUS
  <2> HIDE DEF Seed!Init
  <2> QED
    BY <2>1, <2>2, <2>3, <2>4, <2>5, <2>6 DEF SeedTyped
<1>2. AllOrNothing
  BY DEF AllOrNothing, Same, Behind, Late, Seed!Tables
<1>3. LedgersOfOneRun /\ ConfigOfVersion
  BY DEF LedgersOfOneRun, ConfigOfVersion, Behind, Late
<1>4. LedgersOfStored /\ QuietRuns /\ Seed!OneDidRow
  BY DEF LedgersOfStored, QuietRuns, Seed!OneDidRow, Seed!Running
<1> QED
  BY <1>1, <1>2, <1>3, <1>4 DEF SeedInv

-----------------------------------------------------------------------------
\* The steps, by what they touch of this.

agentState == <<stored, pending, ledgerOf, didRows>>

\* One that has nothing to do with tables or agents: it goes on to the next step,
\* or ends the run.
Ahead(step, next) ==
  \/ next = "failed"
  \/ step = "user" /\ next = "organization"
  \/ step = "organization" /\ next = "adminRole"
  \/ step = "adminRole" /\ next = "orgAgentTypes"
  \/ step = "types" /\ next \in {"types", "geo"}
  \/ step = "geo" /\ next = "clients"
  \/ step = "clients" /\ next = "done"

Idles ==
  /\ Ahead(place, place') /\ place \notin {"idle", "failed", "done"}
  /\ UNCHANGED <<quiet, version, rows, ledgers, ledgerConfig, made, agentState>>

LEMMA SeedPcsAre ==
  SeedPcs = {"config", "roles", "agentTypes", "user", "organization", "adminRole", "orgAgentTypes",
             "ledgers", "ledgersGone", "ledgerConfig", "ledgerConfigGone", "userRoles", "dids",
             "types", "geo", "clients", "idle", "failed", "done"}
  BY DEF SeedPcs, Seed!Steps, Seed!Gaps

LEMMA AfterEach ==
  /\ Seed!After("config") = "roles" /\ Seed!After("roles") = "agentTypes"
  /\ Seed!After("agentTypes") = "user" /\ Seed!After("user") = "organization"
  /\ Seed!After("organization") = "adminRole" /\ Seed!After("adminRole") = "orgAgentTypes"
  /\ Seed!After("orgAgentTypes") = "ledgers" /\ Seed!After("ledgers") = "ledgerConfig"
  /\ Seed!After("ledgerConfig") = "userRoles" /\ Seed!After("userRoles") = "dids"
  /\ Seed!After("dids") = "types" /\ Seed!After("types") = "geo"
  /\ Seed!After("geo") = "clients" /\ Seed!After("clients") = "done"
  BY DEF Seed!After, Seed!Steps

SeedSteps ==
  \/ Seed!main \/ Seed!Deploy \/ Idles
  \/ \E t \in Seed!Tables : Seed!CreateMasterRows(t)
  \/ Seed!LedgersKept \/ Seed!LedgersDeleted \/ Seed!LedgersMade
  \/ Seed!ConfigDeleted \/ Seed!ConfigMade
  \/ Seed!migrateOrgAgentDids
  \/ \E a \in Agents : Seed!AgentStored(a) \/ Seed!DidStored(a)

LEMMA SeedNextIs == SeedTyped /\ Seed!Next => SeedSteps
<1> SUFFICES ASSUME SeedTyped, Seed!Next PROVE SeedSteps
  OBVIOUS
<1> USE AfterEach DEF Idles, Ahead, Seed!tables, Seed!agents, agentState
<1>1. CASE Seed!Crash
  <2>1. place \notin {"idle", "failed", "done"}
    BY <1>1, SeedConstants DEF Seed!Crash, Seed!Steps, Seed!Gaps
  <2> QED
    BY <1>1, <2>1 DEF Seed!Crash, SeedSteps
<1>2. CASE Seed!createPlatformUser \/ Seed!createPlatformOrganization \/ Seed!OrganizationFails
           \/ Seed!createPlatformUserOrgRoles
  <2>1. Idles
    BY <1>2 DEF Seed!createPlatformUser, Seed!createPlatformOrganization, Seed!OrganizationFails,
      Seed!createPlatformUserOrgRoles
  <2> QED
    BY <2>1 DEF SeedSteps
<1>3. CASE Seed!MigrationFails \/ (\E s \in Schemas : Seed!TypeAdded(s)) \/ Seed!addSchemaType
           \/ \E step \in {"geo", "clients"} : Seed!RunScript(step)
  <2>1. Idles
    BY <1>3 DEF Seed!MigrationFails, Seed!TypeAdded, Seed!addSchemaType, Seed!RunScript
  <2> QED
    BY <2>1 DEF SeedSteps
<1> QED
  BY <1>1, <1>2, <1>3 DEF Seed!Next, Seed!Step, Seed!Platform, SeedSteps

LEMMA SeedTypes == SeedTyped /\ Seed!Next => SeedTyped'
<1> SUFFICES ASSUME SeedTyped, Seed!Next PROVE SeedTyped'
  OBVIOUS
<1> USE SeedConstants, SeedPcsAre, AfterEach DEF SeedTyped, Seed!tables, Seed!agents
<1>1. CASE Seed!main
  BY <1>1 DEF Seed!main
<1>2. CASE Seed!Crash
  BY <1>2 DEF Seed!Crash
<1>3. CASE Seed!Deploy
  BY <1>3 DEF Seed!Deploy
<1>4. ASSUME NEW t \in Seed!Tables, Seed!CreateMasterRows(t)
      PROVE  SeedTyped'
  <2>1. Seed!Data[t] \subseteq MasterRows
    BY DEF MasterRows, Seed!Data
  <2>2. rows' \in [Seed!Tables -> SUBSET MasterRows]
    BY <1>4, <2>1 DEF Seed!CreateMasterRows
  <2>3. place' \in SeedPcs /\ place' # "ledgersGone"
    BY <1>4 DEF Seed!CreateMasterRows, Seed!Tables
  <2> QED
    BY <1>4, <2>2, <2>3 DEF Seed!CreateMasterRows
<1>5. CASE Seed!createPlatformUser
  BY <1>5 DEF Seed!createPlatformUser
<1>6. CASE Seed!createPlatformOrganization \/ Seed!OrganizationFails
  BY <1>6 DEF Seed!createPlatformOrganization, Seed!OrganizationFails
<1>7. CASE Seed!createPlatformUserOrgRoles
  <2>1. platformAdmin' \in BOOLEAN
    BY <1>7 DEF Seed!createPlatformUserOrgRoles
  <2> QED
    BY <1>7, <2>1 DEF Seed!createPlatformUserOrgRoles
<1>8. CASE Seed!LedgersKept
  BY <1>8 DEF Seed!LedgersKept
<1>9. CASE Seed!LedgersDeleted
  BY <1>9 DEF Seed!LedgersDeleted
<1>10. CASE Seed!LedgersMade
  <2>1. ledgers = {} /\ \A a \in Agents : ledgerOf[a] = Seed!Null
    BY <1>10 DEF Seed!LedgersMade
  <2> QED
    BY <1>10, <2>1 DEF Seed!LedgersMade
<1>11. CASE Seed!ConfigDeleted \/ Seed!ConfigMade
  BY <1>11 DEF Seed!ConfigDeleted, Seed!ConfigMade
<1>12. CASE Seed!migrateOrgAgentDids
  <2>1. didRows' \in SUBSET (stored \X {"seed", "platform"})
    BY <1>12 DEF Seed!migrateOrgAgentDids, Seed!ToMigrate
  <2> QED
    BY <1>12, <2>1 DEF Seed!migrateOrgAgentDids
<1>13. CASE Seed!MigrationFails \/ Seed!addSchemaType
  BY <1>13 DEF Seed!MigrationFails, Seed!addSchemaType
<1>14. ASSUME NEW s \in Schemas, Seed!TypeAdded(s)
       PROVE  SeedTyped'
  BY <1>14 DEF Seed!TypeAdded
<1>15. ASSUME NEW step \in {"geo", "clients"}, Seed!RunScript(step)
       PROVE  SeedTyped'
  BY <1>15 DEF Seed!RunScript
<1>16. ASSUME NEW a \in Agents, Seed!AgentStored(a)
       PROVE  SeedTyped'
  <2>1. ledgerOf' \in [Agents -> {Seed!Null} \cup ledgers']
    BY <1>16 DEF Seed!AgentStored
  <2> QED
    BY <1>16, <2>1 DEF Seed!AgentStored
<1>17. ASSUME NEW a \in Agents, Seed!DidStored(a)
       PROVE  SeedTyped'
  BY <1>17 DEF Seed!DidStored
<1> QED
  BY <1>1, <1>2, <1>3, <1>4, <1>5, <1>6, <1>7, <1>8, <1>9, <1>10, <1>11, <1>12, <1>13, <1>14,
     <1>15, <1>16, <1>17 DEF Seed!Next, Seed!Step, Seed!Platform

-----------------------------------------------------------------------------
LEMMA LastingIsSame == version \in 1..Len(Master) => Seed!Lasting = Same
  BY SeedConstants DEF Seed!Lasting, Same, Seed!Data

LEMMA AllOrNothingStep == SeedTyped /\ AllOrNothing /\ SeedSteps => AllOrNothing'
<1> SUFFICES ASSUME SeedTyped, AllOrNothing, SeedSteps, NEW t \in Same
             PROVE  /\ rows'[t] = {} \/ Master[1][t] \subseteq rows'[t]
                    /\ place' \in Behind[t] => Master[1][t] \subseteq rows'[t]
  BY DEF AllOrNothing
<1>0. /\ t \in {"config", "roles", "agentTypes", "orgAgentTypes", "userRoles"}
      /\ rows[t] = {} \/ Master[1][t] \subseteq rows[t]
      /\ place \in Behind[t] => Master[1][t] \subseteq rows[t]
  BY DEF AllOrNothing, Same, Seed!Tables
<1>1. ASSUME rows' = rows, place' \in Behind[t] => place \in Behind[t]
      PROVE  /\ rows'[t] = {} \/ Master[1][t] \subseteq rows'[t]
             /\ place' \in Behind[t] => Master[1][t] \subseteq rows'[t]
  BY <1>0, <1>1
<1>2. CASE \E u \in Seed!Tables : Seed!CreateMasterRows(u)
  <2>1. PICK u \in Seed!Tables : Seed!CreateMasterRows(u)
    BY <1>2
  <2>2. place = u /\ place' = Seed!After(u)
    BY <2>1 DEF Seed!CreateMasterRows
  <2>3. CASE t # u
    <3>1. rows'[t] = rows[t]
      BY <1>0, <2>1, <2>3 DEF Seed!CreateMasterRows, SeedTyped, Seed!Tables
    <3>2. place' \in Behind[t] => place \in Behind[t]
      BY <1>0, <2>2, <2>3, AfterEach, SeedPcsAre DEF Seed!Tables, Behind, Late
    <3> QED
      BY <1>0, <3>1, <3>2
  <2>4. CASE t = u
    <3>1. Seed!Data[t] = Master[1][t] /\ Master[1][t] # {}
      <4>1. version \in 1..Len(Master) /\ 1 \in 1..Len(Master)
        BY SeedConstants DEF SeedTyped
      <4>2. t \in Seed!Tables /\ \A v \in 1..Len(Master) : Master[v][t] = Master[1][t]
        BY DEF Same
      <4> QED
        BY <4>1, <4>2, SeedConstants DEF Seed!Data
    <3>2. Seed!Existing(t) = {} => rows[t] = {}
      BY <1>0, <3>1 DEF Seed!Existing
    <3>3. rows'[t] = IF Seed!Existing(t) = {} THEN rows[t] \cup Seed!Data[t] ELSE rows[t]
      BY <2>1, <2>4 DEF Seed!CreateMasterRows, SeedTyped
    <3>4. Seed!Existing(t) # {} => rows[t] # {}
      BY DEF Seed!Existing
    <3> QED
      BY <1>0, <3>1, <3>2, <3>3, <3>4
  <2> QED
    BY <2>3, <2>4
<1>3. CASE ~\E u \in Seed!Tables : Seed!CreateMasterRows(u)
  <2>1. rows' = rows
    BY <1>3 DEF SeedSteps, Idles, Seed!main, Seed!Deploy, Seed!LedgersKept, Seed!LedgersDeleted,
      Seed!LedgersMade, Seed!ConfigDeleted, Seed!ConfigMade, Seed!migrateOrgAgentDids,
      Seed!AgentStored, Seed!DidStored, Seed!tables
  <2>2. place' \in Behind[t] => place \in Behind[t]
    <3>1. \/ place' = place \/ place' \in {"idle", "failed", "config"}
          \/ Ahead(place, place') /\ place \notin {"idle", "failed", "done"}
          \/ place = "ledgers" /\ place' \in {"ledgersGone", "ledgerConfig"}
          \/ place = "ledgersGone" /\ place' = "ledgerConfig"
          \/ place = "ledgerConfig" /\ place' \in {"ledgerConfigGone", "userRoles"}
          \/ place = "ledgerConfigGone" /\ place' = "userRoles"
          \/ place = "dids" /\ place' = "types"
      BY <1>3, AfterEach DEF SeedSteps, Idles, Seed!main, Seed!Deploy, Seed!LedgersKept,
        Seed!LedgersDeleted, Seed!LedgersMade, Seed!ConfigDeleted, Seed!ConfigMade,
        Seed!migrateOrgAgentDids, Seed!AgentStored, Seed!DidStored
    <3> QED
      BY <1>0, <3>1, SeedPcsAre DEF Behind, Late, Ahead
  <2> QED
    BY <1>1, <2>1, <2>2
<1> QED
  BY <1>2, <1>3

\* A run that made the ledgers has made as many as its version has names.
LEMMA AsManyAsNames ==
  ASSUME NEW v \in 1..Len(Master), NEW k
  PROVE  /\ Cardinality(LedgersOf(v, k)) = Cardinality(Master[v]["ledgers"])
         /\ {l[1] : l \in LedgersOf(v, k)} = Master[v]["ledgers"]
         /\ LedgersOf(v, k) # {}
<1>1. IsFiniteSet(Master[v]["ledgers"]) /\ Master[v]["ledgers"] # {}
  BY SeedConstants
<1> DEFINE f == [n \in Master[v]["ledgers"] |-> <<n, k>>]
<1>2. f \in Bijection(Master[v]["ledgers"], LedgersOf(v, k))
  BY DEF LedgersOf, Bijection, Injection, Surjection, IsInjective
<1>3. ExistsBijection(Master[v]["ledgers"], LedgersOf(v, k))
  BY <1>2 DEF ExistsBijection
<1>4. Cardinality(LedgersOf(v, k)) = Cardinality(Master[v]["ledgers"])
  BY <1>1, <1>3, FS_Bijection
<1>5. {l[1] : l \in LedgersOf(v, k)} = Master[v]["ledgers"]
  <2>1. \A n \in Master[v]["ledgers"] : <<n, k>> \in LedgersOf(v, k) /\ <<n, k>>[1] = n
    BY DEF LedgersOf
  <2>2. \A l \in LedgersOf(v, k) : l[1] \in Master[v]["ledgers"]
    BY DEF LedgersOf
  <2> QED
    BY <2>1, <2>2
<1>6. LedgersOf(v, k) # {}
  BY <1>1 DEF LedgersOf
<1> QED
  BY <1>4, <1>5, <1>6

LEMMA LedgersStep == SeedTyped /\ LedgersOfOneRun /\ SeedSteps => LedgersOfOneRun'
<1> SUFFICES ASSUME SeedTyped, LedgersOfOneRun, SeedSteps PROVE LedgersOfOneRun'
  OBVIOUS
<1> USE DEF LedgersOfOneRun
<1>1. CASE Seed!LedgersKept
  BY <1>1, CountsAreCounts DEF Seed!LedgersKept, Seed!LedgersDiffer, Seed!Data, Seed!tables
<1>2. CASE Seed!LedgersDeleted
  BY <1>2 DEF Seed!LedgersDeleted, Behind, Late
<1>3. CASE Seed!LedgersMade
  <2>1. ledgers' = LedgersOf(version, made + 1) /\ version' = version
    BY <1>3 DEF Seed!LedgersMade, LedgersOf, Seed!Data
  <2>2. version \in 1..Len(Master) /\ made + 1 \in Nat
    BY DEF SeedTyped
  <2>3. ledgers' # {} /\ Cardinality(ledgers') = Cardinality(Master[version]["ledgers"])
    BY <2>1, <2>2, AsManyAsNames
  <2> QED
    BY <2>1, <2>2, <2>3
<1>4. CASE ~(Seed!LedgersKept \/ Seed!LedgersDeleted \/ Seed!LedgersMade)
  <2>1. UNCHANGED <<ledgers>> /\ (UNCHANGED version \/ place' = "idle")
    BY <1>4 DEF SeedSteps, Idles, Seed!main, Seed!Deploy, Seed!CreateMasterRows,
      Seed!ConfigDeleted, Seed!ConfigMade, Seed!migrateOrgAgentDids,
      Seed!AgentStored, Seed!DidStored, Seed!tables
  <2>2. place' \in Behind["ledgers"] => place \in Behind["ledgers"]
    <3>1. \/ place' = place \/ place' \in {"idle", "failed", "config", "roles", "agentTypes", "user", "ledgers"}
          \/ Ahead(place, place') /\ place \notin {"idle", "failed", "done"}
          \/ place = "userRoles"
          \/ place = "ledgerConfig" /\ place' \in {"ledgerConfigGone", "userRoles"}
          \/ place = "ledgerConfigGone" /\ place' = "userRoles"
          \/ place = "dids" /\ place' = "types"
      BY <1>4, AfterEach DEF SeedSteps, Idles, Seed!main, Seed!Deploy, Seed!CreateMasterRows, Seed!Tables,
        Seed!ConfigDeleted, Seed!ConfigMade,
        Seed!migrateOrgAgentDids, Seed!AgentStored, Seed!DidStored
    <3> QED
      BY <3>1 DEF Behind, Late, Ahead
  <2> QED
    BY <2>1, <2>2 DEF Behind, Late
<1> QED
  BY <1>1, <1>2, <1>3, <1>4

LEMMA ConfigStep == SeedTyped /\ ConfigOfVersion /\ SeedSteps => ConfigOfVersion'
<1> SUFFICES ASSUME SeedTyped, ConfigOfVersion, SeedSteps PROVE ConfigOfVersion'
  OBVIOUS
<1> USE DEF ConfigOfVersion
<1>1. CASE Seed!ConfigDeleted
  BY <1>1 DEF Seed!ConfigDeleted, Behind, Late
<1>2. CASE Seed!ConfigMade
  BY <1>2 DEF Seed!ConfigMade, Seed!Data
<1>3. CASE ~(Seed!ConfigDeleted \/ Seed!ConfigMade)
  <2>1. UNCHANGED <<ledgerConfig>> /\ (UNCHANGED version \/ place' = "idle")
    BY <1>3 DEF SeedSteps, Idles, Seed!main, Seed!Deploy, Seed!CreateMasterRows,
      Seed!LedgersKept, Seed!LedgersDeleted, Seed!LedgersMade, Seed!migrateOrgAgentDids,
      Seed!AgentStored, Seed!DidStored, Seed!tables
  <2>2. place' \in Behind["ledgerConfig"] => place \in Behind["ledgerConfig"]
    <3>1. \/ place' = place
          \/ place' \in {"idle", "failed", "config", "roles", "agentTypes", "user", "ledgers", "ledgersGone", "ledgerConfig"}
          \/ Ahead(place, place') /\ place \notin {"idle", "failed", "done"}
          \/ place = "userRoles"
          \/ place = "dids" /\ place' = "types"
      BY <1>3, AfterEach DEF SeedSteps, Idles, Seed!main, Seed!Deploy, Seed!CreateMasterRows, Seed!Tables,
        Seed!LedgersKept, Seed!LedgersDeleted, Seed!LedgersMade,
        Seed!migrateOrgAgentDids, Seed!AgentStored, Seed!DidStored
    <3> QED
      BY <3>1 DEF Behind, Late, Ahead
  <2> QED
    BY <2>1, <2>2 DEF Behind, Late
<1> QED
  BY <1>1, <1>2, <1>3

LEMMA LedgersOfStoredStep == SeedTyped /\ LedgersOfStored /\ SeedSteps => LedgersOfStored'
<1> SUFFICES ASSUME SeedTyped, LedgersOfStored, SeedSteps PROVE LedgersOfStored'
  OBVIOUS
<1> USE DEF LedgersOfStored
<1>1. CASE Seed!LedgersDeleted
  BY <1>1 DEF Seed!LedgersDeleted
<1>2. ASSUME NEW a \in Agents, Seed!AgentStored(a)
      PROVE  LedgersOfStored'
  BY <1>2 DEF Seed!AgentStored, SeedTyped
<1>3. CASE ~Seed!LedgersDeleted /\ ~\E a \in Agents : Seed!AgentStored(a)
  <2>1. UNCHANGED <<stored, ledgerOf>>
    BY <1>3 DEF SeedSteps, Idles, agentState, Seed!main, Seed!Deploy, Seed!CreateMasterRows,
      Seed!LedgersKept, Seed!LedgersMade, Seed!ConfigDeleted, Seed!ConfigMade,
      Seed!migrateOrgAgentDids, Seed!DidStored, Seed!agents
  <2> QED
    BY <2>1
<1> QED
  BY <1>1, <1>2, <1>3

\* As many rows as agents, none of them with two, leave no agent without.
LEMMA CountTellsWho ==
  ASSUME SeedTyped, quiet, Seed!OneDidRow, ~Seed!DidsDiffer
  PROVE  \A a \in stored : Seed!HasRow(a)
<1>1. IsFiniteSet(stored)
  BY SeedConstants, FS_Subset DEF SeedTyped
<1>2. didRows = {row \in didRows : row[1] \in stored}
  BY DEF SeedTyped
<1>3. Cardinality(didRows) = Cardinality(stored)
  BY <1>2, CountsAreCounts DEF Seed!DidsDiffer
<1> DEFINE f == [row \in didRows |-> row[1]]
<1>4. f \in Injection(didRows, stored)
  <2>1. f \in [didRows -> stored]
    BY DEF SeedTyped
  <2>2. \A row, other \in didRows : f[row] = f[other] => row = other
    BY DEF Seed!OneDidRow
  <2> QED
    BY <2>1, <2>2 DEF Injection, IsInjective
<1>5. f \in Surjection(didRows, stored)
  BY <1>1, <1>3, <1>4, FS_Injection
<1> QED
  BY <1>5 DEF Surjection, Seed!HasRow

\* Steps that leave rows of DIDs and agents alone, but for ledgers.
Besides ==
  \/ Seed!main \/ Seed!Deploy \/ Idles \/ (\E t \in Seed!Tables : Seed!CreateMasterRows(t))
  \/ Seed!LedgersKept \/ Seed!LedgersDeleted \/ Seed!LedgersMade
  \/ Seed!ConfigDeleted \/ Seed!ConfigMade

LEMMA BesidesLeave ==
  ASSUME Besides
  PROVE  /\ UNCHANGED <<quiet, stored, pending, didRows>>
         /\ quiet /\ Seed!Running' => Seed!Running \/ pending = {}
         /\ place' \in {"types", "geo", "clients", "done"} =>
              place \in {"types", "geo", "clients", "done"}
<1>1. UNCHANGED <<quiet, stored, pending, didRows>>
  BY DEF Besides, Seed!main, Seed!Deploy, Idles, Seed!CreateMasterRows, Seed!LedgersKept,
    Seed!LedgersDeleted, Seed!LedgersMade, Seed!ConfigDeleted, Seed!ConfigMade, Seed!tables,
    Seed!agents, agentState
<1>2. quiet /\ Seed!Running' => Seed!Running \/ pending = {}
  BY DEF Besides, Seed!Running, Seed!main, Seed!Deploy, Idles, Seed!CreateMasterRows, Seed!Tables,
    Seed!LedgersKept, Seed!LedgersDeleted, Seed!LedgersMade, Seed!ConfigDeleted, Seed!ConfigMade
<1>3. place' \in {"types", "geo", "clients", "done"} =>
        place \in {"types", "geo", "clients", "done"}
  BY AfterEach DEF Besides, Seed!main, Seed!Deploy, Idles, Ahead, Seed!CreateMasterRows, Seed!Tables,
    Seed!LedgersKept, Seed!LedgersDeleted, Seed!LedgersMade, Seed!ConfigDeleted, Seed!ConfigMade
<1> QED
  BY <1>1, <1>2, <1>3

LEMMA SeedStepsSplit ==
  SeedSteps => Besides \/ Seed!migrateOrgAgentDids
               \/ \E a \in Agents : Seed!AgentStored(a) \/ Seed!DidStored(a)
  BY DEF SeedSteps, Besides

LEMMA DidsStep ==
  ASSUME SeedTyped, QuietRuns, Seed!OneDidRow, SeedSteps
  PROVE  QuietRuns' /\ Seed!OneDidRow'
<1>1. CASE Besides
  <2>1. QuietRuns'
    BY <1>1, BesidesLeave DEF QuietRuns, Seed!HasRow
  <2>2. Seed!OneDidRow'
    BY <1>1, BesidesLeave DEF Seed!OneDidRow
  <2> QED
    BY <2>1, <2>2
<1>2. CASE Seed!migrateOrgAgentDids
  <2>0. /\ place = "dids" /\ place' = "types" /\ UNCHANGED <<quiet, stored, pending>>
        /\ didRows' = IF Seed!DidsDiffer THEN didRows \cup (Seed!ToMigrate \X {"seed"}) ELSE didRows
    BY <1>2, AfterEach DEF Seed!migrateOrgAgentDids
  <2>1. quiet => pending = {}
    BY <2>0 DEF QuietRuns, Seed!Running
  <2>2. quiet => \A a \in stored : Seed!HasRow(a)'
    <3>1. CASE Seed!DidsDiffer
      <4>1. ASSUME NEW a \in stored, a \notin Seed!ToMigrate
            PROVE  \E row \in didRows' : row[1] = a
        BY <2>0, <4>1 DEF Seed!ToMigrate, Seed!HasRow
      <4>2. ASSUME NEW a \in Seed!ToMigrate
            PROVE  \E row \in didRows' : row[1] = a
        <5>1. <<a, "seed">> \in didRows'
          BY <2>0, <3>1
        <5> QED
          BY <5>1
      <4> QED
        BY <4>1, <4>2 DEF Seed!HasRow
    <3>2. CASE ~Seed!DidsDiffer
      BY <2>0, <3>2, CountTellsWho DEF Seed!HasRow
    <3> QED
      BY <3>1, <3>2
  <2>3. QuietRuns'
    BY <2>0, <2>1, <2>2 DEF QuietRuns
  <2>4. Seed!OneDidRow'
    BY <2>0 DEF Seed!OneDidRow, Seed!ToMigrate, Seed!HasRow
  <2> QED
    BY <2>3, <2>4
<1>3. ASSUME NEW a \in Agents, Seed!AgentStored(a)
      PROVE  QuietRuns' /\ Seed!OneDidRow'
  <2>0. /\ quiet => ~Seed!Running
        /\ a \notin stored /\ stored' = stored \cup {a}
        /\ pending' = pending \cup ({a} \ Configured)
        /\ UNCHANGED <<quiet, place, didRows>>
    BY <1>3 DEF Seed!AgentStored, Seed!InUse
  <2>1. ~Seed!HasRow(a)
    BY <2>0 DEF Seed!HasRow, SeedTyped
  <2> QED
    BY <2>0, <2>1 DEF QuietRuns, Seed!OneDidRow, Seed!HasRow, Seed!Running
<1>4. ASSUME NEW a \in Agents, Seed!DidStored(a)
      PROVE  QuietRuns' /\ Seed!OneDidRow'
  <2>0. /\ quiet => ~Seed!Running
        /\ a \in pending /\ pending' = pending \ {a}
        /\ didRows' = didRows \cup {<<a, "platform">>}
        /\ UNCHANGED <<quiet, place, stored>>
    BY <1>4 DEF Seed!DidStored, Seed!InUse
  <2>1. quiet => ~Seed!HasRow(a)
    BY <2>0 DEF QuietRuns
  <2>2. Seed!OneDidRow'
    BY <2>0, <2>1 DEF Seed!OneDidRow, Seed!HasRow
  <2>3. \A b \in Agents : Seed!HasRow(b)' <=> Seed!HasRow(b) \/ b = a
    <3>1. <<a, "platform">> \in didRows' /\ <<a, "platform">>[1] = a
      BY <2>0
    <3>2. Seed!HasRow(a)'
      BY <3>1 DEF Seed!HasRow
    <3>3. ASSUME NEW b \in Agents, b # a
          PROVE  Seed!HasRow(b)' <=> Seed!HasRow(b)
      BY <2>0, <3>3 DEF Seed!HasRow
    <3> QED
      BY <3>2, <3>3
  <2>4. QuietRuns'
    BY <2>0, <2>3 DEF QuietRuns, Seed!Running, SeedTyped
  <2> QED
    BY <2>2, <2>4
<1> QED
  BY <1>1, <1>2, <1>3, <1>4, SeedStepsSplit

LEMMA SeedInductive == SeedInv /\ Seed!Next => SeedInv'
  BY SeedNextIs, SeedTypes, AllOrNothingStep, LedgersStep, ConfigStep, LedgersOfStoredStep, DidsStep
  DEF SeedInv

\* What a seed leaves follows from what its last step found.
LEMMA SeedLeaves ==
  ASSUME SeedInv
  PROVE  /\ Seed!TypeOK /\ Seed!MasterComplete /\ Seed!LedgersAreMaster
         /\ Seed!OneDidRow /\ Seed!DidsMigrated
<1> USE DEF SeedInv
<1>1. Seed!TypeOK
  <2>1. \A a \in Agents : ledgerOf[a] \in {Seed!Null} \cup ledgers
    BY DEF SeedTyped
  <2>2. {quiet, platformUser, platformOrg, platformAdmin, platformUserId} \subseteq BOOLEAN
    BY DEF SeedTyped
  <2> QED
    BY <2>1, <2>2 DEF SeedTyped, Seed!TypeOK
<1>2. Seed!MasterComplete
  <2>1. \A t \in Same : place = "done" => Master[1][t] \subseteq rows[t]
    BY SeedPcsAre DEF AllOrNothing, Same, Seed!Tables, Behind, Late
  <2>2. \A t \in Same : Seed!Data[t] = Master[1][t]
    BY DEF Same, Seed!Data, SeedTyped
  <2> QED
    BY <2>1, <2>2, LastingIsSame DEF Seed!MasterComplete, SeedTyped
<1>3. Seed!LedgersAreMaster
  <2>1. place = "done" => ledgerConfig = Seed!Data["ledgerConfig"]
    BY DEF ConfigOfVersion, Behind, Late, Seed!Data
  <2>2. ASSUME place = "done", Seed!CountTells
        PROVE  {l[1] : l \in ledgers} = Seed!Data["ledgers"]
    <3>1. ledgers # {} /\ Cardinality(ledgers) = Cardinality(Seed!Data["ledgers"])
      BY <2>2 DEF LedgersOfOneRun, Behind, Late, Seed!Data
    <3>2. PICK v \in 1..Len(Master), k \in Nat : ledgers = LedgersOf(v, k)
      BY <3>1 DEF LedgersOfOneRun
    <3>3. Master[v]["ledgers"] = Seed!Data["ledgers"]
      BY <2>2, <3>1, <3>2, AsManyAsNames, CountsAreCounts DEF Seed!CountTells
    <3> QED
      BY <3>2, <3>3, AsManyAsNames
  <2> QED
    BY <2>1, <2>2 DEF Seed!LedgersAreMaster
<1>4. Seed!DidsMigrated
  BY DEF QuietRuns, Seed!DidsMigrated
<1> QED
  BY <1>1, <1>2, <1>3, <1>4

\* Ledgers are made anew when their number differs, which it does not when their
\* names are those of the version.
LEMMA LedgersStayStep ==
  ASSUME SeedInv, Seed!Next
  PROVE  Seed!LedgerRefStays
<1> SUFFICES ASSUME {l[1] : l \in ledgers} = Seed!Data["ledgers"],
                    NEW a \in Agents, ledgerOf[a] # Seed!Null
             PROVE  ledgerOf'[a] = ledgerOf[a]
  BY DEF Seed!LedgerRefStays
<1>1. SeedTyped /\ LedgersOfOneRun /\ LedgersOfStored /\ SeedSteps
  BY SeedNextIs DEF SeedInv
<1>2. ~Seed!LedgersDeleted
  <2>1. SUFFICES ASSUME ledgers # {} PROVE ~Seed!LedgersDiffer
    BY DEF Seed!LedgersDeleted
  <2>2. PICK v \in 1..Len(Master), k \in Nat : ledgers = LedgersOf(v, k)
    BY <1>1, <2>1 DEF LedgersOfOneRun
  <2>3. Master[v]["ledgers"] = Seed!Data["ledgers"]
    BY <2>2, AsManyAsNames
  <2> QED
    BY <2>2, <2>3, AsManyAsNames, CountsAreCounts DEF Seed!LedgersDiffer
<1>3. ASSUME NEW b \in Agents, Seed!AgentStored(b)
      PROVE  ledgerOf'[a] = ledgerOf[a]
  <2>1. a # b
    BY <1>1, <1>3 DEF LedgersOfStored, Seed!AgentStored
  <2> QED
    BY <1>3, <2>1 DEF Seed!AgentStored
<1>4. CASE ~\E b \in Agents : Seed!AgentStored(b)
  BY <1>1, <1>2, <1>4 DEF SeedSteps, Idles, agentState, Seed!main, Seed!Deploy, Seed!CreateMasterRows,
    Seed!LedgersKept, Seed!LedgersMade, Seed!ConfigDeleted, Seed!ConfigMade,
    Seed!migrateOrgAgentDids, Seed!DidStored, Seed!agents
<1> QED
  BY <1>3, <1>4

-----------------------------------------------------------------------------
\* The suite.

SuiteInv ==
  /\ part = "batches" => BatchesInv
  /\ part = "posts" => PostsInv
  /\ part = "seed" => SeedInv

LEMMA SuiteInit == PlatformInit => SuiteInv
<1> SUFFICES ASSUME PlatformInit PROVE SuiteInv
  OBVIOUS
<1>1. /\ part = "batches" => Batches!Init
      /\ part = "posts" => Posts!Init
      /\ part = "seed" => Seed!Init
  BY DEF PlatformInit
<1> QED
  BY <1>1, BatchesInit, PostsInit, SeedInit DEF SuiteInv

LEMMA SuiteUnchanged ==
  ASSUME SuiteInv, UNCHANGED <<others, part>>
  PROVE  SuiteInv'
<1>1. ASSUME BatchesInv PROVE BatchesInv'
  <2>1. UNCHANGED <<rows, rejected, mailed, place, list, at, crossed, failures>>
    BY DEF others
  <2>2. BatchesTyped' /\ AtFits' /\ AloneUnlessCrossed'
    BY <1>1, <2>1 DEF BatchesInv, BatchesTyped, Batches!TypeOK, AtFits, AloneUnlessCrossed,
      Batches!UnderWay
  <2>3. StillUninvited' /\ Batches!OneOpen' /\ RolesChecked' /\ Batches!RolesThere'
    BY <1>1, <2>1 DEF BatchesInv, StillUninvited, SameAddress, Batches!OneOpen, RolesChecked,
      Batches!RolesThere, Batches!Open, Batches!EmailOf, Batches!RolesOf, Batches!InHand
  <2>4. \A r \in Requests : Through(r)' = Through(r)
    BY <2>1 DEF Through
  <2>5. ThroughInvited' /\ MailsFollow' /\ ThroughMailed'
    BY <1>1, <2>1, <2>4 DEF BatchesInv, ThroughInvited, MailsFollow, ThroughMailed,
      Batches!Answering, Batches!EmailOf, Batches!InHand
  <2> QED
    BY <2>2, <2>3, <2>5 DEF BatchesInv
<1>2. ASSUME PostsInv PROVE PostsInv'
  <2>1. UNCHANGED <<notification, rpc, entry, mpc, clientCode, webhook, got, failures>>
    BY DEF others
  <2> QED
    BY <1>2, <2>1 DEF PostsInv, Posts!TypeOK, ReadStays, Posts!RegisteredInForce,
      Posts!StoredFor, Posts!ArrivesAtItsOwn
<1>3. ASSUME SeedInv PROVE SeedInv'
  <2>1. UNCHANGED <<quiet, version, rows, ledgers, ledgerConfig, platformUser, platformOrg,
                    platformAdmin, stored, pending, ledgerOf, didRows, typed, place,
                    platformUserId, made, crashes>>
    BY DEF others
  <2>2. SeedTyped'
    BY <1>3, <2>1 DEF SeedInv, SeedTyped
  <2>3. AllOrNothing' /\ LedgersOfOneRun' /\ ConfigOfVersion' /\ LedgersOfStored'
    BY <1>3, <2>1 DEF SeedInv, AllOrNothing, LedgersOfOneRun, ConfigOfVersion, LedgersOfStored
  <2>4. QuietRuns' /\ Seed!OneDidRow'
    BY <1>3, <2>1 DEF SeedInv, QuietRuns, Seed!OneDidRow, Seed!Running, Seed!HasRow
  <2> QED
    BY <2>2, <2>3, <2>4 DEF SeedInv
<1> QED
  BY <1>1, <1>2, <1>3 DEF SuiteInv, others

LEMMA SuiteStep ==
  ASSUME SuiteInv, [PlatformNext]_<<vars, others, part>>
  PROVE  SuiteInv'
<1>1. CASE UNCHANGED <<others, part>>
  BY <1>1, SuiteUnchanged
<1>2. CASE OthersNext /\ UNCHANGED part
  <2>1. CASE part = "batches" /\ Batches!Next
    BY <1>2, <2>1, BatchesInductive DEF SuiteInv
  <2>2. CASE part = "posts" /\ Posts!Next
    BY <1>2, <2>2, PostsInductive DEF SuiteInv
  <2>3. CASE part = "seed" /\ Seed!Next
    BY <1>2, <2>3, SeedInductive DEF SuiteInv
  <2>4. CASE part \in {"exact", "rough", "errors"}
    BY <1>2, <2>4 DEF SuiteInv
  <2> QED
    BY <1>2, <2>1, <2>2, <2>3, <2>4 DEF OthersNext
<1> QED
  BY <1>1, <1>2 DEF PlatformNext

LEMMA AlwaysSuiteInv == PlatformSpec => []SuiteInv
  BY SuiteInit, SuiteStep, PTL DEF PlatformSpec

\* DeliveriesKept: whoever is on a list of invitations that went through is invited
\* once and gets the mail, unless lists were worked through at a time or something
\* failed; a webhook registered with success stays in force and is the only place
\* where notifications of its organisation arrive.
THEOREM DeliveriesAreKept == PlatformSpec => []DeliveriesKept
<1>1. SuiteInv => DeliveriesKept
  BY BatchesKept, PostsKept DEF SuiteInv, DeliveriesKept, PostsInv
<1> QED
  BY <1>1, AlwaysSuiteInv, PTL

\* SeedKept: a seed that ends well leaves the tables, the ledgers and their
\* configuration as its version has them, and one row for the DID of each agent,
\* however many runs before it ended half way and whatever version they were of.
THEOREM SeedIsKept == PlatformSpec => []SeedKept
<1>1. SuiteInv => SeedKept
  BY SeedLeaves DEF SuiteInv, SeedKept
<1> QED
  BY <1>1, AlwaysSuiteInv, PTL

\* LedgersStay: a step that finds the ledgers of its version takes no agent's
\* ledger away.
THEOREM LedgersAreLeft == PlatformSpec => LedgersStay
<1>1. ASSUME SuiteInv, [PlatformNext]_<<vars, others, part>>
      PROVE  [part = "seed" => Seed!LedgerRefStays]_<<vars, others, part>>
  <2>1. SUFFICES ASSUME part = "seed", PlatformNext PROVE Seed!LedgerRefStays
    BY <1>1
  <2>2. Seed!Next
    BY <2>1 DEF PlatformNext, OthersNext
  <2> QED
    BY <1>1, <2>1, <2>2, LedgersStayStep DEF SuiteInv
<1> QED
  BY <1>1, AlwaysSuiteInv, PTL DEF PlatformSpec, LedgersStay

\* What is proved of OrgCreation holds of it as the suite runs it.
THEOREM SuiteCreates == PlatformSpec => Spec
<1>1. PlatformInit => Init
  BY DEF PlatformInit
<1>2. [PlatformNext]_<<vars, others, part>> => [Next]_vars
  BY DEF PlatformNext
<1> QED
  BY <1>1, <1>2, PTL DEF PlatformSpec, Spec
=============================================================================
