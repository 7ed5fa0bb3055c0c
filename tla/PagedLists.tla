----------------------------- MODULE PagedLists -----------------------------
(***************************************************************************)
(* The lists the platform gives out page by page. Each page is one query   *)
(* with an offset and one that counts; neither remembers the last page,    *)
(* and between the queries rows come, go, are hidden (a schema archived, a *)
(* profile made private) and are written again by webhooks. The client     *)
(* picks the field the rows are sorted by, and rows that are alike in it   *)
(* come in any order, another one with every query. A client asks for page *)
(* after page until the answer says that there is no next one.             *)
(***************************************************************************)
EXTENDS Integers, Sequences, FiniteSets, SequencesExt, TLC

CONSTANTS
  Lists,       \* the lists a client may walk through
  MaxRow,      \* bound: rows are numbered in the order of their creation
  Start,       \* the rows there are at first
  Foreign,     \* rows of another organisation
  Private,     \* rows hidden at first
  Found,       \* rows that match what is searched for by a field that stays
  Value,       \* of each field that stays, the rank of what a row has in it
  States,      \* what webhooks write: a state, or the ids of a connection or schema
  Sought,      \* those of them that match what is searched for
  Written,     \* what they have written to a row at first
  Sizes,
  MaxChanges   \* bound: rows added, removed, hidden and written again

Rows == 1..MaxRow

\* The time of creation, which rows made at the same moment share, a field the
\* database keeps unique, and any other one (a name, version, tag, label or DID).
Fixed == {"created", "id", "name"}

(* What the constants have to be; the suites assume it of their instances. *)
ConstantsAssumption ==
  /\ MaxRow \in Nat /\ MaxChanges \in Nat
  /\ Start \subseteq Rows /\ Private \subseteq Start /\ Foreign \subseteq Rows /\ Found \subseteq Rows
  /\ Value \in [Fixed -> [Rows -> Nat]] /\ IsInjective(Value["id"])
  /\ States \subseteq Nat /\ Sought \subseteq States /\ Written \in [Rows -> States]
  /\ Sizes \subseteq Nat \ {0}

VARIABLES
  there, hidden,
  state,       \* what the last webhook has written to a row
  walk,        \* what a client walks through: query and answer, order, page size, search
  page, pc,
  got,         \* rows of the page just listed
  seen,        \* how often each row has been shown
  total,       \* the last total announced
  stayed,      \* rows that were in the list, at their place, throughout the walk
  tied,        \* rows that were alike with another one during it
  removed, added, changes

client  == <<walk, page, pc, got, seen, total>>
history == <<stayed, tied, removed, added>>
vars    == <<there, hidden, state, client, history, changes>>

-----------------------------------------------------------------------------
(* What the queries of a list ask for: its own rows, those not hidden,     *)
(* those found, also by what webhooks write; on which of these the count   *)
(* rests; whether the offset is used while searching.                      *)
Query(where, count) == [where |-> where, count |-> count, stuck |-> FALSE]

OrgSchemasQuery      == Query({"own", "live", "found"}, {"own"})
AllSchemasQuery      == [Query({"own", "live", "found"}, {"own"}) EXCEPT !.stuck = TRUE]
SchemaCredDefsQuery  == Query({"own", "found"}, {"own"})
AllCredDefsQuery     == Query({"own", "found"}, {"own"})
OrgCredDefsQuery     == Query({"own", "found"}, {"own", "found"})
CredentialsQuery     == Query({"own", "said"}, {"own", "said"})
FilesQuery           == Query({"own", "found"}, {"own"})
FileDataQuery        == Query({"own", "found"}, {"own"})
ConnectionsQuery     == Query({"own", "found"}, {"own", "found"})
ProofsQuery          == Query({"own", "said"}, {"own", "said"})
InvitationsQuery     == Query({"own", "found"}, {"own", "found"})
MyInvitationsQuery   == Query({"own"}, {"own"})
OrganizationsQuery   == Query({"own", "found"}, {"own", "found"})
PublicOrgsQuery      == Query({"live", "found"}, {"live", "found"})
OrgUsersQuery        == Query({"own", "found"}, {"own", "found"})
UsersQuery           == Query({"live", "found"}, {"found"})
EcosystemQuery       == Query({"own", "found"}, {"own", "found"})

(* What the service makes of the answers: the total is the count or, in    *)
(* one list, the length of the page; nothing there may be an error; one    *)
(* list drops rows from the page afterwards.                               *)
Answer(sum, error) == [total |-> sum, error |-> error, drops |-> FALSE]

OrgSchemasAnswer     == Answer("count", "none counted")
AllSchemasAnswer     == Answer("count", "none counted")
SchemaCredDefsAnswer == Answer("count", "none counted")
AllCredDefsAnswer    == Answer("count", "none counted")
OrgCredDefsAnswer    == [Answer("page", "none listed") EXCEPT !.drops = TRUE]
CredentialsAnswer    == Answer("count", "none counted")
FilesAnswer          == Answer("count", "none counted")
FileDataAnswer       == Answer("count", "none counted")
ConnectionsAnswer    == Answer("count", "none counted")
ProofsAnswer         == Answer("count", "none counted")
InvitationsAnswer    == Answer("count", "no error")
OrganizationsAnswer  == Answer("count", "none listed")
PublicOrgsAnswer     == Answer("count", "no error")
OrgUsersAnswer       == Answer("count", "no error")
UsersAnswer          == Answer("count", "no error")
EcosystemAnswer      == Answer("count", "no error")

(* The fields the gateway lets a client sort by, and the direction.        *)
Sorted(fields) == fields \X {"asc", "desc"}
Latest         == {<<"created", "desc">>}

OrgSchemasOrders     == Sorted({"created", "id", "name"})
AllSchemasOrders     == Sorted({"created", "id", "name"})
SchemaCredDefsOrders == Sorted({"created", "name"})
AllCredDefsOrders    == Sorted({"created", "name"})
OrgCredDefsOrders    == Sorted({"created", "id", "name"})
CredentialsOrders    == Sorted({"created", "state"})
FilesOrders          == Sorted({"created"})
FileDataOrders       == Sorted({"created"})
ConnectionsOrders    == Sorted({"created", "id", "name"})
ProofsOrders         == Sorted({"created", "name", "state"})
InvitationsOrders    == Latest
MyInvitationsOrders  == Latest
OrganizationsOrders  == Latest
PublicOrgsOrders     == Latest
OrgUsersOrders       == Latest
UsersOrders          == Latest

List(q, a, orders) == [query |-> q, answer |-> a, orders |-> orders]

About(l) ==
  CASE l = "orgSchemas"     -> List(OrgSchemasQuery, OrgSchemasAnswer, OrgSchemasOrders)
    [] l = "allSchemas"     -> List(AllSchemasQuery, AllSchemasAnswer, AllSchemasOrders)
    [] l = "schemaCredDefs" -> List(SchemaCredDefsQuery, SchemaCredDefsAnswer, SchemaCredDefsOrders)
    [] l = "allCredDefs"    -> List(AllCredDefsQuery, AllCredDefsAnswer, AllCredDefsOrders)
    [] l = "orgCredDefs"    -> List(OrgCredDefsQuery, OrgCredDefsAnswer, OrgCredDefsOrders)
    [] l = "credentials"    -> List(CredentialsQuery, CredentialsAnswer, CredentialsOrders)
    [] l = "files"          -> List(FilesQuery, FilesAnswer, FilesOrders)
    [] l = "fileData"       -> List(FileDataQuery, FileDataAnswer, FileDataOrders)
    [] l = "connections"    -> List(ConnectionsQuery, ConnectionsAnswer, ConnectionsOrders)
    [] l = "proofs"         -> List(ProofsQuery, ProofsAnswer, ProofsOrders)
    [] l = "invitations"    -> List(InvitationsQuery, InvitationsAnswer, InvitationsOrders)
    [] l = "myInvitations"  -> List(MyInvitationsQuery, InvitationsAnswer, MyInvitationsOrders)
    [] l = "organizations"  -> List(OrganizationsQuery, OrganizationsAnswer, OrganizationsOrders)
    [] l = "publicOrgs"     -> List(PublicOrgsQuery, PublicOrgsAnswer, PublicOrgsOrders)
    [] l = "orgUsers"       -> List(OrgUsersQuery, OrgUsersAnswer, OrgUsersOrders)
    [] l = "users"          -> List(UsersQuery, UsersAnswer, UsersOrders)
    [] l = "ecosystem"      -> List(EcosystemQuery, EcosystemAnswer, Latest)

NoWalk == [query |-> Query({}, {}), answer |-> Answer("none", "no error"),
           order |-> <<"none", "none">>, size |-> 0, search |-> FALSE]
query  == walk.query
answer == walk.answer

-----------------------------------------------------------------------------
Init ==
  /\ there = Start /\ hidden = Private /\ state = Written
  /\ walk = NoWalk /\ page = 1 /\ pc = "idle"
  /\ got = {} /\ seen = [r \in Rows |-> 0] /\ total = 0
  /\ stayed = {} /\ tied = {} /\ removed = 0 /\ added = 0 /\ changes = 0

Meets(r, condition, search) ==
  CASE condition = "own"   -> r \notin Foreign
    [] condition = "live"  -> r \notin hidden
    [] condition = "found" -> search => r \in Found
    [] condition = "said"  -> search => r \in Found \/ state[r] \in Sought

Matching(conditions, search) == {r \in there : \A c \in conditions : Meets(r, c, search)}

\* What a row has in the field the walk is sorted by.
Key(r) == IF walk.order[1] = "state" THEN state[r] ELSE Value[walk.order[1]][r]

Before(r, s) == IF walk.order[2] = "asc" THEN Key(r) < Key(s) ELSE Key(r) > Key(s)

\* The rows a query may find to be the first n of S: no other one comes before any of them.
First(S, n) ==
  LET size == IF n < Cardinality(S) THEN n ELSE Cardinality(S)
  IN {F \in kSubset(size, S) : \A r \in F, s \in S \ F : ~Before(s, r)}

\* Wrong on purpose: the page counts from nought.
SkippingOne == walk.size * page

Offset == IF query.stuck /\ walk.search THEN 0 ELSE walk.size * (page - 1)

\* The rows behind the offset, as many as the page has room for.
Take(S) == UNION {First(S \ F, walk.size) : F \in First(S, Offset)}

\* What a client that walks through the list is after.
Listed == Matching(query.where \union (IF answer.drops THEN {"live"} ELSE {}), walk.search)

\* Rows that are alike with another one in the field the walk is sorted by.
Alike(S, r) == {s \in S : Key(s) = Key(r)}
Sharing(S)  == {r \in S : \E s \in S \ {r} : Key(s) = Key(r)}

StartWalk(l) ==
  /\ pc = "idle"
  /\ UNCHANGED <<there, hidden, state, got, seen, total, changes>>
  /\ \E order \in About(l).orders, size \in Sizes, search \in BOOLEAN :
       walk' = [query |-> About(l).query, answer |-> About(l).answer,
                order |-> order, size |-> size, search |-> search]
  /\ pc' = "list" /\ page' = 1
  /\ stayed' = Listed' /\ tied' = Sharing(stayed)'
  /\ removed' = 0 /\ added' = 0

ListRows ==
  /\ pc = "list"
  /\ pc' = "count"
  /\ got' \in Take(Matching(query.where, walk.search))
  /\ UNCHANGED <<there, hidden, state, walk, page, seen, total, history, changes>>

Counted == Cardinality(Matching(query.count, walk.search))
Shown   == IF answer.drops THEN got \ hidden ELSE got

HasNext(n) == walk.size * page < n

NextPage(n) == page + 1

GivePage ==
  LET n == IF answer.total = "count" THEN Counted ELSE Cardinality(got)
      missing == \/ answer.error = "none counted" /\ n = 0
                 \/ answer.error = "none listed" /\ Shown = {}
  IN /\ pc = "count"
     /\ IF missing
        THEN pc' = "over" /\ UNCHANGED <<page, seen, total>>
        ELSE /\ seen' = [r \in Rows |-> seen[r] + (IF r \in Shown THEN 1 ELSE 0)]
             /\ total' = IF answer.total = "count" THEN n ELSE Cardinality(Shown)
             /\ page' = NextPage(n)
             /\ pc' = IF HasNext(n) THEN "list" ELSE "over"
     /\ UNCHANGED <<there, hidden, state, walk, got, history, changes>>

-----------------------------------------------------------------------------
\* Changes before the walk are another start of it, and those after it no concern.
Change ==
  /\ pc \in {"list", "count"} /\ changes < MaxChanges
  /\ changes' = changes + 1
  /\ UNCHANGED client

\* What a change is to the list that is walked through: a row that gets another
\* place has left one and come to one.
Noted ==
  \E were \in {Listed}, are \in {Listed'} :
    LET moved == {r \in were \intersect are : Key(r)' # Key(r)}
    IN /\ removed' = removed + Cardinality((were \ are) \union moved)
       /\ added' = added + Cardinality((are \ were) \union moved)
       /\ stayed' = (stayed \intersect are) \ moved
       /\ tied' = tied \union Sharing(are)'

\* Rows are numbered in the order in which they are made, and never made again.
AddRow(r) ==
  /\ Change
  /\ r \notin there /\ \A s \in Start \union there : s < r
  /\ there' = there \union {r}
  /\ UNCHANGED <<hidden, state>>
  /\ Noted

RemoveRow(r) ==
  /\ Change
  /\ r \in there
  /\ there' = there \ {r}
  /\ UNCHANGED <<hidden, state>>
  /\ Noted

\* The row stays in lists that do not ask whether it is hidden.
HideRow(r) ==
  /\ Change
  /\ r \in there \ hidden
  /\ hidden' = hidden \union {r}
  /\ UNCHANGED <<there, state>>
  /\ Noted

\* A webhook overwrites what the last one has written to a credential or proof.
WriteAgain(r, what) ==
  /\ Change
  /\ "said" \in query.where
  /\ r \in there /\ what # state[r]
  /\ state' = [state EXCEPT ![r] = what]
  /\ UNCHANGED <<there, hidden>>
  /\ Noted

Serve == ListRows \/ GivePage

Next ==
  \/ \E l \in Lists : StartWalk(l)
  \/ ListRows \/ GivePage
  \/ \E r \in Rows :
       \/ AddRow(r) \/ RemoveRow(r) \/ HideRow(r)
       \/ \E what \in States : WriteAgain(r, what)

\* A client that has started goes on.
Fairness == WF_vars(Serve)

Spec == Init /\ [][Next]_vars /\ Fairness

-----------------------------------------------------------------------------
\* Every variable has its type.
TypeOK ==
  /\ there \subseteq Rows /\ hidden \subseteq Rows /\ state \in [Rows -> States]
  /\ \/ walk = NoWalk
     \/ \E l \in Lists : walk.query = About(l).query /\ walk.answer = About(l).answer
  /\ page \in 1..(MaxRow + 2)
  /\ pc \in {"idle", "list", "count", "over"}
  /\ got \subseteq Rows /\ stayed \subseteq Rows /\ tied \subseteq Rows
  /\ seen \in [Rows -> 0..(MaxRow + 1)]
  /\ changes \in 0..MaxChanges

Ended == pc = "over"

\* A walk misses at most one row for every row that left the list or its place
\* in it meanwhile, though each page is found by its offset and counted by a
\* query of its own; but any row that is alike with another one.
MissesOnlyForRemoved ==
  Ended => Cardinality({r \in stayed \ tied : seen[r] = 0}) <= removed

\* A walk shows at most one row again for every row that came to the list or to
\* another place in it meanwhile, but rows that are alike.
RepeatsOnlyForAdded ==
  Ended => Cardinality({r \in Rows \ tied : seen[r] > 1}) <= added

Calm == Ended /\ removed = 0 /\ added = 0

Times(S) == FoldSet(LAMBDA r, n : seen[r] + n, 0, S)

\* In a walk that nothing disturbs, rows that are alike may be missed only for one
\* another: together they are shown as often as there are of them.
AlikeStandIn ==
  Calm => \A r \in stayed : Times(Alike(stayed, r)) = Cardinality(Alike(stayed, r))

\* In a walk that nothing disturbs, the total announced is the number of rows on
\* its pages.
TotalIsShown == Calm /\ stayed # {} => total = Times(Rows)

=============================================================================
