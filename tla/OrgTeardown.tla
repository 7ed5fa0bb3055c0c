---------------------------- MODULE OrgTeardown ----------------------------
(***************************************************************************)
(* An organisation is taken down bottom up: its presentations, its         *)
(* credentials and bulk files, its connections, its wallet, itself. Every  *)
(* stage is a request of its own, to a service of its own, that counts     *)
(* the references the stage before should have removed, and deletes.       *)
(* Webhooks of the agent, uploads, invitations and the ledger service      *)
(* insert new references meanwhile.                                        *)
(*                                                                         *)
(* The foreign keys on the organisation are ON DELETE SET NULL, except     *)
(* for invitations and activities (RESTRICT): a reference that slips in    *)
(* after the count loses its organisation, or refuses the deletion.        *)
(***************************************************************************)
EXTENDS Integers, FiniteSets

CONSTANTS
  Requests,
  Founder,      \* an owner nobody invited
  Member,       \* who joined by an invitation
  MaxArrivals,  \* bound: references inserted by others
  MaxFaults     \* bound: failures and crashes

(* The owner nobody invited is not the one who was. *)
ASSUME ConstantsAssumption ==
  /\ Founder # Member
  /\ MaxArrivals \in Nat
  /\ MaxFaults \in Nat

Exchange == {"connection", "credential", "presentation"}
Tables   == Exchange \cup {"agent", "file"}   \* tablesToCheck of deleteOrg
Arrivals == Tables \cup {"invitation", "schema"}
Owners   == {Founder, Member}

Ops == {"none", "presentations", "issuance", "connections", "wallet", "org"}
Pcs == {"idle", "start", "files", "count", "delete", "paper", "unlink", "commit", "log", "over"}

VARIABLES
  here,      \* the row of the organisation exists
  held,      \* tables with rows of the organisation
  loose,     \* tables with rows that lost their organisation
  schemas,   \* rows of schema: none, linked to the organisation or unlinked
  invited,   \* rows of org_invitations
  mapped,    \* who has roles of the organisation's client in Keycloak
  pc, op, asker,
  saw,       \* whether the files of the organisation were read
  mine,      \* what a request has deleted
  noted,     \* an invitation was inserted after the transaction deleted them
  answer,
  onTheWay,  \* references that are about to be inserted
  raced,     \* references inserted behind a count or after a stale read
  rolled,    \* a deletion of the organisation was undone after the unlinking
  kept,      \* owners Keycloak was not told about
  arrivals, faults

rows     == <<here, held, loose, schemas, invited>>
requests == <<pc, op, asker, saw, mine, noted, answer>>
history  == <<raced, rolled, kept>>
vars     == <<rows, mapped, requests, onTheWay, history, arrivals, faults>>

\* An organisation that has been used, whoever is gone already.
Init ==
  /\ here = TRUE
  /\ held \in {{"agent"} \cup k : k \in SUBSET (Exchange \cup {"file"})} \cup {{}}
  /\ loose = {}
  /\ schemas \in {"none", "linked"}
  /\ invited = TRUE
  /\ mapped = Owners
  /\ pc = [r \in Requests |-> "idle"]
  /\ op = [r \in Requests |-> "none"]
  /\ asker = [r \in Requests |-> Founder]
  /\ saw = [r \in Requests |-> FALSE]
  /\ mine = [r \in Requests |-> {}]
  /\ noted = [r \in Requests |-> FALSE]
  /\ answer = [r \in Requests |-> "none"]
  /\ onTheWay = {}
  /\ raced = {} /\ rolled = FALSE /\ kept = {}
  /\ arrivals = 0 /\ faults = 0

-----------------------------------------------------------------------------
Deleting(o) == {r \in Requests : op[r] = o /\ pc[r] \notin {"idle", "over"}}

\* Deletions that have counted the references and not yet committed.
Counted == {r \in Deleting("wallet") : pc[r] = "delete"}
             \cup {r \in Deleting("org") : pc[r] \in {"paper", "unlink", "commit"}}

Fault == faults < MaxFaults /\ faults' = faults + 1

Move(r, from, to) ==
  /\ pc[r] = from
  /\ pc' = [pc EXCEPT ![r] = to]

\* A request ends with an answer.
Answer(r, from, a) ==
  /\ Move(r, from, "over")
  /\ answer' = [answer EXCEPT ![r] = a]

Untouched == UNCHANGED <<rows, mapped, history>>
Idle      == UNCHANGED <<onTheWay, arrivals, faults>>
Same      == UNCHANGED <<op, asker, saw, mine, noted>>

Refuse(r, from) ==
  /\ Answer(r, from, "refused")
  /\ Same /\ Untouched /\ Idle

Proceed(r, from, to) ==
  /\ Move(r, from, to)
  /\ UNCHANGED answer
  /\ Same /\ Untouched /\ Idle

\* A request deletes the rows of a table.
Delete(r, table, from, to) ==
  /\ Move(r, from, to)
  /\ held' = held \ {table}
  /\ mine' = [mine EXCEPT ![r] = @ \cup ({table} \cap held)]
  /\ UNCHANGED <<here, loose, schemas, invited, mapped, history, op, asker, saw, noted, answer>>
  /\ Idle

Ask(r, o, u) ==
  /\ here
  /\ Move(r, "idle", "start")
  /\ op' = [op EXCEPT ![r] = o]
  /\ asker' = [asker EXCEPT ![r] = u]
  /\ UNCHANGED <<saw, mine, noted, answer>>
  /\ Untouched /\ Idle

-----------------------------------------------------------------------------
\* References come from elsewhere, in two steps: the agent or the
\* organisation is looked up, and the row is inserted.

LookUp(k) ==
  /\ arrivals < MaxArrivals
  /\ arrivals' = arrivals + 1
  /\ here /\ k \notin onTheWay
  /\ k \in Exchange \cup {"schema"} => "agent" \in held
  /\ k = "agent" => k \notin held
  /\ onTheWay' = onTheWay \cup {k}
  /\ Untouched /\ UNCHANGED <<requests, faults>>

\* The foreign key lets the row in as long as the organisation is there.
Insert(k) ==
  /\ k \in onTheWay
  /\ onTheWay' = onTheWay \ {k}
  /\ here
  /\ held' = held \cup ({k} \cap Tables)
  /\ schemas' = IF k = "schema" THEN "linked" ELSE schemas
  /\ invited' = (invited \/ k = "invitation")
  /\ mapped' = IF k = "invitation" THEN mapped \cup {Member} ELSE mapped
  /\ noted' = [r \in Requests |-> noted[r] \/ (k = "invitation" /\ r \in Counted /\ pc[r] # "paper")]
  /\ raced' = IF Counted # {} \/ (k \in Exchange /\ "agent" \notin held) THEN raced \cup {k} ELSE raced
  /\ kept' = IF k = "invitation" /\ Deleting("org") # {} THEN kept \cup {Member} ELSE kept
  /\ UNCHANGED <<here, loose, pc, op, asker, saw, mine, answer, rolled, arrivals, faults>>

InsertRefused(k) ==
  /\ k \in onTheWay
  /\ ~here
  /\ onTheWay' = onTheWay \ {k}
  /\ Untouched /\ UNCHANGED <<requests, arrivals, faults>>

-----------------------------------------------------------------------------
\* deleteVerificationRecords

DeletePresentations(r) ==
  /\ op[r] = "presentations"
  /\ "presentation" \in held
  /\ Delete(r, "presentation", "start", "log")

NoPresentations(r) ==
  /\ op[r] = "presentations"
  /\ "presentation" \notin held
  /\ Refuse(r, "start")

-----------------------------------------------------------------------------
\* deleteIssuanceRecords: the bulk files go first, then the presentations
\* are counted, then the credentials go.

ReadFiles(r) ==
  /\ op[r] = "issuance"
  /\ Move(r, "start", "files")
  /\ saw' = [saw EXCEPT ![r] = "file" \in held]
  /\ UNCHANGED <<op, asker, mine, noted, answer>>
  /\ Untouched /\ Idle

DeleteFiles(r) ==
  /\ op[r] = "issuance"
  /\ "file" \in held => saw[r]
  /\ Delete(r, "file", "files", "count")

\* A file uploaded since keeps its rows of file_data, which refuse.
FilesRefused(r) ==
  /\ op[r] = "issuance"
  /\ "file" \in held /\ ~saw[r]
  /\ Refuse(r, "files")

CountPresentations(r) ==
  /\ op[r] = "issuance"
  /\ "presentation" \notin held
  /\ Proceed(r, "count", "delete")

PresentationsLeft(r) ==
  /\ op[r] = "issuance"
  /\ "presentation" \in held
  /\ Refuse(r, "count")

DeleteCredentials(r) ==
  /\ op[r] = "issuance"
  /\ "credential" \in held
  /\ Delete(r, "credential", "delete", "log")

NoCredentials(r) ==
  /\ op[r] = "issuance"
  /\ "credential" \notin held
  /\ Refuse(r, "delete")

-----------------------------------------------------------------------------
\* deleteConnectionRecords

CountExchanges(r) ==
  /\ op[r] = "connections"
  /\ {"credential", "presentation"} \cap held = {}
  /\ Proceed(r, "start", "delete")

ExchangesLeft(r) ==
  /\ op[r] = "connections"
  /\ {"credential", "presentation"} \cap held # {}
  /\ Refuse(r, "start")

DeleteConnections(r) ==
  /\ op[r] = "connections"
  /\ "connection" \in held
  /\ Delete(r, "connection", "delete", "log")

NoConnections(r) ==
  /\ op[r] = "connections"
  /\ "connection" \notin held
  /\ Refuse(r, "delete")

-----------------------------------------------------------------------------
\* deleteWallet: deleteOrgAgentByOrg.  What the agent itself does then is
\* in AgentProvisioning.

\* Wrong on purpose: presentations are not counted.
CountTwoKinds(r) ==
  /\ op[r] = "wallet"
  /\ {"connection", "credential"} \cap held = {}
  /\ Proceed(r, "start", "delete")

CountForWallet(r) ==
  /\ op[r] = "wallet"
  /\ Exchange \cap held = {}
  /\ Proceed(r, "start", "delete")

WalletInUse(r) ==
  /\ op[r] = "wallet"
  /\ Exchange \cap held # {}
  /\ Refuse(r, "start")

DeleteAgent(r) ==
  /\ op[r] = "wallet"
  /\ "agent" \in held
  /\ Delete(r, "agent", "delete", "over")

NoAgent(r) ==
  /\ op[r] = "wallet"
  /\ "agent" \notin held
  /\ Refuse(r, "delete")

-----------------------------------------------------------------------------
\* deleteOrganization

\* The asker and the invited people lose their roles in Keycloak, and the
\* latter are told so by mail.  Failures of Keycloak are not noticed.
StripRoles(r) ==
  /\ op[r] = "org" /\ here
  /\ Move(r, "start", "count")
  /\ LET told == {asker[r]} \cup (IF invited THEN {Member} ELSE {})
     IN \/ /\ mapped' = mapped \ told
           /\ kept' = kept \cup (Owners \ told)
           /\ UNCHANGED faults
        \/ /\ Fault
           /\ \E u \in told : mapped' = mapped \ (told \ {u}) /\ kept' = kept \cup {u} \cup (Owners \ told)
  /\ UNCHANGED <<rows, answer, raced, rolled, onTheWay, arrivals>>
  /\ Same

OrgGone(r) ==
  /\ op[r] = "org" /\ ~here
  /\ Refuse(r, "start")

\* deleteOrg, one transaction: nothing may refer to the organisation.
CountReferences(r) ==
  /\ op[r] = "org"
  /\ held = {}
  /\ Proceed(r, "count", "paper")

Referenced(r) ==
  /\ op[r] = "org"
  /\ held # {}
  /\ Refuse(r, "count")

\* Wrong on purpose: the schemas are unlinked before the last stage.
UnlinkFirst(r) ==
  /\ op[r] = "org"
  /\ Move(r, "paper", "unlink")
  /\ schemas' = IF schemas = "linked" THEN "unlinked" ELSE schemas
  /\ UNCHANGED <<here, held, loose, invited, mapped, answer, history>>
  /\ Same /\ Idle

\* Notifications, activities, roles and invitations are deleted; nobody sees
\* it before the commit.
DeletePaper(r) ==
  /\ op[r] = "org"
  /\ Proceed(r, "paper", "unlink")

\* Schemas and credential definitions are unlinked, with the repository's own
\* client: at once, and whatever becomes of the transaction.
UnlinkSchemas(r) ==
  /\ op[r] = "org"
  /\ Move(r, "unlink", "commit")
  /\ schemas' = IF schemas = "linked" THEN "unlinked" ELSE schemas
  /\ UNCHANGED <<here, held, loose, invited, mapped, answer, history>>
  /\ Same /\ Idle

\* The organisation goes; rows that slipped in lose their organisation.
DeleteOrg(r) ==
  /\ op[r] = "org" /\ here /\ ~noted[r]
  /\ Move(r, "commit", "log")
  /\ here' = FALSE
  /\ loose' = loose \cup held
  /\ held' = {}
  /\ schemas' = IF schemas = "linked" THEN "unlinked" ELSE schemas
  /\ invited' = FALSE
  /\ mine' = [mine EXCEPT ![r] = @ \cup {"org"}]
  /\ UNCHANGED <<mapped, op, asker, saw, noted, answer, history>>
  /\ Idle

\* An invitation that slipped in refuses, and so does a row that is gone.
DeleteOrgRefused(r) ==
  /\ op[r] = "org"
  /\ ~here \/ noted[r]
  /\ Answer(r, "commit", "refused")
  /\ rolled' = TRUE
  /\ UNCHANGED <<rows, mapped, raced, kept>>
  /\ Same /\ Idle

-----------------------------------------------------------------------------
\* The deletion is recorded by another service; a failure there is the answer
\* of the request, although the rows are gone.
LogDeletion(r) ==
  /\ Answer(r, "log", "done")
  /\ Same /\ Untouched /\ Idle

\* A query fails or the transaction runs out of time.
Fail(r) ==
  /\ pc[r] \notin {"idle", "over"}
  /\ Fault
  /\ Answer(r, pc[r], "failed")
  /\ rolled' = (rolled \/ pc[r] = "commit")
  /\ UNCHANGED <<rows, mapped, raced, kept, onTheWay, arrivals>>
  /\ Same

\* The services die; transactions are undone, insertions not begun are lost.
Crash ==
  /\ Fault
  /\ \E r \in Requests : pc[r] \notin {"idle", "over"}
  /\ pc' = [r \in Requests |-> IF pc[r] = "idle" THEN "idle" ELSE "over"]
  /\ answer' = [r \in Requests |-> IF pc[r] \in {"idle", "over"} THEN answer[r] ELSE "failed"]
  /\ rolled' = (rolled \/ \E r \in Requests : pc[r] = "commit")
  /\ onTheWay' = {}
  /\ UNCHANGED <<rows, mapped, raced, kept, arrivals>>
  /\ Same

-----------------------------------------------------------------------------
Arriving == \E k \in Arrivals : LookUp(k) \/ Insert(k) \/ InsertRefused(k)

DeletingVerification(r) == DeletePresentations(r) \/ NoPresentations(r)

DeletingIssuance(r) ==
  \/ ReadFiles(r) \/ DeleteFiles(r) \/ FilesRefused(r)
  \/ CountPresentations(r) \/ PresentationsLeft(r) \/ DeleteCredentials(r) \/ NoCredentials(r)

DeletingConnections(r) ==
  CountExchanges(r) \/ ExchangesLeft(r) \/ DeleteConnections(r) \/ NoConnections(r)

DeletingWallet(r) == CountForWallet(r) \/ WalletInUse(r) \/ DeleteAgent(r) \/ NoAgent(r)

DeletingOrg(r) ==
  \/ StripRoles(r) \/ OrgGone(r) \/ CountReferences(r) \/ Referenced(r) \/ DeletePaper(r)
  \/ UnlinkSchemas(r) \/ DeleteOrg(r) \/ DeleteOrgRefused(r)

Work(r) ==
  \/ DeletingVerification(r) \/ DeletingIssuance(r) \/ DeletingConnections(r)
  \/ DeletingWallet(r) \/ DeletingOrg(r) \/ LogDeletion(r)

Next ==
  \/ Arriving
  \/ \E r \in Requests, o \in Ops \ {"none"}, u \in Owners : Ask(r, o, u)
  \/ \E r \in Requests : Work(r) \/ Fail(r)
  \/ Crash

Spec == Init /\ [][Next]_vars

-----------------------------------------------------------------------------
TypeOK ==
  /\ here \in BOOLEAN
  /\ held \subseteq Tables /\ loose \subseteq Tables
  /\ schemas \in {"none", "linked", "unlinked"}
  /\ invited \in BOOLEAN
  /\ mapped \subseteq Owners
  /\ pc \in [Requests -> Pcs]
  /\ op \in [Requests -> Ops]
  /\ asker \in [Requests -> Owners]
  /\ saw \in [Requests -> BOOLEAN]
  /\ mine \in [Requests -> SUBSET (Tables \cup {"org"})]
  /\ noted \in [Requests -> BOOLEAN]
  /\ answer \in [Requests -> {"none", "done", "refused", "failed"}]
  /\ onTheWay \subseteq Arrivals
  /\ raced \subseteq Arrivals /\ rolled \in BOOLEAN /\ kept \subseteq Owners
  /\ arrivals \in 0..MaxArrivals /\ faults \in 0..MaxFaults

\* An exchange record of an organisation has the wallet it was made with,
\* unless it was inserted behind the back of deleteOrgAgentByOrg, which
\* counts in one statement and deletes in another.
RecordsHaveWallet == \A k \in held \cap Exchange : "agent" \in held \/ k \in raced

\* No row loses its organisation, unless it was inserted after deleteOrg had
\* counted: nothing but the count protects from ON DELETE SET NULL.
RecordsHaveOrg == loose \subseteq raced

\* A schema is unlinked from an organisation that exists only while it is
\* being deleted or when its deletion was undone after the unlinking, which
\* is not part of the transaction.
SchemasKept == here /\ schemas = "unlinked" => rolled \/ \E r \in Deleting("org") : pc[r] = "commit"

\* Nobody has roles of an organisation that is gone, except owners it had
\* besides the asker and the invited ones, those Keycloak was not reached
\* for, and whoever joined meanwhile.
NoRolesLeft == ~here => mapped \subseteq kept

\* What is refused is not done: the presentations are counted before the
\* credentials are deleted ("First you have to remove verification data").
RefusedDeletesNothing == \A r \in Requests : answer[r] = "refused" => mine[r] = {}

\* No record outlives what it needs, the wallet of its keys and the
\* organisation it is of, unless it arrived after the count: each of five
\* deletions counts what is in its way in a statement of its own.
RecordsKept == RecordsHaveWallet /\ RecordsHaveOrg

\* Schemas and roles go with the organisation and not before: one that stays
\* keeps its schemas, and one that is gone leaves nobody with roles, with the
\* exceptions above.
OthersKept == SchemasKept /\ NoRolesLeft
=============================================================================
