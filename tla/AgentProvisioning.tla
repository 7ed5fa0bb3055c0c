------------------------- MODULE AgentProvisioning -------------------------
(***************************************************************************)
(* The wallet of one organisation in the agent service: the requests that  *)
(* give it one (createTenant on the shared agent, walletProvision of a     *)
(* dedicated agent, agentConfigure of an agent run by the organisation)    *)
(* and the requests that take it away (deleteWallet).                      *)
(*                                                                         *)
(* A wallet lives on an agent, its record is a row of org_agents. Each     *)
(* request is a sequence of awaited calls to the database, the agent and   *)
(* other services; requests interleave at every await. The row is first    *)
(* created without an orgId (a placeholder) and gets its orgId at the      *)
(* end: only then can other requests see it, and only then does the        *)
(* unique index on orgId speak.                                            *)
(***************************************************************************)
EXTENDS Integers, FiniteSets

CONSTANTS
  Attempts,   \* requests that give a wallet; each names its row and wallet
  Deletions,  \* deleteWallet requests
  Agents,     \* agents the organisation runs itself
  MaxFaults   \* bound: failures and crashes of the environment

ASSUME ConstantsAssumption ==
  /\ Attempts \cap Agents = {}
  /\ MaxFaults \in Nat

Wallets    == Attempts \cup Agents
Kinds      == {"shared", "dedicated", "configured"}
RowState   == {"none", "placeholder", "completed", "removed"}
WalletState == {"none", "alive", "deleted"}

\* Where a request stands, each at its next await.
AttemptPc  == {"idle", "start", "wallet", "did", "store", "after", "invite", "cleanup", "over"}
DeletePc   == {"idle", "read", "counted", "http", "archive", "refused", "failed", "deleted", "lost"}
Pending    == {"read", "counted", "http", "archive"}

VARIABLES
  \* PostgreSQL
  row,         \* the org_agents row of an attempt; only a completed one has the orgId
  did,         \* attempts whose row has its org_dids row
  referenced,  \* connections, credentials or presentations of the organisation exist
  archived,    \* wallets whose DID had its schemas archived
  \* the agents
  wallet,
  \* memory of the service
  pc, kind,    \* where an attempt stands, and which request it is
  home,        \* the wallet an attempt records
  dpc, target, \* where a deletion stands, and the attempt whose row it read
  \* history and bounds
  excused,     \* attempts with a known cause for a wallet without record
  cut,         \* attempts with a known cause for being left half-made
  faults

database == <<row, did, referenced, archived>>
attempt  == <<pc, kind, home>>
deletion == <<dpc, target>>
history  == <<excused, cut>>
vars     == <<database, wallet, attempt, deletion, history, faults>>

Init ==
  /\ row = [a \in Attempts |-> "none"]
  /\ did = {}
  /\ referenced = FALSE
  /\ archived = {}
  /\ wallet = [w \in Wallets |-> IF w \in Agents THEN "alive" ELSE "none"]
  /\ pc = [a \in Attempts |-> "idle"]
  /\ kind = [a \in Attempts |-> "none"]
  /\ home = [a \in Attempts |-> a]
  /\ dpc = [d \in Deletions |-> "idle"]
  /\ target = [d \in Deletions |-> {}]
  /\ excused = {}
  /\ cut = {}
  /\ faults = 0

-----------------------------------------------------------------------------
\* What the queries see, and who is at work.

\* A row with the organisation's orgId: what getAgentDetails finds.
Recorded == \E a \in Attempts : row[a] = "completed"

Underway   == {a \in Attempts : pc[a] \notin {"idle", "over"}}
InDeletion == {d \in Deletions : dpc[d] \in Pending}

\* A deletion has removed a record and has still to delete this wallet.
Doomed(w) == \E d \in Deletions : dpc[d] = "http" /\ \E a \in target[d] : home[a] = w

\* A failure of the environment: a query, a call or the process itself.
Fault   == faults < MaxFaults /\ faults' = faults + 1
NoFault == UNCHANGED faults

\* An attempt moves on.
Step(a, from, to) ==
  /\ pc[a] = from
  /\ pc' = [pc EXCEPT ![a] = to]

-----------------------------------------------------------------------------
\* createTenant, walletProvision, agentConfigure

\* A request finds no row of the organisation and goes on; requests under
\* way are not seen, their placeholders have no orgId.
Start(a, k) ==
  /\ Step(a, "idle", "start")
  /\ ~Recorded
  /\ kind' = [kind EXCEPT ![a] = k]
  /\ UNCHANGED <<database, wallet, home, deletion, history, faults>>

\* Something fails before anything was made: an unknown ledger, an agent
\* that is not initialised, a query.
StartFails(a) ==
  /\ Step(a, "start", "over")
  /\ Fault
  /\ UNCHANGED <<database, wallet, kind, home, deletion, history>>

\* createOrgAgent: a row with status PROCESSED and no orgId.
CreatePlaceholder(a) ==
  /\ Step(a, "start", "wallet")
  /\ kind[a] \in {"shared", "dedicated"}
  /\ row' = [row EXCEPT ![a] = "placeholder"]
  /\ UNCHANGED <<did, referenced, archived, wallet, kind, home, deletion, history, faults>>

\* agentConfigure finds the agent initialised.
AgentHealthy(a, w) ==
  /\ Step(a, "start", "store")
  /\ kind[a] = "configured"
  /\ wallet[w] = "alive"
  /\ home' = [home EXCEPT ![a] = w]
  /\ UNCHANGED <<database, wallet, kind, deletion, history, faults>>

\* The shared agent makes the tenant, or the provisioning script the agent.
CreateWallet(a) ==
  /\ Step(a, "wallet", "did")
  /\ wallet' = [wallet EXCEPT ![a] = "alive"]
  /\ UNCHANGED <<database, kind, home, deletion, history, faults>>

\* It does not, or the answer is lost on the way back.
CreateWalletFails(a) ==
  /\ Step(a, "wallet", "cleanup")
  /\ Fault
  /\ \/ UNCHANGED <<wallet, excused>>
     \/ /\ wallet' = [wallet EXCEPT ![a] = "alive"]
        /\ excused' = excused \cup {a}
  /\ UNCHANGED <<database, kind, home, deletion, cut>>

\* The agent writes the DID.
WriteDid(a) ==
  /\ Step(a, "did", "store")
  /\ UNCHANGED <<database, wallet, kind, home, deletion, history, faults>>

\* It does not (a dedicated agent is asked ten times more): the wallet stays.
WriteDidFails(a) ==
  /\ Step(a, "did", "cleanup")
  /\ Fault
  /\ excused' = excused \cup {a}
  /\ UNCHANGED <<database, wallet, kind, home, deletion, cut>>

\* storeOrgAgentDetails: the row gets its orgId and is completed.
StoreRecord(a) ==
  /\ Step(a, "store", IF kind[a] = "configured" THEN "invite" ELSE "after")
  /\ ~Recorded
  /\ row' = [row EXCEPT ![a] = "completed"]
  /\ UNCHANGED <<did, referenced, archived, wallet, kind, home, deletion, history, faults>>

\* Wrong on purpose: a refused request leaves everything as it is.
StoreRefusedQuietly(a) ==
  /\ Step(a, "store", "over")
  /\ IF Recorded THEN NoFault ELSE Fault
  /\ excused' = excused \cup {a}
  /\ UNCHANGED <<database, wallet, kind, home, deletion, cut>>

\* The unique index on orgId refuses it, or a fault; agentConfigure has made
\* nothing that would have to be removed.
StoreRefused(a) ==
  /\ Step(a, "store", IF kind[a] = "configured" THEN "over" ELSE "cleanup")
  /\ IF Recorded THEN NoFault ELSE Fault
  /\ excused' = excused \cup {a}
  /\ UNCHANGED <<database, wallet, kind, home, deletion, cut>>

\* createTenant stores the DID; the row has to be there (foreign key).
\* walletProvision only reads the organisation.
FinishRecord(a) ==
  /\ Step(a, "after", "invite")
  /\ kind[a] = "shared" => row[a] = "completed"
  /\ did' = IF kind[a] = "shared" THEN did \cup {a} ELSE did
  /\ UNCHANGED <<row, referenced, archived, wallet, kind, home, deletion, history, faults>>

\* That fails: the row is gone, or a fault.
FinishFails(a) ==
  /\ Step(a, "after", "cleanup")
  /\ IF kind[a] = "shared" /\ row[a] # "completed"
     THEN NoFault /\ UNCHANGED excused
     ELSE Fault /\ excused' = excused \cup {a}
  /\ UNCHANGED <<database, wallet, kind, home, deletion, cut>>

\* _createConnectionInvitation: whatever comes of it, its errors are swallowed.
Invite(a) ==
  /\ Step(a, "invite", "over")
  /\ UNCHANGED <<database, wallet, kind, home, deletion, history, faults>>

\* Wrong on purpose: the row with the organisation's orgId is removed.
CleanupByOrg(a) ==
  /\ Step(a, "cleanup", "over")
  /\ row' = [b \in Attempts |-> IF row[b] = "completed" THEN "removed" ELSE row[b]]
  /\ UNCHANGED <<did, referenced, archived, wallet, kind, home, deletion, history, faults>>

\* removeOrgAgent deletes the row the attempt has made, by its id.
Cleanup(a) ==
  /\ Step(a, "cleanup", "over")
  /\ row[a] # "removed"
  /\ row' = [row EXCEPT ![a] = "removed"]
  /\ UNCHANGED <<did, referenced, archived, wallet, kind, home, deletion, history, faults>>

\* The row is gone already, or a fault.
CleanupFails(a) ==
  /\ Step(a, "cleanup", "over")
  /\ IF row[a] = "removed"
     THEN NoFault /\ UNCHANGED cut
     ELSE Fault /\ cut' = cut \cup {a}
  /\ UNCHANGED <<database, wallet, kind, home, deletion, excused>>

-----------------------------------------------------------------------------
\* deleteWallet

\* A deletion moves on.
Advance(d, from, to) ==
  /\ dpc[d] = from
  /\ dpc' = [dpc EXCEPT ![d] = to]

\* The key, the row and the type of the agent are read; the address of the
\* wallet comes from that row.
ReadRecord(d) ==
  /\ Advance(d, "idle", "read")
  /\ \E a \in Attempts :
       /\ row[a] = "completed"
       /\ target' = [target EXCEPT ![d] = {a}]
  /\ UNCHANGED <<database, wallet, attempt, history, faults>>

\* Wrong on purpose: the wallet is deleted before its record.
CountAndDeleteWallet(d) ==
  /\ Advance(d, "read", "counted")
  /\ ~referenced
  /\ wallet' = [w \in Wallets |-> IF \E a \in target[d] : w = home[a] THEN "deleted" ELSE wallet[w]]
  /\ UNCHANGED <<database, attempt, target, history, faults>>

\* deleteOrgAgentByOrg counts what refers to the organisation.
CountReferences(d) ==
  /\ Advance(d, "read", "counted")
  /\ ~referenced
  /\ UNCHANGED <<database, wallet, attempt, target, history, faults>>

\* Its transaction aborts: there are references, the row is gone, a DID or
\* an invitation is being stored for it, or a fault.
DeletionRefused(d) ==
  /\ Advance(d, "read", "refused") \/ Advance(d, "counted", "refused")
  /\ IF \/ dpc[d] = "read" /\ referenced
        \/ dpc[d] = "counted" /\ (~Recorded \/ \E a \in Attempts : pc[a] \in {"after", "invite"})
     THEN NoFault ELSE Fault
  /\ UNCHANGED <<database, wallet, attempt, target, history>>

\* Wrong on purpose: the wallet is not deleted after its record.
DeleteRecordOnly(d) ==
  /\ Advance(d, "counted", "archive")
  /\ \E a \in Attempts :
       /\ row[a] = "completed"
       /\ row' = [row EXCEPT ![a] = "removed"]
       /\ did' = did \ {a}
       /\ excused' = excused \cup ({a} \ target[d])
  /\ UNCHANGED <<referenced, archived, wallet, attempt, target, cut, faults>>

\* It deletes the DIDs, the invitations and the row that has the orgId now,
\* and commits: the transaction around it does not contain it.
DeleteRecord(d) ==
  /\ Advance(d, "counted", "http")
  /\ \E a \in Attempts :
       /\ row[a] = "completed"
       /\ row' = [row EXCEPT ![a] = "removed"]
       /\ did' = did \ {a}
       /\ excused' = excused \cup ({a} \ target[d])
  /\ UNCHANGED <<referenced, archived, wallet, attempt, target, cut, faults>>

\* httpDelete of the wallet whose row was read at first.
DeleteWallet(d) ==
  /\ Advance(d, "http", "archive")
  /\ \E a \in target[d] :
       /\ wallet[home[a]] = "alive"
       /\ wallet' = [wallet EXCEPT ![home[a]] = "deleted"]
  /\ UNCHANGED <<database, attempt, target, history, faults>>

\* The wallet is gone already, or the agent does not delete it, or it does
\* and the answer is lost.
DeleteWalletFails(d) ==
  /\ Advance(d, "http", "failed")
  /\ \E a \in target[d] :
       \/ wallet[home[a]] # "alive" /\ NoFault /\ UNCHANGED <<wallet, excused>>
       \/ wallet[home[a]] = "alive" /\ Fault /\ excused' = excused \cup {a} /\ UNCHANGED wallet
       \/ /\ wallet[home[a]] = "alive" /\ Fault /\ UNCHANGED excused
          /\ wallet' = [wallet EXCEPT ![home[a]] = "deleted"]
  /\ UNCHANGED <<database, attempt, target, cut>>

\* archive-schemas, for the DID that was read at first.
ArchiveSchemas(d) ==
  /\ Advance(d, "archive", "deleted")
  /\ archived' = archived \cup {home[a] : a \in target[d]}
  /\ UNCHANGED <<row, did, referenced, wallet, attempt, target, history, faults>>

\* The ledger service does not answer.
ArchiveFails(d) ==
  /\ Advance(d, "archive", "failed")
  /\ Fault
  /\ UNCHANGED <<database, wallet, attempt, target, history>>

-----------------------------------------------------------------------------
\* The surroundings

\* A webhook stores an exchange of the organisation: it is found through
\* the record of a tenant, and named by a dedicated agent itself.
ExchangeArrives ==
  /\ ~referenced
  /\ \E a \in Attempts :
       /\ wallet[home[a]] = "alive"
       /\ row[a] = "completed" \/ (row[a] = "removed" /\ kind[a] # "shared")
  /\ referenced' = TRUE
  /\ UNCHANGED <<row, did, archived, wallet, attempt, deletion, history, faults>>

\* The records of the exchanges are deleted.
ExchangesDeleted ==
  /\ referenced
  /\ referenced' = FALSE
  /\ UNCHANGED <<row, did, archived, wallet, attempt, deletion, history, faults>>

\* The agent service dies and is started again.
Crash ==
  /\ Fault
  /\ pc' = [a \in Attempts |-> IF a \in Underway THEN "over" ELSE pc[a]]
  /\ dpc' = [d \in Deletions |-> IF d \in InDeletion THEN "lost" ELSE dpc[d]]
  /\ cut' = cut \cup Underway
  /\ excused' = excused \cup Underway \cup {a \in Attempts : Doomed(a)}
  /\ UNCHANGED <<database, wallet, kind, home, target>>

-----------------------------------------------------------------------------
AttemptStep(a) ==
  \/ StartFails(a)
  \/ CreatePlaceholder(a)
  \/ \E w \in Agents : AgentHealthy(a, w)
  \/ CreateWallet(a) \/ CreateWalletFails(a)
  \/ WriteDid(a) \/ WriteDidFails(a)
  \/ StoreRecord(a) \/ StoreRefused(a)
  \/ FinishRecord(a) \/ FinishFails(a)
  \/ Invite(a)
  \/ Cleanup(a) \/ CleanupFails(a)

DeletionStep(d) ==
  \/ CountReferences(d) \/ DeletionRefused(d)
  \/ DeleteRecord(d)
  \/ DeleteWallet(d) \/ DeleteWalletFails(d)
  \/ ArchiveSchemas(d) \/ ArchiveFails(d)

Next ==
  \/ \E a \in Attempts, k \in Kinds : Start(a, k)
  \/ \E a \in Attempts : AttemptStep(a)
  \/ \E d \in Deletions : ReadRecord(d)
  \/ \E d \in Deletions : DeletionStep(d)
  \/ ExchangeArrives
  \/ ExchangesDeleted
  \/ Crash

\* The event loop runs every request on; requests, webhooks and crashes are
\* owed to nobody.
Fairness ==
  /\ \A a \in Attempts : WF_vars(AttemptStep(a))
  /\ \A d \in Deletions : WF_vars(DeletionStep(d))

Spec == Init /\ [][Next]_vars
FairSpec == Spec /\ Fairness

-----------------------------------------------------------------------------
\* Types of the variables.
TypeOK ==
  /\ row \in [Attempts -> RowState]
  /\ did \subseteq Attempts
  /\ referenced \in BOOLEAN
  /\ archived \subseteq Wallets
  /\ wallet \in [Wallets -> WalletState]
  /\ pc \in [Attempts -> AttemptPc]
  /\ kind \in [Attempts -> Kinds \cup {"none"}]
  /\ home \in [Attempts -> Wallets]
  /\ dpc \in [Deletions -> DeletePc]
  /\ target \in [Deletions -> SUBSET Attempts]
  /\ excused \subseteq Attempts
  /\ cut \subseteq Attempts
  /\ faults \in 0 .. MaxFaults

\* The record never outlives the wallet: what org_agents names is alive on
\* its agent and its schemas are not archived, with deletions that read one
\* row, delete another and then the wallet of the first.  An agent that the
\* organisation configured more than once is left out: there a late deletion
\* does reach the wallet of the newer record.
RecordHasWallet ==
  \A a \in Attempts :
    row[a] = "completed" /\ (\A b \in Attempts \ {a} : home[b] # home[a])
      => wallet[home[a]] = "alive" /\ home[a] \notin archived

\* A wallet the platform made stands without a record only if its request
\* lost the race for the organisation's record, or a deletion that had read
\* another row removed its record, or a failure hit its request or its
\* deletion; otherwise it is recorded, on its way, or about to be deleted.
OrphanHasCause ==
  \A a \in Attempts :
    wallet[a] = "alive" /\ row[a] # "completed" /\ a \notin Underway /\ ~Doomed(a)
      => a \in excused

\* A request that is over leaves no placeholder and no shared agent without
\* its DID behind, unless a crash or a failing removeOrgAgent cut it short:
\* a request refused by the unique index cleans up after itself.
HalfMadeHasCause ==
  \A a \in Attempts \ (Underway \cup cut) :
    /\ row[a] # "placeholder"
    /\ row[a] = "completed" /\ kind[a] = "shared" => a \in did

\* Without failures and deletions, requests that race for the organisation
\* do not undo each other: one of them records its wallet, for good.
RaceHasWinner == (Underway # {}) ~> []Recorded

\* What deleteWallet says of itself, "Perform the deletion in a transaction":
\* when it fails on the wallet, the record is still there.
FailedDeletionKeepsRecord ==
  \A d \in Deletions : dpc[d] = "failed" => \A a \in target[d] : row[a] = "completed"

=============================================================================
