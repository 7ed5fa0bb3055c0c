------------------------------ MODULE OrgDids ------------------------------
(***************************************************************************)
(* The DIDs of an organisation and which of them is primary. createDid of  *)
(* the agent service and setPrimaryDid of the organization service write   *)
(* the same two tables, org_dids (rows with a flag) and org_agents (one    *)
(* row with the primary DID and its ledger), each in several statements    *)
(* and in an order of its own.                                             *)
(***************************************************************************)
EXTENDS Integers, FiniteSets, TLC

CONSTANTS
  Dids,       \* what the agent's wallet can make
  Ledgers,
  NoLedger,   \* the ledger "Not_Applicable" of DIDs without a network
  NetOf,      \* the ledger a DID belongs to
  Nested,     \* DIDs the agent answers with inside didState
  Ids,        \* ids of rows of org_dids
  Requests,
  MaxFaults   \* bound: failures and crashes

ASSUME ConstantsAssumption ==
  /\ "none" \notin Dids
  /\ NoLedger \in Ledgers
  /\ NetOf \in [Dids -> Ledgers]
  /\ Nested \subseteq Dids
  /\ MaxFaults \in Nat

Pcs == {"idle", "check", "post", "list", "demote", "store", "agent", "ledger",
        "match", "previous", "clear", "promote", "over"}

VARIABLES
  did,       \* org_dids: the DID of a row, "none" for no row
  primary,   \* ids of rows with isPrimaryDid
  agent,     \* org_agents: orgDid and ledgerId
  pc, job,
  seen,      \* ids of the rows a request has listed
  crossed,   \* two requests that set the primary DID were under way at a time
  odd,       \* a request named a DID and the row of another one
  faults

tables   == <<did, primary, agent>>
requests == <<pc, job, seen>>
vars     == <<tables, requests, crossed, odd, faults>>

NoJob == [op |-> "none", did |-> "none", id |-> "none", primary |-> FALSE]

\* A wallet was made with one DID, which is the primary one.
Init ==
  \E i \in Ids, d \in Dids :
    /\ did = [j \in Ids |-> IF j = i THEN d ELSE "none"]
    /\ primary = {i}
    /\ agent = [did |-> d, ledger |-> NetOf[d]]
    /\ pc = [r \in Requests |-> "idle"]
    /\ job = [r \in Requests |-> NoJob]
    /\ seen = [r \in Requests |-> {}]
    /\ crossed = FALSE /\ odd = FALSE
    /\ faults = 0

-----------------------------------------------------------------------------
Rows     == {i \in Ids : did[i] # "none"}
Stored   == {did[i] : i \in Rows}
Underway == {r \in Requests : pc[r] \notin {"idle", "over"}}
Electing == {r \in Underway : job[r].op = "set" \/ job[r].primary}

Move(r, from, to) ==
  /\ pc[r] = from
  /\ pc' = [pc EXCEPT ![r] = to]

Refuse(r, from) ==
  /\ Move(r, from, "over")
  /\ UNCHANGED <<tables, job, seen, crossed, odd, faults>>

-----------------------------------------------------------------------------
\* createDid

\* A seed makes the same DID again; a network has to be that of the DID.
AskCreate(r, d, p) ==
  /\ Move(r, "idle", "check")
  /\ job' = [job EXCEPT ![r] = [op |-> "create", did |-> d, id |-> "none", primary |-> p]]
  /\ crossed' = (crossed \/ (p /\ Electing # {}))
  /\ UNCHANGED <<tables, seen, odd, faults>>

\* getOrgAgentDetails: a network must be that of the agent, none is free.
CheckNetwork(r) ==
  /\ job[r].op = "create"
  /\ NetOf[job[r].did] \in {NoLedger, agent.ledger}
  /\ Move(r, "check", "post")
  /\ UNCHANGED <<tables, job, seen, crossed, odd, faults>>

NetworkMismatch(r) ==
  /\ job[r].op = "create"
  /\ NetOf[job[r].did] \notin {NoLedger, agent.ledger}
  /\ Refuse(r, "check")

\* The agent makes the DID, and the rows are listed.
ListDids(r) ==
  /\ Move(r, "post", "list")
  /\ seen' = [seen EXCEPT ![r] = Rows]
  /\ UNCHANGED <<tables, job, crossed, odd, faults>>

\* checkDidExistence looks at the top level of the agent's answer.
Exists(r) ==
  /\ job[r].did \notin Nested
  /\ job[r].did \in {did[i] : i \in seen[r]}

NewDid(r) ==
  /\ ~Exists(r)
  /\ Move(r, "list", IF job[r].primary THEN "demote" ELSE "store")
  /\ UNCHANGED <<tables, job, seen, crossed, odd, faults>>

DidExists(r) == pc[r] = "list" /\ Exists(r) /\ Refuse(r, "list")

\* updateAllDidsToNonPrimary: all rows, once for each row that was listed.
DemoteAll(r) ==
  /\ Move(r, "demote", "store")
  /\ primary' = IF seen[r] = {} THEN primary ELSE {}
  /\ UNCHANGED <<did, agent, job, seen, crossed, odd, faults>>

StoreDid(r, i) ==
  /\ Move(r, "store", IF job[r].primary THEN "agent" ELSE "over")
  /\ did[i] = "none"
  /\ did' = [did EXCEPT ![i] = job[r].did]
  /\ primary' = IF job[r].primary THEN primary \cup {i} ELSE primary
  /\ UNCHANGED <<agent, job, seen, crossed, odd, faults>>

\* setPrimaryDidAndLedger: the agent's DID, then its ledger.
SetAgentDid(r) ==
  /\ Move(r, "agent", "ledger")
  /\ agent' = [agent EXCEPT !.did = job[r].did]
  /\ UNCHANGED <<did, primary, job, seen, crossed, odd, faults>>

\* Wrong on purpose: the ledger stays.
KeepLedger(r) ==
  /\ Move(r, "ledger", "over")
  /\ UNCHANGED <<tables, job, seen, crossed, odd, faults>>

SetLedger(r) ==
  /\ Move(r, "ledger", "over")
  /\ agent' = [agent EXCEPT !.ledger = NetOf[job[r].did]]
  /\ UNCHANGED <<did, primary, job, seen, crossed, odd, faults>>

-----------------------------------------------------------------------------
\* setPrimaryDid: a DID and the id of a row, which nobody compares.

AskSet(r, d, i) ==
  /\ Move(r, "idle", "match")
  /\ did[i] # "none"
  /\ job' = [job EXCEPT ![r] = [op |-> "set", did |-> d, id |-> i, primary |-> TRUE]]
  /\ crossed' = (crossed \/ Electing # {})
  /\ odd' = (odd \/ did[i] # d)
  /\ UNCHANGED <<tables, seen, faults>>

\* Wrong on purpose: the DID may be anybody's.
MatchAny(r) ==
  /\ agent.did # job[r].did
  /\ Move(r, "match", "previous")
  /\ UNCHANGED <<tables, job, seen, crossed, odd, faults>>

\* The agent's DID is another one and the DID is the organisation's.
MatchDid(r) ==
  /\ agent.did # job[r].did
  /\ job[r].did \in Stored
  /\ Move(r, "match", "previous")
  /\ UNCHANGED <<tables, job, seen, crossed, odd, faults>>

NoMatch(r) ==
  /\ agent.did = job[r].did \/ job[r].did \notin Stored
  /\ Refuse(r, "match")

\* The row that is primary by now, if any.
ReadPrevious(r) ==
  /\ \/ primary = {} /\ seen' = [seen EXCEPT ![r] = {}]
     \/ \E i \in primary : seen' = [seen EXCEPT ![r] = {i}]
  /\ Move(r, "previous", "clear")
  /\ UNCHANGED <<tables, job, crossed, odd, faults>>

DemotePrevious(r) ==
  /\ Move(r, "clear", "promote")
  /\ primary' = primary \ seen[r]
  /\ UNCHANGED <<did, agent, job, seen, crossed, odd, faults>>

\* setOrgsPrimaryDid: the row and the agent in one transaction.
Promote(r) ==
  /\ Move(r, "promote", "over")
  /\ primary' = primary \cup {job[r].id}
  /\ agent' = [did |-> job[r].did, ledger |-> NetOf[job[r].did]]
  /\ UNCHANGED <<did, job, seen, crossed, odd, faults>>

-----------------------------------------------------------------------------
\* A query or the agent fails, no ledger is found, or the service dies.
Fail(r) ==
  /\ r \in Underway
  /\ faults < MaxFaults /\ faults' = faults + 1
  /\ pc' = [pc EXCEPT ![r] = "over"]
  /\ UNCHANGED <<tables, job, seen, crossed, odd>>

Creating(r) ==
  \/ CheckNetwork(r) \/ NetworkMismatch(r) \/ ListDids(r) \/ NewDid(r) \/ DidExists(r)
  \/ DemoteAll(r) \/ SetAgentDid(r) \/ SetLedger(r)
  \/ \E i \in Ids : StoreDid(r, i)

Setting(r) == MatchDid(r) \/ NoMatch(r) \/ ReadPrevious(r) \/ DemotePrevious(r) \/ Promote(r)

Next ==
  \E r \in Requests :
    \/ \E d \in Dids, p \in BOOLEAN : AskCreate(r, d, p)
    \/ \E d \in Dids, i \in Ids : AskSet(r, d, i)
    \/ Creating(r) \/ Setting(r) \/ Fail(r)

Spec == Init /\ [][Next]_vars

-----------------------------------------------------------------------------
TypeOK ==
  /\ did \in [Ids -> Dids \cup {"none"}]
  /\ primary \subseteq Ids
  /\ agent \in [did : Dids, ledger : Ledgers]
  /\ pc \in [Requests -> Pcs]
  /\ job \in [Requests -> [op : {"none", "create", "set"}, did : Dids \cup {"none"},
                           id : Ids \cup {"none"}, primary : BOOLEAN]]
  /\ seen \in [Requests -> SUBSET Ids]
  /\ crossed \in BOOLEAN /\ odd \in BOOLEAN
  /\ faults \in 0..MaxFaults

\* The flag, the agent's DID and the agent's ledger, which two services write
\* in different orders, tell the same story once nobody is at work: unless
\* two elections crossed, one named a row of another DID, or one failed.
OneStory ==
  Electing = {} =>
    \/ crossed \/ odd \/ faults > 0
    \/ \E i \in Rows : primary = {i} /\ agent = [did |-> did[i], ledger |-> NetOf[did[i]]]

\* An organisation is never left without a primary DID by elections that
\* cross, only by one that fails: everybody who demotes promotes later.
SomePrimary == Electing = {} => primary # {} \/ faults > 0

\* The DID the agent goes by is in the table, at any time.
AgentDidStored == agent.did \in Stored

\* However elections of createDid and setPrimaryDid interleave, one DID is
\* primary, and the DID the agent goes by has a row.
PrimaryKept == SomePrimary /\ AgentDidStored
=============================================================================
