--------------------------- MODULE WalletsProofs ---------------------------
(***************************************************************************)
(* What TLAPS proves of the wallets: of OrgDids for any number of DIDs,    *)
(* ledgers, rows and requests, and any number of failures, and of the      *)
(* components that the suite runs besides it, each with an inductive       *)
(* invariant: AgentCalls, CloudWallet, SpinupEvents and AgentPorts.        *)
(***************************************************************************)
EXTENDS Wallets, FiniteSetTheorems, SequenceTheorems, TLAPS

-----------------------------------------------------------------------------
\* The invariants behind the theorems.

\* A request that was made names a DID, and the place it has reached is one of
\* the service it was made to.
JobsFit ==
  \A r \in Requests :
    /\ pc[r] # "idle" => job[r].did \in Dids
    /\ pc[r] \in {"check", "post", "list", "demote", "store", "agent", "ledger"} => job[r].op = "create"
    /\ pc[r] \in {"demote", "agent", "ledger"} => job[r].primary
    /\ pc[r] \in {"match", "previous", "clear", "promote"} =>
         job[r].op = "set" /\ job[r].primary /\ job[r].id \in Rows

\* The agent's DID has a row, and so has the one a request is about to give it.
AgentDidsStored ==
  /\ agent.did \in Stored
  /\ \A r \in Requests :
       pc[r] \in {"agent", "ledger", "previous", "clear", "promote"} => job[r].did \in Stored

\* Where an election has demoted and not yet promoted.
Between(r) == (pc[r] = "store" /\ job[r].primary) \/ pc[r] = "promote"

\* Whoever has demoted is still there to promote, or has failed.
DemotedIsPromoted == faults > 0 \/ primary # {} \/ \E r \in Requests : Between(r)

\* Flag, DID and ledger agree.
Agreed == \E i \in Rows : primary = {i} /\ agent = [did |-> did[i], ledger |-> NetOf[did[i]]]

\* How far an election that is alone has come: nothing changed yet, nobody is
\* primary, or its own row is and the agent follows.
Stage(r) ==
  /\ pc[r] \in {"check", "post", "list", "demote", "match", "previous", "clear"} => Agreed
  /\ pc[r] \in {"list", "demote"} => seen[r] # {}
  /\ pc[r] = "clear" => seen[r] = primary
  /\ Between(r) => primary = {}
  /\ pc[r] \in {"agent", "ledger"} => \E i \in Rows : primary = {i} /\ did[i] = job[r].did
  /\ pc[r] = "ledger" => agent.did = job[r].did
  /\ job[r].op = "set" => did[job[r].id] = job[r].did

\* As long as no two elections have crossed, none has named the row of another
\* DID and none has failed, one is at work at most, and the story is that of
\* its stage.
OneAtWork ==
  crossed \/ odd \/ faults > 0
  \/ /\ \A r, s \in Electing : r = s
     /\ \A r \in Electing : Stage(r)
     /\ Electing = {} => Agreed

-----------------------------------------------------------------------------
\* Type correctness.

\* Every initial state is well typed.
LEMMA InitTypeOK == Init => TypeOK
<1> SUFFICES ASSUME Init PROVE TypeOK
  OBVIOUS
<1>1. PICK i \in Ids, d \in Dids :
        /\ did = [j \in Ids |-> IF j = i THEN d ELSE "none"]
        /\ primary = {i}
        /\ agent = [did |-> d, ledger |-> NetOf[d]]
  BY DEF Init
<1>2. /\ pc \in [Requests -> Pcs]
      /\ job \in [Requests -> [op : {"none", "create", "set"}, did : Dids \cup {"none"},
                               id : Ids \cup {"none"}, primary : BOOLEAN]]
  BY DEF Init, Pcs, NoJob
<1>3. 0 \in 0..MaxFaults
  BY ConstantsAssumption
<1> QED
  BY <1>1, <1>2, <1>3, ConstantsAssumption DEF Init, TypeOK

\* Every step keeps the types; what is written for a request is what it named.
LEMMA NextTypeOK == TypeOK /\ JobsFit /\ [Next]_vars => TypeOK'
<1> SUFFICES ASSUME TypeOK, JobsFit, [Next]_vars PROVE TypeOK'
  OBVIOUS
<1> USE ConstantsAssumption DEF TypeOK, tables, requests
<1>0. CASE UNCHANGED vars
  BY <1>0 DEF vars
<1>1. ASSUME NEW r \in Requests, NEW d \in Dids, NEW p \in BOOLEAN, AskCreate(r, d, p) PROVE TypeOK'
  <2>1. crossed' \in BOOLEAN
    BY <1>1, Zenon DEF AskCreate
  <2> QED
    BY <1>1, <2>1 DEF AskCreate, Move, Pcs
<1>2. ASSUME NEW r \in Requests, NEW d \in Dids, NEW i \in Ids, AskSet(r, d, i) PROVE TypeOK'
  <2>1. crossed' \in BOOLEAN /\ odd' \in BOOLEAN
    BY <1>2, Zenon DEF AskSet
  <2> QED
    BY <1>2, <2>1 DEF AskSet, Move, Pcs
<1>3. ASSUME NEW r \in Requests,
             CheckNetwork(r) \/ NetworkMismatch(r) \/ NewDid(r) \/ DidExists(r) \/ MatchDid(r) \/ NoMatch(r)
      PROVE  TypeOK'
  BY <1>3 DEF CheckNetwork, NetworkMismatch, NewDid, DidExists, MatchDid, NoMatch, Refuse, Move, Pcs
<1>4. ASSUME NEW r \in Requests, ListDids(r) \/ ReadPrevious(r) PROVE TypeOK'
  BY <1>4 DEF ListDids, ReadPrevious, Rows, Move, Pcs
<1>5. ASSUME NEW r \in Requests, DemoteAll(r) \/ DemotePrevious(r) PROVE TypeOK'
  BY <1>5 DEF DemoteAll, DemotePrevious, Move, Pcs
<1>6. ASSUME NEW r \in Requests, NEW i \in Ids, StoreDid(r, i) PROVE TypeOK'
  BY <1>6 DEF StoreDid, Move, Pcs, JobsFit
<1>7. ASSUME NEW r \in Requests, SetAgentDid(r) \/ SetLedger(r) PROVE TypeOK'
  <2>1. job[r].did \in Dids
    BY <1>7 DEF SetAgentDid, SetLedger, Move, JobsFit
  <2> QED
    BY <1>7, <2>1 DEF SetAgentDid, SetLedger, Move, Pcs
<1>8. ASSUME NEW r \in Requests, Promote(r) PROVE TypeOK'
  <2>1. job[r].did \in Dids /\ job[r].id \in Ids
    BY <1>8 DEF Promote, Move, JobsFit, Rows
  <2> QED
    BY <1>8, <2>1 DEF Promote, Move, Pcs
<1>9. ASSUME NEW r \in Requests, Fail(r) PROVE TypeOK'
  BY <1>9 DEF Fail, Pcs
<1> QED
  BY <1>0, <1>1, <1>2, <1>3, <1>4, <1>5, <1>6, <1>7, <1>8, <1>9 DEF Next, Creating, Setting

-----------------------------------------------------------------------------
\* What one step can do.

\* A step of one request.
Act(r) ==
  \/ \E d \in Dids, p \in BOOLEAN : AskCreate(r, d, p)
  \/ \E d \in Dids, i \in Ids : AskSet(r, d, i)
  \/ Creating(r) \/ Setting(r) \/ Fail(r)

\* It leaves the other requests alone.
LEMMA OthersStay ==
  ASSUME TypeOK, NEW r \in Requests, Act(r), NEW s \in Requests \ {r}
  PROVE  pc'[s] = pc[s] /\ job'[s] = job[s] /\ seen'[s] = seen[s]
<1> USE DEF TypeOK, Move, requests
<1>1. CASE \E d \in Dids, p \in BOOLEAN : AskCreate(r, d, p)
  BY <1>1 DEF AskCreate
<1>2. CASE \E d \in Dids, i \in Ids : AskSet(r, d, i)
  BY <1>2 DEF AskSet
<1>3. CASE CheckNetwork(r) \/ NetworkMismatch(r) \/ NewDid(r) \/ DidExists(r) \/ MatchDid(r) \/ NoMatch(r)
  BY <1>3 DEF CheckNetwork, NetworkMismatch, NewDid, DidExists, MatchDid, NoMatch, Refuse
<1>4. CASE ListDids(r) \/ ReadPrevious(r) \/ DemoteAll(r) \/ DemotePrevious(r)
  BY <1>4 DEF ListDids, ReadPrevious, DemoteAll, DemotePrevious
<1>5. CASE (\E i \in Ids : StoreDid(r, i)) \/ SetAgentDid(r) \/ SetLedger(r) \/ Promote(r)
  BY <1>5 DEF StoreDid, SetAgentDid, SetLedger, Promote
<1>6. CASE Fail(r)
  BY <1>6 DEF Fail
<1> QED
  BY <1>1, <1>2, <1>3, <1>4, <1>5, <1>6 DEF Act, Creating, Setting

\* No row is changed or deleted.
LEMMA RowsStay ==
  ASSUME TypeOK, JobsFit, NEW r \in Requests, Act(r)
  PROVE  /\ \A i \in Rows : i \in Rows' /\ did'[i] = did[i]
         /\ \A d \in Stored : d \in Stored'
<1>1. \A i \in Rows : i \in Rows' /\ did'[i] = did[i]
  <2>1. CASE \E i \in Ids : StoreDid(r, i)
    BY <2>1, ConstantsAssumption DEF StoreDid, Move, JobsFit, Rows, TypeOK
  <2>2. CASE ~\E i \in Ids : StoreDid(r, i)
    <3>1. did' = did
      BY <2>2 DEF Act, Creating, Setting, tables, requests, AskCreate, AskSet, CheckNetwork,
                  NetworkMismatch, ListDids, NewDid, DidExists, DemoteAll, SetAgentDid, SetLedger,
                  MatchDid, NoMatch, ReadPrevious, DemotePrevious, Promote, Refuse, Fail
    <3> QED
      BY <3>1 DEF Rows
  <2> QED
    BY <2>1, <2>2
<1> QED
  BY <1>1 DEF Stored

\* Jobs are given when a request is made and not changed.
LEMMA JobsStay ==
  ASSUME TypeOK, NEW r \in Requests, Act(r), pc[r] # "idle"
  PROVE  job' = job /\ pc'[r] # "idle"
<1> USE DEF TypeOK, Move, requests
<1>1. CASE CheckNetwork(r) \/ NetworkMismatch(r) \/ NewDid(r) \/ DidExists(r) \/ MatchDid(r) \/ NoMatch(r)
  BY <1>1 DEF CheckNetwork, NetworkMismatch, NewDid, DidExists, MatchDid, NoMatch, Refuse
<1>2. CASE ListDids(r) \/ ReadPrevious(r) \/ DemoteAll(r) \/ DemotePrevious(r)
  BY <1>2 DEF ListDids, ReadPrevious, DemoteAll, DemotePrevious
<1>3. CASE (\E i \in Ids : StoreDid(r, i)) \/ SetAgentDid(r) \/ SetLedger(r) \/ Promote(r)
  BY <1>3 DEF StoreDid, SetAgentDid, SetLedger, Promote
<1>4. CASE Fail(r)
  BY <1>4 DEF Fail
<1> QED
  BY <1>1, <1>2, <1>3, <1>4 DEF Act, Creating, Setting, AskCreate, AskSet

-----------------------------------------------------------------------------
\* Each part of the invariant holds at first and is kept by every step.

LEMMA InitParts == Init => JobsFit /\ AgentDidsStored /\ DemotedIsPromoted /\ OneAtWork
<1> SUFFICES ASSUME Init
             PROVE  JobsFit /\ AgentDidsStored /\ DemotedIsPromoted /\ OneAtWork
  OBVIOUS
<1>1. PICK i \in Ids, d \in Dids :
        /\ did = [j \in Ids |-> IF j = i THEN d ELSE "none"]
        /\ primary = {i}
        /\ agent = [did |-> d, ledger |-> NetOf[d]]
  BY DEF Init
<1>2. \A r \in Requests : pc[r] = "idle"
  BY DEF Init
<1>3. i \in Rows /\ did[i] = d
  BY <1>1, ConstantsAssumption DEF Rows
<1>4. Electing = {} /\ Agreed
  BY <1>1, <1>2, <1>3 DEF Electing, Underway, Agreed
<1> QED
  BY <1>1, <1>2, <1>3, <1>4 DEF JobsFit, AgentDidsStored, DemotedIsPromoted, OneAtWork, Stored

LEMMA JobsStep ==
  ASSUME TypeOK, JobsFit, [Next]_vars
  PROVE  JobsFit'
<1>0. CASE UNCHANGED vars
  BY <1>0 DEF vars, tables, requests, JobsFit, Rows
<1>1. ASSUME NEW r \in Requests, Act(r) PROVE JobsFit'
  <2> SUFFICES ASSUME NEW s \in Requests
               PROVE  /\ pc'[s] # "idle" => job'[s].did \in Dids
                      /\ pc'[s] \in {"check", "post", "list", "demote", "store", "agent", "ledger"}
                           => job'[s].op = "create"
                      /\ pc'[s] \in {"demote", "agent", "ledger"} => job'[s].primary
                      /\ pc'[s] \in {"match", "previous", "clear", "promote"} =>
                           job'[s].op = "set" /\ job'[s].primary /\ job'[s].id \in Rows'
    BY DEF JobsFit
  <2>1. CASE s # r
    BY <1>1, <2>1, OthersStay, RowsStay DEF JobsFit
  <2>2. CASE s = r /\ pc[r] = "idle"
    BY <1>1, <2>2 DEF Act, Creating, Setting, AskCreate, AskSet, CheckNetwork, NetworkMismatch, ListDids,
         NewDid, DidExists, DemoteAll, StoreDid, SetAgentDid, SetLedger, MatchDid, NoMatch, ReadPrevious,
         DemotePrevious, Promote, Refuse, Fail, Underway, Move, TypeOK, tables, Rows
  <2>3. CASE s = r /\ pc[r] # "idle"
    <3>1. job' = job
      BY <1>1, <2>3, JobsStay
    <3>2. \/ pc[r] = "check" /\ pc'[r] \in {"post", "over"}
          \/ pc[r] = "post" /\ pc'[r] \in {"list", "over"}
          \/ pc[r] = "list" /\ pc'[r] \in {IF job[r].primary THEN "demote" ELSE "store", "over"}
          \/ pc[r] = "demote" /\ pc'[r] \in {"store", "over"}
          \/ pc[r] = "store" /\ pc'[r] \in {IF job[r].primary THEN "agent" ELSE "over", "over"}
          \/ pc[r] = "agent" /\ pc'[r] \in {"ledger", "over"}
          \/ pc[r] = "match" /\ pc'[r] \in {"previous", "over"}
          \/ pc[r] = "previous" /\ pc'[r] \in {"clear", "over"}
          \/ pc[r] = "clear" /\ pc'[r] \in {"promote", "over"}
          \/ pc'[r] = "over"
      BY <1>1, <2>3 DEF Act, Creating, Setting, AskCreate, AskSet, CheckNetwork, NetworkMismatch, ListDids,
           NewDid, DidExists, DemoteAll, StoreDid, SetAgentDid, SetLedger, MatchDid, NoMatch, ReadPrevious,
           DemotePrevious, Promote, Refuse, Fail, Underway, Move, TypeOK
    <3>3. \A i \in Rows : i \in Rows'
      BY <1>1, RowsStay
    <3>4. job[r].primary \in BOOLEAN
      BY DEF TypeOK
    <3> QED
      BY <2>3, <3>1, <3>2, <3>3, <3>4 DEF JobsFit
  <2> QED
    BY <2>1, <2>2, <2>3
<1> QED
  BY <1>0, <1>1 DEF Next, Act

LEMMA AgentDidsStep ==
  ASSUME TypeOK, JobsFit, AgentDidsStored, [Next]_vars
  PROVE  AgentDidsStored'
<1>0. CASE UNCHANGED vars
  BY <1>0 DEF vars, tables, requests, AgentDidsStored, Stored, Rows
<1>1. ASSUME NEW r \in Requests, Act(r) PROVE AgentDidsStored'
  <2>1. agent'.did \in Stored'
    <3>1. CASE SetAgentDid(r) \/ Promote(r)
      BY <1>1, <3>1, RowsStay DEF SetAgentDid, Promote, Move, AgentDidsStored, TypeOK
    <3>2. CASE ~(SetAgentDid(r) \/ Promote(r))
      <4>1. agent'.did = agent.did
        BY <1>1, <3>2 DEF Act, Creating, Setting, tables, requests, AskCreate, AskSet, CheckNetwork,
             NetworkMismatch, ListDids, NewDid, DidExists, DemoteAll, StoreDid, SetLedger, MatchDid,
             NoMatch, ReadPrevious, DemotePrevious, Refuse, Fail, TypeOK
      <4> QED
        BY <1>1, <4>1, RowsStay DEF AgentDidsStored
    <3> QED
      BY <3>1, <3>2
  <2>2. ASSUME NEW s \in Requests, pc'[s] \in {"agent", "ledger", "previous", "clear", "promote"}
        PROVE  job'[s].did \in Stored'
    <3>1. CASE s # r
      BY <1>1, <2>2, <3>1, OthersStay, RowsStay DEF AgentDidsStored
    <3>2. CASE s = r /\ ((\E i \in Ids : StoreDid(r, i)) \/ MatchDid(r))
      <4>1. CASE MatchDid(r)
        BY <1>1, <3>2, <4>1, RowsStay DEF MatchDid
      <4>2. ASSUME NEW i \in Ids, StoreDid(r, i) PROVE job'[r].did \in Stored'
        <5>1. did'[i] = job[r].did /\ job[r].did \in Dids /\ job' = job
          BY <4>2 DEF StoreDid, Move, TypeOK, JobsFit
        <5> QED
          BY <5>1, ConstantsAssumption DEF Stored, Rows
      <4> QED
        BY <3>2, <4>1, <4>2
    <3>3. CASE s = r /\ ~((\E i \in Ids : StoreDid(r, i)) \/ MatchDid(r))
      <4>1. /\ pc[r] \in {"agent", "ledger", "previous", "clear", "promote"}
            /\ job' = job
        BY <1>1, <2>2, <3>3 DEF Act, Creating, Setting, AskCreate, AskSet, CheckNetwork, NetworkMismatch,
             ListDids, NewDid, DidExists, DemoteAll, SetAgentDid, SetLedger, NoMatch, ReadPrevious,
             DemotePrevious, Promote, Refuse, Fail, Move, TypeOK
      <4> QED
        BY <1>1, <3>3, <4>1, RowsStay DEF AgentDidsStored
    <3> QED
      BY <3>1, <3>2, <3>3
  <2> QED
    BY <2>1, <2>2 DEF AgentDidsStored
<1> QED
  BY <1>0, <1>1 DEF Next, Act

LEMMA DemotedStep ==
  ASSUME TypeOK, JobsFit, DemotedIsPromoted, [Next]_vars
  PROVE  DemotedIsPromoted'
<1>0. CASE UNCHANGED vars
  BY <1>0 DEF vars, tables, requests, DemotedIsPromoted, Between
<1>1. ASSUME NEW r \in Requests, Act(r) PROVE DemotedIsPromoted'
  <2>1. CASE Fail(r) \/ faults > 0
    <3>1. faults \in Nat /\ faults' \in {faults, faults + 1}
      BY <1>1, ConstantsAssumption DEF TypeOK, Act, Creating, Setting, AskCreate, AskSet, CheckNetwork,
         NetworkMismatch, ListDids, NewDid, DidExists, DemoteAll, StoreDid, SetAgentDid, SetLedger,
         MatchDid, NoMatch, ReadPrevious, DemotePrevious, Promote, Refuse, Fail
    <3>2. Fail(r) => faults' = faults + 1
      BY DEF Fail
    <3> QED
      BY <2>1, <3>1, <3>2 DEF DemotedIsPromoted
  <2>2. CASE DemoteAll(r) \/ DemotePrevious(r)
    BY <2>2 DEF DemoteAll, DemotePrevious, Move, DemotedIsPromoted, Between, TypeOK, JobsFit
  <2>3. CASE Promote(r) \/ \E i \in Ids : StoreDid(r, i)
    <3>1. primary \subseteq primary'
      BY <2>3 DEF Promote, StoreDid
    <3>2. Between(r) => primary' # {}
      BY <2>3 DEF Promote, StoreDid, Between, Move
    <3>3. ASSUME NEW s \in Requests \ {r}, Between(s) PROVE Between(s)'
      BY <1>1, <3>3, OthersStay DEF Between
    <3>4. faults' = faults
      BY <2>3 DEF Promote, StoreDid
    <3> QED
      BY <3>1, <3>2, <3>3, <3>4 DEF DemotedIsPromoted
  <2>4. CASE ~(Fail(r) \/ DemoteAll(r) \/ DemotePrevious(r) \/ Promote(r) \/ \E i \in Ids : StoreDid(r, i))
             /\ ~(faults > 0)
    <3>1. primary' = primary /\ pc[r] \notin {"store", "promote"}
      BY <1>1, <2>4 DEF Act, Creating, Setting, tables, requests, AskCreate, AskSet, CheckNetwork,
         NetworkMismatch, ListDids, NewDid, DidExists, SetAgentDid, SetLedger, MatchDid, NoMatch,
         ReadPrevious, Refuse, Move
    <3>2. ASSUME NEW s \in Requests, Between(s) PROVE Between(s)'
      BY <1>1, <3>1, <3>2, OthersStay DEF Between
    <3> QED
      BY <2>4, <3>1, <3>2 DEF DemotedIsPromoted
  <2> QED
    BY <2>1, <2>2, <2>3, <2>4
<1> QED
  BY <1>0, <1>1 DEF Next, Act

\* Rows that are added do not change the story.
LEMMA AgreedStays ==
  ASSUME TypeOK, JobsFit, NEW r \in Requests, Act(r), Agreed, primary' = primary, agent' = agent
  PROVE  Agreed'
<1>1. PICK i \in Rows : primary = {i} /\ agent = [did |-> did[i], ledger |-> NetOf[did[i]]]
  BY DEF Agreed
<1>2. i \in Rows' /\ did'[i] = did[i]
  BY RowsStay
<1> QED
  BY <1>1, <1>2 DEF Agreed

\* The stage of an election does not change while others leave flag and agent.
LEMMA StageStays ==
  ASSUME TypeOK, JobsFit, NEW r \in Requests, Act(r), NEW s \in Requests \ {r}, s \in Electing,
         Stage(s), primary' = primary, agent' = agent
  PROVE  Stage(s)'
<1>1. pc'[s] = pc[s] /\ job'[s] = job[s] /\ seen'[s] = seen[s]
  BY OthersStay
<1>2. Agreed => Agreed'
  BY AgreedStays
<1>3. \A i \in Rows : i \in Rows' /\ did'[i] = did[i]
  BY RowsStay
<1>4. job[s].op = "set" => job[s].id \in Ids
  BY DEF Electing, Underway, JobsFit, TypeOK, Pcs, Rows
<1>5. (\E i \in Rows : primary = {i} /\ did[i] = job[s].did)
        => \E i \in Rows' : primary' = {i} /\ did'[i] = job'[s].did
  BY <1>1, <1>3
<1>6. job[s].op = "set" /\ did[job[s].id] = job[s].did => did'[job[s].id] = job[s].did
  BY <1>3, <1>4, ConstantsAssumption DEF Rows, Electing, Underway, JobsFit
<1> QED
  BY <1>1, <1>2, <1>5, <1>6 DEF Stage, Between

LEMMA OneAtWorkStep ==
  ASSUME TypeOK, JobsFit, AgentDidsStored, OneAtWork, [Next]_vars
  PROVE  OneAtWork'
<1>0. CASE UNCHANGED vars
  BY <1>0 DEF vars, tables, requests, OneAtWork, Electing, Underway, Stage, Agreed, Rows, Between
<1>1. ASSUME NEW r \in Requests, Act(r), ~crossed', ~odd', ~(faults' > 0)
      PROVE  /\ \A s, t \in Electing' : s = t
             /\ \A s \in Electing' : Stage(s)'
             /\ Electing' = {} => Agreed'
  <2>1. ~crossed /\ ~odd /\ faults' = faults /\ ~(faults > 0) /\ ~Fail(r)
    <3>1. /\ faults \in Nat
          /\ Fail(r) \/ faults' = faults
          /\ Fail(r) => faults' = faults + 1
      BY <1>1 DEF TypeOK, Act, Creating, Setting, AskCreate, AskSet, CheckNetwork, NetworkMismatch,
         ListDids, NewDid, DidExists, DemoteAll, StoreDid, SetAgentDid, SetLedger, MatchDid, NoMatch,
         ReadPrevious, DemotePrevious, Promote, Refuse, Fail
    <3>2. /\ \A d \in Dids, p \in BOOLEAN : AskCreate(r, d, p) => ~crossed /\ odd' = odd
          /\ \A d \in Dids, i \in Ids : AskSet(r, d, i) => ~crossed /\ ~odd
      BY <1>1, Zenon DEF AskCreate, AskSet
    <3>3. CASE Creating(r) \/ Setting(r) \/ Fail(r)
      BY <1>1, <3>1, <3>3 DEF Creating, Setting, CheckNetwork, NetworkMismatch, ListDids,
         NewDid, DidExists, DemoteAll, StoreDid, SetAgentDid, SetLedger, MatchDid, NoMatch,
         ReadPrevious, DemotePrevious, Promote, Refuse, Fail
    <3> QED
      BY <1>1, <3>1, <3>2, <3>3 DEF Act
  <2>2. /\ \A s, t \in Electing : s = t
        /\ \A s \in Electing : Stage(s)
        /\ Electing = {} => Agreed
    BY <2>1 DEF OneAtWork
  <2>3. \A s \in Requests \ {r} : (s \in Electing') = (s \in Electing)
    BY <1>1, OthersStay DEF Electing, Underway
  \* Its own, or one that leaves flag and agent.
  <2>4. ASSUME primary' = primary, agent' = agent, (r \in Electing') = (r \in Electing),
               r \in Electing' => Stage(r)'
        PROVE  /\ \A s, t \in Electing' : s = t
               /\ \A s \in Electing' : Stage(s)'
               /\ Electing' = {} => Agreed'
    <3>1. Electing' = Electing
      BY <2>3, <2>4 DEF Electing, Underway
    <3>2. \A s \in Electing' : Stage(s)'
      BY <1>1, <2>2, <2>4, <3>1, StageStays DEF Electing, Underway
    <3> QED
      BY <1>1, <2>2, <2>4, <3>1, <3>2, AgreedStays
  <2>5. ASSUME r \in Electing, r \in Electing' => Stage(r)', r \notin Electing' => Agreed'
        PROVE  /\ \A s, t \in Electing' : s = t
               /\ \A s \in Electing' : Stage(s)'
               /\ Electing' = {} => Agreed'
    <3>1. Electing = {r}
      BY <2>2, <2>5
    <3>2. Electing' \subseteq {r}
      BY <2>3, <3>1 DEF Electing, Underway
    <3> QED
      BY <2>5, <3>2
  <2> USE DEF Move, tables, requests
  <2>6. ASSUME NEW d \in Dids, NEW p \in BOOLEAN, AskCreate(r, d, p)
        PROVE  /\ \A s, t \in Electing' : s = t
               /\ \A s \in Electing' : Stage(s)'
               /\ Electing' = {} => Agreed'
    <3>1. /\ primary' = primary /\ agent' = agent /\ did' = did /\ seen' = seen
          /\ pc[r] = "idle" /\ pc'[r] = "check"
          /\ job'[r] = [op |-> "create", did |-> d, id |-> "none", primary |-> p]
      BY <2>6 DEF AskCreate, TypeOK
    <3>2. r \notin Electing /\ (r \in Electing') = p
      BY <3>1 DEF Electing, Underway
    <3>3. CASE p
      <4>1. Electing = {}
        BY <1>1, <2>6, <3>3, Zenon DEF AskCreate
      <4>2. Electing' = {r}
        BY <2>3, <3>2, <3>3, <4>1 DEF Electing, Underway
      <4>3. Agreed'
        BY <1>1, <2>2, <3>1, <4>1, AgreedStays
      <4>4. Stage(r)'
        BY <3>1, <4>3 DEF Stage, Between
      <4> QED
        BY <4>2, <4>4
    <3>4. CASE ~p
      BY <2>4, <3>1, <3>2, <3>4
    <3> QED
      BY <3>3, <3>4
  <2>7. ASSUME NEW d \in Dids, NEW i \in Ids, AskSet(r, d, i)
        PROVE  /\ \A s, t \in Electing' : s = t
               /\ \A s \in Electing' : Stage(s)'
               /\ Electing' = {} => Agreed'
    <3>1. /\ primary' = primary /\ agent' = agent /\ did' = did /\ seen' = seen
          /\ pc[r] = "idle" /\ pc'[r] = "match"
          /\ job'[r] = [op |-> "set", did |-> d, id |-> i, primary |-> TRUE]
      BY <2>7 DEF AskSet, TypeOK
    <3>2. Electing = {} /\ did[i] = d
      BY <1>1, <2>7, Zenon DEF AskSet
    <3>3. Electing' = {r}
      BY <2>3, <3>1, <3>2 DEF Electing, Underway
    <3>4. Agreed'
      BY <1>1, <2>2, <3>1, <3>2, AgreedStays
    <3>5. Stage(r)'
      BY <3>1, <3>2, <3>4 DEF Stage, Between
    <3> QED
      BY <3>3, <3>5
  <2>8. ASSUME pc[r] # "idle", job[r].op # "set", ~job[r].primary, Creating(r) \/ Setting(r)
        PROVE  /\ \A s, t \in Electing' : s = t
               /\ \A s \in Electing' : Stage(s)'
               /\ Electing' = {} => Agreed'
    <3>1. job' = job /\ primary' = primary /\ agent' = agent
      BY <2>8 DEF Creating, Setting, CheckNetwork, NetworkMismatch, ListDids, NewDid, DidExists,
         DemoteAll, StoreDid, SetAgentDid, SetLedger, MatchDid, NoMatch, ReadPrevious, DemotePrevious,
         Promote, Refuse, JobsFit
    <3>2. r \notin Electing /\ r \notin Electing'
      BY <2>8, <3>1 DEF Electing
    <3> QED
      BY <2>4, <3>1, <3>2
  <2>9. ASSUME pc[r] # "idle", job[r].op = "set" \/ job[r].primary, Creating(r) \/ Setting(r)
        PROVE  /\ \A s, t \in Electing' : s = t
               /\ \A s \in Electing' : Stage(s)'
               /\ Electing' = {} => Agreed'
    <3>1. job' = job /\ job[r].did \in Dids
      BY <1>1, <2>9, JobsStay DEF JobsFit
    <3>2. pc[r] # "over"
      BY <2>9 DEF Creating, Setting, CheckNetwork, NetworkMismatch, ListDids, NewDid, DidExists,
         DemoteAll, StoreDid, SetAgentDid, SetLedger, MatchDid, NoMatch, ReadPrevious, DemotePrevious,
         Promote, Refuse
    <3>3. r \in Electing /\ Stage(r)
      BY <2>2, <2>9, <3>2 DEF Electing, Underway
    <3>4. pc'[r] \notin {"idle", "over"} => r \in Electing'
      BY <2>9, <3>1 DEF Electing, Underway
    <3>5. pc'[r] = "over" => r \notin Electing'
      BY DEF Electing, Underway
    <3>6. CASE NetworkMismatch(r) \/ DidExists(r) \/ NoMatch(r)
      <4>1. pc'[r] = "over" /\ primary' = primary /\ agent' = agent /\ Agreed
        BY <3>3, <3>6 DEF NetworkMismatch, DidExists, NoMatch, Refuse, Stage, TypeOK
      <4> QED
        BY <1>1, <2>5, <3>3, <3>5, <4>1, AgreedStays
    <3>7. CASE CheckNetwork(r) \/ NewDid(r) \/ MatchDid(r)
      <4>1. /\ UNCHANGED <<primary, agent, did, seen>> /\ Agreed
            /\ pc[r] \in {"check", "list", "match"}
            /\ pc'[r] = CASE pc[r] = "check" -> "post" [] pc[r] = "match" -> "previous"
                          [] pc[r] = "list" -> "demote"
        BY <2>9, <3>3, <3>7 DEF CheckNetwork, NewDid, MatchDid, Stage, TypeOK, JobsFit
      <4>2. Agreed'
        BY <1>1, <4>1, AgreedStays
      <4>3. Stage(r)'
        BY <3>1, <3>3, <4>1, <4>2 DEF Stage, Between
      <4> QED
        BY <2>5, <3>3, <3>4, <4>1, <4>3
    <3>8. CASE ListDids(r)
      <4>1. /\ UNCHANGED <<primary, agent, did>> /\ Agreed
            /\ pc[r] = "post" /\ pc'[r] = "list" /\ seen'[r] = Rows
        BY <3>3, <3>8 DEF ListDids, Stage, TypeOK
      <4>2. Rows # {}
        BY DEF AgentDidsStored, Stored
      <4>3. Agreed'
        BY <1>1, <4>1, AgreedStays
      <4>4. Stage(r)'
        BY <3>1, <3>3, <4>1, <4>2, <4>3 DEF Stage, Between
      <4> QED
        BY <2>5, <3>3, <3>4, <4>1, <4>4
    <3>9. CASE ReadPrevious(r)
      <4>1. /\ UNCHANGED <<primary, agent, did>> /\ Agreed
            /\ pc[r] = "previous" /\ pc'[r] = "clear"
        BY <3>3, <3>9 DEF ReadPrevious, Stage, TypeOK
      <4>2. seen'[r] = primary
        BY <3>9, <4>1 DEF ReadPrevious, Agreed, TypeOK
      <4>3. Agreed'
        BY <1>1, <4>1, AgreedStays
      <4>4. Stage(r)'
        BY <3>1, <3>3, <4>1, <4>2, <4>3 DEF Stage, Between
      <4> QED
        BY <2>5, <3>3, <3>4, <4>1, <4>4
    <3>10. CASE DemoteAll(r) \/ DemotePrevious(r)
      <4>1. /\ primary' = {} /\ UNCHANGED <<agent, did>>
            /\ pc'[r] \in {"store", "promote"}
        BY <3>3, <3>10 DEF DemoteAll, DemotePrevious, Stage, TypeOK
      <4>2. Stage(r)'
        BY <3>1, <3>3, <4>1 DEF Stage, Between
      <4> QED
        BY <2>5, <3>3, <3>4, <4>1, <4>2
    <3>11. ASSUME NEW i \in Ids, StoreDid(r, i)
           PROVE  /\ \A s, t \in Electing' : s = t
                  /\ \A s \in Electing' : Stage(s)'
                  /\ Electing' = {} => Agreed'
      <4>1. pc[r] = "store" /\ job[r].primary /\ job[r].op = "create"
        BY <2>9, <3>11 DEF StoreDid, JobsFit
      <4>2. /\ primary' = {i} /\ did'[i] = job[r].did /\ i \in Rows'
            /\ pc'[r] = "agent"
        BY <3>1, <3>3, <3>11, <4>1, ConstantsAssumption DEF StoreDid, Stage, Between, TypeOK, Rows
      <4>3. Stage(r)'
        BY <3>1, <4>1, <4>2 DEF Stage, Between
      <4> QED
        BY <2>5, <3>3, <3>4, <4>2, <4>3
    <3>12. CASE SetAgentDid(r)
      <4>1. /\ pc[r] = "agent" /\ pc'[r] = "ledger" /\ UNCHANGED <<primary, did>>
            /\ agent'.did = job[r].did /\ job[r].op = "create"
        BY <3>12 DEF SetAgentDid, TypeOK, JobsFit
      <4>2. \E i \in Rows' : primary' = {i} /\ did'[i] = job'[r].did
        BY <3>1, <3>3, <4>1 DEF Stage, Rows
      <4>3. Stage(r)'
        BY <3>1, <4>1, <4>2 DEF Stage, Between
      <4> QED
        BY <2>5, <3>3, <3>4, <4>1, <4>3
    <3>13. CASE SetLedger(r)
      <4>1. /\ pc[r] = "ledger" /\ pc'[r] = "over" /\ UNCHANGED <<primary, did>>
            /\ agent' = [agent EXCEPT !.ledger = NetOf[job[r].did]]
            /\ agent.did = job[r].did
        BY <3>3, <3>13 DEF SetLedger, TypeOK, Stage
      <4>2. PICK i \in Rows : primary = {i} /\ did[i] = job[r].did
        BY <3>3, <4>1 DEF Stage
      <4>3. agent' = [did |-> did[i], ledger |-> NetOf[did[i]]]
        BY <4>1, <4>2 DEF TypeOK
      <4>4. Agreed'
        BY <4>1, <4>2, <4>3 DEF Agreed, Rows
      <4> QED
        BY <2>5, <3>3, <3>5, <4>1, <4>4
    <3>14. CASE Promote(r)
      <4>1. /\ pc[r] = "promote" /\ pc'[r] = "over" /\ did' = did
            /\ primary' = {job[r].id} /\ did[job[r].id] = job[r].did /\ job[r].id \in Rows
            /\ agent' = [did |-> job[r].did, ledger |-> NetOf[job[r].did]]
        BY <3>3, <3>14 DEF Promote, Stage, Between, TypeOK, JobsFit
      <4>2. Agreed'
        BY <4>1 DEF Agreed, Rows
      <4> QED
        BY <2>5, <3>3, <3>5, <4>1, <4>2
    <3> QED
      BY <2>9, <3>6, <3>7, <3>8, <3>9, <3>10, <3>11, <3>12, <3>13, <3>14 DEF Creating, Setting
  <2>10. Creating(r) \/ Setting(r) => pc[r] # "idle"
    BY DEF Creating, Setting, CheckNetwork, NetworkMismatch, ListDids, NewDid, DidExists,
       DemoteAll, StoreDid, SetAgentDid, SetLedger, MatchDid, NoMatch, ReadPrevious, DemotePrevious,
       Promote, Refuse
  <2> QED
    BY <1>1, <2>1, <2>6, <2>7, <2>8, <2>9, <2>10 DEF Act
<1> QED
  BY <1>0, <1>1 DEF Next, Act, OneAtWork

-----------------------------------------------------------------------------
\* The theorems.

\* The inductive invariant.
IInv ==
  /\ TypeOK /\ JobsFit
  /\ AgentDidsStored
  /\ DemotedIsPromoted
  /\ OneAtWork

LEMMA Invariance == Spec => []IInv
<1>1. Init => IInv
  BY InitTypeOK, InitParts DEF IInv
<1>2. IInv /\ [Next]_vars => IInv'
  BY NextTypeOK, JobsStep, AgentDidsStep, DemotedStep, OneAtWorkStep DEF IInv
<1> QED
  BY <1>1, <1>2, PTL DEF Spec

\* The variables of OrgDids keep their types.
THEOREM TypeCorrect == Spec => []TypeOK
<1>1. IInv => TypeOK
  BY DEF IInv
<1> QED
  BY <1>1, Invariance, PTL

\* The DID the agent goes by has a row at any time, however createDid and
\* setPrimaryDid interleave, fail or die.
THEOREM AgentsDidIsStored == Spec => []AgentDidStored
<1>1. IInv => AgentDidStored
  BY DEF IInv, AgentDidsStored, AgentDidStored
<1> QED
  BY <1>1, Invariance, PTL

\* Elections that cross never leave the organisation without a primary DID;
\* only one that fails between its demotion and its promotion does.
THEOREM SomeDidIsPrimary == Spec => []SomePrimary
<1>1. IInv => SomePrimary
  <2> SUFFICES ASSUME IInv, Electing = {}, primary = {} PROVE faults > 0
    BY DEF SomePrimary
  <2>1. ASSUME NEW r \in Requests, Between(r) PROVE r \in Electing
    BY <2>1 DEF IInv, JobsFit, Between, Electing, Underway
  <2> QED
    BY <2>1 DEF IInv, DemotedIsPromoted
<1> QED
  BY <1>1, Invariance, PTL

\* The flag, the agent's DID and its ledger agree once no election is under
\* way, unless two crossed, one named a row of another DID, or one failed.
THEOREM OneStoryIsTold == Spec => []OneStory
<1>1. IInv => OneStory
  BY DEF IInv, OneAtWork, OneStory, Agreed
<1> QED
  BY <1>1, Invariance, PTL

\* PrimaryKept: one DID is primary, and the one the agent goes by has a row.
THEOREM PrimaryIsKept == Spec => []PrimaryKept
<1>1. SomePrimary /\ AgentDidStored => PrimaryKept
  BY DEF PrimaryKept
<1> QED
  BY <1>1, SomeDidIsPrimary, AgentsDidIsStored, PTL

-----------------------------------------------------------------------------
\* Calls to an agent (AgentCalls): an inductive invariant.

CallTenants == {Calling!Own} \cup [n : Nat, of : Orgs]
CallWallets == [org : Orgs, agent : Agents, tenant : CallTenants]
CallStages  == {"idle", "refused", "read", "tenant", "did", "key", "platform key", "call",
                "shorten", "save", "answered", "failed"}
CallKeys    == {Calling!KeyOf(a) : a \in Agents}
Urls == [type : {"none", "shared", "dedicated"}, agent : Agents \cup {Calling!Nowhere}, tenant : CallTenants]

CallsTyped ==
  /\ times \in [Orgs -> Nat] /\ DOMAIN rows = Orgs
  /\ invitations \in [Orgs -> Seq([n : Nat, wallet : CallWallets])]
  /\ asked \in Plans
  /\ at \in [Calls -> CallStages]
  /\ todo \in [Calls -> SUBSET {"row", "endpoint", "type"}]
  /\ DOMAIN row = Calls
  /\ url \in [Calls -> Urls]
  /\ key \in [Calls -> CallKeys \cup {Calling!NoKey}]
  /\ ownDid \in [Calls -> CallWallets \cup {Calling!NoWallet}]
  /\ made \in [Calls -> CallWallets \cup {Calling!NoWallet}]
  /\ moved \subseteq Calls
  /\ held \in [Agents -> SUBSET Orgs]
  /\ failures \in 0..MaxFaults

\* What organisation o may have for a row.
RowOf(o, r) ==
  \/ r = Calling!NoRow
  \/ r.type = "half" /\ r.n \in Nat /\ r = Calling!Half(r.n)
  \/ /\ Calling!Complete(r) /\ r.agent \in Agents /\ r.n \in Nat
     /\ r = Calling!Row(o, r.type, r.agent, r.n)

\* Rows and wallets: the agent of a dedicated row holds no other organisation's
\* own wallet, and shared rows are at the agent of the platform, until its
\* wallet is deleted.
RowsFit ==
  /\ \A o \in Orgs : RowOf(o, rows[o]) /\ (Calling!Exists(rows[o]) => rows[o].n = times[o])
  /\ \A o \in Orgs : rows[o].type = "dedicated" => o \in held[rows[o].agent]
  /\ times[Platform] = 0 => \A o \in Orgs : rows[o].type = "shared" =>
       Calling!Complete(rows[Platform]) /\ rows[o].agent = rows[Platform].agent

WalletsFit ==
  /\ wallets \subseteq CallWallets
  /\ \A w \in wallets : IF w.tenant = Calling!Own THEN w.org \in held[w.agent] ELSE w.tenant.of = w.org
  /\ \A o \in Orgs : rows[o].type = "dedicated" =>
       \A w \in wallets : w.tenant = Calling!Own /\ w.agent = rows[o].agent => w.org = o

\* What a call has found by the stage it is at.
Reads(c) == Calling!Ops[Calling!op(c)].reads
Uses(c)  == Calling!Ops[Calling!op(c)].uses
Mine(c)  == rows[Calling!org(c)]

Addressed == {"did", "key", "platform key", "call", "shorten", "save"}

UrlOf(c, r) ==
  /\ Calling!Exists(r)
  /\ url[c].type \in Calling!TypeOf(r) /\ url[c].agent = r.agent
  /\ url[c].tenant = IF url[c].type = "shared" THEN r.tenant ELSE Calling!Own

StagesFit(c) ==
  /\ at[c] = "read" => todo[c] \subseteq Reads(c)
  /\ at[c] = "tenant" => Reads(c) = Calling!TwoReads
  /\ at[c] \in {"idle", "read"} => url[c].tenant = Calling!Own
  /\ at[c] = "idle" => ownDid[c] = Calling!NoWallet
  /\ at[c] \in {"shorten", "save"} => Calling!op(c) = "invite"
  /\ at[c] = "call" \/ (at[c] = "did" /\ Uses(c) = "primary") => key[c] \in CallKeys

\* Of one row.
RowRead(c) ==
  Reads(c) = Calling!OneRead /\ at[c] \in Addressed =>
    /\ RowOf(Calling!org(c), row[c]) /\ UrlOf(c, row[c])
    /\ row[c].type = "dedicated" => Calling!org(c) \in held[row[c].agent]
    /\ Calling!Complete(row[c]) => row[c] = Mine(c) \/ row[c].n < times[Calling!org(c)]
    /\ c \notin moved => row[c] = Mine(c)
    /\ at[c] \in {"shorten", "save"} =>
         /\ Calling!Complete(row[c]) /\ made[c] \in CallWallets
         /\ made[c] = row[c].wallet \/ row[c].n < times[Calling!org(c)]

\* Piece by piece, while the wallet stays.
PiecesRead(c) ==
  Reads(c) = Calling!TwoReads /\ c \notin moved =>
    /\ at[c] = "read" /\ "endpoint" \notin todo[c] => Calling!Exists(Mine(c)) /\ url[c].agent = Mine(c).agent
    /\ at[c] = "read" /\ "type" \notin todo[c] => Calling!Exists(Mine(c)) /\ url[c].type \in Calling!TypeOf(Mine(c))
    /\ at[c] = "tenant" => /\ Calling!Exists(Mine(c)) /\ url[c].agent = Mine(c).agent
                           /\ "shared" \in Calling!TypeOf(Mine(c))
    /\ at[c] \in Addressed => UrlOf(c, Mine(c))

\* The key and the DID, while the wallet stays.
KeyRead(c) ==
  c \notin moved =>
    /\ at[c] = "platform key" => Mine(c).type = "shared"
    /\ at[c] = "call" \/ (at[c] = "did" /\ Uses(c) = "primary") =>
         /\ Calling!Complete(Mine(c))
         /\ IF Mine(c).type = "shared"
            THEN Calling!Complete(rows[Platform]) /\ key[c] = Calling!KeyOf(rows[Platform].agent)
            ELSE key[c] = Calling!KeyOf(Mine(c).agent)
    /\ at[c] \notin Calling!Ended /\ ownDid[c] # Calling!NoWallet =>
         Calling!Complete(Mine(c)) /\ ownDid[c] = Mine(c).wallet

CallFits(c) == StagesFit(c) /\ RowRead(c) /\ PiecesRead(c) /\ KeyRead(c)

\* What was done is of calls and wallets there are.
DoneTyped ==
  /\ \A d \in done : d[1] \in Calls /\ d[2] \in CallWallets
  /\ \A m \in sent : m[1] \in Calls /\ m[3] \in CallKeys

CallsInv ==
  /\ CallsTyped /\ RowsFit /\ WalletsFit
  /\ Calling!InvitationsOfWallet
  /\ \A c \in Calls : CallFits(c)
  /\ DoneTyped /\ Calling!OwnWallet /\ Calling!KeyFits /\ Calling!DidIsKnown

LEMMA CallsConstants ==
  /\ Platform \in Orgs /\ Movers \subseteq Orgs /\ MaxFaults \in Nat
  /\ "none" \notin Orgs /\ "none" \notin Agents
  /\ \A f \in Plans : \A c \in Calls : f[c].op \in DOMAIN Calling!Ops /\ f[c].org \in Orgs
<1>1. Calling!ConstantsAssumption
  BY InstancesAssumption
<1> QED
  BY <1>1 DEF Calling!ConstantsAssumption

LEMMA SetupIs ==
  /\ \A o \in Orgs : Setup[o].type \in {"none", "shared", "dedicated"} /\ Setup[o].agent \in Agents
  /\ \A o, q \in Orgs : Setup[o].type = "dedicated" /\ Setup[q].type = "dedicated" /\ o # q
                         => Setup[o].agent # Setup[q].agent
  /\ \A o \in Orgs : Setup[o].type = "shared" =>
       Setup[Platform].type = "dedicated" /\ Setup[o].agent = Setup[Platform].agent
  /\ Setup[Platform].type # "shared"
<1>1. Calling!ConstantsAssumption
  BY InstancesAssumption
<1> QED
  BY <1>1 DEF Calling!ConstantsAssumption

\* The table of the operations.
LEMMA OpsAre ==
  /\ \A o \in DOMAIN Calling!Ops :
       /\ Calling!Ops[o].reads \in {Calling!OneRead, Calling!TwoReads}
       /\ Calling!Ops[o].uses \in {"none", "invitation", "primary"}
       /\ Calling!Ops[o].uses # "none" => Calling!Ops[o].reads = Calling!OneRead
  /\ Calling!Ops["invite"].reads = Calling!OneRead
  /\ Calling!OneRead # Calling!TwoReads /\ "row" \notin Calling!TwoReads
  /\ "endpoint" \notin Calling!OneRead /\ "type" \notin Calling!OneRead
  /\ Calling!OneRead = {"row"} /\ Calling!TwoReads = {"endpoint", "type"}
<1> DEFINE Good(x) == /\ x.reads \in {Calling!OneRead, Calling!TwoReads}
                      /\ x.uses \in {"none", "invitation", "primary"}
                      /\ x.uses # "none" => x.reads = Calling!OneRead
<1>1. \A roles, reads, uses : LET x == Calling!Op(roles, reads, uses)
        IN  x.reads = reads /\ x.uses = uses
  BY DEF Calling!Op
<1>2. Calling!OneRead # Calling!TwoReads
  BY DEF Calling!OneRead, Calling!TwoReads
<1>3. /\ Good(Calling!GetAllConnections) /\ Good(Calling!GetConnection) /\ Good(Calling!GetQuestionRecords)
      /\ Good(Calling!SendQuestion) /\ Good(Calling!SendBasicMessage) /\ Good(Calling!ReceiveInvitationUrl)
      /\ Good(Calling!ReceiveInvitation) /\ Good(Calling!CreateInvitation) /\ Good(Calling!GetProof)
      /\ Good(Calling!GetVerifiedProof) /\ Good(Calling!RequestProof) /\ Good(Calling!VerifyPresentation)
      /\ Good(Calling!RequestProofOob) /\ Good(Calling!GetIssued) /\ Good(Calling!GetSchema)
      /\ Good(Calling!GetCredDef) /\ Good(Calling!CreateCredDef) /\ Good(Calling!GetHealth)
      /\ Good(Calling!SignData) /\ Good(Calling!VerifySignature)
  BY <1>1, <1>2
     DEF Calling!GetAllConnections, Calling!GetConnection, Calling!GetQuestionRecords,
         Calling!SendQuestion, Calling!SendBasicMessage, Calling!ReceiveInvitationUrl,
         Calling!ReceiveInvitation, Calling!CreateInvitation, Calling!GetProof,
         Calling!GetVerifiedProof, Calling!RequestProof, Calling!VerifyPresentation,
         Calling!RequestProofOob, Calling!GetIssued, Calling!GetSchema,
         Calling!GetCredDef, Calling!CreateCredDef, Calling!GetHealth,
         Calling!SignData, Calling!VerifySignature
<1>4. Calling!Ops["invite"] = Calling!CreateInvitation
  BY DEF Calling!Ops
<1>5. Calling!CreateInvitation.reads = Calling!OneRead
  BY <1>1 DEF Calling!CreateInvitation
<1> HIDE DEF Good
<1>6. \A o \in DOMAIN Calling!Ops : Good(Calling!Ops[o])
  BY <1>3 DEF Calling!Ops
<1> USE DEF Good
<1> QED
  BY <1>2, <1>4, <1>5, <1>6 DEF Calling!OneRead, Calling!TwoReads

LEMMA CallOf ==
  ASSUME CallsTyped, NEW c \in Calls
  PROVE  /\ Calling!op(c) \in DOMAIN Calling!Ops /\ Calling!org(c) \in Orgs
         /\ Reads(c) \in {Calling!OneRead, Calling!TwoReads}
         /\ Uses(c) \in {"none", "invitation", "primary"}
         /\ Uses(c) # "none" => Reads(c) = Calling!OneRead
         /\ Calling!op(c) = "invite" => Reads(c) = Calling!OneRead
BY CallsConstants, OpsAre DEF CallsTyped, Calling!op, Calling!org, Reads, Uses

\* Tenants, wallets and rows.
LEMMA OwnIsNoTenant == \A n, o : [n |-> n, of |-> o] # Calling!Own
<1> SUFFICES ASSUME NEW n, NEW o, [n |-> n, of |-> o] = Calling!Own PROVE FALSE
  OBVIOUS
<1>1. "of" \in DOMAIN [n |-> n, of |-> o]
  OBVIOUS
<1>2. "of" \notin DOMAIN [n |-> 0]
  OBVIOUS
<1> QED
  BY <1>1, <1>2 DEF Calling!Own

LEMMA WalletIs ==
  ASSUME NEW o \in Orgs, NEW type \in {"shared", "dedicated"}, NEW a \in Agents, NEW n \in Nat
  PROVE  LET w == Calling!Wallet(o, type, a, n)
         IN  /\ w \in CallWallets /\ w.org = o /\ w.agent = a
             /\ type = "shared" => w.tenant = [n |-> n, of |-> o] /\ w.tenant # Calling!Own
                                    /\ w.tenant.of = o
             /\ type = "dedicated" => w.tenant = Calling!Own
BY OwnIsNoTenant DEF Calling!Wallet, CallWallets, CallTenants

LEMMA RowIs ==
  ASSUME NEW o \in Orgs, NEW type \in {"shared", "dedicated"}, NEW a \in Agents, NEW n \in Nat
  PROVE  LET r == Calling!Row(o, type, a, n)
         IN  /\ r.type = type /\ r.agent = a /\ r.n = n /\ r.wallet = Calling!Wallet(o, type, a, n)
             /\ r.tenant = Calling!Wallet(o, type, a, n).tenant
             /\ Calling!Complete(r) /\ Calling!Exists(r) /\ RowOf(o, r)
BY DEF Calling!Row, Calling!Complete, Calling!Exists, RowOf

LEMMA HalfIs ==
  ASSUME NEW o \in Orgs, NEW n \in Nat
  PROVE  LET r == Calling!Half(n)
         IN  /\ r.type = "half" /\ r.agent = Calling!Nowhere /\ r.n = n /\ r.tenant = Calling!Own
             /\ Calling!Exists(r) /\ ~Calling!Complete(r) /\ RowOf(o, r)
BY DEF Calling!Half, Calling!Exists, Calling!Complete, RowOf

\* What a row of an organisation is.
LEMMA RowOfIs ==
  ASSUME NEW o \in Orgs, NEW r, RowOf(o, r)
  PROVE  /\ r.type \in {"none", "half", "shared", "dedicated"}
         /\ Calling!Exists(r) <=> r # Calling!NoRow
         /\ Calling!Complete(r) => /\ Calling!Exists(r) /\ r.agent \in Agents /\ r.n \in Nat
                                   /\ r.wallet = Calling!Wallet(o, r.type, r.agent, r.n)
                                   /\ r.wallet \in CallWallets /\ r.wallet.org = o /\ r.wallet.agent = r.agent
                                   /\ r.tenant = r.wallet.tenant
                                   /\ r.type = "shared" => r.tenant = [n |-> r.n, of |-> o] /\ r.tenant # Calling!Own
                                   /\ r.type = "dedicated" => r.tenant = Calling!Own
         /\ Calling!Exists(r) /\ ~Calling!Complete(r) =>
              r.agent = Calling!Nowhere /\ r.tenant = Calling!Own /\ r.n \in Nat /\ r.type = "half"
<1>1. CASE r = Calling!NoRow
  BY <1>1 DEF Calling!NoRow, Calling!Exists, Calling!Complete
<1>2. CASE r.type = "half" /\ r.n \in Nat /\ r = Calling!Half(r.n)
  BY <1>2, HalfIs DEF Calling!NoRow
<1>3. CASE /\ Calling!Complete(r) /\ r.agent \in Agents /\ r.n \in Nat
           /\ r = Calling!Row(o, r.type, r.agent, r.n)
  BY <1>3, RowIs, WalletIs DEF Calling!NoRow, Calling!Complete
<1> QED
  BY <1>1, <1>2, <1>3 DEF RowOf

-----------------------------------------------------------------------------
LEMMA CallsInit == Calling!Init => CallsInv
<1> SUFFICES ASSUME Calling!Init PROVE CallsInv
  OBVIOUS
<1>r. \A o \in Orgs : rows[o] = IF Setup[o].type = "none" THEN Calling!NoRow
                                ELSE Calling!Row(o, Setup[o].type, Setup[o].agent, 0)
  BY DEF Calling!Init
<1>t. DOMAIN rows = Orgs /\ times = [o \in Orgs |-> 0]
  BY DEF Calling!Init
<1>w. wallets = {rows[o].wallet : o \in {o \in Orgs : Calling!Exists(rows[o])}}
  BY DEF Calling!Init
<1>h. held = [a \in Agents |-> {o \in Orgs : Setup[o].type = "dedicated" /\ Setup[o].agent = a}]
  BY DEF Calling!Init
<1>m. ASSUME NEW o \in Orgs, Setup[o].type # "none"
      PROVE  /\ rows[o] = Calling!Row(o, Setup[o].type, Setup[o].agent, 0) /\ rows[o].type = Setup[o].type
             /\ rows[o].agent = Setup[o].agent /\ rows[o].n = 0 /\ Calling!Complete(rows[o]) /\ Calling!Exists(rows[o])
             /\ RowOf(o, rows[o])
  BY <1>m, <1>r, SetupIs, RowIs
<1>n. ASSUME NEW o \in Orgs, Setup[o].type = "none"
      PROVE  rows[o] = Calling!NoRow /\ rows[o].type = "none" /\ ~Calling!Exists(rows[o]) /\ RowOf(o, rows[o])
  BY <1>n, <1>r DEF Calling!NoRow, Calling!Exists, RowOf
<1>1. CallsTyped
  <2>1. \A o \in Orgs : invitations[o] = <<>>
    BY DEF Calling!Init
  <2>2. invitations \in [Orgs -> Seq([n : Nat, wallet : CallWallets])]
    BY DEF Calling!Init
  <2>3. url \in [Calls -> Urls]
    <3>1. Calling!NoUrl \in Urls
      BY DEF Calling!NoUrl, Urls, Calling!Own, CallTenants, Calling!Nowhere
    <3> QED
      BY <3>1 DEF Calling!Init
  <2>4. held \in [Agents -> SUBSET Orgs]
    BY <1>h
  <2>5. /\ asked \in Plans /\ at \in [Calls -> CallStages]
        /\ todo \in [Calls -> SUBSET {"row", "endpoint", "type"}] /\ DOMAIN row = Calls
        /\ key \in [Calls -> CallKeys \cup {Calling!NoKey}]
        /\ ownDid \in [Calls -> CallWallets \cup {Calling!NoWallet}]
        /\ made \in [Calls -> CallWallets \cup {Calling!NoWallet}] /\ moved \subseteq Calls
    BY DEF Calling!Init, CallStages
  <2>6. failures \in 0..MaxFaults
    BY CallsConstants DEF Calling!Init
  <2> QED
    BY <1>t, <2>2, <2>3, <2>4, <2>5, <2>6 DEF CallsTyped
<1>2. RowsFit
  <2>1. \A o \in Orgs : RowOf(o, rows[o]) /\ (Calling!Exists(rows[o]) => rows[o].n = times[o])
    BY <1>m, <1>n, <1>t
  <2>2. \A o \in Orgs : rows[o].type = "dedicated" => o \in held[rows[o].agent]
    BY <1>m, <1>n, <1>h, SetupIs
  <2>3. \A o \in Orgs : rows[o].type = "shared" =>
          Calling!Complete(rows[Platform]) /\ rows[o].agent = rows[Platform].agent
    BY <1>m, <1>n, SetupIs, CallsConstants
  <2> QED
    BY <2>1, <2>2, <2>3 DEF RowsFit
<1>3. WalletsFit
  <2>1. ASSUME NEW w \in wallets
        PROVE  \E o \in Orgs : /\ Setup[o].type # "none"
                               /\ w = Calling!Wallet(o, Setup[o].type, Setup[o].agent, 0)
    BY <1>w, <1>m, <1>n, SetupIs, RowIs
  <2>2. ASSUME NEW w \in wallets
        PROVE  /\ w \in CallWallets
               /\ IF w.tenant = Calling!Own
                  THEN w.org \in Orgs /\ Setup[w.org].type = "dedicated" /\ w.agent = Setup[w.org].agent
                  ELSE w.tenant.of = w.org
    <3>1. PICK o \in Orgs : Setup[o].type # "none" /\ w = Calling!Wallet(o, Setup[o].type, Setup[o].agent, 0)
      BY <2>1, <2>2
    <3> DEFINE type == Setup[o].type  a == Setup[o].agent
    <3>2. type \in {"shared", "dedicated"} /\ a \in Agents /\ 0 \in Nat
      BY <3>1, SetupIs
    <3>3. w = Calling!Wallet(o, type, a, 0)
      BY <3>1
    <3> HIDE DEF type, a
    <3>4. /\ w \in CallWallets /\ w.org = o /\ w.agent = a
          /\ type = "shared" => w.tenant # Calling!Own /\ w.tenant.of = o
          /\ type = "dedicated" => w.tenant = Calling!Own
      <4>1. LET v == Calling!Wallet(o, type, a, 0)
            IN  /\ v \in CallWallets /\ v.org = o /\ v.agent = a
                /\ type = "shared" => v.tenant = [n |-> 0, of |-> o] /\ v.tenant # Calling!Own /\ v.tenant.of = o
                /\ type = "dedicated" => v.tenant = Calling!Own
        BY <3>2, WalletIs
      <4> DEFINE v == Calling!Wallet(o, type, a, 0)
      <4>2. /\ v \in CallWallets /\ v.org = o /\ v.agent = a
            /\ type = "shared" => v.tenant # Calling!Own /\ v.tenant.of = o
            /\ type = "dedicated" => v.tenant = Calling!Own
        BY <4>1
      <4>3. w = v
        BY <3>3
      <4> HIDE DEF v
      <4> QED
        BY <4>2, <4>3
    <3> USE DEF type, a
    <3> QED
      BY <3>2, <3>4
  <2>3. \A w \in wallets : IF w.tenant = Calling!Own THEN w.org \in held[w.agent] ELSE w.tenant.of = w.org
    BY <2>2, <1>h, SetupIs
  <2>4. \A o \in Orgs : rows[o].type = "dedicated" =>
          Setup[o].type = "dedicated" /\ rows[o].agent = Setup[o].agent
    BY <1>m, <1>n
  <2>5. \A o \in Orgs : rows[o].type = "dedicated" =>
          \A w \in wallets : w.tenant = Calling!Own /\ w.agent = rows[o].agent => w.org = o
    BY <2>2, <2>4, SetupIs
  <2> QED
    BY <2>2, <2>3, <2>5 DEF WalletsFit
<1>4. Calling!InvitationsOfWallet
  BY DEF Calling!Init, Calling!InvitationsOfWallet
<1>5. \A c \in Calls : CallFits(c)
  BY DEF Calling!Init, CallFits, StagesFit, RowRead, PiecesRead, KeyRead, Addressed, Calling!Ended,
         Calling!NoUrl, Calling!Own
<1>6. DoneTyped /\ Calling!OwnWallet /\ Calling!KeyFits /\ Calling!DidIsKnown
  BY DEF Calling!Init, DoneTyped, Calling!OwnWallet, Calling!KeyFits, Calling!DidIsKnown
<1> QED
  BY <1>1, <1>2, <1>3, <1>4, <1>5, <1>6 DEF CallsInv

-----------------------------------------------------------------------------
\* Wallets come and go: what that does to calls.
Shifts ==
  /\ UNCHANGED <<at, asked, todo, row, url, key, ownDid, made, sent, done, failures>>
  /\ times' \in [Orgs -> Nat] /\ \A o \in Orgs : times[o] <= times'[o]
  /\ moved \subseteq moved' /\ moved' \subseteq Calls
  /\ held' \in [Agents -> SUBSET Orgs] /\ \A a \in Agents : held[a] \subseteq held'[a]
  /\ \A o \in Orgs : Calling!Exists(rows[o]) =>
       \/ rows'[o] = rows[o]
       \/ \A c \in Calls : Calling!OnTheWay(c, o) => c \in moved'
  /\ \A o \in Orgs : Calling!Complete(rows[o]) => rows'[o] = rows[o] \/ times[o] < times'[o]

\* A call that is on its way and not moved finds what was there.
LEMMA Unmoved ==
  ASSUME CallsTyped, RowsFit, Shifts, NEW c \in Calls, c \notin moved', at[c] \notin Calling!Ended
  PROVE  /\ c \notin moved
         /\ Calling!Exists(Mine(c)) => Mine(c)' = Mine(c)
         /\ Calling!Exists(rows[Platform]) => rows'[Platform] = rows[Platform]
<1>1. Calling!org(c) \in Orgs /\ Calling!org(c)' = Calling!org(c)
  BY CallOf DEF Shifts, Calling!org
<1> QED
  BY <1>1, CallsConstants DEF Shifts, Calling!OnTheWay, Mine

LEMMA ShiftKeepsCall ==
  ASSUME CallsTyped, RowsFit, Shifts, NEW c \in Calls, CallFits(c)
  PROVE  CallFits(c)'
<1> DEFINE o == Calling!org(c)
<1>1. /\ Calling!org(c)' = o /\ Calling!op(c)' = Calling!op(c) /\ Reads(c)' = Reads(c) /\ Uses(c)' = Uses(c)
      /\ o \in Orgs
  BY CallOf DEF Shifts, Calling!org, Calling!op, Reads, Uses
<1>2. UNCHANGED <<at[c], todo[c], row[c], url[c], key[c], ownDid[c], made[c]>>
  BY DEF Shifts
<1>3. StagesFit(c)'
  BY <1>1, <1>2 DEF CallFits, StagesFit
<1>4. c \notin moved' /\ at[c] \notin Calling!Ended =>
        /\ c \notin moved
        /\ Calling!Exists(Mine(c)) => Mine(c)' = Mine(c)
        /\ Calling!Exists(rows[Platform]) => rows'[Platform] = rows[Platform]
  BY Unmoved
<1>5. RowOf(o, rows[o]) /\ RowOf(Platform, rows[Platform])
  BY <1>1, CallsConstants DEF RowsFit
<1>6. /\ Calling!Complete(Mine(c)) => Calling!Exists(Mine(c))
      /\ Calling!Complete(rows[Platform]) => Calling!Exists(rows[Platform])
  BY DEF Calling!Complete, Calling!Exists
<1>7. RowRead(c)'
  <2> SUFFICES ASSUME Reads(c) = Calling!OneRead, at[c] \in Addressed
               PROVE  /\ RowOf(o, row[c]) /\ UrlOf(c, row[c])'
                      /\ row[c].type = "dedicated" => o \in held'[row[c].agent]
                      /\ Calling!Complete(row[c]) => row[c] = Mine(c)' \/ row[c].n < times'[o]
                      /\ c \notin moved' => row[c] = Mine(c)'
                      /\ at[c] \in {"shorten", "save"} =>
                           /\ Calling!Complete(row[c]) /\ made[c] \in CallWallets
                           /\ made[c] = row[c].wallet \/ row[c].n < times'[o]
    BY <1>1, <1>2 DEF RowRead
  <2>1. /\ RowOf(o, row[c]) /\ UrlOf(c, row[c])
        /\ row[c].type = "dedicated" => o \in held[row[c].agent]
        /\ Calling!Complete(row[c]) => row[c] = Mine(c) \/ row[c].n < times[o]
        /\ c \notin moved => row[c] = Mine(c)
        /\ at[c] \in {"shorten", "save"} =>
             /\ Calling!Complete(row[c]) /\ made[c] \in CallWallets
             /\ made[c] = row[c].wallet \/ row[c].n < times[o]
    BY DEF CallFits, RowRead
  <2>2. UrlOf(c, row[c])'
    BY <1>2, <2>1 DEF UrlOf
  <2>3. row[c].type = "dedicated" => o \in held'[row[c].agent]
    <3>1. ASSUME row[c].type = "dedicated" PROVE row[c].agent \in Agents
      BY <1>1, <2>1, <3>1, RowOfIs DEF Calling!Complete
    <3>2. \A a \in Agents : held[a] \subseteq held'[a]
      BY DEF Shifts
    <3> QED
      BY <2>1, <3>1, <3>2
  <2>4. times[o] \in Nat /\ times'[o] \in Nat /\ times[o] <= times'[o]
    BY <1>1 DEF Shifts, CallsTyped
  <2>5. Calling!Complete(row[c]) => row[c].n \in Nat
    BY <2>1 DEF RowOf, Calling!Complete, Calling!NoRow
  <2>6. row[c].n < times[o] /\ Calling!Complete(row[c]) => row[c].n < times'[o]
    BY <2>4, <2>5
  <2>7. Calling!Complete(row[c]) => row[c] = Mine(c)' \/ row[c].n < times'[o]
    <3>1. CASE Calling!Complete(row[c]) /\ row[c] = Mine(c)
      <4>1. Mine(c)' = rows'[o] /\ Mine(c) = rows[o]
        BY <1>1 DEF Mine
      <4>2. rows[o].n = times[o]
        BY <1>1, <1>6, <3>1, <4>1 DEF RowsFit
      <4> QED
        BY <1>1, <3>1, <4>1, <4>2 DEF Shifts
    <3> QED
      BY <2>1, <2>6, <3>1
  <2>8. c \notin moved' => row[c] = Mine(c)'
    <3>1. at[c] \notin Calling!Ended
      BY DEF Addressed, Calling!Ended
    <3>2. Calling!Exists(row[c])
      BY <2>1 DEF UrlOf
    <3> QED
      BY <1>4, <2>1, <3>1, <3>2
  <2> QED
    BY <2>1, <2>2, <2>3, <2>6, <2>7, <2>8
<1>8. PiecesRead(c)'
  <2> SUFFICES ASSUME Reads(c) = Calling!TwoReads, c \notin moved', at[c] \in {"read", "tenant"} \cup Addressed
               PROVE  /\ at[c] = "read" /\ "endpoint" \notin todo[c] =>
                           Calling!Exists(Mine(c)') /\ url[c].agent = Mine(c)'.agent
                      /\ at[c] = "read" /\ "type" \notin todo[c] =>
                           Calling!Exists(Mine(c)') /\ url[c].type \in Calling!TypeOf(Mine(c)')
                      /\ at[c] = "tenant" => /\ Calling!Exists(Mine(c)') /\ url[c].agent = Mine(c)'.agent
                                             /\ "shared" \in Calling!TypeOf(Mine(c)')
                      /\ at[c] \in Addressed => UrlOf(c, Mine(c))'
    BY <1>1, <1>2 DEF PiecesRead, Calling!Exists, Calling!TypeOf, Calling!Complete
  <2>1. c \notin moved /\ (Calling!Exists(Mine(c)) => Mine(c)' = Mine(c))
    BY <1>4 DEF Calling!Ended, Addressed
  <2>2. /\ at[c] = "read" /\ "endpoint" \notin todo[c] => Calling!Exists(Mine(c)) /\ url[c].agent = Mine(c).agent
        /\ at[c] = "read" /\ "type" \notin todo[c] => Calling!Exists(Mine(c)) /\ url[c].type \in Calling!TypeOf(Mine(c))
        /\ at[c] = "tenant" => /\ Calling!Exists(Mine(c)) /\ url[c].agent = Mine(c).agent
                               /\ "shared" \in Calling!TypeOf(Mine(c))
        /\ at[c] \in Addressed => UrlOf(c, Mine(c))
    BY <2>1 DEF CallFits, PiecesRead
  <2>3. at[c] \in Addressed => UrlOf(c, Mine(c))'
    <3>1. ASSUME at[c] \in Addressed PROVE UrlOf(c, Mine(c))'
      <4>1. Calling!Exists(Mine(c)) /\ Mine(c)' = Mine(c)
        BY <2>1, <2>2, <3>1 DEF UrlOf
      <4> QED
        BY <1>2, <2>2, <3>1, <4>1 DEF UrlOf
    <3> QED
      BY <3>1
  <2> QED
    BY <2>1, <2>2, <2>3
<1>9. KeyRead(c)'
  <2> SUFFICES ASSUME c \notin moved', at[c] \notin Calling!Ended
               PROVE  /\ at[c] = "platform key" => Mine(c)'.type = "shared"
                      /\ at[c] = "call" \/ (at[c] = "did" /\ Uses(c) = "primary") =>
                           /\ Calling!Complete(Mine(c)')
                           /\ IF Mine(c)'.type = "shared"
                              THEN Calling!Complete(rows'[Platform]) /\ key[c] = Calling!KeyOf(rows'[Platform].agent)
                              ELSE key[c] = Calling!KeyOf(Mine(c)'.agent)
                      /\ ownDid[c] # Calling!NoWallet => Calling!Complete(Mine(c)') /\ ownDid[c] = Mine(c)'.wallet
    BY <1>1, <1>2 DEF KeyRead, Calling!Ended, Calling!Complete, Calling!KeyOf
  <2>1. /\ c \notin moved
        /\ Calling!Exists(Mine(c)) => Mine(c)' = Mine(c)
        /\ Calling!Exists(rows[Platform]) => rows'[Platform] = rows[Platform]
    BY <1>4
  <2>2. /\ at[c] = "platform key" => Mine(c).type = "shared"
        /\ at[c] = "call" \/ (at[c] = "did" /\ Uses(c) = "primary") =>
             /\ Calling!Complete(Mine(c))
             /\ IF Mine(c).type = "shared"
                THEN Calling!Complete(rows[Platform]) /\ key[c] = Calling!KeyOf(rows[Platform].agent)
                ELSE key[c] = Calling!KeyOf(Mine(c).agent)
        /\ ownDid[c] # Calling!NoWallet => Calling!Complete(Mine(c)) /\ ownDid[c] = Mine(c).wallet
    BY <2>1 DEF CallFits, KeyRead
  <2>3. Mine(c).type = "shared" => Calling!Exists(Mine(c))
    BY DEF Calling!Exists
  <2> QED
    BY <1>6, <2>1, <2>2, <2>3
<1> QED
  BY <1>3, <1>7, <1>8, <1>9 DEF CallFits

\* What was done stays right.
LEMMA ShiftKeepsDone ==
  ASSUME CallsTyped, Shifts, DoneTyped, Calling!OwnWallet, Calling!KeyFits, Calling!DidIsKnown
  PROVE  DoneTyped' /\ Calling!OwnWallet' /\ Calling!KeyFits' /\ Calling!DidIsKnown'
<1>1. UNCHANGED <<done, sent>> /\ moved \subseteq moved' /\ \A c : UNCHANGED <<Calling!op(c), Calling!org(c)>>
  BY DEF Shifts, Calling!op, Calling!org
<1>2. \A a \in Agents : held[a] \subseteq held'[a]
  BY DEF Shifts
<1>3. DoneTyped' /\ Calling!DidIsKnown'
  BY <1>1 DEF DoneTyped, Calling!DidIsKnown
<1>4. Calling!OwnWallet'
  <2>1. \A d \in done : d[2].agent \in Agents
    BY DEF DoneTyped, CallWallets
  <2> QED
    BY <1>1, <1>2, <2>1 DEF Calling!OwnWallet
<1>5. Calling!KeyFits'
  <2>1. times[Platform] > 0 => times'[Platform] > 0
    BY CallsConstants DEF Shifts, CallsTyped
  <2> QED
    BY <1>1, <2>1 DEF Calling!KeyFits
<1> QED
  BY <1>3, <1>4, <1>5

-----------------------------------------------------------------------------
\* A wallet is deleted.
LEMMA DeleteFits ==
  ASSUME CallsTyped, RowsFit, WalletsFit, Calling!InvitationsOfWallet, NEW o \in Orgs, Calling!DeleteWallet(o)
  PROVE  Shifts /\ CallsTyped' /\ RowsFit' /\ WalletsFit' /\ Calling!InvitationsOfWallet'
<1>1. /\ Calling!Complete(rows[o])
      /\ rows' = [rows EXCEPT ![o] = Calling!NoRow] /\ times' = [times EXCEPT ![o] = @ + 1]
      /\ invitations' = [invitations EXCEPT ![o] = <<>>]
      /\ moved' = moved \cup {c \in Calls : Calling!OnTheWay(c, o)}
      /\ UNCHANGED <<wallets, held, at, asked, todo, row, url, key, ownDid, made, sent, done, failures>>
  BY DEF Calling!DeleteWallet, Calling!Moves, Calling!calls, Calling!registers
<1>2. times \in [Orgs -> Nat] /\ DOMAIN rows = Orgs
      /\ invitations \in [Orgs -> Seq([n : Nat, wallet : CallWallets])] /\ moved \subseteq Calls
      /\ held \in [Agents -> SUBSET Orgs]
  BY DEF CallsTyped
<1>3. /\ rows'[o] = Calling!NoRow /\ \A q \in Orgs \ {o} : rows'[q] = rows[q] /\ times'[q] = times[q] /\ invitations'[q] = invitations[q]
      /\ times'[o] = times[o] + 1 /\ invitations'[o] = <<>> /\ DOMAIN rows' = Orgs
  BY <1>1, <1>2
<1>4. times' \in [Orgs -> Nat] /\ invitations' \in [Orgs -> Seq([n : Nat, wallet : CallWallets])] /\ moved' \subseteq Calls
  <2>1. times' \in [Orgs -> Nat]
    BY <1>1, <1>2
  <2> DEFINE T == [n : Nat, wallet : CallWallets]  S == Seq(T)
  <2>2. <<>> \in S /\ invitations \in [Orgs -> S]
    <3>1. invitations \in [Orgs -> S]
      BY <1>2
    <3> HIDE DEF T
    <3>2. <<>> \in S
      OBVIOUS
    <3> QED
      BY <3>1, <3>2
  <2> HIDE DEF S
  <2>3. invitations' \in [Orgs -> S]
    BY <1>1, <2>2
  <2>4. moved' \subseteq Calls
    BY <1>1, <1>2
  <2> QED
    BY <2>1, <2>3, <2>4 DEF S
<1>5. ~Calling!Exists(Calling!NoRow) /\ ~Calling!Complete(Calling!NoRow) /\ Calling!NoRow.type = "none"
      /\ \A q : RowOf(q, Calling!NoRow)
  BY DEF Calling!Exists, Calling!Complete, Calling!NoRow, RowOf
<1>6. times[o] \in Nat /\ times'[o] > 0
  <2>1. times[o] \in Nat
    BY <1>2
  <2>2. times'[o] = times[o] + 1
    BY <1>3
  <2> QED
    BY <2>1, <2>2
<1>7. Shifts
  <2>2. times[o] < times'[o]
    <3>1. times'[o] = times[o] + 1
      BY <1>3
    <3> QED
      BY <1>6, <3>1
  <2>1. \A q \in Orgs : times[q] <= times'[q]
    <3>1. times[o] <= times'[o]
      BY <1>2, <1>4, <2>2
    <3>2. ASSUME NEW q \in Orgs, q # o PROVE times[q] <= times'[q]
      <4>1. times'[q] = times[q] /\ times[q] \in Nat
        BY <1>2, <1>3, <3>2
      <4> QED
        BY <4>1
    <3> QED
      BY <3>1, <3>2
  <2> QED
    BY <1>1, <1>2, <1>3, <1>4, <2>1, <2>2 DEF Shifts
<1>8. CallsTyped'
  BY <1>1, <1>3, <1>4 DEF CallsTyped
<1>9. RowsFit'
  <2>1. \A q \in Orgs : RowOf(q, rows'[q]) /\ (Calling!Exists(rows'[q]) => rows'[q].n = times'[q])
    BY <1>3, <1>5 DEF RowsFit
  <2>2. \A q \in Orgs : rows'[q].type = "dedicated" => q \in held'[rows'[q].agent]
    BY <1>1, <1>3, <1>5 DEF RowsFit
  <2>3. times'[Platform] = 0 => \A q \in Orgs : rows'[q].type = "shared" =>
          Calling!Complete(rows'[Platform]) /\ rows'[q].agent = rows'[Platform].agent
    BY <1>3, <1>5, <1>6, CallsConstants DEF RowsFit
  <2>4. \A q : RowOf(q, rows[q])' <=> RowOf(q, rows'[q])
    BY DEF RowOf, Calling!Complete, Calling!NoRow, Calling!Half, Calling!Row, Calling!Wallet, Calling!Own, Calling!NoWallet, Calling!Nowhere
  <2> QED
    BY <2>1, <2>2, <2>3 DEF RowsFit, RowOf, Calling!Exists, Calling!Complete
<1>10. WalletsFit'
  BY <1>1, <1>3, <1>5 DEF WalletsFit
<1>11. Calling!InvitationsOfWallet'
  <2> SUFFICES ASSUME NEW q \in Orgs, NEW i \in 1 .. Len(invitations'[q])
               PROVE  Calling!Complete(rows'[q]) /\ invitations'[q][i].wallet = rows'[q].wallet
    BY DEF Calling!InvitationsOfWallet, Calling!Complete
  <2>1. q # o
    BY <1>3
  <2> QED
    BY <1>3, <2>1 DEF Calling!InvitationsOfWallet
<1> QED
  BY <1>7, <1>8, <1>9, <1>10, <1>11

\* A wallet that is nobody's any more goes.
LEMMA RemoveFits ==
  ASSUME CallsTyped, RowsFit, WalletsFit, Calling!InvitationsOfWallet, NEW w \in wallets, Calling!RemoveWallet(w)
  PROVE  Shifts /\ CallsTyped' /\ RowsFit' /\ WalletsFit' /\ Calling!InvitationsOfWallet'
<1>1. /\ UNCHANGED <<rows, times, invitations, moved, held, at, asked, todo, row, url, key, ownDid, made, sent, done, failures>>
      /\ wallets' \subseteq wallets
  BY DEF Calling!RemoveWallet, Calling!calls, Calling!registers
<1>2. Shifts
  <2>1. \A q \in Orgs : times[q] <= times'[q]
    BY <1>1 DEF CallsTyped
  <2> QED
    BY <1>1, <2>1 DEF Shifts, CallsTyped
<1>3. CallsTyped' /\ RowsFit' /\ Calling!InvitationsOfWallet'
  BY <1>1 DEF CallsTyped, RowsFit, Calling!InvitationsOfWallet
<1>4. WalletsFit'
  BY <1>1 DEF WalletsFit
<1> QED
  BY <1>2, <1>3, <1>4

\* A row without an agent.
LEMMA StartFits ==
  ASSUME CallsTyped, RowsFit, WalletsFit, Calling!InvitationsOfWallet, NEW o \in Orgs, Calling!StartWallet(o)
  PROVE  Shifts /\ CallsTyped' /\ RowsFit' /\ WalletsFit' /\ Calling!InvitationsOfWallet'
<1> DEFINE h == Calling!Half(times[o])
<1>1. /\ rows[o] = Calling!NoRow /\ rows' = [rows EXCEPT ![o] = h]
      /\ UNCHANGED <<times, wallets, invitations, moved, held, at, asked, todo, row, url, key, ownDid, made, sent, done, failures>>
  BY DEF Calling!StartWallet, Calling!calls, Calling!registers
<1>2. times \in [Orgs -> Nat] /\ DOMAIN rows = Orgs /\ times[o] \in Nat
  BY DEF CallsTyped
<1>3. h.type = "half" /\ h.n = times[o] /\ Calling!Exists(h) /\ ~Calling!Complete(h) /\ RowOf(o, h)
  BY <1>2, HalfIs
<1>4. ~Calling!Exists(rows[o]) /\ ~Calling!Complete(rows[o])
  BY <1>1 DEF Calling!Exists, Calling!Complete, Calling!NoRow
<1> HIDE DEF h
<1>5. rows'[o] = h /\ (\A q \in Orgs \ {o} : rows'[q] = rows[q]) /\ DOMAIN rows' = Orgs
  BY <1>1, <1>2
<1>6. Shifts
  <2>1. \A q \in Orgs : times[q] <= times'[q]
    BY <1>1, <1>2
  <2> QED
    BY <1>1, <1>4, <1>5, <2>1 DEF Shifts, CallsTyped
<1>7. CallsTyped'
  BY <1>1, <1>5 DEF CallsTyped
<1>8. RowsFit'
  <2>1. \A q \in Orgs : RowOf(q, rows'[q]) /\ (Calling!Exists(rows'[q]) => rows'[q].n = times'[q])
    BY <1>1, <1>3, <1>5 DEF RowsFit
  <2>2. \A q \in Orgs : rows'[q].type = "dedicated" => q \in held'[rows'[q].agent]
    BY <1>1, <1>3, <1>5 DEF RowsFit
  <2>3. times'[Platform] = 0 => \A q \in Orgs : rows'[q].type = "shared" =>
          Calling!Complete(rows'[Platform]) /\ rows'[q].agent = rows'[Platform].agent
    BY <1>1, <1>3, <1>4, <1>5, CallsConstants DEF RowsFit
  <2> QED
    BY <2>1, <2>2, <2>3 DEF RowsFit, RowOf, Calling!Exists, Calling!Complete
<1>9. WalletsFit'
  BY <1>1, <1>3, <1>5 DEF WalletsFit
<1>10. Calling!InvitationsOfWallet'
  <2> SUFFICES ASSUME NEW q \in Orgs, NEW i \in 1 .. Len(invitations[q])
               PROVE  Calling!Complete(rows'[q]) /\ invitations[q][i].wallet = rows'[q].wallet
    BY <1>1 DEF Calling!InvitationsOfWallet, Calling!Complete
  <2>1. q # o
    BY <1>4 DEF Calling!InvitationsOfWallet
  <2> QED
    BY <1>5, <2>1 DEF Calling!InvitationsOfWallet
<1> QED
  BY <1>6, <1>7, <1>8, <1>9, <1>10

\* A wallet is made.
LEMMA FinishFits ==
  ASSUME CallsTyped, RowsFit, WalletsFit, Calling!InvitationsOfWallet,
         NEW o \in Orgs, NEW type \in {"shared", "dedicated"}, NEW a \in Agents, Calling!FinishWallet(o, type, a)
  PROVE  Shifts /\ CallsTyped' /\ RowsFit' /\ WalletsFit' /\ Calling!InvitationsOfWallet'
<1> DEFINE r == Calling!Row(o, type, a, times[o])  w == Calling!Wallet(o, type, a, times[o])
<1>1. /\ rows[o].type = "half" /\ rows' = [rows EXCEPT ![o] = r] /\ wallets' = wallets \cup {w}
      /\ held' = IF type = "shared" THEN held ELSE [held EXCEPT ![a] = @ \cup {o}]
      /\ moved' = moved \cup {c \in Calls : Calling!OnTheWay(c, o)}
      /\ UNCHANGED <<times, invitations, at, asked, todo, row, url, key, ownDid, made, sent, done, failures>>
  BY DEF Calling!FinishWallet, Calling!Moves, Calling!calls, Calling!registers
<1>2. times \in [Orgs -> Nat] /\ DOMAIN rows = Orgs /\ times[o] \in Nat /\ moved \subseteq Calls /\ held \in [Agents -> SUBSET Orgs]
  BY DEF CallsTyped
<1>3. /\ r.type = type /\ r.agent = a /\ r.n = times[o] /\ r.wallet = w
      /\ Calling!Complete(r) /\ Calling!Exists(r) /\ RowOf(o, r)
  BY <1>2, RowIs
<1>4. /\ w \in CallWallets /\ w.org = o /\ w.agent = a
      /\ type = "shared" => w.tenant # Calling!Own /\ w.tenant.of = o
      /\ type = "dedicated" => w.tenant = Calling!Own
  <2> DEFINE n == times[o]  v == Calling!Wallet(o, type, a, n)
  <2>1. n \in Nat
    BY <1>2
  <2>2. /\ v \in CallWallets /\ v.org = o /\ v.agent = a
        /\ type = "shared" => v.tenant # Calling!Own /\ v.tenant.of = o
        /\ type = "dedicated" => v.tenant = Calling!Own
    <3> HIDE DEF n
    <3>1. LET u == Calling!Wallet(o, type, a, n)
          IN  /\ u \in CallWallets /\ u.org = o /\ u.agent = a
              /\ type = "shared" => u.tenant = [n |-> n, of |-> o] /\ u.tenant # Calling!Own
                                     /\ u.tenant.of = o
              /\ type = "dedicated" => u.tenant = Calling!Own
      BY <2>1, WalletIs
    <3> QED
      BY <3>1
  <2>3. w = v
    OBVIOUS
  <2> HIDE DEF w, v
  <2> QED
    BY <2>2, <2>3
<1>5. type = "shared" => o # Platform /\ Calling!Complete(rows[Platform]) /\ a = rows[Platform].agent
  BY DEF Calling!FinishWallet
<1>6. type = "dedicated" => /\ \A v \in wallets : v.agent # a
                            /\ \A q \in Orgs : Calling!Complete(rows[q]) => rows[q].agent # a
  BY DEF Calling!FinishWallet
<1>7. ~Calling!Complete(rows[o]) /\ Calling!Exists(rows[o])
  BY <1>1 DEF Calling!Exists, Calling!Complete
<1> HIDE DEF r, w
<1>8. rows'[o] = r /\ (\A q \in Orgs \ {o} : rows'[q] = rows[q]) /\ DOMAIN rows' = Orgs
  BY <1>1, <1>2
<1>9. /\ held' \in [Agents -> SUBSET Orgs] /\ (\A b \in Agents : held[b] \subseteq held'[b])
      /\ type = "dedicated" => o \in held'[a]
  BY <1>1, <1>2
<1>10. moved' \subseteq Calls /\ moved \subseteq moved'
  BY <1>1, <1>2
<1>11. Shifts
  <2>1. \A q \in Orgs : times[q] <= times'[q]
    BY <1>1, <1>2
  <2> QED
    BY <1>1, <1>2, <1>7, <1>8, <1>9, <1>10, <2>1 DEF Shifts
<1>12. CallsTyped'
  BY <1>1, <1>8, <1>9, <1>10 DEF CallsTyped
<1>p. \A q \in Orgs : rows[q].type = "dedicated" => Calling!Complete(rows[q]) /\ rows[q].agent \in Agents
  BY RowOfIs DEF RowsFit, Calling!Complete
<1>13. RowsFit'
  <2>1. \A q \in Orgs : RowOf(q, rows'[q]) /\ (Calling!Exists(rows'[q]) => rows'[q].n = times'[q])
    BY <1>1, <1>3, <1>8 DEF RowsFit
  <2>2. \A q \in Orgs : rows'[q].type = "dedicated" => q \in held'[rows'[q].agent]
    BY <1>3, <1>8, <1>9, <1>p DEF RowsFit
  <2>3. times'[Platform] = 0 => \A q \in Orgs : rows'[q].type = "shared" =>
          Calling!Complete(rows'[Platform]) /\ rows'[q].agent = rows'[Platform].agent
    <3> SUFFICES ASSUME times[Platform] = 0, NEW q \in Orgs, rows'[q].type = "shared"
                 PROVE  Calling!Complete(rows'[Platform]) /\ rows'[q].agent = rows'[Platform].agent
      BY <1>1
    <3>1. CASE q = o
      BY <1>3, <1>5, <1>8, <3>1, CallsConstants
    <3>2. CASE q # o
      <4>1. Calling!Complete(rows[Platform]) /\ rows[q].agent = rows[Platform].agent
        BY <1>8, <3>2 DEF RowsFit
      <4> QED
        BY <1>7, <1>8, <3>2, <4>1, CallsConstants
    <3> QED
      BY <3>1, <3>2
  <2> QED
    BY <2>1, <2>2, <2>3 DEF RowsFit, RowOf, Calling!Exists, Calling!Complete
<1>14. WalletsFit'
  <2>1. wallets' \subseteq CallWallets
    BY <1>1, <1>4 DEF WalletsFit
  <2>2. \A v \in wallets : v.agent \in Agents
    BY DEF WalletsFit, CallWallets
  <2>3. \A v \in wallets' : IF v.tenant = Calling!Own THEN v.org \in held'[v.agent] ELSE v.tenant.of = v.org
    BY <1>1, <1>4, <1>9, <2>2 DEF WalletsFit
  <2>4. \A q \in Orgs : rows'[q].type = "dedicated" =>
          \A v \in wallets' : v.tenant = Calling!Own /\ v.agent = rows'[q].agent => v.org = q
    <3> SUFFICES ASSUME NEW q \in Orgs, rows'[q].type = "dedicated", NEW v \in wallets',
                        v.tenant = Calling!Own, v.agent = rows'[q].agent
                 PROVE  v.org = q
      OBVIOUS
    <3>1. CASE q = o
      BY <1>1, <1>3, <1>4, <1>6, <1>8, <3>1
    <3>2. CASE q # o
      <4>1. rows[q].type = "dedicated" /\ rows'[q].agent = rows[q].agent
        BY <1>8, <3>2
      <4>2. v \in wallets => v.org = q
        BY <4>1 DEF WalletsFit
      <4>3. v # w
        BY <1>4, <1>6, <1>p, <4>1
      <4> QED
        BY <1>1, <4>2, <4>3
    <3> QED
      BY <3>1, <3>2
  <2> QED
    BY <2>1, <2>3, <2>4 DEF WalletsFit
<1>15. Calling!InvitationsOfWallet'
  <2> SUFFICES ASSUME NEW q \in Orgs, NEW i \in 1 .. Len(invitations[q])
               PROVE  Calling!Complete(rows'[q]) /\ invitations[q][i].wallet = rows'[q].wallet
    BY <1>1 DEF Calling!InvitationsOfWallet, Calling!Complete
  <2>1. q # o
    BY <1>7 DEF Calling!InvitationsOfWallet
  <2> QED
    BY <1>8, <2>1 DEF Calling!InvitationsOfWallet
<1> QED
  BY <1>11, <1>12, <1>13, <1>14, <1>15

-----------------------------------------------------------------------------
\* The row of the organisation of a call.
LEMMA MineIs ==
  ASSUME CallsTyped, RowsFit, NEW c \in Calls
  PROVE  /\ RowOf(Calling!org(c), Mine(c))
         /\ Calling!Exists(Mine(c)) => Mine(c).agent \in Agents \cup {Calling!Nowhere} /\ Mine(c).tenant \in CallTenants
         /\ Calling!Complete(Mine(c)) => Mine(c).agent \in Agents /\ Mine(c).wallet \in CallWallets
         /\ Calling!TypeOf(Mine(c)) \subseteq {"shared", "dedicated"}
         /\ Calling!Exists(Mine(c)) => Mine(c).n = times[Calling!org(c)]
         /\ Mine(c).type = "dedicated" => Calling!org(c) \in held[Mine(c).agent]
<1> DEFINE o == Calling!org(c)  r == Mine(c)
<1>1. o \in Orgs /\ r = rows[o]
  BY CallOf DEF Mine
<1>2. RowOf(o, r) /\ (Calling!Exists(r) => r.n = times[o]) /\ (r.type = "dedicated" => o \in held[r.agent])
  BY <1>1 DEF RowsFit
<1> HIDE DEF o, r
<1>3. Calling!Exists(r) => r.agent \in Agents \cup {Calling!Nowhere} /\ r.tenant \in CallTenants
  <2>1. CASE Calling!Complete(r)
    BY <1>1, <1>2, <2>1, RowOfIs DEF CallWallets
  <2>2. CASE ~Calling!Complete(r)
    BY <1>1, <1>2, <2>2, RowOfIs DEF CallTenants
  <2> QED
    BY <2>1, <2>2
<1>4. Calling!Complete(r) => r.agent \in Agents /\ r.wallet \in CallWallets
  BY <1>1, <1>2, RowOfIs
<1>5. Calling!TypeOf(r) \subseteq {"shared", "dedicated"}
  BY DEF Calling!TypeOf, Calling!Complete
<1> QED
  BY <1>2, <1>3, <1>4, <1>5 DEF o, r

\* Register f becomes g by the step of call c, or stays.
Sets(f, g, c, S) == g \in [Calls -> S] /\ \A d \in Calls \ {c} : g[d] = f[d]

LEMMA OneSet ==
  ASSUME NEW S, NEW f \in [Calls -> S], NEW c \in Calls
  PROVE  Sets(f, f, c, S) /\ \A x \in S : Sets(f, [f EXCEPT ![c] = x], c, S) /\ [f EXCEPT ![c] = x][c] = x
BY DEF Sets

DidOrNone == CallWallets \cup {Calling!NoWallet}
KeyOrNone == CallKeys \cup {Calling!NoKey}
ToRead    == SUBSET {"row", "endpoint", "type"}

\* What a step of a call leaves alone.
OneCalls(c) ==
  /\ UNCHANGED <<asked, rows, times, wallets, moved, held>>
  /\ Sets(at, at', c, CallStages) /\ Sets(todo, todo', c, ToRead)
  /\ DOMAIN row' = Calls /\ \A d \in Calls \ {c} : row'[d] = row[d]
  /\ Sets(url, url', c, Urls) /\ Sets(key, key', c, KeyOrNone)
  /\ Sets(ownDid, ownDid', c, DidOrNone) /\ Sets(made, made', c, DidOrNone)
  /\ failures' \in 0..MaxFaults

\* Every register may stay as it is, and be set.
LEMMA AtSets ==
  ASSUME CallsTyped, NEW c \in Calls
  PROVE  /\ Sets(at, at, c, CallStages)
         /\ \A x \in CallStages : at' = [at EXCEPT ![c] = x] => Sets(at, at', c, CallStages) /\ at'[c] = x
<1>1. at \in [Calls -> CallStages]
  BY DEF CallsTyped, ToRead, KeyOrNone, DidOrNone
<1>2. Sets(at, at, c, CallStages) /\ \A x \in CallStages : Sets(at, [at EXCEPT ![c] = x], c, CallStages) /\ [at EXCEPT ![c] = x][c] = x
  BY <1>1, OneSet
<1> QED
  BY <1>2

LEMMA TodoSets ==
  ASSUME CallsTyped, NEW c \in Calls
  PROVE  /\ Sets(todo, todo, c, ToRead)
         /\ \A x \in ToRead : todo' = [todo EXCEPT ![c] = x] => Sets(todo, todo', c, ToRead) /\ todo'[c] = x
<1>1. todo \in [Calls -> ToRead]
  BY DEF CallsTyped, ToRead, KeyOrNone, DidOrNone
<1>2. Sets(todo, todo, c, ToRead) /\ \A x \in ToRead : Sets(todo, [todo EXCEPT ![c] = x], c, ToRead) /\ [todo EXCEPT ![c] = x][c] = x
  BY <1>1, OneSet
<1> QED
  BY <1>2

LEMMA UrlSets ==
  ASSUME CallsTyped, NEW c \in Calls
  PROVE  /\ Sets(url, url, c, Urls)
         /\ \A x \in Urls : url' = [url EXCEPT ![c] = x] => Sets(url, url', c, Urls) /\ url'[c] = x
<1>1. url \in [Calls -> Urls]
  BY DEF CallsTyped, ToRead, KeyOrNone, DidOrNone
<1>2. Sets(url, url, c, Urls) /\ \A x \in Urls : Sets(url, [url EXCEPT ![c] = x], c, Urls) /\ [url EXCEPT ![c] = x][c] = x
  BY <1>1, OneSet
<1> QED
  BY <1>2

LEMMA KeySets ==
  ASSUME CallsTyped, NEW c \in Calls
  PROVE  /\ Sets(key, key, c, KeyOrNone)
         /\ \A x \in KeyOrNone : key' = [key EXCEPT ![c] = x] => Sets(key, key', c, KeyOrNone) /\ key'[c] = x
<1>1. key \in [Calls -> KeyOrNone]
  BY DEF CallsTyped, ToRead, KeyOrNone, DidOrNone
<1>2. Sets(key, key, c, KeyOrNone) /\ \A x \in KeyOrNone : Sets(key, [key EXCEPT ![c] = x], c, KeyOrNone) /\ [key EXCEPT ![c] = x][c] = x
  BY <1>1, OneSet
<1> QED
  BY <1>2

LEMMA DidSets ==
  ASSUME CallsTyped, NEW c \in Calls
  PROVE  /\ Sets(ownDid, ownDid, c, DidOrNone)
         /\ \A x \in DidOrNone : ownDid' = [ownDid EXCEPT ![c] = x] => Sets(ownDid, ownDid', c, DidOrNone) /\ ownDid'[c] = x
<1>1. ownDid \in [Calls -> DidOrNone]
  BY DEF CallsTyped, ToRead, KeyOrNone, DidOrNone
<1>2. Sets(ownDid, ownDid, c, DidOrNone) /\ \A x \in DidOrNone : Sets(ownDid, [ownDid EXCEPT ![c] = x], c, DidOrNone) /\ [ownDid EXCEPT ![c] = x][c] = x
  BY <1>1, OneSet
<1> QED
  BY <1>2

LEMMA MadeSets ==
  ASSUME CallsTyped, NEW c \in Calls
  PROVE  /\ Sets(made, made, c, DidOrNone)
         /\ \A x \in DidOrNone : made' = [made EXCEPT ![c] = x] => Sets(made, made', c, DidOrNone) /\ made'[c] = x
<1>1. made \in [Calls -> DidOrNone]
  BY DEF CallsTyped, ToRead, KeyOrNone, DidOrNone
<1>2. Sets(made, made, c, DidOrNone) /\ \A x \in DidOrNone : Sets(made, [made EXCEPT ![c] = x], c, DidOrNone) /\ [made EXCEPT ![c] = x][c] = x
  BY <1>1, OneSet
<1> QED
  BY <1>2

\* The other calls.
LEMMA OtherCall ==
  ASSUME CallsTyped, NEW c \in Calls, OneCalls(c), NEW d \in Calls \ {c}, CallFits(d)
  PROVE  CallFits(d)'
<1>1. /\ UNCHANGED <<asked, rows, times, moved, held>>
      /\ UNCHANGED <<at[d], todo[d], row[d], url[d], key[d], ownDid[d], made[d]>>
  BY DEF OneCalls, Sets
<1>2. StagesFit(d)'
  BY <1>1 DEF CallFits, StagesFit, Reads, Uses, Calling!op
<1>3. RowRead(d)'
  BY <1>1 DEF CallFits, RowRead, UrlOf, Reads, Mine, Calling!op, Calling!org
<1>4. PiecesRead(d)'
  BY <1>1 DEF CallFits, PiecesRead, UrlOf, Reads, Mine, Calling!op, Calling!org
<1>5. KeyRead(d)'
  BY <1>1 DEF CallFits, KeyRead, Uses, Mine, Calling!op, Calling!org
<1> QED
  BY <1>2, <1>3, <1>4, <1>5 DEF CallFits

\* A call that has ended.
LEMMA EndFits ==
  ASSUME NEW c \in Calls, at'[c] \in {"refused", "answered", "failed"}
  PROVE  CallFits(c)'
BY DEF CallFits, StagesFit, RowRead, PiecesRead, KeyRead, Addressed, Calling!Ended

\* What stays while a call makes a step.
LEMMA StepKeeps ==
  ASSUME NEW c \in Calls, UNCHANGED <<asked, rows, times, moved, held>>
  PROVE  /\ Calling!org(c)' = Calling!org(c) /\ Calling!op(c)' = Calling!op(c)
         /\ Reads(c)' = Reads(c) /\ Uses(c)' = Uses(c) /\ Mine(c)' = Mine(c)
BY DEF Calling!org, Calling!op, Reads, Uses, Mine

-----------------------------------------------------------------------------
\* The steps of a call, one by one.

LEMMA AskFits ==
  ASSUME CallsTyped, RowsFit, WalletsFit, Calling!InvitationsOfWallet, NEW c \in Calls, CallFits(c),
         Calling!Ask(c)
  PROVE  OneCalls(c) /\ CallFits(c)' /\ UNCHANGED <<invitations, sent, done>>
<1>1. /\ UNCHANGED <<asked, rows, times, wallets, moved, held, invitations, row, url, key, ownDid, made, sent, done, failures>>
      /\ at[c] = "idle"
      /\ \/ at' = [at EXCEPT ![c] = "read"] /\ todo' = [todo EXCEPT ![c] = Reads(c)]
         \/ at' = [at EXCEPT ![c] = "refused"] /\ UNCHANGED todo
  BY DEF Calling!Ask, Calling!world, Calling!registers, Calling!GoTo, Reads
<1>2. Reads(c) \in ToRead /\ {"read", "refused"} \subseteq CallStages
  BY CallOf, OpsAre DEF ToRead, CallStages
<1>3. OneCalls(c)
  <2>1. Sets(at, at', c, CallStages)
    BY <1>1, <1>2, AtSets
  <2>2. Sets(todo, todo', c, ToRead)
    BY <1>1, <1>2, TodoSets
  <2> QED
    BY <1>1, <2>1, <2>2, AtSets, TodoSets, UrlSets, KeySets, DidSets, MadeSets DEF OneCalls, CallsTyped
<1>4. CallFits(c)'
  <2>1. CASE at' = [at EXCEPT ![c] = "read"] /\ todo' = [todo EXCEPT ![c] = Reads(c)]
    <3>1. at'[c] = "read" /\ todo'[c] = Reads(c) /\ UNCHANGED <<row[c], url[c], key[c], ownDid[c], made[c]>>
      BY <1>1, <1>2, <2>1, AtSets, TodoSets
    <3>2. Reads(c)' = Reads(c) /\ Uses(c)' = Uses(c) /\ Mine(c)' = Mine(c)
      BY <1>1, StepKeeps
    <3>3. url[c].tenant = Calling!Own /\ ownDid[c] = Calling!NoWallet
      BY <1>1 DEF CallFits, StagesFit
    <3>4. StagesFit(c)'
      BY <3>1, <3>2, <3>3 DEF StagesFit
    <3>5. RowRead(c)'
      BY <3>1 DEF RowRead, Addressed
    <3>6. PiecesRead(c)'
      BY <3>1, <3>2, OpsAre DEF PiecesRead, Addressed
    <3>7. KeyRead(c)'
      BY <3>1, <3>3 DEF KeyRead
    <3> QED
      BY <3>4, <3>5, <3>6, <3>7 DEF CallFits
  <2>2. CASE at' = [at EXCEPT ![c] = "refused"]
    BY <1>2, <2>2, AtSets, EndFits
  <2> QED
    BY <1>1, <2>1, <2>2
<1> QED
  BY <1>1, <1>3, <1>4

LEMMA ReadRowFits ==
  ASSUME CallsTyped, RowsFit, WalletsFit, Calling!InvitationsOfWallet, NEW c \in Calls, CallFits(c),
         Calling!ReadRow(c)
  PROVE  OneCalls(c) /\ CallFits(c)' /\ UNCHANGED <<invitations, sent, done>>
<1> DEFINE m == Mine(c)
<1>m. /\ RowOf(Calling!org(c), m) /\ Calling!TypeOf(m) \subseteq {"shared", "dedicated"}
      /\ Calling!Exists(m) => m.agent \in Agents \cup {Calling!Nowhere} /\ m.tenant \in CallTenants
      /\ m.type = "dedicated" => Calling!org(c) \in held[m.agent]
  BY MineIs
<1> HIDE DEF m
<1>1. /\ UNCHANGED <<asked, rows, times, wallets, moved, held, invitations, key, ownDid, made, sent, done, failures>>
      /\ at[c] = "read" /\ "row" \in todo[c] /\ todo' = [todo EXCEPT ![c] = {}]
  BY DEF Calling!ReadRow, Calling!world
<1>2. \/ at' = [at EXCEPT ![c] = "failed"] /\ UNCHANGED <<row, url>>
      \/ /\ Calling!Exists(m) /\ row' = [row EXCEPT ![c] = m]
         /\ \E type \in Calling!TypeOf(m) :
              url' = [url EXCEPT ![c] = Calling!Address(type, m.agent, m.tenant)]
         /\ at' = [at EXCEPT ![c] = Calling!AfterAddress(c)]
  BY DEF Calling!ReadRow, Calling!NoWalletHere, Calling!GoTo, Mine, m
<1>3. Calling!AfterAddress(c) = IF Uses(c) = "invitation" THEN "did" ELSE "key"
  BY DEF Calling!AfterAddress, Uses
<1>4. ASSUME NEW type \in Calling!TypeOf(m), Calling!Exists(m)
      PROVE  Calling!Address(type, m.agent, m.tenant) \in Urls
  BY <1>m, <1>4 DEF Calling!Address, Urls, CallTenants
<1>5. DOMAIN row' = Calls /\ \A d \in Calls \ {c} : row'[d] = row[d]
  BY <1>2 DEF CallsTyped
<1>6. {"failed", "did", "key"} \subseteq CallStages /\ {} \in ToRead
  BY DEF CallStages, ToRead
<1>7. Sets(at, at', c, CallStages)
  BY <1>2, <1>3, <1>6, AtSets
<1>8. Sets(url, url', c, Urls)
  BY <1>2, <1>4, UrlSets
<1>9. OneCalls(c)
  BY <1>1, <1>5, <1>6, <1>7, <1>8, AtSets, TodoSets, UrlSets, KeySets, DidSets, MadeSets DEF OneCalls, CallsTyped
<1>10. CallFits(c)'
  <2>1. CASE at' = [at EXCEPT ![c] = "failed"]
    BY <1>6, <2>1, AtSets, EndFits
  <2>2. CASE /\ Calling!Exists(m) /\ row' = [row EXCEPT ![c] = m]
             /\ \E type \in Calling!TypeOf(m) :
                  url' = [url EXCEPT ![c] = Calling!Address(type, m.agent, m.tenant)]
             /\ at' = [at EXCEPT ![c] = Calling!AfterAddress(c)]
    <3>1. PICK type \in Calling!TypeOf(m) : url' = [url EXCEPT ![c] = Calling!Address(type, m.agent, m.tenant)]
      BY <2>2
    <3>2. url'[c] = Calling!Address(type, m.agent, m.tenant)
      BY <1>4, <2>2, <3>1, UrlSets
    <3>3. row'[c] = m /\ UNCHANGED <<key[c], ownDid[c], made[c]>>
      BY <1>1, <2>2 DEF CallsTyped
    <3>4. at'[c] = IF Uses(c) = "invitation" THEN "did" ELSE "key"
      BY <1>3, <1>6, <2>2, AtSets
    <3>5. Reads(c)' = Reads(c) /\ Uses(c)' = Uses(c) /\ Mine(c)' = m /\ Calling!org(c)' = Calling!org(c)
      BY <1>1, StepKeeps DEF m
    <3>6. Reads(c) = Calling!OneRead /\ Reads(c) # Calling!TwoReads
      BY <1>1, CallOf, OpsAre DEF CallFits, StagesFit
    <3>7. StagesFit(c)'
      BY <3>4, <3>5, <3>6 DEF StagesFit
    <3>8. /\ url'[c].type = type /\ url'[c].agent = m.agent
          /\ url'[c].tenant = IF type = "shared" THEN m.tenant ELSE Calling!Own
      BY <3>2 DEF Calling!Address
    <3>9. UrlOf(c, row[c])' /\ RowOf(Calling!org(c), row'[c])
      BY <1>m, <2>2, <3>1, <3>3, <3>8 DEF UrlOf, Calling!Exists, Calling!TypeOf, Calling!Complete
    <3>10. RowRead(c)'
      BY <1>1, <1>m, <3>3, <3>4, <3>5, <3>9 DEF RowRead
    <3>11. PiecesRead(c)'
      BY <3>5, <3>6 DEF PiecesRead
    <3>12. KeyRead(c)'
      BY <1>1, <3>3, <3>4, <3>5 DEF KeyRead, CallFits, Calling!Ended, m
    <3> QED
      BY <3>7, <3>10, <3>11, <3>12 DEF CallFits
  <2> QED
    BY <1>2, <2>1, <2>2
<1> QED
  BY <1>1, <1>9, <1>10

LEMMA ReadEndpointFits ==
  ASSUME CallsTyped, RowsFit, WalletsFit, Calling!InvitationsOfWallet, NEW c \in Calls, CallFits(c),
         Calling!ReadEndpoint(c)
  PROVE  OneCalls(c) /\ CallFits(c)' /\ UNCHANGED <<invitations, sent, done>>
<1> DEFINE m == Mine(c)
<1>m. /\ Calling!TypeOf(m) \subseteq {"shared", "dedicated"}
      /\ Calling!Exists(m) => m.agent \in Agents \cup {Calling!Nowhere} /\ m.tenant \in CallTenants
  BY MineIs
<1> HIDE DEF m
<1>1. /\ UNCHANGED <<asked, rows, times, wallets, moved, held, invitations, row, key, ownDid, made, sent, done, failures>>
      /\ at[c] = "read" /\ "endpoint" \in todo[c] /\ todo' = [todo EXCEPT ![c] = todo[c] \ {"endpoint"}]
  BY DEF Calling!ReadEndpoint, Calling!world, Calling!Pending, Calling!Finish
<1>2. \/ at' = [at EXCEPT ![c] = "failed"] /\ UNCHANGED url
      \/ /\ Calling!Exists(m) /\ url' = [url EXCEPT ![c] = [url[c] EXCEPT !.agent = m.agent]]
         /\ at' = [at EXCEPT ![c] = Calling!AfterReads(c, "endpoint", url[c].type)]
  BY DEF Calling!ReadEndpoint, Calling!NoWalletHere, Calling!GoTo, Mine, m
<1>3. Calling!AfterReads(c, "endpoint", url[c].type) =
        IF todo[c] # {"endpoint"} THEN "read" ELSE IF url[c].type = "shared" THEN "tenant" ELSE "key"
  BY DEF Calling!AfterReads
<1>4. url[c] \in Urls /\ (Calling!Exists(m) => [url[c] EXCEPT !.agent = m.agent] \in Urls)
  <2>1. url[c] \in Urls
    BY DEF CallsTyped
  <2>2. \A a \in Agents \cup {Calling!Nowhere} : [url[c] EXCEPT !.agent = a] \in Urls
    BY <2>1 DEF Urls
  <2> QED
    BY <1>m, <2>1, <2>2
<1>6. {"failed", "read", "tenant", "key"} \subseteq CallStages /\ todo[c] \ {"endpoint"} \in ToRead
  BY DEF CallStages, ToRead, CallsTyped
<1>7. Sets(at, at', c, CallStages)
  BY <1>2, <1>3, <1>6, AtSets
<1>8. Sets(url, url', c, Urls)
  BY <1>2, <1>4, UrlSets
<1>9. OneCalls(c)
  BY <1>1, <1>6, <1>7, <1>8, AtSets, TodoSets, UrlSets, KeySets, DidSets, MadeSets DEF OneCalls, CallsTyped
<1>10. CallFits(c)'
  <2>1. CASE at' = [at EXCEPT ![c] = "failed"]
    BY <1>6, <2>1, AtSets, EndFits
  <2>2. CASE /\ Calling!Exists(m) /\ url' = [url EXCEPT ![c] = [url[c] EXCEPT !.agent = m.agent]]
             /\ at' = [at EXCEPT ![c] = Calling!AfterReads(c, "endpoint", url[c].type)]
    <3>1. url'[c] = [url[c] EXCEPT !.agent = m.agent]
      BY <1>4, <2>2, UrlSets
    <3>2. url'[c].type = url[c].type /\ url'[c].agent = m.agent /\ url'[c].tenant = url[c].tenant
      BY <1>4, <3>1 DEF Urls
    <3>3. todo'[c] = todo[c] \ {"endpoint"} /\ UNCHANGED <<row[c], key[c], ownDid[c], made[c]>>
      BY <1>1, <1>6, TodoSets
    <3>4. at'[c] = IF todo[c] # {"endpoint"} THEN "read" ELSE IF url[c].type = "shared" THEN "tenant" ELSE "key"
      BY <1>3, <1>6, <2>2, AtSets
    <3>5. Reads(c)' = Reads(c) /\ Uses(c)' = Uses(c) /\ Mine(c)' = m /\ Calling!org(c)' = Calling!org(c)
      BY <1>1, StepKeeps DEF m
    <3>6. Reads(c) = Calling!TwoReads /\ Reads(c) # Calling!OneRead /\ todo[c] \subseteq Reads(c)
          /\ url[c].tenant = Calling!Own
      BY <1>1, CallOf, OpsAre DEF CallFits, StagesFit
    <3>7. StagesFit(c)'
      BY <3>2, <3>3, <3>4, <3>5, <3>6 DEF StagesFit
    <3>8. RowRead(c)'
      BY <3>5, <3>6 DEF RowRead
    <3>9. PiecesRead(c)'
      <4> SUFFICES ASSUME c \notin moved
                   PROVE  /\ at'[c] = "read" /\ "endpoint" \notin todo'[c] => Calling!Exists(m) /\ url'[c].agent = m.agent
                          /\ at'[c] = "read" /\ "type" \notin todo'[c] => Calling!Exists(m) /\ url'[c].type \in Calling!TypeOf(m)
                          /\ at'[c] = "tenant" => /\ Calling!Exists(m) /\ url'[c].agent = m.agent
                                                  /\ "shared" \in Calling!TypeOf(m)
                          /\ at'[c] \in Addressed => UrlOf(c, Mine(c))'
        BY <1>1, <3>5 DEF PiecesRead, Calling!Exists, Calling!TypeOf, Calling!Complete
      <4>1. "type" \notin todo[c] => url[c].type \in Calling!TypeOf(m)
        BY <1>1, <3>6 DEF CallFits, PiecesRead, m
      <4>2. ASSUME at'[c] \in Addressed PROVE UrlOf(c, Mine(c))'
        <5>1. todo[c] = {"endpoint"} /\ url[c].type # "shared"
          BY <3>4, <4>2 DEF Addressed
        <5>2. url'[c].type \in Calling!TypeOf(m) /\ url'[c].type # "shared"
          BY <3>2, <4>1, <5>1
        <5> QED
          BY <2>2, <3>2, <3>5, <3>6, <5>2 DEF UrlOf, Calling!Exists, Calling!TypeOf, Calling!Complete
      <4> QED
        BY <2>2, <3>2, <3>3, <3>4, <4>1, <4>2
    <3>10. KeyRead(c)'
      BY <1>1, <3>3, <3>4, <3>5 DEF KeyRead, CallFits, Calling!Ended, m
    <3> QED
      BY <3>7, <3>8, <3>9, <3>10 DEF CallFits
  <2> QED
    BY <1>2, <2>1, <2>2
<1> QED
  BY <1>1, <1>9, <1>10

LEMMA ReadTypeFits ==
  ASSUME CallsTyped, RowsFit, WalletsFit, Calling!InvitationsOfWallet, NEW c \in Calls, CallFits(c),
         Calling!ReadType(c)
  PROVE  OneCalls(c) /\ CallFits(c)' /\ UNCHANGED <<invitations, sent, done>>
<1> DEFINE m == Mine(c)
<1>m. Calling!TypeOf(m) \subseteq {"shared", "dedicated"}
  BY MineIs
<1> HIDE DEF m
<1>1. /\ UNCHANGED <<asked, rows, times, wallets, moved, held, invitations, row, key, ownDid, made, sent, done, failures>>
      /\ at[c] = "read" /\ "type" \in todo[c] /\ todo' = [todo EXCEPT ![c] = todo[c] \ {"type"}]
  BY DEF Calling!ReadType, Calling!world, Calling!Pending, Calling!Finish
<1>2. \/ at' = [at EXCEPT ![c] = "failed"] /\ UNCHANGED url
      \/ /\ Calling!Exists(m)
         /\ \E type \in Calling!TypeOf(m) :
              /\ url' = [url EXCEPT ![c] = [url[c] EXCEPT !.type = type]]
              /\ at' = [at EXCEPT ![c] = Calling!AfterReads(c, "type", type)]
  BY DEF Calling!ReadType, Calling!NoWalletHere, Calling!GoTo, Mine, m
<1>3. \A type : Calling!AfterReads(c, "type", type) =
        IF todo[c] # {"type"} THEN "read" ELSE IF type = "shared" THEN "tenant" ELSE "key"
  BY DEF Calling!AfterReads
<1>4. url[c] \in Urls /\ \A type \in Calling!TypeOf(m) : [url[c] EXCEPT !.type = type] \in Urls
  <2>1. url[c] \in Urls
    BY DEF CallsTyped
  <2>2. \A type \in {"shared", "dedicated"} : [url[c] EXCEPT !.type = type] \in Urls
    BY <2>1 DEF Urls
  <2> QED
    BY <1>m, <2>1, <2>2
<1>6. {"failed", "read", "tenant", "key"} \subseteq CallStages /\ todo[c] \ {"type"} \in ToRead
  BY DEF CallStages, ToRead, CallsTyped
<1>7. Sets(at, at', c, CallStages)
  BY <1>2, <1>3, <1>6, AtSets
<1>8. Sets(url, url', c, Urls)
  BY <1>2, <1>4, UrlSets
<1>9. OneCalls(c)
  BY <1>1, <1>6, <1>7, <1>8, AtSets, TodoSets, UrlSets, KeySets, DidSets, MadeSets DEF OneCalls, CallsTyped
<1>10. CallFits(c)'
  <2>1. CASE at' = [at EXCEPT ![c] = "failed"]
    BY <1>6, <2>1, AtSets, EndFits
  <2>2. ASSUME Calling!Exists(m), NEW type \in Calling!TypeOf(m),
               url' = [url EXCEPT ![c] = [url[c] EXCEPT !.type = type]],
               at' = [at EXCEPT ![c] = Calling!AfterReads(c, "type", type)]
        PROVE  CallFits(c)'
    <3>1. url'[c] = [url[c] EXCEPT !.type = type]
      BY <1>4, <2>2, UrlSets
    <3>2. url'[c].type = type /\ url'[c].agent = url[c].agent /\ url'[c].tenant = url[c].tenant
      BY <1>4, <3>1 DEF Urls
    <3>3. todo'[c] = todo[c] \ {"type"} /\ UNCHANGED <<row[c], key[c], ownDid[c], made[c]>>
      BY <1>1, <1>6, TodoSets
    <3>4. at'[c] = IF todo[c] # {"type"} THEN "read" ELSE IF type = "shared" THEN "tenant" ELSE "key"
      BY <1>3, <1>6, <2>2, AtSets
    <3>5. Reads(c)' = Reads(c) /\ Uses(c)' = Uses(c) /\ Mine(c)' = m /\ Calling!org(c)' = Calling!org(c)
      BY <1>1, StepKeeps DEF m
    <3>6. Reads(c) = Calling!TwoReads /\ Reads(c) # Calling!OneRead /\ todo[c] \subseteq Reads(c)
          /\ url[c].tenant = Calling!Own
      BY <1>1, CallOf, OpsAre DEF CallFits, StagesFit
    <3>7. StagesFit(c)'
      BY <3>2, <3>3, <3>4, <3>5, <3>6 DEF StagesFit
    <3>8. RowRead(c)'
      BY <3>5, <3>6 DEF RowRead
    <3>9. PiecesRead(c)'
      <4> SUFFICES ASSUME c \notin moved
                   PROVE  /\ at'[c] = "read" /\ "endpoint" \notin todo'[c] => Calling!Exists(m) /\ url'[c].agent = m.agent
                          /\ at'[c] = "read" /\ "type" \notin todo'[c] => Calling!Exists(m) /\ url'[c].type \in Calling!TypeOf(m)
                          /\ at'[c] = "tenant" => /\ Calling!Exists(m) /\ url'[c].agent = m.agent
                                                  /\ "shared" \in Calling!TypeOf(m)
                          /\ at'[c] \in Addressed => UrlOf(c, Mine(c))'
        BY <1>1, <3>5 DEF PiecesRead, Calling!Exists, Calling!TypeOf, Calling!Complete
      <4>1. "endpoint" \notin todo[c] => url[c].agent = m.agent
        BY <1>1, <3>6 DEF CallFits, PiecesRead, m
      <4>2. ASSUME at'[c] \in Addressed PROVE UrlOf(c, Mine(c))'
        <5>1. todo[c] = {"type"} /\ type # "shared"
          BY <3>4, <4>2 DEF Addressed
        <5>2. url'[c].agent = m.agent
          BY <3>2, <4>1, <5>1
        <5> QED
          BY <2>2, <3>2, <3>5, <3>6, <5>1, <5>2 DEF UrlOf, Calling!Exists, Calling!TypeOf, Calling!Complete
      <4> QED
        BY <2>2, <3>2, <3>3, <3>4, <4>1, <4>2
    <3>10. KeyRead(c)'
      BY <1>1, <3>3, <3>4, <3>5 DEF KeyRead, CallFits, Calling!Ended, m
    <3> QED
      BY <3>7, <3>8, <3>9, <3>10 DEF CallFits
  <2> QED
    BY <1>2, <2>1, <2>2
<1> QED
  BY <1>1, <1>9, <1>10

LEMMA ReadTenantFits ==
  ASSUME CallsTyped, RowsFit, WalletsFit, Calling!InvitationsOfWallet, NEW c \in Calls, CallFits(c),
         Calling!ReadTenant(c)
  PROVE  OneCalls(c) /\ CallFits(c)' /\ UNCHANGED <<invitations, sent, done>>
<1> DEFINE m == Mine(c)
<1>m. Calling!Exists(m) => m.agent \in Agents \cup {Calling!Nowhere} /\ m.tenant \in CallTenants
  BY MineIs
<1> HIDE DEF m
<1>1. /\ UNCHANGED <<asked, rows, times, wallets, moved, held, invitations, todo, row, key, ownDid, made, sent, done, failures>>
      /\ at[c] = "tenant"
  BY DEF Calling!ReadTenant, Calling!world
<1>2. \/ at' = [at EXCEPT ![c] = "failed"] /\ UNCHANGED url
      \/ /\ Calling!Exists(m)
         /\ url' = [url EXCEPT ![c] = Calling!Address("shared", url[c].agent, m.tenant)]
         /\ at' = [at EXCEPT ![c] = "key"]
  BY DEF Calling!ReadTenant, Calling!NoWalletHere, Calling!GoTo, Mine, m
<1>4. Calling!Exists(m) => Calling!Address("shared", url[c].agent, m.tenant) \in Urls
  BY <1>m DEF CallsTyped, Urls, Calling!Address
<1>6. {"failed", "key"} \subseteq CallStages
  BY DEF CallStages
<1>7. Sets(at, at', c, CallStages)
  BY <1>2, <1>6, AtSets
<1>8. Sets(url, url', c, Urls)
  BY <1>2, <1>4, UrlSets
<1>9. OneCalls(c)
  BY <1>1, <1>7, <1>8, AtSets, TodoSets, UrlSets, KeySets, DidSets, MadeSets DEF OneCalls, CallsTyped
<1>10. CallFits(c)'
  <2>1. CASE at' = [at EXCEPT ![c] = "failed"]
    BY <1>6, <2>1, AtSets, EndFits
  <2>2. CASE /\ Calling!Exists(m)
             /\ url' = [url EXCEPT ![c] = Calling!Address("shared", url[c].agent, m.tenant)]
             /\ at' = [at EXCEPT ![c] = "key"]
    <3>1. url'[c] = Calling!Address("shared", url[c].agent, m.tenant)
      BY <1>4, <2>2, UrlSets
    <3>2. url'[c].type = "shared" /\ url'[c].agent = url[c].agent /\ url'[c].tenant = m.tenant
      BY <3>1 DEF Calling!Address
    <3>3. UNCHANGED <<todo[c], row[c], key[c], ownDid[c], made[c]>>
      BY <1>1
    <3>4. at'[c] = "key"
      BY <1>6, <2>2, AtSets
    <3>5. Reads(c)' = Reads(c) /\ Uses(c)' = Uses(c) /\ Mine(c)' = m /\ Calling!org(c)' = Calling!org(c)
      BY <1>1, StepKeeps DEF m
    <3>6. Reads(c) = Calling!TwoReads /\ Reads(c) # Calling!OneRead
      BY <1>1, OpsAre DEF CallFits, StagesFit
    <3>7. StagesFit(c)'
      BY <3>4 DEF StagesFit
    <3>8. RowRead(c)'
      BY <3>5, <3>6 DEF RowRead
    <3>9. PiecesRead(c)'
      <4>1. c \notin moved => url[c].agent = m.agent /\ "shared" \in Calling!TypeOf(m)
        BY <1>1, <3>6 DEF CallFits, PiecesRead, m
      <4>2. c \notin moved => UrlOf(c, Mine(c))'
        BY <2>2, <3>2, <3>5, <4>1 DEF UrlOf, Calling!Exists, Calling!TypeOf, Calling!Complete
      <4> QED
        BY <1>1, <3>4, <4>2 DEF PiecesRead
    <3>10. KeyRead(c)'
      BY <1>1, <3>3, <3>4, <3>5 DEF KeyRead, CallFits, Calling!Ended, m
    <3> QED
      BY <3>7, <3>8, <3>9, <3>10 DEF CallFits
  <2> QED
    BY <1>2, <2>1, <2>2
<1> QED
  BY <1>1, <1>9, <1>10

LEMMA ReadInvitationFits ==
  ASSUME CallsTyped, RowsFit, WalletsFit, Calling!InvitationsOfWallet, NEW c \in Calls, CallFits(c),
         Calling!ReadInvitationDid(c)
  PROVE  OneCalls(c) /\ CallFits(c)' /\ UNCHANGED <<invitations, sent, done>>
<1> DEFINE m == Mine(c)  q == invitations[Calling!org(c)]
<1>q. q # <<>> => /\ q[1].wallet \in CallWallets
                  /\ Calling!Complete(m) /\ q[1].wallet = m.wallet
  <2> DEFINE T == [n : Nat, wallet : CallWallets]
  <2>1. q \in Seq(T) /\ Calling!org(c) \in Orgs
    BY CallOf DEF CallsTyped
  <2>2. \A x \in T : x.wallet \in CallWallets
    OBVIOUS
  <2>3. q # <<>> => q[1] \in T /\ 1 \in 1..Len(q)
    <3> HIDE DEF T, q
    <3> QED
      BY <2>1, ElementOfSeq, EmptySeq, LenProperties
  <2>4. \A i \in 1..Len(q) : Calling!Complete(m) /\ q[i].wallet = m.wallet
    BY <2>1 DEF Calling!InvitationsOfWallet, Mine
  <2> QED
    BY <2>2, <2>3, <2>4
<1> HIDE DEF m, q
<1>1. /\ UNCHANGED <<asked, rows, times, wallets, moved, held, invitations, todo, row, url, key, made, sent, done, failures>>
      /\ at[c] = "did" /\ Uses(c) = "invitation" /\ at' = [at EXCEPT ![c] = "key"]
  BY DEF Calling!ReadInvitationDid, Calling!world, Calling!GoTo, Uses
<1>2. \/ ownDid' = [ownDid EXCEPT ![c] = Calling!NoWallet]
      \/ q # <<>> /\ ownDid' = [ownDid EXCEPT ![c] = q[1].wallet]
  BY DEF Calling!ReadInvitationDid, q
<1>4. Calling!NoWallet \in DidOrNone /\ (q # <<>> => q[1].wallet \in DidOrNone)
  BY <1>q DEF DidOrNone
<1>6. "key" \in CallStages
  BY DEF CallStages
<1>7. Sets(at, at', c, CallStages) /\ at'[c] = "key"
  BY <1>1, <1>6, AtSets
<1>8. Sets(ownDid, ownDid', c, DidOrNone) /\ (ownDid'[c] = Calling!NoWallet \/ (q # <<>> /\ ownDid'[c] = q[1].wallet))
  <2>1. CASE ownDid' = [ownDid EXCEPT ![c] = Calling!NoWallet]
    BY <1>4, <2>1, DidSets
  <2>2. CASE q # <<>> /\ ownDid' = [ownDid EXCEPT ![c] = q[1].wallet]
    BY <1>4, <2>2, DidSets
  <2> QED
    BY <1>2, <2>1, <2>2
<1>9. OneCalls(c)
  BY <1>1, <1>7, <1>8, AtSets, TodoSets, UrlSets, KeySets, DidSets, MadeSets DEF OneCalls, CallsTyped
<1>10. CallFits(c)'
  <2>1. Reads(c)' = Reads(c) /\ Uses(c)' = Uses(c) /\ Mine(c)' = m /\ Calling!org(c)' = Calling!org(c)
    BY <1>1, StepKeeps DEF m
  <2>2. Reads(c) = Calling!OneRead /\ Reads(c) # Calling!TwoReads
    BY <1>1, CallOf, OpsAre
  <2>3. StagesFit(c)'
    BY <1>7 DEF StagesFit
  <2>4. /\ RowOf(Calling!org(c), row[c]) /\ UrlOf(c, row[c])
        /\ row[c].type = "dedicated" => Calling!org(c) \in held[row[c].agent]
        /\ Calling!Complete(row[c]) => row[c] = m \/ row[c].n < times[Calling!org(c)]
        /\ c \notin moved => row[c] = m
    BY <1>1, <2>2 DEF CallFits, RowRead, Addressed, m
  <2>5. RowRead(c)'
    BY <1>1, <1>7, <2>1, <2>4 DEF RowRead, UrlOf
  <2>6. PiecesRead(c)'
    BY <2>1, <2>2 DEF PiecesRead
  <2>7. KeyRead(c)'
    BY <1>q, <1>7, <1>8, <2>1 DEF KeyRead, Calling!Complete
  <2> QED
    BY <2>3, <2>5, <2>6, <2>7 DEF CallFits
<1> QED
  BY <1>1, <1>9, <1>10

\* A call that goes on with the address it has.
LEMMA AddressStays ==
  ASSUME CallsTyped, NEW c \in Calls, CallFits(c), UNCHANGED <<asked, rows, times, moved, held, row, url>>,
         at[c] \in Addressed, at'[c] \in Addressed \ {"shorten", "save"}
  PROVE  RowRead(c)' /\ PiecesRead(c)'
<1> DEFINE m == Mine(c)
<1>1. Reads(c)' = Reads(c) /\ Uses(c)' = Uses(c) /\ Mine(c)' = m /\ Calling!org(c)' = Calling!org(c)
  BY StepKeeps
<1>2. RowRead(c)'
  <2>1. Reads(c) = Calling!OneRead =>
          /\ RowOf(Calling!org(c), row[c]) /\ UrlOf(c, row[c])
          /\ row[c].type = "dedicated" => Calling!org(c) \in held[row[c].agent]
          /\ Calling!Complete(row[c]) => row[c] = m \/ row[c].n < times[Calling!org(c)]
          /\ c \notin moved => row[c] = m
    BY DEF CallFits, RowRead
  <2> HIDE DEF m
  <2> QED
    BY <1>1, <2>1 DEF RowRead, UrlOf
<1>3. PiecesRead(c)'
  <2>1. Reads(c) = Calling!TwoReads /\ c \notin moved => UrlOf(c, m)
    BY DEF CallFits, PiecesRead
  <2>2. Reads(c) = Calling!TwoReads /\ c \notin moved => UrlOf(c, Mine(c))'
    BY <1>1, <2>1 DEF UrlOf, Calling!Exists, Calling!TypeOf, Calling!Complete
  <2> QED
    BY <1>1, <2>2 DEF PiecesRead, Addressed
<1> QED
  BY <1>2, <1>3

\* A call that has its key.
LEMMA KeyNow ==
  ASSUME NEW c \in Calls, NEW m, Mine(c)' = m, UNCHANGED moved, at'[c] \in {"did", "call"},
         c \notin moved =>
           /\ Calling!Complete(m)
           /\ IF m.type = "shared"
              THEN Calling!Complete(rows'[Platform]) /\ key'[c] = Calling!KeyOf(rows'[Platform].agent)
              ELSE key'[c] = Calling!KeyOf(m.agent)
           /\ ownDid'[c] # Calling!NoWallet => ownDid'[c] = m.wallet
  PROVE  KeyRead(c)'
BY DEF KeyRead, Calling!Complete, Calling!KeyOf

LEMMA ReadKeyFits ==
  ASSUME CallsTyped, RowsFit, WalletsFit, Calling!InvitationsOfWallet, NEW c \in Calls, CallFits(c),
         Calling!ReadKey(c)
  PROVE  OneCalls(c) /\ CallFits(c)' /\ UNCHANGED <<invitations, sent, done>>
<1> DEFINE m == Mine(c)
<1>m. /\ Calling!Complete(m) => m.agent \in Agents
      /\ Calling!Complete(m) <=> m.type \in {"shared", "dedicated"}
  BY MineIs DEF Calling!Complete
<1> HIDE DEF m
<1>1. /\ UNCHANGED <<asked, rows, times, wallets, moved, held, invitations, todo, row, url, ownDid, made, sent, done, failures>>
      /\ at[c] = "key"
  BY DEF Calling!ReadKey, Calling!world
<1>2. \/ at' = [at EXCEPT ![c] = "failed"] /\ UNCHANGED key
      \/ m.type = "shared" /\ at' = [at EXCEPT ![c] = "platform key"] /\ UNCHANGED key
      \/ /\ Calling!Complete(m) /\ m.type # "shared" /\ at' = [at EXCEPT ![c] = Calling!AfterKey(c)]
         /\ key' = [key EXCEPT ![c] = Calling!KeyOf(m.agent)]
  BY DEF Calling!ReadKey, Calling!GoTo, Calling!NeedsPlatformKey, Mine, m
<1>3. Calling!AfterKey(c) = IF Uses(c) = "primary" THEN "did" ELSE "call"
  BY DEF Calling!AfterKey, Uses
<1>4. Calling!Complete(m) => Calling!KeyOf(m.agent) \in KeyOrNone /\ Calling!KeyOf(m.agent) \in CallKeys
  BY <1>m DEF KeyOrNone, CallKeys
<1>6. {"failed", "platform key", "did", "call"} \subseteq CallStages
  BY DEF CallStages
<1>7. Sets(at, at', c, CallStages)
  BY <1>2, <1>3, <1>6, AtSets
<1>8. Sets(key, key', c, KeyOrNone)
  BY <1>2, <1>4, KeySets
<1>9. OneCalls(c)
  BY <1>1, <1>7, <1>8, AtSets, TodoSets, UrlSets, KeySets, DidSets, MadeSets DEF OneCalls, CallsTyped
<1>10. CallFits(c)'
  <2>0. Reads(c)' = Reads(c) /\ Uses(c)' = Uses(c) /\ Mine(c)' = m /\ Calling!org(c)' = Calling!org(c)
    BY <1>1, StepKeeps DEF m
  <2>d. at[c] \notin Calling!Ended /\ (c \notin moved /\ ownDid[c] # Calling!NoWallet =>
                                         Calling!Complete(m) /\ ownDid[c] = m.wallet)
    BY <1>1 DEF CallFits, KeyRead, Calling!Ended, m
  <2>1. CASE at' = [at EXCEPT ![c] = "failed"]
    BY <1>6, <2>1, AtSets, EndFits
  <2>2. CASE m.type = "shared" /\ at' = [at EXCEPT ![c] = "platform key"] /\ UNCHANGED key
    <3>1. at'[c] = "platform key"
      BY <1>6, <2>2, AtSets
    <3>2. StagesFit(c)'
      BY <3>1 DEF StagesFit
    <3>3. RowRead(c)' /\ PiecesRead(c)'
      BY <1>1, <3>1, AddressStays DEF Addressed
    <3>4. KeyRead(c)'
      BY <1>1, <2>0, <2>d, <2>2, <3>1 DEF KeyRead, Calling!Complete
    <3> QED
      BY <3>2, <3>3, <3>4 DEF CallFits
  <2>3. CASE /\ Calling!Complete(m) /\ m.type # "shared" /\ at' = [at EXCEPT ![c] = Calling!AfterKey(c)]
             /\ key' = [key EXCEPT ![c] = Calling!KeyOf(m.agent)]
    <3>1. at'[c] = IF Uses(c) = "primary" THEN "did" ELSE "call"
      BY <1>3, <1>6, <2>3, AtSets
    <3>2. key'[c] = Calling!KeyOf(m.agent) /\ key'[c] \in CallKeys
      BY <1>4, <2>3, KeySets
    <3>3. StagesFit(c)'
      BY <3>1, <3>2 DEF StagesFit, CallKeys
    <3>4. RowRead(c)' /\ PiecesRead(c)'
      BY <1>1, <3>1, AddressStays DEF Addressed
    <3>5. KeyRead(c)'
      <4>1. at'[c] \in {"did", "call"} /\ UNCHANGED <<moved, ownDid[c]>>
        BY <1>1, <3>1
      <4>2. c \notin moved /\ ownDid[c] # Calling!NoWallet => ownDid[c] = m.wallet
        BY <2>d
      <4> QED
        BY <2>0, <2>3, <3>2, <4>1, <4>2, KeyNow
    <3> QED
      BY <3>3, <3>4, <3>5 DEF CallFits
  <2> QED
    BY <1>2, <2>1, <2>2, <2>3
<1> QED
  BY <1>1, <1>9, <1>10

LEMMA ReadPlatformKeyFits ==
  ASSUME CallsTyped, RowsFit, WalletsFit, Calling!InvitationsOfWallet, NEW c \in Calls, CallFits(c),
         Calling!ReadPlatformKey(c)
  PROVE  OneCalls(c) /\ CallFits(c)' /\ UNCHANGED <<invitations, sent, done>>
<1> DEFINE m == Mine(c)  p == rows[Platform]
<1>m. /\ Calling!Complete(p) => p.agent \in Agents
      /\ m.type = "shared" => Calling!Complete(m)
  BY RowOfIs, CallsConstants DEF RowsFit, Calling!Complete
<1> HIDE DEF m, p
<1>1. /\ UNCHANGED <<asked, rows, times, wallets, moved, held, invitations, todo, row, url, ownDid, made, sent, done, failures>>
      /\ at[c] = "platform key"
  BY DEF Calling!ReadPlatformKey, Calling!world
<1>2. \/ at' = [at EXCEPT ![c] = "failed"] /\ UNCHANGED key
      \/ /\ Calling!Complete(p) /\ at' = [at EXCEPT ![c] = Calling!AfterKey(c)]
         /\ key' = [key EXCEPT ![c] = Calling!KeyOf(p.agent)]
  BY DEF Calling!ReadPlatformKey, Calling!GoTo, Calling!HasKey, p
<1>3. Calling!AfterKey(c) = IF Uses(c) = "primary" THEN "did" ELSE "call"
  BY DEF Calling!AfterKey, Uses
<1>4. Calling!Complete(p) => Calling!KeyOf(p.agent) \in KeyOrNone /\ Calling!KeyOf(p.agent) \in CallKeys
  BY <1>m DEF KeyOrNone, CallKeys
<1>6. {"failed", "did", "call"} \subseteq CallStages
  BY DEF CallStages
<1>7. Sets(at, at', c, CallStages)
  <2>1. \E x \in CallStages : at' = [at EXCEPT ![c] = x]
    BY <1>2, <1>3, <1>6
  <2> QED
    BY <2>1, AtSets
<1>8. Sets(key, key', c, KeyOrNone)
  <2>1. UNCHANGED key \/ \E x \in KeyOrNone : key' = [key EXCEPT ![c] = x]
    BY <1>2, <1>4
  <2> QED
    BY <2>1, KeySets
<1>9. OneCalls(c)
  BY <1>1, <1>7, <1>8, AtSets, TodoSets, UrlSets, KeySets, DidSets, MadeSets DEF OneCalls, CallsTyped
<1>10. CallFits(c)'
  <2>0. /\ Reads(c)' = Reads(c) /\ Uses(c)' = Uses(c) /\ Mine(c)' = m /\ Calling!org(c)' = Calling!org(c)
        /\ rows'[Platform] = p
    BY <1>1, StepKeeps DEF m, p
  <2>d. /\ at[c] \notin Calling!Ended
        /\ c \notin moved => m.type = "shared"
        /\ c \notin moved /\ ownDid[c] # Calling!NoWallet => Calling!Complete(m) /\ ownDid[c] = m.wallet
    BY <1>1 DEF CallFits, KeyRead, Calling!Ended, m
  <2>1. CASE at' = [at EXCEPT ![c] = "failed"]
    BY <1>6, <2>1, AtSets, EndFits
  <2>3. CASE /\ Calling!Complete(p) /\ at' = [at EXCEPT ![c] = Calling!AfterKey(c)]
             /\ key' = [key EXCEPT ![c] = Calling!KeyOf(p.agent)]
    <3>1. at'[c] = IF Uses(c) = "primary" THEN "did" ELSE "call"
      <4> DEFINE x == IF Uses(c) = "primary" THEN "did" ELSE "call"
      <4>1. at' = [at EXCEPT ![c] = x] /\ x \in CallStages
        BY <1>3, <1>6, <2>3
      <4> HIDE DEF x
      <4>2. at'[c] = x
        BY <4>1, AtSets
      <4> QED
        BY <4>2 DEF x
    <3>2. key'[c] = Calling!KeyOf(p.agent) /\ key'[c] \in CallKeys
      BY <1>4, <2>3, KeySets
    <3>3. StagesFit(c)'
      BY <3>1, <3>2 DEF StagesFit, CallKeys
    <3>4. RowRead(c)' /\ PiecesRead(c)'
      BY <1>1, <3>1, AddressStays DEF Addressed
    <3>5. KeyRead(c)'
      <4>1. at'[c] \in {"did", "call"} /\ UNCHANGED <<moved, ownDid[c]>>
        BY <1>1, <3>1
      <4>2. c \notin moved => /\ m.type = "shared" /\ Calling!Complete(m)
                              /\ ownDid[c] # Calling!NoWallet => ownDid[c] = m.wallet
        BY <1>m, <2>d
      <4> QED
        <5>1. Calling!Complete(rows'[Platform]) /\ key'[c] = Calling!KeyOf(rows'[Platform].agent)
          BY <2>0, <2>3, <3>2
        <5>2. ownDid'[c] = ownDid[c] /\ UNCHANGED moved
          BY <4>1
        <5>3. c \notin moved =>
                /\ Calling!Complete(m)
                /\ IF m.type = "shared"
                   THEN Calling!Complete(rows'[Platform]) /\ key'[c] = Calling!KeyOf(rows'[Platform].agent)
                   ELSE key'[c] = Calling!KeyOf(m.agent)
                /\ ownDid'[c] # Calling!NoWallet => ownDid'[c] = m.wallet
          <6>1. c \notin moved => IF m.type = "shared"
                   THEN Calling!Complete(rows'[Platform]) /\ key'[c] = Calling!KeyOf(rows'[Platform].agent)
                   ELSE key'[c] = Calling!KeyOf(m.agent)
            BY <4>2, <5>1
          <6>2. c \notin moved => Calling!Complete(m) /\ (ownDid'[c] # Calling!NoWallet => ownDid'[c] = m.wallet)
            BY <4>2, <5>2
          <6> QED
            BY <6>1, <6>2
        <5> QED
          BY <2>0, <4>1, <5>2, <5>3, KeyNow
    <3> QED
      BY <3>3, <3>4, <3>5 DEF CallFits
  <2> QED
    BY <1>2, <2>1, <2>3
<1> QED
  BY <1>1, <1>9, <1>10

LEMMA ReadPrimaryFits ==
  ASSUME CallsTyped, RowsFit, WalletsFit, Calling!InvitationsOfWallet, NEW c \in Calls, CallFits(c),
         Calling!ReadPrimaryDid(c)
  PROVE  OneCalls(c) /\ CallFits(c)' /\ UNCHANGED <<invitations, sent, done>>
<1> DEFINE m == Mine(c)
<1>m. Calling!Complete(m) => m.wallet \in CallWallets
  BY MineIs
<1> HIDE DEF m
<1>1. /\ UNCHANGED <<asked, rows, times, wallets, moved, held, invitations, todo, row, url, key, made, sent, done, failures>>
      /\ at[c] = "did" /\ Uses(c) = "primary"
  BY DEF Calling!ReadPrimaryDid, Calling!world, Uses
<1>2. \/ at' = [at EXCEPT ![c] = "failed"] /\ UNCHANGED ownDid
      \/ /\ Calling!Complete(m) /\ at' = [at EXCEPT ![c] = "call"]
         /\ ownDid' = [ownDid EXCEPT ![c] = m.wallet]
  BY DEF Calling!ReadPrimaryDid, Calling!GoTo, Mine, m
<1>4. Calling!Complete(m) => m.wallet \in DidOrNone
  BY <1>m DEF DidOrNone
<1>6. {"failed", "call"} \subseteq CallStages
  BY DEF CallStages
<1>7. Sets(at, at', c, CallStages)
  BY <1>2, <1>6, AtSets
<1>8. Sets(ownDid, ownDid', c, DidOrNone)
  BY <1>2, <1>4, DidSets
<1>9. OneCalls(c)
  BY <1>1, <1>7, <1>8, AtSets, TodoSets, UrlSets, KeySets, DidSets, MadeSets DEF OneCalls, CallsTyped
<1>10. CallFits(c)'
  <2>0. Reads(c)' = Reads(c) /\ Uses(c)' = Uses(c) /\ Mine(c)' = m /\ Calling!org(c)' = Calling!org(c)
    BY <1>1, StepKeeps DEF m
  <2>k. key[c] \in CallKeys
    BY <1>1 DEF CallFits, StagesFit
  <2>d. c \notin moved => IF m.type = "shared"
                          THEN Calling!Complete(rows[Platform]) /\ key[c] = Calling!KeyOf(rows[Platform].agent)
                          ELSE key[c] = Calling!KeyOf(m.agent)
    BY <1>1 DEF CallFits, KeyRead, m
  <2>1. CASE at' = [at EXCEPT ![c] = "failed"]
    BY <1>6, <2>1, AtSets, EndFits
  <2>3. CASE /\ Calling!Complete(m) /\ at' = [at EXCEPT ![c] = "call"]
             /\ ownDid' = [ownDid EXCEPT ![c] = m.wallet]
    <3>1. at'[c] = "call"
      BY <1>6, <2>3, AtSets
    <3>2. ownDid'[c] = m.wallet
      BY <1>4, <2>3, DidSets
    <3>3. StagesFit(c)'
      BY <1>1, <2>k, <3>1 DEF StagesFit, CallKeys
    <3>4. RowRead(c)' /\ PiecesRead(c)'
      BY <1>1, <3>1, AddressStays DEF Addressed
    <3>5. KeyRead(c)'
      BY <1>1, <2>0, <2>d, <2>3, <3>1, <3>2 DEF KeyRead, Calling!Complete, Calling!KeyOf
    <3> QED
      BY <3>3, <3>4, <3>5 DEF CallFits
  <2> QED
    BY <1>2, <2>1, <2>3
<1> QED
  BY <1>1, <1>9, <1>10

LEMMA ShortenFits ==
  ASSUME CallsTyped, RowsFit, WalletsFit, Calling!InvitationsOfWallet, NEW c \in Calls, CallFits(c),
         Calling!Shorten(c)
  PROVE  OneCalls(c) /\ CallFits(c)' /\ UNCHANGED <<invitations, sent, done>>
<1>1. /\ UNCHANGED <<asked, rows, times, wallets, moved, held, invitations, todo, row, url, key, ownDid, made, sent, done, failures>>
      /\ at[c] = "shorten" /\ at' = [at EXCEPT ![c] = "save"]
  BY DEF Calling!Shorten, Calling!world, Calling!registers, Calling!GoTo
<1>2. Sets(at, at', c, CallStages) /\ at'[c] = "save"
  BY <1>1, AtSets DEF CallStages
<1>3. OneCalls(c)
  BY <1>1, <1>2, TodoSets, UrlSets, KeySets, DidSets, MadeSets DEF OneCalls, CallsTyped
<1>4. CallFits(c)'
  <2> DEFINE m == Mine(c)
  <2>0. /\ Reads(c)' = Reads(c) /\ Uses(c)' = Uses(c) /\ Mine(c)' = m /\ Calling!org(c)' = Calling!org(c)
        /\ Calling!op(c)' = Calling!op(c)
    BY <1>1, StepKeeps
  <2>1. Calling!op(c) = "invite" /\ Reads(c) = Calling!OneRead /\ Reads(c) # Calling!TwoReads
    BY <1>1, CallOf, OpsAre DEF CallFits, StagesFit
  <2>2. StagesFit(c)'
    BY <1>2, <2>0, <2>1 DEF StagesFit
  <2>3. RowRead(c)'
    <3>1. /\ RowOf(Calling!org(c), row[c]) /\ UrlOf(c, row[c])
          /\ row[c].type = "dedicated" => Calling!org(c) \in held[row[c].agent]
          /\ Calling!Complete(row[c]) => row[c] = m \/ row[c].n < times[Calling!org(c)]
          /\ c \notin moved => row[c] = m
          /\ Calling!Complete(row[c]) /\ made[c] \in CallWallets
          /\ made[c] = row[c].wallet \/ row[c].n < times[Calling!org(c)]
      BY <1>1, <2>1 DEF CallFits, RowRead, Addressed
    <3> HIDE DEF m
    <3> QED
      BY <1>1, <2>0, <3>1 DEF RowRead, UrlOf
  <2>4. PiecesRead(c)'
    BY <2>0, <2>1 DEF PiecesRead
  <2>5. KeyRead(c)'
    <3>1. c \notin moved /\ ownDid[c] # Calling!NoWallet => Calling!Complete(m) /\ ownDid[c] = m.wallet
      BY <1>1 DEF CallFits, KeyRead, Calling!Ended
    <3> HIDE DEF m
    <3> QED
      BY <1>1, <1>2, <2>0, <3>1 DEF KeyRead, Calling!Complete
  <2> QED
    BY <2>2, <2>3, <2>4, <2>5 DEF CallFits
<1> QED
  BY <1>1, <1>3, <1>4

LEMMA LostFits ==
  ASSUME CallsTyped, RowsFit, WalletsFit, Calling!InvitationsOfWallet, NEW c \in Calls, CallFits(c),
         Calling!Lost(c)
  PROVE  OneCalls(c) /\ CallFits(c)' /\ UNCHANGED <<invitations, sent, done>>
<1>1. /\ UNCHANGED <<asked, rows, times, wallets, moved, held, invitations, todo, row, url, key, ownDid, made, sent, done>>
      /\ at' = [at EXCEPT ![c] = "failed"] /\ failures < MaxFaults /\ failures' = failures + 1
  BY DEF Calling!Lost, Calling!world, Calling!registers, Calling!GoTo, Calling!Fault
<1>2. Sets(at, at', c, CallStages) /\ at'[c] = "failed"
  BY <1>1, AtSets DEF CallStages
<1>3. failures' \in 0..MaxFaults
  BY <1>1, CallsConstants DEF CallsTyped
<1>4. OneCalls(c)
  BY <1>1, <1>2, <1>3, TodoSets, UrlSets, KeySets, DidSets, MadeSets DEF OneCalls, CallsTyped
<1>5. CallFits(c)'
  BY <1>2, EndFits
<1> QED
  BY <1>1, <1>4, <1>5

\* The invitation is kept for the wallet it was made in.
LEMMA SaveFits ==
  ASSUME CallsTyped, RowsFit, WalletsFit, Calling!InvitationsOfWallet, NEW c \in Calls, CallFits(c),
         Calling!SaveInvitation(c)
  PROVE  /\ OneCalls(c) /\ CallFits(c)' /\ UNCHANGED <<sent, done>>
         /\ invitations' \in [Orgs -> Seq([n : Nat, wallet : CallWallets])] /\ Calling!InvitationsOfWallet'
<1> DEFINE o == Calling!org(c)  T == [n : Nat, wallet : CallWallets]  e == [n |-> row[c].n, wallet |-> made[c]]
<1>1. /\ UNCHANGED <<asked, rows, times, wallets, moved, held, todo, row, url, key, ownDid, made, sent, done, failures>>
      /\ at[c] = "save"
  BY DEF Calling!SaveInvitation, Calling!world, Calling!registers
<1>2. \/ at' = [at EXCEPT ![c] = "failed"] /\ UNCHANGED invitations
      \/ /\ Calling!Exists(rows[o]) /\ rows[o].n = row[c].n
         /\ at' = [at EXCEPT ![c] = "answered"] /\ invitations' = [invitations EXCEPT ![o] = Append(invitations[o], e)]
  BY DEF Calling!SaveInvitation, Calling!GoTo, Calling!AgentOf
<1>3. {"failed", "answered"} \subseteq CallStages
  BY DEF CallStages
<1>4. Sets(at, at', c, CallStages) /\ at'[c] \in {"failed", "answered"}
  BY <1>2, <1>3, AtSets
<1>5. OneCalls(c)
  BY <1>1, <1>4, TodoSets, UrlSets, KeySets, DidSets, MadeSets DEF OneCalls, CallsTyped
<1>6. CallFits(c)'
  BY <1>4, EndFits
<1>o. o \in Orgs /\ invitations \in [Orgs -> Seq(T)] /\ times[o] \in Nat
  BY CallOf DEF CallsTyped
<1>e. Calling!Exists(rows[o]) /\ rows[o].n = row[c].n =>
        e \in T /\ Calling!Complete(rows[o]) /\ e.wallet = rows[o].wallet
  <2> SUFFICES ASSUME Calling!Exists(rows[o]), rows[o].n = row[c].n
               PROVE  e \in T /\ Calling!Complete(rows[o]) /\ e.wallet = rows[o].wallet
    OBVIOUS
  <2>1. Reads(c) = Calling!OneRead
    BY <1>1, CallOf, OpsAre DEF CallFits, StagesFit
  <2>2. /\ Calling!Complete(row[c]) /\ made[c] \in CallWallets
        /\ row[c] = rows[o] \/ row[c].n < times[o]
        /\ made[c] = row[c].wallet \/ row[c].n < times[o]
    BY <1>1, <2>1 DEF CallFits, RowRead, Addressed, Mine
  <2>3. rows[o].n = times[o]
    BY <1>o DEF RowsFit
  <2>4. ~(row[c].n < times[o]) /\ row[c].n \in Nat
    BY <1>o, <2>3
  <2> QED
    BY <2>2, <2>4
<1>7. CASE at' = [at EXCEPT ![c] = "failed"] /\ UNCHANGED invitations
  <2>1. Calling!InvitationsOfWallet'
    BY <1>1, <1>7 DEF Calling!InvitationsOfWallet, Calling!Complete
  <2> QED
    BY <1>1, <1>5, <1>6, <1>7, <1>o, <2>1
<1>8. CASE /\ Calling!Exists(rows[o]) /\ rows[o].n = row[c].n
           /\ invitations' = [invitations EXCEPT ![o] = Append(invitations[o], e)]
  <2>1. e \in T /\ Calling!Complete(rows[o]) /\ e.wallet = rows[o].wallet
    BY <1>8, <1>e
  <2>2. /\ Append(invitations[o], e) \in Seq(T) /\ Len(Append(invitations[o], e)) = Len(invitations[o]) + 1
        /\ Len(invitations[o]) \in Nat
        /\ \A i \in 1 .. Len(invitations[o]) : Append(invitations[o], e)[i] = invitations[o][i]
        /\ Append(invitations[o], e)[Len(invitations[o]) + 1] = e
    <3> HIDE DEF T, e, o
    <3> QED
      BY <1>o, <2>1, AppendProperties, LenProperties
  <2>3. invitations' \in [Orgs -> Seq(T)]
    <3> HIDE DEF T, e, o
    <3> QED
      BY <1>8, <1>o, <2>2
  <2>4. ASSUME NEW p \in Orgs, NEW i \in 1 .. Len(invitations'[p])
        PROVE  Calling!Complete(rows[p]) /\ invitations'[p][i].wallet = rows[p].wallet
    <3>0. \A q \in Orgs : \A j \in 1 .. Len(invitations[q]) :
            Calling!Complete(rows[q]) /\ invitations[q][j].wallet = rows[q].wallet
      BY DEF Calling!InvitationsOfWallet
    <3> HIDE DEF T, e, o
    <3>1. CASE p # o
      <4>1. invitations'[p] = invitations[p]
        BY <1>8, <1>o, <3>1
      <4> QED
        BY <2>4, <3>0, <4>1
    <3>2. CASE p = o
      <4>1. invitations'[o] = Append(invitations[o], e)
        BY <1>8, <1>o
      <4>2. i \in 1 .. Len(invitations[o]) \/ i = Len(invitations[o]) + 1
        BY <2>2, <2>4, <3>2, <4>1
      <4>3. CASE i \in 1 .. Len(invitations[o])
        BY <1>o, <2>2, <3>0, <3>2, <4>1, <4>3
      <4>4. CASE i = Len(invitations[o]) + 1
        BY <2>1, <2>2, <3>2, <4>1, <4>4
      <4> QED
        BY <4>2, <4>3, <4>4
    <3> QED
      BY <3>1, <3>2
  <2>5. Calling!InvitationsOfWallet'
    BY <1>1, <2>4 DEF Calling!InvitationsOfWallet, Calling!Complete
  <2> QED
    BY <1>1, <1>5, <1>6, <2>3, <2>5
<1> QED
  BY <1>2, <1>7, <1>8

\* The wallet that an address made of row r reaches.
LEMMA HitsRow ==
  ASSUME CallsTyped, WalletsFit, NEW c \in Calls, NEW r, RowOf(Calling!org(c), r), UrlOf(c, r),
         NEW w \in Calling!Reached(c)
  PROVE  /\ w \in wallets /\ w \in CallWallets /\ Calling!Complete(r) /\ w.agent = r.agent /\ w.agent = url[c].agent
         /\ key[c] = Calling!KeyOf(w.agent)
         /\ r.type = "shared" => w = r.wallet
         /\ r.type = "dedicated" => w.tenant = Calling!Own
         /\ r = Mine(c) => w = r.wallet
<1> DEFINE o == Calling!org(c)
<1>1. /\ w \in wallets /\ w.agent = url[c].agent /\ w.tenant = url[c].tenant /\ key[c] = Calling!KeyOf(w.agent)
  BY DEF Calling!Reached
<1>2. w \in CallWallets /\ (w.tenant # Calling!Own => w.tenant.of = w.org)
  BY <1>1 DEF WalletsFit
<1>3. w.agent \in Agents /\ Calling!Nowhere \notin Agents /\ o \in Orgs
  BY <1>2, CallsConstants, CallOf DEF CallWallets, Calling!Nowhere
<1>4. /\ Calling!Exists(r) /\ url[c].type \in Calling!TypeOf(r) /\ url[c].agent = r.agent
      /\ url[c].tenant = IF url[c].type = "shared" THEN r.tenant ELSE Calling!Own
  BY DEF UrlOf
<1>5. Calling!Complete(r)
  <2>1. Calling!Exists(r) /\ ~Calling!Complete(r) => r.agent = Calling!Nowhere
    BY <1>3, RowOfIs DEF o
  <2>2. r.agent \in Agents /\ Calling!Exists(r)
    BY <1>1, <1>3, <1>4
  <2> QED
    BY <1>3, <2>1, <2>2
<1>6. url[c].type = r.type /\ r.type \in {"shared", "dedicated"}
  BY <1>4, <1>5 DEF Calling!TypeOf, Calling!Complete
<1>7. /\ r.wallet = Calling!Wallet(o, r.type, r.agent, r.n) /\ r.wallet \in CallWallets
      /\ r.wallet.org = o /\ r.wallet.agent = r.agent /\ r.tenant = r.wallet.tenant
      /\ r.type = "shared" => r.tenant = [n |-> r.n, of |-> o] /\ r.tenant # Calling!Own
      /\ r.type = "dedicated" => r.tenant = Calling!Own
  BY <1>3, <1>5, RowOfIs
<1>8. \A v, x \in CallWallets : v.org = x.org /\ v.agent = x.agent /\ v.tenant = x.tenant => v = x
  BY DEF CallWallets
<1> HIDE DEF o
<1>9. ASSUME r.type = "shared" PROVE w = r.wallet
  <2>1. w.tenant = r.tenant /\ w.tenant # Calling!Own /\ w.tenant = [n |-> r.n, of |-> o]
    BY <1>1, <1>4, <1>6, <1>7, <1>9
  <2>2. w.tenant.of = o
    BY <2>1
  <2> QED
    BY <1>1, <1>2, <1>4, <1>7, <1>8, <2>1, <2>2
<1>10. r.type = "dedicated" => w.tenant = Calling!Own
  BY <1>1, <1>4, <1>6
<1>11. ASSUME r = Mine(c), r.type = "dedicated" PROVE w = r.wallet
  <2>1. w.org = o
    BY <1>1, <1>3, <1>4, <1>10, <1>11 DEF WalletsFit, Mine, o
  <2> QED
    BY <1>1, <1>2, <1>4, <1>7, <1>8, <1>10, <1>11, <2>1
<1> QED
  BY <1>1, <1>2, <1>4, <1>5, <1>6, <1>9, <1>10, <1>11

\* The address of a call whose wallet stays is of the row there is.
LEMMA UrlOfMine ==
  ASSUME CallsTyped, NEW c \in Calls, CallFits(c), at[c] = "call", c \notin moved
  PROVE  /\ UrlOf(c, Mine(c)) /\ Calling!Complete(Mine(c))
         /\ IF Mine(c).type = "shared"
            THEN Calling!Complete(rows[Platform]) /\ key[c] = Calling!KeyOf(rows[Platform].agent)
            ELSE key[c] = Calling!KeyOf(Mine(c).agent)
         /\ ownDid[c] # Calling!NoWallet => ownDid[c] = Mine(c).wallet
<1>1. CASE Reads(c) = Calling!OneRead
  <2>1. UrlOf(c, row[c]) /\ row[c] = Mine(c)
    BY <1>1 DEF CallFits, RowRead, Addressed
  <2>2. UrlOf(c, Mine(c))
    BY <2>1
  <2> QED
    BY <2>2 DEF CallFits, KeyRead, Calling!Ended
<1>2. CASE Reads(c) = Calling!TwoReads
  <2>1. UrlOf(c, Mine(c))
    BY <1>2 DEF CallFits, PiecesRead, Addressed
  <2> QED
    BY <2>1 DEF CallFits, KeyRead, Calling!Ended
<1> QED
  BY <1>1, <1>2, CallOf

\* The call itself.
LEMMA CallFitsStep ==
  ASSUME CallsTyped, RowsFit, WalletsFit, NEW c \in Calls, CallFits(c), Calling!Call(c)
  PROVE  /\ OneCalls(c) /\ CallFits(c)' /\ UNCHANGED invitations
         /\ sent' = sent \cup {<<c, url[c].agent, key[c]>>} /\ key[c] \in CallKeys
         /\ UNCHANGED done \/ \E w \in Calling!Reached(c) : done' = done \cup {<<c, w, ownDid[c]>>}
<1> DEFINE m == Mine(c)  o == Calling!org(c)
<1>1. /\ UNCHANGED <<asked, rows, times, wallets, moved, held, invitations, todo, row, url, key, ownDid>>
      /\ at[c] = "call" /\ sent' = sent \cup {<<c, url[c].agent, key[c]>>}
  BY DEF Calling!Call, Calling!world
<1>2. \/ /\ \E x \in {"answered", "failed"} : at' = [at EXCEPT ![c] = x]
         /\ UNCHANGED <<made, failures>> /\ UNCHANGED done
      \/ \E w \in Calling!Reached(c) :
           /\ done' = done \cup {<<c, w, ownDid[c]>>}
           /\ \/ /\ at' = [at EXCEPT ![c] = IF Calling!op(c) = "invite" THEN "shorten" ELSE "answered"]
                 /\ made' = [made EXCEPT ![c] = w] /\ UNCHANGED failures
              \/ /\ at' = [at EXCEPT ![c] = "failed"] /\ UNCHANGED made
                 /\ failures < MaxFaults /\ failures' = failures + 1
  BY DEF Calling!Call, Calling!GoTo, Calling!Fault
<1>3. {"answered", "failed", "shorten"} \subseteq CallStages
  BY DEF CallStages
<1>4. \A w \in Calling!Reached(c) : w \in CallWallets /\ w \in DidOrNone
  BY DEF Calling!Reached, WalletsFit, DidOrNone
<1>5. Sets(at, at', c, CallStages) /\ at'[c] \in {"answered", "failed", "shorten"}
  <2>1. \E x \in {"answered", "failed", "shorten"} : at' = [at EXCEPT ![c] = x]
    BY <1>2
  <2> QED
    BY <1>3, <2>1, AtSets
<1>6. Sets(made, made', c, DidOrNone)
  <2>1. UNCHANGED made \/ \E x \in DidOrNone : made' = [made EXCEPT ![c] = x]
    BY <1>2, <1>4
  <2> QED
    BY <2>1, MadeSets
<1>7. failures' \in 0..MaxFaults
  BY <1>2, CallsConstants DEF CallsTyped
<1>8. OneCalls(c)
  BY <1>1, <1>5, <1>6, <1>7, TodoSets, UrlSets, KeySets, DidSets DEF OneCalls, CallsTyped
<1>9. CallFits(c)'
  <2>1. CASE at'[c] # "shorten"
    BY <1>5, <2>1, EndFits
  <2>2. CASE at'[c] = "shorten"
    <3>1. \A x \in {"answered", "failed"} : at' # [at EXCEPT ![c] = x]
      BY <1>3, <2>2, AtSets
    <3>2. PICK w \in Calling!Reached(c) :
            /\ at' = [at EXCEPT ![c] = IF Calling!op(c) = "invite" THEN "shorten" ELSE "answered"]
            /\ made' = [made EXCEPT ![c] = w]
      BY <1>2, <3>1
    <3>3. Calling!op(c) = "invite"
      BY <3>1, <3>2
    <3>4. made'[c] = w
      BY <1>4, <3>2, MadeSets
    <3>5. /\ Reads(c)' = Reads(c) /\ Uses(c)' = Uses(c) /\ Mine(c)' = m /\ Calling!org(c)' = o
          /\ Calling!op(c)' = Calling!op(c)
      BY <1>1, StepKeeps
    <3>6. Reads(c) = Calling!OneRead /\ Reads(c) # Calling!TwoReads /\ o \in Orgs
      BY <3>3, CallOf, OpsAre
    <3>7. /\ RowOf(o, row[c]) /\ UrlOf(c, row[c])
          /\ row[c].type = "dedicated" => o \in held[row[c].agent]
          /\ Calling!Complete(row[c]) => row[c] = m \/ row[c].n < times[o]
          /\ c \notin moved => row[c] = m
      BY <1>1, <3>6 DEF CallFits, RowRead, Addressed
    <3>8. Calling!Complete(row[c]) /\ w \in CallWallets /\ (row[c] = m => w = row[c].wallet)
      BY <3>7, HitsRow
    <3>9. c \notin moved /\ ownDid[c] # Calling!NoWallet => Calling!Complete(m) /\ ownDid[c] = m.wallet
      BY <1>1 DEF CallFits, KeyRead, Calling!Ended
    <3> HIDE DEF m, o
    <3>10. StagesFit(c)'
      BY <2>2, <3>3, <3>5 DEF StagesFit
    <3>11. RowRead(c)'
      BY <1>1, <2>2, <3>4, <3>5, <3>7, <3>8 DEF RowRead, UrlOf
    <3>12. PiecesRead(c)'
      BY <3>5, <3>6 DEF PiecesRead
    <3>13. KeyRead(c)'
      BY <1>1, <2>2, <3>5, <3>9 DEF KeyRead, Calling!Complete
    <3> QED
      BY <3>10, <3>11, <3>12, <3>13 DEF CallFits
  <2> QED
    BY <2>1, <2>2
<1>10. key[c] \in CallKeys
  BY <1>1 DEF CallFits, StagesFit
<1>11. UNCHANGED done \/ \E w \in Calling!Reached(c) : done' = done \cup {<<c, w, ownDid[c]>>}
  BY <1>2
<1> QED
  BY <1>1, <1>8, <1>9, <1>10, <1>11

\* What it does, and to whom it shows its key.
LEMMA CallIsRight ==
  ASSUME CallsTyped, RowsFit, WalletsFit, NEW c \in Calls, CallFits(c), at[c] = "call"
  PROVE  /\ key[c] = Calling!KeyOf(url[c].agent) \/ c \in moved \/ times[Platform] > 0
         /\ \A w \in Calling!Reached(c) :
              /\ w \in CallWallets
              /\ \/ w.org = Calling!org(c)
                 \/ Reads(c) = Calling!TwoReads /\ c \in moved
                 \/ {w.org, Calling!org(c)} \subseteq held[w.agent] /\ c \in moved
              /\ ownDid[c] # Calling!NoWallet => ownDid[c] = w \/ c \in moved
<1> DEFINE o == Calling!org(c)  m == Mine(c)
<1>o. o \in Orgs /\ m = rows[o] /\ Platform \in Orgs /\ times[Platform] \in Nat /\ RowOf(o, m)
  BY CallOf, CallsConstants, MineIs DEF CallsTyped, Mine
<1>1. ASSUME c \notin moved, times[Platform] = 0 PROVE key[c] = Calling!KeyOf(url[c].agent)
  <2>1. /\ UrlOf(c, m) /\ Calling!Complete(m)
        /\ IF m.type = "shared"
           THEN Calling!Complete(rows[Platform]) /\ key[c] = Calling!KeyOf(rows[Platform].agent)
           ELSE key[c] = Calling!KeyOf(m.agent)
    BY <1>1, UrlOfMine
  <2>2. url[c].agent = m.agent
    BY <2>1 DEF UrlOf
  <2>3. m.type = "shared" => m.agent = rows[Platform].agent
    BY <1>1, <1>o DEF RowsFit
  <2> QED
    BY <2>1, <2>2, <2>3
<1>2. ASSUME NEW w \in Calling!Reached(c), c \notin moved
      PROVE  w \in CallWallets /\ w.org = o /\ (ownDid[c] # Calling!NoWallet => ownDid[c] = w)
  <2>1. /\ UrlOf(c, m) /\ Calling!Complete(m)
        /\ ownDid[c] # Calling!NoWallet => ownDid[c] = m.wallet
    BY <1>2, UrlOfMine
  <2>2. w \in CallWallets /\ w = m.wallet
    BY <1>o, <2>1, HitsRow
  <2>3. m.wallet.org = o
    BY <1>o, <2>1, RowOfIs
  <2> QED
    BY <2>1, <2>2, <2>3
<1>3. ASSUME NEW w \in Calling!Reached(c), c \in moved, Reads(c) = Calling!OneRead
      PROVE  w.org = o \/ {w.org, o} \subseteq held[w.agent]
  <2>1. /\ RowOf(o, row[c]) /\ UrlOf(c, row[c])
        /\ row[c].type = "dedicated" => o \in held[row[c].agent]
    BY <1>3 DEF CallFits, RowRead, Addressed
  <2>2. /\ w \in wallets /\ Calling!Complete(row[c]) /\ w.agent = row[c].agent
        /\ row[c].type = "shared" => w = row[c].wallet
        /\ row[c].type = "dedicated" => w.tenant = Calling!Own
    BY <2>1, HitsRow
  <2>3. row[c].wallet.org = o /\ row[c].type \in {"shared", "dedicated"}
    BY <1>o, <2>1, <2>2, RowOfIs DEF Calling!Complete
  <2>4. w.tenant = Calling!Own => w.org \in held[w.agent]
    BY <2>2 DEF WalletsFit
  <2> QED
    BY <2>1, <2>2, <2>3, <2>4
<1>4. \A w \in Calling!Reached(c) : w \in CallWallets
  BY DEF Calling!Reached, WalletsFit
<1>5. Reads(c) = Calling!OneRead \/ Reads(c) = Calling!TwoReads
  BY CallOf
<1> HIDE DEF o, m
<1>6. key[c] = Calling!KeyOf(url[c].agent) \/ c \in moved \/ times[Platform] > 0
  BY <1>1, <1>o
<1>7. ASSUME NEW w \in Calling!Reached(c)
      PROVE  /\ w \in CallWallets
             /\ \/ w.org = o
                \/ Reads(c) = Calling!TwoReads /\ c \in moved
                \/ {w.org, o} \subseteq held[w.agent] /\ c \in moved
             /\ ownDid[c] # Calling!NoWallet => ownDid[c] = w \/ c \in moved
  BY <1>2, <1>3, <1>4, <1>5, <1>7
<1> QED
  BY <1>6, <1>7 DEF o

\* What was done.
LEMMA CallKeepsDone ==
  ASSUME CallsTyped, RowsFit, WalletsFit, NEW c \in Calls, CallFits(c), Calling!Call(c),
         DoneTyped, Calling!OwnWallet, Calling!KeyFits, Calling!DidIsKnown
  PROVE  DoneTyped' /\ Calling!OwnWallet' /\ Calling!KeyFits' /\ Calling!DidIsKnown'
<1>1. /\ OneCalls(c) /\ key[c] \in CallKeys
      /\ sent' = sent \cup {<<c, url[c].agent, key[c]>>}
      /\ UNCHANGED done \/ \E w \in Calling!Reached(c) : done' = done \cup {<<c, w, ownDid[c]>>}
  BY CallFitsStep
<1>2. UNCHANGED <<asked, rows, times, moved, held>>
  BY <1>1 DEF OneCalls
<1>3. \A d : UNCHANGED <<Calling!op(d), Calling!org(d)>>
  BY <1>2 DEF Calling!op, Calling!org
<1>4. at[c] = "call"
  BY DEF Calling!Call
<1>5. key[c] = Calling!KeyOf(url[c].agent) \/ c \in moved \/ times[Platform] > 0
  BY <1>4, CallIsRight
<1>6. \A w \in Calling!Reached(c) :
        /\ w \in CallWallets
        /\ \/ w.org = Calling!org(c)
           \/ Calling!Ops[Calling!op(c)].reads = Calling!TwoReads /\ c \in moved
           \/ {w.org, Calling!org(c)} \subseteq held[w.agent] /\ c \in moved
        /\ ownDid[c] # Calling!NoWallet => ownDid[c] = w \/ c \in moved
  BY <1>4, CallIsRight DEF Reads
<1>7. \A d \in done' : d \in done \/ \E w \in Calling!Reached(c) : d = <<c, w, ownDid[c]>>
  BY <1>1
<1>8. \A x \in sent' : x \in sent \/ x = <<c, url[c].agent, key[c]>>
  BY <1>1
<1>9. DoneTyped'
  <2>1. \A d \in done' : d[1] \in Calls /\ d[2] \in CallWallets
    BY <1>6, <1>7 DEF DoneTyped
  <2>2. \A x \in sent' : x[1] \in Calls /\ x[3] \in CallKeys
    BY <1>1, <1>8 DEF DoneTyped
  <2> QED
    BY <2>1, <2>2 DEF DoneTyped
<1>10. Calling!OwnWallet'
  <2>1. ASSUME NEW d \in done'
        PROVE  \/ d[2].org = Calling!org(d[1])
               \/ Calling!Ops[Calling!op(d[1])].reads = Calling!TwoReads /\ d[1] \in moved
               \/ {d[2].org, Calling!org(d[1])} \subseteq held[d[2].agent] /\ d[1] \in moved
    <3>1. CASE d \in done
      BY <3>1 DEF Calling!OwnWallet
    <3>2. ASSUME NEW w \in Calling!Reached(c), d = <<c, w, ownDid[c]>>
          PROVE  \/ d[2].org = Calling!org(d[1])
                 \/ Calling!Ops[Calling!op(d[1])].reads = Calling!TwoReads /\ d[1] \in moved
                 \/ {d[2].org, Calling!org(d[1])} \subseteq held[d[2].agent] /\ d[1] \in moved
      <4>1. d[1] = c /\ d[2] = w
        BY <3>2
      <4> QED
        BY <1>6, <4>1
    <3> QED
      BY <1>7, <2>1, <3>1, <3>2
  <2> QED
    BY <1>2, <1>3, <2>1 DEF Calling!OwnWallet
<1>11. Calling!KeyFits'
  <2>1. ASSUME NEW x \in sent'
        PROVE  x[3] = Calling!KeyOf(x[2]) \/ x[1] \in moved \/ times[Platform] > 0
    BY <1>5, <1>8, <2>1 DEF Calling!KeyFits
  <2> QED
    BY <1>2, <2>1 DEF Calling!KeyFits, Calling!KeyOf
<1>12. Calling!DidIsKnown'
  <2>1. ASSUME NEW d \in done', d[3] # Calling!NoWallet
        PROVE  d[3] = d[2] \/ d[1] \in moved
    BY <1>6, <1>7, <2>1 DEF Calling!DidIsKnown
  <2> QED
    BY <1>2, <2>1 DEF Calling!DidIsKnown
<1> QED
  BY <1>9, <1>10, <1>11, <1>12

\* The calls are what the services make of them, by any step.
LEMMA CallSteps ==
  ASSUME CallsInv, NEW c \in Calls, Calling!Ask(c) \/ Calling!Step(c) \/ Calling!Lost(c)
  PROVE  /\ OneCalls(c) /\ CallFits(c)'
         /\ invitations' \in [Orgs -> Seq([n : Nat, wallet : CallWallets])] /\ Calling!InvitationsOfWallet'
         /\ DoneTyped' /\ Calling!OwnWallet' /\ Calling!KeyFits' /\ Calling!DidIsKnown'
<1> DEFINE Goal == /\ OneCalls(c) /\ CallFits(c)'
                   /\ invitations' \in [Orgs -> Seq([n : Nat, wallet : CallWallets])] /\ Calling!InvitationsOfWallet'
                   /\ DoneTyped' /\ Calling!OwnWallet' /\ Calling!KeyFits' /\ Calling!DidIsKnown'
<1>i. /\ CallsTyped /\ RowsFit /\ WalletsFit /\ Calling!InvitationsOfWallet /\ CallFits(c)
      /\ DoneTyped /\ Calling!OwnWallet /\ Calling!KeyFits /\ Calling!DidIsKnown
  BY DEF CallsInv
<1>1. ASSUME OneCalls(c), UNCHANGED invitations
      PROVE  /\ invitations' \in [Orgs -> Seq([n : Nat, wallet : CallWallets])]
             /\ Calling!InvitationsOfWallet'
  BY <1>1, <1>i DEF OneCalls, CallsTyped, Calling!InvitationsOfWallet, Calling!Complete
<1>2. ASSUME OneCalls(c), UNCHANGED <<sent, done>>
      PROVE  DoneTyped' /\ Calling!OwnWallet' /\ Calling!KeyFits' /\ Calling!DidIsKnown'
  BY <1>2, <1>i DEF OneCalls, DoneTyped, Calling!OwnWallet, Calling!KeyFits, Calling!DidIsKnown,
       Calling!op, Calling!org
<1> HIDE DEF Goal
<1>3. ASSUME OneCalls(c) /\ CallFits(c)' /\ UNCHANGED <<invitations, sent, done>> PROVE Goal
  BY <1>1, <1>2, <1>3 DEF Goal
<1>4. CASE Calling!SaveInvitation(c)
  <2>1. /\ OneCalls(c) /\ CallFits(c)' /\ UNCHANGED <<sent, done>>
        /\ invitations' \in [Orgs -> Seq([n : Nat, wallet : CallWallets])] /\ Calling!InvitationsOfWallet'
    BY <1>4, <1>i, SaveFits
  <2> QED
    BY <1>2, <2>1 DEF Goal
<1>5. CASE Calling!Call(c)
  <2>1. OneCalls(c) /\ CallFits(c)' /\ UNCHANGED invitations
    BY <1>5, <1>i, CallFitsStep
  <2>2. DoneTyped' /\ Calling!OwnWallet' /\ Calling!KeyFits' /\ Calling!DidIsKnown'
    BY <1>5, <1>i, CallKeepsDone
  <2> QED
    BY <1>1, <2>1, <2>2 DEF Goal
<1>6. CASE Calling!Ask(c)
  <2>1. OneCalls(c) /\ CallFits(c)' /\ UNCHANGED <<invitations, sent, done>>
    BY <1>6, <1>i, AskFits
  <2> QED
    BY <1>3, <2>1 DEF Goal
<1>7. CASE Calling!ReadRow(c)
  <2>1. OneCalls(c) /\ CallFits(c)' /\ UNCHANGED <<invitations, sent, done>>
    BY <1>7, <1>i, ReadRowFits
  <2> QED
    BY <1>3, <2>1 DEF Goal
<1>8. CASE Calling!ReadEndpoint(c)
  <2>1. OneCalls(c) /\ CallFits(c)' /\ UNCHANGED <<invitations, sent, done>>
    BY <1>8, <1>i, ReadEndpointFits
  <2> QED
    BY <1>3, <2>1 DEF Goal
<1>9. CASE Calling!ReadType(c)
  <2>1. OneCalls(c) /\ CallFits(c)' /\ UNCHANGED <<invitations, sent, done>>
    BY <1>9, <1>i, ReadTypeFits
  <2> QED
    BY <1>3, <2>1 DEF Goal
<1>10. CASE Calling!ReadTenant(c)
  <2>1. OneCalls(c) /\ CallFits(c)' /\ UNCHANGED <<invitations, sent, done>>
    BY <1>10, <1>i, ReadTenantFits
  <2> QED
    BY <1>3, <2>1 DEF Goal
<1>11. CASE Calling!ReadInvitationDid(c)
  <2>1. OneCalls(c) /\ CallFits(c)' /\ UNCHANGED <<invitations, sent, done>>
    BY <1>11, <1>i, ReadInvitationFits
  <2> QED
    BY <1>3, <2>1 DEF Goal
<1>12. CASE Calling!ReadKey(c)
  <2>1. OneCalls(c) /\ CallFits(c)' /\ UNCHANGED <<invitations, sent, done>>
    BY <1>12, <1>i, ReadKeyFits
  <2> QED
    BY <1>3, <2>1 DEF Goal
<1>13. CASE Calling!ReadPlatformKey(c)
  <2>1. OneCalls(c) /\ CallFits(c)' /\ UNCHANGED <<invitations, sent, done>>
    BY <1>13, <1>i, ReadPlatformKeyFits
  <2> QED
    BY <1>3, <2>1 DEF Goal
<1>14. CASE Calling!ReadPrimaryDid(c)
  <2>1. OneCalls(c) /\ CallFits(c)' /\ UNCHANGED <<invitations, sent, done>>
    BY <1>14, <1>i, ReadPrimaryFits
  <2> QED
    BY <1>3, <2>1 DEF Goal
<1>15. CASE Calling!Shorten(c)
  <2>1. OneCalls(c) /\ CallFits(c)' /\ UNCHANGED <<invitations, sent, done>>
    BY <1>15, <1>i, ShortenFits
  <2> QED
    BY <1>3, <2>1 DEF Goal
<1>16. CASE Calling!Lost(c)
  <2>1. OneCalls(c) /\ CallFits(c)' /\ UNCHANGED <<invitations, sent, done>>
    BY <1>16, <1>i, LostFits
  <2> QED
    BY <1>3, <2>1 DEF Goal
<1>17. Goal
  BY <1>4, <1>5, <1>6, <1>7, <1>8, <1>9, <1>10, <1>11, <1>12, <1>13, <1>14, <1>15, <1>16
     DEF Calling!Step, Goal
<1> QED
  BY <1>17 DEF Goal

LEMMA CallsInductive ==
  ASSUME CallsInv, Calling!Next
  PROVE  CallsInv'
<1>i. /\ CallsTyped /\ RowsFit /\ WalletsFit /\ Calling!InvitationsOfWallet /\ \A c \in Calls : CallFits(c)
      /\ DoneTyped /\ Calling!OwnWallet /\ Calling!KeyFits /\ Calling!DidIsKnown
  BY DEF CallsInv
<1>1. ASSUME NEW c \in Calls, Calling!Ask(c) \/ Calling!Step(c) \/ Calling!Lost(c)
      PROVE  CallsInv'
  <2>1. /\ OneCalls(c) /\ CallFits(c)'
        /\ invitations' \in [Orgs -> Seq([n : Nat, wallet : CallWallets])] /\ Calling!InvitationsOfWallet'
        /\ DoneTyped' /\ Calling!OwnWallet' /\ Calling!KeyFits' /\ Calling!DidIsKnown'
    BY <1>1, CallSteps
  <2>2. CallsTyped'
    BY <1>i, <2>1 DEF OneCalls, CallsTyped, Sets, ToRead, KeyOrNone, DidOrNone
  <2>3. RowsFit' /\ WalletsFit'
    <3>1. UNCHANGED <<rows, times, wallets, held>>
      BY <2>1 DEF OneCalls
    <3> QED
      BY <1>i, <3>1 DEF RowsFit, WalletsFit, Calling!Exists, Calling!Complete
  <2>4. \A d \in Calls : CallFits(d)'
    <3>1. \A d \in Calls \ {c} : CallFits(d)'
      BY <1>i, <2>1, OtherCall
    <3> QED
      BY <2>1, <3>1
  <2> QED
    BY <2>1, <2>2, <2>3, <2>4 DEF CallsInv
<1>2. ASSUME Shifts, CallsTyped', RowsFit', WalletsFit', Calling!InvitationsOfWallet' PROVE CallsInv'
  <2>1. \A c \in Calls : CallFits(c)'
    BY <1>2, <1>i, ShiftKeepsCall
  <2>2. DoneTyped' /\ Calling!OwnWallet' /\ Calling!KeyFits' /\ Calling!DidIsKnown'
    BY <1>2, <1>i, ShiftKeepsDone
  <2> QED
    BY <1>2, <2>1, <2>2 DEF CallsInv
<1>3. ASSUME NEW o \in Orgs, Calling!DeleteWallet(o) PROVE CallsInv'
  BY <1>2, <1>3, <1>i, DeleteFits
<1>4. ASSUME NEW o \in Orgs, Calling!StartWallet(o) PROVE CallsInv'
  BY <1>2, <1>4, <1>i, StartFits
<1>5. ASSUME NEW w \in wallets, Calling!RemoveWallet(w) PROVE CallsInv'
  BY <1>2, <1>5, <1>i, RemoveFits
<1>6. ASSUME NEW o \in Orgs, NEW type \in {"shared", "dedicated"}, NEW a \in Agents, Calling!FinishWallet(o, type, a)
      PROVE  CallsInv'
  BY <1>2, <1>6, <1>i, FinishFits
<1> QED
  BY <1>1, <1>3, <1>4, <1>5, <1>6 DEF Calling!Next

\* What the invariant says of the calls.
LEMMA CallsOk ==
  ASSUME CallsInv
  PROVE  /\ Calling!TypeOK /\ Calling!OwnWallet /\ Calling!KeyFits
         /\ Calling!InvitationsOfWallet /\ Calling!DidIsKnown
<1>i. CallsTyped /\ RowsFit /\ WalletsFit /\ DoneTyped
  BY DEF CallsInv
<1>1. \A o \in Orgs : rows[o].type \in {"none", "half", "shared", "dedicated"}
  BY <1>i, RowOfIs DEF RowsFit
<1>2. \A w \in wallets : w.org \in Orgs /\ w.agent \in Agents
  BY <1>i DEF WalletsFit, CallWallets
<1>3. \A c \in Calls : /\ at[c] \in CallStages /\ todo[c] \subseteq {"row", "endpoint", "type"}
  BY <1>i DEF CallsTyped
<1>4. \A x \in sent : x[1] \in Calls /\ \E a \in Agents : x[3] = Calling!KeyOf(a)
  BY <1>i DEF DoneTyped, CallKeys
<1>5. asked \in Plans /\ failures \in 0..MaxFaults
  BY <1>i DEF CallsTyped
<1>6. Calling!TypeOK
  BY <1>1, <1>2, <1>3, <1>4, <1>5 DEF Calling!TypeOK, CallStages
<1> QED
  BY <1>6 DEF CallsInv

-----------------------------------------------------------------------------
\* Cloud wallets (CloudWallet): an inductive invariant.

HostTenants == {Hosting!NoTenant}
CloudOps    == {"configure"} \cup Hosting!HolderRoutes

\* A row of a user names the tenant made for it, at the agent of a base wallet
\* whose key is right.
SubRow(r) ==
  /\ r.type = "sub" /\ r.tenant \in tenants /\ r.tenant.for = r.user
  /\ r.tenant.agent = r.agent /\ r.key = Hosting!KeyOf(r.agent)
  /\ \E b \in rows : b.type = "base" /\ b.agent = r.agent
BaseRow(r) == r.type = "base" /\ r.tenant = Hosting!NoTenant

CloudRows ==
  /\ \A r \in rows : /\ r.user \in Users /\ r.agent \in Hosts
                     /\ SubRow(r) \/ BaseRow(r)
  /\ \A r, q \in rows : r.user = q.user => r = q

CloudTyped ==
  /\ asked \in CloudPlans
  /\ at \in [CloudCalls -> Hosting!Stages]
  /\ tenants \subseteq Hosting!Tenants
  /\ made \in [CloudCalls -> Hosting!Tenants \cup HostTenants]
  /\ DOMAIN base = CloudCalls /\ DOMAIN wallet = CloudCalls
  /\ \A c \in CloudCalls : /\ base[c] \in rows \cup {Hosting!NoRow}
                           /\ wallet[c] \in rows \cup {Hosting!NoRow}
  /\ failures \in 0..MaxFaults

\* What a request has found by the stage it is at.
FoundBase(c) == base[c] \in rows /\ base[c].type = "base"
Found(c) ==
  /\ at[c] = "store base" => Hosting!op(c) = "configure"
  /\ at[c] \in {"tenant", "store wallet"} => Hosting!op(c) = "create"
  /\ at[c] \in {"wallet", "send"} => Hosting!op(c) \notin {"configure", "create"}
  /\ at[c] = "base" => Hosting!op(c) # "configure"
  /\ at[c] = "health" => Hosting!op(c) # "configure"
  /\ at[c] = "reach" /\ Hosting!op(c) # "configure" => Hosting!op(c) # "create" /\ FoundBase(c)
  /\ at[c] \in {"wallet", "health", "tenant", "store wallet", "send"} => FoundBase(c)
  /\ at[c] = "health" /\ Hosting!op(c) # "create" => wallet[c] \in rows /\ wallet[c].tenant # Hosting!NoTenant
                                                      /\ wallet[c].user = Hosting!user(c)
  /\ at[c] = "send" => wallet[c] \in rows /\ wallet[c].tenant # Hosting!NoTenant
                       /\ wallet[c].user = Hosting!user(c)
  /\ at[c] = "store wallet" =>
       /\ made[c] \in tenants /\ made[c].for = Hosting!user(c) /\ made[c].agent = base[c].agent
       /\ base[c].key = Hosting!KeyOf(base[c].agent)
       /\ made[c] # Hosting!NoTenant
  /\ at[c] = "answered" /\ Hosting!op(c) = "create" =>
       /\ made[c] \in tenants /\ made[c].for = Hosting!user(c)
       /\ \E r \in rows : r.user = Hosting!user(c) /\ r.tenant = made[c] /\ r.agent = made[c].agent

\* Where the calls went.
SentHome ==
  \A m \in sent : /\ m[3] # Hosting!NoTenant
                  /\ \E b \in rows : b.type = "base" /\ b.agent = m[2]
                  /\ \E b \in rows : b.type = "base" /\ b.agent = m[3].agent /\ m[4] = Hosting!KeyOf(b.agent)

CloudInv ==
  /\ CloudTyped /\ CloudRows
  /\ \A c \in CloudCalls : Found(c)
  /\ Hosting!OwnWalletOnly /\ SentHome

LEMMA CloudConstants ==
  /\ MaxFaults \in Nat
  /\ \A f \in CloudPlans : \A c \in CloudCalls :
       f[c].op \in CloudOps /\ f[c].user \in Users /\ f[c].agent \in Hosts
<1>1. Hosting!ConstantsAssumption
  BY InstancesAssumption
<1> QED
  BY <1>1 DEF Hosting!ConstantsAssumption, CloudOps

LEMMA CloudInit == Hosting!Init => CloudInv
<1> SUFFICES ASSUME Hosting!Init PROVE CloudInv
  OBVIOUS
<1>1. CloudTyped
  BY CloudConstants DEF Hosting!Init, CloudTyped, Hosting!Stages, HostTenants
<1>2. CloudRows /\ Hosting!OwnWalletOnly /\ SentHome
  BY DEF Hosting!Init, CloudRows, Hosting!OwnWalletOnly, SentHome
<1>3. \A c \in CloudCalls : Found(c)
  BY DEF Hosting!Init, Found
<1> QED
  BY <1>1, <1>2, <1>3 DEF CloudInv

\* What a step of one request leaves of the others: rows and tenants only grow.
LEMMA OthersFind ==
  ASSUME NEW c \in CloudCalls, Found(c), rows \subseteq rows', tenants \subseteq tenants',
         UNCHANGED <<asked, at[c], base[c], wallet[c], made[c]>>
  PROVE  Found(c)'
BY DEF Found, FoundBase, Hosting!op, Hosting!user


\* What a step of a request changes.
OneServed(c) ==
  /\ asked' = asked
  /\ rows \subseteq rows' /\ tenants \subseteq tenants'
  /\ \A d \in CloudCalls \ {c} : UNCHANGED <<at[d], base[d], wallet[d], made[d]>>
  /\ DOMAIN base' = CloudCalls /\ DOMAIN wallet' = CloudCalls
  /\ at' \in [CloudCalls -> Hosting!Stages]
  /\ failures' \in 0..MaxFaults

LEMMA CloudEffect ==
  ASSUME CloudTyped, NEW c \in CloudCalls, Hosting!Ask(c) \/ Hosting!Serve(c) \/ Hosting!Fail(c)
  PROVE  OneServed(c)
<1>f. failures < MaxFaults => failures + 1 \in 0..MaxFaults
  BY CloudConstants DEF CloudTyped
<1>g. failures \in 0..MaxFaults
  BY DEF CloudTyped
<1> USE DEF OneServed, Hosting!GoTo, Hosting!Stages, Hosting!NoBase, Hosting!Store
<1>1. ASSUME Hosting!Ask(c) PROVE OneServed(c)
  BY <1>1 DEF Hosting!Ask, CloudTyped
<1>2. ASSUME Hosting!ReachAgent(c) PROVE OneServed(c)
  BY <1>2 DEF Hosting!ReachAgent, CloudTyped
<1>3. ASSUME Hosting!LookForRow(c) PROVE OneServed(c)
  BY <1>3 DEF Hosting!LookForRow, CloudTyped
<1>4. ASSUME Hosting!StoreBase(c) PROVE OneServed(c)
  BY <1>4 DEF Hosting!StoreBase, CloudTyped
<1>5. ASSUME Hosting!ReadBase(c) PROVE OneServed(c)
  BY <1>5 DEF Hosting!ReadBase, CloudTyped
<1>6. ASSUME Hosting!ReadWallet(c) PROVE OneServed(c)
  BY <1>6 DEF Hosting!ReadWallet, CloudTyped
<1>7. ASSUME Hosting!CheckHealth(c) PROVE OneServed(c)
  BY <1>7 DEF Hosting!CheckHealth, CloudTyped
<1>8. ASSUME Hosting!MakeTenant(c) PROVE OneServed(c)
  <2>1. failures' \in 0..MaxFaults
    BY <1>8, <1>f, <1>g DEF Hosting!MakeTenant
  <2>2. asked' = asked /\ rows' = rows /\ tenants \subseteq tenants' /\ UNCHANGED <<base, wallet>>
    BY <1>8 DEF Hosting!MakeTenant
  <2>3. \A d \in CloudCalls \ {c} : at'[d] = at[d] /\ made'[d] = made[d]
    BY <1>8 DEF Hosting!MakeTenant, CloudTyped
  <2>4. at' \in [CloudCalls -> Hosting!Stages]
    BY <1>8 DEF Hosting!MakeTenant, CloudTyped
  <2> QED
    BY <2>1, <2>2, <2>3, <2>4 DEF CloudTyped
<1>9. ASSUME Hosting!StoreWallet(c) PROVE OneServed(c)
  BY <1>9 DEF Hosting!StoreWallet, CloudTyped
<1>10. ASSUME Hosting!Send(c) PROVE OneServed(c)
  <2>1. failures' \in 0..MaxFaults
    BY <1>10, <1>f, <1>g DEF Hosting!Send
  <2>2. asked' = asked /\ rows' = rows /\ tenants \subseteq tenants' /\ UNCHANGED <<base, wallet>>
    BY <1>10 DEF Hosting!Send
  <2>3. \A d \in CloudCalls \ {c} : at'[d] = at[d] /\ made'[d] = made[d]
    BY <1>10 DEF Hosting!Send, CloudTyped
  <2>4. at' \in [CloudCalls -> Hosting!Stages]
    BY <1>10 DEF Hosting!Send, CloudTyped
  <2> QED
    BY <2>1, <2>2, <2>3, <2>4 DEF CloudTyped
<1>11. ASSUME Hosting!Fail(c) PROVE OneServed(c)
  <2>1. failures' \in 0..MaxFaults
    BY <1>11, <1>f, <1>g DEF Hosting!Fail
  <2>2. asked' = asked /\ rows' = rows /\ tenants \subseteq tenants' /\ UNCHANGED <<base, wallet>>
    BY <1>11 DEF Hosting!Fail
  <2>3. \A d \in CloudCalls \ {c} : at'[d] = at[d] /\ made'[d] = made[d]
    BY <1>11 DEF Hosting!Fail, CloudTyped
  <2>4. at' \in [CloudCalls -> Hosting!Stages]
    BY <1>11 DEF Hosting!Fail, CloudTyped
  <2> QED
    BY <2>1, <2>2, <2>3, <2>4 DEF CloudTyped
<1> HIDE DEF OneServed
<1> QED
  BY <1>1, <1>2, <1>3, <1>4, <1>5, <1>6, <1>7, <1>8, <1>9, <1>10, <1>11 DEF Hosting!Serve

\* A row that may be stored is the first of its user.
LEMMA CloudRowsGrow ==
  ASSUME CloudRows, NEW c \in CloudCalls, NEW r, r.user \in Users, r.agent \in Hosts,
         SubRow(r) \/ BaseRow(r), Hosting!Store(c, r), tenants' = tenants
  PROVE  CloudRows'
<1>1. CASE Hosting!RowsOf(r.user) = {}
  <2>1. rows' = rows \cup {r}
    BY <1>1 DEF Hosting!Store, Hosting!MayStore
  <2>2. \A q \in rows : q.user # r.user
    BY <1>1 DEF Hosting!RowsOf
  <2>3. \A q \in rows' : q.user \in Users /\ q.agent \in Hosts /\ (SubRow(q) \/ BaseRow(q))'
    BY <2>1 DEF CloudRows, SubRow, BaseRow
  <2>4. \A q, o \in rows' : q.user = o.user => q = o
    BY <2>1, <2>2 DEF CloudRows
  <2> QED
    BY <2>3, <2>4 DEF CloudRows
<1>2. CASE Hosting!RowsOf(r.user) # {}
  BY <1>2 DEF Hosting!Store, Hosting!MayStore, CloudRows, SubRow, BaseRow
<1> QED
  BY <1>1, <1>2

\* The operation of a request.
LEMMA CloudOp ==
  ASSUME CloudTyped, NEW c \in CloudCalls
  PROVE  /\ Hosting!op(c) \in CloudOps /\ Hosting!user(c) \in Users /\ asked[c].agent \in Hosts
         /\ asked \in CloudPlans
BY CloudConstants DEF CloudTyped, Hosting!op, Hosting!user

\* The rows.
LEMMA CloudRowsStep ==
  ASSUME CloudTyped, CloudRows, NEW c \in CloudCalls, Found(c),
         Hosting!Ask(c) \/ Hosting!Serve(c) \/ Hosting!Fail(c)
  PROVE  CloudRows'
<1>1. ASSUME Hosting!StoreBase(c) PROVE CloudRows'
  <2> DEFINE r == [type |-> "base", user |-> Hosting!user(c), agent |-> asked[c].agent,
                   key |-> asked[c].key, tenant |-> Hosting!NoTenant]
  <2>1. Hosting!Store(c, r) /\ tenants' = tenants
    BY <1>1 DEF Hosting!StoreBase
  <2>2. r.user \in Users /\ r.agent \in Hosts /\ BaseRow(r)
    BY CloudOp DEF BaseRow
  <2> HIDE DEF r
  <2> QED
    BY <2>1, <2>2, CloudRowsGrow
<1>2. ASSUME Hosting!StoreWallet(c) PROVE CloudRows'
  <2> DEFINE r == [type |-> "sub", user |-> Hosting!user(c), agent |-> base[c].agent,
                   key |-> base[c].key, tenant |-> made[c]]
  <2>1. Hosting!Store(c, r) /\ tenants' = tenants /\ at[c] = "store wallet"
    BY <1>2 DEF Hosting!StoreWallet
  <2>2. FoundBase(c) /\ made[c] \in tenants /\ made[c].for = Hosting!user(c)
        /\ made[c].agent = base[c].agent /\ base[c].key = Hosting!KeyOf(base[c].agent)
    BY <2>1 DEF Found
  <2>3. base[c].agent \in Hosts
    BY <2>2 DEF FoundBase, CloudRows
  <2>4. r.user \in Users /\ r.agent \in Hosts
    BY <2>3, CloudOp
  <2>5. SubRow(r)
    BY <2>2 DEF SubRow, FoundBase
  <2> HIDE DEF r
  <2> QED
    BY <2>1, <2>4, <2>5, CloudRowsGrow
<1>3. ASSUME rows' = rows, tenants \subseteq tenants' PROVE CloudRows'
  BY <1>3 DEF CloudRows, SubRow, BaseRow
<1>4. tenants \subseteq tenants'
  BY CloudEffect DEF OneServed
<1>5. Hosting!StoreBase(c) \/ Hosting!StoreWallet(c) \/ rows' = rows
  BY DEF Hosting!Serve, Hosting!Ask, Hosting!ReachAgent, Hosting!LookForRow, Hosting!ReadBase, Hosting!ReadWallet,
         Hosting!CheckHealth, Hosting!MakeTenant, Hosting!Send, Hosting!Fail
<1> QED
  BY <1>1, <1>2, <1>3, <1>4, <1>5

\* What is told of a request is found by it.
LEMMA FoundStep ==
  ASSUME CloudTyped, CloudRows, NEW c \in CloudCalls, Found(c),
         Hosting!Ask(c) \/ Hosting!Serve(c) \/ Hosting!Fail(c)
  PROVE  Found(c)' /\ base'[c] \in rows' \cup {Hosting!NoRow} /\ wallet'[c] \in rows' \cup {Hosting!NoRow}
                   /\ made'[c] \in Hosting!Tenants \cup HostTenants
<1> DEFINE G == Found(c)' /\ base'[c] \in rows' \cup {Hosting!NoRow} /\ wallet'[c] \in rows' \cup {Hosting!NoRow}
                   /\ made'[c] \in Hosting!Tenants \cup HostTenants
<1>t. /\ base[c] \in rows \cup {Hosting!NoRow} /\ wallet[c] \in rows \cup {Hosting!NoRow}
      /\ made[c] \in Hosting!Tenants \cup HostTenants
      /\ at \in [CloudCalls -> Hosting!Stages] /\ made \in [CloudCalls -> Hosting!Tenants \cup HostTenants]
      /\ DOMAIN base = CloudCalls /\ DOMAIN wallet = CloudCalls
  BY DEF CloudTyped
<1>o. UNCHANGED <<Hosting!op(c), Hosting!user(c)>>
  BY CloudEffect DEF OneServed, Hosting!op, Hosting!user
<1>p. Hosting!op(c) \in CloudOps
  BY CloudOp
<1> USE <1>t DEF Hosting!GoTo, FoundBase
<1>1. ASSUME Hosting!Ask(c) PROVE G
  <2>1. UNCHANGED <<rows, tenants, base, wallet, made>>
    BY <1>1 DEF Hosting!Ask
  <2>2. at'[c] \in {"refused", "reach", "look", "base"}
        /\ (at'[c] = "reach" => Hosting!op(c) = "configure")
        /\ (at'[c] = "base" => Hosting!op(c) # "configure")
    BY <1>1 DEF Hosting!Ask
  <2> QED
    BY <1>o, <2>1, <2>2 DEF Found
<1>2. ASSUME Hosting!ReachAgent(c) PROVE G
  <2>1. UNCHANGED <<rows, tenants, base, wallet, made>>
    BY <1>2 DEF Hosting!ReachAgent
  <2>2. at[c] = "reach" /\ at'[c] = IF Hosting!op(c) = "configure" THEN "look" ELSE "wallet"
    BY <1>2 DEF Hosting!ReachAgent
  <2> QED
    BY <1>o, <2>1, <2>2 DEF Found
<1>3. ASSUME Hosting!LookForRow(c) PROVE G
  <2>1. UNCHANGED <<rows, tenants, base, wallet, made>>
    BY <1>3 DEF Hosting!LookForRow
  <2>2. at'[c] \in {"store base", "base", "refused"}
        /\ (at'[c] = "store base" => Hosting!op(c) = "configure")
        /\ (at'[c] = "base" => Hosting!op(c) # "configure")
    BY <1>3 DEF Hosting!LookForRow
  <2> QED
    BY <1>o, <2>1, <2>2 DEF Found
<1>4. ASSUME Hosting!StoreBase(c) PROVE G
  <2>1. UNCHANGED <<tenants, base, wallet, made>> /\ at[c] = "store base" /\ at'[c] \in {"answered", "failed"} /\ rows \subseteq rows'
    BY <1>4 DEF Hosting!StoreBase, Hosting!Store
  <2>2. Hosting!op(c) = "configure"
    BY <2>1 DEF Found
  <2> QED
    BY <1>o, <2>1, <2>2 DEF Found
<1>5. ASSUME Hosting!ReadBase(c) PROVE G
  <2>1. UNCHANGED <<rows, tenants, wallet, made>> /\ at[c] = "base"
    BY <1>5 DEF Hosting!ReadBase
  <2>2. \/ at'[c] = "failed" /\ base' = base
        \/ /\ base'[c] \in rows /\ base'[c].type = "base"
           /\ at'[c] = IF Hosting!op(c) = "create" THEN "health" ELSE "reach"
    BY <1>5 DEF Hosting!ReadBase, Hosting!NoBase, Hosting!Bases
  <2>3. Hosting!op(c) # "configure"
    BY <2>1 DEF Found
  <2> QED
    BY <1>o, <2>1, <2>2, <2>3 DEF Found
<1>6. ASSUME Hosting!ReadWallet(c) PROVE G
  <2>1. UNCHANGED <<rows, tenants, base, made>> /\ at[c] = "wallet"
    BY <1>6 DEF Hosting!ReadWallet
  <2>2. \/ at'[c] = "failed" /\ wallet' = wallet
        \/ /\ wallet'[c] \in rows /\ wallet'[c].tenant # Hosting!NoTenant /\ wallet'[c].user = Hosting!user(c)
           /\ at'[c] \in {"health", "send"}
    BY <1>6 DEF Hosting!ReadWallet, Hosting!WalletsOf, Hosting!RowsOf
  <2>3. Hosting!op(c) \notin {"configure", "create"} /\ FoundBase(c)
    BY <2>1 DEF Found
  <2> QED
    BY <1>o, <2>1, <2>2, <2>3 DEF Found
<1>7. ASSUME Hosting!CheckHealth(c) PROVE G
  <2>1. UNCHANGED <<rows, tenants, base, wallet, made>>
    BY <1>7 DEF Hosting!CheckHealth
  <2>2. at[c] = "health" /\ at'[c] = IF Hosting!op(c) = "create" THEN "tenant" ELSE "send"
    BY <1>7 DEF Hosting!CheckHealth
  <2> QED
    BY <1>o, <2>1, <2>2 DEF Found
<1>8. ASSUME Hosting!MakeTenant(c) PROVE G
  <2> DEFINE t == [agent |-> base[c].agent, for |-> Hosting!user(c), call |-> c]
  <2>1. UNCHANGED <<rows, base, wallet>> /\ at[c] = "tenant" /\ tenants \subseteq tenants'
    BY <1>8 DEF Hosting!MakeTenant
  <2>2. Hosting!op(c) = "create" /\ FoundBase(c)
    BY <2>1 DEF Found
  <2>3. \/ at'[c] = "failed" /\ made' = made
        \/ /\ at'[c] = "store wallet" /\ made'[c] = t /\ t \in tenants'
           /\ base[c].key = Hosting!KeyOf(base[c].agent)
    BY <1>8 DEF Hosting!MakeTenant
  <2>4. t.for = Hosting!user(c) /\ t.agent = base[c].agent /\ t.call = c
    OBVIOUS
  <2>5. t \in Hosting!Tenants
    <3>1. base[c].agent \in Hosts /\ Hosting!user(c) \in Users
      BY <2>2, CloudOp DEF CloudRows, FoundBase
    <3> QED
      BY <3>1 DEF Hosting!Tenants
  <2>6. t # Hosting!NoTenant
    BY DEF Hosting!NoTenant
  <2> HIDE DEF t
  <2> QED
    BY <1>o, <2>1, <2>2, <2>3, <2>4, <2>5, <2>6 DEF Found
<1>9. ASSUME Hosting!StoreWallet(c) PROVE G
  <2> DEFINE r == [type |-> "sub", user |-> Hosting!user(c), agent |-> base[c].agent,
                   key |-> base[c].key, tenant |-> made[c]]
  <2>1. UNCHANGED <<tenants, base, wallet, made>> /\ at[c] = "store wallet" /\ Hosting!Store(c, r)
    BY <1>9 DEF Hosting!StoreWallet
  <2>2. r.user = Hosting!user(c) /\ r.agent = base[c].agent /\ r.tenant = made[c]
    OBVIOUS
  <2> HIDE DEF r
  <2>3. \/ at'[c] = "failed" /\ rows' = rows
        \/ at'[c] = "answered" /\ rows' = rows \cup {r}
    BY <2>1 DEF Hosting!Store
  <2>4. made[c] \in tenants /\ made[c].for = Hosting!user(c) /\ made[c].agent = base[c].agent
    BY <2>1 DEF Found
  <2> QED
    BY <1>o, <2>1, <2>2, <2>3, <2>4 DEF Found
<1>10. ASSUME Hosting!Send(c) PROVE G
  <2>1. UNCHANGED <<rows, tenants, base, wallet, made>> /\ at[c] = "send" /\ at'[c] \in {"answered", "failed"}
    BY <1>10 DEF Hosting!Send
  <2>2. Hosting!op(c) # "create"
    BY <2>1 DEF Found
  <2> QED
    BY <1>o, <2>1, <2>2 DEF Found
<1>11. ASSUME Hosting!Fail(c) PROVE G
  <2>1. UNCHANGED <<rows, tenants, base, wallet, made>>
    BY <1>11 DEF Hosting!Fail
  <2>2. at'[c] = "failed"
    BY <1>11 DEF Hosting!Fail
  <2> QED
    BY <1>o, <2>1, <2>2 DEF Found
<1> HIDE DEF G
<1>q. G
  BY <1>1, <1>2, <1>3, <1>4, <1>5, <1>6, <1>7, <1>8, <1>9, <1>10, <1>11 DEF Hosting!Serve
<1> QED
  BY <1>q DEF G

\* Calls that were sent.
LEMMA SentStep ==
  ASSUME CloudTyped, CloudRows, NEW c \in CloudCalls, Found(c), Hosting!OwnWalletOnly, SentHome,
         Hosting!Ask(c) \/ Hosting!Serve(c) \/ Hosting!Fail(c)
  PROVE  Hosting!OwnWalletOnly' /\ SentHome'
<1>o. \A d : UNCHANGED <<Hosting!user(d)>>
  BY CloudEffect DEF OneServed, Hosting!user
<1>r. rows \subseteq rows'
  BY CloudEffect DEF OneServed
<1>1. ASSUME UNCHANGED <<sent, done>> PROVE Hosting!OwnWalletOnly' /\ SentHome'
  BY <1>1, <1>o, <1>r DEF Hosting!OwnWalletOnly, SentHome, Hosting!user
<1>2. ASSUME Hosting!Send(c) PROVE Hosting!OwnWalletOnly' /\ SentHome'
  <2> DEFINE w == wallet[c]  a == base[c].agent
  <2>1. at[c] = "send" /\ sent' = sent \cup {<<c, a, w.tenant, w.key>>} /\ done' \subseteq done \cup {<<c, w.tenant>>}
    BY <1>2 DEF Hosting!Send
  <2>2. w \in rows /\ w.tenant # Hosting!NoTenant /\ w.user = Hosting!user(c) /\ FoundBase(c)
    BY <2>1 DEF Found
  <2>3. SubRow(w)
    BY <2>2 DEF CloudRows, BaseRow
  <2>4. w.tenant.for = Hosting!user(c)
    BY <2>2, <2>3 DEF SubRow
  <2>5. \E b \in rows : b.type = "base" /\ b.agent = w.tenant.agent /\ w.key = Hosting!KeyOf(b.agent)
    BY <2>3 DEF SubRow
  <2>6. \E b \in rows : b.type = "base" /\ b.agent = a
    BY <2>2 DEF FoundBase
  <2> HIDE DEF w, a
  <2>7. Hosting!OwnWalletOnly'
    BY <1>o, <2>1, <2>4 DEF Hosting!OwnWalletOnly, Hosting!user
  <2>8. SentHome'
    <3> SUFFICES ASSUME NEW m \in sent'
                 PROVE  /\ m[3] # Hosting!NoTenant
                        /\ \E b \in rows' : b.type = "base" /\ b.agent = m[2]
                        /\ \E b \in rows' : b.type = "base" /\ b.agent = m[3].agent /\ m[4] = Hosting!KeyOf(b.agent)
      BY DEF SentHome
    <3>1. CASE m \in sent
      BY <1>r, <3>1 DEF SentHome
    <3>2. CASE m = <<c, a, w.tenant, w.key>>
      BY <1>r, <2>2, <2>5, <2>6, <3>2
    <3> QED
      BY <2>1, <3>1, <3>2
  <2> QED
    BY <2>7, <2>8
<1>3. Hosting!Send(c) \/ UNCHANGED <<sent, done>>
  BY DEF Hosting!Serve, Hosting!Ask, Hosting!ReachAgent, Hosting!LookForRow, Hosting!ReadBase, Hosting!ReadWallet,
         Hosting!CheckHealth, Hosting!MakeTenant, Hosting!StoreBase, Hosting!StoreWallet, Hosting!Fail
<1> QED
  BY <1>1, <1>2, <1>3

LEMMA CloudInductive == CloudInv /\ Hosting!Next => CloudInv'
<1> SUFFICES ASSUME CloudInv, Hosting!Next PROVE CloudInv'
  OBVIOUS
<1>1. PICK c \in CloudCalls : Hosting!Ask(c) \/ Hosting!Serve(c) \/ Hosting!Fail(c)
  BY DEF Hosting!Next
<1>2. CloudTyped /\ CloudRows /\ (\A d \in CloudCalls : Found(d)) /\ Hosting!OwnWalletOnly /\ SentHome
  BY DEF CloudInv
<1>3. OneServed(c)
  BY <1>1, <1>2, CloudEffect
<1>4. Found(c)' /\ base'[c] \in rows' \cup {Hosting!NoRow} /\ wallet'[c] \in rows' \cup {Hosting!NoRow}
                /\ made'[c] \in Hosting!Tenants \cup HostTenants
  BY <1>1, <1>2, FoundStep
<1>5. \A d \in CloudCalls \ {c} : Found(d)'
  BY <1>2, <1>3, OthersFind DEF OneServed
<1>6. CloudRows' /\ Hosting!OwnWalletOnly' /\ SentHome'
  BY <1>1, <1>2, CloudRowsStep, SentStep
<1>7. CloudTyped'
  <2>1. tenants' \subseteq Hosting!Tenants
    <3>1. Hosting!MakeTenant(c) \/ tenants' = tenants
      BY <1>1 DEF Hosting!Serve, Hosting!Ask, Hosting!ReachAgent, Hosting!LookForRow, Hosting!ReadBase, Hosting!ReadWallet,
         Hosting!CheckHealth, Hosting!Send, Hosting!StoreBase, Hosting!StoreWallet, Hosting!Fail
    <3>2. ASSUME Hosting!MakeTenant(c) PROVE tenants' \subseteq Hosting!Tenants
      <4> DEFINE t == [agent |-> base[c].agent, for |-> Hosting!user(c), call |-> c]
      <4>1. at[c] = "tenant" /\ tenants' \subseteq tenants \cup {t}
        BY <3>2 DEF Hosting!MakeTenant
      <4>2. base[c] \in rows
        BY <1>2, <4>1 DEF Found, FoundBase
      <4>3. t \in Hosting!Tenants
        <5>1. base[c].agent \in Hosts /\ Hosting!user(c) \in Users
          BY <1>2, <4>2, CloudOp DEF CloudRows
        <5> QED
          BY <5>1 DEF Hosting!Tenants
      <4> HIDE DEF t
      <4> QED
        BY <1>2, <4>1, <4>3 DEF CloudTyped
    <3> QED
      BY <1>2, <3>1, <3>2 DEF CloudTyped
  <2>2. made' \in [CloudCalls -> Hosting!Tenants \cup HostTenants]
    <3>1. \A d \in CloudCalls : made'[d] \in Hosting!Tenants \cup HostTenants
      BY <1>2, <1>3, <1>4 DEF OneServed, CloudTyped
    <3>2. made' = made \/ \E t : made' = [made EXCEPT ![c] = t]
      BY <1>1 DEF Hosting!Serve, Hosting!Ask, Hosting!ReachAgent, Hosting!LookForRow, Hosting!ReadBase, Hosting!ReadWallet,
         Hosting!CheckHealth, Hosting!Send, Hosting!StoreBase, Hosting!StoreWallet, Hosting!Fail, Hosting!MakeTenant
    <3>3. made \in [CloudCalls -> Hosting!Tenants \cup HostTenants]
      BY <1>2 DEF CloudTyped
    <3>4. made' \in [CloudCalls -> {made'[d] : d \in CloudCalls}]
      BY <3>2, <3>3
    <3> QED
      BY <3>1, <3>4
  <2>3. \A d \in CloudCalls : /\ base'[d] \in rows' \cup {Hosting!NoRow}
                              /\ wallet'[d] \in rows' \cup {Hosting!NoRow}
    <3>1. \A d \in CloudCalls \ {c} : base'[d] = base[d] /\ wallet'[d] = wallet[d]
      BY <1>3 DEF OneServed
    <3>2. \A d \in CloudCalls : base[d] \in rows \cup {Hosting!NoRow} /\ wallet[d] \in rows \cup {Hosting!NoRow}
      BY <1>2 DEF CloudTyped
    <3>3. rows \subseteq rows'
      BY <1>3 DEF OneServed
    <3> QED
      BY <1>4, <3>1, <3>2, <3>3
  <2> QED
    BY <1>2, <1>3, <2>1, <2>2, <2>3 DEF CloudTyped, OneServed
<1> QED
  BY <1>4, <1>5, <1>6, <1>7 DEF CloudInv

LEMMA CloudKept ==
  CloudInv => Hosting!TypeOK /\ Hosting!CreatedIsTheirs /\ Hosting!OwnWalletOnly /\ Hosting!CallsGoHome
<1> SUFFICES ASSUME CloudInv
             PROVE  Hosting!TypeOK /\ Hosting!CreatedIsTheirs /\ Hosting!OwnWalletOnly /\ Hosting!CallsGoHome
  OBVIOUS
<1>1. Hosting!TypeOK
  <2>1. \A r \in rows : /\ r.type \in {"base", "sub"} /\ r.user \in Users /\ r.agent \in Hosts
                        /\ r.tenant \in tenants \cup {Hosting!NoTenant}
    BY DEF CloudInv, CloudRows, SubRow, BaseRow
  <2>2. \A r, q \in rows : r.user = q.user => r = q
    BY DEF CloudInv, CloudRows
  <2> QED
    BY <2>1, <2>2 DEF CloudInv, CloudTyped, Hosting!TypeOK, HostTenants
<1>2. Hosting!CreatedIsTheirs
  <2> SUFFICES ASSUME NEW c \in CloudCalls, Hosting!op(c) = "create", at[c] = "answered"
               PROVE  /\ made[c] \in tenants /\ made[c].for = Hosting!user(c)
                      /\ \E r \in rows : Hosting!RowsOf(Hosting!user(c)) = {r} /\ r.tenant = made[c] /\ r.agent = made[c].agent
    BY DEF Hosting!CreatedIsTheirs
  <2>1. made[c] \in tenants /\ made[c].for = Hosting!user(c)
        /\ \E r \in rows : r.user = Hosting!user(c) /\ r.tenant = made[c] /\ r.agent = made[c].agent
    BY DEF CloudInv, Found
  <2>2. PICK r \in rows : r.user = Hosting!user(c) /\ r.tenant = made[c] /\ r.agent = made[c].agent
    BY <2>1
  <2>3. \A q \in rows : q.user = Hosting!user(c) => q = r
    BY <2>2 DEF CloudInv, CloudRows
  <2>4. Hosting!RowsOf(Hosting!user(c)) = {r}
    BY <2>2, <2>3 DEF Hosting!RowsOf
  <2> QED
    BY <2>1, <2>2, <2>4
<1>3. Hosting!CallsGoHome
  <2> SUFFICES ASSUME \A b, d \in Hosting!Bases : b.agent = d.agent, NEW m \in sent
               PROVE  m[3] # Hosting!NoTenant /\ m[3].agent = m[2] /\ m[4] = Hosting!KeyOf(m[2])
    BY DEF Hosting!CallsGoHome
  <2>1. m[3] # Hosting!NoTenant
    BY DEF CloudInv, SentHome
  <2>2. PICK b \in rows : b.type = "base" /\ b.agent = m[2]
    BY DEF CloudInv, SentHome
  <2>3. PICK d \in rows : d.type = "base" /\ d.agent = m[3].agent /\ m[4] = Hosting!KeyOf(d.agent)
    BY DEF CloudInv, SentHome
  <2>4. b \in Hosting!Bases /\ d \in Hosting!Bases
    BY <2>2, <2>3 DEF Hosting!Bases
  <2>5. b.agent = d.agent
    BY <2>4
  <2> QED
    BY <2>1, <2>2, <2>3, <2>5
<1> QED
  BY <1>1, <1>2, <1>3 DEF CloudInv

-----------------------------------------------------------------------------
\* The events of a wallet that is made (SpinupEvents): an inductive invariant.

Outgoing == Seq(Telling!Events \X Telling!Connections)

SpinupTyped ==
  /\ kind \in [Provisions -> {"dedicated", "shared"}]
  /\ place \in [Provisions -> Telling!Running \cup {"idle", "row", "done", "failed", "refused", "lost"}]
  /\ wire \in [Provisions -> Outgoing]
  /\ noticed \in [Provisions -> Seq(Telling!Events)]
  /\ row \in [Provisions -> {"none", "processed", "completed"}]
  /\ written \in [Provisions -> BOOLEAN] /\ invited \in [Provisions -> BOOLEAN]
  /\ losses \in 0..MaxLosses /\ crashes \in 0..MaxCrashes

\* What a client has heard or is about to, and how much it is.
Heard(p) == Telling!Told(p) \cup Telling!Coming(p)
Size(p)  == Len(wire[p]) + Len(noticed[p])

DedicatedPcs == {"row", "wallet", "did", "store"}
SharedPcs    == {"tenantRow", "tenant", "tenantWallet", "tenantDid", "details", "tenantStore", "didRow"}

\* Where a provision stands is a place of its kind, bounds what was told, and
\* says how far its row and its DID are.
Reached(p) ==
  /\ place[p] \in DedicatedPcs => kind[p] = "dedicated"
  /\ place[p] \in SharedPcs => kind[p] = "shared"
  /\ place[p] \in {"store", "details", "tenantStore", "didRow", "invite", "done"} => written[p]
  /\ place[p] \in {"didRow", "invite", "done"} => row[p] = "completed"

Little(p) ==
  /\ Size(p) <= 7
  /\ place[p] \in {"idle", "tenantRow"} => Size(p) <= 0
  /\ place[p] \in {"row", "wallet", "tenant"} => Size(p) <= 1
  /\ place[p] = "tenantWallet" => Size(p) <= 2
  /\ place[p] = "tenantDid" => Size(p) <= 3
  /\ place[p] \in {"did", "store", "details"} => Size(p) <= 4
  /\ place[p] \in {"tenantStore", "didRow"} => Size(p) <= 5
  /\ place[p] = "invite" => Size(p) <= 6

Truthful(p) ==
  /\ Telling!InvitationSuccess \in Heard(p) => place[p] = "done"
  /\ Telling!Error \in Heard(p) => place[p] = "failed"
  /\ Telling!DidCompleted \in Heard(p) => written[p]

SpinupInv == SpinupTyped /\ \A p \in Provisions : Reached(p) /\ Little(p) /\ Truthful(p)

LEMMA SpinupBounds == MaxLosses \in Nat /\ MaxCrashes \in Nat
BY InstancesAssumption DEF Telling!ConstantsAssumption

LEMMA SpinupInit == Telling!Init => SpinupInv
<1> SUFFICES ASSUME Telling!Init PROVE SpinupInv
  OBVIOUS
<1>1. SpinupTyped
  BY SpinupBounds DEF Telling!Init, SpinupTyped, Outgoing
<1>2. ASSUME NEW p \in Provisions PROVE Heard(p) = {} /\ Size(p) = 0
  BY <1>2 DEF Telling!Init, Heard, Size, Telling!Told, Telling!Coming, Telling!ToSet
<1>3. ASSUME NEW p \in Provisions PROVE Reached(p)
  BY <1>3 DEF Telling!Init, Reached, DedicatedPcs, SharedPcs
<1>4. ASSUME NEW p \in Provisions PROVE Little(p)
  BY <1>2 DEF Little
<1>5. ASSUME NEW p \in Provisions PROVE Truthful(p)
  BY <1>2 DEF Truthful
<1> QED
  BY <1>1, <1>3, <1>4, <1>5 DEF SpinupInv

LEMMA SizeIsNatural ==
  ASSUME NEW p, wire[p] \in Outgoing, noticed[p] \in Seq(Telling!Events)
  PROVE  Size(p) \in Nat
<1> DEFINE m == Len(wire[p])
           n == Len(noticed[p])
<1>1. m \in Nat /\ n \in Nat /\ Size(p) = m + n
  BY DEF Outgoing, Size
<1> HIDE DEF m, n
<1> QED
  BY <1>1

\* An entry more or less in what is on its way.
LEMMA EntryGone ==
  ASSUME NEW S, NEW w \in Seq(S), NEW i \in 1..Len(w)
  PROVE  /\ Telling!RemoveAt(w, i) \in Seq(S)
         /\ Len(Telling!RemoveAt(w, i)) = Len(w) - 1
         /\ \A j \in 1..Len(Telling!RemoveAt(w, i)) : \E k \in 1..Len(w) : Telling!RemoveAt(w, i)[j] = w[k]
<1> DEFINE a == SubSeq(w, 1, i - 1)
           b == SubSeq(w, i + 1, Len(w))
<1>1. a \in Seq(S) /\ Len(a) = i - 1 /\ \A j \in 1..(i - 1) : a[j] = w[j]
  BY SubSeqProperties
<1>2. b \in Seq(S) /\ Len(b) = Len(w) - i /\ \A j \in 1..(Len(w) - i) : b[j] = w[i + j]
  BY SubSeqProperties
<1>3. Telling!RemoveAt(w, i) = a \o b
  BY DEF Telling!RemoveAt
<1> HIDE DEF a, b
<1>4. a \o b \in Seq(S) /\ Len(a \o b) = Len(w) - 1
  <2>1. Len(w) \in Nat /\ Len(a) + Len(b) = Len(w) - 1
    BY <1>1, <1>2
  <2> QED
    BY <1>1, <1>2, <2>1, ConcatProperties
<1>5. ASSUME NEW j \in 1..Len(a \o b) PROVE \E k \in 1..Len(w) : (a \o b)[j] = w[k]
  <2>1. CASE j <= i - 1
    <3>1. (a \o b)[j] = a[j] /\ a[j] = w[j] /\ j \in 1..Len(w)
      BY <1>1, <1>2, <1>4, <2>1, ConcatProperties
    <3> QED
      BY <3>1
  <2>2. CASE j > i - 1
    <3>1. (a \o b)[j] = b[j - (i - 1)] /\ j - (i - 1) \in 1..(Len(w) - i)
      BY <1>1, <1>2, <1>4, <2>2, ConcatProperties
    <3>2. b[j - (i - 1)] = w[j + 1] /\ j + 1 \in 1..Len(w)
      BY <1>2, <1>4, <3>1
    <3> QED
      BY <3>1, <3>2
  <2> QED
    BY <1>4, <2>1, <2>2
<1> QED
  BY <1>3, <1>4, <1>5

Emits(p, e) == wire' = [wire EXCEPT ![p] = @ \o e] /\ UNCHANGED noticed
Drops(p, i) ==
  /\ wire' = [wire EXCEPT ![p] = Telling!RemoveAt(@, i)]
  /\ noticed' \in {noticed, [noticed EXCEPT ![p] = Append(@, wire[p][i][1])]}

LEMMA Emitted ==
  ASSUME SpinupTyped, NEW p \in Provisions, NEW e \in Outgoing, Emits(p, e)
  PROVE  /\ wire' \in [Provisions -> Outgoing]
         /\ Size(p)' = Size(p) + Len(e)
         /\ Heard(p)' \subseteq Heard(p) \cup {e[i][1] : i \in 1..Len(e)}
         /\ \A q \in Provisions \ {p} : Size(q)' = Size(q) /\ Heard(q)' = Heard(q)
<1>1. wire[p] \in Outgoing /\ noticed[p] \in Seq(Telling!Events)
  BY DEF SpinupTyped
<1>2. /\ wire[p] \o e \in Outgoing /\ Len(wire[p] \o e) = Len(wire[p]) + Len(e)
      /\ \A i \in 1..Len(wire[p] \o e) :
           (wire[p] \o e)[i] = IF i <= Len(wire[p]) THEN wire[p][i] ELSE e[i - Len(wire[p])]
  BY <1>1, ConcatProperties DEF Outgoing
<1>3. noticed' = noticed /\ wire'[p] = wire[p] \o e /\ \A q \in Provisions \ {p} : wire'[q] = wire[q]
  BY DEF SpinupTyped, Emits
<1>4. wire' \in [Provisions -> Outgoing]
  BY <1>2 DEF SpinupTyped, Emits
<1>5. Len(wire[p]) \in Nat /\ Len(e) \in Nat /\ Len(noticed[p]) \in Nat
  BY <1>1 DEF Outgoing
<1>6. Size(p)' = Size(p) + Len(e)
  <2> DEFINE m == Len(wire[p])
             n == Len(noticed[p])
             k == Len(wire'[p])
  <2>1. k = m + Len(e) /\ m \in Nat /\ n \in Nat /\ Len(e) \in Nat
    BY <1>2, <1>3, <1>5
  <2>2. Size(p)' = k + n /\ Size(p) = m + n
    BY <1>3 DEF Size
  <2> HIDE DEF m, n, k
  <2> QED
    BY <2>1, <2>2
<1>7. ASSUME NEW x \in Heard(p)', x \notin Heard(p) PROVE \E i \in 1..Len(e) : x = e[i][1]
  <2>0. Telling!Told(p)' = Telling!Told(p)
    BY <1>3 DEF Telling!Told
  <2>1. PICK i \in DOMAIN wire'[p] : x = wire'[p][i][1]
    BY <1>7, <2>0 DEF Heard, Telling!Coming
  <2>2. i \in 1..Len(wire[p] \o e)
    BY <1>2, <1>3, <2>1 DEF Outgoing
  <2>3. CASE i <= Len(wire[p])
    <3>1. i \in DOMAIN wire[p] /\ x = wire[p][i][1]
      BY <1>1, <1>2, <1>3, <2>1, <2>2, <2>3 DEF Outgoing
    <3> QED
      BY <1>7, <3>1 DEF Heard, Telling!Coming
  <2>4. CASE i > Len(wire[p])
    <3>1. i - Len(wire[p]) \in 1..Len(e) /\ x = e[i - Len(wire[p])][1]
      BY <1>2, <1>3, <1>5, <2>1, <2>2, <2>4
    <3> QED
      BY <3>1
  <2> QED
    BY <1>5, <2>2, <2>3, <2>4
<1>8. \A q \in Provisions \ {p} : Size(q)' = Size(q) /\ Heard(q)' = Heard(q)
  BY <1>3 DEF Size, Heard, Telling!Told, Telling!Coming
<1> QED
  BY <1>4, <1>6, <1>7, <1>8

\* The event at the head of a connection is delivered, or lost with it.
LEMMA Dropped ==
  ASSUME SpinupTyped, NEW p \in Provisions, NEW i \in DOMAIN wire[p], Drops(p, i)
  PROVE  /\ wire' \in [Provisions -> Outgoing] /\ noticed' \in [Provisions -> Seq(Telling!Events)]
         /\ \A q \in Provisions : Size(q)' <= Size(q) /\ Size(q)' \in Nat /\ Heard(q)' \subseteq Heard(q)
<1>1. wire[p] \in Outgoing /\ noticed[p] \in Seq(Telling!Events) /\ i \in 1..Len(wire[p])
  BY DEF SpinupTyped, Outgoing
<1> DEFINE w == Telling!RemoveAt(wire[p], i)
<1>2. w \in Outgoing /\ Len(w) = Len(wire[p]) - 1 /\ \A j \in 1..Len(w) : \E k \in 1..Len(wire[p]) : w[j] = wire[p][k]
  BY <1>1, EntryGone DEF Outgoing
<1>3. wire'[p] = w /\ (\A q \in Provisions \ {p} : wire'[q] = wire[q]) /\ wire' \in [Provisions -> Outgoing]
  <2>1. wire' = [wire EXCEPT ![p] = w]
    BY DEF Drops
  <2> HIDE DEF w
  <2> QED
    BY <1>2, <2>1 DEF SpinupTyped
<1> HIDE DEF w
<1>4. wire[p][i][1] \in Telling!Events /\ wire[p][i][1] \in Heard(p)
  BY <1>1 DEF Outgoing, Heard, Telling!Coming
<1>5. /\ noticed'[p] \in {noticed[p], Append(noticed[p], wire[p][i][1])}
      /\ \A q \in Provisions \ {p} : noticed'[q] = noticed[q]
      /\ noticed' \in [Provisions -> Seq(Telling!Events)]
  <2>1. noticed \in [Provisions -> Seq(Telling!Events)]
    BY DEF SpinupTyped
  <2>2. Append(noticed[p], wire[p][i][1]) \in Seq(Telling!Events)
    BY <1>1, <1>4
  <2> QED
    BY <2>1, <2>2 DEF Drops
<1>6. ASSUME NEW q \in Provisions, q # p
      PROVE  Size(q)' = Size(q) /\ Size(q) \in Nat /\ Heard(q)' = Heard(q)
  <2>1. wire[q] \in Outgoing /\ noticed[q] \in Seq(Telling!Events)
    BY DEF SpinupTyped
  <2> QED
    <3>1. wire'[q] = wire[q] /\ noticed'[q] = noticed[q]
      BY <1>3, <1>5, <1>6
    <3>2. Size(q)' = Size(q) /\ Heard(q)' = Heard(q)
      BY <3>1 DEF Size, Heard, Telling!Told, Telling!Coming
    <3>3. Size(q) \in Nat
      BY <2>1, SizeIsNatural
    <3> QED
      BY <3>2, <3>3
<1>7. Len(noticed'[p]) \in Nat /\ Len(noticed'[p]) <= Len(noticed[p]) + 1
  BY <1>1, <1>4, <1>5
<1>8. Size(p)' <= Size(p) /\ Size(p)' \in Nat
  <2> DEFINE m == Len(wire[p])
             n == Len(noticed[p])
             k == Len(w)
             l == Len(noticed'[p])
  <2>1. k = m - 1 /\ l <= n + 1 /\ m \in Nat /\ n \in Nat /\ k \in Nat /\ l \in Nat
    BY <1>1, <1>2, <1>7 DEF Outgoing
  <2>2. Size(p)' = k + l /\ Size(p) = m + n
    BY <1>3 DEF Size
  <2> HIDE DEF m, n, k, l
  <2> QED
    BY <2>1, <2>2
<1>9. ASSUME NEW x \in Heard(p)' PROVE x \in Heard(p)
  <2>1. CASE x \in Telling!Told(p)'
    <3>1. PICK j \in DOMAIN noticed'[p] : x = noticed'[p][j]
      BY <2>1 DEF Telling!Told, Telling!ToSet
    <3>2. CASE noticed'[p] = noticed[p]
      BY <3>1, <3>2 DEF Heard, Telling!Told, Telling!ToSet
    <3>3. CASE noticed'[p] = Append(noticed[p], wire[p][i][1])
      <4>1. x = wire[p][i][1] \/ (j \in DOMAIN noticed[p] /\ x = noticed[p][j])
        BY <1>1, <3>1, <3>3
      <4> QED
        BY <1>4, <4>1 DEF Heard, Telling!Told, Telling!ToSet
    <3> QED
      BY <1>5, <3>2, <3>3
  <2>2. CASE x \in Telling!Coming(p)'
    <3>1. PICK j \in DOMAIN w : x = w[j][1]
      BY <1>3, <2>2 DEF Telling!Coming
    <3>2. PICK k \in 1..Len(wire[p]) : w[j] = wire[p][k]
      <4>1. j \in 1..Len(w)
        BY <1>2, <3>1 DEF Outgoing
      <4> QED
        BY <1>2, <4>1
    <3>3. k \in DOMAIN wire[p] /\ x = wire[p][k][1]
      BY <1>1, <3>1, <3>2 DEF Outgoing
    <3> QED
      BY <3>3 DEF Heard, Telling!Coming
  <2> QED
    BY <1>9, <2>1, <2>2 DEF Heard
<1> QED
  <2>1. ASSUME NEW q \in Provisions
        PROVE  Size(q)' <= Size(q) /\ Size(q)' \in Nat /\ Heard(q)' \subseteq Heard(q)
    <3>1. CASE q = p
      BY <3>1, <1>8, <1>9
    <3>2. CASE q # p
      BY <3>2, <1>6
    <3> QED
      BY <3>1, <3>2
  <2> QED
    BY <1>3, <1>5, <2>1

\* What one step tells over connection c.
LEMMA Message ==
  ASSUME NEW c \in Telling!Connections, NEW s \in Seq(Telling!Events)
  PROVE  LET e == [i \in DOMAIN s |-> <<s[i], c>>]
         IN  e \in Outgoing /\ Len(e) = Len(s) /\ {e[i][1] : i \in 1..Len(e)} = {s[i] : i \in 1..Len(s)}
<1> DEFINE e == [i \in DOMAIN s |-> <<s[i], c>>]
<1>1. DOMAIN s = 1..Len(s) /\ Len(s) \in Nat /\ \A i \in 1..Len(s) : s[i] \in Telling!Events
  OBVIOUS
<1>2. e = [i \in 1..Len(s) |-> <<s[i], c>>]
  BY <1>1
<1>3. e \in Seq(Telling!Events \X Telling!Connections)
  BY <1>1, <1>2, IsASeq
<1>4. Len(e) = Len(s)
  BY <1>1, <1>2, <1>3
<1> QED
  BY <1>1, <1>2, <1>3, <1>4 DEF Outgoing

\* The provisions that take no part in a step stay as they are.
LEMMA Others ==
  ASSUME SpinupInv, NEW p \in Provisions, SpinupTyped',
         Reached(p)', Little(p)', Truthful(p)',
         \A q \in Provisions \ {p} :
           /\ UNCHANGED <<place[q], kind[q], row[q], written[q]>>
           /\ Size(q)' = Size(q) /\ Heard(q)' = Heard(q)
  PROVE  SpinupInv'
<1>1. ASSUME NEW q \in Provisions, q # p PROVE Reached(q)' /\ Little(q)' /\ Truthful(q)'
  <2>1. /\ UNCHANGED <<place[q], kind[q], row[q], written[q]>>
        /\ Size(q)' = Size(q) /\ Heard(q)' = Heard(q)
    BY <1>1
  <2>2. Reached(q) /\ Little(q) /\ Truthful(q)
    BY DEF SpinupInv
  <2> QED
    BY <2>1, <2>2 DEF Reached, Little, Truthful
<1> QED
  BY <1>1 DEF SpinupInv

\* Provision p goes from one place to another and tells s over c.
LEMMA Tells ==
  ASSUME SpinupInv, NEW p \in Provisions, NEW from, NEW to, NEW c \in Telling!Connections,
         NEW s \in Seq(Telling!Events), Telling!Tell(p, from, to, c, s), UNCHANGED noticed,
         to \in Telling!Running \cup {"row", "done", "failed"}
  PROVE  /\ place[p] = from /\ place'[p] = to /\ \A q \in Provisions \ {p} : place'[q] = place[q]
         /\ place' \in [Provisions -> Telling!Running \cup {"idle", "row", "done", "failed", "refused", "lost"}]
         /\ wire' \in [Provisions -> Outgoing]
         /\ Size(p)' = Size(p) + Len(s) /\ Size(p) \in Nat
         /\ Heard(p)' \subseteq Heard(p) \cup {s[i] : i \in 1..Len(s)}
         /\ \A q \in Provisions \ {p} : Size(q)' = Size(q) /\ Heard(q)' = Heard(q)
<1> DEFINE e == [i \in DOMAIN s |-> <<s[i], c>>]
<1>1. e \in Outgoing /\ Len(e) = Len(s) /\ {e[i][1] : i \in 1..Len(e)} = {s[i] : i \in 1..Len(s)}
  BY Message
<1>2. Emits(p, e)
  BY DEF Telling!Tell, Telling!Emit, Emits
<1> HIDE DEF e
<1>3. SpinupTyped
  BY DEF SpinupInv
<1>4. /\ wire' \in [Provisions -> Outgoing]
      /\ Size(p)' = Size(p) + Len(s)
      /\ Heard(p)' \subseteq Heard(p) \cup {s[i] : i \in 1..Len(s)}
      /\ \A q \in Provisions \ {p} : Size(q)' = Size(q) /\ Heard(q)' = Heard(q)
  BY <1>1, <1>2, <1>3, Emitted
<1>5. Size(p) \in Nat
  BY <1>3, SizeIsNatural DEF SpinupTyped
<1>6. /\ place[p] = from /\ place'[p] = to /\ \A q \in Provisions \ {p} : place'[q] = place[q]
      /\ place' \in [Provisions -> Telling!Running \cup {"idle", "row", "done", "failed", "refused", "lost"}]
  BY <1>3 DEF Telling!Tell, Telling!Goes, SpinupTyped
<1> QED
  BY <1>4, <1>5, <1>6

\* Provision p goes on without a word.
LEMMA Silent ==
  ASSUME SpinupInv, NEW p \in Provisions, NEW from, NEW to, Telling!Goes(p, from, to),
         UNCHANGED <<wire, noticed>>, to \in Telling!Running \cup {"refused", "failed"}
  PROVE  /\ place[p] = from /\ place'[p] = to /\ \A q \in Provisions \ {p} : place'[q] = place[q]
         /\ place' \in [Provisions -> Telling!Running \cup {"idle", "row", "done", "failed", "refused", "lost"}]
         /\ \A q \in Provisions : Size(q)' = Size(q) /\ Heard(q)' = Heard(q)
<1>1. SpinupTyped
  BY DEF SpinupInv
<1>2. /\ place[p] = from /\ place'[p] = to /\ \A q \in Provisions \ {p} : place'[q] = place[q]
      /\ place' \in [Provisions -> Telling!Running \cup {"idle", "row", "done", "failed", "refused", "lost"}]
  BY <1>1 DEF Telling!Goes, SpinupTyped
<1>3. \A q \in Provisions : Size(q)' = Size(q) /\ Heard(q)' = Heard(q)
  BY DEF Size, Heard, Telling!Told, Telling!Coming
<1> QED
  BY <1>2, <1>3
\* One event is told.
LEMMA TellsOne ==
  ASSUME SpinupInv, NEW p \in Provisions, NEW from, NEW to, NEW c \in Telling!Connections,
         NEW e \in Telling!Events, Telling!Tell(p, from, to, c, <<e>>), UNCHANGED noticed,
         to \in Telling!Running \cup {"row", "done", "failed"}
  PROVE  /\ place[p] = from /\ place'[p] = to /\ \A q \in Provisions \ {p} : place'[q] = place[q]
         /\ place' \in [Provisions -> Telling!Running \cup {"idle", "row", "done", "failed", "refused", "lost"}]
         /\ wire' \in [Provisions -> Outgoing]
         /\ Size(p)' = Size(p) + 1 /\ Size(p) \in Nat
         /\ Heard(p)' \subseteq Heard(p) \cup {e}
         /\ \A q \in Provisions \ {p} : Size(q)' = Size(q) /\ Heard(q)' = Heard(q)
<1>1. <<e>> \in Seq(Telling!Events) /\ Len(<<e>>) = 1 /\ {<<e>>[i] : i \in 1..Len(<<e>>)} = {e}
  OBVIOUS
<1>2. /\ place[p] = from /\ place'[p] = to /\ \A q \in Provisions \ {p} : place'[q] = place[q]
      /\ place' \in [Provisions -> Telling!Running \cup {"idle", "row", "done", "failed", "refused", "lost"}]
      /\ wire' \in [Provisions -> Outgoing]
      /\ Size(p)' = Size(p) + Len(<<e>>) /\ Size(p) \in Nat
      /\ Heard(p)' \subseteq Heard(p) \cup {<<e>>[i] : i \in 1..Len(<<e>>)}
      /\ \A q \in Provisions \ {p} : Size(q)' = Size(q) /\ Heard(q)' = Heard(q)
  BY <1>1, Tells
<1> QED
  BY <1>1, <1>2

LEMMA EventsAre ==
  /\ Telling!Events = 1..7
  /\ Telling!Initiated = 1 /\ Telling!Completed = 2 /\ Telling!DidInitiated = 3
  /\ Telling!DidCompleted = 4 /\ Telling!InvitationStarted = 5
  /\ Telling!InvitationSuccess = 6 /\ Telling!Error = 7
BY DEF Telling!Events, Telling!Initiated, Telling!Completed, Telling!DidInitiated,
       Telling!DidCompleted, Telling!InvitationStarted, Telling!InvitationSuccess, Telling!Error

\* Each step of a provision that tells one event.
LEMMA OneTold ==
  ASSUME SpinupInv, NEW p \in Provisions,
         \/ Telling!walletProvision(p)
         \/ Telling!storeOrgAgentDetails(p)
         \/ Telling!getPlatformAdminAndNotify(p)
         \/ Telling!createTenantAndNotify(p)
         \/ Telling!createTenantWallet(p)
         \/ Telling!createDID(p)
         \/ Telling!notifyCompleted(p)
         \/ Telling!storeDidDetails(p)
  PROVE  SpinupInv'
<1> USE EventsAre DEF Telling!Connections, Telling!Running
<1>0. SpinupTyped /\ Reached(p) /\ Little(p) /\ Truthful(p)
  BY DEF SpinupInv
<1>1. CASE Telling!walletProvision(p)
  <2>1. Telling!Tell(p, "idle", "row", "request", <<Telling!Initiated>>) /\ UNCHANGED <<kind, noticed, invited, losses, crashes>>
    BY <1>1 DEF Telling!walletProvision
  <2>2. /\ place[p] = "idle" /\ place'[p] = "row" /\ \A q \in Provisions \ {p} : place'[q] = place[q]
        /\ place' \in [Provisions -> Telling!Running \cup {"idle", "row", "done", "failed", "refused", "lost"}]
        /\ wire' \in [Provisions -> Outgoing]
        /\ Size(p)' = Size(p) + 1 /\ Size(p) \in Nat
        /\ Heard(p)' \subseteq Heard(p) \cup {Telling!Initiated}
        /\ \A q \in Provisions \ {p} : Size(q)' = Size(q) /\ Heard(q)' = Heard(q)
    BY <2>1, TellsOne
  <2>3. /\ row' \in [Provisions -> {"none", "processed", "completed"}] /\ written' \in [Provisions -> BOOLEAN]
        /\ \A q \in Provisions \ {p} : row'[q] = row[q] /\ written'[q] = written[q]
        /\ written[p] => written'[p]
    BY <1>0, <1>1 DEF Telling!walletProvision, Telling!Sets, SpinupTyped
  <2>4. Reached(p)'
    BY <1>0, <1>1, <2>1, <2>2, <2>3 DEF Telling!walletProvision, Telling!Sets, SpinupTyped, Reached, DedicatedPcs, SharedPcs
  <2>5. Little(p)'
    BY <1>0, <2>2 DEF Little
  <2>6. Truthful(p)'
    BY <1>0, <1>1, <2>2, <2>3, <2>4 DEF Truthful, Reached
  <2>7. SpinupTyped'
    BY <1>0, <2>1, <2>2, <2>3 DEF SpinupTyped
  <2> QED
    BY <2>1, <2>2, <2>3, <2>4, <2>5, <2>6, <2>7, Others
<1>2. CASE Telling!storeOrgAgentDetails(p)
  <2>1. Telling!Tell(p, "store", "invite", "spinup", <<Telling!DidCompleted>>) /\ UNCHANGED <<kind, noticed, invited, losses, crashes>>
    BY <1>2 DEF Telling!storeOrgAgentDetails
  <2>2. /\ place[p] = "store" /\ place'[p] = "invite" /\ \A q \in Provisions \ {p} : place'[q] = place[q]
        /\ place' \in [Provisions -> Telling!Running \cup {"idle", "row", "done", "failed", "refused", "lost"}]
        /\ wire' \in [Provisions -> Outgoing]
        /\ Size(p)' = Size(p) + 1 /\ Size(p) \in Nat
        /\ Heard(p)' \subseteq Heard(p) \cup {Telling!DidCompleted}
        /\ \A q \in Provisions \ {p} : Size(q)' = Size(q) /\ Heard(q)' = Heard(q)
    BY <2>1, TellsOne
  <2>3. /\ row' \in [Provisions -> {"none", "processed", "completed"}] /\ written' \in [Provisions -> BOOLEAN]
        /\ \A q \in Provisions \ {p} : row'[q] = row[q] /\ written'[q] = written[q]
        /\ written[p] => written'[p]
    BY <1>0, <1>2 DEF Telling!storeOrgAgentDetails, Telling!Sets, SpinupTyped
  <2>4. Reached(p)'
    BY <1>0, <1>2, <2>1, <2>2, <2>3 DEF Telling!storeOrgAgentDetails, Telling!Sets, SpinupTyped, Reached, DedicatedPcs, SharedPcs
  <2>5. Little(p)'
    BY <1>0, <2>2 DEF Little
  <2>6. Truthful(p)'
    BY <1>0, <1>2, <2>2, <2>3, <2>4 DEF Truthful, Reached
  <2>7. SpinupTyped'
    BY <1>0, <2>1, <2>2, <2>3 DEF SpinupTyped
  <2> QED
    BY <2>1, <2>2, <2>3, <2>4, <2>5, <2>6, <2>7, Others
<1>3. CASE Telling!getPlatformAdminAndNotify(p)
  <2>1. Telling!Tell(p, "tenantRow", "tenant", "admin", <<Telling!Initiated>>) /\ UNCHANGED <<kind, noticed, invited, losses, crashes>>
    BY <1>3 DEF Telling!getPlatformAdminAndNotify
  <2>2. /\ place[p] = "tenantRow" /\ place'[p] = "tenant" /\ \A q \in Provisions \ {p} : place'[q] = place[q]
        /\ place' \in [Provisions -> Telling!Running \cup {"idle", "row", "done", "failed", "refused", "lost"}]
        /\ wire' \in [Provisions -> Outgoing]
        /\ Size(p)' = Size(p) + 1 /\ Size(p) \in Nat
        /\ Heard(p)' \subseteq Heard(p) \cup {Telling!Initiated}
        /\ \A q \in Provisions \ {p} : Size(q)' = Size(q) /\ Heard(q)' = Heard(q)
    BY <2>1, TellsOne
  <2>3. /\ row' \in [Provisions -> {"none", "processed", "completed"}] /\ written' \in [Provisions -> BOOLEAN]
        /\ \A q \in Provisions \ {p} : row'[q] = row[q] /\ written'[q] = written[q]
        /\ written[p] => written'[p]
    BY <1>0, <1>3 DEF Telling!getPlatformAdminAndNotify, Telling!Sets, SpinupTyped
  <2>4. Reached(p)'
    BY <1>0, <1>3, <2>1, <2>2, <2>3 DEF Telling!getPlatformAdminAndNotify, Telling!Sets, SpinupTyped, Reached, DedicatedPcs, SharedPcs
  <2>5. Little(p)'
    BY <1>0, <2>2 DEF Little
  <2>6. Truthful(p)'
    BY <1>0, <1>3, <2>2, <2>3, <2>4 DEF Truthful, Reached
  <2>7. SpinupTyped'
    BY <1>0, <2>1, <2>2, <2>3 DEF SpinupTyped
  <2> QED
    BY <2>1, <2>2, <2>3, <2>4, <2>5, <2>6, <2>7, Others
<1>4. CASE Telling!createTenantAndNotify(p)
  <2>1. Telling!Tell(p, "tenant", "tenantWallet", "tenant", <<Telling!Initiated>>) /\ UNCHANGED <<kind, noticed, invited, losses, crashes>>
    BY <1>4 DEF Telling!createTenantAndNotify
  <2>2. /\ place[p] = "tenant" /\ place'[p] = "tenantWallet" /\ \A q \in Provisions \ {p} : place'[q] = place[q]
        /\ place' \in [Provisions -> Telling!Running \cup {"idle", "row", "done", "failed", "refused", "lost"}]
        /\ wire' \in [Provisions -> Outgoing]
        /\ Size(p)' = Size(p) + 1 /\ Size(p) \in Nat
        /\ Heard(p)' \subseteq Heard(p) \cup {Telling!Initiated}
        /\ \A q \in Provisions \ {p} : Size(q)' = Size(q) /\ Heard(q)' = Heard(q)
    BY <2>1, TellsOne
  <2>3. /\ row' \in [Provisions -> {"none", "processed", "completed"}] /\ written' \in [Provisions -> BOOLEAN]
        /\ \A q \in Provisions \ {p} : row'[q] = row[q] /\ written'[q] = written[q]
        /\ written[p] => written'[p]
    BY <1>0, <1>4 DEF Telling!createTenantAndNotify, Telling!Sets, SpinupTyped
  <2>4. Reached(p)'
    BY <1>0, <1>4, <2>1, <2>2, <2>3 DEF Telling!createTenantAndNotify, Telling!Sets, SpinupTyped, Reached, DedicatedPcs, SharedPcs
  <2>5. Little(p)'
    BY <1>0, <2>2 DEF Little
  <2>6. Truthful(p)'
    BY <1>0, <1>4, <2>2, <2>3, <2>4 DEF Truthful, Reached
  <2>7. SpinupTyped'
    BY <1>0, <2>1, <2>2, <2>3 DEF SpinupTyped
  <2> QED
    BY <2>1, <2>2, <2>3, <2>4, <2>5, <2>6, <2>7, Others
<1>5. CASE Telling!createTenantWallet(p)
  <2>1. Telling!Tell(p, "tenantWallet", "tenantDid", "tenant", <<Telling!DidInitiated>>) /\ UNCHANGED <<kind, noticed, invited, losses, crashes>>
    BY <1>5 DEF Telling!createTenantWallet
  <2>2. /\ place[p] = "tenantWallet" /\ place'[p] = "tenantDid" /\ \A q \in Provisions \ {p} : place'[q] = place[q]
        /\ place' \in [Provisions -> Telling!Running \cup {"idle", "row", "done", "failed", "refused", "lost"}]
        /\ wire' \in [Provisions -> Outgoing]
        /\ Size(p)' = Size(p) + 1 /\ Size(p) \in Nat
        /\ Heard(p)' \subseteq Heard(p) \cup {Telling!DidInitiated}
        /\ \A q \in Provisions \ {p} : Size(q)' = Size(q) /\ Heard(q)' = Heard(q)
    BY <2>1, TellsOne
  <2>3. /\ row' \in [Provisions -> {"none", "processed", "completed"}] /\ written' \in [Provisions -> BOOLEAN]
        /\ \A q \in Provisions \ {p} : row'[q] = row[q] /\ written'[q] = written[q]
        /\ written[p] => written'[p]
    BY <1>0, <1>5 DEF Telling!createTenantWallet, Telling!Sets, SpinupTyped
  <2>4. Reached(p)'
    BY <1>0, <1>5, <2>1, <2>2, <2>3 DEF Telling!createTenantWallet, Telling!Sets, SpinupTyped, Reached, DedicatedPcs, SharedPcs
  <2>5. Little(p)'
    BY <1>0, <2>2 DEF Little
  <2>6. Truthful(p)'
    BY <1>0, <1>5, <2>2, <2>3, <2>4 DEF Truthful, Reached
  <2>7. SpinupTyped'
    BY <1>0, <2>1, <2>2, <2>3 DEF SpinupTyped
  <2> QED
    BY <2>1, <2>2, <2>3, <2>4, <2>5, <2>6, <2>7, Others
<1>6. CASE Telling!createDID(p)
  <2>1. Telling!Tell(p, "tenantDid", "details", "tenant", <<Telling!DidCompleted>>) /\ UNCHANGED <<kind, noticed, invited, losses, crashes>>
    BY <1>6 DEF Telling!createDID
  <2>2. /\ place[p] = "tenantDid" /\ place'[p] = "details" /\ \A q \in Provisions \ {p} : place'[q] = place[q]
        /\ place' \in [Provisions -> Telling!Running \cup {"idle", "row", "done", "failed", "refused", "lost"}]
        /\ wire' \in [Provisions -> Outgoing]
        /\ Size(p)' = Size(p) + 1 /\ Size(p) \in Nat
        /\ Heard(p)' \subseteq Heard(p) \cup {Telling!DidCompleted}
        /\ \A q \in Provisions \ {p} : Size(q)' = Size(q) /\ Heard(q)' = Heard(q)
    BY <2>1, TellsOne
  <2>3. /\ row' \in [Provisions -> {"none", "processed", "completed"}] /\ written' \in [Provisions -> BOOLEAN]
        /\ \A q \in Provisions \ {p} : row'[q] = row[q] /\ written'[q] = written[q]
        /\ written[p] => written'[p]
    BY <1>0, <1>6 DEF Telling!createDID, Telling!Sets, SpinupTyped
  <2>4. Reached(p)'
    BY <1>0, <1>6, <2>1, <2>2, <2>3 DEF Telling!createDID, Telling!Sets, SpinupTyped, Reached, DedicatedPcs, SharedPcs
  <2>5. Little(p)'
    BY <1>0, <2>2 DEF Little
  <2>6. Truthful(p)'
    BY <1>0, <1>6, <2>2, <2>3, <2>4 DEF Truthful, Reached
  <2>7. SpinupTyped'
    BY <1>0, <2>1, <2>2, <2>3 DEF SpinupTyped
  <2> QED
    BY <2>1, <2>2, <2>3, <2>4, <2>5, <2>6, <2>7, Others
<1>7. CASE Telling!notifyCompleted(p)
  <2>1. Telling!Tell(p, "details", "tenantStore", "completed", <<Telling!Completed>>) /\ UNCHANGED <<kind, noticed, invited, losses, crashes>>
    BY <1>7 DEF Telling!notifyCompleted
  <2>2. /\ place[p] = "details" /\ place'[p] = "tenantStore" /\ \A q \in Provisions \ {p} : place'[q] = place[q]
        /\ place' \in [Provisions -> Telling!Running \cup {"idle", "row", "done", "failed", "refused", "lost"}]
        /\ wire' \in [Provisions -> Outgoing]
        /\ Size(p)' = Size(p) + 1 /\ Size(p) \in Nat
        /\ Heard(p)' \subseteq Heard(p) \cup {Telling!Completed}
        /\ \A q \in Provisions \ {p} : Size(q)' = Size(q) /\ Heard(q)' = Heard(q)
    BY <2>1, TellsOne
  <2>3. /\ row' \in [Provisions -> {"none", "processed", "completed"}] /\ written' \in [Provisions -> BOOLEAN]
        /\ \A q \in Provisions \ {p} : row'[q] = row[q] /\ written'[q] = written[q]
        /\ written[p] => written'[p]
    BY <1>0, <1>7 DEF Telling!notifyCompleted, Telling!Sets, SpinupTyped
  <2>4. Reached(p)'
    BY <1>0, <1>7, <2>1, <2>2, <2>3 DEF Telling!notifyCompleted, Telling!Sets, SpinupTyped, Reached, DedicatedPcs, SharedPcs
  <2>5. Little(p)'
    BY <1>0, <2>2 DEF Little
  <2>6. Truthful(p)'
    BY <1>0, <1>7, <2>2, <2>3, <2>4 DEF Truthful, Reached
  <2>7. SpinupTyped'
    BY <1>0, <2>1, <2>2, <2>3 DEF SpinupTyped
  <2> QED
    BY <2>1, <2>2, <2>3, <2>4, <2>5, <2>6, <2>7, Others
<1>8. CASE Telling!storeDidDetails(p)
  <2>1. Telling!Tell(p, "didRow", "invite", "started", <<Telling!InvitationStarted>>) /\ UNCHANGED <<kind, noticed, invited, losses, crashes>>
    BY <1>8 DEF Telling!storeDidDetails
  <2>2. /\ place[p] = "didRow" /\ place'[p] = "invite" /\ \A q \in Provisions \ {p} : place'[q] = place[q]
        /\ place' \in [Provisions -> Telling!Running \cup {"idle", "row", "done", "failed", "refused", "lost"}]
        /\ wire' \in [Provisions -> Outgoing]
        /\ Size(p)' = Size(p) + 1 /\ Size(p) \in Nat
        /\ Heard(p)' \subseteq Heard(p) \cup {Telling!InvitationStarted}
        /\ \A q \in Provisions \ {p} : Size(q)' = Size(q) /\ Heard(q)' = Heard(q)
    BY <2>1, TellsOne
  <2>3. /\ row' \in [Provisions -> {"none", "processed", "completed"}] /\ written' \in [Provisions -> BOOLEAN]
        /\ \A q \in Provisions \ {p} : row'[q] = row[q] /\ written'[q] = written[q]
        /\ written[p] => written'[p]
    BY <1>0, <1>8 DEF Telling!storeDidDetails, Telling!Sets, SpinupTyped
  <2>4. Reached(p)'
    BY <1>0, <1>8, <2>1, <2>2, <2>3 DEF Telling!storeDidDetails, Telling!Sets, SpinupTyped, Reached, DedicatedPcs, SharedPcs
  <2>5. Little(p)'
    BY <1>0, <2>2 DEF Little
  <2>6. Truthful(p)'
    BY <1>0, <1>8, <2>2, <2>3, <2>4 DEF Truthful, Reached
  <2>7. SpinupTyped'
    BY <1>0, <2>1, <2>2, <2>3 DEF SpinupTyped
  <2> QED
    BY <2>1, <2>2, <2>3, <2>4, <2>5, <2>6, <2>7, Others
<1> QED
  BY <1>1, <1>2, <1>3, <1>4, <1>5, <1>6, <1>7, <1>8
\* The container runs: three events at once.
LEMMA SpinupTold ==
  ASSUME SpinupInv, NEW p \in Provisions, Telling!agentSpinup(p)
  PROVE  SpinupInv'
<1> USE EventsAre DEF Telling!Connections, Telling!Running
<1> DEFINE s == <<Telling!Completed, Telling!DidInitiated, Telling!InvitationStarted>>
<1>0. SpinupTyped /\ Reached(p) /\ Little(p) /\ Truthful(p)
  BY DEF SpinupInv
<1>1. Telling!Tell(p, "wallet", "did", "spinup", s) /\ UNCHANGED <<kind, noticed, row, written, invited, losses, crashes>>
  BY DEF Telling!agentSpinup
<1>2. s \in Seq(Telling!Events) /\ Len(s) = 3 /\ {s[i] : i \in 1..Len(s)} \subseteq {2, 3, 5}
  OBVIOUS
<1> HIDE DEF s
<1>3. /\ place[p] = "wallet" /\ place'[p] = "did" /\ \A q \in Provisions \ {p} : place'[q] = place[q]
      /\ place' \in [Provisions -> Telling!Running \cup {"idle", "row", "done", "failed", "refused", "lost"}]
      /\ wire' \in [Provisions -> Outgoing]
      /\ Size(p)' = Size(p) + Len(s) /\ Size(p) \in Nat
      /\ Heard(p)' \subseteq Heard(p) \cup {s[i] : i \in 1..Len(s)}
      /\ \A q \in Provisions \ {p} : Size(q)' = Size(q) /\ Heard(q)' = Heard(q)
  BY <1>1, <1>2, Tells
<1>4. Size(p)' = Size(p) + 3 /\ Heard(p)' \subseteq Heard(p) \cup {2, 3, 5}
  BY <1>2, <1>3
<1>5. Reached(p)'
  BY <1>0, <1>1, <1>3 DEF Reached, DedicatedPcs, SharedPcs
<1>6. Little(p)'
  BY <1>0, <1>3, <1>4 DEF Little
<1>7. Truthful(p)'
  BY <1>0, <1>1, <1>3, <1>4 DEF Truthful
<1>8. SpinupTyped'
  BY <1>0, <1>1, <1>3 DEF SpinupTyped
<1> QED
  BY <1>1, <1>3, <1>5, <1>6, <1>7, <1>8, Others

\* The last event follows whether or not there is an invitation.
LEMMA InvitationTold ==
  ASSUME SpinupInv, NEW p \in Provisions, Telling!createConnectionInvitation(p)
  PROVE  SpinupInv'
<1> USE EventsAre DEF Telling!Connections, Telling!Running
<1>0. SpinupTyped /\ Reached(p) /\ Little(p) /\ Truthful(p)
  BY DEF SpinupInv
<1>1. PICK c \in {"success", "spinup"} : Telling!Tell(p, "invite", "done", c, <<Telling!InvitationSuccess>>)
  BY DEF Telling!createConnectionInvitation
<1>2. /\ UNCHANGED <<kind, noticed, row, written, losses, crashes>>
      /\ invited' \in [Provisions -> BOOLEAN]
  BY <1>0 DEF Telling!createConnectionInvitation, Telling!Sets, SpinupTyped
<1>3. /\ place[p] = "invite" /\ place'[p] = "done" /\ \A q \in Provisions \ {p} : place'[q] = place[q]
      /\ place' \in [Provisions -> Telling!Running \cup {"idle", "row", "done", "failed", "refused", "lost"}]
      /\ wire' \in [Provisions -> Outgoing]
      /\ Size(p)' = Size(p) + 1 /\ Size(p) \in Nat
      /\ Heard(p)' \subseteq Heard(p) \cup {Telling!InvitationSuccess}
      /\ \A q \in Provisions \ {p} : Size(q)' = Size(q) /\ Heard(q)' = Heard(q)
  BY <1>1, <1>2, TellsOne
<1>4. Reached(p)'
  BY <1>0, <1>2, <1>3 DEF Reached, DedicatedPcs, SharedPcs
<1>5. Little(p)'
  BY <1>0, <1>3 DEF Little
<1>6. Truthful(p)'
  BY <1>0, <1>2, <1>3 DEF Truthful
<1>7. SpinupTyped'
  BY <1>0, <1>2, <1>3 DEF SpinupTyped
<1> QED
  BY <1>2, <1>3, <1>4, <1>5, <1>6, <1>7, Others

\* Each step that tells nothing.
LEMMA NothingTold ==
  ASSUME SpinupInv, NEW p \in Provisions,
         \/ Telling!validatePlatformConfig(p)
         \/ Telling!createOrgAgent(p)
         \/ Telling!handleErrorOnWalletProvision(p)
         \/ Telling!getAgentDid(p)
         \/ Telling!createTenant(p)
         \/ Telling!storeTenantDetails(p)
  PROVE  SpinupInv'
<1> USE DEF Telling!Running
<1>0. SpinupTyped /\ Reached(p) /\ Little(p) /\ Truthful(p)
  BY DEF SpinupInv
<1>1. CASE Telling!validatePlatformConfig(p)
  <2>1. Telling!Goes(p, "idle", "refused") /\ UNCHANGED <<kind, wire, noticed, invited, losses, crashes>>
    BY <1>1 DEF Telling!validatePlatformConfig
  <2>2. /\ place[p] = "idle" /\ place'[p] = "refused" /\ \A q \in Provisions \ {p} : place'[q] = place[q]
        /\ place' \in [Provisions -> Telling!Running \cup {"idle", "row", "done", "failed", "refused", "lost"}]
        /\ \A q \in Provisions : Size(q)' = Size(q) /\ Heard(q)' = Heard(q)
    BY <2>1, Silent
  <2>3. /\ row' \in [Provisions -> {"none", "processed", "completed"}] /\ written' \in [Provisions -> BOOLEAN]
        /\ \A q \in Provisions \ {p} : row'[q] = row[q] /\ written'[q] = written[q]
        /\ written[p] => written'[p]
    BY <1>0, <1>1 DEF Telling!validatePlatformConfig, Telling!Sets, SpinupTyped
  <2>4. Reached(p)'
    BY <1>0, <1>1, <2>1, <2>2, <2>3 DEF Telling!validatePlatformConfig, Telling!Sets, SpinupTyped, Reached, DedicatedPcs, SharedPcs
  <2>5. Little(p)'
    BY <1>0, <2>2 DEF Little
  <2>6. Truthful(p)'
    BY <1>0, <2>2, <2>3 DEF Truthful
  <2>7. SpinupTyped'
    BY <1>0, <2>1, <2>2, <2>3 DEF SpinupTyped
  <2> QED
    BY <2>1, <2>2, <2>3, <2>4, <2>5, <2>6, <2>7, Others
<1>2. CASE Telling!createOrgAgent(p)
  <2>1. Telling!Goes(p, "row", "wallet") /\ UNCHANGED <<kind, wire, noticed, invited, losses, crashes>>
    BY <1>2 DEF Telling!createOrgAgent
  <2>2. /\ place[p] = "row" /\ place'[p] = "wallet" /\ \A q \in Provisions \ {p} : place'[q] = place[q]
        /\ place' \in [Provisions -> Telling!Running \cup {"idle", "row", "done", "failed", "refused", "lost"}]
        /\ \A q \in Provisions : Size(q)' = Size(q) /\ Heard(q)' = Heard(q)
    BY <2>1, Silent
  <2>3. /\ row' \in [Provisions -> {"none", "processed", "completed"}] /\ written' \in [Provisions -> BOOLEAN]
        /\ \A q \in Provisions \ {p} : row'[q] = row[q] /\ written'[q] = written[q]
        /\ written[p] => written'[p]
    BY <1>0, <1>2 DEF Telling!createOrgAgent, Telling!Sets, SpinupTyped
  <2>4. Reached(p)'
    BY <1>0, <1>2, <2>1, <2>2, <2>3 DEF Telling!createOrgAgent, Telling!Sets, SpinupTyped, Reached, DedicatedPcs, SharedPcs
  <2>5. Little(p)'
    BY <1>0, <2>2 DEF Little
  <2>6. Truthful(p)'
    BY <1>0, <2>2, <2>3 DEF Truthful
  <2>7. SpinupTyped'
    BY <1>0, <2>1, <2>2, <2>3 DEF SpinupTyped
  <2> QED
    BY <2>1, <2>2, <2>3, <2>4, <2>5, <2>6, <2>7, Others
<1>3. CASE Telling!handleErrorOnWalletProvision(p)
  <2>1. Telling!Goes(p, "row", "refused") /\ UNCHANGED <<kind, wire, noticed, invited, losses, crashes>>
    BY <1>3 DEF Telling!handleErrorOnWalletProvision
  <2>2. /\ place[p] = "row" /\ place'[p] = "refused" /\ \A q \in Provisions \ {p} : place'[q] = place[q]
        /\ place' \in [Provisions -> Telling!Running \cup {"idle", "row", "done", "failed", "refused", "lost"}]
        /\ \A q \in Provisions : Size(q)' = Size(q) /\ Heard(q)' = Heard(q)
    BY <2>1, Silent
  <2>3. /\ row' \in [Provisions -> {"none", "processed", "completed"}] /\ written' \in [Provisions -> BOOLEAN]
        /\ \A q \in Provisions \ {p} : row'[q] = row[q] /\ written'[q] = written[q]
        /\ written[p] => written'[p]
    BY <1>0, <1>3 DEF Telling!handleErrorOnWalletProvision, Telling!Sets, SpinupTyped
  <2>4. Reached(p)'
    BY <1>0, <1>3, <2>1, <2>2, <2>3 DEF Telling!handleErrorOnWalletProvision, Telling!Sets, SpinupTyped, Reached, DedicatedPcs, SharedPcs
  <2>5. Little(p)'
    BY <1>0, <2>2 DEF Little
  <2>6. Truthful(p)'
    BY <1>0, <2>2, <2>3 DEF Truthful
  <2>7. SpinupTyped'
    BY <1>0, <2>1, <2>2, <2>3 DEF SpinupTyped
  <2> QED
    BY <2>1, <2>2, <2>3, <2>4, <2>5, <2>6, <2>7, Others
<1>4. CASE Telling!getAgentDid(p)
  <2>1. Telling!Goes(p, "did", "store") /\ UNCHANGED <<kind, wire, noticed, invited, losses, crashes>>
    BY <1>4 DEF Telling!getAgentDid
  <2>2. /\ place[p] = "did" /\ place'[p] = "store" /\ \A q \in Provisions \ {p} : place'[q] = place[q]
        /\ place' \in [Provisions -> Telling!Running \cup {"idle", "row", "done", "failed", "refused", "lost"}]
        /\ \A q \in Provisions : Size(q)' = Size(q) /\ Heard(q)' = Heard(q)
    BY <2>1, Silent
  <2>3. /\ row' \in [Provisions -> {"none", "processed", "completed"}] /\ written' \in [Provisions -> BOOLEAN]
        /\ \A q \in Provisions \ {p} : row'[q] = row[q] /\ written'[q] = written[q]
        /\ written[p] => written'[p]
    BY <1>0, <1>4 DEF Telling!getAgentDid, Telling!Sets, SpinupTyped
  <2>4. Reached(p)'
    BY <1>0, <1>4, <2>1, <2>2, <2>3 DEF Telling!getAgentDid, Telling!Sets, SpinupTyped, Reached, DedicatedPcs, SharedPcs
  <2>5. Little(p)'
    BY <1>0, <2>2 DEF Little
  <2>6. Truthful(p)'
    BY <1>0, <2>2, <2>3 DEF Truthful
  <2>7. SpinupTyped'
    BY <1>0, <2>1, <2>2, <2>3 DEF SpinupTyped
  <2> QED
    BY <2>1, <2>2, <2>3, <2>4, <2>5, <2>6, <2>7, Others
<1>5. CASE Telling!createTenant(p)
  <2>1. Telling!Goes(p, "idle", "tenantRow") /\ UNCHANGED <<kind, wire, noticed, invited, losses, crashes>>
    BY <1>5 DEF Telling!createTenant
  <2>2. /\ place[p] = "idle" /\ place'[p] = "tenantRow" /\ \A q \in Provisions \ {p} : place'[q] = place[q]
        /\ place' \in [Provisions -> Telling!Running \cup {"idle", "row", "done", "failed", "refused", "lost"}]
        /\ \A q \in Provisions : Size(q)' = Size(q) /\ Heard(q)' = Heard(q)
    BY <2>1, Silent
  <2>3. /\ row' \in [Provisions -> {"none", "processed", "completed"}] /\ written' \in [Provisions -> BOOLEAN]
        /\ \A q \in Provisions \ {p} : row'[q] = row[q] /\ written'[q] = written[q]
        /\ written[p] => written'[p]
    BY <1>0, <1>5 DEF Telling!createTenant, Telling!Sets, SpinupTyped
  <2>4. Reached(p)'
    BY <1>0, <1>5, <2>1, <2>2, <2>3 DEF Telling!createTenant, Telling!Sets, SpinupTyped, Reached, DedicatedPcs, SharedPcs
  <2>5. Little(p)'
    BY <1>0, <2>2 DEF Little
  <2>6. Truthful(p)'
    BY <1>0, <2>2, <2>3 DEF Truthful
  <2>7. SpinupTyped'
    BY <1>0, <2>1, <2>2, <2>3 DEF SpinupTyped
  <2> QED
    BY <2>1, <2>2, <2>3, <2>4, <2>5, <2>6, <2>7, Others
<1>6. CASE Telling!storeTenantDetails(p)
  <2>1. Telling!Goes(p, "tenantStore", "didRow") /\ UNCHANGED <<kind, wire, noticed, invited, losses, crashes>>
    BY <1>6 DEF Telling!storeTenantDetails
  <2>2. /\ place[p] = "tenantStore" /\ place'[p] = "didRow" /\ \A q \in Provisions \ {p} : place'[q] = place[q]
        /\ place' \in [Provisions -> Telling!Running \cup {"idle", "row", "done", "failed", "refused", "lost"}]
        /\ \A q \in Provisions : Size(q)' = Size(q) /\ Heard(q)' = Heard(q)
    BY <2>1, Silent
  <2>3. /\ row' \in [Provisions -> {"none", "processed", "completed"}] /\ written' \in [Provisions -> BOOLEAN]
        /\ \A q \in Provisions \ {p} : row'[q] = row[q] /\ written'[q] = written[q]
        /\ written[p] => written'[p]
    BY <1>0, <1>6 DEF Telling!storeTenantDetails, Telling!Sets, SpinupTyped
  <2>4. Reached(p)'
    BY <1>0, <1>6, <2>1, <2>2, <2>3 DEF Telling!storeTenantDetails, Telling!Sets, SpinupTyped, Reached, DedicatedPcs, SharedPcs
  <2>5. Little(p)'
    BY <1>0, <2>2 DEF Little
  <2>6. Truthful(p)'
    BY <1>0, <2>2, <2>3 DEF Truthful
  <2>7. SpinupTyped'
    BY <1>0, <2>1, <2>2, <2>3 DEF SpinupTyped
  <2> QED
    BY <2>1, <2>2, <2>3, <2>4, <2>5, <2>6, <2>7, Others
<1> QED
  BY <1>1, <1>2, <1>3, <1>4, <1>5, <1>6

\* A failure is told, and the record of the agent goes or stays.
LEMMA FailureTold ==
  ASSUME SpinupInv, NEW p \in Provisions, Telling!handleError(p)
  PROVE  SpinupInv'
<1> USE EventsAre DEF Telling!Connections
<1>0. SpinupTyped /\ Reached(p) /\ Little(p) /\ Truthful(p)
  BY DEF SpinupInv
<1> DEFINE e == Telling!ErrorsOf(p)
<1>1. /\ e \in Outgoing /\ Len(e) <= 2 /\ Len(e) \in Nat
      /\ Len(e) = 2 => place[p] \in {"did", "store"}
      /\ {e[i][1] : i \in 1..Len(e)} \subseteq {Telling!Error}
  <2>1. CASE kind[p] = "shared"
    <3>1. e = <<<<Telling!Error, "error">>>>
      BY <2>1 DEF Telling!ErrorsOf
    <3> QED
      BY <3>1 DEF Outgoing
  <2>2. CASE kind[p] # "shared" /\ place[p] \in {"did", "store"}
    <3>1. e = <<<<Telling!Error, "error">>, <<Telling!Error, "request">>>>
      BY <2>2 DEF Telling!ErrorsOf
    <3> QED
      BY <2>2, <3>1 DEF Outgoing
  <2>3. CASE kind[p] # "shared" /\ place[p] \notin {"did", "store"}
    <3>1. e = <<<<Telling!Error, "request">>>>
      BY <2>3 DEF Telling!ErrorsOf
    <3> QED
      BY <3>1 DEF Outgoing
  <2> QED
    BY <2>1, <2>2, <2>3
<1> HIDE DEF e
<1>2. Emits(p, e) /\ UNCHANGED <<kind, noticed, invited, losses, crashes>>
  BY DEF Telling!handleError, Emits, e
<1>3. /\ wire' \in [Provisions -> Outgoing]
      /\ Size(p)' = Size(p) + Len(e)
      /\ Heard(p)' \subseteq Heard(p) \cup {e[i][1] : i \in 1..Len(e)}
      /\ \A q \in Provisions \ {p} : Size(q)' = Size(q) /\ Heard(q)' = Heard(q)
  BY <1>0, <1>1, <1>2, Emitted
<1>4. Heard(p)' \subseteq Heard(p) \cup {Telling!Error}
  BY <1>1, <1>3
<1>5. Size(p) \in Nat
  BY <1>0, SizeIsNatural DEF SpinupTyped
<1>6. /\ place[p] \in Telling!Running /\ (kind[p] = "shared" => place[p] # "invite")
      /\ place'[p] = "failed" /\ \A q \in Provisions \ {p} : place'[q] = place[q]
      /\ place' \in [Provisions -> Telling!Running \cup {"idle", "row", "done", "failed", "refused", "lost"}]
  BY <1>0 DEF Telling!handleError, Telling!Goes, SpinupTyped
<1>7. /\ row' \in [Provisions -> {"none", "processed", "completed"}] /\ written' \in [Provisions -> BOOLEAN]
      /\ \A q \in Provisions \ {p} : row'[q] = row[q] /\ written'[q] = written[q]
      /\ written[p] => written'[p]
  BY <1>0 DEF Telling!handleError, Telling!Sets, SpinupTyped
<1>8. Reached(p)'
  BY <1>6 DEF Reached, DedicatedPcs, SharedPcs
<1>9. Little(p)'
  <2>1. Size(p)' <= 7
    <3>1. CASE place[p] \in {"did", "store"}
      BY <1>0, <1>1, <1>3, <1>5, <3>1 DEF Little
    <3>2. CASE place[p] \notin {"did", "store"}
      <4>1. Len(e) <= 1
        <5> DEFINE n == Len(e)
        <5>1. n \in Nat /\ n <= 2 /\ n # 2
          BY <1>1, <3>2
        <5> HIDE DEF n
        <5>2. n <= 1
          BY <5>1
        <5> QED
          BY <5>2 DEF n
      <4>2. Size(p) <= 6
        BY <1>0, <1>5, <1>6 DEF Little, Telling!Running
      <4> QED
        BY <1>1, <1>3, <1>5, <4>1, <4>2
    <3> QED
      BY <3>1, <3>2
  <2> QED
    BY <1>6, <2>1 DEF Little
<1>10. Truthful(p)'
  BY <1>0, <1>4, <1>6, <1>7 DEF Truthful, Telling!Running
<1>11. SpinupTyped'
  BY <1>0, <1>2, <1>3, <1>6, <1>7 DEF SpinupTyped
<1> QED
  BY <1>2, <1>3, <1>6, <1>7, <1>8, <1>9, <1>10, <1>11, Others

\* Events arrive or get lost.
LEMMA EventsPass ==
  ASSUME SpinupInv, NEW p \in Provisions, Telling!Deliver(p) \/ Telling!Lose(p)
  PROVE  SpinupInv'
<1>0. SpinupTyped
  BY DEF SpinupInv
<1>1. /\ \E i \in DOMAIN wire[p] : Drops(p, i)
      /\ UNCHANGED <<kind, place, row, written, invited, crashes>>
      /\ losses' \in 0..MaxLosses
  <2>1. CASE Telling!Deliver(p)
    BY <1>0, <2>1 DEF Telling!Deliver, Telling!Heads, Drops, SpinupTyped
  <2>2. CASE Telling!Lose(p)
    <3>1. losses' \in 0..MaxLosses
      BY <1>0, <2>2, SpinupBounds DEF Telling!Lose, SpinupTyped
    <3> QED
      BY <2>2, <3>1 DEF Telling!Lose, Telling!Heads, Drops
  <2> QED
    BY <2>1, <2>2
<1>2. /\ wire' \in [Provisions -> Outgoing] /\ noticed' \in [Provisions -> Seq(Telling!Events)]
      /\ \A q \in Provisions : Size(q)' <= Size(q) /\ Size(q)' \in Nat /\ Heard(q)' \subseteq Heard(q)
  BY <1>0, <1>1, Dropped
<1>3. ASSUME NEW q \in Provisions PROVE Reached(q)' /\ Little(q)' /\ Truthful(q)'
  <2>1. Reached(q) /\ Little(q) /\ Truthful(q)
    BY DEF SpinupInv
  <2>2. Size(q) \in Nat
    BY <1>0, SizeIsNatural DEF SpinupTyped
  <2>3. Reached(q)'
    BY <1>1, <2>1 DEF Reached
  <2>4. Little(q)'
    BY <1>1, <1>2, <2>1, <2>2 DEF Little
  <2>5. Truthful(q)'
    BY <1>1, <1>2, <2>1 DEF Truthful
  <2> QED
    BY <2>3, <2>4, <2>5
<1>4. SpinupTyped'
  BY <1>0, <1>1, <1>2 DEF SpinupTyped
<1> QED
  BY <1>3, <1>4 DEF SpinupInv

\* The service restarts.
LEMMA ServiceRestarts ==
  ASSUME SpinupInv, Telling!Crash
  PROVE  SpinupInv'
<1>0. SpinupTyped
  BY DEF SpinupInv
<1>1. /\ UNCHANGED <<kind, noticed, row, written, invited, losses>>
      /\ crashes' \in 0..MaxCrashes
      /\ wire' = [q \in Provisions |-> <<>>]
      /\ \A q \in Provisions :
           \/ place'[q] = place[q]
           \/ place'[q] = "lost" /\ place[q] \in Telling!Running \cup {"row"}
      /\ place' \in [Provisions -> Telling!Running \cup {"idle", "row", "done", "failed", "refused", "lost"}]
  <2>1. crashes' \in 0..MaxCrashes
    BY <1>0, SpinupBounds DEF Telling!Crash, SpinupTyped
  <2>2. /\ \A q \in Provisions : place'[q] = IF place[q] \in Telling!Running \cup {"row"} THEN "lost" ELSE place[q]
        /\ DOMAIN place' = Provisions /\ place' = [q \in Provisions |-> place'[q]]
    BY DEF Telling!Crash
  <2>3. place' \in [Provisions -> Telling!Running \cup {"idle", "row", "done", "failed", "refused", "lost"}]
    BY <1>0, <2>2 DEF SpinupTyped
  <2>4. UNCHANGED <<kind, noticed, row, written, invited, losses>> /\ wire' = [q \in Provisions |-> <<>>]
    BY DEF Telling!Crash
  <2>5. ASSUME NEW q \in Provisions
        PROVE  \/ place'[q] = place[q]
               \/ place'[q] = "lost" /\ place[q] \in Telling!Running \cup {"row"}
    BY <2>2
  <2> QED
    BY <2>1, <2>3, <2>4, <2>5
<1>2. ASSUME NEW q \in Provisions PROVE Reached(q)' /\ Little(q)' /\ Truthful(q)'
  <2>1. Reached(q) /\ Little(q) /\ Truthful(q)
    BY DEF SpinupInv
  <2>2. wire'[q] = <<>>
    BY <1>1
  <2>3. Size(q)' <= Size(q) /\ Size(q)' \in Nat /\ Size(q) \in Nat
    <3> DEFINE m == Len(wire[q])
               n == Len(noticed[q])
    <3>1. m \in Nat /\ n \in Nat
      BY <1>0 DEF SpinupTyped, Outgoing
    <3>2. Size(q) = m + n /\ Size(q)' = 0 + n
      BY <1>1, <2>2 DEF Size
    <3> HIDE DEF m, n
    <3> QED
      BY <3>1, <3>2
  <2>4. Heard(q)' \subseteq Heard(q)
    BY <1>1, <2>2 DEF Heard, Telling!Told, Telling!Coming
  <2>5. Reached(q)'
    BY <1>1, <2>1 DEF Reached, DedicatedPcs, SharedPcs
  <2>6. Little(q)'
    BY <1>1, <2>1, <2>3 DEF Little
  <2>7. Truthful(q)'
    BY <1>1, <2>1, <2>4 DEF Truthful, Telling!Running
  <2> QED
    BY <2>5, <2>6, <2>7
<1>3. SpinupTyped'
  BY <1>0, <1>1 DEF SpinupTyped, Outgoing
<1> QED
  BY <1>2, <1>3 DEF SpinupInv

LEMMA SpinupInductive ==
  ASSUME SpinupInv, Telling!Next
  PROVE  SpinupInv'
<1>1. ASSUME NEW p \in Provisions, Telling!Work(p) PROVE SpinupInv'
  BY <1>1, OneTold, SpinupTold, InvitationTold, NothingTold DEF Telling!Work
<1>2. ASSUME NEW p \in Provisions, Telling!Fails(p) PROVE SpinupInv'
  BY <1>2, NothingTold, FailureTold DEF Telling!Fails
<1>3. ASSUME NEW p \in Provisions, Telling!Deliver(p) \/ Telling!Lose(p) PROVE SpinupInv'
  BY <1>3, EventsPass
<1> QED
  BY <1>1, <1>2, <1>3, ServiceRestarts DEF Telling!Next

LEMMA SpinupKept ==
  ASSUME SpinupInv
  PROVE  Telling!TypeOK /\ Telling!OneOutcome /\ Telling!DidToldIsWritten /\ Telling!SuccessIsStored
<1>1. Telling!TypeOK
  <2>1. ASSUME NEW p \in Provisions PROVE Len(wire[p]) + Len(noticed[p]) <= 7
    BY DEF SpinupInv, Little, Size
  <2> QED
    BY <2>1 DEF SpinupInv, SpinupTyped, Outgoing, Telling!TypeOK
<1>2. Telling!OneOutcome
  BY DEF SpinupInv, Truthful, Heard, Telling!OneOutcome
<1>3. Telling!DidToldIsWritten
  BY DEF SpinupInv, Truthful, Heard, Telling!DidToldIsWritten
<1>4. Telling!SuccessIsStored
  BY DEF SpinupInv, Truthful, Heard, Reached, Telling!SuccessIsStored
<1> QED
  BY <1>1, <1>2, <1>3, <1>4

-----------------------------------------------------------------------------
\* The scripts that start agents (AgentPorts): an inductive invariant.

ScriptPcs == {"idle", "read", "clear", "write", "up", "wait", "remove", "endpoint", "token",
              "ended", "answered", "stored", "lost"}
Nobody  == {Starting!None}
NoToken == {Starting!None, Starting!Empty}

PortsTyped ==
  /\ portFile \in [Starting!Files -> Int]
  /\ container \in [Starting!Names -> Scripts \cup Nobody]
  /\ endpoint \in [Starting!Names -> Scripts \cup Nobody]
  /\ token \in [Starting!Names -> Scripts \cup NoToken]
  /\ alive \in BOOLEAN
  /\ place \in [Scripts -> ScriptPcs]
  /\ working \in [Scripts -> Starting!Files]
  /\ port \in [Scripts -> [Starting!Files -> Int]]
  /\ noticed \in [Scripts -> Scripts \cup NoToken]
  /\ answer \in [Scripts -> (Scripts \cup Nobody) \X (Scripts \cup NoToken)]
  /\ refused \subseteq Scripts /\ unstarted \subseteq Scripts /\ abreast \subseteq Scripts
  /\ failures \in 0..MaxFailures

\* What bears a name was made by a script of that name.
ByName ==
  /\ \A n \in Starting!Names :
       /\ container[n] # Starting!None => NameOf[container[n]] = n
       /\ endpoint[n] # Starting!None => NameOf[endpoint[n]] = n
       /\ token[n] \notin NoToken => NameOf[token[n]] = n
  /\ \A p \in Scripts : noticed[p] \notin NoToken => NameOf[noticed[p]] = NameOf[p]

\* Who never ran next to another is alone while it runs.
Alone ==
  \A p \in Starting!UnderWay : p \notin abreast => Starting!UnderWay = {p}

\* A script that was started, and alone, leaves what it made.
Smooth(p) == p \notin refused \cup unstarted \cup abreast

SmoothRuns ==
  \A p \in Scripts : Smooth(p) =>
    LET n == NameOf[p]
    IN  /\ place[p] = "wait" => container[n] = p
        /\ place[p] \in {"remove", "endpoint", "token"} => noticed[p] \in {p, Starting!Empty}
        /\ place[p] \in {"token", "ended"} => endpoint[n] = p
        /\ place[p] = "ended" => token[n] \in {p} \cup NoToken

\* The ports taken from a file: one after the other, while no scripts cross.
Took(k) == {p \in Scripts : port[p][k] # Starting!Blank}
Top(k)  == Starting!First(k) + Cardinality(Took(k))

Busy(k) == {p \in Scripts : place[p] \in {"clear", "write"} /\ working[p] = k}

\* A script's ports come in order, and its container runs after them.
InOrder ==
  /\ \A p \in Scripts :
       /\ place[p] = "idle" => working[p] = "admin"
       /\ place[p] \in {"idle", "read"} => p \notin Took(working[p])
       /\ place[p] \in {"clear", "write"} => p \in Took(working[p])
       /\ place[p] \in {"idle", "read", "clear", "write"} /\ working[p] = "admin" => p \notin Took("inbound")
       /\ place[p] \in {"read", "clear", "write"} /\ working[p] = "inbound" => p \in Took("admin")
       /\ place[p] = "up" => p \in Took("admin") \cap Took("inbound")
  /\ \A n \in Starting!Names : container[n] # Starting!None =>
       place[container[n]] \notin {"idle", "read", "clear", "write", "up"}

Counted ==
  \A k \in Starting!Files :
    /\ \A p \in Took(k) : port[p][k] \in Starting!First(k) + 1 .. Top(k)
    /\ \A p, q \in Took(k) : p # q => port[p][k] # port[q][k]
    /\ Busy(k) = {} => portFile[k] = Top(k)
    /\ \A p \in Busy(k) :
         /\ port[p][k] = Top(k)
         /\ portFile[k] = IF place[p] = "clear" THEN Top(k) - 1 ELSE Starting!Blank

PortsInv ==
  /\ PortsTyped /\ ByName /\ Alone /\ SmoothRuns
  /\ Starting!AnswerIsMine
  /\ abreast = {} => InOrder /\ Counted /\ refused = {}

LEMMA PortsConstants ==
  /\ IsFiniteSet(Scripts) /\ DOMAIN NameOf = Scripts
  /\ Scripts \cap NoToken = {} /\ Starting!None # Starting!Empty
  /\ Gap \in Nat /\ Gap >= Cardinality(Scripts) /\ MaxFailures \in Nat
BY InstancesAssumption
   DEF Starting!ConstantsAssumption, Starting!IsFiniteSet, IsFiniteSet, Starting!Cardinality,
       Cardinality, NoToken, Starting!None, Starting!Empty

LEMMA NamesAre == \A p \in Scripts : NameOf[p] \in Starting!Names
BY DEF Starting!Names

LEMMA PortsInit == Starting!Init => PortsInv
<1> SUFFICES ASSUME Starting!Init PROVE PortsInv
  OBVIOUS
<1> USE PortsConstants
<1>1. PortsTyped
  BY DEF Starting!Init, PortsTyped, ScriptPcs, Nobody, NoToken, Starting!First, Starting!Files, Starting!Blank
<1>2. ByName /\ Alone /\ SmoothRuns /\ Starting!AnswerIsMine
  BY NamesAre DEF Starting!Init, ByName, Alone, SmoothRuns, Starting!AnswerIsMine, Starting!UnderWay, NoToken
<1>3. \A k \in Starting!Files : Took(k) = {} /\ Busy(k) = {}
  BY DEF Starting!Init, Took, Busy, Starting!Files
<1>4. InOrder
  BY <1>3 DEF Starting!Init, InOrder, Starting!Files
<1>5. Counted /\ refused = {}
  <2>1. \A k \in Starting!Files : Top(k) = Starting!First(k) /\ portFile[k] = Starting!First(k)
    <3>1. Cardinality({}) = 0
      BY FS_EmptySet
    <3>2. \A k \in Starting!Files : Starting!First(k) \in Int /\ portFile[k] = Starting!First(k)
      BY DEF Starting!Init, Starting!First, Starting!Files
    <3> QED
      BY <1>3, <3>1, <3>2 DEF Top
  <2> QED
    BY <1>3, <2>1 DEF Counted, Starting!Init
<1> QED
  BY <1>1, <1>2, <1>4, <1>5 DEF PortsInv

\* Types.
LEMMA PortsTypedStep ==
  ASSUME PortsTyped, Starting!Next
  PROVE  PortsTyped'
<1> USE PortsConstants, NamesAre DEF PortsTyped, ScriptPcs, Nobody, NoToken, Starting!Goes, Starting!history, Starting!FileOf
<1>1. ASSUME NEW p \in Scripts, Starting!walletProvision(p) PROVE PortsTyped'
  BY <1>1 DEF Starting!walletProvision, Starting!UnderWay
<1>2. ASSUME NEW p \in Scripts, Starting!ReadPort(p) PROVE PortsTyped'
  BY <1>2 DEF Starting!ReadPort, Starting!increment_port, Starting!Blank, Starting!Files
<1>3. ASSUME NEW p \in Scripts, Starting!ClearFile(p) PROVE PortsTyped'
  BY <1>3 DEF Starting!ClearFile, Starting!Blank, Starting!Files
<1>4. ASSUME NEW p \in Scripts, Starting!WriteFile(p) PROVE PortsTyped'
  BY <1>4 DEF Starting!WriteFile, Starting!Files
<1>5. ASSUME NEW p \in Scripts, Starting!ComposeUp(p) PROVE PortsTyped'
  BY <1>5 DEF Starting!ComposeUp
<1>6. ASSUME NEW p \in Scripts, Starting!PortRefused(p) PROVE PortsTyped'
  BY <1>6 DEF Starting!PortRefused
<1>7. ASSUME NEW p \in Scripts, Starting!DockerFails(p) PROVE PortsTyped'
  BY <1>7 DEF Starting!DockerFails
<1>8. ASSUME NEW p \in Scripts, Starting!WaitForAgent(p) PROVE PortsTyped'
  BY <1>8 DEF Starting!WaitForAgent
<1>9. ASSUME NEW p \in Scripts, Starting!RemoveEndpoint(p) PROVE PortsTyped'
  BY <1>9 DEF Starting!RemoveEndpoint
<1>10. ASSUME NEW p \in Scripts, Starting!WriteEndpoint(p) PROVE PortsTyped'
  BY <1>10 DEF Starting!WriteEndpoint
<1>11. ASSUME NEW p \in Scripts, Starting!WriteToken(p) PROVE PortsTyped'
  BY <1>11 DEF Starting!WriteToken
<1>12. ASSUME NEW p \in Scripts, Starting!ResolveResponse(p) PROVE PortsTyped'
  BY <1>12 DEF Starting!ResolveResponse, Starting!checkFileExistence
<1>13. ASSUME NEW p \in Scripts, Starting!NotFound(p) PROVE PortsTyped'
  BY <1>13 DEF Starting!NotFound, Starting!UnderWay
<1>14. ASSUME NEW p \in Scripts, Starting!RemoveToken(p) PROVE PortsTyped'
  BY <1>14 DEF Starting!RemoveToken
<1>15. CASE Starting!Restart
  BY <1>15 DEF Starting!Restart, Starting!script
<1> QED
  BY <1>1, <1>2, <1>3, <1>4, <1>5, <1>6, <1>7, <1>8, <1>9, <1>10, <1>11, <1>12, <1>13, <1>14, <1>15 DEF Starting!Next, Starting!Script, Starting!Callback

\* Names.
LEMMA ByNameStep ==
  ASSUME PortsTyped, ByName, Starting!Next
  PROVE  ByName'
<1> USE PortsConstants, NamesAre DEF PortsTyped, ByName, Nobody, NoToken, Starting!FileOf, Starting!Names
<1>1. ASSUME NEW p \in Scripts, Starting!walletProvision(p) PROVE ByName'
  BY <1>1 DEF Starting!walletProvision
<1>2. ASSUME NEW p \in Scripts, Starting!ReadPort(p) PROVE ByName'
  BY <1>2 DEF Starting!ReadPort
<1>3. ASSUME NEW p \in Scripts, Starting!ClearFile(p) PROVE ByName'
  BY <1>3 DEF Starting!ClearFile
<1>4. ASSUME NEW p \in Scripts, Starting!WriteFile(p) PROVE ByName'
  BY <1>4 DEF Starting!WriteFile
<1>5. ASSUME NEW p \in Scripts, Starting!ComposeUp(p) PROVE ByName'
  BY <1>5 DEF Starting!ComposeUp
<1>6. ASSUME NEW p \in Scripts, Starting!PortRefused(p) PROVE ByName'
  BY <1>6 DEF Starting!PortRefused
<1>7. ASSUME NEW p \in Scripts, Starting!DockerFails(p) PROVE ByName'
  <2>1. PICK left \in {Starting!None, container[NameOf[p]]} :
          container' = [container EXCEPT ![NameOf[p]] = left]
    BY <1>7 DEF Starting!DockerFails
  <2>2. UNCHANGED <<endpoint, token, noticed>>
    BY <1>7 DEF Starting!DockerFails
  <2>3. \A n \in Starting!Names : container'[n] \in {Starting!None, container[n]}
    BY <2>1
  <2> QED
    BY <2>2, <2>3
<1>8. ASSUME NEW p \in Scripts, Starting!WaitForAgent(p) PROVE ByName'
  BY <1>8 DEF Starting!WaitForAgent
<1>9. ASSUME NEW p \in Scripts, Starting!RemoveEndpoint(p) PROVE ByName'
  BY <1>9 DEF Starting!RemoveEndpoint
<1>10. ASSUME NEW p \in Scripts, Starting!WriteEndpoint(p) PROVE ByName'
  BY <1>10 DEF Starting!WriteEndpoint
<1>11. ASSUME NEW p \in Scripts, Starting!WriteToken(p) PROVE ByName'
  BY <1>11 DEF Starting!WriteToken
<1>12. ASSUME NEW p \in Scripts, Starting!ResolveResponse(p) PROVE ByName'
  BY <1>12 DEF Starting!ResolveResponse
<1>13. ASSUME NEW p \in Scripts, Starting!NotFound(p) PROVE ByName'
  BY <1>13 DEF Starting!NotFound
<1>14. ASSUME NEW p \in Scripts, Starting!RemoveToken(p) PROVE ByName'
  BY <1>14 DEF Starting!RemoveToken
<1>15. CASE Starting!Restart
  BY <1>15 DEF Starting!Restart, Starting!script, Starting!history
<1> QED
  BY <1>1, <1>2, <1>3, <1>4, <1>5, <1>6, <1>7, <1>8, <1>9, <1>10, <1>11, <1>12, <1>13, <1>14, <1>15 DEF Starting!Next, Starting!Script, Starting!Callback

\* Who is alone.
LEMMA AloneStep ==
  ASSUME PortsTyped, Alone, Starting!Next
  PROVE  Alone'
<1> USE PortsConstants, NamesAre DEF PortsTyped, Alone, Starting!UnderWay, Starting!Goes, Starting!history
<1>1. ASSUME NEW p \in Scripts, Starting!walletProvision(p) PROVE Alone'
  BY <1>1 DEF Starting!walletProvision
<1>2. ASSUME NEW p \in Scripts, Starting!ReadPort(p) PROVE Alone'
  BY <1>2 DEF Starting!ReadPort
<1>3. ASSUME NEW p \in Scripts, Starting!ClearFile(p) PROVE Alone'
  BY <1>3 DEF Starting!ClearFile
<1>4. ASSUME NEW p \in Scripts, Starting!WriteFile(p) PROVE Alone'
  BY <1>4 DEF Starting!WriteFile
<1>5. ASSUME NEW p \in Scripts, Starting!ComposeUp(p) PROVE Alone'
  BY <1>5 DEF Starting!ComposeUp
<1>6. ASSUME NEW p \in Scripts, Starting!PortRefused(p) PROVE Alone'
  BY <1>6 DEF Starting!PortRefused
<1>7. ASSUME NEW p \in Scripts, Starting!DockerFails(p) PROVE Alone'
  BY <1>7 DEF Starting!DockerFails
<1>8. ASSUME NEW p \in Scripts, Starting!WaitForAgent(p) PROVE Alone'
  BY <1>8 DEF Starting!WaitForAgent
<1>9. ASSUME NEW p \in Scripts, Starting!RemoveEndpoint(p) PROVE Alone'
  BY <1>9 DEF Starting!RemoveEndpoint
<1>10. ASSUME NEW p \in Scripts, Starting!WriteEndpoint(p) PROVE Alone'
  BY <1>10 DEF Starting!WriteEndpoint
<1>11. ASSUME NEW p \in Scripts, Starting!WriteToken(p) PROVE Alone'
  BY <1>11 DEF Starting!WriteToken
<1>12. ASSUME NEW p \in Scripts, Starting!ResolveResponse(p) PROVE Alone'
  BY <1>12 DEF Starting!ResolveResponse
<1>13. ASSUME NEW p \in Scripts, Starting!NotFound(p) PROVE Alone'
  BY <1>13 DEF Starting!NotFound
<1>14. ASSUME NEW p \in Scripts, Starting!RemoveToken(p) PROVE Alone'
  BY <1>14 DEF Starting!RemoveToken
<1>15. CASE Starting!Restart
  BY <1>15 DEF Starting!Restart, Starting!script, Starting!history
<1> QED
  BY <1>1, <1>2, <1>3, <1>4, <1>5, <1>6, <1>7, <1>8, <1>9, <1>10, <1>11, <1>12, <1>13, <1>14, <1>15 DEF Starting!Next, Starting!Script, Starting!Callback

\* What smooth runs leave.
\* Of two scripts under way neither is smooth.
SmoothAt(p) ==
  LET n == NameOf[p]
  IN  /\ place[p] = "wait" => container[n] = p
      /\ place[p] \in {"remove", "endpoint", "token"} => noticed[p] \in {p, Starting!Empty}
      /\ place[p] \in {"token", "ended"} => endpoint[n] = p
      /\ place[p] = "ended" => token[n] \in {p} \cup NoToken

LEMMA SmoothStep ==
  ASSUME PortsTyped, Alone, SmoothRuns, Starting!Next
  PROVE  SmoothRuns'
<1> SUFFICES ASSUME NEW q \in Scripts, q \notin (refused \cup unstarted \cup abreast)'
             PROVE  SmoothAt(q)'
  BY DEF SmoothRuns, Smooth, SmoothAt
<1> USE PortsConstants, NamesAre
<1>0. \A p \in Scripts : place[p] \notin {"idle", "answered", "stored", "lost"} /\ p # q /\ q \notin abreast =>
        place[q] \in {"idle", "answered", "stored", "lost"}
  BY DEF Alone, Starting!UnderWay
<1>s. q \notin refused \cup unstarted \cup abreast => SmoothAt(q)
  BY DEF SmoothRuns, Smooth, SmoothAt
<1> USE DEF PortsTyped, SmoothAt, Starting!Goes, Starting!history, Starting!FileOf, NoToken, Nobody
<1>1. ASSUME NEW p \in Scripts, Starting!walletProvision(p) PROVE SmoothAt(q)'
  <2>1. q \notin refused \cup unstarted \cup abreast
    BY <1>1 DEF Starting!walletProvision
  <2>2. place'[q] = IF q = p THEN "read" ELSE place[q]
    BY <1>1 DEF Starting!walletProvision
  <2>3. UNCHANGED <<container, endpoint, token, noticed>>
    BY <1>1 DEF Starting!walletProvision
  <2> QED
    BY <1>s, <2>1, <2>2, <2>3
<1>2. ASSUME NEW p \in Scripts, Starting!ReadPort(p) PROVE SmoothAt(q)'
  <2>1. q \notin refused \cup unstarted \cup abreast
    BY <1>2 DEF Starting!ReadPort
  <2>2. CASE q = p
    BY <1>2, <1>s, <2>1, <2>2 DEF Starting!ReadPort
  <2>3. CASE q # p
    <3>1. place[p] \notin {"idle", "answered", "stored", "lost"} /\ place'[q] = place[q]
      BY <1>2, <2>3 DEF Starting!ReadPort
    <3> QED
      BY <1>0, <2>1, <2>3, <3>1
  <2> QED
    BY <2>2, <2>3
<1>3. ASSUME NEW p \in Scripts, Starting!ClearFile(p) PROVE SmoothAt(q)'
  <2>1. q \notin refused \cup unstarted \cup abreast
    BY <1>3 DEF Starting!ClearFile
  <2>2. CASE q = p
    BY <1>3, <1>s, <2>1, <2>2 DEF Starting!ClearFile
  <2>3. CASE q # p
    <3>1. place[p] \notin {"idle", "answered", "stored", "lost"} /\ place'[q] = place[q]
      BY <1>3, <2>3 DEF Starting!ClearFile
    <3> QED
      BY <1>0, <2>1, <2>3, <3>1
  <2> QED
    BY <2>2, <2>3
<1>4. ASSUME NEW p \in Scripts, Starting!WriteFile(p) PROVE SmoothAt(q)'
  <2>1. q \notin refused \cup unstarted \cup abreast
    BY <1>4 DEF Starting!WriteFile
  <2>2. CASE q = p
    BY <1>4, <1>s, <2>1, <2>2 DEF Starting!WriteFile
  <2>3. CASE q # p
    <3>1. place[p] \notin {"idle", "answered", "stored", "lost"} /\ place'[q] = place[q]
      BY <1>4, <2>3 DEF Starting!WriteFile
    <3> QED
      BY <1>0, <2>1, <2>3, <3>1
  <2> QED
    BY <2>2, <2>3
<1>5. ASSUME NEW p \in Scripts, Starting!ComposeUp(p) PROVE SmoothAt(q)'
  <2>1. q \notin refused \cup unstarted \cup abreast
    BY <1>5 DEF Starting!ComposeUp
  <2>2. CASE q = p
    BY <1>5, <1>s, <2>1, <2>2 DEF Starting!ComposeUp
  <2>3. CASE q # p
    <3>1. place[p] \notin {"idle", "answered", "stored", "lost"} /\ place'[q] = place[q]
      BY <1>5, <2>3 DEF Starting!ComposeUp
    <3> QED
      BY <1>0, <2>1, <2>3, <3>1
  <2> QED
    BY <2>2, <2>3
<1>6. ASSUME NEW p \in Scripts, Starting!PortRefused(p) PROVE SmoothAt(q)'
  <2>1. q \notin refused \cup unstarted \cup abreast
    BY <1>6 DEF Starting!PortRefused
  <2>2. CASE q = p
    BY <1>6, <1>s, <2>1, <2>2 DEF Starting!PortRefused
  <2>3. CASE q # p
    <3>1. place[p] \notin {"idle", "answered", "stored", "lost"} /\ place'[q] = place[q]
      BY <1>6, <2>3 DEF Starting!PortRefused
    <3> QED
      BY <1>0, <2>1, <2>3, <3>1
  <2> QED
    BY <2>2, <2>3
<1>7. ASSUME NEW p \in Scripts, Starting!DockerFails(p) PROVE SmoothAt(q)'
  <2>1. q \notin refused \cup unstarted \cup abreast
    BY <1>7 DEF Starting!DockerFails
  <2>2. CASE q = p
    BY <1>7, <1>s, <2>1, <2>2 DEF Starting!DockerFails
  <2>3. CASE q # p
    <3>1. place[p] \notin {"idle", "answered", "stored", "lost"} /\ place'[q] = place[q]
      BY <1>7, <2>3 DEF Starting!DockerFails
    <3> QED
      BY <1>0, <2>1, <2>3, <3>1
  <2> QED
    BY <2>2, <2>3
<1>8. ASSUME NEW p \in Scripts, Starting!WaitForAgent(p) PROVE SmoothAt(q)'
  <2>1. q \notin refused \cup unstarted \cup abreast
    BY <1>8 DEF Starting!WaitForAgent
  <2>2. CASE q = p
    BY <1>8, <1>s, <2>1, <2>2 DEF Starting!WaitForAgent
  <2>3. CASE q # p
    <3>1. place[p] \notin {"idle", "answered", "stored", "lost"} /\ place'[q] = place[q]
      BY <1>8, <2>3 DEF Starting!WaitForAgent
    <3> QED
      BY <1>0, <2>1, <2>3, <3>1
  <2> QED
    BY <2>2, <2>3
<1>9. ASSUME NEW p \in Scripts, Starting!RemoveEndpoint(p) PROVE SmoothAt(q)'
  <2>1. q \notin refused \cup unstarted \cup abreast
    BY <1>9 DEF Starting!RemoveEndpoint
  <2>2. CASE q = p
    BY <1>9, <1>s, <2>1, <2>2 DEF Starting!RemoveEndpoint
  <2>3. CASE q # p
    <3>1. place[p] \notin {"idle", "answered", "stored", "lost"} /\ place'[q] = place[q]
      BY <1>9, <2>3 DEF Starting!RemoveEndpoint
    <3> QED
      BY <1>0, <2>1, <2>3, <3>1
  <2> QED
    BY <2>2, <2>3
<1>10. ASSUME NEW p \in Scripts, Starting!WriteEndpoint(p) PROVE SmoothAt(q)'
  <2>1. q \notin refused \cup unstarted \cup abreast
    BY <1>10 DEF Starting!WriteEndpoint
  <2>2. CASE q = p
    BY <1>10, <1>s, <2>1, <2>2 DEF Starting!WriteEndpoint
  <2>3. CASE q # p
    <3>1. place[p] \notin {"idle", "answered", "stored", "lost"} /\ place'[q] = place[q]
      BY <1>10, <2>3 DEF Starting!WriteEndpoint
    <3> QED
      BY <1>0, <2>1, <2>3, <3>1
  <2> QED
    BY <2>2, <2>3
<1>11. ASSUME NEW p \in Scripts, Starting!WriteToken(p) PROVE SmoothAt(q)'
  <2>1. q \notin refused \cup unstarted \cup abreast
    BY <1>11 DEF Starting!WriteToken
  <2>2. CASE q = p
    BY <1>11, <1>s, <2>1, <2>2 DEF Starting!WriteToken
  <2>3. CASE q # p
    <3>1. place[p] \notin {"idle", "answered", "stored", "lost"} /\ place'[q] = place[q]
      BY <1>11, <2>3 DEF Starting!WriteToken
    <3> QED
      BY <1>0, <2>1, <2>3, <3>1
  <2> QED
    BY <2>2, <2>3
<1>12. ASSUME NEW p \in Scripts, Starting!ResolveResponse(p) PROVE SmoothAt(q)'
  <2>1. q \notin refused \cup unstarted \cup abreast
    BY <1>12 DEF Starting!ResolveResponse
  <2>2. CASE q = p
    BY <1>12, <1>s, <2>1, <2>2 DEF Starting!ResolveResponse
  <2>3. CASE q # p
    <3>1. place[p] \notin {"idle", "answered", "stored", "lost"} /\ place'[q] = place[q]
      BY <1>12, <2>3 DEF Starting!ResolveResponse
    <3> QED
      BY <1>0, <2>1, <2>3, <3>1
  <2> QED
    BY <2>2, <2>3
<1>13. ASSUME NEW p \in Scripts, Starting!NotFound(p) PROVE SmoothAt(q)'
  <2>1. place'[q] \in {"lost", place[q]}
    BY <1>13 DEF Starting!NotFound
  <2>2. UNCHANGED <<container, endpoint, token, noticed, refused, unstarted, abreast>>
    BY <1>13 DEF Starting!NotFound
  <2> QED
    BY <1>s, <2>1, <2>2
<1>14. ASSUME NEW p \in Scripts, Starting!RemoveToken(p) PROVE SmoothAt(q)'
  <2>1. q \notin refused \cup unstarted \cup abreast
    BY <1>14 DEF Starting!RemoveToken
  <2>2. place'[q] = IF q = p THEN "stored" ELSE place[q]
    BY <1>14 DEF Starting!RemoveToken
  <2>3. UNCHANGED <<container, endpoint, noticed>>
    BY <1>14 DEF Starting!RemoveToken
  <2>4. token'[NameOf[q]] \in {token[NameOf[q]], Starting!None}
    BY <1>14 DEF Starting!RemoveToken
  <2> QED
    BY <1>s, <2>1, <2>2, <2>3, <2>4
<1>15. CASE Starting!Restart
  BY <1>15, <1>s DEF Starting!Restart, Starting!script, Starting!history
<1> QED
  BY <1>1, <1>2, <1>3, <1>4, <1>5, <1>6, <1>7, <1>8, <1>9, <1>10, <1>11, <1>12, <1>13, <1>14, <1>15 DEF Starting!Next, Starting!Script, Starting!Callback

\* Answers.
LEMMA AnswerStep ==
  ASSUME PortsTyped, ByName, SmoothRuns, Starting!AnswerIsMine, Starting!Next
  PROVE  Starting!AnswerIsMine'
<1> USE PortsConstants, NamesAre DEF PortsTyped, ByName, SmoothRuns, Smooth, Starting!AnswerIsMine, Starting!Namesakes, Starting!Goes, Starting!history, Starting!FileOf, Starting!checkFileExistence, NoToken, Nobody, Starting!UnderWay
<1>1. ASSUME NEW p \in Scripts, Starting!walletProvision(p) PROVE Starting!AnswerIsMine'
  BY <1>1 DEF Starting!walletProvision
<1>2. ASSUME NEW p \in Scripts, Starting!ReadPort(p) PROVE Starting!AnswerIsMine'
  BY <1>2 DEF Starting!ReadPort
<1>3. ASSUME NEW p \in Scripts, Starting!ClearFile(p) PROVE Starting!AnswerIsMine'
  BY <1>3 DEF Starting!ClearFile
<1>4. ASSUME NEW p \in Scripts, Starting!WriteFile(p) PROVE Starting!AnswerIsMine'
  BY <1>4 DEF Starting!WriteFile
<1>5. ASSUME NEW p \in Scripts, Starting!ComposeUp(p) PROVE Starting!AnswerIsMine'
  BY <1>5 DEF Starting!ComposeUp
<1>6. ASSUME NEW p \in Scripts, Starting!PortRefused(p) PROVE Starting!AnswerIsMine'
  BY <1>6 DEF Starting!PortRefused
<1>7. ASSUME NEW p \in Scripts, Starting!DockerFails(p) PROVE Starting!AnswerIsMine'
  BY <1>7 DEF Starting!DockerFails
<1>8. ASSUME NEW p \in Scripts, Starting!WaitForAgent(p) PROVE Starting!AnswerIsMine'
  BY <1>8 DEF Starting!WaitForAgent
<1>9. ASSUME NEW p \in Scripts, Starting!RemoveEndpoint(p) PROVE Starting!AnswerIsMine'
  BY <1>9 DEF Starting!RemoveEndpoint
<1>10. ASSUME NEW p \in Scripts, Starting!WriteEndpoint(p) PROVE Starting!AnswerIsMine'
  BY <1>10 DEF Starting!WriteEndpoint
<1>11. ASSUME NEW p \in Scripts, Starting!WriteToken(p) PROVE Starting!AnswerIsMine'
  BY <1>11 DEF Starting!WriteToken
<1>12. ASSUME NEW p \in Scripts, Starting!ResolveResponse(p) PROVE Starting!AnswerIsMine'
  BY <1>12 DEF Starting!ResolveResponse
<1>13. ASSUME NEW p \in Scripts, Starting!NotFound(p) PROVE Starting!AnswerIsMine'
  BY <1>13 DEF Starting!NotFound
<1>14. ASSUME NEW p \in Scripts, Starting!RemoveToken(p) PROVE Starting!AnswerIsMine'
  BY <1>14 DEF Starting!RemoveToken
<1>15. CASE Starting!Restart
  BY <1>15 DEF Starting!Restart, Starting!script, Starting!history
<1> QED
  BY <1>1, <1>2, <1>3, <1>4, <1>5, <1>6, <1>7, <1>8, <1>9, <1>10, <1>11, <1>12, <1>13, <1>14, <1>15 DEF Starting!Next, Starting!Script, Starting!Callback

-----------------------------------------------------------------------------
\* One script after the other.
LEMMA OneRuns ==
  ASSUME Alone, abreast = {}
  PROVE  \A p, q \in Starting!UnderWay : p = q
BY DEF Alone, Starting!UnderWay

\* The ports counted from a file: no more of them than scripts.
LEMMA TopIs ==
  ASSUME PortsTyped, NEW k \in Starting!Files
  PROVE  /\ IsFiniteSet(Took(k)) /\ Starting!First(k) \in Nat /\ Top(k) \in Nat
         /\ Starting!First(k) <= Top(k)
         /\ Top(k) <= Starting!First(k) + Cardinality(Scripts)
<1> USE PortsConstants
<1>1. Took(k) \subseteq Scripts
  BY DEF Took
<1>2. IsFiniteSet(Took(k)) /\ Cardinality(Took(k)) <= Cardinality(Scripts)
  BY <1>1, FS_Subset
<1>3. Cardinality(Took(k)) \in Nat /\ Cardinality(Scripts) \in Nat
  BY <1>2, FS_CardinalityType
<1>4. Starting!First(k) \in Nat
  BY DEF Starting!First
<1> HIDE DEF Starting!First
<1> QED
  BY <1>2, <1>3, <1>4 DEF Top

\* Reading is alone: the file holds the last port taken from it.
LEMMA ReadIs ==
  ASSUME PortsTyped, Alone, InOrder, Counted, abreast = {}, NEW p \in Scripts, Starting!ReadPort(p)
  PROVE  LET k == working[p]
         IN  /\ k \in Starting!Files /\ portFile[k] = Top(k)
             /\ port' = [port EXCEPT ![p][k] = Top(k) + 1]
             /\ p \notin Took(k) /\ Busy(k) = {}
<1> DEFINE k == working[p]
<1>1. k \in Starting!Files /\ place[p] = "read"
  BY DEF PortsTyped, Starting!ReadPort
<1>2. p \notin Took(k)
  BY <1>1 DEF InOrder
<1>3. Busy(k) = {}
  BY <1>1, OneRuns DEF Busy, Starting!UnderWay
<1>4. portFile[k] = Top(k)
  BY <1>1, <1>3 DEF Counted
<1>5. Top(k) \in Nat
  BY <1>1, TopIs
<1>6. Starting!increment_port(portFile[k]) = Top(k) + 1
  <2> HIDE DEF k
  <2> QED
    BY <1>4, <1>5 DEF Starting!increment_port, Starting!Blank
<1>7. port' = [port EXCEPT ![p][k] = Starting!increment_port(portFile[k])]
  BY DEF Starting!ReadPort
<1> QED
  BY <1>1, <1>2, <1>3, <1>4, <1>6, <1>7

\* No script that runs alone is refused its ports.
LEMMA NoneRefused ==
  ASSUME PortsTyped, InOrder, Counted, NEW p \in Scripts, Starting!PortRefused(p)
  PROVE  FALSE
<1> USE PortsConstants, NamesAre
<1> DEFINE F == Starting!Files
<1>1. place[p] = "up" /\ \A k \in F : p \in Took(k)
  BY DEF Starting!PortRefused, InOrder, Starting!Files
<1>2. Starting!Blank \notin Starting!PortsOf(p)
  BY <1>1 DEF Starting!PortsOf, Took
<1>3. PICK n \in Starting!Names : container[n] # Starting!None
              /\ Starting!PortsOf(container[n]) \cap Starting!PortsOf(p) # {}
  BY <1>2 DEF Starting!PortRefused, Starting!Taken
<1> DEFINE c == container[n]
<1>4. c \in Scripts /\ place[c] # "up"
  BY <1>3 DEF PortsTyped, Nobody, InOrder
<1>5. c # p
  BY <1>1, <1>4
<1>6. PICK k \in F, l \in F : port[c][k] = port[p][l]
  BY <1>3 DEF Starting!PortsOf
<1>7. port[p][l] # Starting!Blank
  BY <1>2 DEF Starting!PortsOf
<1>8. p \in Took(l) /\ c \in Took(k)
  BY <1>1, <1>4, <1>6, <1>7 DEF Took
<1>9. k # l
  BY <1>5, <1>6, <1>8 DEF Counted
<1>10. /\ port[p][l] \in Starting!First(l) + 1 .. Top(l)
       /\ port[c][k] \in Starting!First(k) + 1 .. Top(k)
  BY <1>8 DEF Counted
<1>11. Starting!First("admin") = 0 /\ Starting!First("inbound") = Gap
  BY DEF Starting!First
<1>12. Top("admin") \in Nat /\ Top("inbound") \in Nat /\ Top("admin") <= Cardinality(Scripts)
  <2>1. "admin" \in F /\ "inbound" \in F
    BY DEF Starting!Files
  <2>2. Cardinality(Scripts) \in Nat
    BY FS_CardinalityType
  <2> QED
    BY <1>11, <2>1, <2>2, TopIs
<1>13. Cardinality(Scripts) \in Nat
  BY FS_CardinalityType
<1>14. k \in {"admin", "inbound"} /\ l \in {"admin", "inbound"}
  BY DEF Starting!Files
<1> HIDE DEF c, F
<1>15. CASE k = "admin" /\ l = "inbound"
  BY <1>6, <1>10, <1>11, <1>12, <1>13, <1>15
<1>16. CASE k = "inbound" /\ l = "admin"
  BY <1>6, <1>10, <1>11, <1>12, <1>13, <1>16
<1> QED
  BY <1>9, <1>14, <1>15, <1>16

\* The order of a script.
OrderOf(p) ==
  /\ place[p] = "idle" => working[p] = "admin"
  /\ place[p] \in {"idle", "read"} => p \notin Took(working[p])
  /\ place[p] \in {"clear", "write"} => p \in Took(working[p])
  /\ place[p] \in {"idle", "read", "clear", "write"} /\ working[p] = "admin" => p \notin Took("inbound")
  /\ place[p] \in {"read", "clear", "write"} /\ working[p] = "inbound" => p \in Took("admin")
  /\ place[p] = "up" => p \in Took("admin") \cap Took("inbound")

Early == {"idle", "read", "clear", "write", "up"}

LEMMA InOrderStep ==
  ASSUME PortsTyped, Alone, InOrder, Counted, abreast = {}, Starting!Next
  PROVE  InOrder'
<1> USE PortsConstants, NamesAre
<1>o. \A q \in Scripts : OrderOf(q)
  BY DEF InOrder, OrderOf
<1>c. \A n \in Starting!Names : container[n] # Starting!None =>
        container[n] \in Scripts /\ place[container[n]] \notin Early
  BY DEF InOrder, PortsTyped, Nobody, Early
<1> SUFFICES ASSUME NEW q \in Scripts, NEW n \in Starting!Names
             PROVE  OrderOf(q)' /\ (container[n] # Starting!None => place[container[n]] \notin Early)'
  <2>1. Scripts # {} /\ Starting!Names # {}
    BY InstancesAssumption DEF Starting!ConstantsAssumption, Starting!Names
  <2>2. \A q \in Scripts : OrderOf(q)'
    BY <2>1
  <2>3. \A n \in Starting!Names : (container[n] # Starting!None => place[container[n]] \notin Early)'
    BY <2>1
  <2> QED
    BY <2>2, <2>3 DEF InOrder, OrderOf, Early
<1>s. OrderOf(q)
  BY <1>o
<1> DEFINE G == OrderOf(q)' /\ (container[n] # Starting!None => place[container[n]] \notin Early)'
<1> USE DEF PortsTyped, Starting!Goes, Starting!history, Starting!Files
<1>1. ASSUME NEW p \in Scripts, Starting!walletProvision(p) PROVE G
  <2>1. place[p] = "idle" /\ place' = [place EXCEPT ![p] = "read"]
    BY <1>1 DEF Starting!walletProvision
  <2>2. UNCHANGED <<working, port>>
    BY <1>1 DEF Starting!walletProvision
  <2>3. OrderOf(q)'
    BY <1>s, <2>1, <2>2 DEF OrderOf, Took
  <2>4. container' = container
    BY <1>1 DEF Starting!walletProvision
  <2> QED
    BY <1>c, <2>1, <2>3, <2>4 DEF Early
<1>2. ASSUME NEW p \in Scripts, Starting!ReadPort(p) PROVE G
  <2>1. place[p] = "read" /\ place' = [place EXCEPT ![p] = "clear"]
    BY <1>2 DEF Starting!ReadPort
  <2>2. working' = working
    BY <1>2 DEF Starting!ReadPort
  <2>6. working[p] \in Starting!Files /\ Top(working[p]) \in Nat /\ port' = [port EXCEPT ![p][working[p]] = Top(working[p]) + 1]
    BY <1>2, ReadIs, TopIs
  <2>7. port'[p][working[p]] # Starting!Blank
    <3> DEFINE m == Top(working[p])
    <3>1. m \in Nat /\ port'[p][working[p]] = m + 1
      BY <2>6
    <3> HIDE DEF m
    <3> QED
      BY <3>1 DEF Starting!Blank
  <2>8. \A r \in Scripts, k \in Starting!Files : r # p \/ k # working[p] => port'[r][k] = port[r][k]
    BY <2>6
  <2>3. OrderOf(q)'
    BY <1>s, <2>1, <2>2, <2>7, <2>8 DEF OrderOf, Took
  <2>4. container' = container
    BY <1>2 DEF Starting!ReadPort
  <2> QED
    BY <1>c, <2>1, <2>3, <2>4 DEF Early
<1>3. ASSUME NEW p \in Scripts, Starting!ClearFile(p) PROVE G
  <2>1. place[p] = "clear" /\ place' = [place EXCEPT ![p] = "write"]
    BY <1>3 DEF Starting!ClearFile
  <2>2. UNCHANGED <<working, port>>
    BY <1>3 DEF Starting!ClearFile
  <2>3. OrderOf(q)'
    BY <1>s, <2>1, <2>2 DEF OrderOf, Took
  <2>4. container' = container
    BY <1>3 DEF Starting!ClearFile
  <2> QED
    BY <1>c, <2>1, <2>3, <2>4 DEF Early
<1>4. ASSUME NEW p \in Scripts, Starting!WriteFile(p) PROVE G
  <2>1. place[p] = "write" /\ place' = [place EXCEPT ![p] = IF working[p] = "admin" THEN "read" ELSE "up"]
    BY <1>4 DEF Starting!WriteFile
  <2>2. port' = port /\ working' = [working EXCEPT ![p] = "inbound"]
    BY <1>4 DEF Starting!WriteFile
  <2>3. OrderOf(q)'
    BY <1>s, <2>1, <2>2 DEF OrderOf, Took
  <2>4. container' = container
    BY <1>4 DEF Starting!WriteFile
  <2> QED
    BY <1>c, <2>1, <2>3, <2>4 DEF Early
<1>5. ASSUME NEW p \in Scripts, Starting!ComposeUp(p) PROVE G
  <2>1. place[p] = "up" /\ place' = [place EXCEPT ![p] = "wait"]
    BY <1>5 DEF Starting!ComposeUp
  <2>2. UNCHANGED <<working, port>>
    BY <1>5 DEF Starting!ComposeUp
  <2>3. OrderOf(q)'
    BY <1>s, <2>1, <2>2 DEF OrderOf, Took
  <2>4. container'[n] \in {p, container[n]}
    BY <1>5 DEF Starting!ComposeUp
  <2> QED
    BY <1>c, <2>1, <2>3, <2>4 DEF Early
<1>6. ASSUME NEW p \in Scripts, Starting!PortRefused(p) PROVE G
  BY <1>6, NoneRefused
<1>7. ASSUME NEW p \in Scripts, Starting!DockerFails(p) PROVE G
  <2>1. place[p] = "up" /\ place' = [place EXCEPT ![p] = "ended"]
    BY <1>7 DEF Starting!DockerFails
  <2>2. UNCHANGED <<working, port>>
    BY <1>7 DEF Starting!DockerFails
  <2>3. OrderOf(q)'
    BY <1>s, <2>1, <2>2 DEF OrderOf, Took
  <2>4. container'[n] \in {Starting!None, container[n]}
    <3>1. PICK left \in {Starting!None, container[NameOf[p]]} :
            container' = [container EXCEPT ![NameOf[p]] = left]
      BY <1>7 DEF Starting!DockerFails
    <3> QED
      BY <3>1
  <2> QED
    BY <1>c, <2>1, <2>3, <2>4 DEF Early
<1>8. ASSUME NEW p \in Scripts, Starting!WaitForAgent(p) PROVE G
  <2>1. place[p] = "wait" /\ place' = [place EXCEPT ![p] = "remove"]
    BY <1>8 DEF Starting!WaitForAgent
  <2>2. UNCHANGED <<working, port>>
    BY <1>8 DEF Starting!WaitForAgent
  <2>3. OrderOf(q)'
    BY <1>s, <2>1, <2>2 DEF OrderOf, Took
  <2>4. container' = container
    BY <1>8 DEF Starting!WaitForAgent
  <2> QED
    BY <1>c, <2>1, <2>3, <2>4 DEF Early
<1>9. ASSUME NEW p \in Scripts, Starting!RemoveEndpoint(p) PROVE G
  <2>1. place[p] = "remove" /\ place' = [place EXCEPT ![p] = "endpoint"]
    BY <1>9 DEF Starting!RemoveEndpoint
  <2>2. UNCHANGED <<working, port>>
    BY <1>9 DEF Starting!RemoveEndpoint
  <2>3. OrderOf(q)'
    BY <1>s, <2>1, <2>2 DEF OrderOf, Took
  <2>4. container' = container
    BY <1>9 DEF Starting!RemoveEndpoint
  <2> QED
    BY <1>c, <2>1, <2>3, <2>4 DEF Early
<1>10. ASSUME NEW p \in Scripts, Starting!WriteEndpoint(p) PROVE G
  <2>1. place[p] = "endpoint" /\ place' = [place EXCEPT ![p] = "token"]
    BY <1>10 DEF Starting!WriteEndpoint
  <2>2. UNCHANGED <<working, port>>
    BY <1>10 DEF Starting!WriteEndpoint
  <2>3. OrderOf(q)'
    BY <1>s, <2>1, <2>2 DEF OrderOf, Took
  <2>4. container' = container
    BY <1>10 DEF Starting!WriteEndpoint
  <2> QED
    BY <1>c, <2>1, <2>3, <2>4 DEF Early
<1>11. ASSUME NEW p \in Scripts, Starting!WriteToken(p) PROVE G
  <2>1. place[p] = "token" /\ place' = [place EXCEPT ![p] = "ended"]
    BY <1>11 DEF Starting!WriteToken
  <2>2. UNCHANGED <<working, port>>
    BY <1>11 DEF Starting!WriteToken
  <2>3. OrderOf(q)'
    BY <1>s, <2>1, <2>2 DEF OrderOf, Took
  <2>4. container' = container
    BY <1>11 DEF Starting!WriteToken
  <2> QED
    BY <1>c, <2>1, <2>3, <2>4 DEF Early
<1>12. ASSUME NEW p \in Scripts, Starting!ResolveResponse(p) PROVE G
  <2>1. place[p] = "ended" /\ place' = [place EXCEPT ![p] = "answered"]
    BY <1>12 DEF Starting!ResolveResponse
  <2>2. UNCHANGED <<working, port>>
    BY <1>12 DEF Starting!ResolveResponse
  <2>3. OrderOf(q)'
    BY <1>s, <2>1, <2>2 DEF OrderOf, Took
  <2>4. container' = container
    BY <1>12 DEF Starting!ResolveResponse
  <2> QED
    BY <1>c, <2>1, <2>3, <2>4 DEF Early
<1>13. ASSUME NEW p \in Scripts, Starting!NotFound(p) PROVE G
  <2>1. \A r \in Scripts : place'[r] \in {"lost", place[r]}
    BY <1>13 DEF Starting!NotFound
  <2>2. UNCHANGED <<working, port, container>>
    BY <1>13 DEF Starting!NotFound
  <2>3. OrderOf(q)'
    BY <1>s, <2>1, <2>2 DEF OrderOf, Took
  <2> QED
    BY <1>c, <2>1, <2>2, <2>3 DEF Early
<1>14. ASSUME NEW p \in Scripts, Starting!RemoveToken(p) PROVE G
  <2>1. place[p] = "answered" /\ place' = [place EXCEPT ![p] = "stored"]
    BY <1>14 DEF Starting!RemoveToken
  <2>2. UNCHANGED <<working, port>>
    BY <1>14 DEF Starting!RemoveToken
  <2>3. OrderOf(q)'
    BY <1>s, <2>1, <2>2 DEF OrderOf, Took
  <2>4. container' = container
    BY <1>14 DEF Starting!RemoveToken
  <2> QED
    BY <1>c, <2>1, <2>3, <2>4 DEF Early
<1>15. CASE Starting!Restart
  <2>1. UNCHANGED <<place, working, port, container>>
    BY <1>15 DEF Starting!Restart, Starting!script
  <2> QED
    BY <1>c, <1>s, <2>1 DEF OrderOf, Took
<1> QED
  BY <1>1, <1>2, <1>3, <1>4, <1>5, <1>6, <1>7, <1>8, <1>9, <1>10, <1>11, <1>12, <1>13, <1>14, <1>15 DEF Starting!Next, Starting!Script, Starting!Callback


\* What is counted from a file.
CountOf(k) ==
  /\ \A p \in Took(k) : port[p][k] \in Starting!First(k) + 1 .. Top(k)
  /\ \A p, q \in Took(k) : p # q => port[p][k] # port[q][k]
  /\ Busy(k) = {} => portFile[k] = Top(k)
  /\ \A p \in Busy(k) :
       /\ port[p][k] = Top(k)
       /\ portFile[k] = IF place[p] = "clear" THEN Top(k) - 1 ELSE Starting!Blank

\* It stays while ports and files do, and who is at work on the file.
LEMMA CountStays ==
  ASSUME NEW k \in Starting!Files, CountOf(k), Took(k)' = Took(k), Busy(k)' = Busy(k),
         \A p \in Took(k) \cup Busy(k) : port'[p][k] = port[p][k],
         \A p \in Busy(k) : place'[p] = place[p],
         portFile'[k] = portFile[k]
  PROVE  CountOf(k)'
<1>1. Top(k)' = Top(k)
  BY DEF Top, Starting!First
<1> QED
  BY <1>1 DEF CountOf, Starting!First

LEMMA CountedStep ==
  ASSUME PortsTyped, Alone, InOrder, Counted, abreast = {}, abreast' = {}, Starting!Next
  PROVE  Counted'
<1> USE PortsConstants, NamesAre
<1> SUFFICES ASSUME NEW k \in Starting!Files PROVE CountOf(k)'
  BY DEF Counted, CountOf
<1>k. CountOf(k)
  BY DEF Counted, CountOf
<1>b. \A q \in Scripts : place[q] \in {"clear", "write"} => q \in Starting!UnderWay
  BY DEF Starting!UnderWay
<1> USE DEF PortsTyped, Starting!Goes, Starting!history
<1>q. ASSUME UNCHANGED <<port, portFile, working>>,
             \A q \in Scripts : place'[q] = place[q] \/ {place[q], place'[q]} \cap {"clear", "write"} = {}
      PROVE  CountOf(k)'
  <2>1. Took(k)' = Took(k)
    BY <1>q DEF Took
  <2>2. Busy(k)' = Busy(k)
    BY <1>q DEF Busy
  <2>3. \A q \in Busy(k) : place'[q] = place[q]
    BY <1>q DEF Busy
  <2> QED
    BY <1>k, <1>q, <2>1, <2>2, <2>3, CountStays
<1>1. ASSUME NEW p \in Scripts, Starting!walletProvision(p) PROVE CountOf(k)'
  <2>1. place[p] = "idle" /\ place' = [place EXCEPT ![p] = "read"] /\ UNCHANGED <<port, portFile, working>>
    BY <1>1 DEF Starting!walletProvision
  <2>2. \A q \in Scripts : place'[q] = place[q] \/ {place[q], place'[q]} \cap {"clear", "write"} = {}
    BY <2>1
  <2> QED
    BY <1>q, <2>1, <2>2
<1>2. ASSUME NEW p \in Scripts, Starting!ReadPort(p) PROVE CountOf(k)'
  <2>1. place[p] = "read" /\ place' = [place EXCEPT ![p] = "clear"] /\ UNCHANGED <<portFile, working>>
    BY <1>2 DEF Starting!ReadPort
  <2> DEFINE l == working[p]
  <2>2. /\ l \in Starting!Files /\ portFile[l] = Top(l)
        /\ port' = [port EXCEPT ![p][l] = Top(l) + 1]
        /\ p \notin Took(l) /\ Busy(l) = {}
    BY <1>2, ReadIs
  <2>3. Top(l) \in Nat /\ IsFiniteSet(Took(l)) /\ Starting!First(l) \in Nat /\ Starting!First(l) <= Top(l)
    BY <2>2, TopIs
  <2>4. CASE k = l
    <3>1. port'[p][k] = Top(k) + 1 /\ \A q \in Scripts : q # p => port'[q][k] = port[q][k]
      BY <2>2, <2>4
    <3>2. Top(k) + 1 # Starting!Blank
      <4> DEFINE m == Top(k)
      <4>1. m \in Nat
        BY <2>3, <2>4
      <4>2. m + 1 # Starting!Blank
        <5> HIDE DEF m
        <5> QED
          BY <4>1 DEF Starting!Blank
      <4> QED
        BY <4>2
    <3>3. Took(k)' = Took(k) \cup {p}
      <4>1. Took(k)' = {q \in Scripts : port'[q][k] # Starting!Blank}
        BY DEF Took
      <4>2. port'[p][k] # Starting!Blank
        BY <3>1, <3>2
      <4>3. \A q \in Scripts : q # p => port'[q][k] = port[q][k]
        BY <3>1
      <4>4. Took(k) = {q \in Scripts : port[q][k] # Starting!Blank}
        BY DEF Took
      <4>5. \A q \in Took(k)' : q \in Took(k) \/ q = p
        BY <4>1, <4>3, <4>4, Zenon
      <4>6. \A q \in Took(k) \cup {p} : q \in Took(k)'
        BY <4>1, <4>2, <4>3, <4>4, Zenon
      <4> QED
        BY <4>5, <4>6, Zenon
    <3>4. Top(k)' = Top(k) + 1
      <4>1. Cardinality(Took(k)') = Cardinality(Took(k)) + 1
        <5>1. IsFiniteSet(Took(k)) /\ p \notin Took(k)
          BY <2>2, <2>3, <2>4
        <5>2. Cardinality(Took(k) \cup {p}) = Cardinality(Took(k)) + 1
          BY <5>1, FS_AddElement
        <5> QED
          BY <3>3, <5>2
      <4>2. Cardinality(Took(k)) \in Nat /\ Starting!First(k) \in Nat
        BY <2>3, <2>4, FS_CardinalityType
      <4>3. Top(k)' = Starting!First(k) + Cardinality(Took(k)')
        BY DEF Top, Starting!First
      <4>4. Top(k) = Starting!First(k) + Cardinality(Took(k))
        BY DEF Top
      <4> HIDE DEF l
      <4> DEFINE c == Cardinality(Took(k))  f == Starting!First(k)
      <4>5. c \in Nat /\ f \in Nat /\ Top(k)' = f + (c + 1) /\ Top(k) = f + c
        BY <4>1, <4>2, <4>3, <4>4
      <4> HIDE DEF c, f
      <4> QED
        BY <4>5
    <3>5. Busy(k)' = {p}
      BY <2>1, <2>2, <2>4 DEF Busy
    <3>6. \A q \in Took(k) : port[q][k] \in Starting!First(k) + 1 .. Top(k)
      BY <1>k DEF CountOf
    <3>7. \A q, r \in Took(k) : q # r => port[q][k] # port[r][k]
      BY <1>k DEF CountOf
    <3>8. \A q \in Took(k) : q \in Scripts /\ q # p
      BY <2>2, <2>4 DEF Took
    <3> DEFINE T == Top(k)  f == Starting!First(k)  file == portFile[k]
    <3>9. T \in Nat /\ f \in Nat /\ f <= T /\ file = T
      BY <2>2, <2>3, <2>4
    <3>10. Starting!First(k)' = f
      BY DEF Starting!First
    <3>11. portFile'[k] = file /\ place'[p] = "clear"
      BY <2>1
    <3>12. \A q \in Took(k) : port[q][k] \in f + 1 .. T
      BY <3>6
    <3>13. Top(k)' = T + 1 /\ port'[p][k] = T + 1
      BY <3>1, <3>4
    <3> HIDE DEF T, f, file, l
    <3>14. \A q \in Took(k)' : port'[q][k] \in f + 1 .. T + 1
      BY <3>1, <3>3, <3>8, <3>9, <3>12, <3>13
    <3>15. \A q \in Took(k) : port'[q][k] # port'[p][k]
      BY <3>1, <3>8, <3>9, <3>12, <3>13
    <3>16. \A q, r \in Took(k)' : q # r => port'[q][k] # port'[r][k]
      BY <3>1, <3>3, <3>7, <3>8, <3>15
    <3>17. \A q \in Busy(k)' : q = p /\ port'[q][k] = T + 1 /\ portFile'[k] = (T + 1) - 1
      BY <3>5, <3>9, <3>11, <3>13
    <3> QED
      BY <3>5, <3>10, <3>11, <3>13, <3>14, <3>16, <3>17 DEF CountOf
  <2>5. CASE k # l
    <3>1. \A q \in Scripts : port'[q][k] = port[q][k]
      BY <2>2, <2>5
    <3>2. Took(k)' = Took(k)
      BY <3>1 DEF Took
    <3>3. Busy(k)' = Busy(k) /\ \A q \in Busy(k) : q \in Scripts /\ place'[q] = place[q]
      BY <2>1, <2>5 DEF Busy
    <3>4. \A q \in Took(k) : q \in Scripts
      BY DEF Took
    <3> QED
      BY <1>k, <2>1, <3>1, <3>2, <3>3, <3>4, CountStays
  <2> QED
    BY <2>4, <2>5
<1>3. ASSUME NEW p \in Scripts, Starting!ClearFile(p) PROVE CountOf(k)'
  <2>1. place[p] = "clear" /\ place' = [place EXCEPT ![p] = "write"] /\ port' = port
    BY <1>3 DEF Starting!ClearFile
  <2>2. working[p] \in Starting!Files /\ Took(k)' = Took(k)
    BY <2>1 DEF Took
  <2>3. Busy(working[p]) = {p} /\ (k # working[p] => Busy(k) = {})
    BY <1>b, <2>1, OneRuns DEF Busy
  <2>4. working' = working /\ portFile' = [portFile EXCEPT ![working[p]] = Starting!Blank]
    BY <1>3 DEF Starting!ClearFile
  <2>5. Busy(k)' = Busy(k)
    BY <2>1, <2>4 DEF Busy
  <2>6. CASE k # working[p]
    <3>1. portFile'[k] = portFile[k]
      BY <2>2, <2>4, <2>6
    <3> QED
      BY <1>k, <2>1, <2>2, <2>3, <2>5, <2>6, <3>1, CountStays
  <2>7. CASE k = working[p]
    <3>1. portFile'[k] = Starting!Blank /\ place'[p] = "write" /\ Busy(k)' = {p}
      BY <2>1, <2>2, <2>3, <2>4, <2>5, <2>7
    <3>2. Top(k)' = Top(k) /\ Starting!First(k)' = Starting!First(k)
      BY <2>2 DEF Top, Starting!First
    <3>3. port[p][k] = Top(k)
      BY <1>k, <2>3, <2>7 DEF CountOf
    <3> QED
      BY <1>k, <2>1, <2>2, <3>1, <3>2, <3>3 DEF CountOf
  <2> QED
    BY <2>6, <2>7
<1>4. ASSUME NEW p \in Scripts, Starting!WriteFile(p) PROVE CountOf(k)'
  <2>1. place[p] = "write" /\ place' = [place EXCEPT ![p] = IF working[p] = "admin" THEN "read" ELSE "up"] /\ port' = port
    BY <1>4 DEF Starting!WriteFile
  <2>2. working[p] \in Starting!Files /\ Took(k)' = Took(k)
    BY <2>1 DEF Took
  <2>3. Busy(working[p]) = {p} /\ (k # working[p] => Busy(k) = {})
    BY <1>b, <2>1, OneRuns DEF Busy
  <2>4. working' = [working EXCEPT ![p] = "inbound"] /\ portFile' = [portFile EXCEPT ![working[p]] = port[p][working[p]]]
    BY <1>4 DEF Starting!WriteFile
  <2>5. Busy(k)' = {}
    <3>1. place'[p] \notin {"clear", "write"}
      BY <2>1
    <3>2. \A q \in Scripts : q # p => place'[q] \notin {"clear", "write"}
      BY <1>b, <2>1, OneRuns
    <3> QED
      BY <3>1, <3>2 DEF Busy
  <2>6. CASE k # working[p]
    <3>1. portFile'[k] = portFile[k]
      BY <2>2, <2>4, <2>6
    <3> QED
      BY <1>k, <2>1, <2>2, <2>3, <2>5, <2>6, <3>1, CountStays
  <2>7. CASE k = working[p]
    <3>1. portFile'[k] = port[p][k]
      BY <2>2, <2>4, <2>7
    <3>2. Top(k)' = Top(k) /\ Starting!First(k)' = Starting!First(k)
      BY <2>2 DEF Top, Starting!First
    <3>3. port[p][k] = Top(k)
      BY <1>k, <2>3, <2>7 DEF CountOf
    <3> QED
      BY <1>k, <2>1, <2>2, <2>5, <3>1, <3>2, <3>3 DEF CountOf
  <2> QED
    BY <2>6, <2>7
<1>5. ASSUME NEW p \in Scripts, Starting!ComposeUp(p) PROVE CountOf(k)'
  <2>1. place[p] = "up" /\ place' = [place EXCEPT ![p] = "wait"] /\ UNCHANGED <<port, portFile, working>>
    BY <1>5 DEF Starting!ComposeUp
  <2>2. \A q \in Scripts : place'[q] = place[q] \/ {place[q], place'[q]} \cap {"clear", "write"} = {}
    BY <2>1
  <2> QED
    BY <1>q, <2>1, <2>2
<1>6. ASSUME NEW p \in Scripts, Starting!PortRefused(p) PROVE CountOf(k)'
  BY <1>6, NoneRefused
<1>7. ASSUME NEW p \in Scripts, Starting!DockerFails(p) PROVE CountOf(k)'
  <2>1. place[p] = "up" /\ place' = [place EXCEPT ![p] = "ended"] /\ UNCHANGED <<port, portFile, working>>
    BY <1>7 DEF Starting!DockerFails
  <2>2. \A q \in Scripts : place'[q] = place[q] \/ {place[q], place'[q]} \cap {"clear", "write"} = {}
    BY <2>1
  <2> QED
    BY <1>q, <2>1, <2>2
<1>8. ASSUME NEW p \in Scripts, Starting!WaitForAgent(p) PROVE CountOf(k)'
  <2>1. place[p] = "wait" /\ place' = [place EXCEPT ![p] = "remove"] /\ UNCHANGED <<port, portFile, working>>
    BY <1>8 DEF Starting!WaitForAgent
  <2>2. \A q \in Scripts : place'[q] = place[q] \/ {place[q], place'[q]} \cap {"clear", "write"} = {}
    BY <2>1
  <2> QED
    BY <1>q, <2>1, <2>2
<1>9. ASSUME NEW p \in Scripts, Starting!RemoveEndpoint(p) PROVE CountOf(k)'
  <2>1. place[p] = "remove" /\ place' = [place EXCEPT ![p] = "endpoint"] /\ UNCHANGED <<port, portFile, working>>
    BY <1>9 DEF Starting!RemoveEndpoint
  <2>2. \A q \in Scripts : place'[q] = place[q] \/ {place[q], place'[q]} \cap {"clear", "write"} = {}
    BY <2>1
  <2> QED
    BY <1>q, <2>1, <2>2
<1>10. ASSUME NEW p \in Scripts, Starting!WriteEndpoint(p) PROVE CountOf(k)'
  <2>1. place[p] = "endpoint" /\ place' = [place EXCEPT ![p] = "token"] /\ UNCHANGED <<port, portFile, working>>
    BY <1>10 DEF Starting!WriteEndpoint
  <2>2. \A q \in Scripts : place'[q] = place[q] \/ {place[q], place'[q]} \cap {"clear", "write"} = {}
    BY <2>1
  <2> QED
    BY <1>q, <2>1, <2>2
<1>11. ASSUME NEW p \in Scripts, Starting!WriteToken(p) PROVE CountOf(k)'
  <2>1. place[p] = "token" /\ place' = [place EXCEPT ![p] = "ended"] /\ UNCHANGED <<port, portFile, working>>
    BY <1>11 DEF Starting!WriteToken
  <2>2. \A q \in Scripts : place'[q] = place[q] \/ {place[q], place'[q]} \cap {"clear", "write"} = {}
    BY <2>1
  <2> QED
    BY <1>q, <2>1, <2>2
<1>12. ASSUME NEW p \in Scripts, Starting!ResolveResponse(p) PROVE CountOf(k)'
  <2>1. place[p] = "ended" /\ place' = [place EXCEPT ![p] = "answered"] /\ UNCHANGED <<port, portFile, working>>
    BY <1>12 DEF Starting!ResolveResponse
  <2>2. \A q \in Scripts : place'[q] = place[q] \/ {place[q], place'[q]} \cap {"clear", "write"} = {}
    BY <2>1
  <2> QED
    BY <1>q, <2>1, <2>2
<1>13. ASSUME NEW p \in Scripts, Starting!NotFound(p) PROVE CountOf(k)'
  <2>1. p \in Starting!UnderWay /\ place[p] = "ended"
    BY <1>13 DEF Starting!NotFound, Starting!UnderWay
  <2>2. \A q \in Scripts : place[q] \notin {"clear", "write"}
    BY <1>b, <2>1, OneRuns
  <2>3. \A q \in Scripts : place'[q] \in {"lost", place[q]}
    BY <1>13 DEF Starting!NotFound
  <2>4. UNCHANGED <<port, portFile, working>>
    BY <1>13 DEF Starting!NotFound
  <2> QED
    BY <1>q, <2>2, <2>3, <2>4
<1>14. ASSUME NEW p \in Scripts, Starting!RemoveToken(p) PROVE CountOf(k)'
  <2>1. place[p] = "answered" /\ place' = [place EXCEPT ![p] = "stored"] /\ UNCHANGED <<port, portFile, working>>
    BY <1>14 DEF Starting!RemoveToken
  <2>2. \A q \in Scripts : place'[q] = place[q] \/ {place[q], place'[q]} \cap {"clear", "write"} = {}
    BY <2>1
  <2> QED
    BY <1>q, <2>1, <2>2
<1>15. CASE Starting!Restart
  <2>1. UNCHANGED <<place, working, port, portFile>>
    BY <1>15 DEF Starting!Restart, Starting!script
  <2> QED
    BY <1>q, <2>1
<1> QED
  BY <1>1, <1>2, <1>3, <1>4, <1>5, <1>6, <1>7, <1>8, <1>9, <1>10, <1>11, <1>12, <1>13, <1>14, <1>15 DEF Starting!Next, Starting!Script, Starting!Callback

\* Nothing leaves the histories, and alone nobody is refused.
LEMMA RefusedStep ==
  ASSUME PortsTyped, Starting!Next
  PROVE  /\ abreast \subseteq abreast'
         /\ refused' # refused => \E p \in Scripts : Starting!PortRefused(p)
BY DEF Starting!Next, Starting!Script, Starting!Callback, Starting!history, Starting!walletProvision, Starting!ReadPort, Starting!ClearFile,
       Starting!WriteFile, Starting!ComposeUp, Starting!DockerFails, Starting!WaitForAgent,
       Starting!RemoveEndpoint, Starting!WriteEndpoint, Starting!WriteToken, Starting!ResolveResponse,
       Starting!NotFound, Starting!RemoveToken, Starting!Restart, Starting!PortRefused

LEMMA PortsInductive == PortsInv /\ Starting!Next => PortsInv'
<1> SUFFICES ASSUME PortsInv, Starting!Next PROVE PortsInv'
  OBVIOUS
<1>1. PortsTyped /\ ByName /\ Alone /\ SmoothRuns /\ Starting!AnswerIsMine
  BY DEF PortsInv
<1>2. PortsTyped' /\ ByName' /\ Alone' /\ SmoothRuns' /\ Starting!AnswerIsMine'
  BY <1>1, PortsTypedStep, ByNameStep, AloneStep, SmoothStep, AnswerStep
<1>3. ASSUME abreast' = {} PROVE (InOrder /\ Counted /\ refused = {})'
  <2>1. abreast = {}
    BY <1>1, <1>3, RefusedStep
  <2>2. InOrder /\ Counted /\ refused = {}
    BY <2>1 DEF PortsInv
  <2>3. InOrder' /\ Counted'
    BY <1>1, <1>3, <2>1, <2>2, InOrderStep, CountedStep
  <2>4. refused' = {}
    BY <1>1, <2>2, RefusedStep, NoneRefused
  <2> QED
    BY <2>3, <2>4
<1> QED
  BY <1>2, <1>3 DEF PortsInv

LEMMA PortsKept ==
  PortsInv => Starting!TypeOK /\ Starting!NoPortRefused /\ Starting!FilesUsable /\ Starting!AnswerIsMine
<1> SUFFICES ASSUME PortsInv
             PROVE  Starting!TypeOK /\ Starting!NoPortRefused /\ Starting!FilesUsable /\ Starting!AnswerIsMine
  OBVIOUS
<1>1. Starting!TypeOK /\ Starting!NoPortRefused /\ Starting!AnswerIsMine
  BY DEF PortsInv, PortsTyped, Starting!TypeOK, Starting!NoPortRefused, Nobody, NoToken
<1>2. ASSUME abreast = {}, NEW k \in Starting!Files, portFile[k] = Starting!Blank
      PROVE  \E p \in Scripts : place[p] = "write" /\ working[p] = k
  <2>1. PortsTyped /\ Counted
    BY <1>2 DEF PortsInv
  <2> DEFINE T == Top(k)
  <2>2. T \in Nat /\ T >= 0
    BY <2>1, TopIs
  <2>3. Busy(k) = {} => portFile[k] = T
    BY <2>1 DEF Counted
  <2>4. \A p \in Busy(k) : port[p][k] = T /\ portFile[k] = IF place[p] = "clear" THEN T - 1 ELSE Starting!Blank
    BY <2>1 DEF Counted
  <2>5. \A p \in Busy(k) : p \in Took(k) /\ p \in Scripts
    BY <1>2 DEF PortsInv, InOrder, Busy
  <2>6. \A p \in Took(k) : port[p][k] \in Starting!First(k) + 1 .. T
    BY <2>1 DEF Counted
  <2>7. Starting!First(k) \in Nat
    BY <2>1, TopIs
  <2> DEFINE f == Starting!First(k)
  <2>8. f \in Nat /\ \A p \in Took(k) : port[p][k] \in f + 1 .. T
    BY <2>6, <2>7
  <2> HIDE DEF T, f
  <2>9. Busy(k) # {}
    BY <1>2, <2>2, <2>3 DEF Starting!Blank
  <2>10. PICK p \in Busy(k) : TRUE
    BY <2>9
  <2>11. T \in f + 1 .. T
    BY <2>4, <2>5, <2>8, <2>10
  <2>12. place[p] # "clear"
    BY <1>2, <2>2, <2>4, <2>8, <2>10, <2>11 DEF Starting!Blank
  <2> QED
    BY <2>10, <2>12 DEF Busy
<1> QED
  BY <1>1, <1>2 DEF Starting!FilesUsable

-----------------------------------------------------------------------------
\* The suite.

SuiteInv ==
  /\ part = "calls" => CallsInv
  /\ part = "cloud" => CloudInv
  /\ part = "told" => SpinupInv
  /\ part = "ports" => PortsInv

LEMMA SuiteInit == WalletsInit => SuiteInv
<1> SUFFICES ASSUME WalletsInit PROVE SuiteInv
  OBVIOUS
<1>1. /\ part = "calls" => Calling!Init
      /\ part = "cloud" => Hosting!Init
      /\ part = "told" => Telling!Init
      /\ part = "ports" => Starting!Init
  BY DEF WalletsInit
<1> QED
  BY <1>1, CallsInit, CloudInit, SpinupInit, PortsInit DEF SuiteInv

\* Each of them while another part takes a step, or none does.
LEMMA CallsRest ==
  ASSUME CallsInv, UNCHANGED others
  PROVE  CallsInv'
<1>1. UNCHANGED <<rows, times, wallets, invitations, at, asked, todo, row, url, key, ownDid, made,
                  sent, done, moved, held, failures>>
  BY DEF others
<1>2. /\ CallsTyped /\ RowsFit /\ WalletsFit /\ Calling!InvitationsOfWallet /\ \A c \in Calls : CallFits(c)
      /\ DoneTyped /\ Calling!OwnWallet /\ Calling!KeyFits /\ Calling!DidIsKnown
  BY DEF CallsInv
<1>3. CallsTyped'
  BY <1>1, <1>2 DEF CallsTyped
<1>4. RowsFit' /\ WalletsFit' /\ Calling!InvitationsOfWallet'
  BY <1>1, <1>2 DEF RowsFit, WalletsFit, Calling!InvitationsOfWallet, Calling!Exists, Calling!Complete
<1>5. Shifts
  <2>1. times \in [Orgs -> Nat] /\ moved \subseteq Calls /\ held \in [Agents -> SUBSET Orgs]
    BY <1>2 DEF CallsTyped
  <2> QED
    BY <1>1, <2>1 DEF Shifts
<1>6. \A c \in Calls : CallFits(c)'
  BY <1>2, <1>5, ShiftKeepsCall
<1>7. DoneTyped' /\ Calling!OwnWallet' /\ Calling!KeyFits' /\ Calling!DidIsKnown'
  BY <1>2, <1>5, ShiftKeepsDone
<1> QED
  BY <1>3, <1>4, <1>6, <1>7 DEF CallsInv

LEMMA CloudRests ==
  ASSUME CloudInv, UNCHANGED others
  PROVE  CloudInv'
<1>1. UNCHANGED <<asked, rows, tenants, done, at, base, wallet, made, sent, failures>>
  BY DEF others
<1>2. CloudTyped' /\ CloudRows'
  BY <1>1 DEF CloudInv, CloudTyped, CloudRows, SubRow, BaseRow
<1>3. \A c \in CloudCalls : Found(c)'
  <2>1. \A c : UNCHANGED <<Hosting!op(c), Hosting!user(c)>>
    BY <1>1 DEF Hosting!op, Hosting!user
  <2> QED
    BY <1>1, <2>1 DEF CloudInv, Found, FoundBase
<1>4. Hosting!OwnWalletOnly' /\ SentHome'
  BY <1>1 DEF CloudInv, Hosting!OwnWalletOnly, SentHome, Hosting!user
<1> QED
  BY <1>2, <1>3, <1>4 DEF CloudInv

LEMMA SpinupRests ==
  ASSUME SpinupInv, UNCHANGED others
  PROVE  SpinupInv'
<1>1. UNCHANGED <<kind, place, wire, noticed, row, written, invited, losses, crashes>>
  BY DEF others
<1>2. SpinupTyped'
  BY <1>1 DEF SpinupInv, SpinupTyped
<1>3. \A p : UNCHANGED <<Heard(p), Size(p)>>
  BY <1>1 DEF Heard, Size, Telling!Told, Telling!Coming
<1>4. \A p \in Provisions : Reached(p)' /\ Little(p)' /\ Truthful(p)'
  BY <1>1, <1>3 DEF SpinupInv, Reached, Little, Truthful
<1> QED
  BY <1>2, <1>4 DEF SpinupInv

LEMMA PortsRest ==
  ASSUME PortsInv, UNCHANGED others
  PROVE  PortsInv'
<1>1. UNCHANGED <<portFile, container, endpoint, token, alive, place, working, port, noticed, answer,
                  refused, unstarted, abreast, failures>>
  BY DEF others
<1>2. PortsTyped' /\ ByName'
  BY <1>1 DEF PortsInv, PortsTyped, ByName
<1>3. Starting!UnderWay' = Starting!UnderWay
  BY <1>1 DEF Starting!UnderWay
<1>4. Alone' /\ SmoothRuns' /\ Starting!AnswerIsMine'
  BY <1>1, <1>3 DEF PortsInv, Alone, SmoothRuns, Smooth, Starting!AnswerIsMine
<1>5. \A k : UNCHANGED <<Took(k), Busy(k)>>
  BY <1>1 DEF Took, Busy
<1>6. \A k : UNCHANGED Top(k)
  BY <1>5 DEF Top
<1>7. abreast = {} => InOrder'
  BY <1>1, <1>5 DEF PortsInv, InOrder
<1>8. abreast = {} => Counted'
  BY <1>1, <1>5, <1>6 DEF PortsInv, Counted
<1> QED
  BY <1>1, <1>2, <1>4, <1>7, <1>8 DEF PortsInv

LEMMA SuiteStep ==
  ASSUME SuiteInv, [WalletsNext]_<<vars, others, part>>
  PROVE  SuiteInv'
<1>1. CASE UNCHANGED <<others, part>>
  BY <1>1, CallsRest, CloudRests, SpinupRests, PortsRest DEF SuiteInv
<1>2. CASE OthersNext /\ UNCHANGED part
  <2>1. CASE part = "calls" /\ Calling!Next
    BY <1>2, <2>1, CallsInductive DEF SuiteInv
  <2>2. CASE part = "cloud" /\ Hosting!Next
    BY <1>2, <2>2, CloudInductive DEF SuiteInv
  <2>3. CASE part = "told" /\ Telling!Next
    BY <1>2, <2>3, SpinupInductive DEF SuiteInv
  <2>4. CASE part = "ports" /\ Starting!Next
    BY <1>2, <2>4, PortsInductive DEF SuiteInv
  <2> QED
    BY <1>2, <2>1, <2>2, <2>3, <2>4 DEF OthersNext
<1> QED
  BY <1>1, <1>2 DEF WalletsNext

\* A call is carried out in the wallet of whom it is for, with the key of that
\* agent and a DID of that wallet, for any number of calls, organisations and
\* agents, any table of what is asked for and any number of wallets deleted and
\* made again meanwhile; and a user of the cloud wallet has one wallet, which
\* nobody else's request reaches.
THEOREM CallsAreKept == WalletsSpec => []CallsKept
<1>1. SuiteInv => CallsKept
  BY CallsOk, CloudKept DEF SuiteInv, CallsKept
<1>2. WalletsSpec => []SuiteInv
  BY SuiteInit, SuiteStep, PTL DEF WalletsSpec
<1> QED
  BY <1>1, <1>2, PTL

\* What is told of an agent that is started is true, for any number of
\* provisions, lost events and crashes; and any number of scripts that run one
\* after the other leave usable port files, ports that no two agents share, and
\* an answer that is of the agent each of them started.
THEOREM StartsAreKept == WalletsSpec => []StartsKept
<1>1. SuiteInv => StartsKept
  BY SpinupKept, PortsKept DEF SuiteInv, StartsKept
<1>2. WalletsSpec => []SuiteInv
  BY SuiteInit, SuiteStep, PTL DEF WalletsSpec
<1> QED
  BY <1>1, <1>2, PTL

\* What is proved of OrgDids holds of it as the suite runs it.
THEOREM SuiteElects == WalletsSpec => Spec
<1>1. WalletsInit => Init
  BY DEF WalletsInit
<1>2. [WalletsNext]_<<vars, others, part>> => [Next]_vars
  BY DEF WalletsNext
<1> QED
  BY <1>1, <1>2, PTL DEF WalletsSpec, Spec
=============================================================================
