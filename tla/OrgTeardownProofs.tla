------------------------- MODULE OrgTeardownProofs -------------------------
(***************************************************************************)
(* What TLAPS proves of OrgTeardown for any number of requests, references *)
(* that arrive meanwhile, failures and crashes.                            *)
(***************************************************************************)
EXTENDS OrgTeardown, TLAPS

-----------------------------------------------------------------------------
\* The invariants behind the theorems.

\* Between the count and the deletion of a wallet, or of an organisation, what
\* is there that the count has not seen was inserted since.
WalletCounted ==
  \A r \in Requests : op[r] = "wallet" /\ pc[r] = "delete" => held \cap Exchange \subseteq raced

OrgCounted ==
  \A r \in Requests : op[r] = "org" /\ pc[r] \in {"paper", "unlink", "commit"} => held \subseteq raced

\* Once a deletion has been to Keycloak, only those it knows it has left there
\* have roles.
RolesStripped ==
  \A r \in Requests :
    op[r] = "org" /\ pc[r] \in {"count", "paper", "unlink", "commit"} => mapped \subseteq kept

\* The inductive invariant.
IInv ==
  /\ TypeOK
  /\ WalletCounted /\ RecordsHaveWallet
  /\ OrgCounted /\ RecordsHaveOrg
  /\ SchemasKept
  /\ RolesStripped /\ NoRolesLeft

-----------------------------------------------------------------------------
\* Type correctness.

\* Every initial state satisfies the invariant.
LEMMA InitIInv == Init => IInv
<1> SUFFICES ASSUME Init PROVE IInv
  OBVIOUS
<1>1. held \subseteq Tables /\ ("agent" \in held \/ held = {})
  BY DEF Init, Tables, Exchange
<1>2. 0 \in 0..MaxArrivals /\ 0 \in 0..MaxFaults
  BY ConstantsAssumption
<1>3. TypeOK
  BY <1>1, <1>2 DEF Init, TypeOK, Pcs, Ops, Owners, Arrivals
<1>4. \A r \in Requests : op[r] = "none"
  BY DEF Init
<1>5. WalletCounted /\ OrgCounted /\ RolesStripped
  BY <1>4 DEF WalletCounted, OrgCounted, RolesStripped
<1>6. RecordsHaveWallet /\ RecordsHaveOrg /\ SchemasKept /\ NoRolesLeft
  BY <1>1 DEF Init, RecordsHaveWallet, RecordsHaveOrg, SchemasKept, NoRolesLeft
<1> QED
  BY <1>3, <1>5, <1>6 DEF IInv

\* Every step keeps the types.
LEMMA NextTypeOK == TypeOK /\ [Next]_vars => TypeOK'
<1> SUFFICES ASSUME TypeOK, [Next]_vars PROVE TypeOK'
  OBVIOUS
<1> USE ConstantsAssumption DEF TypeOK, rows, requests, history, Untouched, Idle, Same
<1>0. CASE UNCHANGED vars
  BY <1>0 DEF vars
<1>1. ASSUME NEW k \in Arrivals, LookUp(k) \/ InsertRefused(k) PROVE TypeOK'
  BY <1>1 DEF LookUp, InsertRefused
<1>2. ASSUME NEW k \in Arrivals, Insert(k) PROVE TypeOK'
  <2>1. invited' \in BOOLEAN
    BY <1>2, Zenon DEF Insert
  <2>2. noted' \in [Requests -> BOOLEAN]
    <3>1. noted' = [r \in Requests |-> noted[r] \/ (k = "invitation" /\ r \in Counted /\ pc[r] # "paper")]
      BY <1>2 DEF Insert
    <3> QED
      BY <3>1, Zenon
  <2>3. mapped' \subseteq Owners /\ kept' \subseteq Owners
    BY <1>2 DEF Insert, Owners
  <2> QED
    BY <1>2, <2>1, <2>2, <2>3 DEF Insert
<1>3. ASSUME NEW r \in Requests, NEW o \in Ops \ {"none"}, NEW u \in Owners, Ask(r, o, u) PROVE TypeOK'
  BY <1>3 DEF Ask, Move, Pcs
<1>4. ASSUME NEW r \in Requests,
             \/ NoPresentations(r) \/ FilesRefused(r) \/ PresentationsLeft(r) \/ NoCredentials(r)
             \/ ExchangesLeft(r) \/ NoConnections(r) \/ WalletInUse(r) \/ NoAgent(r)
             \/ OrgGone(r) \/ Referenced(r) \/ LogDeletion(r)
      PROVE  TypeOK'
  BY <1>4 DEF NoPresentations, FilesRefused, PresentationsLeft, NoCredentials, ExchangesLeft,
              NoConnections, WalletInUse, NoAgent, OrgGone, Referenced, LogDeletion,
              Refuse, Answer, Move, Pcs
<1>5. ASSUME NEW r \in Requests,
             \/ CountPresentations(r) \/ CountExchanges(r) \/ CountForWallet(r)
             \/ CountReferences(r) \/ DeletePaper(r)
      PROVE  TypeOK'
  BY <1>5 DEF CountPresentations, CountExchanges, CountForWallet, CountReferences, DeletePaper,
              Proceed, Move, Pcs
<1>6. ASSUME NEW r \in Requests,
             \/ DeletePresentations(r) \/ DeleteFiles(r) \/ DeleteCredentials(r)
             \/ DeleteConnections(r) \/ DeleteAgent(r)
      PROVE  TypeOK'
  <2>1. PICK table \in Tables, from \in Pcs, to \in Pcs : Delete(r, table, from, to)
    BY <1>6 DEF DeletePresentations, DeleteFiles, DeleteCredentials, DeleteConnections,
                DeleteAgent, Tables, Exchange, Pcs
  <2> QED
    BY <2>1 DEF Delete, Move
<1>7. ASSUME NEW r \in Requests, ReadFiles(r) PROVE TypeOK'
  <2>1. saw' \in [Requests -> BOOLEAN]
    <3> DEFINE there == "file" \in held
    <3>1. there \in BOOLEAN
      OBVIOUS
    <3>2. saw' = [saw EXCEPT ![r] = there]
      BY <1>7, Zenon DEF ReadFiles
    <3> HIDE DEF there
    <3> QED
      BY <3>1, <3>2
  <2> QED
    BY <1>7, <2>1 DEF ReadFiles, Move, Pcs
<1>8. ASSUME NEW r \in Requests, StripRoles(r) PROVE TypeOK'
  <2>1. mapped' \subseteq Owners /\ kept' \subseteq Owners
    BY <1>8 DEF StripRoles, Owners
  <2>2. faults' \in 0..MaxFaults
    BY <1>8 DEF StripRoles, Fault
  <2> QED
    BY <1>8, <2>1, <2>2 DEF StripRoles, Move, Pcs
<1>9. ASSUME NEW r \in Requests, UnlinkSchemas(r) \/ DeleteOrg(r) PROVE TypeOK'
  <2>1. CASE UnlinkSchemas(r)
    BY <2>1 DEF UnlinkSchemas, Move, Pcs
  <2>2. CASE DeleteOrg(r)
    <3>1. mine' \in [Requests -> SUBSET (Tables \cup {"org"})]
      BY <2>2 DEF DeleteOrg
    <3> QED
      BY <2>2, <3>1 DEF DeleteOrg, Move, Pcs
  <2> QED
    BY <1>9, <2>1, <2>2
<1>10. ASSUME NEW r \in Requests, DeleteOrgRefused(r) PROVE TypeOK'
  BY <1>10 DEF DeleteOrgRefused, Answer, Move, Pcs
<1>11. ASSUME NEW r \in Requests, Fail(r) PROVE TypeOK'
  <2>1. rolled' \in BOOLEAN
    BY <1>11, Zenon DEF Fail
  <2> QED
    BY <1>11, <2>1 DEF Fail, Fault, Answer, Move, Pcs
<1>12. CASE Crash
  <2>1. rolled' \in BOOLEAN
    BY <1>12, Zenon DEF Crash
  <2> QED
    BY <1>12, <2>1 DEF Crash, Fault, Pcs
<1> QED
  BY <1>0, <1>1, <1>2, <1>3, <1>4, <1>5, <1>6, <1>7, <1>8, <1>9, <1>10, <1>11, <1>12
     DEF Next, Arriving, Work, DeletingVerification, DeletingIssuance, DeletingConnections,
         DeletingWallet, DeletingOrg

-----------------------------------------------------------------------------
\* What one step can do.

\* A step of one request.
Act(r) == (\E o \in Ops \ {"none"}, u \in Owners : Ask(r, o, u)) \/ Work(r) \/ Fail(r)

\* It leaves the other requests alone.
LEMMA OthersStay ==
  ASSUME TypeOK, NEW r \in Requests, Act(r), NEW s \in Requests \ {r}
  PROVE  pc'[s] = pc[s] /\ op'[s] = op[s]
<1> USE DEF TypeOK, Move, Answer, Same
<1>1. CASE \E o \in Ops \ {"none"}, u \in Owners : Ask(r, o, u)
  BY <1>1 DEF Ask
<1>2. CASE DeletingVerification(r) \/ DeletingIssuance(r)
  BY <1>2 DEF DeletingVerification, DeletePresentations, NoPresentations, DeletingIssuance, ReadFiles,
              DeleteFiles, FilesRefused, CountPresentations, PresentationsLeft, DeleteCredentials,
              NoCredentials, Delete, Refuse, Proceed
<1>3. CASE DeletingConnections(r) \/ DeletingWallet(r)
  BY <1>3 DEF DeletingConnections, CountExchanges, ExchangesLeft, DeleteConnections, NoConnections,
              DeletingWallet, CountForWallet, WalletInUse, DeleteAgent, NoAgent, Delete, Refuse, Proceed
<1>4. CASE DeletingOrg(r)
  BY <1>4 DEF DeletingOrg, StripRoles, OrgGone, CountReferences, Referenced, DeletePaper, UnlinkSchemas,
              DeleteOrg, DeleteOrgRefused, Refuse, Proceed
<1>5. CASE LogDeletion(r) \/ Fail(r)
  BY <1>5 DEF LogDeletion, Fail
<1> QED
  BY <1>1, <1>2, <1>3, <1>4, <1>5 DEF Act, Work

\* What others insert leaves every request where it is.
LEMMA ArrivingStays ==
  ASSUME Arriving
  PROVE  pc' = pc /\ op' = op /\ here' = here /\ loose' = loose /\ rolled' = rolled
<1> QED
  BY DEF Arriving, LookUp, Insert, InsertRefused, Untouched, rows, requests, history

\* But for what they insert, nothing is added to what the organisation has.
LEMMA HeldShrinks ==
  ASSUME Next, \A k \in Arrivals : ~Insert(k)
  PROVE  held' \subseteq held /\ raced' = raced /\ mapped' \subseteq mapped /\ kept \subseteq kept'
<1> USE DEF Untouched, rows, history, Refuse, Proceed, Delete
<1>1. CASE Arriving
  BY <1>1 DEF Arriving, LookUp, InsertRefused
<1>2. ASSUME NEW r \in Requests, DeletingVerification(r) \/ DeletingIssuance(r)
      PROVE  held' \subseteq held /\ raced' = raced /\ mapped' = mapped /\ kept' = kept
  BY <1>2 DEF DeletingVerification, DeletePresentations, NoPresentations, DeletingIssuance, ReadFiles,
              DeleteFiles, FilesRefused, CountPresentations, PresentationsLeft, DeleteCredentials,
              NoCredentials
<1>3. ASSUME NEW r \in Requests, DeletingConnections(r) \/ DeletingWallet(r)
      PROVE  held' \subseteq held /\ raced' = raced /\ mapped' = mapped /\ kept' = kept
  BY <1>3 DEF DeletingConnections, CountExchanges, ExchangesLeft, DeleteConnections, NoConnections,
              DeletingWallet, CountForWallet, WalletInUse, DeleteAgent, NoAgent
<1>4. ASSUME NEW r \in Requests, DeletingOrg(r)
      PROVE  held' \subseteq held /\ raced' = raced /\ mapped' \subseteq mapped /\ kept \subseteq kept'
  BY <1>4 DEF DeletingOrg, StripRoles, OrgGone, CountReferences, Referenced, DeletePaper, UnlinkSchemas,
              DeleteOrg, DeleteOrgRefused
<1>5. ASSUME NEW r \in Requests, LogDeletion(r) \/ Fail(r)
      PROVE  held' = held /\ raced' = raced /\ mapped' = mapped /\ kept' = kept
  BY <1>5 DEF LogDeletion, Fail
<1>6. CASE Crash \/ \E r \in Requests, o \in Ops \ {"none"}, u \in Owners : Ask(r, o, u)
  BY <1>6 DEF Crash, Ask
<1> QED
  BY <1>1, <1>2, <1>3, <1>4, <1>5, <1>6 DEF Next, Work

\* Who is about to delete a wallet was so before, or has just counted.
LEMMA WalletPlace ==
  ASSUME TypeOK, Next, NEW r \in Requests, op'[r] = "wallet", pc'[r] = "delete"
  PROVE  (op[r] = "wallet" /\ pc[r] = "delete") \/ CountForWallet(r)
<1> USE DEF TypeOK, Move, Answer, Same, Delete, Refuse, Proceed
<1>1. CASE Arriving
  BY <1>1, ArrivingStays
<1>2. CASE Crash
  BY <1>2 DEF Crash
<1>3. ASSUME NEW s \in Requests, Act(s), s # r PROVE op[r] = "wallet" /\ pc[r] = "delete"
  BY <1>3, OthersStay
<1>4. CASE Act(r)
  <2>1. CASE DeletingVerification(r) \/ DeletingIssuance(r)
    BY <2>1 DEF DeletingVerification, DeletePresentations, NoPresentations, DeletingIssuance, ReadFiles,
                DeleteFiles, FilesRefused, CountPresentations, PresentationsLeft, DeleteCredentials,
                NoCredentials
  <2>2. CASE DeletingConnections(r) \/ DeletingWallet(r)
    BY <2>2 DEF DeletingConnections, CountExchanges, ExchangesLeft, DeleteConnections, NoConnections,
                DeletingWallet, WalletInUse, DeleteAgent, NoAgent
  <2>3. CASE DeletingOrg(r)
    BY <2>3 DEF DeletingOrg, StripRoles, OrgGone, CountReferences, Referenced, DeletePaper,
                UnlinkSchemas, DeleteOrg, DeleteOrgRefused
  <2>4. CASE LogDeletion(r) \/ Fail(r) \/ \E o \in Ops \ {"none"}, u \in Owners : Ask(r, o, u)
    BY <2>4 DEF LogDeletion, Fail, Ask
  <2> QED
    BY <1>4, <2>1, <2>2, <2>3, <2>4 DEF Act, Work
<1> QED
  BY <1>1, <1>2, <1>3, <1>4 DEF Next, Act

\* A deletion of the organisation reaches its stages one by one.
LEMMA OrgPlace ==
  ASSUME TypeOK, Next, NEW r \in Requests, op'[r] = "org", pc'[r] \in {"count", "paper", "unlink", "commit"}
  PROVE  /\ op[r] = "org"
         /\ \/ pc[r] = pc'[r] \/ (pc[r] = "start" /\ StripRoles(r)) \/ (pc[r] = "count" /\ CountReferences(r))
            \/ (pc[r] = "paper" /\ DeletePaper(r)) \/ (pc[r] = "unlink" /\ UnlinkSchemas(r))
<1> USE DEF TypeOK, Move, Answer, Same, Delete, Refuse, Proceed
<1>1. CASE Arriving
  BY <1>1, ArrivingStays
<1>2. CASE Crash
  BY <1>2 DEF Crash
<1>3. ASSUME NEW s \in Requests, Act(s), s # r PROVE op[r] = "org" /\ pc'[r] = pc[r]
  BY <1>3, OthersStay
<1>4. CASE Act(r)
  <2>1. CASE DeletingVerification(r) \/ DeletingIssuance(r)
    BY <2>1 DEF DeletingVerification, DeletePresentations, NoPresentations, DeletingIssuance, ReadFiles,
                DeleteFiles, FilesRefused, CountPresentations, PresentationsLeft, DeleteCredentials,
                NoCredentials
  <2>2. CASE DeletingConnections(r) \/ DeletingWallet(r)
    BY <2>2 DEF DeletingConnections, CountExchanges, ExchangesLeft, DeleteConnections, NoConnections,
                DeletingWallet, CountForWallet, WalletInUse, DeleteAgent, NoAgent
  <2>3. CASE DeletingOrg(r)
    BY <2>3 DEF DeletingOrg, StripRoles, OrgGone, CountReferences, Referenced, DeletePaper,
                UnlinkSchemas, DeleteOrg, DeleteOrgRefused
  <2>4. CASE LogDeletion(r) \/ Fail(r) \/ \E o \in Ops \ {"none"}, u \in Owners : Ask(r, o, u)
    BY <2>4 DEF LogDeletion, Fail, Ask
  <2> QED
    BY <1>4, <2>1, <2>2, <2>3, <2>4 DEF Act, Work
<1> QED
  BY <1>1, <1>2, <1>3, <1>4 DEF Next, Act

-----------------------------------------------------------------------------
\* Each part of the invariant is kept by every step.

\* What is inserted while a request has counted is known as such.
LEMMA InsertIsRaced ==
  ASSUME NEW k \in Arrivals, Insert(k)
  PROVE  /\ held' = held \cup ({k} \cap Tables) /\ raced \subseteq raced'
         /\ Counted # {} => k \in raced'
         /\ k \in Exchange => "agent" \in held \/ k \in raced'
         /\ pc' = pc /\ op' = op /\ here' = here
BY DEF Insert

\* Records that are there without a wallet, or while it is deleted, came
\* behind the count.
LEMMA WalletStep ==
  TypeOK /\ WalletCounted /\ RecordsHaveWallet /\ Next => WalletCounted' /\ RecordsHaveWallet'
<1> SUFFICES ASSUME TypeOK, WalletCounted, RecordsHaveWallet, Next
             PROVE  WalletCounted' /\ RecordsHaveWallet'
  OBVIOUS
<1>1. ASSUME NEW k \in Arrivals, Insert(k) PROVE WalletCounted' /\ RecordsHaveWallet'
  <2>1. WalletCounted'
    <3> SUFFICES ASSUME NEW r \in Requests, op[r] = "wallet", pc[r] = "delete"
                 PROVE  held' \cap Exchange \subseteq raced'
      BY <1>1, InsertIsRaced DEF WalletCounted
    <3>1. Counted # {}
      BY DEF Counted, Deleting
    <3> QED
      BY <1>1, <3>1, InsertIsRaced DEF WalletCounted
  <2>2. RecordsHaveWallet'
    BY <1>1, InsertIsRaced DEF RecordsHaveWallet
  <2> QED
    BY <2>1, <2>2
<1>2. CASE \A k \in Arrivals : ~Insert(k)
  <2>1. held' \subseteq held /\ raced' = raced
    BY <1>2, HeldShrinks
  <2>2. WalletCounted'
    <3> SUFFICES ASSUME NEW r \in Requests, op'[r] = "wallet", pc'[r] = "delete"
                 PROVE  held' \cap Exchange \subseteq raced'
      BY DEF WalletCounted
    <3>1. held \cap Exchange \subseteq raced
      BY WalletPlace DEF WalletCounted, CountForWallet
    <3> QED
      BY <2>1, <3>1
  <2>3. CASE "agent" \in held /\ "agent" \notin held'
    <3>1. held' \cap Exchange \subseteq raced
      <4>1. CASE \E r \in Requests : DeleteAgent(r)
        BY <2>1, <4>1 DEF DeleteAgent, Delete, Move, WalletCounted
      <4>2. CASE \E r \in Requests : DeleteOrg(r)
        BY <4>2 DEF DeleteOrg
      <4>3. CASE ~(\E r \in Requests : DeleteAgent(r)) /\ ~ \E r \in Requests : DeleteOrg(r)
        <5> USE DEF Untouched, rows, Refuse, Proceed, Delete
        <5>1. ~Arriving
          BY <1>2, <2>3 DEF Arriving, LookUp, InsertRefused
        <5>2. \A r \in Requests : ~DeletingVerification(r) /\ ~DeletingIssuance(r)
          BY <2>3 DEF DeletingVerification, DeletePresentations, NoPresentations, DeletingIssuance,
                      ReadFiles, DeleteFiles, FilesRefused, CountPresentations, PresentationsLeft,
                      DeleteCredentials, NoCredentials
        <5>3. \A r \in Requests : ~DeletingConnections(r) /\ ~DeletingWallet(r)
          BY <2>3, <4>3 DEF DeletingConnections, CountExchanges, ExchangesLeft, DeleteConnections,
                      NoConnections, DeletingWallet, CountForWallet, WalletInUse, NoAgent
        <5>4. \A r \in Requests : ~DeletingOrg(r)
          BY <2>3, <4>3 DEF DeletingOrg, StripRoles, OrgGone, CountReferences, Referenced, DeletePaper,
                      UnlinkSchemas, DeleteOrgRefused
        <5> QED
          BY <2>3, <5>1, <5>2, <5>3, <5>4 DEF Next, Work, LogDeletion, Fail, Crash, Ask
      <4> QED
        BY <4>1, <4>2, <4>3
    <3> QED
      BY <2>1, <2>2, <3>1 DEF RecordsHaveWallet
  <2>4. CASE "agent" \in held => "agent" \in held'
    BY <2>1, <2>2, <2>4 DEF RecordsHaveWallet
  <2> QED
    BY <2>2, <2>3, <2>4
<1> QED
  BY <1>1, <1>2

\* References that are there while the organisation is deleted came behind the
\* count, and only they can lose it.
LEMMA OrgStep == TypeOK /\ OrgCounted /\ RecordsHaveOrg /\ Next => OrgCounted' /\ RecordsHaveOrg'
<1> SUFFICES ASSUME TypeOK, OrgCounted, RecordsHaveOrg, Next PROVE OrgCounted' /\ RecordsHaveOrg'
  OBVIOUS
<1>1. ASSUME NEW k \in Arrivals, Insert(k) PROVE OrgCounted' /\ RecordsHaveOrg'
  <2>1. OrgCounted'
    <3> SUFFICES ASSUME NEW r \in Requests, op[r] = "org", pc[r] \in {"paper", "unlink", "commit"}
                 PROVE  held' \subseteq raced'
      BY <1>1, InsertIsRaced DEF OrgCounted
    <3>1. Counted # {}
      BY DEF Counted, Deleting
    <3> QED
      BY <1>1, <3>1, InsertIsRaced DEF OrgCounted
  <2>2. loose' = loose
    BY <1>1 DEF Insert
  <2> QED
    BY <1>1, <2>1, <2>2, InsertIsRaced DEF RecordsHaveOrg
<1>2. CASE \A k \in Arrivals : ~Insert(k)
  <2>1. held' \subseteq held /\ raced' = raced
    BY <1>2, HeldShrinks
  <2>2. OrgCounted'
    <3> SUFFICES ASSUME NEW r \in Requests, op'[r] = "org", pc'[r] \in {"paper", "unlink", "commit"}
                 PROVE  held' \subseteq raced'
      BY DEF OrgCounted
    <3>1. CASE CountReferences(r)
      BY <2>1, <3>1 DEF CountReferences
    <3>2. CASE ~CountReferences(r)
      <4>1. op[r] = "org" /\ pc[r] \in {"paper", "unlink", "commit"}
        BY <3>2, OrgPlace DEF StripRoles, Move, TypeOK
      <4> QED
        BY <2>1, <4>1 DEF OrgCounted
    <3> QED
      BY <3>1, <3>2
  <2>3. RecordsHaveOrg'
    <3>1. CASE \E r \in Requests : DeleteOrg(r)
      BY <2>1, <3>1 DEF DeleteOrg, Move, OrgCounted, RecordsHaveOrg
    <3>2. CASE ~ \E r \in Requests : DeleteOrg(r)
      <4> USE DEF Untouched, rows, Refuse, Proceed, Delete
      <4>1. \A r \in Requests : DeletingVerification(r) \/ DeletingIssuance(r) => loose' = loose
        BY DEF DeletingVerification, DeletePresentations, NoPresentations, DeletingIssuance, ReadFiles,
               DeleteFiles, FilesRefused, CountPresentations, PresentationsLeft, DeleteCredentials,
               NoCredentials
      <4>2. \A r \in Requests : DeletingConnections(r) \/ DeletingWallet(r) => loose' = loose
        BY DEF DeletingConnections, CountExchanges, ExchangesLeft, DeleteConnections, NoConnections,
               DeletingWallet, CountForWallet, WalletInUse, DeleteAgent, NoAgent
      <4>3. \A r \in Requests : DeletingOrg(r) => loose' = loose
        BY <3>2 DEF DeletingOrg, StripRoles, OrgGone, CountReferences, Referenced, DeletePaper,
                    UnlinkSchemas, DeleteOrgRefused
      <4>4. loose' = loose
        BY <4>1, <4>2, <4>3, ArrivingStays DEF Next, Work, LogDeletion, Fail, Crash, Ask
      <4> QED
        BY <2>1, <4>4 DEF RecordsHaveOrg
    <3> QED
      BY <3>1, <3>2
  <2> QED
    BY <2>2, <2>3
<1> QED
  BY <1>1, <1>2

\* A deletion that has unlinked the schemas waits, ends the organisation, or is
\* undone, which is remembered.
LEMMA CommitLeaves ==
  ASSUME TypeOK, Next, NEW r \in Requests, op[r] = "org", pc[r] = "commit"
  PROVE  (op'[r] = "org" /\ pc'[r] = "commit") \/ DeleteOrg(r) \/ rolled'
<1> USE DEF Move, Answer, Delete, Refuse, Proceed
<1>1. CASE Arriving
  BY <1>1, ArrivingStays
<1>2. CASE Crash
  BY <1>2 DEF Crash
<1>3. ASSUME NEW s \in Requests, Act(s), s # r PROVE op'[r] = "org" /\ pc'[r] = "commit"
  BY <1>3, OthersStay
<1>4. CASE Act(r)
  <2>1. ~DeletingVerification(r) /\ ~DeletingIssuance(r)
    BY DEF DeletingVerification, DeletePresentations, NoPresentations, DeletingIssuance, ReadFiles,
           DeleteFiles, FilesRefused, CountPresentations, PresentationsLeft, DeleteCredentials,
           NoCredentials
  <2>2. ~DeletingConnections(r) /\ ~DeletingWallet(r)
    BY DEF DeletingConnections, CountExchanges, ExchangesLeft, DeleteConnections, NoConnections,
           DeletingWallet, CountForWallet, WalletInUse, DeleteAgent, NoAgent
  <2>3. DeletingOrg(r) => DeleteOrg(r) \/ DeleteOrgRefused(r)
    BY DEF DeletingOrg, StripRoles, OrgGone, CountReferences, Referenced, DeletePaper, UnlinkSchemas
  <2>4. ~LogDeletion(r) /\ ~ \E o \in Ops \ {"none"}, u \in Owners : Ask(r, o, u)
    BY DEF LogDeletion, Ask
  <2>5. Fail(r) \/ DeleteOrgRefused(r) => rolled'
    BY DEF Fail, DeleteOrgRefused
  <2> QED
    BY <1>4, <2>1, <2>2, <2>3, <2>4, <2>5 DEF Act, Work
<1> QED
  BY <1>1, <1>2, <1>3, <1>4 DEF Next, Act

\* What steps do to the organisation's row and to its schemas: one stage
\* unlinks them, one ends it, and a schema that is inserted is linked.
LEMMA OrgRowStep ==
  ASSUME TypeOK, Next
  PROVE  /\ here' => here
         /\ rolled => rolled'
         /\ \/ schemas' = schemas
            \/ schemas' = "linked"
            \/ \E r \in Requests : UnlinkSchemas(r) \/ DeleteOrg(r)
         /\ here' = here \/ \E r \in Requests : DeleteOrg(r)
<1> USE DEF Untouched, rows, history, Refuse, Proceed, Delete
<1>1. CASE Arriving
  BY <1>1 DEF Arriving, LookUp, Insert, InsertRefused
<1>2. ASSUME NEW r \in Requests, DeletingVerification(r) \/ DeletingIssuance(r)
      PROVE  here' = here /\ rolled' = rolled /\ schemas' = schemas
  BY <1>2 DEF DeletingVerification, DeletePresentations, NoPresentations, DeletingIssuance, ReadFiles,
              DeleteFiles, FilesRefused, CountPresentations, PresentationsLeft, DeleteCredentials,
              NoCredentials
<1>3. ASSUME NEW r \in Requests, DeletingConnections(r) \/ DeletingWallet(r)
      PROVE  here' = here /\ rolled' = rolled /\ schemas' = schemas
  BY <1>3 DEF DeletingConnections, CountExchanges, ExchangesLeft, DeleteConnections, NoConnections,
              DeletingWallet, CountForWallet, WalletInUse, DeleteAgent, NoAgent
<1>4. ASSUME NEW r \in Requests, DeletingOrg(r)
      PROVE  /\ here' => here
             /\ rolled => rolled'
             /\ schemas' = schemas \/ UnlinkSchemas(r) \/ DeleteOrg(r)
             /\ here' = here \/ DeleteOrg(r)
  BY <1>4 DEF DeletingOrg, StripRoles, OrgGone, CountReferences, Referenced, DeletePaper, UnlinkSchemas,
              DeleteOrg, DeleteOrgRefused
<1>5. ASSUME NEW r \in Requests, LogDeletion(r) \/ Fail(r)
      PROVE  here' = here /\ (rolled => rolled') /\ schemas' = schemas
  <2>1. here' = here /\ schemas' = schemas
    BY <1>5 DEF LogDeletion, Fail
  <2>2. rolled => rolled'
    BY <1>5, Zenon DEF LogDeletion, Fail
  <2> QED
    BY <2>1, <2>2
<1>6. ASSUME Crash PROVE here' = here /\ (rolled => rolled') /\ schemas' = schemas
  <2>1. here' = here /\ schemas' = schemas
    BY <1>6 DEF Crash
  <2>2. rolled => rolled'
    BY <1>6, Zenon DEF Crash
  <2> QED
    BY <2>1, <2>2
<1>7. ASSUME NEW r \in Requests, NEW o \in Ops \ {"none"}, NEW u \in Owners, Ask(r, o, u)
      PROVE  here' = here /\ rolled' = rolled /\ schemas' = schemas
  BY <1>7 DEF Ask
<1> QED
  BY <1>1, <1>2, <1>3, <1>4, <1>5, <1>6, <1>7 DEF Next, Work

\* Schemas are unlinked right before the organisation is to go, and that it did
\* not is remembered.
LEMMA SchemasStep == TypeOK /\ SchemasKept /\ Next => SchemasKept'
<1> SUFFICES ASSUME TypeOK, SchemasKept, Next, here', schemas' = "unlinked"
             PROVE  rolled' \/ \E r \in Deleting("org")' : pc'[r] = "commit"
  BY DEF SchemasKept
<1>1. here /\ \A r \in Requests : ~DeleteOrg(r)
  BY OrgRowStep DEF DeleteOrg
<1>2. ASSUME NEW r \in Requests, UnlinkSchemas(r) PROVE r \in Deleting("org")' /\ pc'[r] = "commit"
  BY <1>2 DEF UnlinkSchemas, Move, Same, Deleting, TypeOK
<1>3. CASE schemas = "unlinked" /\ rolled
  BY <1>3, OrgRowStep
<1>4. CASE schemas = "unlinked" /\ ~rolled
  <2>1. PICK r \in Requests : op[r] = "org" /\ pc[r] = "commit"
    BY <1>1, <1>4 DEF SchemasKept, Deleting
  <2>2. (op'[r] = "org" /\ pc'[r] = "commit") \/ rolled'
    BY <1>1, <2>1, CommitLeaves
  <2> QED
    BY <2>2 DEF Deleting
<1> QED
  BY <1>1, <1>2, <1>3, <1>4, OrgRowStep

\* Who joins while the organisation is deleted is known to be left; nobody
\* joins what is gone.
LEMMA RolesStep == TypeOK /\ RolesStripped /\ NoRolesLeft /\ Next => RolesStripped' /\ NoRolesLeft'
<1> SUFFICES ASSUME TypeOK, RolesStripped, NoRolesLeft, Next PROVE RolesStripped' /\ NoRolesLeft'
  OBVIOUS
<1>1. ASSUME NEW k \in Arrivals, Insert(k) PROVE RolesStripped' /\ NoRolesLeft'
  <2>1. NoRolesLeft'
    BY <1>1 DEF Insert, NoRolesLeft
  <2>2. RolesStripped'
    <3> SUFFICES ASSUME NEW r \in Requests, op[r] = "org", pc[r] \in {"count", "paper", "unlink", "commit"}
                 PROVE  mapped' \subseteq kept'
      BY <1>1, InsertIsRaced DEF RolesStripped
    <3>1. Deleting("org") # {}
      BY DEF Deleting
    <3> QED
      BY <1>1, <3>1 DEF Insert, RolesStripped
  <2> QED
    BY <2>1, <2>2
<1>2. CASE \A k \in Arrivals : ~Insert(k)
  <2>1. mapped' \subseteq mapped /\ kept \subseteq kept'
    BY <1>2, HeldShrinks
  <2>2. RolesStripped'
    <3> SUFFICES ASSUME NEW r \in Requests, op'[r] = "org", pc'[r] \in {"count", "paper", "unlink", "commit"}
                 PROVE  mapped' \subseteq kept'
      BY DEF RolesStripped
    <3>1. CASE StripRoles(r)
      BY <3>1 DEF StripRoles, TypeOK
    <3>2. CASE ~StripRoles(r)
      <4>1. op[r] = "org" /\ pc[r] \in {"count", "paper", "unlink", "commit"}
        BY <3>2, OrgPlace
      <4> QED
        BY <2>1, <4>1 DEF RolesStripped
    <3> QED
      BY <3>1, <3>2
  <2>3. NoRolesLeft'
    <3>1. CASE here' = here
      BY <2>1, <3>1 DEF NoRolesLeft
    <3>2. ASSUME NEW r \in Requests, DeleteOrg(r) PROVE mapped' \subseteq kept'
      BY <2>1, <3>2 DEF DeleteOrg, Move, RolesStripped
    <3> QED
      BY <3>1, <3>2, OrgRowStep DEF NoRolesLeft
  <2> QED
    BY <2>2, <2>3
<1> QED
  BY <1>1, <1>2

-----------------------------------------------------------------------------
\* The theorems.

\* The invariant is inductive.
LEMMA IInvStep == IInv /\ [Next]_vars => IInv'
<1> SUFFICES ASSUME IInv, [Next]_vars PROVE IInv'
  OBVIOUS
<1>1. TypeOK'
  BY NextTypeOK DEF IInv
<1>2. CASE Next
  BY <1>1, <1>2, WalletStep, OrgStep, SchemasStep, RolesStep DEF IInv
<1>3. CASE UNCHANGED vars
  BY <1>1, <1>3
     DEF vars, rows, requests, history, IInv, WalletCounted, RecordsHaveWallet, OrgCounted,
         RecordsHaveOrg, SchemasKept, Deleting, RolesStripped, NoRolesLeft
<1> QED
  BY <1>2, <1>3

\* It holds in every behaviour.
LEMMA AlwaysIInv == Spec => []IInv
<1> QED
  BY InitIInv, IInvStep, PTL DEF Spec

\* TypeOK: rows, roles and requests are what they are declared to be.
THEOREM TypeCorrect == Spec => []TypeOK
<1>1. IInv => TypeOK
  BY DEF IInv
<1> QED
  BY <1>1, AlwaysIInv, PTL

\* RecordsHaveWallet: deleteWallet leaves no exchange record behind but one that
\* was inserted after it had counted them.
THEOREM WalletsOutliveRecords == Spec => []RecordsHaveWallet
<1>1. IInv => RecordsHaveWallet
  BY DEF IInv
<1> QED
  BY <1>1, AlwaysIInv, PTL

\* RecordsHaveOrg: deleteOrganization leaves no row without an organisation but
\* one that was inserted after it had counted them.
THEOREM OrgsOutliveRecords == Spec => []RecordsHaveOrg
<1>1. IInv => RecordsHaveOrg
  BY DEF IInv
<1> QED
  BY <1>1, AlwaysIInv, PTL

\* SchemasKept: of an organisation that exists, schemas are unlinked only at the
\* end of its deletion, or because the deletion was undone after that.
THEOREM SchemasStayLinked == Spec => []SchemasKept
<1>1. IInv => SchemasKept
  BY DEF IInv
<1> QED
  BY <1>1, AlwaysIInv, PTL

\* NoRolesLeft: of an organisation that is gone, only the owners Keycloak was
\* not told about have roles.
THEOREM GoneOrgsHaveNoRoles == Spec => []NoRolesLeft
<1>1. IInv => NoRolesLeft
  BY DEF IInv
<1> QED
  BY <1>1, AlwaysIInv, PTL

\* RecordsKept: no record outlives its wallet or its organisation.
THEOREM RecordsAreKept == Spec => []RecordsKept
<1>1. RecordsHaveWallet /\ RecordsHaveOrg => RecordsKept
  BY DEF RecordsKept
<1> QED
  BY <1>1, WalletsOutliveRecords, OrgsOutliveRecords, PTL

\* OthersKept: schemas and roles go with the organisation and not before.
THEOREM OthersAreKept == Spec => []OthersKept
<1>1. SchemasKept /\ NoRolesLeft => OthersKept
  BY DEF OthersKept
<1> QED
  BY <1>1, SchemasStayLinked, GoneOrgsHaveNoRoles, PTL
=============================================================================
