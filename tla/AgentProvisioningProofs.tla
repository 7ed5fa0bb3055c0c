---------------------- MODULE AgentProvisioningProofs ----------------------
(***************************************************************************)
(* What TLAPS proves of AgentProvisioning for every set of requests,       *)
(* deletions and agents and any number of faults.                          *)
(***************************************************************************)
EXTENDS AgentProvisioning, TLAPS

-----------------------------------------------------------------------------
\* The invariants behind the theorems.

\* An attempt's row, wallet and home are those of the place it has reached.
\* The wallet of another attempt is nobody's home.
Consistent(a) ==
  /\ pc[a] \in {"idle", "start"} => row[a] = "none" /\ home[a] = a
  /\ pc[a] \in {"wallet", "did"} => row[a] = "placeholder" /\ kind[a] # "configured"
  /\ pc[a] = "store" => row[a] = IF kind[a] = "configured" THEN "none" ELSE "placeholder"
  /\ pc[a] \in {"after", "invite"} => row[a] \in {"completed", "removed"}
  /\ pc[a] \in {"after", "cleanup"} => kind[a] # "configured"
  /\ pc[a] = "cleanup" => row[a] # "none"
  /\ pc[a] \in {"idle", "start", "wallet"} \/ kind[a] = "configured" => wallet[a] = "none"
  /\ home[a] \in {a} \cup Agents
  /\ kind[a] # "configured" => home[a] = a

AttemptsConsistent == \A a \in Attempts : Consistent(a)

\* One row has the orgId.  What a deletion read was recorded then, and is
\* not any more once the deletion has removed a record.
DeletionsConsistent ==
  /\ \A a, b \in Attempts : row[a] = "completed" /\ row[b] = "completed" => a = b
  /\ \A d \in Deletions : \A a, b \in target[d] : a = b
  /\ \A d \in Deletions : \A a \in target[d] :
       /\ row[a] \in {"completed", "removed"}
       /\ dpc[d] \in {"http", "archive"} => row[a] = "removed"
       /\ dpc[d] = "archive" => wallet[home[a]] = "deleted"
  /\ \A w \in archived : wallet[w] = "deleted"

\* No other attempt records the same wallet.
Alone(a) == \A b \in Attempts \ {a} : home[b] # home[a]

\* From its making until its record is removed a wallet is alive.
Standing(a) == pc[a] \in {"did", "store"} \/ row[a] = "completed"

StandingHasWallet ==
  \A a \in Attempts :
    Standing(a) /\ Alone(a) => wallet[home[a]] = "alive" /\ home[a] \notin archived

\* Once an attempt has failed or its record is gone, its wallet is doomed
\* or has an excuse.
Lapsed(a) == pc[a] = "cleanup" \/ (pc[a] \in {"after", "invite", "over"} /\ row[a] # "completed")

LapsedHasCause ==
  \A a \in Attempts : wallet[a] = "alive" /\ Lapsed(a) /\ ~Doomed(a) => a \in excused

\* Whoever is done, and was not cut short, is done completely.
DoneCompletely ==
  \A a \in Attempts \ cut : pc[a] \in {"invite", "over"} =>
    /\ row[a] # "placeholder"
    /\ row[a] = "completed" /\ kind[a] = "shared" => a \in did

-----------------------------------------------------------------------------
\* Type correctness.

\* Every initial state is well typed.
LEMMA InitTypeOK == Init => TypeOK
<1> SUFFICES ASSUME Init PROVE TypeOK
  OBVIOUS
<1>1. /\ row \in [Attempts -> RowState]
      /\ wallet \in [Wallets -> WalletState]
  BY DEF Init, RowState, WalletState
<1>2. /\ pc \in [Attempts -> AttemptPc]
      /\ kind \in [Attempts -> Kinds \cup {"none"}]
      /\ home \in [Attempts -> Wallets]
  BY DEF Init, AttemptPc, Wallets
<1>3. /\ dpc \in [Deletions -> DeletePc]
      /\ target \in [Deletions -> SUBSET Attempts]
  BY DEF Init, DeletePc
<1>4. /\ did \subseteq Attempts
      /\ archived \subseteq Wallets
      /\ excused \subseteq Attempts
      /\ cut \subseteq Attempts
      /\ referenced \in BOOLEAN
  BY DEF Init
<1>5. faults \in 0 .. MaxFaults
  BY ConstantsAssumption DEF Init
<1> QED
  BY <1>1, <1>2, <1>3, <1>4, <1>5 DEF TypeOK

\* Every step keeps the types.
LEMMA NextTypeOK == TypeOK /\ [Next]_vars => TypeOK'
<1> SUFFICES ASSUME TypeOK, [Next]_vars PROVE TypeOK'
  OBVIOUS
<1> USE ConstantsAssumption
<1> USE DEF database, attempt, deletion, history
<1>0. CASE vars' = vars
  BY <1>0  DEF TypeOK, vars
<1>1. CASE \E b \in Attempts, k \in Kinds : Start(b, k)
  BY <1>1 DEF TypeOK, Start, Step, AttemptPc
<1>2. CASE \E b \in Attempts : StartFails(b)
  BY <1>2 DEF TypeOK, StartFails, Step, Fault, AttemptPc
<1>3. CASE \E b \in Attempts : CreatePlaceholder(b)
  BY <1>3 DEF TypeOK, CreatePlaceholder, Step, AttemptPc, RowState
<1>4. CASE \E b \in Attempts : \E w \in Agents : AgentHealthy(b, w)
  BY <1>4 DEF TypeOK, AgentHealthy, Step, AttemptPc, Wallets
<1>5. CASE \E b \in Attempts : CreateWallet(b)
  BY <1>5 DEF TypeOK, CreateWallet, Step, AttemptPc, WalletState, Wallets
<1>6. CASE \E b \in Attempts : CreateWalletFails(b)
  BY <1>6 DEF TypeOK, CreateWalletFails, Step, Fault, AttemptPc, WalletState, Wallets
<1>7. CASE \E b \in Attempts : WriteDid(b)
  BY <1>7 DEF TypeOK, WriteDid, Step, AttemptPc
<1>8. CASE \E b \in Attempts : WriteDidFails(b)
  BY <1>8 DEF TypeOK, WriteDidFails, Step, Fault, AttemptPc
<1>9. CASE \E b \in Attempts : StoreRecord(b)
  BY <1>9 DEF TypeOK, StoreRecord, Step, AttemptPc, RowState
<1>10. CASE \E b \in Attempts : StoreRefused(b)
  BY <1>10 DEF TypeOK, StoreRefused, Step, Fault, NoFault, AttemptPc
<1>11. CASE \E b \in Attempts : FinishRecord(b)
  BY <1>11 DEF TypeOK, FinishRecord, Step, AttemptPc
<1>12. CASE \E b \in Attempts : FinishFails(b)
  BY <1>12 DEF TypeOK, FinishFails, Step, Fault, NoFault, AttemptPc
<1>13. CASE \E b \in Attempts : Invite(b)
  BY <1>13 DEF TypeOK, Invite, Step, AttemptPc
<1>14. CASE \E b \in Attempts : Cleanup(b)
  BY <1>14 DEF TypeOK, Cleanup, Step, AttemptPc, RowState
<1>15. CASE \E b \in Attempts : CleanupFails(b)
  BY <1>15 DEF TypeOK, CleanupFails, Step, Fault, NoFault, AttemptPc
<1>16. CASE \E d \in Deletions : ReadRecord(d)
  BY <1>16 DEF TypeOK, ReadRecord, Advance, DeletePc
<1>17. CASE \E d \in Deletions : CountReferences(d)
  BY <1>17 DEF TypeOK, CountReferences, Advance, DeletePc
<1>18. CASE \E d \in Deletions : DeletionRefused(d)
  BY <1>18 DEF TypeOK, DeletionRefused, Advance, Fault, NoFault, DeletePc
<1>19. CASE \E d \in Deletions : DeleteRecord(d)
  BY <1>19 DEF TypeOK, DeleteRecord, Advance, DeletePc, RowState
<1>20. CASE \E d \in Deletions : DeleteWallet(d)
  BY <1>20 DEF TypeOK, DeleteWallet, Advance, DeletePc, WalletState, Wallets
<1>21. CASE \E d \in Deletions : DeleteWalletFails(d)
  BY <1>21 DEF TypeOK, DeleteWalletFails, Advance, Fault, NoFault, DeletePc, WalletState, Wallets
<1>22. CASE \E d \in Deletions : ArchiveSchemas(d)
  BY <1>22 DEF TypeOK, ArchiveSchemas, Advance, DeletePc, Wallets
<1>23. CASE \E d \in Deletions : ArchiveFails(d)
  BY <1>23 DEF TypeOK, ArchiveFails, Advance, Fault, DeletePc
<1>24. CASE ExchangeArrives
  BY <1>24 DEF TypeOK, ExchangeArrives
<1>25. CASE ExchangesDeleted
  BY <1>25 DEF TypeOK, ExchangesDeleted
<1>26. CASE Crash
  BY <1>26 DEF TypeOK, Crash, Fault, AttemptPc, DeletePc, Underway
<1> QED
  BY <1>0, <1>1, <1>2, <1>3, <1>4, <1>5, <1>6, <1>7, <1>8, <1>9, <1>10, <1>11, <1>12, <1>13,
     <1>14, <1>15, <1>16, <1>17, <1>18, <1>19, <1>20, <1>21, <1>22, <1>23, <1>24, <1>25, <1>26
  DEF Next, AttemptStep, DeletionStep

\* The variables of the specification keep their types (TypeOK).
THEOREM TypeCorrect == Spec => []TypeOK
<1>1. Init => TypeOK
  BY InitTypeOK
<1>2. TypeOK /\ [Next]_vars => TypeOK'
  BY NextTypeOK
<1> QED
  BY <1>1, <1>2, PTL DEF Spec

-----------------------------------------------------------------------------
\* The places of the attempts.

\* It holds before any request.
LEMMA InitAttemptsConsistent == Init => AttemptsConsistent
BY ConstantsAssumption DEF Init, AttemptsConsistent, Consistent, Wallets

\* Every step of an attempt, and every deletion, keeps row, wallet and home
\* in agreement with the place the attempts have reached.
LEMMA NextAttemptsConsistent ==
  TypeOK /\ DeletionsConsistent /\ AttemptsConsistent /\ [Next]_vars => AttemptsConsistent'
<1> SUFFICES ASSUME TypeOK, DeletionsConsistent, AttemptsConsistent, [Next]_vars
               PROVE  AttemptsConsistent'
  OBVIOUS
<1> USE ConstantsAssumption DEF Wallets
<1> USE DEF database, attempt, deletion, history
<1>0. CASE vars' = vars
  BY <1>0  DEF TypeOK, AttemptsConsistent, Consistent, vars
<1>1. CASE \E b \in Attempts, k \in Kinds : Start(b, k)
  BY <1>1 DEF AttemptsConsistent, Consistent, Start, Step
<1>2. CASE \E b \in Attempts : StartFails(b)
  BY <1>2 DEF AttemptsConsistent, Consistent, StartFails, Step
<1>3. CASE \E b \in Attempts : CreatePlaceholder(b)
  BY <1>3 DEF TypeOK, AttemptsConsistent, Consistent, CreatePlaceholder, Step
<1>4. CASE \E b \in Attempts : \E w \in Agents : AgentHealthy(b, w)
  BY <1>4 DEF TypeOK, AttemptsConsistent, Consistent, AgentHealthy, Step
<1>5. CASE \E b \in Attempts : CreateWallet(b)
  BY <1>5 DEF TypeOK, AttemptsConsistent, Consistent, CreateWallet, Step
<1>6. CASE \E b \in Attempts : CreateWalletFails(b)
  BY <1>6 DEF TypeOK, AttemptsConsistent, Consistent, CreateWalletFails, Step
<1>7. CASE \E b \in Attempts : WriteDid(b)
  BY <1>7 DEF AttemptsConsistent, Consistent, WriteDid, Step
<1>8. CASE \E b \in Attempts : WriteDidFails(b)
  BY <1>8 DEF AttemptsConsistent, Consistent, WriteDidFails, Step
<1>9. CASE \E b \in Attempts : StoreRecord(b)
  BY <1>9 DEF TypeOK, AttemptsConsistent, Consistent, StoreRecord, Step
<1>10. CASE \E b \in Attempts : StoreRefused(b)
  BY <1>10 DEF AttemptsConsistent, Consistent, StoreRefused, Step
<1>11. CASE \E b \in Attempts : FinishRecord(b)
  BY <1>11 DEF AttemptsConsistent, Consistent, FinishRecord, Step
<1>12. CASE \E b \in Attempts : FinishFails(b)
  BY <1>12 DEF AttemptsConsistent, Consistent, FinishFails, Step
<1>13. CASE \E b \in Attempts : Invite(b)
  BY <1>13 DEF AttemptsConsistent, Consistent, Invite, Step
<1>14. CASE \E b \in Attempts : Cleanup(b)
  BY <1>14 DEF AttemptsConsistent, Consistent, Cleanup, Step
<1>15. CASE \E b \in Attempts : CleanupFails(b)
  BY <1>15 DEF AttemptsConsistent, Consistent, CleanupFails, Step
<1>16. CASE \E d \in Deletions : ReadRecord(d)
  BY <1>16 DEF AttemptsConsistent, Consistent, ReadRecord
<1>17. CASE \E d \in Deletions : CountReferences(d)
  BY <1>17 DEF AttemptsConsistent, Consistent, CountReferences
<1>18. CASE \E d \in Deletions : DeletionRefused(d)
  BY <1>18 DEF AttemptsConsistent, Consistent, DeletionRefused
<1>19. CASE \E d \in Deletions : DeleteRecord(d)
  BY <1>19 DEF AttemptsConsistent, Consistent, DeleteRecord
<1>20. CASE \E d \in Deletions : DeleteWallet(d)
  BY <1>20 DEF AttemptsConsistent, Consistent, DeleteWallet
<1>21. CASE \E d \in Deletions : DeleteWalletFails(d)
  BY <1>21 DEF TypeOK, AttemptsConsistent, Consistent, DeleteWalletFails
<1>22. CASE \E d \in Deletions : ArchiveSchemas(d)
  BY <1>22 DEF AttemptsConsistent, Consistent, ArchiveSchemas
<1>23. CASE \E d \in Deletions : ArchiveFails(d)
  BY <1>23 DEF AttemptsConsistent, Consistent, ArchiveFails
<1>24. CASE ExchangeArrives
  BY <1>24 DEF AttemptsConsistent, Consistent, ExchangeArrives
<1>25. CASE ExchangesDeleted
  BY <1>25 DEF AttemptsConsistent, Consistent, ExchangesDeleted
<1>26. CASE Crash
  BY <1>26 DEF AttemptsConsistent, Consistent, Crash, Underway
<1> QED
  BY <1>0, <1>1, <1>2, <1>3, <1>4, <1>5, <1>6, <1>7, <1>8, <1>9, <1>10, <1>11, <1>12, <1>13,
     <1>14, <1>15, <1>16, <1>17, <1>18, <1>19, <1>20, <1>21, <1>22, <1>23, <1>24, <1>25, <1>26
  DEF Next, AttemptStep, DeletionStep

-----------------------------------------------------------------------------
\* The records and the deletions.

\* It holds before any request.
LEMMA InitDeletionsConsistent == Init => DeletionsConsistent
BY DEF Init, DeletionsConsistent

\* The unique index keeps the records apart; a removed record never comes
\* back, so what a deletion has read stays removed.
LEMMA NextDeletionsConsistent ==
  TypeOK /\ AttemptsConsistent /\ DeletionsConsistent /\ [Next]_vars => DeletionsConsistent'
<1> SUFFICES ASSUME TypeOK, AttemptsConsistent, DeletionsConsistent, [Next]_vars
               PROVE  DeletionsConsistent'
  OBVIOUS
<1> USE ConstantsAssumption DEF Wallets
<1> USE DEF database, attempt, deletion, history
<1>0. CASE vars' = vars
  BY <1>0  DEF TypeOK, AttemptsConsistent, Consistent, DeletionsConsistent, vars
<1>1. CASE \E b \in Attempts, k \in Kinds : Start(b, k)
  BY <1>1 DEF DeletionsConsistent, Start
<1>2. CASE \E b \in Attempts : StartFails(b)
  BY <1>2 DEF DeletionsConsistent, StartFails
<1>3. CASE \E b \in Attempts : CreatePlaceholder(b)
  BY <1>3 DEF AttemptsConsistent, Consistent, DeletionsConsistent, CreatePlaceholder, Step
<1>4. CASE \E b \in Attempts : \E w \in Agents : AgentHealthy(b, w)
  BY <1>4 DEF AttemptsConsistent, Consistent, DeletionsConsistent, AgentHealthy, Step
<1>5. CASE \E b \in Attempts : CreateWallet(b)
  BY <1>5 DEF AttemptsConsistent, Consistent, DeletionsConsistent, CreateWallet, Step
<1>6. CASE \E b \in Attempts : CreateWalletFails(b)
  BY <1>6 DEF TypeOK, AttemptsConsistent, Consistent, DeletionsConsistent, CreateWalletFails, Step
<1>7. CASE \E b \in Attempts : WriteDid(b)
  BY <1>7 DEF DeletionsConsistent, WriteDid
<1>8. CASE \E b \in Attempts : WriteDidFails(b)
  BY <1>8 DEF DeletionsConsistent, WriteDidFails
<1>9. CASE \E b \in Attempts : StoreRecord(b)
  BY <1>9 DEF AttemptsConsistent, Consistent, DeletionsConsistent, StoreRecord, Step, Recorded
<1>10. CASE \E b \in Attempts : StoreRefused(b)
  BY <1>10 DEF DeletionsConsistent, StoreRefused
<1>11. CASE \E b \in Attempts : FinishRecord(b)
  BY <1>11 DEF DeletionsConsistent, FinishRecord
<1>12. CASE \E b \in Attempts : FinishFails(b)
  BY <1>12 DEF DeletionsConsistent, FinishFails
<1>13. CASE \E b \in Attempts : Invite(b)
  BY <1>13 DEF DeletionsConsistent, Invite
<1>14. CASE \E b \in Attempts : Cleanup(b)
  BY <1>14 DEF DeletionsConsistent, Cleanup
<1>15. CASE \E b \in Attempts : CleanupFails(b)
  BY <1>15 DEF DeletionsConsistent, CleanupFails
<1>16. CASE \E d \in Deletions : ReadRecord(d)
  BY <1>16 DEF DeletionsConsistent, ReadRecord, Advance
<1>17. CASE \E d \in Deletions : CountReferences(d)
  BY <1>17 DEF DeletionsConsistent, CountReferences, Advance
<1>18. CASE \E d \in Deletions : DeletionRefused(d)
  BY <1>18 DEF TypeOK, DeletionsConsistent, DeletionRefused, Advance
<1>19. CASE \E d \in Deletions : DeleteRecord(d)
  BY <1>19 DEF TypeOK, DeletionsConsistent, DeleteRecord, Advance
<1>20. CASE \E d \in Deletions : DeleteWallet(d)
  BY <1>20 DEF TypeOK, DeletionsConsistent, DeleteWallet, Advance
<1>21. CASE \E d \in Deletions : DeleteWalletFails(d)
  BY <1>21 DEF TypeOK, DeletionsConsistent, DeleteWalletFails, Advance
<1>22. CASE \E d \in Deletions : ArchiveSchemas(d)
  BY <1>22 DEF DeletionsConsistent, ArchiveSchemas, Advance
<1>23. CASE \E d \in Deletions : ArchiveFails(d)
  BY <1>23 DEF DeletionsConsistent, ArchiveFails, Advance
<1>24. CASE ExchangeArrives
  BY <1>24 DEF DeletionsConsistent, ExchangeArrives
<1>25. CASE ExchangesDeleted
  BY <1>25 DEF DeletionsConsistent, ExchangesDeleted
<1>26. CASE Crash
  BY <1>26 DEF DeletionsConsistent, Crash, Underway, InDeletion, Pending
<1> QED
  BY <1>0, <1>1, <1>2, <1>3, <1>4, <1>5, <1>6, <1>7, <1>8, <1>9, <1>10, <1>11, <1>12, <1>13,
     <1>14, <1>15, <1>16, <1>17, <1>18, <1>19, <1>20, <1>21, <1>22, <1>23, <1>24, <1>25, <1>26
  DEF Next, AttemptStep, DeletionStep

-----------------------------------------------------------------------------
\* The records and the wallets.

\* It holds before any request.
LEMMA InitStandingHasWallet == Init => StandingHasWallet
BY DEF Init, StandingHasWallet, Standing

\* A deletion reaches no wallet that stands: its target's record is gone, and
\* a wallet of another attempt is somewhere else.
LEMMA NextStandingHasWallet ==
  TypeOK /\ AttemptsConsistent /\ DeletionsConsistent /\ StandingHasWallet
      /\ [Next]_vars => StandingHasWallet'
<1> SUFFICES ASSUME TypeOK, AttemptsConsistent, DeletionsConsistent, StandingHasWallet, [Next]_vars
               PROVE  StandingHasWallet'
  OBVIOUS
<1> USE ConstantsAssumption DEF Wallets
<1> USE DEF database, attempt, deletion, history
<1>0. CASE vars' = vars
  BY <1>0
  DEF TypeOK, AttemptsConsistent, Consistent, DeletionsConsistent, StandingHasWallet, Standing,
      Alone, vars
<1>1. CASE \E b \in Attempts, k \in Kinds : Start(b, k)
  BY <1>1 DEF StandingHasWallet, Standing, Alone, Start, Step
<1>2. CASE \E b \in Attempts : StartFails(b)
  BY <1>2 DEF StandingHasWallet, Standing, Alone, StartFails, Step
<1>3. CASE \E b \in Attempts : CreatePlaceholder(b)
  BY <1>3 DEF StandingHasWallet, Standing, Alone, CreatePlaceholder, Step
<1>4. CASE \E b \in Attempts : \E w \in Agents : AgentHealthy(b, w)
  BY <1>4
  DEF TypeOK, AttemptsConsistent, Consistent, DeletionsConsistent, StandingHasWallet, Standing,
      Alone, AgentHealthy, Step
<1>5. CASE \E b \in Attempts : CreateWallet(b)
  BY <1>5
  DEF TypeOK, AttemptsConsistent, Consistent, DeletionsConsistent, StandingHasWallet, Standing,
      Alone, CreateWallet, Step
<1>6. CASE \E b \in Attempts : CreateWalletFails(b)
  BY <1>6 DEF TypeOK, StandingHasWallet, Standing, Alone, CreateWalletFails, Step
<1>7. CASE \E b \in Attempts : WriteDid(b)
  BY <1>7 DEF StandingHasWallet, Standing, Alone, WriteDid, Step
<1>8. CASE \E b \in Attempts : WriteDidFails(b)
  BY <1>8 DEF StandingHasWallet, Standing, Alone, WriteDidFails, Step
<1>9. CASE \E b \in Attempts : StoreRecord(b)
  BY <1>9 DEF StandingHasWallet, Standing, Alone, StoreRecord, Step
<1>10. CASE \E b \in Attempts : StoreRefused(b)
  BY <1>10 DEF StandingHasWallet, Standing, Alone, StoreRefused, Step
<1>11. CASE \E b \in Attempts : FinishRecord(b)
  BY <1>11 DEF StandingHasWallet, Standing, Alone, FinishRecord, Step
<1>12. CASE \E b \in Attempts : FinishFails(b)
  BY <1>12 DEF StandingHasWallet, Standing, Alone, FinishFails, Step
<1>13. CASE \E b \in Attempts : Invite(b)
  BY <1>13 DEF StandingHasWallet, Standing, Alone, Invite, Step
<1>14. CASE \E b \in Attempts : Cleanup(b)
  BY <1>14 DEF StandingHasWallet, Standing, Alone, Cleanup, Step
<1>15. CASE \E b \in Attempts : CleanupFails(b)
  BY <1>15 DEF StandingHasWallet, Standing, Alone, CleanupFails, Step
<1>16. CASE \E d \in Deletions : ReadRecord(d)
  BY <1>16 DEF StandingHasWallet, Standing, Alone, ReadRecord
<1>17. CASE \E d \in Deletions : CountReferences(d)
  BY <1>17 DEF StandingHasWallet, Standing, Alone, CountReferences
<1>18. CASE \E d \in Deletions : DeletionRefused(d)
  BY <1>18 DEF StandingHasWallet, Standing, Alone, DeletionRefused
<1>19. CASE \E d \in Deletions : DeleteRecord(d)
  BY <1>19 DEF StandingHasWallet, Standing, Alone, DeleteRecord
<1>20. CASE \E d \in Deletions : DeleteWallet(d)
  BY <1>20
  DEF TypeOK, AttemptsConsistent, Consistent, DeletionsConsistent, StandingHasWallet, Standing,
      Alone, DeleteWallet, Advance
<1>21. CASE \E d \in Deletions : DeleteWalletFails(d)
  BY <1>21
  DEF TypeOK, AttemptsConsistent, Consistent, DeletionsConsistent, StandingHasWallet, Standing,
      Alone, DeleteWalletFails, Advance
<1>22. CASE \E d \in Deletions : ArchiveSchemas(d)
  BY <1>22 DEF DeletionsConsistent, StandingHasWallet, Standing, Alone, ArchiveSchemas, Advance
<1>23. CASE \E d \in Deletions : ArchiveFails(d)
  BY <1>23 DEF StandingHasWallet, Standing, Alone, ArchiveFails
<1>24. CASE ExchangeArrives
  BY <1>24 DEF StandingHasWallet, Standing, Alone, ExchangeArrives
<1>25. CASE ExchangesDeleted
  BY <1>25 DEF StandingHasWallet, Standing, Alone, ExchangesDeleted
<1>26. CASE Crash
  BY <1>26 DEF StandingHasWallet, Standing, Alone, Crash, Underway, InDeletion, Pending
<1> QED
  BY <1>0, <1>1, <1>2, <1>3, <1>4, <1>5, <1>6, <1>7, <1>8, <1>9, <1>10, <1>11, <1>12, <1>13,
     <1>14, <1>15, <1>16, <1>17, <1>18, <1>19, <1>20, <1>21, <1>22, <1>23, <1>24, <1>25, <1>26
  DEF Next, AttemptStep, DeletionStep

-----------------------------------------------------------------------------
\* Wallets without a record.

\* It holds before any request.
LEMMA InitLapsedHasCause == Init => LapsedHasCause
BY DEF Init, LapsedHasCause, Lapsed

\* Whoever lapses is excused, doomed or without a wallet, and whoever is doomed
\* no longer has lost the wallet or is excused.
LEMMA NextLapsedHasCause ==
  TypeOK /\ AttemptsConsistent /\ DeletionsConsistent /\ LapsedHasCause
      /\ [Next]_vars => LapsedHasCause'
<1> SUFFICES ASSUME TypeOK, AttemptsConsistent, DeletionsConsistent, LapsedHasCause, [Next]_vars
               PROVE  LapsedHasCause'
  OBVIOUS
<1> USE ConstantsAssumption DEF Wallets
<1> USE DEF database, attempt, deletion, history
<1>0. CASE vars' = vars
  BY <1>0
  DEF TypeOK, AttemptsConsistent, Consistent, DeletionsConsistent, LapsedHasCause, Lapsed,
      Doomed, vars
<1>1. CASE \E b \in Attempts, k \in Kinds : Start(b, k)
  BY <1>1 DEF LapsedHasCause, Lapsed, Doomed, Start, Step
<1>2. CASE \E b \in Attempts : StartFails(b)
  BY <1>2 DEF AttemptsConsistent, Consistent, LapsedHasCause, Lapsed, Doomed, StartFails, Step
<1>3. CASE \E b \in Attempts : CreatePlaceholder(b)
  BY <1>3 DEF LapsedHasCause, Lapsed, Doomed, CreatePlaceholder, Step
<1>4. CASE \E b \in Attempts : \E w \in Agents : AgentHealthy(b, w)
  BY <1>4 DEF AttemptsConsistent, Consistent, LapsedHasCause, Lapsed, Doomed, AgentHealthy, Step
<1>5. CASE \E b \in Attempts : CreateWallet(b)
  BY <1>5 DEF LapsedHasCause, Lapsed, Doomed, CreateWallet, Step
<1>6. CASE \E b \in Attempts : CreateWalletFails(b)
  BY <1>6
  DEF TypeOK, AttemptsConsistent, Consistent, LapsedHasCause, Lapsed, Doomed, CreateWalletFails,
      Step
<1>7. CASE \E b \in Attempts : WriteDid(b)
  BY <1>7 DEF LapsedHasCause, Lapsed, Doomed, WriteDid, Step
<1>8. CASE \E b \in Attempts : WriteDidFails(b)
  BY <1>8 DEF LapsedHasCause, Lapsed, Doomed, WriteDidFails, Step
<1>9. CASE \E b \in Attempts : StoreRecord(b)
  BY <1>9 DEF TypeOK, LapsedHasCause, Lapsed, Doomed, StoreRecord, Step
<1>10. CASE \E b \in Attempts : StoreRefused(b)
  BY <1>10 DEF LapsedHasCause, Lapsed, Doomed, StoreRefused, Step
<1>11. CASE \E b \in Attempts : FinishRecord(b)
  BY <1>11 DEF LapsedHasCause, Lapsed, Doomed, FinishRecord, Step
<1>12. CASE \E b \in Attempts : FinishFails(b)
  BY <1>12 DEF LapsedHasCause, Lapsed, Doomed, FinishFails, Step
<1>13. CASE \E b \in Attempts : Invite(b)
  BY <1>13 DEF LapsedHasCause, Lapsed, Doomed, Invite, Step
<1>14. CASE \E b \in Attempts : Cleanup(b)
  BY <1>14 DEF LapsedHasCause, Lapsed, Doomed, Cleanup, Step
<1>15. CASE \E b \in Attempts : CleanupFails(b)
  BY <1>15 DEF LapsedHasCause, Lapsed, Doomed, CleanupFails, Step
<1>16. CASE \E d \in Deletions : ReadRecord(d)
  BY <1>16 DEF LapsedHasCause, Lapsed, Doomed, ReadRecord, Advance
<1>17. CASE \E d \in Deletions : CountReferences(d)
  BY <1>17 DEF LapsedHasCause, Lapsed, Doomed, CountReferences, Advance
<1>18. CASE \E d \in Deletions : DeletionRefused(d)
  BY <1>18 DEF TypeOK, LapsedHasCause, Lapsed, Doomed, DeletionRefused, Advance
<1>19. CASE \E d \in Deletions : DeleteRecord(d)
  BY <1>19
  DEF TypeOK, AttemptsConsistent, Consistent, LapsedHasCause, Lapsed, Doomed, DeleteRecord,
      Advance
<1>20. CASE \E d \in Deletions : DeleteWallet(d)
  BY <1>20 DEF TypeOK, DeletionsConsistent, LapsedHasCause, Lapsed, Doomed, DeleteWallet, Advance
<1>21. CASE \E d \in Deletions : DeleteWalletFails(d)
  BY <1>21
  DEF TypeOK, AttemptsConsistent, Consistent, DeletionsConsistent, LapsedHasCause, Lapsed,
      Doomed, DeleteWalletFails, Advance
<1>22. CASE \E d \in Deletions : ArchiveSchemas(d)
  BY <1>22 DEF LapsedHasCause, Lapsed, Doomed, ArchiveSchemas, Advance
<1>23. CASE \E d \in Deletions : ArchiveFails(d)
  BY <1>23 DEF LapsedHasCause, Lapsed, Doomed, ArchiveFails, Advance
<1>24. CASE ExchangeArrives
  BY <1>24 DEF LapsedHasCause, Lapsed, Doomed, ExchangeArrives
<1>25. CASE ExchangesDeleted
  BY <1>25 DEF LapsedHasCause, Lapsed, Doomed, ExchangesDeleted
<1>26. CASE Crash
  BY <1>26 DEF LapsedHasCause, Lapsed, Crash, Underway, InDeletion, Pending
<1> QED
  BY <1>0, <1>1, <1>2, <1>3, <1>4, <1>5, <1>6, <1>7, <1>8, <1>9, <1>10, <1>11, <1>12, <1>13,
     <1>14, <1>15, <1>16, <1>17, <1>18, <1>19, <1>20, <1>21, <1>22, <1>23, <1>24, <1>25, <1>26
  DEF Next, AttemptStep, DeletionStep

-----------------------------------------------------------------------------
\* Requests that are over.

\* It holds before any request.
LEMMA InitDoneCompletely == Init => DoneCompletely
BY DEF Init, DoneCompletely

\* Whoever gets to the end uncut has got there by Invite, with everything
\* stored, or by Cleanup, with nothing left.
LEMMA NextDoneCompletely ==
  TypeOK /\ AttemptsConsistent /\ DeletionsConsistent /\ DoneCompletely
      /\ [Next]_vars => DoneCompletely'
<1> SUFFICES ASSUME TypeOK, AttemptsConsistent, DeletionsConsistent, DoneCompletely, [Next]_vars
               PROVE  DoneCompletely'
  OBVIOUS
<1> USE ConstantsAssumption DEF Wallets
<1> USE DEF database, attempt, deletion, history
<1>0. CASE vars' = vars
  BY <1>0  DEF TypeOK, AttemptsConsistent, Consistent, DeletionsConsistent, DoneCompletely, vars
<1>1. CASE \E b \in Attempts, k \in Kinds : Start(b, k)
  BY <1>1 DEF DoneCompletely, Start, Step
<1>2. CASE \E b \in Attempts : StartFails(b)
  BY <1>2 DEF AttemptsConsistent, Consistent, DoneCompletely, StartFails, Step
<1>3. CASE \E b \in Attempts : CreatePlaceholder(b)
  BY <1>3 DEF DoneCompletely, CreatePlaceholder, Step
<1>4. CASE \E b \in Attempts : \E w \in Agents : AgentHealthy(b, w)
  BY <1>4 DEF DoneCompletely, AgentHealthy, Step
<1>5. CASE \E b \in Attempts : CreateWallet(b)
  BY <1>5 DEF DoneCompletely, CreateWallet, Step
<1>6. CASE \E b \in Attempts : CreateWalletFails(b)
  BY <1>6 DEF DoneCompletely, CreateWalletFails, Step
<1>7. CASE \E b \in Attempts : WriteDid(b)
  BY <1>7 DEF DoneCompletely, WriteDid, Step
<1>8. CASE \E b \in Attempts : WriteDidFails(b)
  BY <1>8 DEF DoneCompletely, WriteDidFails, Step
<1>9. CASE \E b \in Attempts : StoreRecord(b)
  BY <1>9 DEF AttemptsConsistent, Consistent, DoneCompletely, StoreRecord, Step
<1>10. CASE \E b \in Attempts : StoreRefused(b)
  BY <1>10 DEF AttemptsConsistent, Consistent, DoneCompletely, StoreRefused, Step
<1>11. CASE \E b \in Attempts : FinishRecord(b)
  BY <1>11 DEF AttemptsConsistent, Consistent, DoneCompletely, FinishRecord, Step
<1>12. CASE \E b \in Attempts : FinishFails(b)
  BY <1>12 DEF DoneCompletely, FinishFails, Step
<1>13. CASE \E b \in Attempts : Invite(b)
  BY <1>13 DEF DoneCompletely, Invite, Step
<1>14. CASE \E b \in Attempts : Cleanup(b)
  BY <1>14 DEF TypeOK, DoneCompletely, Cleanup, Step
<1>15. CASE \E b \in Attempts : CleanupFails(b)
  BY <1>15 DEF DoneCompletely, CleanupFails, Step
<1>16. CASE \E d \in Deletions : ReadRecord(d)
  BY <1>16 DEF DoneCompletely, ReadRecord
<1>17. CASE \E d \in Deletions : CountReferences(d)
  BY <1>17 DEF DoneCompletely, CountReferences
<1>18. CASE \E d \in Deletions : DeletionRefused(d)
  BY <1>18 DEF DoneCompletely, DeletionRefused
<1>19. CASE \E d \in Deletions : DeleteRecord(d)
  BY <1>19 DEF TypeOK, DoneCompletely, DeleteRecord
<1>20. CASE \E d \in Deletions : DeleteWallet(d)
  BY <1>20 DEF DoneCompletely, DeleteWallet
<1>21. CASE \E d \in Deletions : DeleteWalletFails(d)
  BY <1>21 DEF DoneCompletely, DeleteWalletFails
<1>22. CASE \E d \in Deletions : ArchiveSchemas(d)
  BY <1>22 DEF DoneCompletely, ArchiveSchemas
<1>23. CASE \E d \in Deletions : ArchiveFails(d)
  BY <1>23 DEF DoneCompletely, ArchiveFails
<1>24. CASE ExchangeArrives
  BY <1>24 DEF DoneCompletely, ExchangeArrives
<1>25. CASE ExchangesDeleted
  BY <1>25 DEF DoneCompletely, ExchangesDeleted
<1>26. CASE Crash
  BY <1>26 DEF DoneCompletely, Crash, Underway, InDeletion, Pending
<1> QED
  BY <1>0, <1>1, <1>2, <1>3, <1>4, <1>5, <1>6, <1>7, <1>8, <1>9, <1>10, <1>11, <1>12, <1>13,
     <1>14, <1>15, <1>16, <1>17, <1>18, <1>19, <1>20, <1>21, <1>22, <1>23, <1>24, <1>25, <1>26
  DEF Next, AttemptStep, DeletionStep

-----------------------------------------------------------------------------
\* The theorems.

IInv ==
  /\ TypeOK
  /\ AttemptsConsistent
  /\ DeletionsConsistent
  /\ StandingHasWallet
  /\ LapsedHasCause
  /\ DoneCompletely

\* The conjunction is inductive.
LEMMA Inductive == Spec => []IInv
<1>1. Init => IInv
  BY InitTypeOK, InitAttemptsConsistent, InitDeletionsConsistent, InitStandingHasWallet,
     InitLapsedHasCause, InitDoneCompletely DEF IInv
<1>2. IInv /\ [Next]_vars => IInv'
  BY NextTypeOK, NextAttemptsConsistent, NextDeletionsConsistent, NextStandingHasWallet,
     NextLapsedHasCause, NextDoneCompletely DEF IInv
<1> QED
  BY <1>1, <1>2, PTL DEF Spec

\* What org_agents names is alive on its agent (RecordHasWallet): deleteWallet
\* removes the record first, and a removed record never comes back.
THEOREM RecordsHaveWallets == Spec => []RecordHasWallet
<1>1. IInv => RecordHasWallet
  BY DEF IInv, StandingHasWallet, Standing, Alone, RecordHasWallet
<1> QED
  BY <1>1, Inductive, PTL

\* A wallet of the platform without a record has a recorded cause
\* (OrphanHasCause): a lost race, a deletion that had read another row, or a
\* failure.
THEOREM OrphansHaveCauses == Spec => []OrphanHasCause
<1>1. IInv => OrphanHasCause
  <2> SUFFICES ASSUME IInv, NEW a \in Attempts,
                      wallet[a] = "alive", row[a] # "completed", a \notin Underway, ~Doomed(a)
               PROVE  a \in excused
    BY DEF OrphanHasCause
  <2>1. pc[a] = "over"
    BY DEF IInv, AttemptsConsistent, Consistent, Underway
  <2> QED
    BY <2>1 DEF IInv, LapsedHasCause, Lapsed
<1> QED
  BY <1>1, Inductive, PTL

\* A request that is over and was not cut short left nothing half-made
\* (HalfMadeHasCause).
THEOREM NothingHalfMade == Spec => []HalfMadeHasCause
<1>1. IInv => HalfMadeHasCause
  <2> SUFFICES ASSUME IInv, NEW a \in Attempts \ (Underway \cup cut)
               PROVE  /\ row[a] # "placeholder"
                      /\ row[a] = "completed" /\ kind[a] = "shared" => a \in did
    BY DEF HalfMadeHasCause
  <2>1. pc[a] \in {"idle", "over"}
    BY DEF Underway
  <2> QED
    BY <2>1 DEF IInv, AttemptsConsistent, Consistent, DoneCompletely
<1> QED
  BY <1>1, Inductive, PTL

=============================================================================
