------------------------------ MODULE SpinupEvents -----------------------------
(***************************************************************************)
(* What the client that asks for a wallet is told over its socket. The     *)
(* agent service answers the request early and goes on by itself; each     *)
(* step is told to the socket gateway, which passes it on to the client    *)
(* whose id the event carries. Events of one connection arrive in order,   *)
(* and a provision opens several.                                          *)
(***************************************************************************)
EXTENDS Naturals, SequencesExt

CONSTANTS
  Provisions,     \* requests for a wallet, each with the socket of a client
  MaxLosses,      \* bound: events lost with a connection
  MaxCrashes      \* bound: restarts of the agent service

(* What the constants have to be; the suites assume it of their instances. *)
ConstantsAssumption == MaxLosses \in Nat /\ MaxCrashes \in Nat

(* The six steps, numbered as the guide of the frontend numbers them.      *)
Initiated == 1
Completed == 2
DidInitiated == 3
DidCompleted == 4
InvitationStarted == 5
InvitationSuccess == 6
Error == 7
Events == 1..7
Connections == {"request", "spinup", "admin", "tenant", "completed", "started", "success", "error"}

VARIABLES
  kind,      \* "dedicated": an agent of its own; "shared": a tenant of the platform's
  pc,        \* of each provision: the step it is at
  wire,      \* events on their way: <<event, connection>>, as they were sent
  seen,      \* what the client has been told, in its order
  row,       \* org_agents: "none", "processed", "completed"
  written,   \* the DID is on the ledger
  invited,   \* the connection invitation of the organisation exists
  losses, crashes

vars == <<kind, pc, wire, seen, row, written, invited, losses, crashes>>

Init ==
  /\ kind \in [Provisions -> {"dedicated", "shared"}]
  /\ pc = [p \in Provisions |-> "idle"]
  /\ wire = [p \in Provisions |-> <<>>]
  /\ seen = [p \in Provisions |-> <<>>]
  /\ row = [p \in Provisions |-> "none"]
  /\ written = [p \in Provisions |-> FALSE]
  /\ invited = [p \in Provisions |-> FALSE]
  /\ losses = 0 /\ crashes = 0

Goes(p, at, next) == pc[p] = at /\ pc' = [pc EXCEPT ![p] = next]
Emit(p, conn, events) ==
  wire' = [wire EXCEPT ![p] = @ \o [i \in DOMAIN events |-> <<events[i], conn>>]]
Tell(p, at, next, conn, events) == Goes(p, at, next) /\ Emit(p, conn, events)
Sets(table, p, value) == table' = [table EXCEPT ![p] = value]

-----------------------------------------------------------------------------
(* A dedicated agent: what walletProvision does before it answers.         *)
walletProvision(p) ==
  /\ kind[p] = "dedicated"
  /\ Tell(p, "idle", "row", "request", <<Initiated>>)
  /\ UNCHANGED <<kind, seen, row, written, invited, losses, crashes>>

(* No configuration of the platform, or a query that fails: an HTTP error. *)
validatePlatformConfig(p) ==
  /\ kind[p] = "dedicated"
  /\ Goes(p, "idle", "refused")
  /\ UNCHANGED <<kind, wire, seen, row, written, invited, losses, crashes>>

createOrgAgent(p) ==
  /\ kind[p] = "dedicated"
  /\ Goes(p, "row", "wallet")
  /\ Sets(row, p, "processed")
  /\ UNCHANGED <<kind, wire, seen, written, invited, losses, crashes>>

(* The handler looks at a record of its own that is never set: the request *)
(* is answered with the error and no event is sent.                        *)
handleErrorOnWalletProvision(p) ==
  /\ Goes(p, "row", "refused")
  /\ UNCHANGED <<kind, wire, seen, row, written, invited, losses, crashes>>

(* The container runs; three events on a second connection.                *)
agentSpinup(p) ==
  /\ kind[p] = "dedicated"
  /\ Tell(p, "wallet", "did", "spinup", <<Completed, DidInitiated, InvitationStarted>>)
  /\ UNCHANGED <<kind, seen, row, written, invited, losses, crashes>>

getAgentDid(p) ==
  /\ Goes(p, "did", "store")
  /\ Sets(written, p, TRUE)
  /\ UNCHANGED <<kind, wire, seen, row, invited, losses, crashes>>

storeOrgAgentDetails(p) ==
  /\ Tell(p, "store", "invite", "spinup", <<DidCompleted>>)
  /\ Sets(row, p, "completed")
  /\ UNCHANGED <<kind, seen, written, invited, losses, crashes>>

-----------------------------------------------------------------------------
(* A shared agent: createTenant answers, and _createTenant runs on.        *)
createTenant(p) ==
  /\ kind[p] = "shared"
  /\ Goes(p, "idle", "tenantRow")
  /\ UNCHANGED <<kind, wire, seen, row, written, invited, losses, crashes>>

getPlatformAdminAndNotify(p) ==
  /\ Tell(p, "tenantRow", "tenant", "admin", <<Initiated>>)
  /\ Sets(row, p, "processed")
  /\ UNCHANGED <<kind, seen, written, invited, losses, crashes>>

createTenantAndNotify(p) ==
  /\ Tell(p, "tenant", "tenantWallet", "tenant", <<Initiated>>)
  /\ UNCHANGED <<kind, seen, row, written, invited, losses, crashes>>

createTenantWallet(p) ==
  /\ Tell(p, "tenantWallet", "tenantDid", "tenant", <<DidInitiated>>)
  /\ UNCHANGED <<kind, seen, row, written, invited, losses, crashes>>

\* Wrong on purpose: the client is told before the agent has answered.
ToldBeforeTheAnswer(p) ==
  /\ Tell(p, "tenantDid", "details", "tenant", <<DidCompleted>>)
  /\ UNCHANGED <<kind, seen, row, written, invited, losses, crashes>>

createDID(p) ==
  /\ Tell(p, "tenantDid", "details", "tenant", <<DidCompleted>>)
  /\ Sets(written, p, TRUE)
  /\ UNCHANGED <<kind, seen, row, invited, losses, crashes>>

(* The organisation is read, the agent is said to be complete.             *)
notifyCompleted(p) ==
  /\ Tell(p, "details", "tenantStore", "completed", <<Completed>>)
  /\ UNCHANGED <<kind, seen, row, written, invited, losses, crashes>>

storeTenantDetails(p) ==
  /\ Goes(p, "tenantStore", "didRow")
  /\ Sets(row, p, "completed")
  /\ UNCHANGED <<kind, wire, seen, written, invited, losses, crashes>>

storeDidDetails(p) ==
  /\ Tell(p, "didRow", "invite", "started", <<InvitationStarted>>)
  /\ UNCHANGED <<kind, seen, row, written, invited, losses, crashes>>

-----------------------------------------------------------------------------
(* The invitation is asked of the connection service.  Its failure is      *)
(* logged and forgotten, so the last event follows either way.             *)
createConnectionInvitation(p) ==
  /\ Tell(p, "invite", "done", IF kind[p] = "shared" THEN "success" ELSE "spinup", <<InvitationSuccess>>)
  /\ \E made \in BOOLEAN : Sets(invited, p, made)
  /\ UNCHANGED <<kind, seen, row, written, losses, crashes>>

Running == {"wallet", "did", "store", "tenantRow", "tenant", "tenantWallet", "tenantDid",
            "details", "tenantStore", "didRow", "invite"}

(* _storeOrgAgentDetails tells its failure itself and throws it on.        *)
ErrorsOf(p) ==
  IF kind[p] = "shared" THEN <<<<Error, "error">>>>
  ELSE IF pc[p] \in {"did", "store"} THEN <<<<Error, "error">>, <<Error, "request">>>>
  ELSE <<<<Error, "request">>>>

\* Wrong on purpose: the error is kept to the log, as in walletProvision.
LoggedOnly(p) ==
  /\ pc[p] \in Running
  /\ Goes(p, pc[p], "failed")
  /\ Sets(row, p, "none")
  /\ UNCHANGED <<kind, wire, seen, written, invited, losses, crashes>>

(* Any await of the two may fail, and the record of the agent is removed   *)
(* if that does not fail too.  The invitation is the exception, but the    *)
(* read of the organisation before it fails a dedicated one.  What an      *)
(* agent was asked for may have been done.                                 *)
handleError(p) ==
  /\ pc[p] \in Running \ (IF kind[p] = "shared" THEN {"invite"} ELSE {})
  /\ Goes(p, pc[p], "failed")
  /\ wire' = [wire EXCEPT ![p] = @ \o ErrorsOf(p)]
  /\ row' \in {row, [row EXCEPT ![p] = "none"]}
  /\ \/ UNCHANGED written
     \/ pc[p] \in {"did", "tenantDid"} /\ Sets(written, p, TRUE)
  /\ UNCHANGED <<kind, seen, invited, losses, crashes>>

-----------------------------------------------------------------------------
(* Entry i is the next of its connection.                                  *)
Heads(p) == {i \in DOMAIN wire[p] : \A j \in 1..(i - 1) : wire[p][j][2] # wire[p][i][2]}

(* The gateway passes an event on to the client it names.                  *)
Deliver(p) ==
  \E i \in Heads(p) :
    /\ seen' = [seen EXCEPT ![p] = Append(@, wire[p][i][1])]
    /\ wire' = [wire EXCEPT ![p] = RemoveAt(@, i)]
    /\ UNCHANGED <<kind, pc, row, written, invited, losses, crashes>>

(* An event that was sent when its connection broke is not sent again.     *)
Lose(p) ==
  \E i \in Heads(p) :
    /\ losses < MaxLosses /\ losses' = losses + 1
    /\ wire' = [wire EXCEPT ![p] = RemoveAt(@, i)]
    /\ UNCHANGED <<kind, pc, seen, row, written, invited, crashes>>

(* The agent service restarts: what runs and what is not sent yet is gone. *)
Crash ==
  /\ crashes < MaxCrashes /\ crashes' = crashes + 1
  /\ pc' = [p \in Provisions |-> IF pc[p] \in Running \cup {"row"} THEN "lost" ELSE pc[p]]
  /\ wire' = [p \in Provisions |-> <<>>]
  /\ UNCHANGED <<kind, seen, row, written, invited, losses>>

Work(p) ==
  \/ walletProvision(p) \/ createOrgAgent(p) \/ agentSpinup(p)
  \/ getAgentDid(p) \/ storeOrgAgentDetails(p)
  \/ createTenant(p) \/ getPlatformAdminAndNotify(p) \/ createTenantAndNotify(p)
  \/ createTenantWallet(p) \/ createDID(p) \/ notifyCompleted(p)
  \/ storeTenantDetails(p) \/ storeDidDetails(p)
  \/ createConnectionInvitation(p)

Fails(p) == validatePlatformConfig(p) \/ handleErrorOnWalletProvision(p) \/ handleError(p)

Next ==
  \/ \E p \in Provisions : Work(p) \/ Fails(p) \/ Deliver(p) \/ Lose(p)
  \/ Crash

Spec == Init /\ [][Next]_vars

(* Every call is answered or fails, and the gateway takes what is sent.    *)
FairSpec ==
  /\ Spec
  /\ \A p \in Provisions : WF_vars(Work(p) \/ Fails(p)) /\ WF_vars(Deliver(p))

-----------------------------------------------------------------------------
TypeOK ==
  /\ kind \in [Provisions -> {"dedicated", "shared"}]
  /\ pc \in [Provisions -> Running \cup {"idle", "row", "done", "failed", "refused", "lost"}]
  /\ wire \in [Provisions -> Seq(Events \X Connections)]
  /\ seen \in [Provisions -> Seq(Events)]
  /\ \A p \in Provisions : Len(wire[p]) + Len(seen[p]) <= 7
  /\ row \in [Provisions -> {"none", "processed", "completed"}]
  /\ written \in [Provisions -> BOOLEAN] /\ invited \in [Provisions -> BOOLEAN]
  /\ losses \in 0..MaxLosses /\ crashes \in 0..MaxCrashes

Told(p)   == ToSet(seen[p])
Coming(p) == {wire[p][i][1] : i \in DOMAIN wire[p]}

(* No client is told both that its wallet is made and that it failed,      *)
(* though the two come over different connections (agent-service.service   *)
(* 573 and 584, 905 and 907).                                              *)
OneOutcome == \A p \in Provisions : ~({InvitationSuccess, Error} \subseteq Told(p) \cup Coming(p))

(* Whoever is told that the DID is published finds it on the ledger (566,  *)
(* 1182).                                                                  *)
DidToldIsWritten == \A p \in Provisions : DidCompleted \in Told(p) => written[p]

(* Whoever is told the last step has an agent that the platform knows      *)
(* about (549-573, 887-905).                                               *)
SuccessIsStored == \A p \in Provisions : InvitationSuccess \in Told(p) => row[p] = "completed"

(* How a provision ends without a restart and a broken connection: with    *)
(* the last step or the error told, or answered with an error.             *)
OutcomeTold(p) == pc[p] = "refused" \/ {InvitationSuccess, Error} \cap Told(p) # {}
================================================================================
