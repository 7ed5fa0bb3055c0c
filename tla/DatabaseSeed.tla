----------------------------- MODULE DatabaseSeed -----------------------------
(***************************************************************************)
(* The seed of the database, run with every deployment, next to a          *)
(* platform that may be up. It brings the tables to the master data of     *)
(* the version deployed and migrates what older versions have left, in     *)
(* fourteen steps without a transaction around them; a step that fails     *)
(* ends the run, and the next run begins at the first step again.          *)
(***************************************************************************)
EXTENDS Naturals, Sequences, FiniteSets

CONSTANTS
  Master,      \* master data of the versions: table -> rows
  Agents,      \* agents of organisations
  Old,         \* those from before org_dids and its rows
  Configured,  \* those run by the organisation: stored without a DID document
  Schemas,     \* schemas from before schemas had a type
  CrashAt,     \* bound: steps at which a run may end
  MaxCrashes   \* bound

Null == <<"null", 0>>   \* no ledger, in the shape of a row

(* The steps of main(), each with the one after it; two of them have a     *)
(* moment between a deleteMany and the createMany that follows it.         *)
Steps ==
  [config |-> "roles", roles |-> "agentTypes", agentTypes |-> "user", user |-> "organization",
   organization |-> "adminRole", adminRole |-> "orgAgentTypes", orgAgentTypes |-> "ledgers",
   ledgers |-> "ledgerConfig", ledgerConfig |-> "userRoles", userRoles |-> "dids",
   dids |-> "types", types |-> "geo", geo |-> "clients", clients |-> "done"]
After(step) == Steps[step]
Gaps  == {"ledgersGone", "ledgerConfigGone"}
Tables == {"config", "roles", "agentTypes", "orgAgentTypes", "userRoles"}

(* What the constants have to be; the suites assume it of their instances. *)
ConstantsAssumption ==
  /\ Len(Master) \in Nat \ {0}
  /\ \A v \in 1..Len(Master) : \A t \in Tables \cup {"ledgers", "ledgerConfig"} : Master[v][t] # {}
  /\ \A v \in 1..Len(Master) : IsFiniteSet(Master[v]["ledgers"])
  /\ IsFiniteSet(Agents) /\ Old \cup Configured \subseteq Agents
  /\ MaxCrashes \in Nat /\ CrashAt \subseteq DOMAIN Steps \cup Gaps

VARIABLES
  quiet,           \* the platform is stopped whenever a seed runs
  version,         \* the version deployed
  rows,            \* table -> its rows
  ledgers,         \* rows of ledgers: <<name, the run that made it>>
  ledgerConfig,
  platformUser, platformOrg, platformAdmin,  \* user, organisation and the role that joins them
  stored,          \* agents with a row in org_agents
  pending,         \* those of them whose DID the platform has yet to store
  ledgerOf,        \* agent -> the ledger its row refers to
  didRows,         \* rows of org_dids: <<agent, who has written the row>>
  typed,           \* old schemas that have a type
  pc,              \* the step the seed is at
  platformUserId,  \* the run knows the user it has made
  made,            \* times ledgers were made
  crashes

tables == <<rows, ledgers, ledgerConfig, platformUser, platformOrg, platformAdmin, typed>>
agents == <<stored, pending, ledgerOf, didRows>>
vars   == <<quiet, version, tables, agents, pc, platformUserId, made, crashes>>

Init ==
  /\ quiet \in BOOLEAN
  /\ version = 1
  /\ rows = [t \in Tables |-> {}]
  /\ ledgers = {} /\ ledgerConfig = {}
  /\ platformUser = FALSE /\ platformOrg = FALSE /\ platformAdmin = FALSE
  /\ stored = Old /\ pending = {}
  /\ ledgerOf = [a \in Agents |-> Null]
  /\ didRows = {}
  /\ typed = {}
  /\ pc = "idle"
  /\ platformUserId = FALSE
  /\ made = 0 /\ crashes = 0

Running == pc \notin {"idle", "failed", "done"}
Data    == Master[version]

-----------------------------------------------------------------------------
(* A run begins, ends early, and is repeated; a version is deployed.       *)

main ==
  /\ ~Running
  /\ quiet => pending = {}
  /\ pc' = "config"
  /\ platformUserId' = FALSE
  /\ UNCHANGED <<quiet, version, tables, agents, made, crashes>>

\* Wrong on purpose: a run that fails ends like one that went well.
EndsWell ==
  /\ pc \in CrashAt /\ crashes < MaxCrashes
  /\ crashes' = crashes + 1
  /\ pc' = "done"
  /\ UNCHANGED <<quiet, version, tables, agents, platformUserId, made>>

Crash ==
  /\ pc \in CrashAt /\ crashes < MaxCrashes
  /\ crashes' = crashes + 1
  /\ pc' = "failed"
  /\ UNCHANGED <<quiet, version, tables, agents, platformUserId, made>>

Deploy ==
  /\ pc = "done" /\ version < Len(Master)
  /\ version' = version + 1
  /\ pc' = "idle"
  /\ UNCHANGED <<quiet, tables, agents, platformUserId, made, crashes>>

-----------------------------------------------------------------------------
(* Master data.                                                            *)

(* Any row keeps the configuration, a row of the same name the others.     *)
Existing(t) == IF t = "config" THEN rows[t] ELSE rows[t] \cap Data[t]

CreateMasterRows(t) ==
  /\ pc = t
  /\ rows' = IF Existing(t) = {} THEN [rows EXCEPT ![t] = @ \cup Data[t]] ELSE rows
  /\ pc' = After(t)
  /\ UNCHANGED <<quiet, version, ledgers, ledgerConfig, platformUser, platformOrg, platformAdmin, typed,
                 agents, platformUserId, made, crashes>>

(* Only the run that makes the user learns its id.                         *)
createPlatformUser ==
  /\ pc = "user"
  /\ platformUser' = TRUE
  /\ platformUserId' = ~platformUser
  /\ pc' = After("user")
  /\ UNCHANGED <<quiet, version, rows, ledgers, ledgerConfig, platformOrg, platformAdmin, typed,
                 agents, made, crashes>>

createPlatformOrganization ==
  /\ pc = "organization"
  /\ platformOrg \/ platformUserId
  /\ platformOrg' = TRUE
  /\ pc' = After("organization")
  /\ UNCHANGED <<quiet, version, rows, ledgers, ledgerConfig, platformUser, platformAdmin, typed,
                 agents, platformUserId, made, crashes>>

(* createdBy is no UUID.                                                   *)
OrganizationFails ==
  /\ pc = "organization"
  /\ ~platformOrg /\ ~platformUserId
  /\ pc' = "failed"
  /\ UNCHANGED <<quiet, version, tables, agents, platformUserId, made, crashes>>

(* The role would be given if there were neither user nor organisation.    *)
createPlatformUserOrgRoles ==
  /\ pc = "adminRole"
  /\ platformAdmin' = (platformAdmin \/ (~platformUser /\ ~platformOrg /\ rows["roles"] = {}))
  /\ pc' = After("adminRole")
  /\ UNCHANGED <<quiet, version, rows, ledgers, ledgerConfig, platformUser, platformOrg, typed,
                 agents, platformUserId, made, crashes>>

-----------------------------------------------------------------------------
(* Ledgers and their configuration are made anew when they differ.         *)

\* Wrong on purpose: the run after the first makes them anew.
AnewOnce == made < 2

LedgersDiffer == Cardinality(ledgers) # Cardinality(Data["ledgers"])

LedgersKept ==
  /\ pc = "ledgers" /\ ledgers # {} /\ ~LedgersDiffer
  /\ pc' = After("ledgers")
  /\ UNCHANGED <<quiet, version, tables, agents, platformUserId, made, crashes>>

(* ON DELETE SET NULL for the agents of that ledger.                       *)
LedgersDeleted ==
  /\ pc = "ledgers" /\ ledgers # {} /\ LedgersDiffer
  /\ ledgers' = {}
  /\ ledgerOf' = [a \in Agents |-> Null]
  /\ pc' = "ledgersGone"
  /\ UNCHANGED <<quiet, version, rows, ledgerConfig, platformUser, platformOrg, platformAdmin, typed,
                 stored, pending, didRows, platformUserId, made, crashes>>

LedgersMade ==
  /\ pc = "ledgersGone" \/ (pc = "ledgers" /\ ledgers = {})
  /\ ledgers' = {<<n, made + 1>> : n \in Data["ledgers"]}
  /\ made' = made + 1
  /\ pc' = After("ledgers")
  /\ UNCHANGED <<quiet, version, rows, ledgerConfig, platformUser, platformOrg, platformAdmin, typed,
                 agents, platformUserId, crashes>>

checkDataIsEqual == ledgerConfig = Data["ledgerConfig"]

ConfigDeleted ==
  /\ pc = "ledgerConfig" /\ ledgerConfig # {} /\ ~checkDataIsEqual
  /\ ledgerConfig' = {}
  /\ pc' = "ledgerConfigGone"
  /\ UNCHANGED <<quiet, version, rows, ledgers, platformUser, platformOrg, platformAdmin, typed,
                 agents, platformUserId, made, crashes>>

ConfigMade ==
  /\ pc = "ledgerConfigGone" \/ (pc = "ledgerConfig" /\ (ledgerConfig = {} \/ checkDataIsEqual))
  /\ ledgerConfig' = Data["ledgerConfig"]
  /\ pc' = After("ledgerConfig")
  /\ UNCHANGED <<quiet, version, rows, ledgers, platformUser, platformOrg, platformAdmin, typed,
                 agents, platformUserId, made, crashes>>

-----------------------------------------------------------------------------
(* What older versions have left.                                          *)

HasRow(a) == \E row \in didRows : row[1] = a
ToMigrate == {a \in stored : ~HasRow(a)}

(* The DIDs of the agents and the rows found for them are counted.         *)
DidsDiffer == Cardinality(stored) # Cardinality({row \in didRows : row[1] \in stored})

migrateOrgAgentDids ==
  /\ pc = "dids"
  /\ DidsDiffer => ToMigrate \cap Configured = {}
  /\ didRows' = IF DidsDiffer THEN didRows \cup (ToMigrate \X {"seed"}) ELSE didRows
  /\ pc' = After("dids")
  /\ UNCHANGED <<quiet, version, tables, stored, pending, ledgerOf, platformUserId, made, crashes>>

(* The document of a DID may not be null.                                  *)
MigrationFails ==
  /\ pc = "dids"
  /\ DidsDiffer /\ ToMigrate \cap Configured # {}
  /\ pc' = "failed"
  /\ UNCHANGED <<quiet, version, tables, agents, platformUserId, made, crashes>>

TypeAdded(s) ==
  /\ pc = "types" /\ s \notin typed
  /\ typed' = typed \cup {s}
  /\ UNCHANGED <<quiet, version, rows, ledgers, ledgerConfig, platformUser, platformOrg, platformAdmin,
                 agents, pc, platformUserId, made, crashes>>

addSchemaType ==
  /\ pc = "types" /\ typed = Schemas
  /\ pc' = After("types")
  /\ UNCHANGED <<quiet, version, tables, agents, platformUserId, made, crashes>>

(* Two scripts on tables of their own.                                     *)
RunScript(step) ==
  /\ pc = step
  /\ pc' = After(step)
  /\ UNCHANGED <<quiet, version, tables, agents, platformUserId, made, crashes>>

-----------------------------------------------------------------------------
(* The platform: an agent is stored, and its DID after it.                 *)

InUse == quiet => ~Running

AgentStored(a) ==
  /\ InUse /\ a \notin stored
  /\ stored' = stored \cup {a}
  /\ pending' = pending \cup ({a} \ Configured)
  /\ \E l \in IF a \in Configured THEN {Null} ELSE ledgers : ledgerOf' = [ledgerOf EXCEPT ![a] = l]
  /\ UNCHANGED <<quiet, version, tables, didRows, pc, platformUserId, made, crashes>>

DidStored(a) ==
  /\ InUse /\ a \in pending
  /\ didRows' = didRows \cup {<<a, "platform">>}
  /\ pending' = pending \ {a}
  /\ UNCHANGED <<quiet, version, tables, stored, ledgerOf, pc, platformUserId, made, crashes>>

Platform == \E a \in Agents : AgentStored(a) \/ DidStored(a)

-----------------------------------------------------------------------------
Step ==
  \/ \E t \in Tables : CreateMasterRows(t)
  \/ createPlatformUser \/ createPlatformOrganization \/ OrganizationFails
  \/ createPlatformUserOrgRoles
  \/ LedgersKept \/ LedgersDeleted \/ LedgersMade
  \/ ConfigDeleted \/ ConfigMade
  \/ migrateOrgAgentDids \/ MigrationFails
  \/ \E s \in Schemas : TypeAdded(s)
  \/ addSchemaType
  \/ \E step \in {"geo", "clients"} : RunScript(step)

Next == main \/ Crash \/ Deploy \/ Step \/ Platform

(* A run that has begun goes on; a run that failed is repeated by whoever  *)
(* deploys; the platform finishes what it has begun.                       *)
Fairness ==
  /\ WF_vars(Step)
  /\ WF_vars(pc # "done" /\ main)
  /\ \A a \in Agents : WF_vars(DidStored(a))

Spec == Init /\ [][Next]_vars /\ Fairness

-----------------------------------------------------------------------------
TypeOK ==
  /\ version \in 1..Len(Master)
  /\ DOMAIN rows = Tables
  /\ {quiet, platformUser, platformOrg, platformAdmin, platformUserId} \subseteq BOOLEAN
  /\ stored \subseteq Agents /\ pending \subseteq stored /\ typed \subseteq Schemas
  /\ \A a \in Agents : ledgerOf[a] \in {Null} \cup ledgers
  /\ didRows \subseteq stored \X {"seed", "platform"}

(* When a seed has ended well, every row of the master data is there       *)
(* (seed.ts 16-121, 302-330): the code of the version counts on each role. *)
(* It is claimed of tables that all versions seed alike.                   *)
Lasting == {t \in Tables : \A v \in 1..Len(Master) : Master[v][t] = Data[t]}

MasterComplete == pc = "done" => \A t \in Lasting : Data[t] \subseteq rows[t]

(* When a seed has ended well, the ledgers are those of the master data,   *)
(* even if a run before it ended between delete and create (223-300). It   *)
(* is claimed where versions with as many ledgers have the same.           *)
CountTells ==
  \A v \in 1..Len(Master) :
    Cardinality(Master[v]["ledgers"]) = Cardinality(Data["ledgers"])
      => Master[v]["ledgers"] = Data["ledgers"]

LedgersAreMaster ==
  pc = "done" =>
    /\ CountTells => {l[1] : l \in ledgers} = Data["ledgers"]
    /\ ledgerConfig = Data["ledgerConfig"]

(* A seed of the ledgers that are there leaves the one an agent is on      *)
(* alone (seed.ts 240).                                                    *)
LedgerRefStays ==
  {l[1] : l \in ledgers} = Data["ledgers"] =>
    \A a \in Agents : ledgerOf[a] # Null => ledgerOf'[a] = ledgerOf[a]

(* No DID gets a second row, however often the seed is run (332-383), if   *)
(* the platform does not store it at the same time.                        *)
OneDidRow == quiet => \A row, other \in didRows : row[1] = other[1] => row = other

(* When a seed has ended well, the DID of every agent has its row.         *)
DidsMigrated == quiet /\ pc = "done" => \A a \in stored \ (pending \cup Configured) : HasRow(a)

=============================================================================
