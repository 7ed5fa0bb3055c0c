--------------------------- MODULE LedgerObjects ---------------------------
(***************************************************************************)
(* Schemas and credential definitions: createSchema and                    *)
(* createCredentialDefinition of the ledger service first write on the     *)
(* ledger (or on the schema file server) through the organisation's agent  *)
(* and then in the database, which has no unique key for either. A look    *)
(* at the stored names comes before each of the two writes. The issuer is  *)
(* a DID the caller names, or the one of the agent's row, which may change *)
(* (OrgDids). Meanwhile the organisation's wallet may be deleted, and the  *)
(* schemas archived that were issued by the DID its row had when the       *)
(* deletion began.                                                         *)
(***************************************************************************)
EXTENDS Integers, Sequences, FiniteSets, TLC

CONSTANTS
  Orgs, Names, Dids,
  HeldBy,     \* the DIDs an organisation's wallet holds the keys of
  FirstDid,   \* the one in its row in org_agents at first
  None,       \* no DID
  Trim,       \* a name without the blanks around it
  Holds,      \* the stored names that contain a name as it was asked for
  Requests,
  KindOf,     \* "indy" and "w3c" schemas, "credDef"
  OrgOf,
  NameOf,     \* the name (with version) or the tag of a request as it was sent
  DraftOf,    \* the attributes of a schema
  MayName,    \* the DIDs a request may name for its issuer, or none
  SchemaOf,   \* for a credential definition, the ledger's id of its schema
  MaxFaults   \* bound: calls that fail

Attributes == [name : {"a", "b"}, shown : {"A", "B"}, required : BOOLEAN]

(* What the constants have to be; the suites assume it of their instances. *)
ConstantsAssumption ==
  /\ Trim \in [Names -> Names]
  /\ Holds \in [Names -> SUBSET Names]
  /\ \A n \in Names : Trim[Trim[n]] = Trim[n] /\ Trim[n] \in Holds[Trim[n]]
  /\ KindOf \in [Requests -> {"indy", "w3c", "credDef"}]
  /\ OrgOf \in [Requests -> Orgs] /\ NameOf \in [Requests -> Names]
  /\ \A q \in Requests : DraftOf[q] \in Seq(Attributes)
  /\ HeldBy \in [Orgs -> SUBSET Dids] /\ \A o \in Orgs : FirstDid[o] \in HeldBy[o]
  /\ \A o, p \in Orgs : o # p => HeldBy[o] \intersect HeldBy[p] = {}
  /\ None \notin Dids /\ MayName \in [Requests -> SUBSET (Dids \union {None})]
  /\ MaxFaults \in Nat

VARIABLES
  ledger,     \* what has been written on the ledger and the file server
  rows,       \* the record a request has stored
  agent,      \* the DID in an organisation's row in org_agents, if it has one
  leaving,    \* the DID the deletion of its wallet has read
  issuer,     \* the DID a request names, and then the one it issues by
  pc, answer,
  archived,   \* DIDs whose schemas were archived
  overlapped, \* pairs of requests that looked for the last time before either had stored
  blind,      \* requests whose look at the stored tags failed unnoticed
  inTime,     \* requests that had found the wallet when it was deleted
  faults

requests == <<issuer, pc, answer>>
history  == <<overlapped, blind, inTime, faults>>
vars     == <<ledger, rows, agent, leaving, requests, archived, history>>

NoRow == [id |-> "none"]

Init ==
  /\ ledger = {} /\ agent = FirstDid /\ archived = {}
  /\ leaving = [o \in Orgs |-> None]
  /\ issuer = [q \in Requests |-> None]
  /\ rows = [q \in Requests |-> NoRow]
  /\ pc = [q \in Requests |-> "idle"]
  /\ answer = [q \in Requests |-> "none"]
  /\ overlapped = {} /\ blind = {} /\ inTime = {}
  /\ faults = 0

-----------------------------------------------------------------------------
IsSchema(q) == KindOf[q] # "credDef"

\* An Indy ledger names an object after its issuer and its own name; the file
\* server gets a new uuid with every upload.
LedgerId(q) ==
  CASE KindOf[q] = "indy"    -> <<"schema", issuer[q], Trim[NameOf[q]]>>
    [] KindOf[q] = "w3c"     -> <<"file", q>>
    [] KindOf[q] = "credDef" -> <<"credDef", issuer[q], SchemaOf[q], Trim[NameOf[q]]>>

Stored == {q \in Requests : rows[q] # NoRow}

\* schemaExists: live Indy schemas whose name contains this one.
SchemasLike(name) ==
  {r \in Stored : KindOf[r] = "indy" /\ ~rows[r].archived /\ rows[r].name \in Holds[name]}

\* getByAttribute: definitions of the schema whose tag contains this one.
TagsLike(q) ==
  {r \in Stored : /\ KindOf[r] = "credDef"
                  /\ SchemaOf[r] = SchemaOf[q]
                  /\ rows[r].name \in Holds[Trim[NameOf[q]]]}

Distinct(s)      == \A i, j \in DOMAIN s : i # j => s[i] # s[j]
NamesOf(draft)   == [i \in DOMAIN draft |-> draft[i].name]
LabelsOf(draft)  == [i \in DOMAIN draft |-> draft[i].shown]
WellFormed(draft) == draft # <<>> /\ Distinct(NamesOf(draft)) /\ Distinct(LabelsOf(draft))
SomeRequired(draft) == \E i \in DOMAIN draft : draft[i].required

Move(q, from, to) == pc[q] = from /\ pc' = [pc EXCEPT ![q] = to]
Say(q, from, what) == Move(q, from, "over") /\ answer' = [answer EXCEPT ![q] = what]
Calm == UNCHANGED <<agent, leaving, issuer, archived, history>>
Idle == UNCHANGED <<ledger, rows>> /\ Calm

Wallet(q) == agent[OrgOf[q]]

-----------------------------------------------------------------------------
Ask(q, to) ==
  /\ Move(q, "idle", to)
  /\ \E d \in MayName[q] : issuer' = [issuer EXCEPT ![q] = d]
  /\ UNCHANGED <<ledger, rows, agent, leaving, answer, archived, history>>

AskSchema(q)  == IsSchema(q) /\ Ask(q, IF KindOf[q] = "indy" THEN "look" ELSE "agent")
AskCredDef(q) == ~IsSchema(q) /\ Ask(q, "agent")

\* The name is looked for as it was sent: it is trimmed only afterwards.
LookAround(q) ==
  /\ IF SchemasLike(NameOf[q]) # {}
     THEN Say(q, "look", "conflict")
     ELSE Move(q, "look", "agent") /\ WellFormed(DraftOf[q]) /\ UNCHANGED answer
  /\ Idle

RejectDraft(q) ==
  /\ pc[q] = "look" /\ SchemasLike(NameOf[q]) = {}
  /\ ~WellFormed(DraftOf[q])
  /\ Say(q, "look", "failed")
  /\ Idle

\* The issuer: for a W3C schema always the DID of the row.
ReadAgent(q) ==
  /\ Wallet(q) # None
  /\ Move(q, "agent", IF IsSchema(q) THEN "type" ELSE "look")
  /\ issuer' = [issuer EXCEPT ![q] = IF KindOf[q] = "w3c" \/ @ = None THEN Wallet(q) ELSE @]
  /\ UNCHANGED <<ledger, rows, agent, leaving, answer, archived, history>>

\* The tag is trimmed before it is looked for.
LookForTag(q) ==
  /\ ~IsSchema(q)
  /\ IF TagsLike(q) # {}
     THEN Say(q, "look", "conflict")
     ELSE Move(q, "look", "type") /\ UNCHANGED answer
  /\ Idle

\* getByAttribute logs its error and returns nothing, like a look that found nothing.
LookInVain(q, from, to) ==
  /\ ~IsSchema(q) /\ faults < MaxFaults
  /\ Move(q, from, to)
  /\ faults' = faults + 1
  /\ blind' = blind \union {q}
  /\ UNCHANGED <<ledger, rows, agent, leaving, issuer, answer, archived, overlapped, inTime>>

\* The type of the wallet, and once more its tenant.
ReadType(q) ==
  /\ Wallet(q) # None
  /\ KindOf[q] = "indy" => SomeRequired(DraftOf[q])
  /\ Move(q, "type", "write")
  /\ UNCHANGED answer /\ Idle

Unfit(q) ==
  /\ \/ pc[q] \in {"agent", "type"} /\ Wallet(q) = None
     \/ pc[q] = "type" /\ KindOf[q] = "indy" /\ ~SomeRequired(DraftOf[q])
  /\ Say(q, pc[q], "failed")
  /\ Idle

\* The wallet has to hold the issuer's keys, and the ledger to know the schema.
CanWrite(q) ==
  /\ issuer[q] \in HeldBy[OrgOf[q]]
  /\ ~IsSchema(q) => SchemaOf[q] \in ledger

\* The agent writes, or finds what it would write on the ledger already.
WriteOnLedger(q) ==
  /\ pc[q] = "write" /\ CanWrite(q)
  /\ Move(q, "write", "resolve")
  /\ ledger' = ledger \union {LedgerId(q)}
  /\ UNCHANGED <<rows, answer>> /\ Calm

\* The wallet is gone, or the ledger has the name already.
AgentRefuses(q) ==
  /\ pc[q] = "write"
  /\ ~CanWrite(q) \/ Wallet(q) = None \/ LedgerId(q) \in ledger
  /\ Say(q, "write", "failed")
  /\ Idle

\* The ledger of the DID, the uploaded file, or the record of the schema.
Resolve(q) ==
  /\ pc[q] = "resolve"
  /\ IsSchema(q) \/ \E r \in Stored : rows[r].id = SchemaOf[q]
  /\ Move(q, "resolve", "again")
  /\ UNCHANGED answer /\ Idle

NoSchemaRecord(q) ==
  /\ pc[q] = "resolve" /\ ~IsSchema(q)
  /\ \A r \in Stored : rows[r].id # SchemaOf[q]
  /\ Say(q, "resolve", "failed")
  /\ Idle

\* Wrong on purpose: what is stored is not looked at again.
StoreBlindly(q) ==
  /\ Move(q, "again", "save") /\ UNCHANGED answer /\ Idle

\* saveSchema throws a conflict; saveCredentialDefinition returns nothing, on
\* which its caller then fails.
LookAgain(q) ==
  /\ CASE IsSchema(q) /\ SchemasLike(Trim[NameOf[q]]) # {} -> Say(q, "again", "conflict")
       [] ~IsSchema(q) /\ TagsLike(q) # {}                 -> Say(q, "again", "failed")
       [] OTHER -> Move(q, "again", "save") /\ UNCHANGED answer
  /\ Idle

SchemaRow(q) ==
  [id |-> LedgerId(q), name |-> Trim[NameOf[q]], issuer |-> issuer[q], archived |-> FALSE]

CredDefRows(q) ==
  {[id |-> LedgerId(q), name |-> Trim[NameOf[q]], schema |-> r] :
     r \in {s \in Stored : rows[s].id = SchemaOf[q]}}

Store(q) ==
  /\ \E row \in (IF IsSchema(q) THEN {SchemaRow(q)} ELSE CredDefRows(q)) :
       rows' = [rows EXCEPT ![q] = row]
  /\ overlapped' = overlapped \union {{q, r} : r \in {s \in Requests \ {q} : pc[s] = "save"}}
  /\ UNCHANGED <<ledger, agent, leaving, issuer, archived, blind, inTime>>

Save(q) == pc[q] = "save" /\ Store(q) /\ Say(q, "save", "ok") /\ UNCHANGED faults

\* A call fails; what it was to write may have been written.
CallFails(q) ==
  /\ pc[q] \notin {"idle", "over"}
  /\ faults < MaxFaults
  /\ faults' = faults + 1
  /\ Say(q, pc[q], "failed")
  /\ \/ UNCHANGED <<ledger, rows, agent, leaving, issuer, archived, overlapped, blind, inTime>>
     \/ /\ pc[q] = "write" /\ CanWrite(q)
        /\ ledger' = ledger \union {LedgerId(q)}
        /\ UNCHANGED <<rows, agent, leaving, issuer, archived, overlapped, blind, inTime>>
     \/ pc[q] = "save" /\ Store(q)

-----------------------------------------------------------------------------
\* Another of its DIDs becomes the organisation's primary one (OrgDids).
SetPrimaryDid(o, d) ==
  /\ agent[o] # None /\ d \in HeldBy[o] \ {agent[o]}
  /\ agent' = [agent EXCEPT ![o] = d]
  /\ UNCHANGED <<ledger, rows, leaving, requests, archived, history>>

\* deleteWallet of the agent service reads the row, removes it, and asks for the
\* archive with what it has read.
ReadWallet(o) ==
  /\ agent[o] # None /\ leaving[o] = None
  /\ leaving' = [leaving EXCEPT ![o] = agent[o]]
  /\ UNCHANGED <<ledger, rows, agent, requests, archived, history>>

DeleteWallet(o) ==
  /\ agent[o] # None /\ leaving[o] # None
  /\ agent' = [agent EXCEPT ![o] = None]
  /\ inTime' = inTime \union {q \in Requests : OrgOf[q] = o /\ pc[q] \in {"write", "resolve", "again", "save"}}
  /\ UNCHANGED <<ledger, rows, leaving, requests, archived, overlapped, blind, faults>>

\* Whoever's schemas they are.
ArchiveSchemas(did) ==
  /\ \E o \in Orgs : agent[o] = None /\ leaving[o] = did
  /\ did \in Dids \ archived
  /\ archived' = archived \union {did}
  /\ rows' = [q \in Requests |-> IF q \in Stored /\ IsSchema(q) /\ rows[q].issuer = did
                                 THEN [rows[q] EXCEPT !.archived = TRUE] ELSE rows[q]]
  /\ UNCHANGED <<ledger, agent, leaving, requests, history>>

-----------------------------------------------------------------------------
Serve(q) ==
  \/ LookAround(q) /\ IsSchema(q)
  \/ RejectDraft(q) /\ IsSchema(q)
  \/ ReadAgent(q) \/ LookForTag(q) \/ ReadType(q) \/ Unfit(q)
  \/ WriteOnLedger(q) \/ AgentRefuses(q)
  \/ Resolve(q) \/ NoSchemaRecord(q) \/ LookAgain(q) \/ Save(q)

Next ==
  \/ \E q \in Requests :
       \/ AskSchema(q) \/ AskCredDef(q)
       \/ Serve(q)
       \/ LookInVain(q, "look", "type") \/ LookInVain(q, "again", "save")
       \/ CallFails(q)
  \/ \E o \in Orgs :
       \/ \E did \in Dids : SetPrimaryDid(o, did)
       \/ ReadWallet(o) \/ DeleteWallet(o)
  \/ \E did \in Dids : ArchiveSchemas(did)

\* A request that was taken up is carried on with; the agent answers.
Fairness == \A q \in Requests : WF_vars(Serve(q))

Spec == Init /\ [][Next]_vars /\ Fairness

-----------------------------------------------------------------------------
Live(q) == q \in Stored /\ (IsSchema(q) => ~rows[q].archived)

\* Every variable has its type.
TypeOK ==
  /\ ledger \subseteq {LedgerId(q) : q \in Requests}
  /\ \A q \in Stored : rows[q].id = LedgerId(q)
  /\ agent \in [Orgs -> Dids \union {None}] /\ leaving \in [Orgs -> Dids \union {None}]
  /\ issuer \in [Requests -> Dids \union {None}] /\ archived \subseteq Dids
  /\ pc \in [Requests -> {"idle", "look", "agent", "type", "write", "resolve", "again", "save", "over"}]
  /\ answer \in [Requests -> {"none", "ok", "conflict", "failed"}]
  /\ faults \in 0..MaxFaults

\* Two live records of the same kind have the same name only when their requests
\* looked for the last time before either had stored, or one could not look: the
\* two checks around the ledger write keep all others apart.
RecordsApart ==
  \A q, r \in Requests :
    /\ q # r /\ Live(q) /\ Live(r) /\ rows[q].name = rows[r].name
    /\ \/ KindOf[q] = "indy" /\ KindOf[r] = "indy"
       \/ ~IsSchema(q) /\ ~IsSchema(r) /\ SchemaOf[q] = SchemaOf[r]
    => \/ {q, r} \in overlapped
       \/ q \in blind \/ r \in blind

\* Whoever is told that an object was created finds it on the ledger and in the
\* database, and the record of a credential definition points to a record of the
\* schema it was made from on the ledger.
CreatedIsThere ==
  \A q \in Requests : answer[q] = "ok" =>
    /\ q \in Stored /\ LedgerId(q) \in ledger
    /\ ~IsSchema(q) => rows[rows[q].schema].id = SchemaOf[q]

\* When a wallet has been deleted and the schemas issued by the DID the deletion
\* had read are archived, the live schemas of its organisation were stored by
\* requests that had found the wallet in time, or issued by another DID: one the
\* caller named, or the primary one of another time. Nobody else's are archived.
ArchivedWithWallet ==
  \A q \in Stored : IsSchema(q) =>
    LET did == leaving[OrgOf[q]]
    IN /\ did \in archived /\ Live(q) => q \in inTime \/ rows[q].issuer # did
       /\ rows[q].archived => agent[OrgOf[q]] = None

=============================================================================
