------------------------------ MODULE Platform ------------------------------
(***************************************************************************)
(* Organisations, and what the services share for them: how they are made  *)
(* and renamed (OrgCreation, which this module extends), invitations by    *)
(* the list (InvitationBatches), lists that are walked page by page        *)
(* (PagedLists), errors on their way from an agent to the caller           *)
(* (ErrorAnswers), webhooks for notifications (Notifications) and the      *)
(* seed of the database (DatabaseSeed). The components share no state      *)
(* here: a behaviour is one of one of them, chosen at the start.           *)
(***************************************************************************)
EXTENDS OrgCreation, Sequences

CONSTANTS
  Parts,              \* what is run
  Crowd,              \* bound: creations and renamings where something fails
  BatchLists, Lower, Inviter, RoleIds, Roles, Registered, Overlap,  \* of InvitationBatches
  ExactLists,         \* lists whose count rests on what they list,
  RoughLists,         \* and lists whose count does not
  MaxRow, Start, Foreign, Private, Found, Value, States, Sought, Written, Sizes, MaxChanges,  \* of PagedLists
  Statuses, Bodies,   \* of ErrorAnswers
  Orgs, Urls, Lowercase, Registrations, Messages, Unset, MaxLosses,  \* of Notifications
  Master, Agents, Old, Configured, Schemas, CrashAt, MaxCrashes      \* of DatabaseSeed

\* The variables of the other components; those that have a name of
\* OrgCreation's have another one here: `place`, `reply`, `failures`.
VARIABLES part, there, hidden, walk, page, place, got, seen, total, stayed,
          removed, added, changes, op, at, arose, err, wire, reply,
          notification, rpc, entry, mpc, clientCode, webhook, failures,
          quiet, version, rows, ledgers, ledgerConfig, platformUser,
          platformOrg, platformAdmin, stored, pending, ledgerOf, didRows,
          typed, platformUserId, made, crashes, rejected, mailed, list, crossed,
          state, tied
others == <<there, hidden, walk, page, place, got, seen, total, stayed,
             removed, added, changes, op, at, arose, err, wire, reply,
             notification, rpc, entry, mpc, clientCode, webhook, failures,
             quiet, version, rows, ledgers, ledgerConfig, platformUser,
             platformOrg, platformAdmin, stored, pending, ledgerOf, didRows,
             typed, platformUserId, made, crashes, rejected, mailed, list, crossed,
             state, tied>>

-----------------------------------------------------------------------------
Batches == INSTANCE InvitationBatches WITH Lists <- BatchLists, pc <- place, faults <- failures
Exactly == INSTANCE PagedLists WITH Lists <- ExactLists, pc <- place
Roughly == INSTANCE PagedLists WITH Lists <- RoughLists, pc <- place
Errors  == INSTANCE ErrorAnswers WITH answer <- reply
Posts   == INSTANCE Notifications WITH Null <- Unset, MaxFaults <- MaxLosses, faults <- failures
Seed    == INSTANCE DatabaseSeed WITH pc <- place

(* What the constants have to be, those of the components among them.      *)
ASSUME InstancesAssumption ==
  /\ Batches!ConstantsAssumption
  /\ Exactly!ConstantsAssumption
  /\ Roughly!ConstantsAssumption
  /\ Errors!ConstantsAssumption
  /\ Posts!ConstantsAssumption
  /\ Seed!ConstantsAssumption

-----------------------------------------------------------------------------
(* While one component runs, the variables of the others are not there;    *)
(* OrgCreation rests in its initial state.                                 *)
Absent == "absent"

\* Variable v, named n, is absent, or stays, unless it is one of S.
Out(S, n, v)   == IF n \in S THEN TRUE ELSE v = Absent
Still(S, n, v) == IF n \in S THEN TRUE ELSE UNCHANGED v

Only(S) ==
  /\ Out(S, "there", there) /\ Out(S, "hidden", hidden) /\ Out(S, "walk", walk)
  /\ Out(S, "page", page) /\ Out(S, "place", place) /\ Out(S, "got", got) /\ Out(S, "seen", seen)
  /\ Out(S, "total", total) /\ Out(S, "stayed", stayed) /\ Out(S, "removed", removed)
  /\ Out(S, "added", added) /\ Out(S, "changes", changes) /\ Out(S, "op", op)
  /\ Out(S, "at", at) /\ Out(S, "arose", arose) /\ Out(S, "err", err) /\ Out(S, "wire", wire)
  /\ Out(S, "reply", reply) /\ Out(S, "notification", notification) /\ Out(S, "rpc", rpc)
  /\ Out(S, "entry", entry) /\ Out(S, "mpc", mpc) /\ Out(S, "clientCode", clientCode)
  /\ Out(S, "webhook", webhook) /\ Out(S, "failures", failures) /\ Out(S, "quiet", quiet) /\ Out(S, "version", version)
  /\ Out(S, "rows", rows) /\ Out(S, "ledgers", ledgers) /\ Out(S, "ledgerConfig", ledgerConfig)
  /\ Out(S, "platformUser", platformUser) /\ Out(S, "platformOrg", platformOrg)
  /\ Out(S, "platformAdmin", platformAdmin) /\ Out(S, "stored", stored) /\ Out(S, "pending", pending)
  /\ Out(S, "ledgerOf", ledgerOf) /\ Out(S, "didRows", didRows) /\ Out(S, "typed", typed)
  /\ Out(S, "platformUserId", platformUserId) /\ Out(S, "made", made)
  /\ Out(S, "crashes", crashes) /\ Out(S, "rejected", rejected)
  /\ Out(S, "mailed", mailed) /\ Out(S, "list", list) /\ Out(S, "crossed", crossed)
  /\ Out(S, "state", state) /\ Out(S, "tied", tied)

Around(S) ==
  /\ Still(S, "there", there) /\ Still(S, "hidden", hidden) /\ Still(S, "walk", walk)
  /\ Still(S, "page", page) /\ Still(S, "place", place) /\ Still(S, "got", got)
  /\ Still(S, "seen", seen) /\ Still(S, "total", total) /\ Still(S, "stayed", stayed)
  /\ Still(S, "removed", removed) /\ Still(S, "added", added) /\ Still(S, "changes", changes)
  /\ Still(S, "op", op) /\ Still(S, "at", at) /\ Still(S, "arose", arose)
  /\ Still(S, "err", err) /\ Still(S, "wire", wire) /\ Still(S, "reply", reply)
  /\ Still(S, "notification", notification) /\ Still(S, "rpc", rpc) /\ Still(S, "entry", entry)
  /\ Still(S, "mpc", mpc) /\ Still(S, "clientCode", clientCode) /\ Still(S, "webhook", webhook)
  /\ Still(S, "failures", failures) /\ Still(S, "quiet", quiet) /\ Still(S, "version", version) /\ Still(S, "rows", rows)
  /\ Still(S, "ledgers", ledgers) /\ Still(S, "ledgerConfig", ledgerConfig)
  /\ Still(S, "platformUser", platformUser) /\ Still(S, "platformOrg", platformOrg)
  /\ Still(S, "platformAdmin", platformAdmin) /\ Still(S, "stored", stored) /\ Still(S, "pending", pending)
  /\ Still(S, "ledgerOf", ledgerOf) /\ Still(S, "didRows", didRows) /\ Still(S, "typed", typed)
  /\ Still(S, "platformUserId", platformUserId) /\ Still(S, "made", made)
  /\ Still(S, "crashes", crashes) /\ Still(S, "rejected", rejected)
  /\ Still(S, "mailed", mailed) /\ Still(S, "list", list) /\ Still(S, "crossed", crossed)
  /\ Still(S, "state", state) /\ Still(S, "tied", tied)

OfPages == {"there", "hidden", "walk", "page", "place", "got", "seen", "total", "stayed",
  "removed", "added", "changes", "state", "tied"}
OfErrors == {"op", "at", "arose", "err", "wire", "reply"}
OfPosts == {"notification", "rpc", "entry", "mpc", "clientCode", "webhook",
  "got", "failures"}
OfSeed == {"quiet", "version", "rows", "ledgers", "ledgerConfig", "platformUser", "platformOrg",
  "platformAdmin", "stored", "pending", "ledgerOf", "didRows", "typed", "place",
  "platformUserId", "made", "crashes"}
OfBatches == {"rows", "rejected", "mailed", "place", "list", "at", "crossed", "failures"}

PlatformInit ==
  /\ part \in Parts
  /\ Init
  /\ \/ part = "organisations" /\ Only({})
     \/ part = "batches" /\ Only(OfBatches) /\ Batches!Init
     \/ part = "exact" /\ Only(OfPages) /\ Exactly!Init
     \/ part = "rough" /\ Only(OfPages) /\ Roughly!Init
     \/ part = "errors" /\ Only(OfErrors) /\ Errors!Init
     \/ part = "posts" /\ Only(OfPosts) /\ Posts!Init
     \/ part = "seed" /\ Only(OfSeed) /\ Seed!Init

\* Any number of requests without a failure, or some with failures.
Within == faults = 0 \/ Cardinality({r \in Requests : pc[r] # "idle"}) <= Crowd

OthersNext ==
  \/ part = "batches" /\ Batches!Next /\ Around(OfBatches)
  \/ part = "exact" /\ Exactly!Next /\ Around(OfPages)
  \/ part = "rough" /\ Roughly!Next /\ Around(OfPages)
  \/ part = "errors" /\ Errors!Next /\ Around(OfErrors)
  \/ part = "posts" /\ Posts!Next /\ Around(OfPosts)
  \/ part = "seed" /\ Seed!Next /\ Around(OfSeed)

PlatformNext ==
  /\ UNCHANGED part
  /\ \/ part = "organisations" /\ Next /\ Within' /\ UNCHANGED others
     \/ OthersNext /\ UNCHANGED vars

PlatformSpec == PlatformInit /\ [][PlatformNext]_<<vars, others, part>>

-----------------------------------------------------------------------------
\* What is sent arrives once, where it should. Whoever is on a list of
\* invitations that went through is invited once, with roles there are, and gets
\* the mail, though lists end half way, name an address twice and are sent
\* again. A webhook registered with success stays in force and is the only place
\* where the notifications of its organisation arrive.
DeliveriesKept ==
  /\ part = "batches" =>
       /\ Batches!TypeOK /\ Batches!OneOpen /\ Batches!CreatedIsInvited
       /\ Batches!CreatedIsMailed /\ Batches!RolesThere
  /\ part = "posts" =>
       Posts!TypeOK /\ Posts!RegisteredInForce /\ Posts!SentHasArrived /\ Posts!ArrivesAtItsOwn

\* A client that walks through a list sorted by any field sees each row once, but
\* for as many as came, went or were moved by a webhook meanwhile. Rows alike in
\* that field may stand in for one another, in a quiet walk as often as there are
\* of them, and the total it is told is then what it is shown.
PagesKept ==
  /\ part = "exact" =>
       /\ Exactly!TypeOK /\ Exactly!MissesOnlyForRemoved
       /\ Exactly!RepeatsOnlyForAdded /\ Exactly!AlikeStandIn /\ Exactly!TotalIsShown
  /\ part = "rough" =>
       /\ Roughly!MissesOnlyForRemoved /\ Roughly!RepeatsOnlyForAdded
       /\ Roughly!AlikeStandIn

\* The status an error ends with at the caller is the one it began with, and
\* reasons arrive, through two services and the filters, but for the causes
\* ErrorAnswers names.
ErrorsKept ==
  part = "errors" =>
    Errors!TypeOK /\ Errors!AnswerHasOrigin /\ Errors!ReasonTold /\ Errors!RefusalTold

\* A seed that ends well leaves the master data whole and no DID with two rows,
\* though earlier runs ended half way and a version before it was seeded.
SeedKept ==
  part = "seed" =>
    /\ Seed!TypeOK /\ Seed!MasterComplete /\ Seed!LedgersAreMaster
    /\ Seed!OneDidRow /\ Seed!DidsMigrated

\* A seed that finds the ledgers of its version leaves the ledger an agent is on
\* alone.
LedgersStay == [][part = "seed" => Seed!LedgerRefStays]_<<vars, others, part>>
=============================================================================
