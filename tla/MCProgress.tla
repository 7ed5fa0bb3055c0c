---------------------------- MODULE MCProgress ----------------------------
(***************************************************************************)
(* What must happen in the end: requests are answered, outcomes told,      *)
(* seeds done, and of requests that compete one wins. Each component that  *)
(* promises this is a small instance, under the fairness its module        *)
(* states; the instances share no state, and a behaviour is one of one of  *)
(* them, chosen at the start.                                              *)
(***************************************************************************)
EXTENDS Integers, Sequences, FiniteSets, TLC

CONSTANT Parts   \* the instances that are run

VARIABLES part, status, terms, rows, registered, clients, mapped, pc, job,
          left, sound, onTheWay, joined, torn, drifted, contested, rushed,
          faults, org, roles, answer, stranded, times, wallets,
          invitations, at, asked, todo, row, url, key, did, made, sent,
          done, moved, tenants, base, wallet, kind, wire, seen, written,
          invited, losses, crashes, portFile, container, endpoint, token,
          alive, working, port, refused, referenced, archived, home, dpc,
          target, excused, cut, progress, hooked, outcome, attempts, heard,
          unseen, crossed, wiped, wipes, reported, broken, envelope,
          posted, link, ledger, agent, overlapped, blind, inTime, there,
          hidden, walk, page, got, total, stayed, removed, added, changes,
          version, ledgers, ledgerConfig, platformUser, platformOrg,
          platformAdmin, quiet, stored, pending, ledgerOf, didRows, typed,
          platformUserId, held, unstarted, state, tied,
          leaving, issuer
vars == <<part, status, terms, rows, registered, clients, mapped, pc, job,
           left, sound, onTheWay, joined, torn, drifted, contested, rushed,
           faults, org, roles, answer, stranded, times, wallets,
           invitations, at, asked, todo, row, url, key, did, made, sent,
           done, moved, tenants, base, wallet, kind, wire, seen, written,
           invited, losses, crashes, portFile, container, endpoint, token,
           alive, working, port, refused, referenced, archived, home, dpc,
           target, excused, cut, progress, hooked, outcome, attempts,
           heard, unseen, crossed, wiped, wipes, reported, broken,
           envelope, posted, link, ledger, agent, overlapped, blind,
           inTime, there, hidden, walk, page, got, total, stayed, removed,
           added, changes, version, ledgers, ledgerConfig, platformUser,
           platformOrg, platformAdmin, quiet, stored, pending, ledgerOf,
           didRows, typed, platformUserId,
           held, unstarted, state, tied,
           leaving, issuer>>

\* Two requests of any kind, for an organisation or for roles in it.
SlugOf == "a" :> "ab" @@ "b" :> "ab"

\* The platform's organisation has an agent of its own, another one a shared
\* wallet; any operation that needs it.
Made(type, a) == [type |-> type, agent |-> a]
Setup == "p" :> Made("dedicated", "A") @@ "o1" :> Made("shared", "A")
AnyOp == {"c1" :> [op |-> o, org |-> "o1", role |-> "owner", reuse |-> TRUE] :
  o \in {"connections", "connection", "questions", "question", "message", "receiveUrl",
    "receive", "invite", "proof", "verified", "request", "verify", "oob", "issued", "schema",
    "credDef", "createCredDef", "health", "sign", "signature"}}

\* A base wallet, a wallet made from it and a call for it.
a1 == "a1"
Req(o, u) == [op |-> o, user |-> u, agent |-> a1, key |-> [of |-> a1]]
OneBase == "c1" :> Req("configure", "admin") @@ "c2" :> Req("create", "ann") @@ "c3" :> Req("createDid", "ann")

\* Provisions of three names.
Three == {"p1", "p2", "p3"}
Apart == [p \in Three |-> p]

\* A connection whose events are sent again; offers and proofs by mail.
Link == "link" :> "connection"
Sent == "a" :> "oobMail" @@ "b" :> "proofMail"
Many == "a" :> 2 @@ "b" :> 2

\* A schema that may be refused and a definition on it.
SchemaNames == {"card", "id card"}
Trimmed == [n \in SchemaNames |-> n]
Holding == [n \in SchemaNames |-> IF n = "card" THEN SchemaNames ELSE {"id card"}]
Draft(r) == <<[name |-> "a", shown |-> "A", required |-> r]>>
Kinds  == "q1" :> "indy" @@ "q2" :> "indy" @@ "q3" :> "credDef"
Asked  == "q1" :> "id card" @@ "q2" :> "card" @@ "q3" :> "card"
Card == <<"schema", "d1", "id card">>
Drafts == "q1" :> Draft(TRUE) @@ "q2" :> Draft(FALSE) @@ "q3" :> Draft(TRUE)

\* Three or four rows in pages, in any order; two of them may have one state.
InFields == "created" :> [r \in 1..4 |-> r] @@ "id" :> [r \in 1..4 |-> (r * 3) % 7]
         @@ "name" :> [r \in 1..4 |-> 1]
InState == [r \in 1..4 |-> 1]
Lists == {"orgSchemas", "files", "credentials"}

\* Two versions of the master data; a run may end anywhere but after the user.
SeedData == {"config", "roles", "agentTypes", "orgAgentTypes", "userRoles", "ledgers", "ledgerConfig"}
First  == [t \in SeedData |-> IF t = "ledgers" THEN {"testnet", "demonet"} ELSE {"first"}]
Second == [First EXCEPT !["ledgers"] = @ \union {"polygon"}, !["ledgerConfig"] = {"second"}]
NotThere == {"config", "roles", "agentTypes", "user", "adminRole", "orgAgentTypes", "ledgers",
  "ledgersGone", "ledgerConfig", "ledgerConfigGone", "userRoles", "dids", "types", "geo", "clients"}

-----------------------------------------------------------------------------
Granted == INSTANCE OrgMembership WITH Users <- {"founder", "u1"},
  Founder <- "founder", Orgs <- {"o1"}, Roles <- {"owner", "member"},
  Owner <- "owner", Invitations <- {"i1"}, Requests <- {"q1", "q2"},
  Limit <- 2, Offered <- {"accept", "reject", "unregister"}, MaxFaults <- 1
Creations == INSTANCE OrgCreation WITH Users <- {"u1"},
  Names <- {"a", "b"}, Slugs <- {"ab"}, SlugOf <- SlugOf,
  Ids <- {"o1", "o2"}, Requests <- {"q1", "q2"}, Limit <- 2, MaxFaults <- 1
Race == INSTANCE AgentProvisioning WITH Attempts <- {"x1", "x2"},
  Deletions <- {}, Agents <- {"x"}, MaxFaults <- 0
Calling == INSTANCE AgentCalls WITH Orgs <- {"p", "o1"}, Platform <- "p",
  Agents <- {"A", "B"}, Setup <- Setup, Calls <- {"c1"}, Plans <- AnyOp,
  Movers <- {"o1"}, MaxMoves <- 1, MaxFaults <- 0
CloudCalls == INSTANCE CloudWallet WITH Users <- {"admin", "ann"},
  Agents <- {a1}, Calls <- DOMAIN OneBase, Plans <- {OneBase},
  Holders <- {"ann"}, MaxFaults <- 1
Creating == INSTANCE LedgerObjects WITH Orgs <- {"o1"},
  Requests <- DOMAIN Kinds, Names <- SchemaNames, Trim <- Trimmed,
  Holds <- Holding, SchemaOf <- [q \in DOMAIN Kinds |-> Card],
  Dids <- {"d1", "x"}, HeldBy <- "o1" :> {"d1"}, FirstDid <- "o1" :> "d1",
  None <- "none", MayName <- [q \in DOMAIN Kinds |-> {"none", "x"}],
  KindOf <- Kinds, OrgOf <- [q \in DOMAIN Kinds |-> "o1"], NameOf <- Asked,
  DraftOf <- Drafts, MaxFaults <- 0
Offering == INSTANCE Offers WITH Batches <- DOMAIN Sent, KindOf <- Sent,
  Asked <- Many, MaxFaults <- 1
Answering == INSTANCE AgentPorts WITH Provisions <- Three, NameOf <- Apart,
  Gap <- 3, Overlap <- 1, MaxFaults <- 0
Telling == INSTANCE SpinupEvents WITH Provisions <- {"p1"}, MaxLosses <- 0,
  MaxCrashes <- 0
Reporting == INSTANCE ExchangeRecords WITH Exchanges <- DOMAIN Link,
  KindOf <- Link, LastState <- 2, Naming <- {1}, Retries <- 2,
  MaxFaults <- 0, MaxWipes <- 1
Walking == INSTANCE PagedLists WITH Lists <- Lists, MaxRow <- 4,
  Start <- 1..3, Foreign <- {2}, Private <- {3}, Found <- {1, 3, 4},
  Value <- InFields, States <- {1, 2}, Sought <- {1}, Written <- InState,
  Sizes <- {2}, MaxChanges <- 1
Seeding == INSTANCE DatabaseSeed WITH Master <- <<First, Second>>,
  Agents <- {"a1", "a2"}, Old <- {"a1"}, Configured <- {},
  Schemas <- {"s1", "s2"}, CrashAt <- NotThere, MaxCrashes <- 2

ASSUME ConstantsAssumption ==
  /\ Granted!ConstantsAssumption
  /\ Creations!ConstantsAssumption
  /\ Race!ConstantsAssumption
  /\ Calling!ConstantsAssumption
  /\ CloudCalls!ConstantsAssumption
  /\ Creating!ConstantsAssumption
  /\ Offering!ConstantsAssumption
  /\ Answering!ConstantsAssumption
  /\ Telling!ConstantsAssumption
  /\ Reporting!ConstantsAssumption
  /\ Walking!ConstantsAssumption
  /\ Seeding!ConstantsAssumption

-----------------------------------------------------------------------------
(* While one component runs, the variables of the others are not there.    *)
Absent == "absent"

\* Variable v, named n, is absent, or stays, unless it is one of S.
Out(S, n, v)   == IF n \in S THEN TRUE ELSE v = Absent
Still(S, n, v) == IF n \in S THEN TRUE ELSE UNCHANGED v

Only(S) ==
  /\ Out(S, "status", status) /\ Out(S, "terms", terms) /\ Out(S, "rows", rows)
  /\ Out(S, "registered", registered) /\ Out(S, "clients", clients) /\ Out(S, "mapped", mapped)
  /\ Out(S, "pc", pc) /\ Out(S, "job", job) /\ Out(S, "left", left) /\ Out(S, "sound", sound)
  /\ Out(S, "onTheWay", onTheWay) /\ Out(S, "joined", joined) /\ Out(S, "torn", torn)
  /\ Out(S, "drifted", drifted) /\ Out(S, "contested", contested) /\ Out(S, "rushed", rushed)
  /\ Out(S, "faults", faults) /\ Out(S, "org", org) /\ Out(S, "roles", roles)
  /\ Out(S, "answer", answer) /\ Out(S, "stranded", stranded) /\ Out(S, "times", times)
  /\ Out(S, "wallets", wallets) /\ Out(S, "invitations", invitations) /\ Out(S, "at", at)
  /\ Out(S, "asked", asked) /\ Out(S, "todo", todo) /\ Out(S, "row", row) /\ Out(S, "url", url)
  /\ Out(S, "key", key) /\ Out(S, "did", did) /\ Out(S, "made", made) /\ Out(S, "sent", sent)
  /\ Out(S, "done", done) /\ Out(S, "moved", moved) /\ Out(S, "tenants", tenants)
  /\ Out(S, "base", base) /\ Out(S, "wallet", wallet) /\ Out(S, "kind", kind)
  /\ Out(S, "wire", wire) /\ Out(S, "seen", seen) /\ Out(S, "written", written)
  /\ Out(S, "invited", invited) /\ Out(S, "losses", losses) /\ Out(S, "crashes", crashes)
  /\ Out(S, "portFile", portFile) /\ Out(S, "container", container)
  /\ Out(S, "endpoint", endpoint) /\ Out(S, "token", token) /\ Out(S, "alive", alive)
  /\ Out(S, "working", working) /\ Out(S, "port", port) /\ Out(S, "refused", refused)
  /\ Out(S, "referenced", referenced) /\ Out(S, "archived", archived) /\ Out(S, "home", home)
  /\ Out(S, "dpc", dpc) /\ Out(S, "target", target) /\ Out(S, "excused", excused)
  /\ Out(S, "cut", cut) /\ Out(S, "progress", progress) /\ Out(S, "hooked", hooked)
  /\ Out(S, "outcome", outcome) /\ Out(S, "attempts", attempts) /\ Out(S, "heard", heard)
  /\ Out(S, "unseen", unseen) /\ Out(S, "crossed", crossed) /\ Out(S, "wiped", wiped)
  /\ Out(S, "wipes", wipes) /\ Out(S, "reported", reported) /\ Out(S, "broken", broken)
  /\ Out(S, "envelope", envelope) /\ Out(S, "posted", posted) /\ Out(S, "link", link)
  /\ Out(S, "ledger", ledger) /\ Out(S, "agent", agent) /\ Out(S, "overlapped", overlapped)
  /\ Out(S, "blind", blind) /\ Out(S, "inTime", inTime) /\ Out(S, "there", there)
  /\ Out(S, "hidden", hidden) /\ Out(S, "walk", walk) /\ Out(S, "page", page)
  /\ Out(S, "got", got) /\ Out(S, "total", total) /\ Out(S, "stayed", stayed)
  /\ Out(S, "removed", removed) /\ Out(S, "added", added) /\ Out(S, "changes", changes)
  /\ Out(S, "version", version) /\ Out(S, "ledgers", ledgers)
  /\ Out(S, "ledgerConfig", ledgerConfig) /\ Out(S, "platformUser", platformUser)
  /\ Out(S, "platformOrg", platformOrg) /\ Out(S, "platformAdmin", platformAdmin)
  /\ Out(S, "stored", stored) /\ Out(S, "ledgerOf", ledgerOf) /\ Out(S, "didRows", didRows)
  /\ Out(S, "typed", typed) /\ Out(S, "platformUserId", platformUserId)
  /\ Out(S, "quiet", quiet) /\ Out(S, "pending", pending)
  /\ Out(S, "held", held) /\ Out(S, "unstarted", unstarted)
  /\ Out(S, "state", state) /\ Out(S, "tied", tied)
  /\ Out(S, "leaving", leaving) /\ Out(S, "issuer", issuer)

Around(S) ==
  /\ Still(S, "status", status) /\ Still(S, "terms", terms) /\ Still(S, "rows", rows)
  /\ Still(S, "registered", registered) /\ Still(S, "clients", clients)
  /\ Still(S, "mapped", mapped) /\ Still(S, "pc", pc) /\ Still(S, "job", job)
  /\ Still(S, "left", left) /\ Still(S, "sound", sound) /\ Still(S, "onTheWay", onTheWay)
  /\ Still(S, "joined", joined) /\ Still(S, "torn", torn) /\ Still(S, "drifted", drifted)
  /\ Still(S, "contested", contested) /\ Still(S, "rushed", rushed)
  /\ Still(S, "faults", faults) /\ Still(S, "org", org) /\ Still(S, "roles", roles)
  /\ Still(S, "answer", answer) /\ Still(S, "stranded", stranded) /\ Still(S, "times", times)
  /\ Still(S, "wallets", wallets) /\ Still(S, "invitations", invitations) /\ Still(S, "at", at)
  /\ Still(S, "asked", asked) /\ Still(S, "todo", todo) /\ Still(S, "row", row)
  /\ Still(S, "url", url) /\ Still(S, "key", key) /\ Still(S, "did", did)
  /\ Still(S, "made", made) /\ Still(S, "sent", sent) /\ Still(S, "done", done)
  /\ Still(S, "moved", moved) /\ Still(S, "tenants", tenants) /\ Still(S, "base", base)
  /\ Still(S, "wallet", wallet) /\ Still(S, "kind", kind) /\ Still(S, "wire", wire)
  /\ Still(S, "seen", seen) /\ Still(S, "written", written) /\ Still(S, "invited", invited)
  /\ Still(S, "losses", losses) /\ Still(S, "crashes", crashes)
  /\ Still(S, "portFile", portFile) /\ Still(S, "container", container)
  /\ Still(S, "endpoint", endpoint) /\ Still(S, "token", token) /\ Still(S, "alive", alive)
  /\ Still(S, "working", working) /\ Still(S, "port", port) /\ Still(S, "refused", refused)
  /\ Still(S, "referenced", referenced) /\ Still(S, "archived", archived)
  /\ Still(S, "home", home) /\ Still(S, "dpc", dpc) /\ Still(S, "target", target)
  /\ Still(S, "excused", excused) /\ Still(S, "cut", cut) /\ Still(S, "progress", progress)
  /\ Still(S, "hooked", hooked) /\ Still(S, "outcome", outcome)
  /\ Still(S, "attempts", attempts) /\ Still(S, "heard", heard) /\ Still(S, "unseen", unseen)
  /\ Still(S, "crossed", crossed) /\ Still(S, "wiped", wiped) /\ Still(S, "wipes", wipes)
  /\ Still(S, "reported", reported) /\ Still(S, "broken", broken)
  /\ Still(S, "envelope", envelope) /\ Still(S, "posted", posted) /\ Still(S, "link", link)
  /\ Still(S, "ledger", ledger) /\ Still(S, "agent", agent)
  /\ Still(S, "overlapped", overlapped) /\ Still(S, "blind", blind)
  /\ Still(S, "inTime", inTime) /\ Still(S, "there", there) /\ Still(S, "hidden", hidden)
  /\ Still(S, "walk", walk) /\ Still(S, "page", page) /\ Still(S, "got", got)
  /\ Still(S, "total", total) /\ Still(S, "stayed", stayed) /\ Still(S, "removed", removed)
  /\ Still(S, "added", added) /\ Still(S, "changes", changes) /\ Still(S, "version", version)
  /\ Still(S, "ledgers", ledgers) /\ Still(S, "ledgerConfig", ledgerConfig)
  /\ Still(S, "platformUser", platformUser) /\ Still(S, "platformOrg", platformOrg)
  /\ Still(S, "platformAdmin", platformAdmin) /\ Still(S, "stored", stored)
  /\ Still(S, "ledgerOf", ledgerOf) /\ Still(S, "didRows", didRows) /\ Still(S, "typed", typed)
  /\ Still(S, "platformUserId", platformUserId) /\ Still(S, "quiet", quiet)
  /\ Still(S, "pending", pending) /\ Still(S, "held", held)
  /\ Still(S, "unstarted", unstarted)
  /\ Still(S, "state", state) /\ Still(S, "tied", tied)
  /\ Still(S, "leaving", leaving) /\ Still(S, "issuer", issuer)

OfMembership == {"status", "terms", "rows", "registered", "clients", "mapped", "pc",
  "job", "left", "sound", "onTheWay", "joined", "torn", "drifted", "contested", "rushed",
  "faults"}
OfCreation == {"org", "roles", "clients", "mapped", "pc", "job", "left", "answer",
  "stranded", "rushed", "faults"}
OfCalls == {"rows", "times", "wallets", "invitations", "at", "asked", "todo", "row",
  "url", "key", "did", "made", "sent", "done", "moved", "held", "faults"}
OfCloud == {"asked", "rows", "tenants", "done", "at", "base", "wallet", "made", "sent",
  "faults"}
OfSpinup == {"kind", "pc", "wire", "seen", "row", "written", "invited", "losses",
  "crashes"}
OfPorts == {"portFile", "container", "endpoint", "token", "alive", "pc", "working",
  "port", "seen", "answer", "refused", "unstarted", "crossed", "faults"}
OfRace == {"row", "did", "referenced", "archived", "wallet", "pc", "kind", "home", "dpc",
  "target", "excused", "cut", "faults"}
OfExchanges == {"progress", "row", "hooked", "pc", "outcome", "attempts", "heard",
  "unseen", "crossed", "wiped", "faults", "wipes"}
OfOffers == {"pc", "at", "made", "reported", "broken", "envelope", "posted", "link",
  "answer", "faults"}
OfObjects == {"ledger", "rows", "agent", "leaving", "issuer", "pc", "answer",
  "archived", "overlapped", "blind", "inTime", "faults"}
OfPages == {"there", "hidden", "walk", "page", "pc", "got", "seen", "total", "stayed",
  "removed", "added", "changes", "state", "tied"}
OfSeed == {"quiet", "version", "rows", "ledgers", "ledgerConfig", "platformUser",
  "platformOrg", "platformAdmin", "stored", "pending", "ledgerOf", "didRows", "typed",
  "pc", "platformUserId", "made", "crashes"}

Init ==
  /\ part \in Parts
  /\ \/ part = "granted" /\ Only(OfMembership) /\ Granted!Init
     \/ part = "creations" /\ Only(OfCreation) /\ Creations!Init
     \/ part = "race" /\ Only(OfRace) /\ Race!Init
     \/ part = "calls" /\ Only(OfCalls) /\ Calling!Init
     \/ part = "cloud" /\ Only(OfCloud) /\ CloudCalls!Init
     \/ part = "objects" /\ Only(OfObjects) /\ Creating!Init
     \/ part = "offers" /\ Only(OfOffers) /\ Offering!Init
     \/ part = "ports" /\ Only(OfPorts) /\ Answering!Init
     \/ part = "told" /\ Only(OfSpinup) /\ Telling!Init
     \/ part = "events" /\ Only(OfExchanges) /\ Reporting!Init
     \/ part = "walk" /\ Only(OfPages) /\ Walking!Init
     \/ part = "seed" /\ Only(OfSeed) /\ Seeding!Init /\ quiet

Next ==
  /\ UNCHANGED part
  /\ \/ part = "granted" /\ Granted!Next /\ Around(OfMembership)
     \/ part = "creations" /\ Creations!Next /\ Around(OfCreation)
     \/ part = "race" /\ Race!Next /\ Around(OfRace)
     \/ part = "calls" /\ Calling!Next /\ Around(OfCalls)
     \/ part = "cloud" /\ CloudCalls!Next /\ Around(OfCloud)
     \/ part = "objects" /\ Creating!Next /\ Around(OfObjects)
     \/ part = "offers" /\ Offering!Next /\ Around(OfOffers)
     \/ part = "ports" /\ Answering!Next /\ Around(OfPorts)
     \/ part = "told" /\ Telling!Next /\ Around(OfSpinup)
     \/ part = "events" /\ Reporting!Next /\ Around(OfExchanges)
     \/ part = "walk" /\ Walking!Next /\ Around(OfPages)
     \/ part = "seed" /\ Seeding!Next /\ Around(OfSeed)

Spec == Init /\ [][Next]_vars

grantedVars  == Granted!vars
creationVars == Creations!vars
raceVars     == Race!vars
callVars     == Calling!vars
cloudVars    == CloudCalls!vars
objectVars   == Creating!vars
offerVars    == Offering!vars
portVars     == Answering!vars
toldVars     == Telling!vars
eventVars    == Reporting!vars
walkVars     == Walking!vars
seedVars     == Seeding!vars

\* What the services, scripts and the database have begun goes on; people,
\* agents and failures need not.
FairSpec ==
  /\ Spec
  /\ \A r \in {"q1", "q2"} :
       /\ WF_grantedVars(part = "granted" /\ Granted!Work(r))
       /\ WF_creationVars(part = "creations" /\ Creations!Work(r))
  /\ WF_grantedVars(part = "granted" /\ \E x \in onTheWay : Granted!InsertRow(x))
  /\ \A a \in {"x1", "x2"} : WF_raceVars(part = "race" /\ Race!AttemptStep(a))
  /\ WF_callVars(part = "calls" /\ Calling!Step("c1"))
  /\ \A c \in DOMAIN OneBase : WF_cloudVars(part = "cloud" /\ CloudCalls!Serve(c))
  /\ \A q \in DOMAIN Kinds : WF_objectVars(part = "objects" /\ Creating!Serve(q))
  /\ \A b \in DOMAIN Sent : WF_offerVars(part = "offers" /\ Offering!Step(b))
  /\ \A p \in Three :
       /\ WF_portVars(part = "ports" /\ Answering!Script(p))
       /\ WF_portVars(part = "ports" /\ Answering!Callback(p))
  /\ WF_toldVars(part = "told" /\ (Telling!Work("p1") \/ Telling!Fails("p1")))
  /\ WF_toldVars(part = "told" /\ Telling!Deliver("p1"))
  /\ \A n \in 1..2 : WF_eventVars(part = "events" /\ Reporting!Handle(<<"link", n>>))
  /\ WF_walkVars(part = "walk" /\ Walking!Serve)
  /\ WF_seedVars(part = "seed" /\ Seeding!Step)
  /\ WF_seedVars(part = "seed" /\ pc # "done" /\ Seeding!main)
  /\ \A a \in {"a1", "a2"} : WF_seedVars(part = "seed" /\ Seeding!DidStored(a))

-----------------------------------------------------------------------------
\* Who accepted an invitation gets a role of it, although the status is written
\* before the rows are (OrgMembership).
AcceptedGrants ==
  (part = "granted" /\ Granted!Accepted("i1")) ~> (part = "granted" /\ Granted!Received("i1"))

\* Creations of the same name never refuse each other both (OrgCreation).
OneCreationWins ==
  (part = "creations" /\ Creations!Wanted("a")) ~> (part = "creations" /\ Creations!Given("a"))

\* Requests that race for the wallet of one organisation do not undo each
\* other: one of them records its wallet, for good (AgentProvisioning).
RaceHasWinner ==
  (part = "race" /\ Race!Underway # {}) ~> [](part = "race" /\ Race!Recorded)

\* Every request that was let in is answered, whatever becomes of wallets and
\* agents meanwhile (AgentCalls, CloudWallet, LedgerObjects, Offers, AgentPorts).
RequestsAnswered ==
  /\ (part = "calls" /\ Calling!Underway("c1")) ~> (part = "calls" /\ ~Calling!Underway("c1"))
  /\ (part = "cloud" /\ \E c \in DOMAIN OneBase : CloudCalls!Underway(c))
       ~> (part = "cloud" /\ \A c \in DOMAIN OneBase : ~CloudCalls!Underway(c))
  /\ (part = "objects" /\ \E q \in DOMAIN Kinds : pc[q] # "idle")
       ~> (part = "objects" /\ \A q \in DOMAIN Kinds : pc[q] \in {"idle", "over"})
  /\ part = "offers" ~> (part = "offers" /\ \A b \in DOMAIN Sent : pc[b] = "over")
  /\ (part = "ports" /\ \E p \in Three : pc[p] # "idle")
       ~> (part = "ports" /\ \A p \in Three : pc[p] = "idle" \/ Answering!Answered(p))

\* The client of a provision is told its outcome, the agent that reports an event
\* is answered, a client that walks through a list reaches its end, and however
\* often runs of the seed end early, one ends well after the last time
\* (SpinupEvents, ExchangeRecords, PagedLists, DatabaseSeed).
OutcomesTold ==
  /\ (part = "told" /\ pc["p1"] # "idle") ~> (part = "told" /\ Telling!OutcomeTold("p1"))
  /\ (part = "events" /\ \E n \in 1..2 : pc[<<"link", n>>] = "store")
       ~> (part = "events" /\ \A n \in 1..2 : pc[<<"link", n>>] \in {"none", "over"})
  /\ (part = "walk" /\ pc = "list") ~> (part = "walk" /\ Walking!Ended)
  /\ (part = "seed" /\ pc # "done") ~> (part = "seed" /\ pc = "done")
=============================================================================
