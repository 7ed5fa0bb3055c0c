------------------------------ MODULE Wallets ------------------------------
(***************************************************************************)
(* The wallets and the agents that hold them: the DIDs of an organisation  *)
(* (OrgDids, which this module extends), the calls that other services     *)
(* make through the agent service (AgentCalls), cloud wallets              *)
(* (CloudWallet), the events a client hears while its wallet is made       *)
(* (SpinupEvents) and the scripts that start agents (AgentPorts). The      *)
(* components share no state here: a behaviour is one of one of them,      *)
(* chosen at the start.                                                    *)
(***************************************************************************)
EXTENDS OrgDids, Sequences

CONSTANTS
  Parts,                                  \* what is run
  Orgs, Platform, Agents, Setup, Calls,   \* of AgentCalls
  Plans, Movers, MaxMoves,
  Users, Hosts, CloudCalls, CloudPlans,   \* of CloudWallet, its agents the hosts
  Holders,
  Provisions, MaxLosses, MaxCrashes,      \* of SpinupEvents
  Scripts, NameOf, Gap, Overlap,          \* of AgentPorts
  MaxFailures                             \* bound: its faults

\* The variables of the other components; `place`, `failures`, `ownDid`,
\* `noticed` and `abreast` are their pc, faults, did, seen and crossed, which
\* OrgDids has too.
VARIABLES part, rows, times, wallets, invitations, at, asked, todo, row, url,
          key, ownDid, made, sent, done, moved, held, failures, tenants, base,
          wallet, kind, place, wire, noticed, written, invited, losses,
          crashes, portFile, container, endpoint, token, alive, working, port,
          answer, refused, unstarted, abreast
others == <<rows, times, wallets, invitations, at, asked, todo, row, url, key,
            ownDid, made, sent, done, moved, held, failures, tenants, base,
            wallet, kind, place, wire, noticed, written, invited, losses,
            crashes, portFile, container, endpoint, token, alive, working,
            port, answer, refused, unstarted, abreast>>

-----------------------------------------------------------------------------
Calling == INSTANCE AgentCalls WITH did <- ownDid, faults <- failures
Hosting == INSTANCE CloudWallet WITH Agents <- Hosts, Calls <- CloudCalls,
  Plans <- CloudPlans, faults <- failures
Telling == INSTANCE SpinupEvents WITH pc <- place, seen <- noticed
Starting == INSTANCE AgentPorts WITH Provisions <- Scripts, MaxFaults <- MaxFailures,
  pc <- place, seen <- noticed, crossed <- abreast, faults <- failures

(* What the constants have to be, those of the components among them.      *)
ASSUME InstancesAssumption ==
  /\ Calling!ConstantsAssumption
  /\ Hosting!ConstantsAssumption
  /\ Telling!ConstantsAssumption
  /\ Starting!ConstantsAssumption

-----------------------------------------------------------------------------
(* While one component runs, the variables of the others are not there;    *)
(* OrgDids rests in its initial state.                                     *)
Absent == "absent"

\* Variable v, named n, is absent, or stays, unless it is one of S.
Out(S, n, v)   == IF n \in S THEN TRUE ELSE v = Absent
Still(S, n, v) == IF n \in S THEN TRUE ELSE UNCHANGED v

Only(S) ==
  /\ Out(S, "rows", rows) /\ Out(S, "times", times) /\ Out(S, "wallets", wallets)
  /\ Out(S, "invitations", invitations) /\ Out(S, "at", at) /\ Out(S, "asked", asked)
  /\ Out(S, "todo", todo) /\ Out(S, "row", row) /\ Out(S, "url", url)
  /\ Out(S, "key", key) /\ Out(S, "ownDid", ownDid) /\ Out(S, "made", made)
  /\ Out(S, "sent", sent) /\ Out(S, "done", done) /\ Out(S, "moved", moved)
  /\ Out(S, "held", held) /\ Out(S, "failures", failures) /\ Out(S, "tenants", tenants)
  /\ Out(S, "base", base) /\ Out(S, "wallet", wallet) /\ Out(S, "kind", kind)
  /\ Out(S, "place", place) /\ Out(S, "wire", wire) /\ Out(S, "noticed", noticed)
  /\ Out(S, "written", written) /\ Out(S, "invited", invited)
  /\ Out(S, "losses", losses) /\ Out(S, "crashes", crashes)
  /\ Out(S, "portFile", portFile) /\ Out(S, "container", container)
  /\ Out(S, "endpoint", endpoint) /\ Out(S, "token", token) /\ Out(S, "alive", alive)
  /\ Out(S, "working", working) /\ Out(S, "port", port) /\ Out(S, "answer", answer)
  /\ Out(S, "refused", refused) /\ Out(S, "unstarted", unstarted)
  /\ Out(S, "abreast", abreast)

Around(S) ==
  /\ Still(S, "rows", rows) /\ Still(S, "times", times) /\ Still(S, "wallets", wallets)
  /\ Still(S, "invitations", invitations) /\ Still(S, "at", at)
  /\ Still(S, "asked", asked) /\ Still(S, "todo", todo) /\ Still(S, "row", row)
  /\ Still(S, "url", url) /\ Still(S, "key", key) /\ Still(S, "ownDid", ownDid)
  /\ Still(S, "made", made) /\ Still(S, "sent", sent) /\ Still(S, "done", done)
  /\ Still(S, "moved", moved) /\ Still(S, "held", held)
  /\ Still(S, "failures", failures) /\ Still(S, "tenants", tenants)
  /\ Still(S, "base", base) /\ Still(S, "wallet", wallet) /\ Still(S, "kind", kind)
  /\ Still(S, "place", place) /\ Still(S, "wire", wire) /\ Still(S, "noticed", noticed)
  /\ Still(S, "written", written) /\ Still(S, "invited", invited)
  /\ Still(S, "losses", losses) /\ Still(S, "crashes", crashes)
  /\ Still(S, "portFile", portFile) /\ Still(S, "container", container)
  /\ Still(S, "endpoint", endpoint) /\ Still(S, "token", token)
  /\ Still(S, "alive", alive) /\ Still(S, "working", working) /\ Still(S, "port", port)
  /\ Still(S, "answer", answer) /\ Still(S, "refused", refused)
  /\ Still(S, "unstarted", unstarted) /\ Still(S, "abreast", abreast)

OfCalls == {"rows", "times", "wallets", "invitations", "at", "asked", "todo", "row",
  "url", "key", "ownDid", "made", "sent", "done", "moved", "held", "failures"}
OfCloud == {"asked", "rows", "tenants", "done", "at", "base", "wallet", "made",
  "sent", "failures"}
OfSpinup == {"kind", "place", "wire", "noticed", "row", "written", "invited",
  "losses", "crashes"}
OfPorts == {"portFile", "container", "endpoint", "token", "alive", "place",
  "working", "port", "noticed", "answer", "refused", "unstarted", "abreast",
  "failures"}

\* In a behaviour of another component the organisation rests with one DID.
Resting == did[CHOOSE i \in Ids : TRUE] = CHOOSE d \in Dids : TRUE

WalletsInit ==
  /\ part \in Parts
  /\ Init
  /\ part # "elections" => Resting
  /\ \/ part = "elections" /\ Only({})
     \/ part = "calls" /\ Only(OfCalls) /\ Calling!Init
     \/ part = "cloud" /\ Only(OfCloud) /\ Hosting!Init
     \/ part = "told" /\ Only(OfSpinup) /\ Telling!Init
     \/ part = "ports" /\ Only(OfPorts) /\ Starting!Init

OthersNext ==
  \/ part = "calls" /\ Calling!Next /\ Around(OfCalls)
  \/ part = "cloud" /\ Hosting!Next /\ Around(OfCloud)
  \/ part = "told" /\ Telling!Next /\ Around(OfSpinup)
  \/ part = "ports" /\ Starting!Next /\ Around(OfPorts)

WalletsNext ==
  /\ UNCHANGED part
  /\ \/ part = "elections" /\ Next /\ UNCHANGED others
     \/ OthersNext /\ UNCHANGED vars

WalletsSpec == WalletsInit /\ [][WalletsNext]_<<vars, others, part>>

-----------------------------------------------------------------------------
\* A call is carried out in the wallet of whom it is for. One that goes through
\* the agent service finds the key of that agent and a DID of that wallet, though
\* rows are read piece by piece while wallets come and go. A cloud wallet is its
\* user's: two requests at a time make one, and no call reaches another user's
\* wallet or an agent that does not hold it.
CallsKept ==
  /\ part = "calls" =>
       /\ Calling!TypeOK /\ Calling!OwnWallet /\ Calling!KeyFits
       /\ Calling!InvitationsOfWallet /\ Calling!DidIsKnown
  /\ part = "cloud" =>
       Hosting!TypeOK /\ Hosting!CreatedIsTheirs /\ Hosting!OwnWalletOnly /\ Hosting!CallsGoHome

\* What is told of an agent that is started is true. Of its wallet a client is
\* told one outcome, and nothing that has not come true, though events overtake
\* one another and get lost. Scripts that run one after the other leave usable
\* port files and agents with ports of their own, and each provision is
\* answered with its own agent.
StartsKept ==
  /\ part = "told" =>
       Telling!TypeOK /\ Telling!OneOutcome /\ Telling!DidToldIsWritten /\ Telling!SuccessIsStored
  /\ part = "ports" =>
       Starting!TypeOK /\ Starting!NoPortRefused /\ Starting!FilesUsable /\ Starting!AnswerIsMine
=============================================================================
