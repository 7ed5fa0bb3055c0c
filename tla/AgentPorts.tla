------------------------------ MODULE AgentPorts ------------------------------
(***************************************************************************)
(* The agent-provisioning service starts a dedicated agent by running a    *)
(* shell script. The script takes the next two ports from two files it     *)
(* shares with every other run of itself, starts the container and leaves  *)
(* endpoint and token in two files; the service reads these when the       *)
(* script has ended, whatever its exit code.                               *)
(*                                                                         *)
(* Ports are counted from the number the files of the repository begin     *)
(* with. A redirection empties its file before the echo writes it.         *)
(***************************************************************************)
EXTENDS Integers, FiniteSets

CONSTANTS
  Provisions,  \* walletProvision requests
  NameOf,      \* provision -> organisation and container, the name of all it makes
  Gap,         \* between the first admin and the first inbound port: 1000
  Overlap,     \* bound: scripts running at once
  MaxFaults    \* bound: failures of docker and agents that are slow to start

(* Within the first Gap provisions an admin port is never an inbound port. *)
ConstantsAssumption ==
  /\ Provisions # {} /\ IsFiniteSet(Provisions) /\ DOMAIN NameOf = Provisions
  /\ Provisions \cap {"none", "empty"} = {}
  /\ Gap \in Nat /\ Gap >= Cardinality(Provisions)
  /\ Overlap \in Nat \ {0} /\ MaxFaults \in Nat

Names == {NameOf[p] : p \in Provisions}
Files == {"admin", "inbound"}
Blank == -1
None  == "none"    \* no container, no file
Empty == "empty"   \* a token file without a token

First(k) == IF k = "admin" THEN 0 ELSE Gap

VARIABLES
  portFile,     \* last-admin-port.txt and last-inbound-port.txt
  container,    \* name -> the provision whose container runs
  endpoint,     \* name -> the provision whose address the endpoint file has
  token,        \* name -> the provision whose token the token file has
  alive,        \* the service runs
  pc, working,  \* where a script stands, and on which port file
  port,         \* the ports a script has taken
  seen,         \* the token a script found in the log of the container
  answer,       \* what the service answers
  refused,      \* history: provisions whose container did not start for its ports,
  unstarted,    \* those it did not start for anything else,
  crossed,      \* and those whose script ran at the same time as another one
  faults

script  == <<pc, working, port, seen>>
history == <<refused, unstarted, crossed>>
vars    == <<portFile, container, endpoint, token, alive, script, answer, history, faults>>

Init ==
  /\ portFile = [k \in Files |-> First(k)]
  /\ container = [n \in Names |-> None]
  /\ endpoint = [n \in Names |-> None]
  /\ token = [n \in Names |-> None]
  /\ alive = TRUE
  /\ pc = [p \in Provisions |-> "idle"]
  /\ working = [p \in Provisions |-> "admin"]
  /\ port = [p \in Provisions |-> [k \in Files |-> Blank]]
  /\ seen = [p \in Provisions |-> None]
  /\ answer = [p \in Provisions |-> <<None, None>>]
  /\ refused = {} /\ unstarted = {} /\ crossed = {}
  /\ faults = 0

UnderWay == {p \in Provisions : pc[p] \notin {"idle", "answered", "stored", "lost"}}

Goes(p, next) == pc' = [pc EXCEPT ![p] = next]

-----------------------------------------------------------------------------
(* The ports.                                                              *)

walletProvision(p) ==
  /\ alive /\ pc[p] = "idle"
  /\ Cardinality(UnderWay) < Overlap
  /\ Goes(p, "read")
  /\ crossed' = IF UnderWay = {} THEN crossed ELSE crossed \cup UnderWay \cup {p}
  /\ UNCHANGED <<portFile, container, endpoint, token, alive, working, port, seen, answer, refused, unstarted, faults>>

\* The test of a blank fails, and with it the loop.
increment_port(last) == IF last = Blank THEN Blank ELSE last + 1

ReadPort(p) ==
  /\ pc[p] = "read"
  /\ port' = [port EXCEPT ![p][working[p]] = increment_port(portFile[working[p]])]
  /\ Goes(p, "clear")
  /\ UNCHANGED <<portFile, container, endpoint, token, alive, working, seen, answer, history, faults>>

ClearFile(p) ==
  /\ pc[p] = "clear"
  /\ portFile' = [portFile EXCEPT ![working[p]] = Blank]
  /\ Goes(p, "write")
  /\ UNCHANGED <<container, endpoint, token, alive, working, port, seen, answer, history, faults>>

WriteFile(p) ==
  /\ pc[p] = "write"
  /\ portFile' = [portFile EXCEPT ![working[p]] = port[p][working[p]]]
  /\ working' = [working EXCEPT ![p] = "inbound"]
  /\ Goes(p, IF working[p] = "admin" THEN "read" ELSE "up")
  /\ UNCHANGED <<container, endpoint, token, alive, port, seen, answer, history, faults>>

-----------------------------------------------------------------------------
(* The container.  A project of the same name is replaced.                 *)

PortsOf(p) == {port[p][k] : k \in Files}
Taken(p)   == \E n \in Names \ {NameOf[p]} :
                container[n] # None /\ PortsOf(container[n]) \cap PortsOf(p) # {}

ComposeUp(p) ==
  /\ pc[p] = "up"
  /\ Blank \notin PortsOf(p) /\ ~Taken(p)
  /\ container' = [container EXCEPT ![NameOf[p]] = p]
  /\ Goes(p, "wait")
  /\ UNCHANGED <<portFile, endpoint, token, alive, working, port, seen, answer, history, faults>>

(* A blank makes the compose file invalid, and the old container stays; a  *)
(* port in use is found when it has been removed.                          *)
PortRefused(p) ==
  /\ pc[p] = "up"
  /\ Blank \in PortsOf(p) \/ Taken(p)
  /\ container' = IF Blank \in PortsOf(p) THEN container ELSE [container EXCEPT ![NameOf[p]] = None]
  /\ refused' = refused \cup {p}
  /\ Goes(p, "ended")
  /\ UNCHANGED <<portFile, endpoint, token, alive, working, port, seen, answer, unstarted, crossed, faults>>

DockerFails(p) ==
  /\ pc[p] = "up" /\ faults < MaxFaults
  /\ faults' = faults + 1
  /\ \E left \in {None, container[NameOf[p]]} : container' = [container EXCEPT ![NameOf[p]] = left]
  /\ unstarted' = unstarted \cup {p}
  /\ Goes(p, "ended")
  /\ UNCHANGED <<portFile, endpoint, token, alive, working, port, seen, answer, refused, crossed>>

(* At most six waits of ten seconds; then the log is searched for a token, *)
(* whether the agent answered or not.                                      *)
WaitForAgent(p) ==
  /\ pc[p] = "wait"
  /\ \/ seen' = [seen EXCEPT ![p] = IF container[NameOf[p]] = None THEN Empty ELSE container[NameOf[p]]]
        /\ UNCHANGED faults
     \/ faults < MaxFaults /\ faults' = faults + 1
        /\ seen' = [seen EXCEPT ![p] = Empty]
  /\ Goes(p, "remove")
  /\ UNCHANGED <<portFile, container, endpoint, token, alive, working, port, answer, history>>

-----------------------------------------------------------------------------
(* The files the service reads.                                            *)

FileOf(p) == NameOf[p]

RemoveEndpoint(p) ==
  /\ pc[p] = "remove"
  /\ endpoint' = [endpoint EXCEPT ![FileOf(p)] = None]
  /\ Goes(p, "endpoint")
  /\ UNCHANGED <<portFile, container, token, alive, working, port, seen, answer, history, faults>>

WriteEndpoint(p) ==
  /\ pc[p] = "endpoint"
  /\ endpoint' = [endpoint EXCEPT ![FileOf(p)] = p]
  /\ Goes(p, "token")
  /\ UNCHANGED <<portFile, container, token, alive, working, port, seen, answer, history, faults>>

WriteToken(p) ==
  /\ pc[p] = "token"
  /\ token' = [token EXCEPT ![FileOf(p)] = seen[p]]
  /\ Goes(p, "ended")
  /\ UNCHANGED <<portFile, container, endpoint, alive, working, port, seen, answer, history, faults>>

-----------------------------------------------------------------------------
(* The callback of exec, which looks at the files and not at the error.    *)

checkFileExistence(p) == endpoint[FileOf(p)] # None /\ token[FileOf(p)] # None

ResolveResponse(p) ==
  /\ pc[p] = "ended" /\ checkFileExistence(p)
  /\ answer' = [answer EXCEPT ![p] = <<endpoint[FileOf(p)], token[FileOf(p)]>>]
  /\ Goes(p, "answered")
  /\ UNCHANGED <<portFile, container, endpoint, token, alive, working, port, seen, history, faults>>

(* The exception is thrown where nobody catches it: the promise stays      *)
(* open, the process ends, and with it every script.                       *)
NotFound(p) ==
  /\ pc[p] = "ended" /\ ~checkFileExistence(p)
  /\ pc' = [q \in Provisions |-> IF q \in UnderWay THEN "lost" ELSE pc[q]]
  /\ alive' = FALSE
  /\ UNCHANGED <<portFile, container, endpoint, token, working, port, seen, answer, history, faults>>

Restart ==
  /\ ~alive /\ alive' = TRUE
  /\ UNCHANGED <<portFile, container, endpoint, token, script, answer, history, faults>>

(* The agent service removes the token file once it has stored a wallet;   *)
(* a spin-up that fails after the answer leaves it.                        *)
RemoveToken(p) ==
  /\ pc[p] = "answered" /\ answer[p][2] # Empty
  /\ token' = [token EXCEPT ![FileOf(p)] = None]
  /\ Goes(p, "stored")
  /\ UNCHANGED <<portFile, container, endpoint, alive, working, port, seen, answer, history, faults>>

-----------------------------------------------------------------------------
Script(p) ==
  \/ ReadPort(p) \/ ClearFile(p) \/ WriteFile(p)
  \/ ComposeUp(p) \/ PortRefused(p)
  \/ WaitForAgent(p) \/ RemoveEndpoint(p) \/ WriteEndpoint(p) \/ WriteToken(p)

Callback(p) == ResolveResponse(p) \/ NotFound(p)

Next ==
  \/ \E p \in Provisions :
       walletProvision(p) \/ Script(p) \/ DockerFails(p) \/ Callback(p) \/ RemoveToken(p)
  \/ Restart

(* exec starts the script as a process of its own: it runs on, its waits   *)
(* are counted, and the callback is called when it has ended.              *)
Fairness == \A p \in Provisions : WF_vars(Script(p)) /\ WF_vars(Callback(p))

Spec == Init /\ [][Next]_vars /\ Fairness

-----------------------------------------------------------------------------
TypeOK ==
  /\ portFile \in [Files -> Int]
  /\ container \in [Names -> Provisions \cup {None}]
  /\ endpoint \in [Names -> Provisions \cup {None}]
  /\ token \in [Names -> Provisions \cup {None, Empty}]
  /\ alive \in BOOLEAN
  /\ working \in [Provisions -> Files]
  /\ port \in [Provisions -> [Files -> Int]]
  /\ refused \cup unstarted \cup crossed \subseteq Provisions
  /\ faults \in 0..MaxFaults

(* No agent fails to start because of the ports its script took from the   *)
(* files: neither is blank nor used by another agent (start_agent.sh       *)
(* 44-69), as long as no two scripts ran at the same time.                 *)
NoPortRefused == crossed = {} => refused = {}

(* A port file is blank only while a script is about to write it: a blank  *)
(* that stays is read by every later script, and none of them gets a port. *)
FilesUsable ==
  crossed = {} =>
    \A k \in Files : portFile[k] = Blank =>
      \E p \in Provisions : pc[p] = "write" /\ working[p] = k

(* The address and token answered are those of the container this request  *)
(* started (agent-provisioning.service.ts 37-59), unless it was not        *)
(* started, or next to another one, and there are files of the same name.  *)
Namesakes(p) == {q \in Provisions \ {p} : NameOf[q] = NameOf[p]}

AnswerIsMine ==
  \A p \in Provisions : pc[p] \in {"answered", "stored"} =>
    \/ answer[p][1] = p /\ answer[p][2] \in {p, Empty}
    \/ Namesakes(p) # {} /\ p \in refused \cup unstarted \cup crossed

(* The request is answered: its caller waits for NATS without a timeout    *)
(* (agent-provisioning.service.ts 29-62).                                  *)
Answered(p) == pc[p] \in {"answered", "stored"}
=============================================================================
