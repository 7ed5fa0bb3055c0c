---------------------------- MODULE UserDevices ----------------------------
(***************************************************************************)
(* The passkey devices of one user: a registration marks the user, then    *)
(* writes the device; a second call names it; a deletion only marks it; a  *)
(* sign-in asks the FIDO server about the devices it has read, then        *)
(* counts itself and signs the user in.                                    *)
(***************************************************************************)
EXTENDS Integers, FiniteSets

CONSTANTS
  Devices,
  SignIns,
  MaxFaults    \* bound: device rows that cannot be written

(* What the constants have to be; the suites assume it of their instances. *)
ConstantsAssumption == MaxFaults \in Nat /\ IsFiniteSet(SignIns)

VARIABLES
  marked,       \* the user counts as one with a passkey
  device,       \* the rows of the devices
  registering,  \* devices whose mark is set and whose row is not written
  failed,       \* registrations that ended without a row
  signIn,       \* how far a sign-in has come, and what it has read
  passed,       \* sign-ins of a device that ended well
  overlapped,   \* devices that two sign-ins counted at a time
  faults

vars == <<marked, device, registering, failed, signIn, passed, overlapped, faults>>

NoDevice == [made |-> FALSE, named |-> FALSE, deleted |-> FALSE, counter |-> 0]
Idle     == [pc |-> "idle", dev |-> {}, list |-> {}, counter |-> 0, late |-> FALSE]

Init ==
  /\ marked = FALSE
  /\ device = [d \in Devices |-> NoDevice]
  /\ registering = {} /\ failed = {}
  /\ signIn = [s \in SignIns |-> Idle]
  /\ passed = [d \in Devices |-> 0]
  /\ overlapped = {}
  /\ faults = 0

-----------------------------------------------------------------------------
\* verifyRegistration: the FIDO server has verified the device.

MarkUser(d) ==
  /\ ~device[d].made /\ d \notin registering
  /\ marked' = TRUE
  /\ registering' = registering \cup {d}
  /\ UNCHANGED <<device, failed, signIn, passed, overlapped, faults>>

CreateDevice(d) ==
  /\ d \in registering
  /\ device' = [device EXCEPT ![d].made = TRUE]
  /\ registering' = registering \ {d}
  /\ UNCHANGED <<marked, failed, signIn, passed, overlapped, faults>>

CreateFails(d) ==
  /\ d \in registering
  /\ faults < MaxFaults /\ faults' = faults + 1
  /\ registering' = registering \ {d}
  /\ failed' = failed \cup {d}
  /\ UNCHANGED <<marked, device, signIn, passed, overlapped>>

\* updateUser: until then the row has no credential id.
NameDevice(d) ==
  /\ device[d].made /\ ~device[d].named
  /\ device' = [device EXCEPT ![d].named = TRUE]
  /\ UNCHANGED <<marked, registering, failed, signIn, passed, overlapped, faults>>

\* The row stays, marked; the user's own mark stays too.
DeleteDevice(d) ==
  /\ device[d].named /\ ~device[d].deleted
  /\ device' = [device EXCEPT ![d].deleted = TRUE]
  /\ UNCHANGED <<marked, registering, failed, signIn, passed, overlapped, faults>>

-----------------------------------------------------------------------------
\* verifyAuthentication.

Counting(d) == {s \in SignIns : signIn[s].pc \in {"ask", "count"} /\ signIn[s].dev = {d}}

\* Wrong on purpose: deleted devices are offered to the FIDO server as well.
AllDevices(s, d) == {x \in Devices : device[x].made}

DeviceList(s, d) == {x \in Devices : device[x].made /\ ~device[x].deleted}

\* The devices of the user are read.
ReadDevices(s, d) ==
  /\ signIn[s].pc = "idle"
  /\ signIn' = [signIn EXCEPT ![s] = [pc |-> "find", dev |-> {d}, list |-> DeviceList(s, d),
                                      counter |-> 0, late |-> device[d].deleted]]
  /\ UNCHANGED <<marked, device, registering, failed, passed, overlapped, faults>>

\* The row is found by its credential id, deleted or not.
FindDevice(s, d) ==
  /\ signIn[s].pc = "find" /\ signIn[s].dev = {d}
  /\ device[d].named
  /\ signIn' = [signIn EXCEPT ![s].pc = "ask", ![s].counter = device[d].counter]
  /\ overlapped' = IF Counting(d) # {} THEN overlapped \cup {d} ELSE overlapped
  /\ UNCHANGED <<marked, device, registering, failed, passed, faults>>

DeviceNotFound(s, d) ==
  /\ signIn[s].pc = "find" /\ signIn[s].dev = {d}
  /\ ~device[d].named
  /\ signIn' = [signIn EXCEPT ![s] = [Idle EXCEPT !.pc = "refused", !.dev = {d}]]
  /\ UNCHANGED <<marked, device, registering, failed, passed, overlapped, faults>>

\* The FIDO server knows the devices of the list and no other.
Verified(s, d) ==
  /\ signIn[s].pc = "ask" /\ signIn[s].dev = {d}
  /\ d \in signIn[s].list
  /\ signIn' = [signIn EXCEPT ![s].pc = "count"]
  /\ UNCHANGED <<marked, device, registering, failed, passed, overlapped, faults>>

NotVerified(s, d) ==
  /\ signIn[s].pc = "ask" /\ signIn[s].dev = {d}
  /\ signIn' = [signIn EXCEPT ![s].pc = "refused"]
  /\ UNCHANGED <<marked, device, registering, failed, passed, overlapped, faults>>

CounterOf(s, d) == signIn[s].counter + 1

\* updateFidoAuthCounter writes one more than was read before the question.
UpdateCounter(s, d) ==
  /\ signIn[s].pc = "count" /\ signIn[s].dev = {d}
  /\ device' = [device EXCEPT ![d].counter = CounterOf(s, d)]
  /\ signIn' = [signIn EXCEPT ![s].pc = "login"]
  /\ passed' = [passed EXCEPT ![d] = @ + 1]
  /\ UNCHANGED <<marked, registering, failed, overlapped, faults>>

\* login with a passkey: only a marked user.
Login(s) ==
  /\ signIn[s].pc = "login"
  /\ marked
  /\ signIn' = [signIn EXCEPT ![s].pc = "in"]
  /\ UNCHANGED <<marked, device, registering, failed, passed, overlapped, faults>>

-----------------------------------------------------------------------------
Attempt(s, d) ==
  \/ ReadDevices(s, d) \/ FindDevice(s, d) \/ DeviceNotFound(s, d)
  \/ Verified(s, d) \/ NotVerified(s, d) \/ UpdateCounter(s, d)

Next ==
  \/ \E d \in Devices : MarkUser(d) \/ CreateDevice(d) \/ CreateFails(d)
  \/ \E d \in Devices : NameDevice(d) \/ DeleteDevice(d)
  \/ \E s \in SignIns, d \in Devices : Attempt(s, d)
  \/ \E s \in SignIns : Login(s)

Spec == Init /\ [][Next]_vars

-----------------------------------------------------------------------------
TypeOK ==
  /\ marked \in BOOLEAN
  /\ \A d \in Devices :
       /\ device[d].counter \in 0..Cardinality(SignIns)
       /\ device[d].deleted => device[d].named
       /\ device[d].named => device[d].made
  /\ {registering, failed, overlapped} \subseteq SUBSET Devices
  /\ \A s \in SignIns :
       /\ signIn[s].pc \in {"idle", "find", "ask", "count", "login", "in", "refused"}
       /\ {signIn[s].dev, signIn[s].list} \subseteq SUBSET Devices
  /\ passed \in [Devices -> 0..Cardinality(SignIns)]
  /\ faults \in 0..MaxFaults

\* A sign-in that begins after its device was deleted does not succeed,
\* although the deleted row is still found by its credential id.
DeletedStaysOut == \A s \in SignIns : signIn[s].late => signIn[s].pc # "in"

\* The counter of a device is the number of its sign-ins, unless two of them
\* were counted at a time: then the later write takes the earlier one back.
CounterCounts == \A d \in Devices : d \notin overlapped => device[d].counter = passed[d]

\* Who has a device that can sign in is marked, so that login does not refuse
\* what the FIDO server has verified.
DeviceMeansMark == (\E d \in Devices : device[d].made) => marked

\* Who is marked has a device, deleted or not, or a registration that is under
\* way or has failed after the mark was set.
MarkMeansDevice ==
  marked => registering \cup failed # {} \/ \E d \in Devices : device[d].made

=============================================================================
