------------------------------- MODULE Users -------------------------------
(***************************************************************************)
(* The user service: how somebody becomes a user and gets a password       *)
(* (UserRegistration, which this module extends), the devices a user signs *)
(* in with (UserDevices), and the credentials of the Keycloak client that  *)
(* every sign-in needs (ClientCredentials). The components share no state  *)
(* here: a behaviour is one of one of them, chosen at the start.           *)
(***************************************************************************)
EXTENDS UserRegistration

CONSTANTS
  Parts,                       \* what is run
  Cast,                        \* who asks for what, in each way to register
  Steady,                      \* the ways in which nothing fails
  Devices, SignIns,            \* of UserDevices
  ClientForms, PasswordForms   \* of ClientCredentials

\* The variables of the other components; `client`, `user` and `failures` are
\* their row, account and faults, which UserRegistration has too.
VARIABLES part, marked, device, registering, failed, signIn, passed,
          overlapped, failures, client, user, last
others == <<marked, device, registering, failed, signIn, passed, overlapped,
            failures, client, user, last>>

-----------------------------------------------------------------------------
Passkeys    == INSTANCE UserDevices WITH faults <- failures
Credentials == INSTANCE ClientCredentials WITH row <- client, account <- user

(* What the constants have to be, those of the components among them.      *)
ASSUME InstancesAssumption ==
  /\ Passkeys!ConstantsAssumption
  /\ Credentials!ConstantsAssumption
  /\ DOMAIN Cast \cap {"devices", "credentials"} = {}
  /\ \A p \in DOMAIN Cast : DOMAIN Cast[p] \subseteq Requests

-----------------------------------------------------------------------------
(* While one component runs, the variables of the others are not there;    *)
(* UserRegistration rests in its initial state.                            *)
Absent == "absent"

\* Variable v, named n, is absent, or stays, unless it is one of S.
Out(S, n, v)   == IF n \in S THEN TRUE ELSE v = Absent
Still(S, n, v) == IF n \in S THEN TRUE ELSE UNCHANGED v

Only(S) ==
  /\ Out(S, "marked", marked) /\ Out(S, "device", device) /\ Out(S, "registering", registering)
  /\ Out(S, "failed", failed) /\ Out(S, "signIn", signIn) /\ Out(S, "passed", passed)
  /\ Out(S, "overlapped", overlapped) /\ Out(S, "failures", failures)
  /\ Out(S, "client", client) /\ Out(S, "user", user) /\ Out(S, "last", last)

Around(S) ==
  /\ Still(S, "marked", marked) /\ Still(S, "device", device)
  /\ Still(S, "registering", registering) /\ Still(S, "failed", failed)
  /\ Still(S, "signIn", signIn) /\ Still(S, "passed", passed)
  /\ Still(S, "overlapped", overlapped) /\ Still(S, "failures", failures)
  /\ Still(S, "client", client) /\ Still(S, "user", user) /\ Still(S, "last", last)

OfDevices == {"marked", "device", "registering", "failed", "signIn", "passed",
  "overlapped", "failures"}
OfCredentials == {"client", "user", "last"}

UsersInit ==
  /\ part \in Parts
  /\ Init
  /\ \/ part \in DOMAIN Cast /\ Only({})
     \/ part = "devices" /\ Only(OfDevices) /\ Passkeys!Init
     \/ part = "credentials" /\ Only(OfCredentials) /\ Credentials!Init

\* A step of Next by the cast of a way to register.
CastNext ==
  LET Players == DOMAIN Cast[part]
  IN  /\ \/ \E r \in Players : Handle(r)
         \/ \E r \in Players : \E k \in Cast[part][r], ref \in Players \cup {None} : Ask(r, k, ref)
         \/ \E t \in Players : Expire(t)
         \/ RegisterDevice
      /\ part \in Steady => faults' = 0

OthersNext ==
  \/ part = "devices" /\ Passkeys!Next /\ Around(OfDevices)
  \/ part = "credentials" /\ Credentials!Next /\ Around(OfCredentials)

UsersNext ==
  /\ UNCHANGED part
  /\ \/ part \in DOMAIN Cast /\ CastNext /\ UNCHANGED others
     \/ OthersNext /\ UNCHANGED vars

UsersSpec == UsersInit /\ [][UsersNext]_<<vars, others, part>>

-----------------------------------------------------------------------------
\* Who may sign in can, and nobody else: the mark that says a user has devices,
\* the devices and their counters agree however registrations, sign-ins and
\* deletions interleave, and users are served in whatever form client
\* credentials and passwords are stored and sent.
SignInsKept ==
  /\ part = "devices" =>
       /\ Passkeys!TypeOK /\ Passkeys!DeletedStaysOut /\ Passkeys!CounterCounts
       /\ Passkeys!DeviceMeansMark /\ Passkeys!MarkMeansDevice
  /\ part = "credentials" =>
       /\ Credentials!TypeOK /\ Credentials!AccountHasPassword
       /\ Credentials!SignInServed /\ Credentials!EncryptedServed
=============================================================================
