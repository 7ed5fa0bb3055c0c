----------------------------- MODULE Notifications -----------------------------
(***************************************************************************)
(* The notification service keeps one webhook per organisation and posts   *)
(* to it what the mediator wants holders to be woken up for. The webhook   *)
(* is registered by the creation of the organisation or by a request of    *)
(* its own; both may be under way at once, and notifications with them.    *)
(***************************************************************************)
EXTENDS Naturals

CONSTANTS
  Orgs,
  Urls,           \* what passes IsUrl of the dto, which takes any case
  Lowercase,      \* those whose scheme is written in lower case
  Registrations,
  Messages,       \* notifications asked for, a repeated one counts again
  MaxFaults,      \* bound: queries and posts that fail
  Null

(* What the constants have to be; the suites assume it of their instances. *)
ConstantsAssumption ==
  /\ Lowercase \subseteq Urls /\ Null \notin Urls
  /\ MaxFaults \in Nat

VARIABLES
  notification,  \* the table: organisation -> webhook
  rpc, entry,    \* of a registration: where it is, the row it asks for
  mpc, clientCode,
  webhook,       \* of a message: the row it has read
  got,           \* what has arrived: <<message, webhook>>
  faults

vars == <<notification, rpc, entry, mpc, clientCode, webhook, got, faults>>

Init ==
  /\ notification = [o \in Orgs |-> Null]
  /\ rpc = [r \in Registrations |-> "asked"]
  /\ entry \in [Registrations -> [orgId : Orgs, notificationWebhook : Urls]]
  /\ mpc = [m \in Messages |-> "asked"]
  /\ clientCode \in [Messages -> Orgs]
  /\ webhook = [m \in Messages |-> Null]
  /\ got = {}
  /\ faults = 0

Fault          == faults < MaxFaults /\ faults' = faults + 1
Registers(r, end) == rpc[r] = "asked" /\ rpc' = [rpc EXCEPT ![r] = end]
Goes(m, at, next) == mpc[m] = at /\ mpc' = [mpc EXCEPT ![m] = next]

StoredFor(r) == notification[entry[r].orgId]

-----------------------------------------------------------------------------

storeOrgWebhookEndpoint(r) ==
  /\ StoredFor(r) = Null
  /\ Registers(r, "registered")
  /\ notification' = [notification EXCEPT ![entry[r].orgId] = entry[r].notificationWebhook]
  /\ UNCHANGED <<entry, mpc, clientCode, webhook, got, faults>>

(* orgId is unique: the insert of a second row is an error.                *)
RegisteredAlready(r) ==
  /\ StoredFor(r) # Null
  /\ Registers(r, "refused")
  /\ UNCHANGED <<notification, entry, mpc, clientCode, webhook, got, faults>>

(* The row is written, or not, and the answer is lost.                     *)
RegistrationFails(r) ==
  /\ Registers(r, "failed") /\ Fault
  /\ \/ UNCHANGED notification
     \/ /\ StoredFor(r) = Null
        /\ notification' = [notification EXCEPT ![entry[r].orgId] = entry[r].notificationWebhook]
  /\ UNCHANGED <<entry, mpc, clientCode, webhook, got>>

getOrgWebhookEndpoint(m) ==
  /\ notification[clientCode[m]] # Null
  /\ Goes(m, "asked", "post")
  /\ webhook' = [webhook EXCEPT ![m] = notification[clientCode[m]]]
  /\ UNCHANGED <<notification, rpc, entry, clientCode, got, faults>>

notFound(m) ==
  /\ notification[clientCode[m]] = Null
  /\ Goes(m, "asked", "notFound")
  /\ UNCHANGED <<notification, rpc, entry, clientCode, webhook, got, faults>>

httpPost(m) ==
  /\ Goes(m, "post", "check")
  /\ got' = got \cup {<<m, webhook[m]>>}
  /\ UNCHANGED <<notification, rpc, entry, clientCode, webhook, faults>>

(* The webhook is out of reach, answers with an error, or its answer is    *)
(* lost: handleCommonErrors throws whatever it was.                        *)
handleCommonErrors(m) ==
  /\ Goes(m, "post", "failed") /\ Fault
  /\ got' \in {got, got \cup {<<m, webhook[m]>>}}
  /\ UNCHANGED <<notification, rpc, entry, clientCode, webhook>>

(* The url is looked at when the post is done.                             *)
isValidUrl(m) ==
  /\ Goes(m, "check", IF webhook[m] \in Lowercase THEN "sent" ELSE "invalidUrl")
  /\ UNCHANGED <<notification, rpc, entry, clientCode, webhook, got, faults>>

Next ==
  \/ \E r \in Registrations :
       storeOrgWebhookEndpoint(r) \/ RegisteredAlready(r) \/ RegistrationFails(r)
  \/ \E m \in Messages :
       \/ getOrgWebhookEndpoint(m) \/ notFound(m)
       \/ httpPost(m) \/ handleCommonErrors(m) \/ isValidUrl(m)

Spec == Init /\ [][Next]_vars

-----------------------------------------------------------------------------
TypeOK ==
  /\ notification \in [Orgs -> Urls \cup {Null}]
  /\ rpc \in [Registrations -> {"asked", "registered", "refused", "failed"}]
  /\ entry \in [Registrations -> [orgId : Orgs, notificationWebhook : Urls]]
  /\ mpc \in [Messages -> {"asked", "post", "check", "sent", "notFound", "failed", "invalidUrl"}]
  /\ clientCode \in [Messages -> Orgs] /\ webhook \in [Messages -> Urls \cup {Null}]
  /\ \A m \in Messages : mpc[m] \in {"post", "check", "sent", "failed", "invalidUrl"} => webhook[m] \in Urls
  /\ got \subseteq Messages \X Urls
  /\ faults \in 0..MaxFaults

(* A registration that is answered with success is the one in force: no    *)
(* later or concurrent one takes its place (notification.repository.ts     *)
(* 24-29, unique orgId).                                                   *)
RegisteredInForce ==
  \A r \in Registrations : rpc[r] = "registered" => StoredFor(r) = entry[r].notificationWebhook

(* A notification that is answered with success has arrived at the webhook *)
(* of its organisation (notification.service.ts 58-72).                    *)
SentHasArrived == \A m \in Messages : mpc[m] = "sent" => <<m, notification[clientCode[m]]>> \in got

(* A notification arrives nowhere but at the webhook its organisation has  *)
(* registered, also when it fails (47-58).                                 *)
ArrivesAtItsOwn == \A g \in got : g[2] = notification[clientCode[g[1]]]

================================================================================
