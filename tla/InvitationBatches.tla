--------------------------- MODULE InvitationBatches ---------------------------
(***************************************************************************)
(* createInvitation takes a list of invitations to one organisation and    *)
(* works through it: the roles are looked up, an open invitation of the    *)
(* address is looked for, the row is written and the mail is sent. What    *)
(* fails ends the request and leaves the rows before it; whoever sends     *)
(* the list again finds them there. OrgMembership has the answers and      *)
(* what becomes of the roles; here it is the list, the mail and the        *)
(* address.                                                                *)
(***************************************************************************)
EXTENDS Naturals, Sequences, FiniteSets

CONSTANTS
  Requests,
  Lists,       \* lists of invitations: [email, roles]
  Lower,       \* address -> how the user service writes it
  Inviter,     \* the address of who invites
  RoleIds,     \* ids a request may name
  Roles,       \* those of the roles there are
  Registered,  \* the organisation is a client of Keycloak
  Overlap,     \* bound: requests under way at once
  MaxFaults    \* bound: mails and calls that fail

(* What the constants have to be; the suites assume it of their instances. *)
ConstantsAssumption ==
  /\ \A l \in Lists : l \in Seq([email : DOMAIN Lower, roles : SUBSET RoleIds \ {{}}])
  /\ Inviter \in DOMAIN Lower /\ Roles \subseteq RoleIds /\ Registered \in BOOLEAN
  /\ Overlap \in Nat \ {0} /\ MaxFaults \in Nat

VARIABLES
  rows,      \* org_invitations: <<request, place in its list>>
  rejected,  \* those their invitee has rejected
  mailed,    \* those whose mail was sent
  pc, list,
  at,        \* place of the invitation in hand
  crossed,   \* requests that were under way at the same time as another one
  faults

vars == <<rows, rejected, mailed, pc, list, at, crossed, faults>>

Init ==
  /\ rows = {} /\ rejected = {} /\ mailed = {}
  /\ pc = [r \in Requests |-> "idle"]
  /\ list \in [Requests -> Lists]
  /\ at = [r \in Requests |-> 1]
  /\ crossed = {}
  /\ faults = 0

EmailOf(row) == list[row[1]][row[2]].email
RolesOf(row) == list[row[1]][row[2]].roles
Open         == rows \ rejected

InHand(r) == <<r, at[r]>>
UnderWay  == {r \in Requests : pc[r] \in {"roles", "exists", "create", "mail", "activity"}}
Fault     == faults < MaxFaults /\ faults' = faults + 1

Goes(r, next) == pc' = [pc EXCEPT ![r] = next]

(* The next invitation of the list, or the end of it.                      *)
NextInvitation(r) ==
  /\ at' = [at EXCEPT ![r] = @ + 1]
  /\ Goes(r, IF at[r] = Len(list[r]) THEN "activity" ELSE "roles")

-----------------------------------------------------------------------------
createInvitation(r) ==
  /\ pc[r] = "idle" /\ Cardinality(UnderWay) < Overlap
  /\ Goes(r, IF list[r] = <<>> THEN "activity" ELSE "roles")
  /\ crossed' = IF UnderWay = {} THEN crossed ELSE crossed \cup UnderWay \cup {r}
  /\ UNCHANGED <<rows, rejected, mailed, list, at, faults>>

(* By roles of the client all have to be found, by those of the table one. *)
RolesFound(r) ==
  IF Registered THEN RolesOf(InHand(r)) \subseteq Roles
                ELSE RolesOf(InHand(r)) \cap Roles # {}

CheckRoles(r) ==
  /\ pc[r] = "roles" /\ RolesFound(r)
  /\ Goes(r, "exists")
  /\ UNCHANGED <<rows, rejected, mailed, list, at, crossed, faults>>

orgRoleIdNotFound(r) ==
  /\ pc[r] = "roles" /\ ~RolesFound(r)
  /\ Goes(r, "failed")
  /\ UNCHANGED <<rows, rejected, mailed, list, at, crossed, faults>>

checkInvitationExist(r) == \E row \in Open : EmailOf(row) = EmailOf(InHand(r))

ToInvite(r) ==
  /\ pc[r] = "exists"
  /\ ~checkInvitationExist(r) /\ EmailOf(InHand(r)) # Inviter
  /\ Goes(r, "create")
  /\ UNCHANGED <<rows, rejected, mailed, list, at, crossed, faults>>

(* Wrong on purpose: who is invited already ends the list.                 *)
EndsTheList(r) ==
  /\ pc[r] = "exists"
  /\ checkInvitationExist(r) \/ EmailOf(InHand(r)) = Inviter
  /\ Goes(r, "activity")
  /\ UNCHANGED <<rows, rejected, mailed, list, at, crossed, faults>>

PassedOver(r) ==
  /\ pc[r] = "exists"
  /\ checkInvitationExist(r) \/ EmailOf(InHand(r)) = Inviter
  /\ NextInvitation(r)
  /\ UNCHANGED <<rows, rejected, mailed, list, crossed, faults>>

createSendInvitation(r) ==
  /\ pc[r] = "create"
  /\ rows' = rows \cup {InHand(r)}
  /\ Goes(r, "mail")
  /\ UNCHANGED <<rejected, mailed, list, at, crossed, faults>>

sendInviteEmailTemplate(r) ==
  /\ pc[r] = "mail"
  /\ mailed' = mailed \cup {InHand(r)}
  /\ NextInvitation(r)
  /\ UNCHANGED <<rows, rejected, list, crossed, faults>>

(* sendEmail answers false, and nobody looks at the answer.                *)
MailNotSent(r) ==
  /\ pc[r] = "mail" /\ Fault
  /\ NextInvitation(r)
  /\ UNCHANGED <<rows, rejected, mailed, list, crossed>>

(* A query or a call of another service fails; after the row is written it *)
(* is the configuration the mail needs.                                    *)
CallFails(r) ==
  /\ r \in UnderWay /\ Fault
  /\ Goes(r, "failed")
  /\ UNCHANGED <<rows, rejected, mailed, list, at, crossed>>

createActivity(r) ==
  /\ pc[r] = "activity"
  /\ Goes(r, "created")
  /\ UNCHANGED <<rows, rejected, mailed, list, at, crossed, faults>>

(* An invitee rejects what it finds by the address of its own record.      *)
Visible(row) == EmailOf(row) = Lower[EmailOf(row)]

Rejects(row) ==
  /\ row \in Open /\ Visible(row)
  /\ rejected' = rejected \cup {row}
  /\ UNCHANGED <<rows, mailed, pc, list, at, crossed, faults>>

Invite(r) ==
  \/ createInvitation(r) \/ CheckRoles(r) \/ orgRoleIdNotFound(r)
  \/ ToInvite(r) \/ PassedOver(r) \/ createSendInvitation(r)
  \/ sendInviteEmailTemplate(r) \/ MailNotSent(r) \/ CallFails(r) \/ createActivity(r)

Next ==
  \/ \E r \in Requests : Invite(r)
  \/ \E row \in rows : Rejects(row)

Spec == Init /\ [][Next]_vars

-----------------------------------------------------------------------------
Created(r)    == {<<r, i>> : i \in {i \in 1..Len(list[r]) : list[r][i].email # Inviter}}
Answering(row) == {other \in rows : EmailOf(other) = EmailOf(row)}

TypeOK ==
  /\ rows \subseteq UNION {{<<r, i>> : i \in 1..Len(list[r])} : r \in Requests}
  /\ rejected \subseteq rows /\ mailed \subseteq rows
  /\ \A r \in Requests : at[r] \in 1..(Len(list[r]) + 1)

(* An address has one open invitation to the organisation at most, within  *)
(* a list and over lists that are sent again (organization.service.ts      *)
(* 1054-1058), unless two lists were worked through at a time.             *)
OneOpen ==
  \A row, other \in Open :
    EmailOf(row) = EmailOf(other) => row = other \/ {row[1], other[1]} \subseteq crossed

(* A list that is answered with success has every address on it invited,   *)
(* now or before (1095-1137).                                              *)
CreatedIsInvited ==
  \A r \in Requests : pc[r] = "created" => \A row \in Created(r) : Answering(row) # {}

(* ... and every one of them has been sent the mail, unless something      *)
(* failed, or is still to be sent by another request.                      *)
CreatedIsMailed ==
  \A r \in Requests \ crossed : pc[r] = "created" /\ faults = 0 =>
    \A row \in Created(r) : Answering(row) \cap mailed # {}

(* An invitation names roles there are: whoever accepts it gets a row for  *)
(* each of them (1048-1052, 1104-1110), if all of them are looked for.     *)
RolesThere == Registered => \A row \in rows : RolesOf(row) \subseteq Roles

================================================================================
