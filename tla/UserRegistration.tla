------------------------- MODULE UserRegistration -------------------------
(***************************************************************************)
(* One e-mail address: its row in the table of users and its account at    *)
(* Keycloak. Requests to mail a code, to verify it, to sign up, to mail a  *)
(* reset token, to reset or change the password and to store it for        *)
(* passkeys run side by side. The password a request brings is named by    *)
(* the request, and so are the code and the token that it makes.           *)
(***************************************************************************)
EXTENDS Integers, FiniteSets

CONSTANTS
  Requests,
  None,        \* no code, password or token
  MayAsk,      \* what a request may be about
  MaxFaults    \* bound: calls of mail, Keycloak or database that fail

Kinds   == {"mail", "verify", "signup", "signupPasskey", "forgot", "reset",
            "change", "addPasskey"}
Writers == {"signup", "signupPasskey", "reset", "change", "addPasskey"}

ASSUME ConstantsAssumption ==
  /\ None \notin Requests
  /\ MayAsk \in [Requests -> SUBSET Kinds]
  /\ MaxFaults \in Nat

Names == Requests \cup {None}

VARIABLES
  row,       \* the user's row
  account,   \* the user's account at Keycloak
  granted,   \* the account has the realm role mb-user
  mappings,  \* rows that make the user a holder
  mailed,    \* codes and tokens that have been mailed
  tokens,    \* reset tokens in the database
  expired,   \* those whose hour is over
  job,       \* how far a request has come, and what it has read
  agreed,    \* the last writer of a password wrote both stores, undisturbed
  linkedBy,  \* the request that wrote the account's id in the row
  faults

vars == <<row, account, granted, mappings, mailed, tokens, expired, job, agreed,
          linkedBy, faults>>

people == <<row, account, granted, mappings>>
notes  == <<mailed, tokens, expired>>

Idle == [kind |-> "none", pc |-> "idle", linked |-> FALSE, fido |-> FALSE, ref |-> None,
         brings |-> None, alone |-> TRUE, adopted |-> FALSE, answer |-> "none"]

Init ==
  /\ row = [made |-> FALSE, verified |-> FALSE, linked |-> FALSE, fido |-> FALSE,
            code |-> None, stored |-> None]
  /\ account = [made |-> FALSE, password |-> None]
  /\ granted = FALSE
  /\ mappings = {}
  /\ mailed = {} /\ tokens = {} /\ expired = {}
  /\ job = [r \in Requests |-> Idle]
  /\ agreed = TRUE
  /\ linkedBy = None
  /\ faults = 0

-----------------------------------------------------------------------------
InFlight(r) == job[r].pc \notin {"idle", "over"}
Writing(r)  == InFlight(r) /\ job[r].kind \in Writers
At(r, kinds, pc) == job[r].kind \in kinds /\ job[r].pc = pc
Go(r, to)        == job' = [job EXCEPT ![r].pc = to]
Answer(r, a)     == job' = [job EXCEPT ![r].pc = "over", ![r].answer = a]
Fault            == faults < MaxFaults /\ faults' = faults + 1

\* A request arrives: with a code or a token of a mail, or the old password.
Ask(r, k, ref) ==
  /\ job[r].pc = "idle"
  /\ k \in MayAsk[r]
  /\ ref \in IF k \in {"verify", "reset"} THEN mailed
             ELSE IF k = "change" THEN Requests ELSE {None}
  /\ job' = [q \in Requests |->
       IF q = r THEN [Idle EXCEPT !.kind = k, !.pc = "look", !.ref = ref, !.brings = r,
                                  !.alone = ~\E w \in Requests : Writing(w)]
       ELSE IF Writing(q) /\ k \in Writers THEN [job[q] EXCEPT !.alone = FALSE] ELSE job[q]]
  /\ UNCHANGED <<people, notes, agreed, linkedBy, faults>>

\* A writer fails: it may have written one store and not the other.
Fails(r) ==
  /\ Answer(r, "failed")
  /\ agreed' = (agreed /\ job[r].kind \notin Writers)
  /\ UNCHANGED linkedBy

\* A writer ends: both stores have its password if it was alone with them.
Ends(r, both) ==
  /\ Answer(r, "done")
  /\ agreed' = (job[r].alone /\ both)
  /\ UNCHANGED linkedBy

Refuse(r) ==
  /\ Answer(r, "refused")
  /\ UNCHANGED <<people, notes, agreed, linkedBy, faults>>

-----------------------------------------------------------------------------
\* sendVerificationMail: the code is mailed, then written.

LookNew(r) ==
  /\ At(r, {"mail"}, "look")
  /\ ~row.made
  /\ Go(r, "mail")
  /\ UNCHANGED <<people, notes, agreed, linkedBy, faults>>

LookKnown(r) ==
  /\ At(r, {"mail"}, "look")
  /\ row.made
  /\ Refuse(r)

SendCode(r) ==
  /\ At(r, {"mail"}, "mail")
  /\ mailed' = mailed \cup {r}
  /\ Go(r, "row")
  /\ UNCHANGED <<people, tokens, expired, agreed, linkedBy, faults>>

\* Neither the redirection URL nor the mail, or no row after it.
MailFails(r) ==
  /\ job[r].kind = "mail" /\ job[r].pc \in {"mail", "row"}
  /\ Fault
  /\ Fails(r)
  /\ UNCHANGED <<people, notes>>

\* An upsert: a row that another request has made gets the later code.
SaveRow(r) ==
  /\ At(r, {"mail"}, "row")
  /\ row' = [row EXCEPT !.made = TRUE, !.code = r]
  /\ Answer(r, "done")
  /\ UNCHANGED <<account, granted, mappings, notes, agreed, linkedBy, faults>>

-----------------------------------------------------------------------------
\* verifyEmail.

CheckCode(r) ==
  /\ At(r, {"verify"}, "look")
  /\ row.code = job[r].ref /\ ~row.verified
  /\ Go(r, "verify")
  /\ UNCHANGED <<people, notes, agreed, linkedBy, faults>>

WrongCode(r) ==
  /\ At(r, {"verify"}, "look")
  /\ row.code # job[r].ref \/ row.verified
  /\ Refuse(r)

VerifyUser(r) ==
  /\ At(r, {"verify"}, "verify")
  /\ row' = [row EXCEPT !.verified = TRUE]
  /\ Answer(r, "done")
  /\ UNCHANGED <<account, granted, mappings, notes, agreed, linkedBy, faults>>

-----------------------------------------------------------------------------
\* createUserForToken: the password is stored, the account made, its id
\* written in the row, the roles given.

SignUps == {"signup", "signupPasskey"}

LookVerified(r) ==
  /\ At(r, SignUps, "look")
  /\ row.made /\ row.verified /\ ~row.linked
  /\ Go(r, "store")
  /\ UNCHANGED <<people, notes, agreed, linkedBy, faults>>

LookUnready(r) ==
  /\ At(r, SignUps, "look")
  /\ ~row.made \/ ~row.verified \/ row.linked
  /\ Refuse(r)

StorePassword(r) ==
  /\ At(r, SignUps, "store")
  /\ row' = [row EXCEPT !.stored = job[r].brings]
  /\ Go(r, IF job[r].kind = "signup" THEN "account" ELSE "reread")
  /\ UNCHANGED <<account, granted, mappings, notes, agreed, linkedBy, faults>>

\* For a passkey the account gets whatever password the row has by then.
RereadPassword(r) ==
  /\ At(r, {"signupPasskey"}, "reread")
  /\ job' = [job EXCEPT ![r].brings = row.stored, ![r].pc = "account"]
  /\ UNCHANGED <<people, notes, agreed, linkedBy, faults>>

\* createUser of the registration library makes the account without password.
PostAccount(r) ==
  /\ At(r, SignUps \cup {"reset"}, "account")
  /\ ~account.made
  /\ account' = [account EXCEPT !.made = TRUE]
  /\ Go(r, "password")
  /\ UNCHANGED <<row, granted, mappings, notes, agreed, linkedBy, faults>>

\* A sign-up without passkey takes the account it finds for the address.
AdoptAccount(r) ==
  /\ At(r, {"signup"}, "account")
  /\ account.made
  /\ job' = [job EXCEPT ![r].adopted = TRUE, ![r].pc = "link"]
  /\ UNCHANGED <<people, notes, agreed, linkedBy, faults>>

AccountExists(r) ==
  /\ At(r, {"signupPasskey", "reset"}, "account")
  /\ account.made
  /\ Fails(r)
  /\ UNCHANGED <<people, notes, faults>>

\* No token, no answer of Keycloak, or one that is lost.
AccountFails(r) ==
  /\ At(r, SignUps \cup {"reset"}, "account")
  /\ Fault
  /\ account' \in {account, [account EXCEPT !.made = TRUE]}
  /\ Fails(r)
  /\ UNCHANGED <<row, granted, mappings, notes>>

\* An account that was there when the request began has its id in the row.
SetPassword(r) ==
  /\ At(r, SignUps \cup {"reset", "change"}, "password")
  /\ account' = [account EXCEPT !.password = job[r].brings]
  /\ Go(r, IF job[r].linked THEN "fido" ELSE "link")
  /\ UNCHANGED <<row, granted, mappings, notes, agreed, linkedBy, faults>>

\* The account is not found, or its password is not set.
PasswordFails(r) ==
  /\ At(r, SignUps \cup {"reset", "change"}, "password")
  /\ Fault
  /\ Fails(r)
  /\ UNCHANGED <<people, notes>>

\* Writing the account's id marks the address as verified once more.
LinkAccount(r) ==
  /\ At(r, SignUps \cup {"reset"}, "link")
  /\ row' = [row EXCEPT !.linked = TRUE, !.verified = TRUE]
  /\ Go(r, IF job[r].kind = "reset" THEN "fido" ELSE "holder")
  /\ linkedBy' = r
  /\ UNCHANGED <<account, granted, mappings, notes, agreed, faults>>

\* Only a user who asks to be a holder gets a row that says so.
StoreHolder(r) ==
  /\ At(r, SignUps, "holder")
  /\ mappings' \in {mappings, mappings \cup {r}}
  /\ Go(r, "role")
  /\ UNCHANGED <<row, account, granted, notes, agreed, linkedBy, faults>>

\* The realm role; whether the organisation role follows is only logged.
GrantRole(r) ==
  /\ At(r, SignUps, "role")
  /\ granted' = TRUE
  /\ Ends(r, ~job[r].adopted)
  /\ UNCHANGED <<row, account, mappings, notes, faults>>

\* The row or a role cannot be written, or the realm has no role mb-user.
SignUpFails(r) ==
  /\ job[r].kind \in SignUps /\ job[r].pc \in {"store", "link", "holder", "role"}
  /\ Fault
  /\ Fails(r)
  /\ UNCHANGED <<people, notes>>

-----------------------------------------------------------------------------
\* forgotPassword: the token is written, then mailed; it is good for an hour.

LookForgetful(r) ==
  /\ At(r, {"forgot"}, "look")
  /\ row.made /\ row.verified
  /\ tokens' = tokens \cup {r}
  /\ Go(r, "mail")
  /\ UNCHANGED <<people, mailed, expired, agreed, linkedBy, faults>>

LookUnverified(r) ==
  /\ At(r, {"forgot", "reset", "change", "addPasskey"}, "look")
  /\ ~row.made \/ ~row.verified
  /\ Refuse(r)

SendToken(r) ==
  /\ At(r, {"forgot"}, "mail")
  /\ mailed' = mailed \cup {r}
  /\ Answer(r, "done")
  /\ UNCHANGED <<people, tokens, expired, agreed, linkedBy, faults>>

TokenMailFails(r) ==
  /\ At(r, {"forgot"}, "mail")
  /\ Fault
  /\ Fails(r)
  /\ UNCHANGED <<people, notes>>

Expire(t) ==
  /\ t \in tokens \ expired
  /\ expired' = expired \cup {t}
  /\ UNCHANGED <<people, mailed, tokens, job, agreed, linkedBy, faults>>

-----------------------------------------------------------------------------
\* resetTokenPassword: an account without one in the row is made here too.

LookToken(r) ==
  /\ At(r, {"reset"}, "look")
  /\ row.made /\ row.verified
  /\ job[r].ref \in tokens \ expired
  /\ job' = [job EXCEPT ![r].linked = row.linked, ![r].fido = row.fido,
                        ![r].pc = IF row.linked THEN "password" ELSE "account"]
  /\ UNCHANGED <<people, notes, agreed, linkedBy, faults>>

LookNoToken(r) ==
  /\ At(r, {"reset"}, "look")
  /\ row.made /\ row.verified
  /\ job[r].ref \notin tokens \ expired
  /\ Refuse(r)

\* Wrong on purpose: the stored password follows only users without passkey.
NoFidoPassword(r) ==
  /\ At(r, {"reset", "change"}, "fido")
  /\ row' = IF job[r].fido THEN row ELSE [row EXCEPT !.stored = job[r].brings]
  /\ IF job[r].kind = "reset" THEN Go(r, "token") /\ UNCHANGED <<agreed, linkedBy>>
     ELSE Ends(r, job[r].fido)
  /\ UNCHANGED <<account, granted, mappings, notes, faults>>

\* updateFidoVerifiedUser: the stored password follows for passkey users.
FidoPassword(r) ==
  /\ At(r, {"reset", "change"}, "fido")
  /\ row' = IF job[r].fido THEN [row EXCEPT !.stored = job[r].brings] ELSE row
  /\ IF job[r].kind = "reset" THEN Go(r, "token") /\ UNCHANGED <<agreed, linkedBy>>
     ELSE Ends(r, job[r].fido)
  /\ UNCHANGED <<account, granted, mappings, notes, faults>>

DeleteToken(r) ==
  /\ At(r, {"reset"}, "token")
  /\ job[r].ref \in tokens
  /\ tokens' = tokens \ {job[r].ref}
  /\ Ends(r, job[r].fido)
  /\ UNCHANGED <<people, mailed, expired, faults>>

\* The database does not delete what is not there; the password is set.
TokenGone(r) ==
  /\ At(r, {"reset"}, "token")
  /\ job[r].ref \notin tokens
  /\ Fails(r)
  /\ UNCHANGED <<people, notes, faults>>

ResetFails(r) ==
  /\ At(r, {"reset", "change"}, "fido") \/ At(r, {"reset"}, "link") \/ At(r, {"reset"}, "token")
  /\ Fault
  /\ Fails(r)
  /\ UNCHANGED <<people, notes>>

-----------------------------------------------------------------------------
\* resetPassword: Keycloak tells whether the old password is right.

LookOldPassword(r) ==
  /\ At(r, {"change"}, "look")
  /\ row.made /\ row.verified
  /\ row.linked /\ account.password = job[r].ref /\ job[r].ref # r
  /\ job' = [job EXCEPT ![r].linked = TRUE, ![r].fido = row.fido, ![r].pc = "password"]
  /\ UNCHANGED <<people, notes, agreed, linkedBy, faults>>

WrongOldPassword(r) ==
  /\ At(r, {"change"}, "look")
  /\ row.made /\ row.verified
  /\ ~row.linked \/ account.password # job[r].ref \/ job[r].ref = r
  /\ Refuse(r)

\* addPasskey: the password that Keycloak takes is stored for passkeys.

RightPassword(r) ==
  /\ At(r, {"addPasskey"}, "look")
  /\ row.linked /\ row.verified /\ account.password # None
  /\ job' = [job EXCEPT ![r].brings = account.password, ![r].pc = "keep"]
  /\ UNCHANGED <<people, notes, agreed, linkedBy, faults>>

\* Not signed up, or a password that Keycloak does not take.
WrongPassword(r) ==
  /\ At(r, {"addPasskey"}, "look")
  /\ row.made /\ row.verified
  /\ Refuse(r)

KeepPassword(r) ==
  /\ At(r, {"addPasskey"}, "keep")
  /\ row' = [row EXCEPT !.stored = job[r].brings]
  /\ Ends(r, TRUE)
  /\ UNCHANGED <<account, granted, mappings, notes, faults>>

\* A passkey device is registered; nothing takes the mark back.
RegisterDevice ==
  /\ row.linked
  /\ row' = [row EXCEPT !.fido = TRUE]
  /\ UNCHANGED <<account, granted, mappings, notes, job, agreed, linkedBy, faults>>

-----------------------------------------------------------------------------
Handle(r) ==
  \/ LookNew(r) \/ LookKnown(r) \/ SendCode(r) \/ MailFails(r) \/ SaveRow(r)
  \/ CheckCode(r) \/ WrongCode(r) \/ VerifyUser(r)
  \/ LookVerified(r) \/ LookUnready(r) \/ StorePassword(r) \/ RereadPassword(r)
  \/ PostAccount(r) \/ AdoptAccount(r) \/ AccountExists(r) \/ AccountFails(r)
  \/ SetPassword(r) \/ PasswordFails(r) \/ LinkAccount(r) \/ StoreHolder(r)
  \/ GrantRole(r) \/ SignUpFails(r)
  \/ LookForgetful(r) \/ LookUnverified(r) \/ SendToken(r) \/ TokenMailFails(r)
  \/ LookToken(r) \/ LookNoToken(r) \/ FidoPassword(r) \/ DeleteToken(r) \/ TokenGone(r)
  \/ ResetFails(r)
  \/ LookOldPassword(r) \/ WrongOldPassword(r)
  \/ RightPassword(r) \/ WrongPassword(r) \/ KeepPassword(r)

Next ==
  \/ \E r \in Requests : Handle(r)
  \/ \E r \in Requests, k \in Kinds, ref \in Names : Ask(r, k, ref)
  \/ \E t \in Requests : Expire(t)
  \/ RegisterDevice

Spec == Init /\ [][Next]_vars

-----------------------------------------------------------------------------
TypeOK ==
  /\ row \in [made : BOOLEAN, verified : BOOLEAN, linked : BOOLEAN, fido : BOOLEAN,
              code : Names, stored : Names]
  /\ account \in [made : BOOLEAN, password : Names]
  /\ granted \in BOOLEAN
  /\ {mappings, mailed, tokens, expired} \subseteq SUBSET Requests
  /\ \A r \in Requests :
       /\ job[r].kind \in MayAsk[r] \cup {"none"}
       /\ job[r].answer \in {"none", "done", "refused", "failed"}
       /\ job[r].pc \in {"idle", "look", "mail", "row", "verify", "store", "reread", "account",
                         "password", "link", "holder", "role", "fido", "token", "keep", "over"}
       /\ {job[r].ref, job[r].brings} \subseteq Names
       /\ (job[r].answer = "none") = (job[r].pc # "over")
  /\ agreed \in BOOLEAN
  /\ linkedBy \in Names
  /\ faults \in 0..MaxFaults

\* A row that waits for its code waits for one that has been mailed: nobody
\* can be left with a row, no mail, and "verification mail already sent".
WaitsForMailedCode == (row.made /\ ~row.verified) => row.code \in mailed

\* An address counts as verified only after someone brought its mailed code,
\* although writing the account's id in the row sets the mark as well.
VerifiedByMail ==
  row.verified =>
    \E r \in Requests : /\ job[r].kind = "verify" /\ job[r].answer = "done"
                       /\ job[r].ref \in mailed

\* A linked account lacks its role only while the sign-up is under way, or if
\* it failed after the link, or if a reset made the account.
RoleBehindLink ==
  (row.linked /\ ~granted) =>
    \/ job[linkedBy].kind = "reset"
    \/ InFlight(linkedBy)
    \/ job[linkedBy].answer = "failed"

\* An account without a password is behind a successful sign-up only if that
\* sign-up took over an account it found.
PasswordBehindSignUp ==
  \A r \in Requests :
    /\ job[r].kind \in SignUps /\ job[r].answer = "done"
    /\ account.password = None
    => job[r].adopted

\* Of those who use one reset token only one is told that it worked.
TokenWorksOnce ==
  \A r, q \in Requests :
    /\ job[r].kind = "reset" /\ job[r].answer = "done"
    /\ job[q].kind = "reset" /\ job[q].answer = "done"
    /\ job[r].ref = job[q].ref
    => r = q

\* A request that wrote both passwords, undisturbed, leaves the row with the
\* password of the account: that is what signs a passkey user in.
PasswordsAgree ==
  (agreed /\ ~\E r \in Requests : Writing(r)) => row.stored = account.password

\* Nobody waits for a code that was not mailed, is verified without one, or
\* ends a sign-up without role and password; a reset token works once, though it
\* is read, used and deleted in three steps; and the password of the row and that
\* of the account, written by four operations in different orders, agree after an
\* undisturbed one, but for the causes named above.
RegistrationKept ==
  /\ TypeOK /\ WaitsForMailedCode /\ VerifiedByMail
  /\ RoleBehindLink /\ PasswordBehindSignUp /\ TokenWorksOnce
  /\ PasswordsAgree
=============================================================================
