--------------------------- MODULE ClientCredentials ---------------------------
(***************************************************************************)
(* One user: the id and secret of the client that vouches for it at        *)
(* Keycloak, and its password, each kept or sent in plain text or under    *)
(* layers of encryption. Some readers take off a layer, some take one off  *)
(* if they can, and some take the value as it is; Keycloak takes plain     *)
(* text only. A value is the sequence of its layers, the outermost first.  *)
(***************************************************************************)
EXTENDS Sequences

CONSTANTS
  ClientForms,    \* how a frontend may send client id and secret
  PasswordForms   \* how it may send a password

Plain == <<>>
Json  == <<"json">>   \* dataEncryption: AES of the JSON text

(* What the constants have to be; the suites assume it of their instances. *)
ConstantsAssumption ==
  /\ ClientForms \subseteq Seq({"json", "text"})
  /\ PasswordForms \subseteq {Plain, Json}

VARIABLES
  row,      \* the user's row
  account,  \* the user's account at Keycloak
  last      \* the last request and how it ended

vars == <<row, account, last>>

NoPassword == "null"
NoRow == [made |-> FALSE, admin |-> FALSE, id |-> Plain, secret |-> Plain,
          stored |-> NoPassword, linked |-> FALSE, fido |-> FALSE]

(* Nobody has signed up yet, or the row is that of the administrator: as   *)
(* the seed writes it, or as the guide of its login describes it.          *)
Init ==
  /\ \/ row = NoRow /\ account = [made |-> FALSE, password |-> Plain]
     \/ /\ \E id \in {Plain, Json} :
             row = [NoRow EXCEPT !.made = TRUE, !.admin = TRUE, !.id = id,
                                 !.secret = Json, !.linked = TRUE]
        /\ account = [made |-> TRUE, password |-> Plain]
  /\ last = [op |-> "none", outcome |-> "accepted"]

Ends(op, outcome) == last' = [op |-> op, outcome |-> outcome]

-----------------------------------------------------------------------------
(* decryptPassword parses what it has decrypted as JSON, and fails else.   *)
Readable(v)        == v # Plain /\ Head(v) = "json"
decryptPassword(v) == Tail(v)

(* decryptString strips quotes.  Its callers keep what it cannot decrypt.  *)
decryptString(v) == IF v = Plain THEN v ELSE Tail(v)

LenientPassword(v) == IF Readable(v) THEN decryptPassword(v) ELSE v

(* Both are decrypted, or both are taken for plain text.                   *)
BothOrRaw(id, secret) ==
  IF Readable(id) /\ Readable(secret)
  THEN <<decryptPassword(id), decryptPassword(secret)>> ELSE <<id, secret>>

Keycloak(id, secret) == IF id = Plain /\ secret = Plain THEN "accepted" ELSE "rejected"

getManagementToken(id, secret) == Keycloak(id, secret)

getUserToken(password, id, secret) ==
  IF LenientPassword(password) = account.password
  THEN Keycloak(decryptString(id), decryptString(secret)) ELSE "rejected"

(* A user without an account is tried at Supabase, which knows nobody.     *)
generateToken(password) ==
  IF row.linked
  THEN getUserToken(password, decryptString(row.id), decryptString(row.secret))
  ELSE "refused"

-----------------------------------------------------------------------------
(* The first mail: the client must be known before the row is written,     *)
(* with the credentials as they came.                                      *)
sendVerificationMail(id, secret) ==
  LET c == BothOrRaw(id, secret)
      outcome == getManagementToken(c[1], c[2])
  IN /\ ~row.made
     /\ Ends("mail", outcome)
     /\ row' = IF outcome = "accepted"
               THEN [row EXCEPT !.made = TRUE, !.id = id, !.secret = secret] ELSE row
     /\ UNCHANGED account

Vouched ==
  LET c == BothOrRaw(row.id, row.secret) IN getManagementToken(c[1], c[2]) = "accepted"

(* The row keeps the password as it came, the account gets it decrypted.   *)
signUp(p) ==
  /\ row.made /\ ~row.linked /\ Vouched /\ Readable(p)
  /\ row' = [row EXCEPT !.stored = p, !.linked = TRUE]
  /\ account' = [made |-> TRUE, password |-> decryptPassword(p)]
  /\ Ends("signUp", "accepted")

(* The password is stored before it turns out that it cannot be decrypted. *)
signUpUnreadable(p) ==
  /\ row.made /\ ~row.linked /\ Vouched /\ ~Readable(p)
  /\ row' = [row EXCEPT !.stored = p]
  /\ Ends("signUp", "refused")
  /\ UNCHANGED account

login(p) ==
  /\ row.made
  /\ Ends("login", generateToken(LenientPassword(p)))
  /\ UNCHANGED <<row, account>>

registerDevice ==
  /\ row.linked /\ row' = [row EXCEPT !.fido = TRUE]
  /\ Ends("device", "accepted")
  /\ UNCHANGED account

StoredReadable == row.stored # NoPassword /\ Readable(row.stored)

loginWithPasskey ==
  /\ row.made /\ row.fido
  /\ Ends("passkey", IF StoredReadable THEN generateToken(decryptPassword(row.stored))
                     ELSE "refused")
  /\ UNCHANGED <<row, account>>

addPasskey(p) ==
  LET outcome == IF Readable(p) THEN generateToken(decryptPassword(p)) ELSE "unreadable"
  IN /\ row.linked
     /\ Ends("addPasskey", outcome)
     /\ row' = IF outcome = "accepted" THEN [row EXCEPT !.stored = p] ELSE row
     /\ UNCHANGED account

-----------------------------------------------------------------------------
(* Who changes a password decrypts both credentials, or gives up.          *)
Strict ==
  IF Readable(row.id) /\ Readable(row.secret)
  THEN getManagementToken(decryptPassword(row.id), decryptPassword(row.secret))
  ELSE "refused"

SetPassword(op, p, outcome) ==
  /\ Ends(op, outcome)
  /\ IF outcome = "accepted"
     THEN /\ account' = [made |-> TRUE, password |-> decryptPassword(p)]
          /\ row' = [row EXCEPT !.linked = TRUE, !.stored = IF row.fido THEN p ELSE @]
     ELSE UNCHANGED <<row, account>>

resetTokenPassword(p) ==
  /\ row.made
  /\ SetPassword("reset", p, IF Readable(p) THEN Strict ELSE "unreadable")

resetPassword(old, new) ==
  /\ row.made
  /\ SetPassword("change", new,
       IF ~Readable(old) \/ ~Readable(new) THEN "unreadable"
       ELSE IF generateToken(decryptPassword(old)) = "accepted" THEN Strict ELSE "refused")

getUserByUserIdInKeycloak ==
  /\ row.made
  /\ Ends("userInfo", Strict)
  /\ UNCHANGED <<row, account>>

(* A second layer of the secret is taken off that it does not have.        *)
getAccessToken(id, secret) ==
  IF Readable(secret) THEN Keycloak(id, decryptPassword(secret)) ELSE "refused"

refreshTokenDetails ==
  /\ row.linked
  /\ Ends("refresh", IF Readable(row.id) /\ Readable(row.secret)
                     THEN getAccessToken(decryptPassword(row.id), decryptPassword(row.secret))
                     ELSE "refused")
  /\ UNCHANGED <<row, account>>

(* The organisation service asks for a token with what the row holds, or,  *)
(* for the administrator, with the credentials of its environment.         *)
manageOrganization ==
  /\ row.linked
  /\ Ends("manage", IF row.admin THEN "accepted" ELSE getManagementToken(row.id, row.secret))
  /\ UNCHANGED <<row, account>>

Next ==
  \/ \E id, secret \in ClientForms : sendVerificationMail(id, secret)
  \/ \E p \in PasswordForms :
       signUp(p) \/ signUpUnreadable(p) \/ login(p) \/ addPasskey(p) \/ resetTokenPassword(p)
  \/ \E old, new \in PasswordForms : resetPassword(old, new)
  \/ registerDevice \/ loginWithPasskey \/ getUserByUserIdInKeycloak
  \/ refreshTokenDetails \/ manageOrganization

Spec == Init /\ [][Next]_vars

-----------------------------------------------------------------------------
Outcomes == {"accepted", "rejected", "refused", "unreadable"}

TypeOK ==
  /\ row.made \in BOOLEAN /\ row.admin \in BOOLEAN /\ row.fido \in BOOLEAN
  /\ {row.id, row.secret} \subseteq ClientForms \cup {Plain, Json}
  /\ row.stored = NoPassword \/ row.stored \in PasswordForms
  /\ account \in [made : BOOLEAN, password : {Plain, Json}]
  /\ row.linked => row.made /\ account.made
  /\ last.outcome \in Outcomes

(* Whatever wrote it, the account's password is what the user types        *)
(* (user.service 354-362, 685-694, 741-762).                               *)
AccountHasPassword == account.made => account.password = Plain

(* Whoever has an account signs in with the right password, whether the    *)
(* credentials of the client are stored encrypted or not and whether the   *)
(* frontend encrypts the password or not (user.service 529-542, 1288-1331, *)
(* client-registration.service 827-885).                                   *)
SignInServed == row.linked /\ last.op = "login" => last.outcome = "accepted"

(* With the credentials stored encrypted, its password can be reset and    *)
(* changed, and the user be looked up at Keycloak, whenever the passwords  *)
(* that come can be decrypted (user.service 685-698, 741-763, 1248-1252).  *)
EncryptedServed ==
  row.linked /\ row.id = Json /\ row.secret = Json /\ last.op \in {"reset", "change", "userInfo"}
    => last.outcome \in {"accepted", "unreadable"}

================================================================================
