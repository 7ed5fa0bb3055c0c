------------------------------ MODULE MCUsers ------------------------------
(***************************************************************************)
(* Small instances of Users for TLC.                                       *)
(***************************************************************************)
EXTENDS Users, Sequences, TLC

CONSTANTS
  m1, m2,       \* requests that compete for the mail of a code or a reset token
  d1, d2,       \* devices
  s1, s2, s3    \* sign-ins

\* Requests that ask for the same are interchangeable, and so are devices and
\* sign-ins.
Symmetry == Permutations({m1, m2}) \cup Permutations({d1, d2}) \cup
            Permutations({s1, s2, s3})

\* One request for each step of a user's way, and two or three that compete.
SigningUp == m1 :> {"mail"} @@ m2 :> {"mail"} @@ "c" :> {"verify"} @@
             "d" :> {"signup", "signupPasskey"} @@ "e" :> {"signup"}
Resetting == "a" :> {"mail"} @@ "b" :> {"verify"} @@ "c" :> {"signup", "forgot"} @@
             "d" :> {"forgot"} @@ m1 :> {"reset"} @@ m2 :> {"reset"}
Rewriting == "a" :> {"mail"} @@ "b" :> {"verify"} @@ "c" :> {"signup"} @@
             "d" :> {"forgot", "change"} @@ "e" :> {"reset", "change", "addPasskey"}

\* Who takes part in which way, and what with.
Casts == "signups" :> SigningUp @@ "resets" :> Resetting @@ "writes" :> Rewriting
Ways == [r \in Requests |-> UNION {Casts[p][r] : p \in {q \in DOMAIN Casts : r \in DOMAIN Casts[q]}}]

\* Every form a frontend may use, credentials encrypted twice among them.
JsonForm == <<"json">>
AllForms == {<<>>, JsonForm, <<"text">>, JsonForm \o JsonForm}
TwoForms == {<<>>, JsonForm}
=============================================================================
