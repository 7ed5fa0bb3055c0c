--------------------------- MODULE UsersProofs ---------------------------
(***************************************************************************)
(* What TLAPS proves of UserRegistration for any number of requests, each  *)
(* about anything, and any number of failures, and of the devices and      *)
(* credentials that Users puts next to it.                                 *)
(***************************************************************************)
EXTENDS Users, Sequences, FiniteSetTheorems, SequenceTheorems, TLAPS

-----------------------------------------------------------------------------
\* The invariants behind the theorems.

Pcs == {"idle", "look", "mail", "row", "verify", "store", "reread", "account",
        "password", "link", "holder", "role", "fido", "token", "keep", "over"}

Job == [kind : Kinds \cup {"none"}, pc : Pcs, linked : BOOLEAN, fido : BOOLEAN, ref : Names,
        brings : Names, alone : BOOLEAN, adopted : BOOLEAN,
        answer : {"none", "done", "refused", "failed"}]

Typed == TypeOK /\ job \in [Requests -> Job]

\* A request reaches the places of its kind.
Fits(r) ==
  /\ (job[r].pc = "idle") = (job[r].kind = "none")
  /\ job[r].pc = "row" => job[r].kind = "mail"
  /\ job[r].pc = "mail" => job[r].kind \in {"mail", "forgot"}
  /\ job[r].pc = "verify" => job[r].kind = "verify"
  /\ job[r].pc \in {"store", "holder", "role"} => job[r].kind \in SignUps
  /\ job[r].pc = "reread" => job[r].kind = "signupPasskey"
  /\ job[r].pc \in {"account", "link"} => job[r].kind \in SignUps \cup {"reset"}
  /\ job[r].pc = "password" => job[r].kind \in SignUps \cup {"reset", "change"}
  /\ job[r].pc = "fido" => job[r].kind \in {"reset", "change"}
  /\ job[r].pc = "token" => job[r].kind = "reset"
  /\ job[r].pc = "keep" => job[r].kind = "addPasskey"
  /\ job[r].linked => job[r].kind \in {"reset", "change"}
  /\ job[r].kind = "change" /\ job[r].pc = "password" => job[r].linked
  /\ job[r].adopted => job[r].kind = "signup"

\* What a request has read or done at the places it has reached: the code is
\* mailed before it is written, the address is verified before a password is.
Reached(r) ==
  /\ job[r].pc = "row" => r \in mailed
  /\ job[r].kind \in {"verify", "reset"} => job[r].ref \in mailed
  /\ job[r].kind \in Writers /\ job[r].pc \in Pcs \ {"look", "over"} => row.verified
  /\ job[r].pc # "idle" => job[r].brings \in Requests
  /\ job[r].pc = "reread" => row.stored \in Requests
  /\ r \in mailed \cup tokens => job[r].pc \notin {"idle", "look"}

JobsFit == \A r \in Requests : Fits(r) /\ Reached(r)

\* Who has written the account's id goes on to the role, or has failed.
LinkersGrant ==
  row.linked =>
    /\ linkedBy \in Requests
    /\ \/ job[linkedBy].kind = "reset"
       \/ job[linkedBy].pc \in {"holder", "role"}
       \/ job[linkedBy].answer = "failed"
       \/ job[linkedBy].pc = "over" /\ granted

\* Past the account's making, an account without a password was found.
AccountsHavePassword ==
  \A r \in Requests :
    /\ job[r].kind \in SignUps
    /\ job[r].pc \in {"link", "holder", "role"} \/ job[r].answer = "done"
    /\ account.password = None
    => job[r].adopted

\* A token that worked is gone, and no request makes it again.
TokensUsedUp ==
  \A r \in Requests : job[r].kind = "reset" /\ job[r].answer = "done" => job[r].ref \notin tokens

\* A writer who is alone is the only one, and the stores hold what it has
\* written by then.
AloneIsAlone ==
  \A r, w \in Requests : Writing(r) /\ Writing(w) /\ job[r].alone => r = w

StoresOf(r) ==
  /\ job[r].kind \in SignUps /\ job[r].pc \in {"account", "password", "link", "holder", "role"} =>
       row.stored = job[r].brings
  /\ job[r].pc \in {"link", "holder", "role", "fido", "token"} /\ ~job[r].adopted =>
       account.password = job[r].brings
  /\ job[r].pc = "token" /\ job[r].fido => row.stored = job[r].brings
  /\ job[r].pc = "keep" => job[r].brings = account.password

AloneWrites == \A r \in Requests : Writing(r) /\ job[r].alone => StoresOf(r)

\* Both passwords agree as long as no writer has got beyond its first look.
LookersAgree ==
  (agreed /\ \A r \in Requests : Writing(r) => job[r].pc = "look") => row.stored = account.password

IInv ==
  /\ Typed /\ JobsFit
  /\ WaitsForMailedCode /\ VerifiedByMail
  /\ LinkersGrant /\ AccountsHavePassword /\ TokensUsedUp /\ TokenWorksOnce
  /\ AloneIsAlone /\ AloneWrites /\ LookersAgree

-----------------------------------------------------------------------------
\* The steps of a request.

\* A request changes its own job only.
Own(r) == job' \in [Requests -> Job] /\ \A q \in Requests \ {r} : job'[q] = job[q]

\* Fields that no step of a request changes.
Stable(r) == job'[r].kind = job[r].kind /\ job'[r].ref = job[r].ref /\ job'[r].alone = job[r].alone

\* Fields that a request reads on its way.
SameLinked(r)  == job'[r].linked = job[r].linked
SameFido(r)    == job'[r].fido = job[r].fido
SameBrings(r)  == job'[r].brings = job[r].brings
SameAdopted(r) == job'[r].adopted = job[r].adopted
SameRead(r)    == SameLinked(r) /\ SameFido(r) /\ SameBrings(r) /\ SameAdopted(r)

\* A job is replaced by another one.
LEMMA NextJob ==
  ASSUME job \in [Requests -> Job], NEW r \in Requests, NEW next \in Job, job' = [job EXCEPT ![r] = next]
  PROVE  Own(r) /\ job'[r] = next
BY DEF Own

\* A request goes on, or ends with an answer.
LEMMA GoFields ==
  ASSUME job \in [Requests -> Job], NEW r \in Requests
  PROVE  /\ \A to \in Pcs : Go(r, to) =>
              Own(r) /\ Stable(r) /\ job'[r].pc = to /\ job'[r].answer = job[r].answer /\ SameRead(r)
         /\ \A a \in {"done", "refused", "failed"} : Answer(r, a) =>
              Own(r) /\ Stable(r) /\ job'[r].pc = "over" /\ job'[r].answer = a /\ SameRead(r)
<1>0. job[r] \in Job
  OBVIOUS
<1>1. ASSUME NEW to \in Pcs, Go(r, to)
      PROVE  Own(r) /\ Stable(r) /\ job'[r].pc = to /\ job'[r].answer = job[r].answer /\ SameRead(r)
  <2> DEFINE next == [job[r] EXCEPT !.pc = to]
  <2>1. next \in Job
    BY <1>0 DEF Job
  <2>2. job' = [job EXCEPT ![r] = next]
    BY <1>1 DEF Go
  <2>3. job'[r] = next /\ Own(r)
    BY <2>1, <2>2, NextJob
  <2> QED
    BY <1>0, <2>3 DEF Job, Stable, SameRead, SameLinked, SameFido, SameBrings, SameAdopted
<1>2. ASSUME NEW a \in {"done", "refused", "failed"}, Answer(r, a)
      PROVE  Own(r) /\ Stable(r) /\ job'[r].pc = "over" /\ job'[r].answer = a /\ SameRead(r)
  <2> DEFINE next == [job[r] EXCEPT !.pc = "over", !.answer = a]
  <2>1. next \in Job
    BY <1>0 DEF Job, Pcs
  <2>2. job' = [job EXCEPT ![r] = next]
    BY <1>2 DEF Answer
  <2>3. job'[r] = next /\ Own(r)
    BY <2>1, <2>2, NextJob
  <2> QED
    BY <1>0, <2>3 DEF Job, Stable, SameRead, SameLinked, SameFido, SameBrings, SameAdopted
<1> QED
  BY <1>1, <1>2

\* What a request reads on its way.
LEMMA ReadFields ==
  ASSUME Typed, NEW r \in Requests
  PROVE  /\ RereadPassword(r) \/ AdoptAccount(r) \/ LookToken(r) \/ LookOldPassword(r) \/ RightPassword(r) =>
              Own(r) /\ Stable(r) /\ job'[r].answer = job[r].answer
         /\ RereadPassword(r) =>
              job'[r].pc = "account" /\ job'[r].brings = row.stored /\ SameLinked(r) /\ SameFido(r) /\ SameAdopted(r)
         /\ AdoptAccount(r) =>
              job'[r].pc = "link" /\ job'[r].adopted /\ SameLinked(r) /\ SameFido(r) /\ SameBrings(r)
         /\ LookToken(r) =>
              /\ job'[r].pc = IF row.linked THEN "password" ELSE "account"
              /\ job'[r].linked = row.linked /\ job'[r].fido = row.fido /\ SameBrings(r) /\ SameAdopted(r)
         /\ LookOldPassword(r) =>
              /\ job'[r].pc = "password"
              /\ job'[r].linked /\ job'[r].fido = row.fido /\ SameBrings(r) /\ SameAdopted(r)
         /\ RightPassword(r) =>
              job'[r].pc = "keep" /\ job'[r].brings = account.password /\ SameLinked(r) /\ SameFido(r) /\ SameAdopted(r)
<1>0. /\ job \in [Requests -> Job] /\ job[r] \in Job /\ row.stored \in Names /\ account.password \in Names
      /\ row.linked \in BOOLEAN /\ row.fido \in BOOLEAN
  BY DEF Typed, TypeOK
<1> USE DEF SameLinked, SameFido, SameBrings, SameAdopted
<1>1. ASSUME RereadPassword(r)
      PROVE  /\ Own(r) /\ Stable(r) /\ job'[r].answer = job[r].answer
             /\ job'[r].pc = "account" /\ job'[r].brings = row.stored /\ SameLinked(r) /\ SameFido(r) /\ SameAdopted(r)
  <2> DEFINE next == [job[r] EXCEPT !.brings = row.stored, !.pc = "account"]
  <2>1. next \in Job
    BY <1>0 DEF Job, Pcs
  <2>2. job' = [job EXCEPT ![r] = next]
    BY <1>1 DEF RereadPassword
  <2>3. job'[r] = next /\ Own(r)
    BY <1>0, <2>1, <2>2, NextJob
  <2> QED
    BY <1>0, <2>3 DEF Job, Stable
<1>2. ASSUME AdoptAccount(r)
      PROVE  /\ Own(r) /\ Stable(r) /\ job'[r].answer = job[r].answer
             /\ job'[r].pc = "link" /\ job'[r].adopted /\ SameLinked(r) /\ SameFido(r) /\ SameBrings(r)
  <2> DEFINE next == [job[r] EXCEPT !.adopted = TRUE, !.pc = "link"]
  <2>1. next \in Job
    BY <1>0 DEF Job, Pcs
  <2>2. job' = [job EXCEPT ![r] = next]
    BY <1>2 DEF AdoptAccount
  <2>3. job'[r] = next /\ Own(r)
    BY <1>0, <2>1, <2>2, NextJob
  <2> QED
    BY <1>0, <2>3 DEF Job, Stable
<1>3. ASSUME LookToken(r)
      PROVE  /\ Own(r) /\ Stable(r) /\ job'[r].answer = job[r].answer
             /\ job'[r].pc = IF row.linked THEN "password" ELSE "account"
             /\ job'[r].linked = row.linked /\ job'[r].fido = row.fido /\ SameBrings(r) /\ SameAdopted(r)
  <2> DEFINE next == [job[r] EXCEPT !.linked = row.linked, !.fido = row.fido, !.pc = IF row.linked THEN "password" ELSE "account"]
  <2>1. next \in Job
    BY <1>0 DEF Job, Pcs
  <2>2. job' = [job EXCEPT ![r] = next]
    BY <1>3 DEF LookToken
  <2>3. job'[r] = next /\ Own(r)
    BY <1>0, <2>1, <2>2, NextJob
  <2> QED
    BY <1>0, <2>3 DEF Job, Stable
<1>4. ASSUME LookOldPassword(r)
      PROVE  /\ Own(r) /\ Stable(r) /\ job'[r].answer = job[r].answer
             /\ job'[r].pc = "password"
             /\ job'[r].linked /\ job'[r].fido = row.fido /\ SameBrings(r) /\ SameAdopted(r)
  <2> DEFINE next == [job[r] EXCEPT !.linked = TRUE, !.fido = row.fido, !.pc = "password"]
  <2>1. next \in Job
    BY <1>0 DEF Job, Pcs
  <2>2. job' = [job EXCEPT ![r] = next]
    BY <1>4 DEF LookOldPassword
  <2>3. job'[r] = next /\ Own(r)
    BY <1>0, <2>1, <2>2, NextJob
  <2> QED
    BY <1>0, <2>3 DEF Job, Stable
<1>5. ASSUME RightPassword(r)
      PROVE  /\ Own(r) /\ Stable(r) /\ job'[r].answer = job[r].answer
             /\ job'[r].pc = "keep" /\ job'[r].brings = account.password /\ SameLinked(r) /\ SameFido(r) /\ SameAdopted(r)
  <2> DEFINE next == [job[r] EXCEPT !.brings = account.password, !.pc = "keep"]
  <2>1. next \in Job
    BY <1>0 DEF Job, Pcs
  <2>2. job' = [job EXCEPT ![r] = next]
    BY <1>5 DEF RightPassword
  <2>3. job'[r] = next /\ Own(r)
    BY <1>0, <2>1, <2>2, NextJob
  <2> QED
    BY <1>0, <2>3 DEF Job, Stable
<1> QED
  BY <1>1, <1>2, <1>3, <1>4, <1>5

\* A request that arrives makes its own job, and takes their being alone from
\* the writers it meets.
LEMMA AskFields ==
  ASSUME Typed, NEW r \in Requests, NEW k \in Kinds, NEW ref \in Names, Ask(r, k, ref)
  PROVE  /\ job' \in [Requests -> Job] /\ k \in MayAsk[r]
         /\ job[r].pc = "idle" /\ job'[r].pc = "look" /\ job'[r].answer = "none"
         /\ job'[r].kind = k /\ job'[r].ref = ref /\ job'[r].brings = r
         /\ ~job'[r].linked /\ ~job'[r].adopted
         /\ job'[r].alone = ~\E w \in Requests : Writing(w)
         /\ \A q \in Requests \ {r} :
              /\ job'[q].kind = job[q].kind /\ job'[q].pc = job[q].pc /\ job'[q].answer = job[q].answer
              /\ job'[q].ref = job[q].ref /\ SameRead(q)
              /\ job'[q].alone <=> job[q].alone /\ ~(Writing(q) /\ k \in Writers)
         /\ UNCHANGED <<people, notes, agreed, linkedBy, faults>>
<1> DEFINE mine == [Idle EXCEPT !.kind = k, !.pc = "look", !.ref = ref, !.brings = r,
                                !.alone = ~\E w \in Requests : Writing(w)]
           other(q) == [job[q] EXCEPT !.alone = FALSE]
<1>0. job \in [Requests -> Job] /\ \A q \in Requests : job[q] \in Job
  BY DEF Typed
<1>1. /\ mine \in Job /\ mine.pc = "look" /\ mine.answer = "none" /\ mine.kind = k /\ mine.ref = ref
      /\ mine.brings = r /\ ~mine.linked /\ ~mine.adopted /\ mine.alone = ~\E w \in Requests : Writing(w)
  BY DEF Idle, Job, Pcs, Names
<1>2. ASSUME NEW q \in Requests
      PROVE  /\ other(q) \in Job /\ other(q).pc = job[q].pc /\ other(q).answer = job[q].answer
             /\ other(q).kind = job[q].kind /\ other(q).ref = job[q].ref /\ other(q).brings = job[q].brings
             /\ other(q).linked = job[q].linked /\ other(q).fido = job[q].fido
             /\ other(q).adopted = job[q].adopted /\ ~other(q).alone
  BY <1>0 DEF Job
<1> HIDE DEF mine, other
<1>3. job' = [q \in Requests |-> IF q = r THEN mine ELSE IF Writing(q) /\ k \in Writers THEN other(q) ELSE job[q]]
  BY DEF Ask, mine, other
<1>4. job' \in [Requests -> Job] /\ job'[r] = mine
  BY <1>0, <1>1, <1>2, <1>3
<1>5. ASSUME NEW q \in Requests \ {r}
      PROVE  job'[q] = IF Writing(q) /\ k \in Writers THEN other(q) ELSE job[q]
  BY <1>3
<1>6. ASSUME NEW q \in Requests \ {r}
      PROVE  /\ job'[q].kind = job[q].kind /\ job'[q].pc = job[q].pc /\ job'[q].answer = job[q].answer
             /\ job'[q].ref = job[q].ref /\ SameRead(q)
             /\ job'[q].alone <=> job[q].alone /\ ~(Writing(q) /\ k \in Writers)
  <2> USE DEF SameRead, SameLinked, SameFido, SameBrings, SameAdopted
  <2>1. CASE Writing(q) /\ k \in Writers
    <3>1. job'[q] = other(q)
      BY <1>5, <2>1
    <3> QED
      BY <1>2, <2>1, <3>1
  <2>2. CASE ~(Writing(q) /\ k \in Writers)
    <3>1. job'[q] = job[q]
      BY <1>5, <2>2
    <3> QED
      BY <2>2, <3>1
  <2> QED
    BY <2>1, <2>2
<1> QED
  BY <1>1, <1>4, <1>6 DEF Ask

\* Steps that pass the first look, that refuse, and that fail.
Passes(r) ==
  \/ LookNew(r) \/ CheckCode(r) \/ LookVerified(r) \/ LookForgetful(r) \/ LookToken(r) \/ LookOldPassword(r)
  \/ RightPassword(r)

Refuses(r) ==
  \/ LookKnown(r) \/ WrongCode(r) \/ LookUnready(r) \/ LookUnverified(r) \/ LookNoToken(r)
  \/ WrongOldPassword(r) \/ WrongPassword(r)

Failing(r) ==
  \/ MailFails(r) \/ AccountExists(r) \/ AccountFails(r) \/ PasswordFails(r) \/ SignUpFails(r)
  \/ TokenMailFails(r) \/ TokenGone(r) \/ ResetFails(r)

\* Steps that write on the way, and that end a request.
Works(r) ==
  \/ SendCode(r) \/ StorePassword(r) \/ RereadPassword(r) \/ PostAccount(r) \/ AdoptAccount(r)
  \/ SetPassword(r) \/ LinkAccount(r) \/ StoreHolder(r) \/ (FidoPassword(r) /\ job[r].kind = "reset")

Finishes(r) ==
  \/ SaveRow(r) \/ VerifyUser(r) \/ GrantRole(r) \/ SendToken(r) \/ DeleteToken(r) \/ KeepPassword(r)
  \/ (FidoPassword(r) /\ job[r].kind # "reset")

LEMMA HandleIs ==
  ASSUME NEW r \in Requests
  PROVE  Handle(r) <=> Passes(r) \/ Refuses(r) \/ Failing(r) \/ Works(r) \/ Finishes(r)
BY DEF Handle, Passes, Refuses, Failing, Works, Finishes

\* What they do to the job.
LEMMA HandleFields ==
  ASSUME Typed, NEW r \in Requests
  PROVE  /\ Handle(r) => Own(r) /\ Stable(r)
         /\ Passes(r) => job[r].pc = "look" /\ job'[r].pc \notin {"idle", "look", "over"} /\ job'[r].answer = job[r].answer
         /\ Refuses(r) => job[r].pc = "look" /\ job'[r].pc = "over" /\ job'[r].answer = "refused" /\ SameRead(r)
         /\ Failing(r) =>
              /\ job[r].pc \notin {"idle", "look", "over"} /\ job'[r].pc = "over" /\ job'[r].answer = "failed"
              /\ SameRead(r)
         /\ Works(r) =>
              /\ job[r].pc \notin {"idle", "look", "over"} /\ job'[r].pc \notin {"idle", "look", "over"}
              /\ job'[r].answer = job[r].answer
         /\ Finishes(r) =>
              /\ job[r].pc \notin {"idle", "look", "over"} /\ job'[r].pc = "over" /\ job'[r].answer = "done"
              /\ SameRead(r)
<1> USE DEF At
<1>0. job \in [Requests -> Job]
  BY DEF Typed
<1>1. ASSUME Passes(r)
      PROVE  /\ Own(r) /\ Stable(r) /\ job[r].pc = "look" /\ job'[r].pc \notin {"idle", "look", "over"}
             /\ job'[r].answer = job[r].answer
  <2>1. CASE LookNew(r) \/ CheckCode(r) \/ LookVerified(r) \/ LookForgetful(r)
    BY <1>0, <2>1, GoFields DEF LookNew, CheckCode, LookVerified, LookForgetful, Pcs
  <2>2. CASE LookToken(r) \/ LookOldPassword(r) \/ RightPassword(r)
    BY <2>2, ReadFields DEF LookToken, LookOldPassword, RightPassword
  <2> QED
    BY <1>1, <2>1, <2>2 DEF Passes
<1>2. ASSUME Refuses(r)
      PROVE  /\ Own(r) /\ Stable(r) /\ job[r].pc = "look" /\ job'[r].pc = "over" /\ job'[r].answer = "refused"
             /\ SameRead(r)
  BY <1>0, <1>2, GoFields DEF Refuses, LookKnown, WrongCode, LookUnready, LookUnverified, LookNoToken,
     WrongOldPassword, WrongPassword, Refuse
<1>3. ASSUME Failing(r)
      PROVE  /\ Own(r) /\ Stable(r) /\ job[r].pc \notin {"idle", "look", "over"} /\ job'[r].pc = "over"
             /\ job'[r].answer = "failed" /\ SameRead(r)
  BY <1>0, <1>3, GoFields DEF Failing, MailFails, AccountExists, AccountFails, PasswordFails, SignUpFails,
     TokenMailFails, TokenGone, ResetFails, Fails
<1>4. ASSUME Works(r)
      PROVE  /\ Own(r) /\ Stable(r) /\ job[r].pc \notin {"idle", "look", "over"}
             /\ job'[r].pc \notin {"idle", "look", "over"} /\ job'[r].answer = job[r].answer
  <2>1. CASE RereadPassword(r) \/ AdoptAccount(r)
    BY <2>1, ReadFields DEF RereadPassword, AdoptAccount
  <2>2. CASE ~RereadPassword(r) /\ ~AdoptAccount(r)
    BY <1>0, <1>4, <2>2, GoFields DEF Works, SendCode, StorePassword, PostAccount, SetPassword, LinkAccount,
       StoreHolder, FidoPassword, Pcs
  <2> QED
    BY <2>1, <2>2
<1>5. ASSUME Finishes(r)
      PROVE  /\ Own(r) /\ Stable(r) /\ job[r].pc \notin {"idle", "look", "over"} /\ job'[r].pc = "over"
             /\ job'[r].answer = "done" /\ SameRead(r)
  BY <1>0, <1>5, GoFields DEF Finishes, SaveRow, VerifyUser, GrantRole, SendToken, DeleteToken, KeepPassword,
     FidoPassword, Ends
<1> QED
  BY <1>1, <1>2, <1>3, <1>4, <1>5, HandleIs

\* What they leave as it is.
Frame(r) ==
  /\ ~SetPassword(r) => account'.password = account.password
  /\ ~StorePassword(r) /\ ~FidoPassword(r) /\ ~KeepPassword(r) => row'.stored = row.stored
  /\ ~SaveRow(r) => row'.code = row.code /\ row'.made = row.made
  /\ ~VerifyUser(r) /\ ~LinkAccount(r) => row'.verified = row.verified
  /\ ~LinkAccount(r) => linkedBy' = linkedBy /\ row'.linked = row.linked
  /\ ~GrantRole(r) => granted' = granted
  /\ ~SendCode(r) /\ ~SendToken(r) => mailed' = mailed
  /\ ~LookForgetful(r) /\ ~DeleteToken(r) => tokens' = tokens
  /\ expired' = expired

LEMMA HandleFrame ==
  ASSUME Typed, NEW r \in Requests, Handle(r)
  PROVE  /\ Frame(r)
         /\ Refuses(r) => UNCHANGED <<people, notes, agreed, linkedBy, faults>>
         /\ Failing(r) =>
              /\ UNCHANGED <<row, granted, mappings, notes, linkedBy>>
              /\ agreed' <=> agreed /\ job[r].kind \notin Writers
         /\ Passes(r) \/ Works(r) => agreed' = agreed
<1>0. /\ row \in [made : BOOLEAN, verified : BOOLEAN, linked : BOOLEAN, fido : BOOLEAN, code : Names, stored : Names]
      /\ account \in [made : BOOLEAN, password : Names]
  BY DEF Typed, TypeOK
<1>1. CASE Passes(r)
  <2>1. ~Refuses(r) /\ ~Failing(r)
    BY <1>1, HandleFields
  <2>2. Frame(r) /\ agreed' = agreed
    BY <1>1 DEF Frame, people, notes, Passes, LookNew, CheckCode, LookVerified, LookForgetful, LookToken,
       LookOldPassword, RightPassword
  <2> QED
    BY <2>1, <2>2
<1>2. CASE Refuses(r)
  <2>1. ~Passes(r) /\ ~Failing(r) /\ ~Works(r)
    BY <1>2, HandleFields
  <2>2. UNCHANGED <<people, notes, agreed, linkedBy, faults>>
    BY <1>2 DEF Refuses, LookKnown, WrongCode, LookUnready, LookUnverified, LookNoToken, WrongOldPassword,
       WrongPassword, Refuse
  <2>3. Frame(r)
    BY <2>2 DEF Frame, people, notes
  <2> QED
    BY <2>1, <2>2, <2>3
<1>3. CASE Failing(r)
  <2>1. ~Passes(r) /\ ~Refuses(r) /\ ~Works(r)
    BY <1>3, HandleFields
  <2>2. UNCHANGED <<row, granted, mappings, notes, linkedBy>> /\ (agreed' <=> agreed /\ job[r].kind \notin Writers)
    BY <1>3 DEF Failing, MailFails, AccountExists, AccountFails, PasswordFails, SignUpFails, TokenMailFails,
       TokenGone, ResetFails, Fails, people, notes
  <2>3. account'.password = account.password
    <3>1. CASE AccountFails(r)
      BY <1>0, <3>1 DEF AccountFails
    <3>2. CASE ~AccountFails(r)
      BY <1>3, <3>2 DEF Failing, MailFails, AccountExists, PasswordFails, SignUpFails, TokenMailFails,
         TokenGone, ResetFails, people
    <3> QED
      BY <3>1, <3>2
  <2>4. Frame(r)
    BY <2>2, <2>3 DEF Frame, notes
  <2> QED
    BY <2>1, <2>2, <2>4
<1>4. CASE Works(r)
  <2>1. ~Refuses(r) /\ ~Failing(r)
    BY <1>4, HandleFields
  <2>2. agreed' = agreed
    BY <1>4 DEF Works, SendCode, StorePassword, RereadPassword, PostAccount, AdoptAccount, SetPassword,
       LinkAccount, StoreHolder, FidoPassword
  <2>3. Frame(r)
    BY <1>0, <1>4 DEF Frame, people, notes, Works, SendCode, StorePassword, RereadPassword, PostAccount,
       AdoptAccount, SetPassword, LinkAccount, StoreHolder, FidoPassword
  <2> QED
    BY <2>1, <2>2, <2>3
<1>5. CASE Finishes(r)
  <2>1. ~Refuses(r) /\ ~Failing(r) /\ ~Passes(r) /\ ~Works(r)
    BY <1>5, HandleFields
  <2>2. Frame(r)
    BY <1>0, <1>5 DEF Frame, people, notes, Finishes, SaveRow, VerifyUser, GrantRole, SendToken, DeleteToken,
       KeepPassword, FidoPassword, Ends
  <2> QED
    BY <2>1, <2>2
<1> QED
  BY <1>1, <1>2, <1>3, <1>4, <1>5, HandleIs

-----------------------------------------------------------------------------
\* Types.

Stores ==
  /\ row \in [made : BOOLEAN, verified : BOOLEAN, linked : BOOLEAN, fido : BOOLEAN, code : Names, stored : Names]
  /\ account \in [made : BOOLEAN, password : Names]
  /\ granted \in BOOLEAN
  /\ mappings \subseteq Requests /\ mailed \subseteq Requests /\ tokens \subseteq Requests /\ expired \subseteq Requests
  /\ agreed \in BOOLEAN /\ linkedBy \in Names /\ faults \in 0..MaxFaults

JobTyped(r) ==
  /\ job[r].kind \in MayAsk[r] \cup {"none"}
  /\ (job[r].answer = "none") = (job[r].pc # "over")

LEMMA TypedIs == Typed <=> Stores /\ job \in [Requests -> Job] /\ \A r \in Requests : JobTyped(r)
<1>1. ASSUME job \in [Requests -> Job], NEW r \in Requests
      PROVE  /\ job[r].answer \in {"none", "done", "refused", "failed"} /\ job[r].pc \in Pcs
             /\ {job[r].ref, job[r].brings} \subseteq Names
  <2>1. job[r] \in Job
    BY <1>1
  <2> QED
    BY <2>1 DEF Job
<1>2. {mappings, mailed, tokens, expired} \subseteq SUBSET Requests <=>
        mappings \subseteq Requests /\ mailed \subseteq Requests /\ tokens \subseteq Requests /\ expired \subseteq Requests
  OBVIOUS
<1> QED
  BY <1>1, <1>2 DEF Typed, TypeOK, Stores, JobTyped, Pcs

\* The data that a step of a request writes.
LEMMA HandleStores ==
  ASSUME Typed, NEW r \in Requests, Handle(r)
  PROVE  Stores'
<1>0. Stores /\ job[r] \in Job /\ job[r].brings \in Names /\ job[r].ref \in Names
  BY TypedIs DEF Job
<1>1. Fault => faults' \in 0..MaxFaults
  BY <1>0, ConstantsAssumption DEF Stores, Fault
<1>2. /\ Fails(r) => agreed' \in BOOLEAN /\ linkedBy' = linkedBy
      /\ \A both : Ends(r, both) => agreed' \in BOOLEAN /\ linkedBy' = linkedBy
  BY DEF Fails, Ends
<1>3. CASE Passes(r)
  BY <1>0, <1>3 DEF Stores, people, notes, Passes, LookNew, CheckCode, LookVerified, LookForgetful, LookToken,
     LookOldPassword, RightPassword
<1>4. CASE Refuses(r)
  <2>1. UNCHANGED <<people, notes, agreed, linkedBy, faults>>
    BY <1>4, HandleFrame
  <2> QED
    BY <1>0, <2>1 DEF Stores, people, notes
<1>5. CASE Failing(r)
  <2>1. UNCHANGED <<row, granted, mappings, notes, linkedBy>>
    BY <1>5, HandleFrame
  <2>4. agreed' \in BOOLEAN
    BY <1>2, <1>5 DEF Failing, MailFails, AccountExists, AccountFails, PasswordFails, SignUpFails, TokenMailFails,
       TokenGone, ResetFails
  <2>2. account' \in [made : BOOLEAN, password : Names]
    <3>1. CASE AccountFails(r)
      BY <1>0, <3>1 DEF AccountFails, Stores
    <3>2. CASE ~AccountFails(r)
      BY <1>0, <1>5, <3>2 DEF Stores, Failing, MailFails, AccountExists, PasswordFails, SignUpFails, TokenMailFails,
         TokenGone, ResetFails, people
    <3> QED
      BY <3>1, <3>2
  <2>3. faults' \in 0..MaxFaults
    BY <1>0, <1>1, <1>5 DEF Stores, Failing, MailFails, AccountExists, AccountFails, PasswordFails, SignUpFails,
       TokenMailFails, TokenGone, ResetFails
  <2> QED
    BY <1>0, <2>1, <2>2, <2>3, <2>4 DEF Stores, notes
<1>6. CASE Works(r)
  BY <1>0, <1>6 DEF Stores, people, notes, Names, Works, SendCode, StorePassword, RereadPassword, PostAccount,
     AdoptAccount, SetPassword, LinkAccount, StoreHolder, FidoPassword
<1>7. CASE Finishes(r)
  BY <1>0, <1>2, <1>7 DEF Stores, people, notes, Names, Finishes, SaveRow, VerifyUser, GrantRole, SendToken,
     DeleteToken, KeepPassword, FidoPassword
<1> QED
  BY <1>3, <1>4, <1>5, <1>6, <1>7, HandleIs

LEMMA TypedStep ==
  ASSUME Typed, [Next]_vars
  PROVE  Typed'
<1>0. Stores /\ job \in [Requests -> Job] /\ \A r \in Requests : JobTyped(r)
  BY TypedIs
<1> SUFFICES Stores' /\ job' \in [Requests -> Job] /\ \A q \in Requests : JobTyped(q)'
  <2>1. (Typed <=> Stores /\ job \in [Requests -> Job] /\ \A r \in Requests : JobTyped(r))'
    BY TypedIs, PTL
  <2> QED
    BY <2>1
<1>1. ASSUME NEW r \in Requests, Handle(r)
      PROVE  Stores' /\ job' \in [Requests -> Job] /\ \A q \in Requests : JobTyped(q)'
  <2>1. Own(r) /\ Stable(r) /\ (job'[r].answer = "none") = (job'[r].pc # "over")
    BY <1>0, <1>1, HandleFields, HandleIs DEF JobTyped
  <2> QED
    BY <1>0, <1>1, <2>1, HandleStores DEF JobTyped, Own, Stable
<1>2. ASSUME NEW r \in Requests, NEW k \in Kinds, NEW ref \in Names, Ask(r, k, ref)
      PROVE  Stores' /\ job' \in [Requests -> Job] /\ \A q \in Requests : JobTyped(q)'
  <2>1. Stores'
    BY <1>0, <1>2, AskFields DEF Stores, people, notes
  <2>2. job' \in [Requests -> Job] /\ JobTyped(r)'
    BY <1>2, AskFields DEF JobTyped
  <2>3. ASSUME NEW q \in Requests \ {r}
        PROVE  JobTyped(q)'
    BY <1>0, <1>2, AskFields DEF JobTyped
  <2> QED
    BY <2>1, <2>2, <2>3
<1>3. ASSUME NEW t \in Requests, Expire(t)
      PROVE  Stores' /\ job' \in [Requests -> Job] /\ \A q \in Requests : JobTyped(q)'
  BY <1>0, <1>3 DEF Stores, JobTyped, Expire, people
<1>4. CASE RegisterDevice
  BY <1>0, <1>4 DEF Stores, JobTyped, RegisterDevice, notes
<1>5. CASE UNCHANGED vars
  BY <1>0, <1>5 DEF Stores, JobTyped, vars
<1> QED
  BY <1>1, <1>2, <1>3, <1>4, <1>5 DEF Next

-----------------------------------------------------------------------------
\* The places and what has been done there.

\* What other requests can rely on.
Keeps ==
  /\ mailed \subseteq mailed' /\ (row.verified => row'.verified)
  /\ (row.stored \in Requests => row'.stored \in Requests)

LEMMA HandleKeeps ==
  ASSUME Typed, JobsFit, NEW r \in Requests, Handle(r)
  PROVE  Keeps
<1>0. Stores /\ Frame(r)
  BY TypedIs, HandleFrame
<1>1. job[r].pc # "idle" /\ job[r].brings \in Requests
  <2>1. job[r].pc # "idle"
    BY HandleFields, HandleIs
  <2> QED
    BY <2>1 DEF JobsFit, Reached
<1>2. mailed \subseteq mailed'
  BY <1>0 DEF Frame, SendCode, SendToken
<1>3. row.verified => row'.verified
  BY <1>0 DEF Frame, VerifyUser, LinkAccount, Stores
<1>4. row.stored \in Requests => row'.stored \in Requests
  BY <1>0, <1>1 DEF Frame, StorePassword, FidoPassword, KeepPassword, Stores
<1> QED
  BY <1>2, <1>3, <1>4 DEF Keeps

\* A request goes where its kind belongs.
LEMMA HandleFits ==
  ASSUME Typed, NEW r \in Requests, Fits(r), Handle(r)
  PROVE  Fits(r)'
<1>0. /\ Stable(r) /\ job \in [Requests -> Job] /\ job[r] \in Job /\ job'[r] \in Job
  BY HandleFields DEF Typed, Own
<1>1. job[r].pc # "idle" /\ job[r].kind # "none" /\ job'[r].kind # "none" /\ job'[r].pc # "idle"
  BY <1>0, HandleFields, HandleIs DEF Fits, Stable
<1> USE DEF At
<1>2. CASE Refuses(r) \/ Failing(r) \/ Finishes(r)
  <2>1. job'[r].pc = "over" /\ SameRead(r)
    BY <1>2, HandleFields
  <2> QED
    BY <1>0, <1>1, <2>1 DEF Fits, Stable, SameRead, SameLinked, SameFido, SameBrings, SameAdopted
<1>3. CASE LookNew(r) \/ CheckCode(r) \/ LookVerified(r) \/ LookForgetful(r)
  <2>1. /\ SameRead(r)
        /\ \/ job'[r].pc = "mail" /\ job[r].kind \in {"mail", "forgot"}
           \/ job'[r].pc = "verify" /\ job[r].kind = "verify"
           \/ job'[r].pc = "store" /\ job[r].kind \in SignUps
    BY <1>0, <1>3, GoFields DEF LookNew, CheckCode, LookVerified, LookForgetful, Pcs
  <2> QED
    BY <1>0, <1>1, <2>1 DEF Fits, Stable, SameRead, SameLinked, SameFido, SameBrings, SameAdopted, SignUps
<1>4. CASE LookToken(r) \/ LookOldPassword(r) \/ RightPassword(r)
  BY <1>0, <1>1, <1>4, ReadFields DEF LookToken, LookOldPassword, RightPassword, Fits, Stable, SameAdopted, SameLinked,
     SignUps
<1>5. CASE RereadPassword(r) \/ AdoptAccount(r)
  BY <1>0, <1>1, <1>5, ReadFields DEF RereadPassword, AdoptAccount, Fits, Stable, SameAdopted, SameLinked, SignUps
<1>6. CASE SendCode(r) \/ StorePassword(r) \/ PostAccount(r) \/ SetPassword(r) \/ LinkAccount(r) \/ StoreHolder(r)
           \/ (FidoPassword(r) /\ job[r].kind = "reset")
  <2>1. /\ SameRead(r)
        /\ \/ SendCode(r) /\ job'[r].pc = "row"
           \/ StorePassword(r) /\ job'[r].pc = IF job[r].kind = "signup" THEN "account" ELSE "reread"
           \/ PostAccount(r) /\ job'[r].pc = "password"
           \/ SetPassword(r) /\ job'[r].pc = IF job[r].linked THEN "fido" ELSE "link"
           \/ LinkAccount(r) /\ job'[r].pc = IF job[r].kind = "reset" THEN "fido" ELSE "holder"
           \/ StoreHolder(r) /\ job'[r].pc = "role"
           \/ FidoPassword(r) /\ job[r].kind = "reset" /\ job'[r].pc = "token"
    BY <1>0, <1>6, GoFields DEF SendCode, StorePassword, PostAccount, SetPassword, LinkAccount, StoreHolder,
       FidoPassword, Pcs
  <2> USE <1>0, <1>1 DEF Fits, Stable, SameRead, SameLinked, SameFido, SameBrings, SameAdopted, SignUps
  <2>2. CASE SendCode(r) /\ job'[r].pc = "row"
    BY <2>1, <2>2 DEF SendCode
  <2>3. CASE StorePassword(r) /\ job'[r].pc = IF job[r].kind = "signup" THEN "account" ELSE "reread"
    BY <2>1, <2>3 DEF StorePassword
  <2>4. CASE PostAccount(r) /\ job'[r].pc = "password"
    BY <2>1, <2>4 DEF PostAccount
  <2>5. CASE SetPassword(r) /\ job'[r].pc = IF job[r].linked THEN "fido" ELSE "link"
    BY <2>1, <2>5 DEF SetPassword
  <2>6. CASE LinkAccount(r) /\ job'[r].pc = IF job[r].kind = "reset" THEN "fido" ELSE "holder"
    BY <2>1, <2>6 DEF LinkAccount
  <2>7. CASE StoreHolder(r) /\ job'[r].pc = "role"
    BY <2>1, <2>7 DEF StoreHolder
  <2>8. CASE FidoPassword(r) /\ job[r].kind = "reset" /\ job'[r].pc = "token"
    BY <2>1, <2>8 DEF FidoPassword
  <2> QED
    BY <2>1, <2>2, <2>3, <2>4, <2>5, <2>6, <2>7, <2>8
<1> QED
  BY <1>2, <1>3, <1>4, <1>5, <1>6, HandleIs DEF Passes, Works

\* What it has done there is done.
LEMMA HandleReached ==
  ASSUME Typed, JobsFit, NEW r \in Requests, Handle(r)
  PROVE  Reached(r)'
<1>0. /\ Stable(r) /\ job \in [Requests -> Job] /\ job[r] \in Job /\ job'[r] \in Job /\ Stores /\ Keeps
      /\ Reached(r) /\ Fits(r)
  BY HandleFields, HandleKeeps, TypedIs DEF Own, JobsFit
<1>1. job[r].pc # "idle" /\ job'[r].pc \notin {"idle", "look"}
  BY HandleFields, HandleIs
<1> USE DEF At
<1>2. job'[r].pc = "row" => r \in mailed'
  <2>1. job'[r].pc = "row" => SendCode(r)
    <3>1. CASE Refuses(r) \/ Failing(r) \/ Finishes(r)
      BY <3>1, HandleFields
    <3>2. CASE LookToken(r) \/ LookOldPassword(r) \/ RightPassword(r) \/ RereadPassword(r) \/ AdoptAccount(r)
      BY <3>2, ReadFields
    <3>3. CASE LookNew(r) \/ CheckCode(r) \/ LookVerified(r) \/ LookForgetful(r) \/ StorePassword(r) \/ PostAccount(r)
               \/ SetPassword(r) \/ LinkAccount(r) \/ StoreHolder(r) \/ (FidoPassword(r) /\ job[r].kind = "reset")
      BY <1>0, <3>3, GoFields DEF LookNew, CheckCode, LookVerified, LookForgetful, StorePassword, PostAccount,
         SetPassword, LinkAccount, StoreHolder, FidoPassword, Pcs
    <3> QED
      BY <3>1, <3>2, <3>3, HandleIs DEF Passes, Works
  <2> QED
    BY <2>1 DEF SendCode
<1>3. job'[r].kind \in {"verify", "reset"} => job'[r].ref \in mailed'
  BY <1>0 DEF Stable, Reached, Keeps
<1>4. job'[r].kind \in Writers /\ job'[r].pc \in Pcs \ {"look", "over"} => row'.verified
  <2>1. CASE Passes(r)
    BY <1>0, <2>1 DEF Keeps, Stable, Writers, SignUps, Passes, LookNew, CheckCode, LookVerified, LookForgetful, LookToken,
       LookOldPassword, RightPassword
  <2>2. CASE Works(r)
    <3>1. job[r].pc \in Pcs \ {"look", "over"}
      BY <1>0, <2>2, HandleFields DEF Job
    <3> QED
      BY <1>0, <3>1 DEF Stable, Reached, Keeps
  <2>3. CASE Refuses(r) \/ Failing(r) \/ Finishes(r)
    BY <2>3, HandleFields
  <2> QED
    BY <2>1, <2>2, <2>3, HandleIs
<1>5. job'[r].brings \in Requests
  <2>1. CASE RereadPassword(r)
    BY <1>0, <2>1, ReadFields DEF RereadPassword, Reached
  <2>2. CASE RightPassword(r)
    BY <1>0, <2>2, ReadFields DEF RightPassword, Stores, Names
  <2>3. CASE ~RereadPassword(r) /\ ~RightPassword(r)
    <3>1. SameBrings(r)
      <4>1. CASE Refuses(r) \/ Failing(r) \/ Finishes(r)
        BY <4>1, HandleFields DEF SameRead
      <4>2. CASE LookToken(r) \/ LookOldPassword(r) \/ AdoptAccount(r)
        BY <4>2, ReadFields
      <4>3. CASE LookNew(r) \/ CheckCode(r) \/ LookVerified(r) \/ LookForgetful(r) \/ SendCode(r) \/ StorePassword(r)
                 \/ PostAccount(r) \/ SetPassword(r) \/ LinkAccount(r) \/ StoreHolder(r)
                 \/ (FidoPassword(r) /\ job[r].kind = "reset")
        BY <1>0, <4>3, GoFields DEF SameRead, LookNew, CheckCode, LookVerified, LookForgetful, SendCode, StorePassword,
           PostAccount, SetPassword, LinkAccount, StoreHolder, FidoPassword, Pcs
      <4> QED
        BY <2>3, <4>1, <4>2, <4>3, HandleIs DEF Passes, Works
    <3> QED
      BY <1>0, <1>1, <3>1 DEF Reached, SameBrings
  <2> QED
    BY <2>1, <2>2, <2>3
<1>6. job'[r].pc = "reread" => row'.stored \in Requests
  <2>1. job'[r].pc = "reread" => StorePassword(r)
    <3>1. CASE Refuses(r) \/ Failing(r) \/ Finishes(r)
      BY <3>1, HandleFields
    <3>2. CASE LookToken(r) \/ LookOldPassword(r) \/ RightPassword(r) \/ RereadPassword(r) \/ AdoptAccount(r)
      BY <3>2, ReadFields
    <3>3. CASE LookNew(r) \/ CheckCode(r) \/ LookVerified(r) \/ LookForgetful(r) \/ SendCode(r) \/ PostAccount(r)
               \/ SetPassword(r) \/ LinkAccount(r) \/ StoreHolder(r) \/ (FidoPassword(r) /\ job[r].kind = "reset")
      BY <1>0, <3>3, GoFields DEF LookNew, CheckCode, LookVerified, LookForgetful, SendCode, PostAccount,
         SetPassword, LinkAccount, StoreHolder, FidoPassword, Pcs
    <3> QED
      BY <3>1, <3>2, <3>3, HandleIs DEF Passes, Works
  <2> QED
    BY <1>0, <1>1, <2>1 DEF StorePassword, Reached, Stores
<1> QED
  BY <1>1, <1>2, <1>3, <1>4, <1>5, <1>6 DEF Reached

LEMMA JobsFitStep ==
  ASSUME Typed, JobsFit, [Next]_vars
  PROVE  JobsFit'
<1>0. Stores /\ \A r \in Requests : Fits(r) /\ Reached(r)
  BY TypedIs DEF JobsFit
<1> SUFFICES ASSUME NEW q \in Requests PROVE Fits(q)' /\ Reached(q)'
  BY DEF JobsFit
<1>1. ASSUME NEW r \in Requests, Handle(r)
      PROVE  Fits(q)' /\ Reached(q)'
  <2>1. CASE q = r
    BY <1>0, <1>1, <2>1, HandleFits, HandleReached
  <2>2. CASE q # r
    <3>1. job'[q] = job[q] /\ Keeps
      BY <1>1, <2>2, HandleFields, HandleKeeps DEF Own
    <3>2. mailed' \subseteq mailed \cup {r} /\ tokens' \subseteq tokens \cup {r}
      BY <1>1, HandleFrame DEF Frame, SendCode, SendToken, LookForgetful, DeleteToken
    <3> QED
      BY <1>0, <2>2, <3>1, <3>2 DEF Fits, Reached, Keeps
  <2> QED
    BY <2>1, <2>2
<1>2. ASSUME NEW r \in Requests, NEW k \in Kinds, NEW ref \in Names, Ask(r, k, ref)
      PROVE  Fits(q)' /\ Reached(q)'
  <2>1. UNCHANGED <<row, mailed, tokens>>
    BY <1>2 DEF Ask, people, notes
  <2>2. CASE q = r
    <3>1. ref \in mailed \/ k \notin {"verify", "reset"}
      BY <1>2 DEF Ask
    <3>2. r \notin mailed \cup tokens
      BY <1>0, <1>2, AskFields DEF Reached
    <3> QED
      BY <1>2, <2>1, <2>2, <3>1, <3>2, AskFields DEF Fits, Reached, Kinds
  <2>3. CASE q # r
    BY <1>0, <1>2, <2>1, <2>3, AskFields DEF Fits, Reached, SameRead, SameLinked, SameBrings, SameAdopted
  <2> QED
    BY <2>2, <2>3
<1>3. ASSUME NEW t \in Requests, Expire(t)
      PROVE  Fits(q)' /\ Reached(q)'
  BY <1>0, <1>3 DEF Expire, people, Fits, Reached
<1>4. CASE RegisterDevice
  BY <1>0, <1>4 DEF RegisterDevice, notes, Fits, Reached, Stores
<1>5. CASE UNCHANGED vars
  BY <1>0, <1>5 DEF vars, Fits, Reached
<1> QED
  BY <1>1, <1>2, <1>3, <1>4, <1>5 DEF Next

-----------------------------------------------------------------------------
\* What a request that is over has come to stays.

Fixed(q) ==
  /\ job'[q].kind = job[q].kind /\ job'[q].pc = job[q].pc /\ job'[q].answer = job[q].answer
  /\ job'[q].ref = job[q].ref /\ SameRead(q)

LEMMA StepFixes ==
  ASSUME Typed, NEW q \in Requests
  PROVE  /\ \A r \in Requests : Handle(r) /\ (q # r \/ job[q].pc \in {"idle", "over"}) =>
              r # q /\ Fixed(q) /\ job'[q].alone = job[q].alone
         /\ \A r \in Requests, k \in Kinds, ref \in Names : Ask(r, k, ref) /\ (q # r \/ job[q].pc # "idle") =>
              r # q /\ Fixed(q)
         /\ \A t \in Requests : Expire(t) => Fixed(q) /\ job'[q].alone = job[q].alone
         /\ RegisterDevice \/ UNCHANGED vars => Fixed(q) /\ job'[q].alone = job[q].alone
<1> USE DEF Fixed, SameRead, SameLinked, SameFido, SameBrings, SameAdopted
<1>1. ASSUME NEW r \in Requests, Handle(r), q # r \/ job[q].pc \in {"idle", "over"}
      PROVE  r # q /\ Fixed(q) /\ job'[q].alone = job[q].alone
  <2>1. r # q
    BY <1>1, HandleFields, HandleIs
  <2>2. job'[q] = job[q]
    BY <1>1, <2>1, HandleFields DEF Own
  <2> QED
    BY <2>1, <2>2
<1>2. ASSUME NEW r \in Requests, NEW k \in Kinds, NEW ref \in Names, Ask(r, k, ref), q # r \/ job[q].pc # "idle"
      PROVE  r # q /\ Fixed(q)
  BY <1>2, AskFields
<1> QED
  BY <1>1, <1>2 DEF Expire, RegisterDevice, vars

-----------------------------------------------------------------------------
\* The row waits for a code that was mailed.

LEMMA WaitsStep ==
  ASSUME Typed, JobsFit, WaitsForMailedCode, [Next]_vars
  PROVE  WaitsForMailedCode'
<1>0. Stores
  BY TypedIs
<1>1. ASSUME NEW r \in Requests, Handle(r)
      PROVE  WaitsForMailedCode'
  <2>1. Keeps /\ Frame(r)
    BY <1>1, HandleKeeps, HandleFrame
  <2>2. CASE SaveRow(r)
    <3>1. r \in mailed /\ row'.code = r
      BY <1>0, <2>2 DEF SaveRow, At, JobsFit, Reached, Stores
    <3> QED
      BY <2>1, <3>1 DEF WaitsForMailedCode, Keeps
  <2>3. CASE ~SaveRow(r)
    <3>1. row'.made = row.made /\ row'.code = row.code
      BY <2>1, <2>3 DEF Frame
    <3> QED
      BY <2>1, <3>1 DEF WaitsForMailedCode, Keeps
  <2> QED
    BY <2>2, <2>3
<1>2. CASE RegisterDevice
  BY <1>0, <1>2 DEF RegisterDevice, notes, WaitsForMailedCode, Stores
<1>3. ASSUME NEW r \in Requests, NEW k \in Kinds, NEW ref \in Names, Ask(r, k, ref)
      PROVE  WaitsForMailedCode'
  BY <1>3 DEF Ask, people, notes, WaitsForMailedCode
<1>4. ASSUME NEW t \in Requests, Expire(t)
      PROVE  WaitsForMailedCode'
  BY <1>4 DEF Expire, people, WaitsForMailedCode
<1>5. CASE UNCHANGED vars
  BY <1>5 DEF vars, WaitsForMailedCode
<1> QED
  BY <1>1, <1>2, <1>3, <1>4, <1>5 DEF Next

-----------------------------------------------------------------------------
\* A verified address brought its code: writing the account's id marks only an
\* address that is verified already.

VerifiedBy(v) == job[v].kind = "verify" /\ job[v].answer = "done" /\ job[v].ref \in mailed

LEMMA VerifiedStep ==
  ASSUME Typed, JobsFit, VerifiedByMail, [Next]_vars
  PROVE  VerifiedByMail'
<1>0. Stores /\ VerifiedByMail = (row.verified => \E v \in Requests : VerifiedBy(v))
  BY TypedIs DEF VerifiedByMail, VerifiedBy
<1> SUFFICES ASSUME row'.verified PROVE \E v \in Requests : VerifiedBy(v)'
  BY DEF VerifiedByMail, VerifiedBy
<1>1. ASSUME NEW r \in Requests, Handle(r), ~row.verified
      PROVE  \E v \in Requests : VerifiedBy(v)'
  <2>1. Frame(r) /\ Keeps /\ Fits(r) /\ Reached(r)
    BY <1>1, HandleFrame, HandleKeeps DEF JobsFit
  <2>2. ~LinkAccount(r)
    BY <1>1, <2>1 DEF LinkAccount, At, Reached, SignUps, Writers, Pcs
  <2>3. VerifyUser(r)
    BY <1>1, <2>1, <2>2 DEF Frame
  <2>4. job[r].kind = "verify" /\ Finishes(r)
    BY <2>3 DEF VerifyUser, At, Finishes
  <2>5. VerifiedBy(r)'
    BY <1>1, <2>1, <2>4, HandleFields DEF VerifiedBy, Stable, Reached, Keeps
  <2> QED
    BY <2>5
<1>2. ASSUME row.verified
      PROVE  \E v \in Requests : VerifiedBy(v)'
  <2>1. PICK v \in Requests : VerifiedBy(v)
    BY <1>0, <1>2
  <2>2. job[v].pc = "over"
    BY <2>1, TypedIs DEF VerifiedBy, JobTyped
  <2>3. mailed \subseteq mailed'
    <3>1. ASSUME NEW r \in Requests, Handle(r)
          PROVE  mailed \subseteq mailed'
      BY <3>1, HandleKeeps DEF Keeps
    <3> QED
      BY <3>1 DEF Next, Ask, Expire, RegisterDevice, notes, vars
  <2>4. Fixed(v)
    BY <2>2, StepFixes DEF Next
  <2> QED
    BY <2>1, <2>3, <2>4 DEF VerifiedBy, Fixed
<1>3. row.verified \/ \E r \in Requests : Handle(r)
  <2>1. CASE RegisterDevice
    BY <1>0, <2>1 DEF RegisterDevice, Stores
  <2> QED
    BY <2>1 DEF Next, Ask, Expire, people, vars
<1> QED
  BY <1>1, <1>2, <1>3

-----------------------------------------------------------------------------
\* A linked account gets its role.

LEMMA LinkersStep ==
  ASSUME Typed, JobsFit, LinkersGrant, [Next]_vars
  PROVE  LinkersGrant'
<1>0. Stores
  BY TypedIs
<1> SUFFICES ASSUME row'.linked PROVE LinkersGrant'
  BY DEF LinkersGrant
<1>1. ASSUME NEW r \in Requests, Handle(r)
      PROVE  LinkersGrant'
  <2>0. Frame(r) /\ Stable(r) /\ Fits(r) /\ job \in [Requests -> Job]
    BY <1>1, HandleFrame, HandleFields DEF JobsFit, Typed
  <2>1. CASE LinkAccount(r)
    <3>1. job'[r].pc = IF job[r].kind = "reset" THEN "fido" ELSE "holder"
      BY <2>0, <2>1, GoFields DEF LinkAccount, Pcs
    <3>2. linkedBy' = r
      BY <2>1 DEF LinkAccount
    <3> QED
      BY <2>0, <3>1, <3>2 DEF LinkersGrant, Stable
  <2>2. CASE ~LinkAccount(r)
    <3>1. linkedBy' = linkedBy /\ row.linked
      BY <2>0, <2>2 DEF Frame
    <3>2. linkedBy \in Requests
      BY <3>1 DEF LinkersGrant
    <3>3. granted => granted'
      BY <2>0 DEF Frame, GrantRole
    <3>4. CASE linkedBy # r \/ job[linkedBy].pc = "over"
      <4>1. Fixed(linkedBy)
        BY <1>1, <3>2, <3>4, StepFixes
      <4> QED
        BY <3>1, <3>2, <3>3, <4>1 DEF LinkersGrant, Fixed
    <3>5. CASE linkedBy = r /\ job[r].pc # "over"
      <4>0. job[r].answer = "none"
        BY TypedIs, <3>5 DEF JobTyped
      <4>1. CASE job[r].kind = "reset"
        BY <2>0, <3>1, <3>5, <4>1 DEF LinkersGrant, Stable
      <4>2. CASE job[r].pc \in {"holder", "role"}
        <5>1. StoreHolder(r) \/ GrantRole(r) \/ Failing(r)
          <6>1. ~Passes(r) /\ ~Refuses(r)
            BY <4>2, HandleFields
          <6>2. job[r].kind \in SignUps
            BY <2>0, <4>2 DEF Fits
          <6> QED
            BY <1>1, <4>2, <6>1, <6>2, HandleIs DEF Works, Finishes, SendCode, StorePassword, RereadPassword,
               PostAccount, AdoptAccount, SetPassword, LinkAccount, FidoPassword, SaveRow, VerifyUser, SendToken,
               DeleteToken, KeepPassword, At
        <5>2. CASE StoreHolder(r)
          <6>1. job'[r].pc = "role"
            BY <2>0, <5>2, GoFields DEF StoreHolder, Pcs
          <6> QED
            BY <3>1, <3>2, <3>5, <6>1 DEF LinkersGrant
        <5>3. CASE GrantRole(r)
          <6>1. job'[r].pc = "over" /\ granted'
            BY <5>3, HandleFields DEF Finishes, GrantRole
          <6> QED
            BY <3>1, <3>2, <3>5, <6>1 DEF LinkersGrant
        <5>4. CASE Failing(r)
          <6>1. job'[r].answer = "failed"
            BY <5>4, HandleFields
          <6> QED
            BY <3>1, <3>2, <3>5, <6>1 DEF LinkersGrant
        <5> QED
          BY <5>1, <5>2, <5>3, <5>4
      <4> QED
        BY <3>1, <3>5, <4>0, <4>1, <4>2 DEF LinkersGrant
    <3> QED
      BY <3>2, <3>4, <3>5
  <2> QED
    BY <2>1, <2>2
<1>2. ASSUME NEW r \in Requests, NEW k \in Kinds, NEW ref \in Names, Ask(r, k, ref)
      PROVE  LinkersGrant'
  <2>1. UNCHANGED <<row, granted, linkedBy>> /\ row.linked
    BY <1>2 DEF Ask, people
  <2>2. linkedBy \in Requests
    BY <2>1 DEF LinkersGrant
  <2>3. job[linkedBy].pc # "idle"
    <3>1. ASSUME job[linkedBy].pc = "idle"
          PROVE  FALSE
      <4>1. job[linkedBy].kind = "none" /\ job[linkedBy].answer = "none"
        BY <2>2, <3>1, TypedIs DEF JobsFit, Fits, JobTyped
      <4> QED
        BY <2>1, <3>1, <4>1 DEF LinkersGrant
    <3> QED
      BY <3>1
  <2>4. Fixed(linkedBy)
    BY <1>2, <2>2, <2>3, StepFixes
  <2> QED
    BY <2>1, <2>2, <2>4 DEF LinkersGrant, Fixed
<1>3. ASSUME NEW t \in Requests, Expire(t)
      PROVE  LinkersGrant'
  BY <1>3 DEF Expire, people, LinkersGrant
<1>4. CASE RegisterDevice
  BY <1>0, <1>4 DEF RegisterDevice, notes, LinkersGrant, Stores
<1>5. CASE UNCHANGED vars
  BY <1>5 DEF vars, LinkersGrant
<1> QED
  BY <1>1, <1>2, <1>3, <1>4, <1>5 DEF Next

-----------------------------------------------------------------------------
\* Behind a sign-up that gets through there is an account with a password, or
\* one that was found.

PastAccount(r) ==
  job[r].kind \in SignUps /\ (job[r].pc \in {"link", "holder", "role"} \/ job[r].answer = "done")

LEMMA AccountsIs == AccountsHavePassword <=> \A r \in Requests : PastAccount(r) /\ account.password = None => job[r].adopted
BY DEF AccountsHavePassword, PastAccount

\* Who passes the account's making finds an account or gives it a password.
LEMMA ComePast ==
  ASSUME Typed, JobsFit, NEW r \in Requests, Handle(r), PastAccount(r)'
  PROVE  \/ AdoptAccount(r) /\ job'[r].adopted
         \/ SetPassword(r)
         \/ PastAccount(r) /\ SameAdopted(r)
<1>0. /\ Stable(r) /\ Fits(r) /\ job \in [Requests -> Job] /\ job[r].kind \in SignUps
      /\ (job[r].answer = "none") = (job[r].pc # "over")
  BY HandleFields, TypedIs DEF PastAccount, JobsFit, Stable, JobTyped
<1> USE DEF At
<1>1. CASE Passes(r)
  <2>1. LookVerified(r)
    BY <1>0, <1>1 DEF Passes, LookNew, CheckCode, LookVerified, LookForgetful, LookToken, LookOldPassword,
       RightPassword, SignUps
  <2>2. job'[r].pc = "store" /\ job'[r].answer = job[r].answer
    BY <1>0, <2>1, GoFields DEF LookVerified, Pcs
  <2> QED
    BY <1>0, <2>1, <2>2 DEF PastAccount, LookVerified
<1>2. CASE Refuses(r) \/ Failing(r)
  BY <1>2, HandleFields DEF PastAccount
<1>3. CASE Works(r)
  <2>1. job'[r].answer = "none"
    BY <1>0, <1>3, HandleFields
  <2>2. CASE StorePassword(r) \/ PostAccount(r)
    <3>1. job'[r].pc \in {"account", "reread", "password"}
      BY <1>0, <2>2, GoFields DEF StorePassword, PostAccount, Pcs
    <3> QED
      BY <2>1, <3>1 DEF PastAccount
  <2>3. CASE RereadPassword(r) \/ AdoptAccount(r)
    BY <2>1, <2>3, ReadFields DEF PastAccount
  <2>4. CASE LinkAccount(r) \/ StoreHolder(r)
    <3>1. SameAdopted(r)
      BY <1>0, <2>4, GoFields DEF LinkAccount, StoreHolder, Pcs, SameRead
    <3> QED
      BY <1>0, <2>4, <3>1 DEF LinkAccount, StoreHolder, PastAccount
  <2> QED
    BY <1>0, <1>3, <2>2, <2>3, <2>4 DEF Works, SendCode, FidoPassword, SignUps
<1>4. CASE Finishes(r)
  <2>1. GrantRole(r)
    BY <1>0, <1>4 DEF Finishes, SaveRow, VerifyUser, SendToken, DeleteToken, KeepPassword, FidoPassword, SignUps
  <2> QED
    BY <1>0, <1>4, <2>1, HandleFields DEF GrantRole, PastAccount, SameRead
<1> QED
  BY <1>1, <1>2, <1>3, <1>4, HandleIs

LEMMA AccountsStep ==
  ASSUME Typed, JobsFit, AccountsHavePassword, [Next]_vars
  PROVE  AccountsHavePassword'
<1>0. Stores /\ \A q \in Requests : PastAccount(q) /\ account.password = None => job[q].adopted
  BY TypedIs, AccountsIs
<1> SUFFICES ASSUME NEW q \in Requests, PastAccount(q)', account'.password = None
             PROVE  job'[q].adopted
  BY DEF AccountsHavePassword, PastAccount
<1>1. ASSUME NEW r \in Requests, Handle(r)
      PROVE  job'[q].adopted
  <2>1. ~SetPassword(r) /\ account.password = None
    <3>1. SetPassword(r) => FALSE
      <4>1. ASSUME SetPassword(r)
            PROVE  account'.password \in Requests
        <5>1. job[r].brings \in Requests
          BY <4>1 DEF SetPassword, At, JobsFit, Reached
        <5> QED
          BY <1>0, <4>1, <5>1 DEF SetPassword, Stores
      <4> QED
        BY <4>1, ConstantsAssumption
    <3> QED
      BY <1>1, <3>1, HandleFrame DEF Frame
  <2>2. CASE q = r
    BY <1>0, <1>1, <2>1, <2>2, ComePast DEF SameAdopted
  <2>3. CASE q # r
    <3>1. Fixed(q)
      BY <1>1, <2>3, StepFixes
    <3> QED
      BY <1>0, <2>1, <3>1 DEF Fixed, PastAccount, SameRead, SameAdopted
  <2> QED
    BY <2>2, <2>3
<1>2. ASSUME NEW r \in Requests, NEW k \in Kinds, NEW ref \in Names, Ask(r, k, ref)
      PROVE  job'[q].adopted
  <2>1. q # r
    BY <1>2, AskFields DEF PastAccount
  <2>2. Fixed(q)
    BY <1>2, <2>1, StepFixes
  <2>3. account' = account
    BY <1>2, AskFields DEF people
  <2> QED
    BY <1>0, <2>2, <2>3 DEF Fixed, PastAccount, SameRead, SameAdopted
<1>3. CASE RegisterDevice \/ UNCHANGED vars \/ \E t \in Requests : Expire(t)
  <2>1. Fixed(q) /\ account' = account
    BY <1>3, StepFixes DEF RegisterDevice, vars, Expire, people
  <2> QED
    BY <1>0, <2>1 DEF Fixed, PastAccount, SameRead, SameAdopted
<1> QED
  BY <1>1, <1>2, <1>3 DEF Next

-----------------------------------------------------------------------------
\* A token works once: who deletes it finds it there, and it is never written
\* again because it is mailed only after it has been written.

LEMMA FinishedReset ==
  ASSUME Typed, NEW r \in Requests, Handle(r), job'[r].kind = "reset", job'[r].answer = "done"
  PROVE  DeleteToken(r)
<1>1. job[r].kind = "reset" /\ (job[r].answer = "none") = (job[r].pc # "over")
  BY HandleFields, TypedIs DEF Stable, JobTyped
<1>2. ~Passes(r) /\ ~Refuses(r) /\ ~Failing(r) /\ ~Works(r)
  BY <1>1, HandleFields
<1> QED
  BY <1>1, <1>2, HandleIs DEF Finishes, SaveRow, VerifyUser, GrantRole, SendToken, KeepPassword, At, SignUps

LEMMA TokensStep ==
  ASSUME Typed, JobsFit, TokensUsedUp, TokenWorksOnce, [Next]_vars
  PROVE  TokensUsedUp' /\ TokenWorksOnce'
<1> DEFINE Worked(q) == job[q].kind = "reset" /\ job[q].answer = "done"
<1>0. /\ \A q \in Requests : Worked(q) => job[q].ref \notin tokens
      /\ \A p, q \in Requests : Worked(p) /\ Worked(q) /\ job[p].ref = job[q].ref => p = q
  BY DEF TokensUsedUp, TokenWorksOnce
<1> SUFFICES /\ \A q \in Requests : Worked(q)' => job'[q].ref \notin tokens'
             /\ \A p, q \in Requests : Worked(p)' /\ Worked(q)' /\ job'[p].ref = job'[q].ref => p = q
  BY DEF TokensUsedUp, TokenWorksOnce
<1>1. ASSUME NEW q \in Requests, Fixed(q)
      PROVE  (Worked(q)' <=> Worked(q)) /\ job'[q].ref = job[q].ref
  BY <1>1 DEF Fixed
<1>2. ASSUME NEW r \in Requests, Handle(r)
      PROVE  /\ \A q \in Requests : Worked(q)' => job'[q].ref \notin tokens'
             /\ \A p, q \in Requests : Worked(p)' /\ Worked(q)' /\ job'[p].ref = job'[q].ref => p = q
  <2>1. \A q \in Requests \ {r} : (Worked(q)' <=> Worked(q)) /\ job'[q].ref = job[q].ref
    BY <1>1, <1>2, StepFixes
  <2>2. job'[r].ref = job[r].ref /\ Frame(r)
    BY <1>2, HandleFields, HandleFrame DEF Stable
  <2>3. Worked(r)' => DeleteToken(r)
    BY <1>2, FinishedReset
  <2> HIDE DEF Worked
  <2>4. CASE DeleteToken(r)
    <3>1. job[r].ref \in tokens /\ tokens' = tokens \ {job[r].ref}
      BY <2>4 DEF DeleteToken
    <3> QED
      BY <1>0, <2>1, <2>2, <3>1
  <2>5. CASE LookForgetful(r)
    <3>1. ~Worked(r)' /\ tokens' = tokens \cup {r}
      BY <2>3, <2>5 DEF LookForgetful, DeleteToken, At
    <3>2. r \notin mailed
      BY <2>5 DEF LookForgetful, At, JobsFit, Reached
    <3>3. ASSUME NEW q \in Requests, Worked(q)
          PROVE  job[q].ref # r
      BY <3>2, <3>3 DEF Worked, JobsFit, Reached
    <3> QED
      BY <1>0, <2>1, <3>1, <3>3
  <2>6. CASE ~DeleteToken(r) /\ ~LookForgetful(r)
    <3>1. ~Worked(r)' /\ tokens' = tokens
      BY <2>2, <2>3, <2>6 DEF Frame
    <3> QED
      BY <1>0, <2>1, <3>1
  <2> QED
    BY <2>4, <2>5, <2>6
<1>3. ASSUME NEW r \in Requests, NEW k \in Kinds, NEW ref \in Names, Ask(r, k, ref)
      PROVE  /\ \A q \in Requests : Worked(q)' => job'[q].ref \notin tokens'
             /\ \A p, q \in Requests : Worked(p)' /\ Worked(q)' /\ job'[p].ref = job'[q].ref => p = q
  <2>1. \A q \in Requests \ {r} : (Worked(q)' <=> Worked(q)) /\ job'[q].ref = job[q].ref
    BY <1>1, <1>3, StepFixes
  <2>2. ~Worked(r)' /\ tokens' = tokens
    BY <1>3, AskFields DEF notes
  <2> HIDE DEF Worked
  <2> QED
    BY <1>0, <2>1, <2>2
<1>4. CASE RegisterDevice \/ UNCHANGED vars \/ \E t \in Requests : Expire(t)
  <2>1. \A q \in Requests : (Worked(q)' <=> Worked(q)) /\ job'[q].ref = job[q].ref
    BY <1>1, <1>4, StepFixes
  <2>2. tokens' = tokens
    BY <1>4 DEF RegisterDevice, vars, Expire, notes
  <2> HIDE DEF Worked
  <2> QED
    BY <1>0, <2>1, <2>2
<1> QED
  BY <1>2, <1>3, <1>4 DEF Next

-----------------------------------------------------------------------------
\* The two stores of the password.

LEMMA AloneIsStep ==
  ASSUME Typed, JobsFit, AloneIsAlone, [Next]_vars
  PROVE  AloneIsAlone'
<1> SUFFICES ASSUME NEW p \in Requests, NEW w \in Requests, Writing(p)', Writing(w)', job'[p].alone
             PROVE  p = w
  BY DEF AloneIsAlone
<1>0. Writing(p) /\ Writing(w) /\ job[p].alone => p = w
  BY DEF AloneIsAlone
<1>1. ASSUME NEW r \in Requests, Handle(r)
      PROVE  p = w
  <2>1. \A q \in Requests : Writing(q)' => Writing(q) /\ job'[q].alone = job[q].alone
    <3>1. ASSUME NEW q \in Requests, Writing(q)'
          PROVE  Writing(q) /\ job'[q].alone = job[q].alone
      <4>1. CASE q = r
        BY <1>1, <3>1, <4>1, HandleFields, HandleIs DEF Stable, Writing, InFlight
      <4>2. CASE q # r
        BY <1>1, <3>1, <4>2, StepFixes DEF Fixed, Writing, InFlight
      <4> QED
        BY <4>1, <4>2
    <3> QED
      BY <3>1
  <2> QED
    BY <1>0, <2>1
<1>2. ASSUME NEW r \in Requests, NEW k \in Kinds, NEW ref \in Names, Ask(r, k, ref)
      PROVE  p = w
  <2>1. \A q \in Requests \ {r} : (Writing(q)' <=> Writing(q)) /\ (job'[q].alone => job[q].alone /\ ~(Writing(q) /\ k \in Writers))
    BY <1>2, AskFields DEF Writing, InFlight
  <2>2. (Writing(r)' => k \in Writers) /\ job'[r].alone = ~\E q \in Requests : Writing(q)
    BY <1>2, AskFields DEF Writing
  <2> QED
    BY <1>0, <2>1, <2>2
<1>3. CASE RegisterDevice \/ UNCHANGED vars \/ \E t \in Requests : Expire(t)
  <2>1. \A q \in Requests : (Writing(q)' <=> Writing(q)) /\ job'[q].alone = job[q].alone
    BY <1>3, StepFixes DEF Fixed, Writing, InFlight
  <2> QED
    BY <1>0, <2>1
<1> QED
  BY <1>1, <1>2, <1>3 DEF Next

\* Only a writer touches either store.
LEMMA OnlyWritersWrite ==
  ASSUME Typed, NEW r \in Requests, Handle(r), ~Writing(r)
  PROVE  row'.stored = row.stored /\ account'.password = account.password
<1>1. ~SetPassword(r) /\ ~StorePassword(r) /\ ~FidoPassword(r) /\ ~KeepPassword(r)
  BY DEF Writing, InFlight, Writers, SignUps, At, SetPassword, StorePassword, FidoPassword, KeepPassword
<1> QED
  BY <1>1, HandleFrame DEF Frame

\* A writer who is alone leaves in the stores what its next steps rely on.
LEMMA HandleStoresOf ==
  ASSUME Typed, JobsFit, NEW r \in Requests, Handle(r), Writing(r)', StoresOf(r)
  PROVE  StoresOf(r)'
<1>0. /\ Stores /\ Frame(r) /\ Stable(r) /\ Fits(r) /\ job \in [Requests -> Job] /\ job[r].kind \in Writers
      /\ job'[r].pc # "over"
  BY TypedIs, HandleFrame, HandleFields DEF JobsFit, Writing, InFlight, Stable
<1> USE DEF At
<1>1. CASE LookNew(r) \/ CheckCode(r) \/ LookForgetful(r) \/ SendCode(r)
  <2>1. job[r].kind \in {"mail", "verify", "forgot"}
    BY <1>1 DEF LookNew, CheckCode, LookForgetful, SendCode
  <2> QED
    BY <1>0, <2>1 DEF Writers
<1>2. CASE LookVerified(r)
  <2>1. job'[r].pc = "store"
    BY <1>0, <1>2, GoFields DEF LookVerified, Pcs
  <2> QED
    BY <2>1 DEF StoresOf
<1>3. CASE LookToken(r) \/ LookOldPassword(r)
  <2>1. job'[r].pc \in {"password", "account"} /\ job'[r].kind \in {"reset", "change"}
    BY <1>0, <1>3, ReadFields DEF LookToken, LookOldPassword, Stable
  <2> QED
    BY <2>1 DEF StoresOf, SignUps
<1>4. CASE RightPassword(r)
  <2>1. job'[r].pc = "keep" /\ job'[r].brings = account.password /\ account' = account
    BY <1>4, ReadFields DEF RightPassword, people
  <2> QED
    BY <2>1 DEF StoresOf
<1>5. CASE StorePassword(r)
  <2>1. /\ job'[r].pc \in {"account", "reread"} /\ job'[r].brings = job[r].brings
        /\ row'.stored = job[r].brings
    BY <1>0, <1>5, GoFields DEF StorePassword, Pcs, SameRead, SameBrings, Stores
  <2> QED
    BY <2>1 DEF StoresOf
<1>6. CASE RereadPassword(r)
  <2>1. job'[r].pc = "account" /\ job'[r].brings = row.stored /\ row' = row
    BY <1>6, ReadFields DEF RereadPassword, people
  <2> QED
    BY <2>1 DEF StoresOf
<1>7. CASE PostAccount(r)
  <2>1. /\ job'[r].pc = "password" /\ job'[r].brings = job[r].brings /\ row' = row /\ job[r].pc = "account"
    BY <1>0, <1>7, GoFields DEF PostAccount, Pcs, SameRead, SameBrings
  <2> QED
    BY <1>0, <2>1 DEF StoresOf, Stable
<1>8. CASE AdoptAccount(r)
  <2>1. /\ job'[r].pc = "link" /\ job'[r].adopted /\ job'[r].brings = job[r].brings /\ row' = row
        /\ job[r].pc = "account"
    BY <1>8, ReadFields DEF AdoptAccount, people, SameBrings
  <2> QED
    BY <1>0, <2>1 DEF StoresOf, Stable
<1>9. CASE SetPassword(r)
  <2>1. /\ job'[r].pc \in {"fido", "link"} /\ job'[r].brings = job[r].brings /\ row' = row
        /\ account'.password = job[r].brings /\ job[r].pc = "password"
    BY <1>0, <1>9, GoFields DEF SetPassword, Pcs, SameRead, SameBrings, Stores
  <2> QED
    BY <1>0, <2>1 DEF StoresOf, Stable
<1>10. CASE LinkAccount(r) \/ StoreHolder(r)
  <2>1. /\ job[r].pc \in {"link", "holder"} /\ job'[r].pc \in {"holder", "role", "fido"}
        /\ job'[r].brings = job[r].brings /\ job'[r].adopted = job[r].adopted
        /\ row'.stored = row.stored /\ account' = account
    BY <1>0, <1>10, GoFields DEF LinkAccount, StoreHolder, Pcs, SameRead, SameBrings, SameAdopted, Stores
  <2> QED
    BY <1>0, <2>1 DEF StoresOf, Stable
<1>11. CASE FidoPassword(r) /\ job[r].kind = "reset"
  <2>1. /\ job[r].pc = "fido" /\ job'[r].pc = "token"
        /\ job'[r].brings = job[r].brings /\ job'[r].adopted = job[r].adopted /\ job'[r].fido = job[r].fido
        /\ (job[r].fido => row'.stored = job[r].brings) /\ account' = account
    BY <1>0, <1>11, GoFields DEF FidoPassword, Pcs, SameRead, SameBrings, SameAdopted, SameFido, Stores
  <2> QED
    BY <1>0, <2>1 DEF StoresOf, Stable, SignUps
<1>12. CASE Refuses(r) \/ Failing(r) \/ Finishes(r)
  BY <1>0, <1>12, HandleFields
<1> QED
  BY <1>1, <1>2, <1>3, <1>4, <1>5, <1>6, <1>7, <1>8, <1>9, <1>10, <1>11, <1>12, HandleIs DEF Passes, Works

LEMMA AloneWritesStep ==
  ASSUME Typed, JobsFit, AloneIsAlone, AloneWrites, [Next]_vars
  PROVE  AloneWrites'
<1> SUFFICES ASSUME NEW q \in Requests, Writing(q)', job'[q].alone PROVE StoresOf(q)'
  BY DEF AloneWrites
<1>0. Stores /\ (Writing(q) /\ job[q].alone => StoresOf(q))
  BY TypedIs DEF AloneWrites
<1>1. ASSUME Fixed(q), StoresOf(q), row'.stored = row.stored, account'.password = account.password
      PROVE  StoresOf(q)'
  BY <1>1 DEF StoresOf, Fixed, SameRead, SameFido, SameBrings, SameAdopted
<1>2. ASSUME NEW r \in Requests, Handle(r)
      PROVE  StoresOf(q)'
  <2>1. CASE q = r
    <3>1. Writing(r) /\ job[r].alone
      BY <1>2, <2>1, HandleFields, HandleIs DEF Stable, Writing, InFlight
    <3> QED
      BY <1>0, <1>2, <2>1, <3>1, HandleStoresOf
  <2>2. CASE q # r
    <3>1. Fixed(q) /\ job'[q].alone = job[q].alone
      BY <1>2, <2>2, StepFixes
    <3>2. Writing(q) /\ job[q].alone
      BY <3>1 DEF Fixed, Writing, InFlight
    <3>3. ~Writing(r)
      BY <2>2, <3>2 DEF AloneIsAlone
    <3> QED
      BY <1>0, <1>1, <1>2, <3>1, <3>2, <3>3, OnlyWritersWrite
  <2> QED
    BY <2>1, <2>2
<1>3. ASSUME NEW r \in Requests, NEW k \in Kinds, NEW ref \in Names, Ask(r, k, ref)
      PROVE  StoresOf(q)'
  <2>1. CASE q = r
    <3>1. job'[q].pc = "look"
      BY <1>3, <2>1, AskFields
    <3> QED
      BY <3>1 DEF StoresOf
  <2>2. CASE q # r
    <3>1. Fixed(q) /\ job[q].alone
      BY <1>3, <2>2, StepFixes, AskFields
    <3>2. row' = row /\ account' = account
      BY <1>3, AskFields DEF people
    <3> QED
      BY <1>0, <1>1, <3>1, <3>2 DEF Fixed, Writing, InFlight
  <2> QED
    BY <2>1, <2>2
<1>4. CASE RegisterDevice \/ UNCHANGED vars \/ \E t \in Requests : Expire(t)
  <2>1. Fixed(q) /\ job'[q].alone = job[q].alone
    BY <1>4, StepFixes
  <2>2. row'.stored = row.stored /\ account' = account
    BY <1>0, <1>4 DEF RegisterDevice, vars, Expire, people, Stores
  <2> QED
    BY <1>0, <1>1, <2>1, <2>2 DEF Fixed, Writing, InFlight
<1> QED
  BY <1>2, <1>3, <1>4 DEF Next

\* Who ends as agreed has written both.
LEMMA EndsAgree ==
  ASSUME Typed, JobsFit, AloneWrites, NEW r \in Requests, Finishes(r), Writing(r), agreed'
  PROVE  row'.stored = account'.password
<1>0. Stores /\ Fits(r) /\ (job[r].alone => StoresOf(r))
  BY TypedIs DEF JobsFit, AloneWrites
<1> USE DEF At
<1>1. CASE GrantRole(r)
  BY <1>0, <1>1 DEF GrantRole, Ends, StoresOf
<1>2. CASE DeleteToken(r)
  BY <1>0, <1>2 DEF DeleteToken, Ends, StoresOf, people, Fits
<1>3. CASE KeepPassword(r)
  BY <1>0, <1>3 DEF KeepPassword, Ends, StoresOf, Stores
<1>4. CASE FidoPassword(r) /\ job[r].kind # "reset"
  <2>1. ~job[r].adopted /\ job[r].pc = "fido"
    BY <1>0, <1>4 DEF FidoPassword, Fits
  <2> QED
    BY <1>0, <1>4, <2>1 DEF FidoPassword, Ends, StoresOf, Stores
<1>5. CASE SaveRow(r) \/ VerifyUser(r) \/ SendToken(r)
  BY <1>5 DEF SaveRow, VerifyUser, SendToken, Writing, Writers
<1> QED
  BY <1>1, <1>2, <1>3, <1>4, <1>5 DEF Finishes

LEMMA LookersStep ==
  ASSUME Typed, JobsFit, AloneWrites, LookersAgree, [Next]_vars
  PROVE  LookersAgree'
<1> SUFFICES ASSUME agreed', \A q \in Requests : Writing(q)' => job'[q].pc = "look"
             PROVE  row'.stored = account'.password
  BY DEF LookersAgree
<1>0. Stores
  BY TypedIs
<1>1. ASSUME NEW r \in Requests, Handle(r)
      PROVE  row'.stored = account'.password
  <2>1. \A q \in Requests \ {r} : Writing(q) => job[q].pc = "look"
    BY <1>1, StepFixes DEF Fixed, Writing, InFlight
  <2>2. ASSUME agreed' = agreed, Writing(r) => job[r].pc = "look", row'.stored = row.stored,
               account'.password = account.password
        PROVE  row'.stored = account'.password
    BY <2>1, <2>2 DEF LookersAgree
  <2>3. CASE Writing(r)
    <3>1. CASE Passes(r) \/ Works(r)
      BY <1>1, <2>3, <3>1, HandleFields DEF Writing, InFlight, Stable
    <3>2. CASE Refuses(r)
      BY <2>2, <3>2, <1>1, HandleFields, HandleFrame DEF people
    <3>3. CASE Failing(r)
      BY <1>1, <2>3, <3>3, HandleFrame DEF Writing
    <3>4. CASE Finishes(r)
      BY <2>3, <3>4, EndsAgree
    <3> QED
      BY <1>1, <3>1, <3>2, <3>3, <3>4, HandleIs
  <2>4. CASE ~Writing(r)
    <3>1. agreed' = agreed
      <4>1. job[r].kind \notin Writers
        BY <1>1, <2>4, HandleFields, HandleIs DEF Writing, InFlight
      <4>2. CASE Passes(r) \/ Works(r) \/ Refuses(r) \/ Failing(r)
        BY <1>0, <1>1, <4>1, <4>2, HandleFrame DEF Stores
      <4>3. CASE Finishes(r)
        BY <4>1, <4>3 DEF Finishes, SaveRow, VerifyUser, GrantRole, SendToken, DeleteToken, KeepPassword, FidoPassword,
           At, Writers, SignUps
      <4> QED
        BY <1>1, <4>2, <4>3, HandleIs
    <3> QED
      BY <1>1, <2>2, <2>4, <3>1, OnlyWritersWrite
  <2> QED
    BY <2>3, <2>4
<1>2. ASSUME NEW r \in Requests, NEW k \in Kinds, NEW ref \in Names, Ask(r, k, ref)
      PROVE  row'.stored = account'.password
  <2>1. \A q \in Requests : Writing(q) => job[q].pc = "look"
    <3>1. ~Writing(r)
      BY <1>2, AskFields DEF Writing, InFlight
    <3> QED
      BY <1>2, <3>1, StepFixes DEF Fixed, Writing, InFlight
  <2>2. agreed' = agreed /\ row' = row /\ account' = account
    BY <1>2, AskFields DEF people
  <2> QED
    BY <2>1, <2>2 DEF LookersAgree
<1>3. CASE RegisterDevice \/ UNCHANGED vars \/ \E t \in Requests : Expire(t)
  <2>1. \A q \in Requests : Writing(q) => job[q].pc = "look"
    BY <1>3, StepFixes DEF Fixed, Writing, InFlight
  <2>2. agreed' = agreed /\ row'.stored = row.stored /\ account' = account
    BY <1>0, <1>3 DEF RegisterDevice, vars, Expire, people, Stores
  <2> QED
    BY <2>1, <2>2 DEF LookersAgree
<1> QED
  BY <1>1, <1>2, <1>3 DEF Next

-----------------------------------------------------------------------------
LEMMA InitInv ==
  ASSUME Init
  PROVE  IInv
<1>0. None \in Names /\ Idle \in Job /\ MaxFaults \in Nat
  BY ConstantsAssumption DEF Names, Idle, Job, Pcs
<1>1. /\ job \in [Requests -> Job]
      /\ \A r \in Requests : /\ job[r].kind = "none" /\ job[r].pc = "idle" /\ job[r].answer = "none"
                             /\ ~job[r].linked /\ ~job[r].adopted
  BY <1>0 DEF Init, Idle
<1>2. Typed
  <2>1. Stores
    <3>1. /\ row \in [made : BOOLEAN, verified : BOOLEAN, linked : BOOLEAN, fido : BOOLEAN, code : Names, stored : Names]
          /\ account \in [made : BOOLEAN, password : Names]
      BY <1>0 DEF Init
    <3>2. faults \in 0..MaxFaults
      BY <1>0 DEF Init
    <3> QED
      BY <1>0, <3>1, <3>2 DEF Stores, Init
  <2> QED
    BY <1>1, <2>1, TypedIs DEF JobTyped
<1>3. JobsFit
  BY <1>1 DEF JobsFit, Fits, Reached, Writers, Init
<1>4. \A r \in Requests : ~Writing(r)
  BY <1>1 DEF Writing, InFlight
<1>5. WaitsForMailedCode /\ VerifiedByMail /\ LinkersGrant
  BY DEF WaitsForMailedCode, VerifiedByMail, LinkersGrant, Init
<1>6. AccountsHavePassword /\ TokensUsedUp /\ TokenWorksOnce
  BY <1>1 DEF AccountsHavePassword, TokensUsedUp, TokenWorksOnce
<1>7. AloneIsAlone /\ AloneWrites
  BY <1>4 DEF AloneIsAlone, AloneWrites
<1>8. LookersAgree
  BY DEF LookersAgree, Init
<1> QED
  BY <1>2, <1>3, <1>5, <1>6, <1>7, <1>8 DEF IInv

LEMMA StepInv ==
  ASSUME IInv, [Next]_vars
  PROVE  IInv'
BY TypedStep, JobsFitStep, WaitsStep, VerifiedStep, LinkersStep, AccountsStep, TokensStep, AloneIsStep, AloneWritesStep,
   LookersStep DEF IInv

LEMMA Invariance == Spec => []IInv
<1>1. Init => IInv
  BY InitInv
<1>2. IInv /\ [Next]_vars => IInv'
  BY StepInv
<1> QED
  BY <1>1, <1>2, PTL DEF Spec

\* The variables of UserRegistration keep their types.
THEOREM TypeCorrect == Spec => []TypeOK
<1>1. IInv => TypeOK
  BY DEF IInv, Typed
<1> QED
  BY <1>1, Invariance, PTL

\* A row that waits for its code waits for one that has been mailed: the code
\* is written after the mail, and a later one replaces it only after its own.
THEOREM CodesAreMailed == Spec => []WaitsForMailedCode
<1>1. IInv => WaitsForMailedCode
  BY DEF IInv
<1> QED
  BY <1>1, Invariance, PTL

\* No address counts as verified for which nobody brought the mailed code,
\* although every sign-up and reset that writes the account's id sets the mark.
THEOREM MarksAreEarned == Spec => []VerifiedByMail
<1>1. IInv => VerifiedByMail
  BY DEF IInv
<1> QED
  BY <1>1, Invariance, PTL

\* A linked account without its role is one whose sign-up is under way or has
\* failed, or one that a reset made.
THEOREM LinkedGetRoles == Spec => []RoleBehindLink
<1>1. IInv => RoleBehindLink
  BY DEF IInv, LinkersGrant, RoleBehindLink, InFlight
<1> QED
  BY <1>1, Invariance, PTL

\* Who signed up has an account with a password, or took one over.
THEOREM SignUpsSetPasswords == Spec => []PasswordBehindSignUp
<1>1. IInv => PasswordBehindSignUp
  BY DEF IInv, AccountsHavePassword, PasswordBehindSignUp
<1> QED
  BY <1>1, Invariance, PTL

\* One reset is told that its token worked, however many bring it at a time.
THEOREM TokensWorkOnce == Spec => []TokenWorksOnce
<1>1. IInv => TokenWorksOnce
  BY DEF IInv
<1> QED
  BY <1>1, Invariance, PTL

\* After a writer that was alone and wrote both stores, the password of the
\* row is the password of the account.
THEOREM StoresHoldOnePassword == Spec => []PasswordsAgree
<1>1. IInv => PasswordsAgree
  BY DEF IInv, LookersAgree, PasswordsAgree
<1> QED
  BY <1>1, Invariance, PTL

\* All of it at once: what MCUsers checks on three small instances holds for
\* any requests.
THEOREM RegistrationIsKept == Spec => []RegistrationKept
<1>1. /\ TypeOK /\ WaitsForMailedCode /\ VerifiedByMail /\ RoleBehindLink /\ PasswordBehindSignUp
      /\ TokenWorksOnce /\ PasswordsAgree
      => RegistrationKept
  BY DEF RegistrationKept
<1> QED
  BY <1>1, TypeCorrect, CodesAreMailed, MarksAreEarned, LinkedGetRoles, SignUpsSetPasswords, TokensWorkOnce,
     StoresHoldOnePassword, PTL
-----------------------------------------------------------------------------
\* Devices: the inductive invariant.

DeviceRow == [made : BOOLEAN, named : BOOLEAN, deleted : BOOLEAN, counter : Nat]
SignInPcs == {"idle", "find", "ask", "count", "login", "in", "refused"}
SignInRow == [pc : SignInPcs, dev : SUBSET Devices, list : SUBSET Devices, counter : Nat,
              late : BOOLEAN]

DevicesTyped ==
  /\ marked \in BOOLEAN
  /\ device \in [Devices -> DeviceRow]
  /\ registering \in SUBSET Devices /\ failed \in SUBSET Devices /\ overlapped \in SUBSET Devices
  /\ signIn \in [SignIns -> SignInRow]
  /\ passed \in [Devices -> Nat]
  /\ failures \in 0..MaxFaults

\* A row is made, then named, then deleted; its user is marked before all that.
DevicesLive ==
  /\ \A d \in Devices : /\ device[d].deleted => device[d].named
                        /\ device[d].named => device[d].made
                        /\ device[d].made => marked
  /\ registering # {} => marked
  /\ Passkeys!MarkMeansDevice

\* Who began after the deletion has not read the device, and is not verified.
LateStopped ==
  \A s \in SignIns : signIn[s].late =>
    /\ signIn[s].pc \in {"find", "ask", "refused"}
    /\ \A d \in signIn[s].dev : d \notin signIn[s].list

\* A device that was never counted twice at a time is counted by one sign-in at
\* most, which has read what the row still holds.
CountsAlone ==
  \A d \in Devices \ overlapped :
    /\ device[d].counter = passed[d]
    /\ \A s \in Passkeys!Counting(d) :
         /\ signIn[s].counter = device[d].counter
         /\ \A t \in Passkeys!Counting(d) : t = s

\* The sign-ins that a device has passed; no counter is ahead of them.
PassedIn(d) == {s \in SignIns : signIn[s].pc \in {"login", "in"} /\ signIn[s].dev = {d}}

PassedCounted ==
  \A d \in Devices :
    /\ passed[d] = Cardinality(PassedIn(d))
    /\ device[d].counter <= passed[d]
    /\ \A s \in Passkeys!Counting(d) : signIn[s].counter <= passed[d]

DevicesInv ==
  DevicesTyped /\ DevicesLive /\ LateStopped /\ CountsAlone /\ PassedCounted

-----------------------------------------------------------------------------
LEMMA DevicesConstants == MaxFaults \in Nat /\ IsFiniteSet(SignIns)
  BY InstancesAssumption DEF Passkeys!ConstantsAssumption, Passkeys!IsFiniteSet, IsFiniteSet

LEMMA DevicesInit == Passkeys!Init => DevicesInv
<1> SUFFICES ASSUME Passkeys!Init PROVE DevicesInv
  OBVIOUS
<1> USE DevicesConstants DEF Passkeys!Init, Passkeys!NoDevice, Passkeys!Idle
<1>1. DevicesTyped
  <2>1. device \in [Devices -> DeviceRow]
    BY DEF DeviceRow
  <2>2. signIn \in [SignIns -> SignInRow]
    BY DEF SignInRow, SignInPcs
  <2>3. passed \in [Devices -> Nat] /\ failures \in 0..MaxFaults
    OBVIOUS
  <2> QED
    BY <2>1, <2>2, <2>3 DEF DevicesTyped
<1>2. DevicesLive
  BY DEF DevicesLive, Passkeys!MarkMeansDevice
<1>3. LateStopped
  BY DEF LateStopped
<1>4. CountsAlone
  BY DEF CountsAlone, Passkeys!Counting
<1>5. PassedCounted
  <2>1. \A d \in Devices : PassedIn(d) = {}
    BY DEF PassedIn
  <2>2. \A d \in Devices : Passkeys!Counting(d) = {}
    BY DEF Passkeys!Counting
  <2>3. \A d \in Devices : device[d].counter = 0 /\ passed[d] = 0
    OBVIOUS
  <2>4. Cardinality({}) = 0
    BY FS_EmptySet
  <2> HIDE DEF Passkeys!Init
  <2> QED
    BY <2>1, <2>2, <2>3, <2>4 DEF PassedCounted
<1> QED
  BY <1>1, <1>2, <1>3, <1>4, <1>5 DEF DevicesInv

\* The step of a registration or of a sign-in, by what it is.
DeviceSteps(d) ==
  \/ Passkeys!MarkUser(d) \/ Passkeys!CreateDevice(d) \/ Passkeys!CreateFails(d)
  \/ Passkeys!NameDevice(d) \/ Passkeys!DeleteDevice(d)

LEMMA DevicesNextIs ==
  ASSUME Passkeys!Next
  PROVE  \/ \E d \in Devices : DeviceSteps(d)
         \/ \E s \in SignIns, d \in Devices : Passkeys!Attempt(s, d)
         \/ \E s \in SignIns : Passkeys!Login(s)
  BY DEF Passkeys!Next, DeviceSteps

\* What each step of a sign-in makes of it.
Becomes(s, pc, dev, list, counter, late) ==
  /\ signIn' \in [SignIns -> SignInRow]
  /\ \A t \in SignIns \ {s} : signIn'[t] = signIn[t]
  /\ signIn'[s].pc = pc /\ signIn'[s].dev = dev /\ signIn'[s].list = list
  /\ signIn'[s].counter = counter /\ signIn'[s].late = late

LEMMA Reads ==
  ASSUME DevicesTyped, NEW s \in SignIns, NEW d \in Devices, Passkeys!ReadDevices(s, d)
  PROVE  Becomes(s, "find", {d}, Passkeys!DeviceList(s, d), 0, device[d].deleted)
<1>1. /\ Passkeys!DeviceList(s, d) \in SUBSET Devices
      /\ device[d].deleted \in BOOLEAN
  BY DEF Passkeys!DeviceList, DevicesTyped, DeviceRow
<1> QED
  BY <1>1 DEF Passkeys!ReadDevices, Becomes, DevicesTyped, SignInRow, SignInPcs

LEMMA Finds ==
  ASSUME DevicesTyped, NEW s \in SignIns, NEW d \in Devices, Passkeys!FindDevice(s, d)
  PROVE  Becomes(s, "ask", {d}, signIn[s].list, device[d].counter, signIn[s].late)
<1>1. device[d].counter \in Nat
  BY DEF DevicesTyped, DeviceRow
<1>2. signIn' = [signIn EXCEPT ![s].pc = "ask", ![s].counter = device[d].counter]
  BY DEF Passkeys!FindDevice
<1>3. signIn \in [SignIns -> SignInRow] /\ signIn[s].dev = {d}
  BY DEF Passkeys!FindDevice, DevicesTyped
<1> QED
  BY <1>1, <1>2, <1>3 DEF Becomes, SignInRow, SignInPcs

LEMMA FindsNot ==
  ASSUME DevicesTyped, NEW s \in SignIns, NEW d \in Devices, Passkeys!DeviceNotFound(s, d)
  PROVE  Becomes(s, "refused", {d}, {}, 0, FALSE)
  BY DEF Passkeys!DeviceNotFound, Passkeys!Idle, Becomes, DevicesTyped, SignInRow, SignInPcs

LEMMA GoesOn ==
  ASSUME DevicesTyped, NEW s \in SignIns, NEW pc \in SignInPcs,
         signIn' = [signIn EXCEPT ![s].pc = pc]
  PROVE  Becomes(s, pc, signIn[s].dev, signIn[s].list, signIn[s].counter, signIn[s].late)
  BY DEF Becomes, DevicesTyped, SignInRow, SignInPcs

LEMMA DevicesTypes ==
  ASSUME DevicesTyped, Passkeys!Next
  PROVE  DevicesTyped'
<1> USE DevicesConstants DEF DevicesTyped
<1>1. ASSUME NEW d \in Devices, DeviceSteps(d)
      PROVE  DevicesTyped'
  <2> USE DEF DeviceRow
  <2>1. CASE Passkeys!MarkUser(d)
    BY <2>1 DEF Passkeys!MarkUser
  <2>2. CASE Passkeys!CreateDevice(d)
    BY <2>2 DEF Passkeys!CreateDevice
  <2>3. CASE Passkeys!CreateFails(d)
    BY <2>3 DEF Passkeys!CreateFails
  <2>4. CASE Passkeys!NameDevice(d)
    BY <2>4 DEF Passkeys!NameDevice
  <2>5. CASE Passkeys!DeleteDevice(d)
    BY <2>5 DEF Passkeys!DeleteDevice
  <2> QED
    BY <1>1, <2>1, <2>2, <2>3, <2>4, <2>5 DEF DeviceSteps
<1>2. ASSUME NEW s \in SignIns, NEW d \in Devices, Passkeys!Attempt(s, d)
      PROVE  DevicesTyped'
  <2>1. CASE Passkeys!ReadDevices(s, d)
    BY <2>1, Reads DEF Becomes, Passkeys!ReadDevices
  <2>2. CASE Passkeys!FindDevice(s, d)
    <3>1. overlapped' \in SUBSET Devices
      BY <2>2 DEF Passkeys!FindDevice
    <3> QED
      BY <2>2, <3>1, Finds DEF Becomes, Passkeys!FindDevice
  <2>3. CASE Passkeys!DeviceNotFound(s, d)
    BY <2>3, FindsNot DEF Becomes, Passkeys!DeviceNotFound
  <2>4. CASE Passkeys!Verified(s, d)
    BY <2>4, GoesOn DEF Becomes, Passkeys!Verified, SignInPcs
  <2>5. CASE Passkeys!NotVerified(s, d)
    BY <2>5, GoesOn DEF Becomes, Passkeys!NotVerified, SignInPcs
  <2>6. CASE Passkeys!UpdateCounter(s, d)
    <3>1. signIn[s].counter + 1 \in Nat
      BY DEF SignInRow
    <3>2. device' \in [Devices -> DeviceRow]
      BY <2>6, <3>1 DEF Passkeys!UpdateCounter, Passkeys!CounterOf, DeviceRow
    <3>3. signIn' \in [SignIns -> SignInRow]
      BY <2>6, GoesOn DEF Becomes, Passkeys!UpdateCounter, SignInPcs
    <3>4. passed' \in [Devices -> Nat]
      BY <2>6 DEF Passkeys!UpdateCounter
    <3> QED
      BY <2>6, <3>2, <3>3, <3>4 DEF Passkeys!UpdateCounter
  <2> QED
    BY <1>2, <2>1, <2>2, <2>3, <2>4, <2>5, <2>6 DEF Passkeys!Attempt
<1>3. ASSUME NEW s \in SignIns, Passkeys!Login(s)
      PROVE  DevicesTyped'
  BY <1>3, GoesOn DEF Becomes, Passkeys!Login, SignInPcs
<1> QED
  BY <1>1, <1>2, <1>3, DevicesNextIs

LEMMA DevicesLives ==
  ASSUME DevicesTyped, DevicesLive, Passkeys!Next
  PROVE  DevicesLive'
<1> USE DEF DevicesTyped, DevicesLive, Passkeys!MarkMeansDevice, DeviceRow
<1>1. ASSUME NEW d \in Devices, DeviceSteps(d)
      PROVE  DevicesLive'
  <2>1. CASE Passkeys!MarkUser(d)
    BY <2>1 DEF Passkeys!MarkUser
  <2>2. CASE Passkeys!CreateDevice(d)
    BY <2>2 DEF Passkeys!CreateDevice
  <2>3. CASE Passkeys!CreateFails(d)
    BY <2>3 DEF Passkeys!CreateFails
  <2>4. CASE Passkeys!NameDevice(d)
    BY <2>4 DEF Passkeys!NameDevice
  <2>5. CASE Passkeys!DeleteDevice(d)
    BY <2>5 DEF Passkeys!DeleteDevice
  <2> QED
    BY <1>1, <2>1, <2>2, <2>3, <2>4, <2>5 DEF DeviceSteps
<1>2. ASSUME NEW s \in SignIns, NEW d \in Devices, Passkeys!Attempt(s, d)
      PROVE  DevicesLive'
  <2>1. CASE Passkeys!UpdateCounter(s, d)
    <3>1. \A e \in Devices : /\ device'[e].made = device[e].made
                             /\ device'[e].named = device[e].named
                             /\ device'[e].deleted = device[e].deleted
      BY <2>1 DEF Passkeys!UpdateCounter
    <3> QED
      BY <2>1, <3>1 DEF Passkeys!UpdateCounter
  <2>2. CASE UNCHANGED <<marked, device, registering, failed>>
    BY <2>2
  <2> QED
    BY <1>2, <2>1, <2>2 DEF Passkeys!Attempt, Passkeys!ReadDevices, Passkeys!FindDevice,
      Passkeys!DeviceNotFound, Passkeys!Verified, Passkeys!NotVerified
<1>3. ASSUME NEW s \in SignIns, Passkeys!Login(s)
      PROVE  DevicesLive'
  BY <1>3 DEF Passkeys!Login
<1> QED
  BY <1>1, <1>2, <1>3, DevicesNextIs

LEMMA DeviceStepsLeaveSignIns ==
  ASSUME DevicesTyped, NEW d \in Devices, DeviceSteps(d)
  PROVE  /\ UNCHANGED <<signIn, passed, overlapped>>
         /\ \A e \in Devices : device'[e].counter = device[e].counter
  BY DEF DevicesTyped, DeviceRow, DeviceSteps, Passkeys!MarkUser, Passkeys!CreateDevice,
         Passkeys!CreateFails, Passkeys!NameDevice, Passkeys!DeleteDevice

\* A step of a sign-in, by what it means for the counters: the sign-in counts no
\* device after it, or is about to, or goes on, or has counted.
LEMMA SignInStepIs ==
  ASSUME DevicesTyped, NEW s \in SignIns, NEW d \in Devices,
         Passkeys!Attempt(s, d) \/ Passkeys!Login(s)
  PROVE  /\ \A t \in SignIns \ {s} : signIn'[t] = signIn[t]
         /\ \/ /\ signIn[s].pc \in {"idle", "find", "ask"}
               /\ signIn'[s].pc \in {"find", "refused"}
               /\ UNCHANGED <<device, passed, overlapped>>
            \/ /\ signIn[s].pc = "find" /\ signIn'[s].pc = "ask"
               /\ signIn[s].dev = {d} /\ signIn'[s].dev = {d}
               /\ signIn'[s].counter = device[d].counter
               /\ overlapped' = IF Passkeys!Counting(d) # {} THEN overlapped \cup {d}
                                 ELSE overlapped
               /\ UNCHANGED <<device, passed>>
            \/ /\ <<signIn[s].pc, signIn'[s].pc>> \in {<<"ask", "count">>, <<"login", "in">>}
               /\ signIn'[s].dev = signIn[s].dev
               /\ signIn'[s].counter = signIn[s].counter
               /\ UNCHANGED <<device, passed, overlapped>>
            \/ /\ signIn[s].pc = "count" /\ signIn'[s].pc = "login"
               /\ signIn[s].dev = {d} /\ signIn'[s].dev = {d}
               /\ device'[d].counter = signIn[s].counter + 1
               /\ passed' = [passed EXCEPT ![d] = @ + 1]
               /\ \A e \in Devices \ {d} : device'[e] = device[e]
               /\ UNCHANGED overlapped
<1>1. CASE Passkeys!ReadDevices(s, d)
  BY <1>1, Reads DEF Becomes, Passkeys!ReadDevices
<1>2. CASE Passkeys!FindDevice(s, d)
  <2>1. Becomes(s, "ask", {d}, signIn[s].list, device[d].counter, signIn[s].late)
    BY <1>2, Finds
  <2>2. /\ signIn[s].pc = "find" /\ signIn[s].dev = {d}
        /\ UNCHANGED <<device, passed>>
    BY <1>2 DEF Passkeys!FindDevice
  <2>3. overlapped' = IF Passkeys!Counting(d) # {} THEN overlapped \cup {d} ELSE overlapped
    BY <1>2 DEF Passkeys!FindDevice
  <2> QED
    BY <2>1, <2>2, <2>3 DEF Becomes
<1>3. CASE Passkeys!DeviceNotFound(s, d)
  BY <1>3, FindsNot DEF Becomes, Passkeys!DeviceNotFound
<1>4. CASE Passkeys!Verified(s, d)
  BY <1>4, GoesOn DEF Becomes, Passkeys!Verified, SignInPcs
<1>5. CASE Passkeys!NotVerified(s, d)
  BY <1>5, GoesOn DEF Becomes, Passkeys!NotVerified, SignInPcs
<1>6. CASE Passkeys!UpdateCounter(s, d)
  <2>1. Becomes(s, "login", signIn[s].dev, signIn[s].list, signIn[s].counter, signIn[s].late)
    BY <1>6, GoesOn DEF Passkeys!UpdateCounter, SignInPcs
  <2>2. /\ device'[d].counter = signIn[s].counter + 1
        /\ \A e \in Devices \ {d} : device'[e] = device[e]
    BY <1>6 DEF DevicesTyped, DeviceRow, Passkeys!UpdateCounter, Passkeys!CounterOf
  <2> QED
    BY <1>6, <2>1, <2>2 DEF Becomes, Passkeys!UpdateCounter
<1>7. CASE Passkeys!Login(s)
  BY <1>7, GoesOn DEF Becomes, Passkeys!Login, SignInPcs
<1> QED
  BY <1>1, <1>2, <1>3, <1>4, <1>5, <1>6, <1>7 DEF Passkeys!Attempt

LEMMA DevicesLate ==
  ASSUME DevicesTyped, LateStopped, Passkeys!Next
  PROVE  LateStopped'
<1> USE DEF LateStopped
<1>1. ASSUME NEW d \in Devices, DeviceSteps(d)
      PROVE  LateStopped'
  BY <1>1, DeviceStepsLeaveSignIns
<1>2. ASSUME NEW s \in SignIns, NEW d \in Devices, Passkeys!Attempt(s, d)
      PROVE  LateStopped'
  <2>1. CASE Passkeys!ReadDevices(s, d)
    BY <2>1, Reads DEF Becomes, Passkeys!DeviceList
  <2>2. CASE Passkeys!FindDevice(s, d)
    <3>1. Becomes(s, "ask", {d}, signIn[s].list, device[d].counter, signIn[s].late)
      BY <2>2, Finds
    <3>2. signIn[s].pc = "find" /\ signIn[s].dev = {d}
      BY <2>2 DEF Passkeys!FindDevice
    <3> QED
      BY <3>1, <3>2 DEF Becomes
  <2>3. CASE Passkeys!DeviceNotFound(s, d)
    BY <2>3, FindsNot DEF Becomes
  <2>4. CASE Passkeys!Verified(s, d)
    BY <2>4, GoesOn DEF Becomes, Passkeys!Verified, SignInPcs
  <2>5. CASE Passkeys!NotVerified(s, d)
    BY <2>5, GoesOn DEF Becomes, Passkeys!NotVerified, SignInPcs
  <2>6. CASE Passkeys!UpdateCounter(s, d)
    BY <2>6, GoesOn DEF Becomes, Passkeys!UpdateCounter, SignInPcs
  <2> QED
    BY <1>2, <2>1, <2>2, <2>3, <2>4, <2>5, <2>6 DEF Passkeys!Attempt
<1>3. ASSUME NEW s \in SignIns, Passkeys!Login(s)
      PROVE  LateStopped'
  BY <1>3, GoesOn DEF Becomes, Passkeys!Login, SignInPcs
<1> QED
  BY <1>1, <1>2, <1>3, DevicesNextIs

LEMMA DevicesCount ==
  ASSUME DevicesTyped, CountsAlone, Passkeys!Next
  PROVE  CountsAlone'
<1> USE DEF CountsAlone, Passkeys!Counting
<1>1. ASSUME NEW d \in Devices, DeviceSteps(d)
      PROVE  CountsAlone'
  BY <1>1, DeviceStepsLeaveSignIns
<1>2. ASSUME NEW s \in SignIns, NEW d \in Devices, Passkeys!Attempt(s, d) \/ Passkeys!Login(s)
      PROVE  CountsAlone'
  <2>1. \A e \in Devices : passed[e] \in Nat /\ device[e].counter \in Nat
    BY DEF DevicesTyped, DeviceRow
  <2>2. passed \in [Devices -> Nat]
    BY DEF DevicesTyped
  <2>3. \A e \in Devices, t \in SignIns \ {s} :
          t \in Passkeys!Counting(e)' <=> t \in Passkeys!Counting(e)
    BY <1>2, SignInStepIs
  <2>4. CASE signIn[s].pc = "find" /\ signIn'[s].pc = "ask"
    <3>1. /\ signIn'[s].counter = device[d].counter
          /\ signIn'[s].dev = {d}
          /\ UNCHANGED <<device, passed>>
          /\ \A t \in SignIns \ {s} : signIn'[t] = signIn[t]
      BY <1>2, <2>4, SignInStepIs
    <3>2. Devices \ overlapped' \subseteq Devices \ overlapped
      BY <1>2, <2>4, SignInStepIs
    <3>3. d \notin overlapped' => Passkeys!Counting(d) = {}
      <4>1. overlapped' = IF Passkeys!Counting(d) # {} THEN overlapped \cup {d} ELSE overlapped
        BY <1>2, <2>4, SignInStepIs
      <4> QED
        BY <4>1
    <3> QED
      BY <3>1, <3>2, <3>3
  <2>5. CASE ~(signIn[s].pc = "find" /\ signIn'[s].pc = "ask")
    BY <1>2, <2>1, <2>2, <2>5, SignInStepIs
  <2> QED
    BY <2>4, <2>5
<1>3. ASSUME NEW s \in SignIns, Passkeys!Login(s), Devices = {}
      PROVE  CountsAlone'
  BY <1>3
<1> QED
  BY <1>1, <1>2, <1>3, DevicesNextIs

LEMMA DevicesPassed ==
  ASSUME DevicesTyped, PassedCounted, Passkeys!Next
  PROVE  PassedCounted'
<1>0. \A d \in Devices : IsFiniteSet(PassedIn(d))
  BY DevicesConstants, FS_Subset DEF PassedIn
<1>1. ASSUME NEW d \in Devices, DeviceSteps(d)
      PROVE  PassedCounted'
  <2>1. \A e \in Devices : PassedIn(e)' = PassedIn(e)
    BY <1>1, DeviceStepsLeaveSignIns DEF PassedIn
  <2> QED
    BY <1>1, <2>1, DeviceStepsLeaveSignIns DEF PassedCounted, Passkeys!Counting
<1>2. ASSUME NEW s \in SignIns, NEW d \in Devices, Passkeys!Attempt(s, d) \/ Passkeys!Login(s)
      PROVE  PassedCounted'
  <2>0. \A e \in Devices : passed[e] \in Nat /\ device[e].counter \in Nat
    BY DEF DevicesTyped, DeviceRow
  <2>1. CASE UNCHANGED <<device, passed>>
    <3>1. \A e \in Devices : PassedIn(e)' = PassedIn(e)
      <4>1. \A e \in Devices, t \in SignIns :
              t \in PassedIn(e)' <=> t \in PassedIn(e)
        BY <1>2, <2>1, SignInStepIs DEF PassedIn, DevicesTyped
      <4> QED
        BY <4>1 DEF PassedIn
    <3>2. ASSUME NEW e \in Devices, NEW t \in Passkeys!Counting(e)'
          PROVE  signIn'[t].counter <= passed[e]
      BY <1>2, <2>0, <2>1, SignInStepIs DEF PassedCounted, Passkeys!Counting
    <3> QED
      BY <2>1, <3>1, <3>2 DEF PassedCounted
  <2>2. CASE ~UNCHANGED <<device, passed>>
    <3>1. s \in Passkeys!Counting(d) /\ s \notin PassedIn(d)
      BY <1>2, <2>2, SignInStepIs DEF Passkeys!Counting, PassedIn
    <3>2. PassedIn(d)' = PassedIn(d) \cup {s}
      BY <1>2, <2>2, SignInStepIs DEF PassedIn
    <3>3. \A e \in Devices \ {d} : PassedIn(e)' = PassedIn(e)
      BY <1>2, <2>2, SignInStepIs DEF PassedIn
    <3>4. Cardinality(PassedIn(d)') = Cardinality(PassedIn(d)) + 1
      BY <1>0, <3>1, <3>2, FS_AddElement
    <3>5. \A e \in Devices : \A t \in Passkeys!Counting(e)' :
            t \in Passkeys!Counting(e) /\ signIn'[t].counter = signIn[t].counter
      BY <1>2, <2>2, SignInStepIs DEF Passkeys!Counting
    <3>6. /\ passed'[d] = passed[d] + 1
          /\ device'[d].counter = signIn[s].counter + 1
          /\ \A e \in Devices \ {d} : passed'[e] = passed[e] /\ device'[e] = device[e]
      BY <1>2, <2>2, SignInStepIs DEF DevicesTyped
    <3>7. \A t \in SignIns : signIn[t].counter \in Nat
      BY DEF DevicesTyped, SignInRow
    <3>8. signIn[s].counter <= passed[d]
      BY <3>1 DEF PassedCounted
    <3>9. ASSUME NEW e \in Devices
          PROVE  /\ passed'[e] = Cardinality(PassedIn(e)')
                 /\ device'[e].counter <= passed'[e]
                 /\ passed[e] <= passed'[e]
      BY <2>0, <3>3, <3>4, <3>6, <3>7, <3>8 DEF PassedCounted
    <3>10. ASSUME NEW e \in Devices, NEW t \in Passkeys!Counting(e)'
           PROVE  signIn'[t].counter <= passed'[e]
      <4>1. /\ t \in SignIns /\ signIn'[t].counter = signIn[t].counter
            /\ signIn[t].counter <= passed[e]
        BY <3>5 DEF PassedCounted, Passkeys!Counting
      <4>2. passed'[e] \in Nat
        BY <2>0, <3>6
      <4> QED
        BY <2>0, <3>7, <3>9, <4>1, <4>2
    <3> QED
      BY <3>9, <3>10 DEF PassedCounted
  <2> QED
    BY <2>1, <2>2
<1>3. ASSUME Devices = {}
      PROVE  PassedCounted'
  BY <1>3 DEF PassedCounted
<1> QED
  BY <1>1, <1>2, <1>3, DevicesNextIs

LEMMA DevicesInductive ==
  ASSUME DevicesInv, Passkeys!Next
  PROVE  DevicesInv'
  BY DevicesTypes, DevicesLives, DevicesLate, DevicesCount, DevicesPassed DEF DevicesInv

LEMMA DevicesKept ==
  ASSUME DevicesInv
  PROVE  /\ Passkeys!TypeOK /\ Passkeys!DeletedStaysOut /\ Passkeys!CounterCounts
         /\ Passkeys!DeviceMeansMark /\ Passkeys!MarkMeansDevice
<1> USE DEF DevicesInv
<1>1. \A d \in Devices : Cardinality(PassedIn(d)) <= Cardinality(SignIns)
  BY DevicesConstants, FS_Subset DEF PassedIn
<1>2. Passkeys!TypeOK
  <2>1. Cardinality(SignIns) \in Nat
    BY DevicesConstants, FS_CardinalityType
  <2>2. ASSUME NEW d \in Devices
        PROVE  passed[d] \in 0..Cardinality(SignIns) /\ device[d].counter \in 0..Cardinality(SignIns)
    BY <1>1, <2>1 DEF PassedCounted, DevicesTyped, DeviceRow
  <2>3. passed \in [Devices -> 0..Cardinality(SignIns)]
    BY <2>2 DEF DevicesTyped
  <2>4. Cardinality(SignIns) = Passkeys!Cardinality(SignIns)
    BY DEF Cardinality, Passkeys!Cardinality
  <2> QED
    BY <2>2, <2>3, <2>4 DEF Passkeys!TypeOK, DevicesTyped, DevicesLive, DeviceRow, SignInRow, SignInPcs
<1>3. Passkeys!DeletedStaysOut
  BY DEF Passkeys!DeletedStaysOut, LateStopped
<1>4. Passkeys!CounterCounts
  BY DEF Passkeys!CounterCounts, CountsAlone
<1>5. Passkeys!DeviceMeansMark /\ Passkeys!MarkMeansDevice
  BY DEF Passkeys!DeviceMeansMark, DevicesLive
<1> QED
  BY <1>2, <1>3, <1>4, <1>5


-----------------------------------------------------------------------------
\* Credentials.

AllForms == ClientForms \cup {<<>>, <<"json">>}

ClientRow == [made : BOOLEAN, admin : BOOLEAN, id : AllForms, secret : AllForms,
              stored : PasswordForms \cup {"null"}, linked : BOOLEAN, fido : BOOLEAN]

CredentialsTyped ==
  /\ client \in ClientRow
  /\ user \in [made : BOOLEAN, password : {<<>>, <<"json">>}]
  /\ last.outcome \in Credentials!Outcomes

\* Who has an account has credentials that two readers can decrypt, each taking
\* off a layer if there is one.
LinkedReadable ==
  client.linked =>
    client.made /\ user.made /\ {client.id, client.secret} \subseteq {<<>>, <<"json">>}

CredentialsInv ==
  /\ CredentialsTyped /\ LinkedReadable
  /\ Credentials!AccountHasPassword /\ Credentials!SignInServed /\ Credentials!EncryptedServed

-----------------------------------------------------------------------------
LEMMA PlainIsOpen == ~Credentials!Readable(<<>>)
  BY DEF Credentials!Readable, Credentials!Plain

LEMMA JsonIsClosed == Credentials!Readable(<<"json">>) /\ Tail(<<"json">>) = <<>> /\ <<"json">> # <<>>
  BY DEF Credentials!Readable, Credentials!Plain

LEMMA FormsAreSequences == AllForms \subseteq Seq({"json", "text"})
<1>1. ClientForms \subseteq Seq({"json", "text"})
  BY InstancesAssumption DEF Credentials!ConstantsAssumption
<1>2. <<>> \in Seq({"json", "text"}) /\ <<"json">> \in Seq({"json", "text"})
  OBVIOUS
<1> QED
  BY <1>1, <1>2 DEF AllForms

LEMMA PasswordsPlainOrJson == PasswordForms \subseteq {<<>>, <<"json">>}
  BY InstancesAssumption DEF Credentials!ConstantsAssumption, Credentials!Plain, Credentials!Json

\* What is plain without its outermost layer has no other.
LEMMA OneLayer ==
  ASSUME NEW f \in AllForms, Credentials!Readable(f), Tail(f) = <<>>
  PROVE  f = <<"json">>
<1>1. f \in Seq({"json", "text"}) /\ f # <<>> /\ Head(f) = "json"
  BY FormsAreSequences DEF Credentials!Readable, Credentials!Plain
<1>2. Len(Tail(f)) = Len(f) - 1
  BY <1>1, HeadTailProperties
<1>3. Len(f) = 1
  BY <1>1, <1>2
<1> QED
  BY <1>1, <1>3

\* Each kind of reader, of the two values there are.
LEMMA ReadersReach ==
  ASSUME NEW v \in {<<>>, <<"json">>}
  PROVE  /\ Credentials!decryptString(v) = <<>>
         /\ Credentials!LenientPassword(v) = <<>>
         /\ Credentials!Readable(v) => v = <<"json">> /\ Credentials!decryptPassword(v) = <<>>
  BY PlainIsOpen, JsonIsClosed DEF Credentials!decryptString, Credentials!LenientPassword,
     Credentials!decryptPassword, Credentials!Plain

LEMMA KeycloakTakesPlain == Credentials!Keycloak(<<>>, <<>>) = "accepted"
  BY DEF Credentials!Keycloak, Credentials!Plain

\* The right password, of a user whose credentials can be read.
LEMMA TokenGiven ==
  ASSUME LinkedReadable, client.linked, Credentials!AccountHasPassword
  PROVE  Credentials!generateToken(<<>>) = "accepted"
<1>1. /\ user.password = <<>>
      /\ client.id \in {<<>>, <<"json">>} /\ client.secret \in {<<>>, <<"json">>}
  BY DEF LinkedReadable, Credentials!AccountHasPassword, Credentials!Plain
<1>2. /\ Credentials!decryptString(client.id) = <<>>
      /\ Credentials!decryptString(client.secret) = <<>>
  BY <1>1, ReadersReach
<1>3. Credentials!decryptString(<<>>) = <<>> /\ Credentials!LenientPassword(<<>>) = <<>>
  BY ReadersReach
<1> QED
  BY <1>1, <1>2, <1>3, KeycloakTakesPlain DEF Credentials!generateToken, Credentials!getUserToken

LEMMA VouchedIsReadable ==
  ASSUME CredentialsTyped, Credentials!Vouched
  PROVE  {client.id, client.secret} \subseteq {<<>>, <<"json">>}
<1>1. client.id \in AllForms /\ client.secret \in AllForms
  BY DEF CredentialsTyped, ClientRow
<1>2. CASE Credentials!Readable(client.id) /\ Credentials!Readable(client.secret)
  BY <1>1, <1>2, OneLayer DEF Credentials!Vouched, Credentials!BothOrRaw, Credentials!Keycloak,
     Credentials!getManagementToken, Credentials!decryptPassword, Credentials!Plain
<1>3. CASE ~(Credentials!Readable(client.id) /\ Credentials!Readable(client.secret))
  BY <1>1, <1>3 DEF Credentials!Vouched, Credentials!BothOrRaw, Credentials!Keycloak,
     Credentials!getManagementToken, Credentials!Plain
<1> QED
  BY <1>2, <1>3

LEMMA StrictIsEncrypted ==
  ASSUME CredentialsTyped
  PROVE  /\ Credentials!Strict \in {"accepted", "rejected", "refused"}
         /\ Credentials!Strict = "accepted" <=> client.id = <<"json">> /\ client.secret = <<"json">>
<1>1. client.id \in AllForms /\ client.secret \in AllForms
  BY DEF CredentialsTyped, ClientRow
<1>2. CASE Credentials!Readable(client.id) /\ Credentials!Readable(client.secret)
  BY <1>1, <1>2, OneLayer, JsonIsClosed DEF Credentials!Strict, Credentials!Keycloak,
     Credentials!getManagementToken, Credentials!decryptPassword, Credentials!Plain
<1>3. CASE ~(Credentials!Readable(client.id) /\ Credentials!Readable(client.secret))
  BY <1>1, <1>3, JsonIsClosed DEF Credentials!Strict
<1> QED
  BY <1>2, <1>3

LEMMA TokenOutcomes ==
  ASSUME NEW p
  PROVE  Credentials!generateToken(p) \in {"accepted", "rejected", "refused"}
  BY DEF Credentials!generateToken, Credentials!getUserToken, Credentials!Keycloak

-----------------------------------------------------------------------------
LEMMA CredentialsInit == Credentials!Init => CredentialsInv
<1> SUFFICES ASSUME Credentials!Init PROVE CredentialsInv
  OBVIOUS
<1> USE DEF Credentials!Plain, Credentials!Json
<1>0. /\ Credentials!NoRow \in ClientRow
      /\ Credentials!NoRow.linked = FALSE
  BY DEF Credentials!NoRow, Credentials!NoPassword, ClientRow, AllForms
<1>1. /\ client \in ClientRow
      /\ client.linked => client.made /\ {client.id, client.secret} \subseteq {<<>>, <<"json">>}
      /\ client.linked => user.made
  <2>1. CASE client = Credentials!NoRow
    BY <1>0, <2>1
  <2>2. CASE \E id \in {<<>>, <<"json">>} :
               client = [Credentials!NoRow EXCEPT !.made = TRUE, !.admin = TRUE, !.id = id,
                                                  !.secret = <<"json">>, !.linked = TRUE]
    <3>1. PICK id \in {<<>>, <<"json">>} :
               client = [Credentials!NoRow EXCEPT !.made = TRUE, !.admin = TRUE, !.id = id,
                                                  !.secret = <<"json">>, !.linked = TRUE]
      BY <2>2
    <3>2. /\ client \in ClientRow
          /\ client.made /\ client.id = id /\ client.secret = <<"json">>
      BY <1>0, <3>1 DEF ClientRow, AllForms
    <3>3. user.made
      <4>1. CASE client = Credentials!NoRow
        BY <1>0, <3>1, <4>1 DEF ClientRow
      <4>2. CASE client # Credentials!NoRow
        BY <4>2 DEF Credentials!Init
      <4> QED
        BY <4>1, <4>2
    <3> QED
      BY <3>2, <3>3
  <2> QED
    BY <2>1, <2>2 DEF Credentials!Init
<1>2. /\ user \in [made : BOOLEAN, password : {<<>>, <<"json">>}] /\ user.password = <<>>
      /\ last.op = "none" /\ last.outcome = "accepted"
  <2>1. /\ \/ user = [made |-> FALSE, password |-> <<>>]
           \/ user = [made |-> TRUE, password |-> <<>>]
        /\ last = [op |-> "none", outcome |-> "accepted"]
    BY DEF Credentials!Init
  <2>2. user \in [made : BOOLEAN, password : {<<>>, <<"json">>}] /\ user.password = <<>>
    <3>1. CASE user = [made |-> FALSE, password |-> <<>>]
      BY <3>1
    <3>2. CASE user = [made |-> TRUE, password |-> <<>>]
      BY <3>2
    <3> QED
      BY <2>1, <3>1, <3>2
  <2> QED
    BY <2>1, <2>2
<1>3. CredentialsTyped
  BY <1>1, <1>2 DEF CredentialsTyped, Credentials!Outcomes
<1>4. LinkedReadable
  BY <1>1 DEF LinkedReadable
<1> QED
  BY <1>2, <1>3, <1>4 DEF CredentialsInv, Credentials!AccountHasPassword,
     Credentials!SignInServed, Credentials!EncryptedServed

\* The last request neither signs in nor needs the credentials encrypted.
Elsewhere == last'.op \notin {"login", "reset", "change", "userInfo"}

LEMMA ServedElsewhere ==
  ASSUME Elsewhere PROVE Credentials!SignInServed' /\ Credentials!EncryptedServed'
  BY DEF Elsewhere, Credentials!SignInServed, Credentials!EncryptedServed

\* A request that only reads, by how it ends.
LEMMA ReadsOnly ==
  ASSUME CredentialsInv, UNCHANGED <<client, user>>, Elsewhere,
         last'.outcome \in Credentials!Outcomes
  PROVE  CredentialsInv'
  BY ServedElsewhere DEF CredentialsInv, CredentialsTyped, LinkedReadable,
     Credentials!AccountHasPassword

LEMMA MailKeeps ==
  ASSUME CredentialsInv, NEW id \in ClientForms, NEW secret \in ClientForms,
         Credentials!sendVerificationMail(id, secret)
  PROVE  CredentialsInv'
<1> USE DEF CredentialsInv
<1>1. /\ ~client.made /\ user' = user
      /\ client' = client \/ client' = [client EXCEPT !.made = TRUE, !.id = id, !.secret = secret]
      /\ last'.op = "mail" /\ last'.outcome \in {"accepted", "rejected"}
  BY DEF Credentials!sendVerificationMail, Credentials!Ends, Credentials!getManagementToken,
     Credentials!Keycloak
<1>2. Elsewhere /\ last'.outcome \in Credentials!Outcomes
  BY <1>1 DEF Elsewhere, Credentials!Outcomes
<1>3. ~client.linked
  BY <1>1 DEF LinkedReadable
<1>4. client' \in ClientRow /\ ~client'.linked
  BY <1>1, <1>3 DEF CredentialsTyped, ClientRow, AllForms
<1> QED
  BY <1>1, <1>2, <1>4, ServedElsewhere DEF CredentialsTyped, LinkedReadable,
     Credentials!AccountHasPassword

LEMMA SignUpKeeps ==
  ASSUME CredentialsInv, NEW p \in PasswordForms,
         Credentials!signUp(p) \/ Credentials!signUpUnreadable(p)
  PROVE  CredentialsInv'
<1> USE DEF CredentialsInv
<1>1. Elsewhere /\ last'.outcome \in Credentials!Outcomes
  BY DEF Elsewhere, Credentials!Outcomes, Credentials!signUp, Credentials!signUpUnreadable,
     Credentials!Ends
<1>2. CASE Credentials!signUp(p)
  <2>1. Credentials!decryptPassword(p) = <<>>
    BY <1>2, PasswordsPlainOrJson, ReadersReach DEF Credentials!signUp
  <2>2. /\ client.made /\ client' = [client EXCEPT !.stored = p, !.linked = TRUE]
        /\ user' = [made |-> TRUE, password |-> <<>>]
    BY <1>2, <2>1 DEF Credentials!signUp
  <2>3. /\ client' \in ClientRow /\ client'.made
        /\ client'.id = client.id /\ client'.secret = client.secret
    BY <2>2 DEF CredentialsTyped, ClientRow
  <2>4. {client.id, client.secret} \subseteq {<<>>, <<"json">>}
    BY <1>2, VouchedIsReadable DEF Credentials!signUp
  <2> QED
    BY <1>1, <2>2, <2>3, <2>4, ServedElsewhere DEF CredentialsTyped, LinkedReadable,
       Credentials!AccountHasPassword, Credentials!Plain
<1>3. CASE Credentials!signUpUnreadable(p)
  <2>1. /\ ~client.linked /\ client' = [client EXCEPT !.stored = p] /\ user' = user
    BY <1>3 DEF Credentials!signUpUnreadable
  <2>2. client' \in ClientRow /\ ~client'.linked
    BY <2>1 DEF CredentialsTyped, ClientRow
  <2> QED
    BY <1>1, <2>1, <2>2, ServedElsewhere DEF CredentialsTyped, LinkedReadable,
       Credentials!AccountHasPassword
<1> QED
  BY <1>2, <1>3

LEMMA LoginKeeps ==
  ASSUME CredentialsInv, NEW p \in PasswordForms, Credentials!login(p)
  PROVE  CredentialsInv'
<1> USE DEF CredentialsInv
<1>1. /\ UNCHANGED <<client, user>> /\ last'.op = "login"
      /\ last'.outcome = Credentials!generateToken(Credentials!LenientPassword(p))
  BY DEF Credentials!login, Credentials!Ends
<1>2. last'.outcome \in Credentials!Outcomes
  BY <1>1, TokenOutcomes DEF Credentials!Outcomes
<1>3. client.linked => last'.outcome = "accepted"
  BY <1>1, TokenGiven, ReadersReach, PasswordsPlainOrJson
<1> QED
  BY <1>1, <1>2, <1>3 DEF CredentialsTyped, LinkedReadable, Credentials!AccountHasPassword,
     Credentials!SignInServed, Credentials!EncryptedServed

LEMMA PasskeyKeeps ==
  ASSUME CredentialsInv, NEW p,
         Credentials!registerDevice \/ (p \in PasswordForms /\ Credentials!addPasskey(p))
  PROVE  CredentialsInv'
<1> USE DEF CredentialsInv
<1>1. Elsewhere /\ last'.outcome \in Credentials!Outcomes
  BY TokenOutcomes DEF Elsewhere, Credentials!Outcomes, Credentials!registerDevice,
     Credentials!addPasskey, Credentials!Ends
<1>2. /\ user' = user
      /\ \/ client' = [client EXCEPT !.fido = TRUE]
         \/ p \in PasswordForms /\ client' = [client EXCEPT !.stored = p]
         \/ client' = client
  BY DEF Credentials!registerDevice, Credentials!addPasskey
<1>3. /\ client' \in ClientRow
      /\ client'.id = client.id /\ client'.secret = client.secret
      /\ client'.linked = client.linked /\ client'.made = client.made
  BY <1>2 DEF CredentialsTyped, ClientRow
<1> QED
  BY <1>1, <1>2, <1>3, ServedElsewhere DEF CredentialsTyped, LinkedReadable,
     Credentials!AccountHasPassword

\* A password is set by who could decrypt the credentials and the password.
LEMMA SetPasswordKeeps ==
  ASSUME CredentialsInv, client.made, NEW p \in PasswordForms,
         NEW op \in {"reset", "change"}, NEW outcome \in Credentials!Outcomes,
         Credentials!SetPassword(op, p, outcome),
         outcome = "accepted" => Credentials!Strict = "accepted" /\ Credentials!Readable(p),
         client.linked /\ client.id = <<"json">> /\ client.secret = <<"json">>
           => outcome \in {"accepted", "unreadable"}
  PROVE  CredentialsInv'
<1> USE DEF CredentialsInv
<1>1. last'.op = op /\ last'.outcome = outcome
  BY DEF Credentials!SetPassword, Credentials!Ends
<1>2. CASE outcome = "accepted"
  <2>1. Credentials!decryptPassword(p) = <<>>
    BY <1>2, PasswordsPlainOrJson, ReadersReach
  <2>2. /\ user' = [made |-> TRUE, password |-> <<>>]
        /\ client' = [client EXCEPT !.linked = TRUE, !.stored = IF client.fido THEN p ELSE @]
    BY <1>2, <2>1 DEF Credentials!SetPassword
  <2>3. client' \in ClientRow
    BY <2>2 DEF CredentialsTyped, ClientRow
  <2>4. client'.id = client.id /\ client'.secret = client.secret /\ client'.made = client.made
    BY <2>2 DEF CredentialsTyped, ClientRow
  <2>5. client.id = <<"json">> /\ client.secret = <<"json">>
    BY <1>2, StrictIsEncrypted
  <2> QED
    BY <1>1, <1>2, <2>2, <2>3, <2>4, <2>5 DEF CredentialsTyped, LinkedReadable,
       Credentials!AccountHasPassword, Credentials!SignInServed, Credentials!EncryptedServed,
       Credentials!Plain
<1>3. CASE outcome # "accepted"
  <2>1. UNCHANGED <<client, user>>
    BY <1>3 DEF Credentials!SetPassword
  <2> QED
    BY <1>1, <2>1 DEF CredentialsTyped, LinkedReadable, Credentials!AccountHasPassword,
       Credentials!SignInServed, Credentials!EncryptedServed, Credentials!Json
<1> QED
  BY <1>2, <1>3

LEMMA ResetKeeps ==
  ASSUME CredentialsInv, NEW p \in PasswordForms, Credentials!resetTokenPassword(p)
  PROVE  CredentialsInv'
<1> DEFINE outcome == IF Credentials!Readable(p) THEN Credentials!Strict ELSE "unreadable"
<1>1. CredentialsTyped
  BY DEF CredentialsInv
<1>2. /\ client.made /\ Credentials!SetPassword("reset", p, outcome)
  BY DEF Credentials!resetTokenPassword
<1>3. /\ outcome \in Credentials!Outcomes
      /\ outcome = "accepted" => Credentials!Strict = "accepted" /\ Credentials!Readable(p)
      /\ client.id = <<"json">> /\ client.secret = <<"json">>
           => outcome \in {"accepted", "unreadable"}
  BY <1>1, StrictIsEncrypted DEF Credentials!Outcomes
<1> HIDE DEF outcome
<1> QED
  BY <1>2, <1>3, SetPasswordKeeps

LEMMA ChangeKeeps ==
  ASSUME CredentialsInv, NEW old \in PasswordForms, NEW new \in PasswordForms,
         Credentials!resetPassword(old, new)
  PROVE  CredentialsInv'
<1> DEFINE outcome ==
      IF ~Credentials!Readable(old) \/ ~Credentials!Readable(new) THEN "unreadable"
      ELSE IF Credentials!generateToken(Credentials!decryptPassword(old)) = "accepted"
           THEN Credentials!Strict ELSE "refused"
<1>1. /\ CredentialsTyped /\ LinkedReadable /\ Credentials!AccountHasPassword
  BY DEF CredentialsInv
<1>2. client.made /\ Credentials!SetPassword("change", new, outcome)
  BY DEF Credentials!resetPassword
<1>3. Credentials!Readable(old) => Credentials!decryptPassword(old) = <<>>
  BY PasswordsPlainOrJson, ReadersReach
<1>4. client.linked /\ Credentials!Readable(old)
        => Credentials!generateToken(Credentials!decryptPassword(old)) = "accepted"
  BY <1>1, <1>3, TokenGiven
<1>5. /\ outcome \in Credentials!Outcomes
      /\ outcome = "accepted" => Credentials!Strict = "accepted" /\ Credentials!Readable(new)
      /\ client.linked /\ client.id = <<"json">> /\ client.secret = <<"json">>
           => outcome \in {"accepted", "unreadable"}
  BY <1>1, <1>4, StrictIsEncrypted DEF Credentials!Outcomes
<1> HIDE DEF outcome
<1> QED
  BY <1>2, <1>5, SetPasswordKeeps

LEMMA LookUpKeeps ==
  ASSUME CredentialsInv, Credentials!getUserByUserIdInKeycloak
  PROVE  CredentialsInv'
<1> USE DEF CredentialsInv
<1>1. /\ UNCHANGED <<client, user>>
      /\ last'.op = "userInfo" /\ last'.outcome = Credentials!Strict
  BY DEF Credentials!getUserByUserIdInKeycloak, Credentials!Ends
<1> QED
  BY <1>1, StrictIsEncrypted DEF CredentialsTyped, LinkedReadable,
     Credentials!AccountHasPassword, Credentials!SignInServed, Credentials!EncryptedServed,
     Credentials!Outcomes, Credentials!Json

LEMMA OthersOnlyRead ==
  ASSUME CredentialsInv,
         \/ Credentials!loginWithPasskey \/ Credentials!refreshTokenDetails
         \/ Credentials!manageOrganization
  PROVE  CredentialsInv'
<1>1. UNCHANGED <<client, user>> /\ Elsewhere
  BY DEF Credentials!loginWithPasskey, Credentials!refreshTokenDetails,
     Credentials!manageOrganization, Credentials!Ends, Elsewhere
<1>2. last'.outcome \in Credentials!Outcomes
  BY TokenOutcomes DEF Credentials!loginWithPasskey, Credentials!refreshTokenDetails,
     Credentials!manageOrganization, Credentials!Ends, Credentials!Outcomes,
     Credentials!getAccessToken, Credentials!getManagementToken, Credentials!Keycloak
<1> QED
  BY <1>1, <1>2, ReadsOnly

LEMMA CredentialsInductive ==
  ASSUME CredentialsInv, Credentials!Next
  PROVE  CredentialsInv'
<1>1. CASE \E id, secret \in ClientForms : Credentials!sendVerificationMail(id, secret)
  BY <1>1, MailKeeps
<1>2. CASE \E p \in PasswordForms : Credentials!signUp(p) \/ Credentials!signUpUnreadable(p)
  BY <1>2, SignUpKeeps
<1>3. CASE \E p \in PasswordForms : Credentials!login(p)
  BY <1>3, LoginKeeps
<1>4. CASE Credentials!registerDevice \/ \E p \in PasswordForms : Credentials!addPasskey(p)
  <2>1. CASE \E p \in PasswordForms : Credentials!addPasskey(p)
    BY <2>1, PasskeyKeeps
  <2>2. ASSUME Credentials!registerDevice, NEW p PROVE CredentialsInv'
    BY <2>2, PasskeyKeeps
  <2> QED
    BY <1>4, <2>1, <2>2
<1>5. CASE \E p \in PasswordForms : Credentials!resetTokenPassword(p)
  BY <1>5, ResetKeeps
<1>6. CASE \E old, new \in PasswordForms : Credentials!resetPassword(old, new)
  BY <1>6, ChangeKeeps
<1>7. CASE Credentials!getUserByUserIdInKeycloak
  BY <1>7, LookUpKeeps
<1>8. CASE \/ Credentials!loginWithPasskey \/ Credentials!refreshTokenDetails
           \/ Credentials!manageOrganization
  BY <1>8, OthersOnlyRead
<1> QED
  BY <1>1, <1>2, <1>3, <1>4, <1>5, <1>6, <1>7, <1>8 DEF Credentials!Next

LEMMA CredentialsKept ==
  ASSUME CredentialsInv
  PROVE  /\ Credentials!TypeOK /\ Credentials!AccountHasPassword
         /\ Credentials!SignInServed /\ Credentials!EncryptedServed
<1>1. Credentials!TypeOK
  BY DEF CredentialsInv, CredentialsTyped, LinkedReadable, Credentials!TypeOK, ClientRow, AllForms,
     Credentials!NoPassword, Credentials!Plain, Credentials!Json
<1> QED
  BY <1>1 DEF CredentialsInv
-----------------------------------------------------------------------------
\* The suite.

SuiteInv ==
  /\ part = "devices" => DevicesInv
  /\ part = "credentials" => CredentialsInv

LEMMA SuiteInit == UsersInit => SuiteInv
<1> SUFFICES ASSUME UsersInit PROVE SuiteInv
  OBVIOUS
<1>1. DOMAIN Cast \cap {"devices", "credentials"} = {}
  BY InstancesAssumption
<1>2. /\ part = "devices" => Passkeys!Init
      /\ part = "credentials" => Credentials!Init
  BY <1>1 DEF UsersInit
<1> QED
  BY <1>2, DevicesInit, CredentialsInit DEF SuiteInv

LEMMA SuiteUnchanged ==
  ASSUME SuiteInv, UNCHANGED <<others, part>>
  PROVE  SuiteInv'
<1>1. ASSUME DevicesInv PROVE DevicesInv'
  <2>1. UNCHANGED <<marked, device, registering, failed, signIn, passed, overlapped, failures>>
    BY DEF others
  <2>2. \A d : Passkeys!Counting(d)' = Passkeys!Counting(d) /\ PassedIn(d)' = PassedIn(d)
    BY <2>1 DEF PassedIn, Passkeys!Counting
  <2>3. DevicesTyped' /\ DevicesLive' /\ LateStopped'
    BY <1>1, <2>1 DEF DevicesInv, DevicesTyped, DevicesLive, LateStopped, Passkeys!MarkMeansDevice
  <2>4. CountsAlone' /\ PassedCounted'
    BY <1>1, <2>1, <2>2 DEF DevicesInv, CountsAlone, PassedCounted
  <2> QED
    BY <2>3, <2>4 DEF DevicesInv
<1>2. CredentialsInv => CredentialsInv'
  BY DEF others, CredentialsInv, CredentialsTyped, LinkedReadable, Credentials!AccountHasPassword,
     Credentials!SignInServed, Credentials!EncryptedServed
<1> QED
  BY <1>1, <1>2 DEF SuiteInv

LEMMA SuiteStep ==
  ASSUME SuiteInv, [UsersNext]_<<vars, others, part>>
  PROVE  SuiteInv'
<1>1. CASE UNCHANGED <<others, part>>
  BY <1>1, SuiteUnchanged
<1>2. CASE OthersNext /\ UNCHANGED part
  <2>1. CASE part = "devices" /\ Passkeys!Next
    BY <1>2, <2>1, DevicesInductive DEF SuiteInv
  <2>2. CASE part = "credentials" /\ Credentials!Next
    BY <1>2, <2>2, CredentialsInductive DEF SuiteInv
  <2> QED
    BY <1>2, <2>1, <2>2 DEF OthersNext
<1> QED
  BY <1>1, <1>2 DEF UsersNext

\* Who may sign in can and nobody else, for any number of devices and sign-ins
\* and every form of credentials and passwords: sign-ins with deleted devices
\* fail, counters count, the user's mark goes with the devices, and what a
\* request needs at Keycloak arrives there in plain text.
THEOREM SignInsAreKept == UsersSpec => []SignInsKept
<1>1. SuiteInv => SignInsKept
  BY DevicesKept, CredentialsKept DEF SuiteInv, SignInsKept
<1>2. UsersSpec => []SuiteInv
  BY SuiteInit, SuiteStep, PTL DEF UsersSpec
<1> QED
  BY <1>1, <1>2, PTL

\* Every step of the suite is one of UserRegistration, or none.
LEMMA CastStep ==
  ASSUME [UsersNext]_<<vars, others, part>>
  PROVE  [Next]_vars
<1>1. CASE part \in DOMAIN Cast /\ CastNext
  <2>1. DOMAIN Cast[part] \subseteq Requests
    BY <1>1, InstancesAssumption
  <2>2. ASSUME NEW r \in Requests, NEW k, NEW ref \in Names, Ask(r, k, ref)
        PROVE  k \in Kinds
    BY <2>2, ConstantsAssumption DEF Ask
  <2>3. CASE \E r \in DOMAIN Cast[part] : Handle(r)
    BY <2>1, <2>3 DEF Next
  <2>4. CASE \E r \in DOMAIN Cast[part] :
               \E k \in Cast[part][r], ref \in DOMAIN Cast[part] \cup {None} : Ask(r, k, ref)
    BY <2>1, <2>2, <2>4 DEF Next, Names
  <2>5. CASE (\E t \in DOMAIN Cast[part] : Expire(t)) \/ RegisterDevice
    BY <2>1, <2>5 DEF Next
  <2> QED
    BY <1>1, <2>3, <2>4, <2>5 DEF CastNext
<1> QED
  BY <1>1 DEF UsersNext

\* What is proved of UserRegistration holds of it as the suite runs it.
THEOREM SuiteRegisters == UsersSpec => Spec
<1>1. UsersInit => Init
  BY DEF UsersInit
<1> QED
  BY <1>1, CastStep, PTL DEF UsersSpec, Spec
=============================================================================
