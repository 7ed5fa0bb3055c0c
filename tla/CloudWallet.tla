----------------------------- MODULE CloudWallet -----------------------------
(***************************************************************************)
(* Cloud wallets. A base wallet names the agent that holds the wallets of  *)
(* the users; a user's wallet is a tenant of that agent and a row that     *)
(* says where it is. Every operation on the wallet looks the base wallet   *)
(* and the row up and is then forwarded to the agent.                      *)
(***************************************************************************)
EXTENDS Integers, FiniteSets, TLC

CONSTANTS
  Users, Agents,
  Calls,       \* the requests that are made
  Plans,       \* what they may ask for: Calls -> [op, user, agent, key];
               \* agent and key matter for "configure"
  Holders,     \* users with the role of a holder
  MaxFaults    \* bound: calls and statements that fail

VARIABLES
  asked,       \* what each call asks for
  rows,        \* cloud_wallet_user_info
  tenants,     \* tenants of the agents
  done,        \* what the agents did for the calls
  at,          \* where each call is
  base,        \* the base wallet it has read
  wallet,      \* the row of its user it has read
  made,        \* the tenant it has made
  sent,        \* <<call, agent, tenant, key>> of every call forwarded
  faults

vars == <<asked, rows, tenants, done, at, base, wallet, made, sent, faults>>

-----------------------------------------------------------------------------
(* What each operation does before it calls the agent: whether it asks     *)
(* for a row with the user's address first, and for the agent's health.    *)
Forward(looks, health) == [looks |-> looks, health |-> health]

CreateConnection     == Forward(FALSE, FALSE)
AcceptProofRequest   == Forward(FALSE, FALSE)
GetProofById         == Forward(FALSE, FALSE)
GetProofPresentation == Forward(FALSE, FALSE)
ReceiveInvitation    == Forward(TRUE, TRUE)
AcceptOffer          == Forward(TRUE, TRUE)
CreateDid            == Forward(TRUE, TRUE)
GetDidList           == Forward(FALSE, FALSE)
GetConnectionById    == Forward(FALSE, FALSE)
GetAllConnections    == Forward(FALSE, FALSE)
GetCredentialList    == Forward(FALSE, FALSE)
GetCredentialByRecord == Forward(FALSE, FALSE)
GetBasicMessages     == Forward(FALSE, FALSE)
SendBasicMessage     == Forward(FALSE, FALSE)

Forwarded ==
  [createConnection |-> CreateConnection, acceptProof |-> AcceptProofRequest,
   proof |-> GetProofById, proofs |-> GetProofPresentation,
   receiveInvitation |-> ReceiveInvitation, acceptOffer |-> AcceptOffer,
   createDid |-> CreateDid, dids |-> GetDidList,
   connection |-> GetConnectionById, connections |-> GetAllConnections,
   credentials |-> GetCredentialList, credential |-> GetCredentialByRecord,
   messages |-> GetBasicMessages, sendMessage |-> SendBasicMessage]

(* The routes that are for holders only.                                   *)
ProofRoutes      == {"acceptProof", "proof", "proofs"}
OfferRoutes      == {"receiveInvitation", "acceptOffer"}
DidRoutes        == {"createDid", "dids"}
ConnectionRoutes == {"createConnection", "connection", "connections"}
CredentialRoutes == {"credentials", "credential"}
MessageRoutes    == {"messages", "sendMessage"}
HolderRoutes     == {"create"} \union ProofRoutes \union OfferRoutes \union DidRoutes
                      \union ConnectionRoutes \union CredentialRoutes \union MessageRoutes

(* What the constants have to be; the suites assume it of their instances. *)
ConstantsAssumption ==
  /\ MaxFaults \in Nat /\ Holders \subseteq Users
  /\ \A f \in Plans : \A c \in Calls :
       f[c].op \in {"configure"} \union HolderRoutes /\ f[c].user \in Users /\ f[c].agent \in Agents

op(c)   == asked[c].op
user(c) == asked[c].user

NoRow    == [type |-> "none"]
NoTenant == [call |-> "none"]

\* An agent accepts its own key only.
KeyOf(a) == [of |-> a]

RowsOf(u) == {r \in rows : r.user = u}
Bases     == {r \in rows : r.type = "base"}

-----------------------------------------------------------------------------
Init ==
  /\ asked \in Plans
  /\ rows = {} /\ tenants = {} /\ done = {}
  /\ at = [c \in Calls |-> "idle"]
  /\ base = [c \in Calls |-> NoRow] /\ wallet = [c \in Calls |-> NoRow]
  /\ made = [c \in Calls |-> NoTenant]
  /\ sent = {} /\ faults = 0

GoTo(c, where) == at' = [at EXCEPT ![c] = where]

\* The guard of the gateway.
Ask(c) ==
  /\ at[c] = "idle"
  /\ GoTo(c, IF op(c) \in HolderRoutes /\ user(c) \notin Holders THEN "refused"
             ELSE IF op(c) = "configure" THEN "reach"
             ELSE IF op(c) = "create" \/ Forwarded[op(c)].looks THEN "look"
             ELSE "base")
  /\ UNCHANGED <<asked, rows, tenants, done, base, wallet, made, sent, faults>>

\* The agent is asked whether it has been initialised, without a key.
ReachAgent(c) ==
  /\ at[c] = "reach"
  /\ GoTo(c, IF op(c) = "configure" THEN "look" ELSE "wallet")
  /\ UNCHANGED <<asked, rows, tenants, done, base, wallet, made, sent, faults>>

\* A row with the user's address is a reason to refuse, or to go on.
LookForRow(c) ==
  /\ at[c] = "look"
  /\ LET found == RowsOf(user(c)) # {}
     IN GoTo(c, CASE op(c) = "configure" /\ ~found -> "store base"
                  [] op(c) = "create" /\ ~found -> "base"
                  [] op(c) \notin {"configure", "create"} /\ found -> "base"
                  [] OTHER -> "refused")
  /\ UNCHANGED <<asked, rows, tenants, done, base, wallet, made, sent, faults>>

\* The address is unique in the table.
MayStore(c, r) == RowsOf(r.user) = {}

Store(c, r) ==
  IF MayStore(c, r)
  THEN rows' = rows \union {r} /\ GoTo(c, "answered")
  ELSE UNCHANGED rows /\ GoTo(c, "failed")

\* The key is taken as it comes.
StoreBase(c) ==
  /\ at[c] = "store base"
  /\ Store(c, [type |-> "base", user |-> user(c), agent |-> asked[c].agent,
               key |-> asked[c].key, tenant |-> NoTenant])
  /\ UNCHANGED <<asked, tenants, done, base, wallet, made, sent, faults>>

NoBase(c) == GoTo(c, "failed")

\* Any of the base wallets, in no order.
ReadBase(c) ==
  /\ at[c] = "base"
  /\ IF Bases = {}
     THEN NoBase(c) /\ UNCHANGED base
     ELSE /\ \E b \in Bases : base' = [base EXCEPT ![c] = b]
          /\ GoTo(c, IF op(c) = "create" THEN "health" ELSE "reach")
  /\ UNCHANGED <<asked, rows, tenants, done, wallet, made, sent, faults>>

\* The row of the user; it must have a tenant.
WalletsOf(c) == {r \in RowsOf(user(c)) : r.tenant # NoTenant}

ReadWallet(c) ==
  /\ at[c] = "wallet"
  /\ IF WalletsOf(c) = {}
     THEN GoTo(c, "failed") /\ UNCHANGED wallet
     ELSE /\ \E r \in WalletsOf(c) : wallet' = [wallet EXCEPT ![c] = r]
          /\ GoTo(c, IF Forwarded[op(c)].health THEN "health" ELSE "send")
  /\ UNCHANGED <<asked, rows, tenants, done, base, made, sent, faults>>

CheckHealth(c) ==
  /\ at[c] = "health"
  /\ GoTo(c, IF op(c) = "create" THEN "tenant" ELSE "send")
  /\ UNCHANGED <<asked, rows, tenants, done, base, wallet, made, sent, faults>>

\* The agent makes a tenant, whether or not its answer arrives.
MakeTenant(c) ==
  /\ at[c] = "tenant"
  /\ LET b == base[c]
         t == [agent |-> b.agent, for |-> user(c), call |-> c]
     IN IF b.key # KeyOf(b.agent)
        THEN GoTo(c, "failed") /\ UNCHANGED <<tenants, made, faults>>
        ELSE /\ tenants' = tenants \union {t}
             /\ \/ GoTo(c, "store wallet") /\ made' = [made EXCEPT ![c] = t] /\ UNCHANGED faults
                \/ faults < MaxFaults /\ faults' = faults + 1 /\ GoTo(c, "failed") /\ UNCHANGED made
  /\ UNCHANGED <<asked, rows, done, base, wallet, sent>>

StoreWallet(c) ==
  /\ at[c] = "store wallet"
  /\ Store(c, [type |-> "sub", user |-> user(c), agent |-> base[c].agent,
               key |-> base[c].key, tenant |-> made[c]])
  /\ UNCHANGED <<asked, tenants, done, base, wallet, made, sent, faults>>

\* The call goes to the agent of the base wallet with the tenant and the key
\* of the row; the agent may do it and its answer still be lost.
Send(c) ==
  /\ at[c] = "send"
  /\ LET a == base[c].agent
         w == wallet[c]
     IN /\ sent' = sent \union {<<c, a, w.tenant, w.key>>}
        /\ IF w.tenant \in tenants /\ w.tenant.agent = a /\ w.key = KeyOf(a)
           THEN /\ done' = done \union {<<c, w.tenant>>}
                /\ \/ GoTo(c, "answered") /\ UNCHANGED faults
                   \/ faults < MaxFaults /\ faults' = faults + 1 /\ GoTo(c, "failed")
           ELSE GoTo(c, "failed") /\ UNCHANGED <<done, faults>>
  /\ UNCHANGED <<asked, rows, tenants, base, wallet, made>>

Underway(c) == at[c] \notin {"idle", "answered", "failed", "refused"}

\* A call to the agent that does not reach it, or a statement that fails.
Fail(c) ==
  /\ faults < MaxFaults /\ faults' = faults + 1
  /\ Underway(c)
  /\ GoTo(c, "failed")
  /\ UNCHANGED <<asked, rows, tenants, done, base, wallet, made, sent>>

Serve(c) ==
  \/ ReachAgent(c) \/ LookForRow(c) \/ ReadBase(c) \/ ReadWallet(c) \/ CheckHealth(c)
  \/ StoreBase(c) \/ MakeTenant(c) \/ StoreWallet(c) \/ Send(c)

Next == \E c \in Calls : Ask(c) \/ Serve(c) \/ Fail(c)

\* The service goes on with a request it has begun.
Fairness == \A c \in Calls : WF_vars(Serve(c))

Spec == Init /\ [][Next]_vars /\ Fairness

-----------------------------------------------------------------------------
Stages == {"idle", "reach", "look", "store base", "base", "wallet", "health", "tenant",
           "store wallet", "send", "answered", "failed", "refused"}
Tenants == [agent : Agents, for : Users, call : Calls]

\* Every variable has its type, and addresses are unique.
TypeOK ==
  /\ asked \in Plans
  /\ at \in [Calls -> Stages]
  /\ tenants \subseteq Tenants
  /\ made \in [Calls -> Tenants \union {NoTenant}]
  /\ \A r \in rows : /\ r.type \in {"base", "sub"} /\ r.user \in Users /\ r.agent \in Agents
                     /\ r.tenant \in tenants \union {NoTenant}
  /\ \A r, s \in rows : r.user = s.user => r = s
  /\ \A c \in Calls : base[c] \in rows \union {NoRow} /\ wallet[c] \in rows \union {NoRow}
  /\ faults \in 0..MaxFaults

\* Who is told that the wallet was created has it: the only row with the user's
\* address names the tenant made for this very request, at the agent that holds
\* it, whatever other requests of the user were under way.
CreatedIsTheirs ==
  \A c \in Calls : op(c) = "create" /\ at[c] = "answered" =>
    /\ made[c] \in tenants /\ made[c].for = user(c)
    /\ \E r \in rows : RowsOf(user(c)) = {r} /\ r.tenant = made[c] /\ r.agent = made[c].agent

\* An agent acts for a user on a tenant made for that user only.
OwnWalletOnly == \A d \in done : d[2].for = user(d[1])

\* A forwarded call goes to the agent that holds the wallet, with a key it accepts,
\* as long as all base wallets are at one agent: any of them is taken.
CallsGoHome ==
  (\A b, d \in Bases : b.agent = d.agent) =>
    \A s \in sent : s[3] # NoTenant /\ s[3].agent = s[2] /\ s[4] = KeyOf(s[2])
=============================================================================
