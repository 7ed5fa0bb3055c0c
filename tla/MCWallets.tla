----------------------------- MODULE MCWallets -----------------------------
(***************************************************************************)
(* Small instances of Wallets for TLC.                                     *)
(***************************************************************************)
EXTENDS Wallets

CONSTANTS r1, r2, r3   \* requests for a DID

\* Requests are interchangeable.
Symmetry == Permutations({r1, r2, r3})

\* A DID of a ledger and two without a network.
Nets == "indy" :> "net" @@ "key" :> "none" @@ "other" :> "none"

\* The platform's organisation has an agent of its own, the other one a shared
\* wallet.
Made(type, a) == [type |-> type, agent |-> a]
TwoOrgs == "p" :> Made("dedicated", "A") @@ "o1" :> Made("shared", "A")

\* An operation of each kind, and one that a member may not ask for; and an
\* invitation and a proof out of band, with the DID of an earlier invitation.
OneOfEach == {"question", "receive", "invite", "oob", "schema", "credDef", "health", "sign"}
Asks(o, role) == [op |-> o, org |-> "o1", role |-> role, reuse |-> TRUE]
Single == {"c1" :> Asks(o, "owner") @@ "c2" :> Asks("receive", "member") : o \in OneOfEach}
Double == {"c1" :> Asks("invite", "member") @@ "c2" :> Asks("oob", "verifier")}
AllPlans == Single \union Double

\* Cloud wallets: one base wallet and two requests of one user for a wallet; a
\* base wallet with a wrong key, and calls of who has no wallet; and two base
\* wallets at two agents.
Key(a) == [of |-> a]
Req(o, u) == [op |-> o, user |-> u, agent |-> "a1", key |-> Key("a1")]
OneBase == "c1" :> Req("configure", "admin") @@ "c2" :> Req("create", "ann")
        @@ "c3" :> Req("create", "ann") @@ "c4" :> Req("createDid", "ann")
        @@ "c5" :> Req("create", "bob") @@ "c6" :> Req("sendMessage", "bob")
Odd == "c1" :> Req("configure", "admin") @@ "c2" :> [Req("configure", "bob") EXCEPT !.key = Key("nobody")]
    @@ "c3" :> Req("create", "ann") @@ "c4" :> Req("dids", "admin")
    @@ "c5" :> Req("acceptOffer", "bob") @@ "c6" :> Req("proofs", "ann")
TwoBases == [Odd EXCEPT !["c2"] = [Req("configure", "bob") EXCEPT !.agent = "a2", !.key = Key("a2")]]
Clients == {OneBase, Odd, TwoBases}

\* Provisions of two names.
Twice == "p1" :> "n1" @@ "p2" :> "n1" @@ "p3" :> "n2"
=============================================================================
