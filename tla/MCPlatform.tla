---------------------------- MODULE MCPlatform ----------------------------
(***************************************************************************)
(* Small instances of Platform for TLC.                                    *)
(***************************************************************************)
EXTENDS Platform

\* Requests that ask for the same are interchangeable.
Symmetry == Permutations(Requests)

\* Names "a" and "b" have the same slug.
SlugTable == "a" :> "ab" @@ "b" :> "ab" @@ "c" :> "c"

\* Lists of up to three invitations of two people and of the inviter, with an
\* address twice, an address in capitals and a role there is not.
To(e, rs) == [email |-> e, roles |-> rs]
Addresses == "ann" :> "ann" @@ "Bob" :> "bob" @@ "me" :> "me"
SomeLists == {<<>>,
              <<To("ann", {"member"}), To("ann", {"member"}), To("Bob", {"member"})>>,
              <<To("me", {"member"}), To("Bob", {"member", "unknown"})>>}

\* Up to six rows, two of them made at the same moment, as those of one upload are,
\* with ids in an order of their own, and names and states that rows share.
InFields == "created" :> [r \in 1..6 |-> IF r <= 4 THEN r ELSE r - 1] @@ "id" :> [r \in 1..6 |-> (r * 3) % 7]
         @@ "name" :> [r \in 1..6 |-> IF r \in {1, 4, 6} THEN 1 ELSE 2]
InState == [r \in 1..6 |-> IF r <= 2 THEN 1 ELSE IF r = 3 THEN 2 ELSE 3]

\* All bodies.
AllBodies == SUBSET {"reason", "message"} \union {{"text"}, {"duplicates"}}

\* Two versions of the master data, the second one with another ledger; runs that
\* end anywhere.
SeedData == {"config", "roles", "agentTypes", "orgAgentTypes", "userRoles", "ledgers", "ledgerConfig"}
First == [t \in SeedData |-> IF t = "ledgers" THEN {"testnet", "demonet"} ELSE {"first"}]
Second == [First EXCEPT !["ledgers"] = @ \union {"polygon"}, !["ledgerConfig"] = {"second"}]
Versions == <<First, Second>>
Anywhere == {"config", "roles", "agentTypes", "user", "organization", "adminRole", "orgAgentTypes",
  "ledgers", "ledgersGone", "ledgerConfig", "ledgerConfigGone", "userRoles", "dids", "types", "geo", "clients"}
=============================================================================
