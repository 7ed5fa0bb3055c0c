---------------------------- MODULE MCIssuance ----------------------------
(***************************************************************************)
(* Schemas, credentials and proofs: the objects on the ledger that they    *)
(* need (LedgerObjects), templates and files for bulk issuance             *)
(* (SchemaTemplates, BulkFiles), offers and proof requests (Offers), the   *)
(* records the agent's events make of them (ExchangeRecords, which this    *)
(* module extends) and what a proof is shown to be (ProofDetails). The     *)
(* components are small instances that share no state here: a behaviour is *)
(* one of one of them, chosen at the start.                                *)
(***************************************************************************)
EXTENDS ExchangeRecords, Sequences, SequencesExt, TLC

CONSTANT Parts   \* the instances that are run

\* The variables of the other components; `place` and `failures` are their pc
\* and faults, which ExchangeRecords has too.
VARIABLES part, place, failures, at, made, reported, broken, envelope, posted,
          link, answer, asked, requested, presented, identifiers,
          verified, details, ledger, rows, agent, archived, overlapped,
          blind, inTime, attributes, published, columns, filled, value,
          phase, second, exports, store, cache, ask, name, fetched,
          page, seen, refused, leaving, issuer
others == <<place, failures, at, made, reported, broken, envelope, posted,
             link, answer, asked, requested, presented, identifiers,
             verified, details, ledger, rows, agent, archived, overlapped,
             blind, inTime, attributes, published, columns, filled, value,
             phase, second, exports, store, cache, ask, name, fetched,
             page, seen, refused, leaving, issuer>>

\* The exchange of a credential and that of a proof.
Pair == "cred" :> "credential" @@ "proof" :> "presentation"

\* Requests of each kind, of up to three items.
Mailed     == "a" :> "oobMail" @@ "b" :> "oobMail" @@ "c" :> "proofMail"
MailedMany == "a" :> 2 @@ "b" :> 1 @@ "c" :> 3
Wired      == "a" :> "offer" @@ "b" :> "proof" @@ "c" :> "proofLink" @@ "d" :> "oobLink"
WiredMany  == "a" :> 2 @@ "b" :> 3 @@ "c" :> 1 @@ "d" :> 1

\* A holder of three credentials, two of them of one schema.
Held(cd, s, ns) == [credDef |-> cd, schema |-> s, names |-> ns, certificate |-> cd]
Holder == "k1" :> Held("cd1", "s1", {"a", "b"}) @@ "k2" :> Held("cd2", "s1", {"a", "b"})
       @@ "k3" :> Held("cd3", "s2", {"b"})

\* Proof requests of up to two items, with single names and groups of names, on
\* a definition, a schema or both, and requests of the exchange format.
None == "none"
Wish(k, ns, cd, s) == [kind |-> k, names |-> ns, credDef |-> cd, schema |-> s]
Wishes == {Wish(k, {n}, s[1], s[2]) : k \in {"name", "bound"}, n \in {"a", "b"},
             s \in {<<"cd1", None>>, <<"cd2", "s1">>, <<None, "s1">>, <<None, None>>}}
UpTo(n, S) == UNION {[1..m -> S] : m \in 1..n}
Indy(wishes) == [format |-> "indy", items |-> wishes]
Described(s, ns) == [schema |-> s, names |-> ns]
Exchanged == {[format |-> "exchange", items |-> i] :
  i \in UpTo(2, {Described("s1", {"a", "b"}), Described("s1", {"b"}), Described("s2", {"b"})})}
ByName  == {Indy(<<>>)} \union {Indy(i) : i \in UpTo(2, Wishes)} \union Exchanged
           \union {Indy(i) : i \in [1..3 -> {w \in Wishes : w.names = {"a"} /\ w.schema = None}]}
AsGiven == {Indy(i) : i \in UpTo(2, Wishes)}
Grouped == {Indy(i) : i \in UpTo(2, {Wish("names", {"a", "b"}, "cd1", None)})}

\* Schemas "card" and "id card", the one a part of the other, one of them sent
\* with a blank: three schemas of one name, and a schema and definitions on it.
\* Organisation o1 has two DIDs, d1 first; a schema names the second one, a
\* definition one that the wallet does not hold, and the other requests none.
SchemaNames == {"card", " card", "id card"}
Trimmed == [n \in SchemaNames |-> IF n = " card" THEN "card" ELSE n]
Holding == [n \in SchemaNames |-> IF n = "card" THEN {"card", "id card"} ELSE {"id card"}]
Good == <<[name |-> "a", shown |-> "A", required |-> TRUE],
          [name |-> "b", shown |-> "B", required |-> FALSE]>>
ObjectCalls == {"q1", "q2", "q3"}
SchemaKinds == "q1" :> "indy" @@ "q2" :> "indy" @@ "q3" :> "w3c"
SchemaOrgs  == [q \in ObjectCalls |-> "o1"]
SchemaCalls == "q1" :> "card" @@ "q2" :> " card" @@ "q3" :> "card"
SchemaDids == "q1" :> {None} @@ "q2" :> {"d2"} @@ "q3" :> {None}
SchemaHeld == "o1" :> {"d1", "d2"}
SchemaFirst == "o1" :> "d1"
TagKinds == "q1" :> "indy" @@ "q2" :> "credDef" @@ "q3" :> "credDef"
TagOrgs  == "q1" :> "o1" @@ "q2" :> "o1" @@ "q3" :> "o2"
TagCalls == "q1" :> "card" @@ "q2" :> "card" @@ "q3" :> " card"
TagDids  == "q1" :> {None} @@ "q2" :> {None, "d3"} @@ "q3" :> {None}
TagHeld  == "o1" :> {"d1"} @@ "o2" :> {"d3"}
TagFirst == "o1" :> "d1" @@ "o2" :> "d3"
OnCard == [q \in ObjectCalls |-> <<"schema", "d1", "card">>]
WithGood == [q \in ObjectCalls |-> Good]

\* Schemas of two attributes: simple ones, lists of simple ones and of lists,
\* numbered names, and objects, alone, in objects and in lists.
Attr(n, kind, r) == [attributeName |-> n, schemaDataType |-> kind, isRequired |-> r, limits |-> {}]
ListOf(n, r, its) == Attr(n, "array", r) @@ ("items" :> its)
ObjectOf(n, r, props) == Attr(n, "object", r) @@ ("properties" :> props)
Lines == "line1" :> [prefix |-> "line", index |-> 1] @@ "line2" :> [prefix |-> "line", index |-> 2]
Leaves(n) == {Attr(n, k, r) : k \in {"string", "datetime-local"}, r \in BOOLEAN}
PlainItems ==
  {{Attr("c", k, r)} : k \in {"string", "boolean"}, r \in BOOLEAN}
  \union {{Attr("c", "string", r), ListOf("d", q, {Attr("e", "string", TRUE), Attr("f", "string", FALSE)})} :
            r, q \in BOOLEAN}
NumberedItems ==
  {{Attr("c", "string", r), Attr("line1", "string", q), Attr("line2", "string", q)} : r, q \in BOOLEAN}
  \union {{ListOf("line1", r, {Attr("line2", "string", TRUE), Attr("e", "string", FALSE)})} : r \in BOOLEAN}
ListsOf(Items) ==
  {{t, u} : t \in Leaves("a") \union {ListOf("a", r, its) : r \in BOOLEAN, its \in Items},
            u \in Leaves("b")}
Inner == {"s" :> Attr("s", "string", r) : r \in BOOLEAN}
         \union {"t" :> ListOf("t", r, {Attr("e", "string", TRUE)}) : r \in BOOLEAN}
OneObject == {{ObjectOf("o", r, p), u} : r \in BOOLEAN, p \in Inner, u \in Leaves("b")}
InLists == {{ListOf("a", r, {ObjectOf("o", q, p)}), u} : r, q \in BOOLEAN, p \in Inner, u \in Leaves("b")}

\* Two organisations on two ledgers, templates with attributes a and b, and
\* files of up to three rows with every header of these names.
OnLedger == "o1" :> "indicio" @@ "o2" :> "bcovrin"
Needed(k, r) == [kind |-> k, required |-> r]
Template(ty, l, tag, attrs) == [type |-> ty, ledger |-> l, tag |-> tag, attrs |-> attrs]
OneAttribute == "a" :> Needed("string", TRUE)
TwoTags == "t1" :> Template("w3c", "indicio", "one", OneAttribute)
        @@ "t2" :> Template("indy", "indicio", "two", OneAttribute @@ "b" :> Needed("string", FALSE))
        @@ "t3" :> Template("indy", "bcovrin", "two", OneAttribute @@ "b" :> Needed("string", FALSE))
SomeKinds == "t1" :> Template("w3c", "indicio", "one", OneAttribute @@ "b" :> Needed("number", FALSE))
          @@ "t2" :> Template("w3c", "indicio", "two", "a" :> Needed("number", TRUE) @@ "b" :> Needed("datetime-local", TRUE))
          @@ "t3" :> Template("indy", "indicio", "three", OneAttribute @@ "b" :> Needed("number", TRUE))
AddressOnly == "email_identifier"
FileOf(h, rs) == [header |-> h, rows |-> rs, email |-> TRUE]
Headed == {<<AddressOnly>>, <<"a", "b">>, <<AddressOnly, "a">>, <<AddressOnly, "a", "b">>,
           <<AddressOnly, "b", "a">>, <<AddressOnly, "a", "c">>, <<"a", AddressOnly>>}
CellsOf(h) == [ToSet(h) \ {AddressOnly} -> {"", "text", "7", "0"}]
TheFile  == {FileOf(<<AddressOnly, "a">>, <<"a" :> "text">>)}
Headers  == UNION {{FileOf(h, <<r>>) : r \in CellsOf(h)} : h \in Headed}
            \union {FileOf(<<AddressOnly, "a">>, <<>>)} \union {[f EXCEPT !.email = FALSE] : f \in TheFile}
Lengths  == {FileOf(<<AddressOnly, "a">>, [i \in 1..n |-> "a" :> "text"]) : n \in 1..3}

-----------------------------------------------------------------------------
ByMail == INSTANCE Offers WITH Batches <- DOMAIN Mailed, KindOf <- Mailed,
  Asked <- MailedMany, MaxFaults <- 2,
  pc <- place, faults <- failures
ByWire == INSTANCE Offers WITH Batches <- DOMAIN Wired, KindOf <- Wired,
  Asked <- WiredMany, MaxFaults <- 2,
  pc <- place, faults <- failures
Sources == INSTANCE ProofDetails WITH Credentials <- {"k1", "k2", "k3"},
  Of <- Holder, Asked <- ByName, AsGiven <- {},
  pc <- place
GivenItems == INSTANCE ProofDetails WITH Credentials <- {"k1", "k2", "k3"},
  Of <- Holder, Asked <- AsGiven, AsGiven <- AsGiven,
  pc <- place
Groups == INSTANCE ProofDetails WITH Credentials <- {"k1", "k2", "k3"},
  Of <- Holder, Asked <- Grouped, AsGiven <- {},
  pc <- place
SchemasMade == INSTANCE LedgerObjects WITH Orgs <- {"o1"}, Dids <- {"d1", "d2"},
  HeldBy <- SchemaHeld, FirstDid <- SchemaFirst, MayName <- SchemaDids,
  Requests <- ObjectCalls, Names <- SchemaNames, Trim <- Trimmed,
  Holds <- Holding, SchemaOf <- OnCard,
  KindOf <- SchemaKinds, OrgOf <- SchemaOrgs, NameOf <- SchemaCalls,
  DraftOf <- WithGood, MaxFaults <- 1,
  pc <- place, faults <- failures
TagsMade == INSTANCE LedgerObjects WITH Orgs <- {"o1", "o2"}, Dids <- {"d1", "d3"},
  HeldBy <- TagHeld, FirstDid <- TagFirst, MayName <- TagDids,
  Requests <- ObjectCalls, Names <- SchemaNames, Trim <- Trimmed,
  Holds <- Holding, SchemaOf <- OnCard,
  KindOf <- TagKinds, OrgOf <- TagOrgs, NameOf <- TagCalls,
  DraftOf <- WithGood, MaxFaults <- 1,
  pc <- place, faults <- failures
FlatSchemas == INSTANCE SchemaTemplates WITH
  Schemas <- ListsOf(PlainItems), Numbered <- Lines
NestedSchemas == INSTANCE SchemaTemplates WITH
  Schemas <- ListsOf(PlainItems \union NumberedItems) \union OneObject \union InLists,
  Numbered <- Lines
TemplateFiles == INSTANCE BulkFiles WITH Clients <- {"c1", "c2"},
  Orgs <- {"o1", "o2"}, LedgerOf <- OnLedger,
  Templates <- {"t1", "t2", "t3"}, Form <- TwoTags, Files <- TheFile,
  Jobs <- {"download"}, Sizes <- {2}, MaxSecond <- 2, MaxFaults <- 1,
  pc <- place, faults <- failures
Checks == INSTANCE BulkFiles WITH Clients <- {"c1"}, Orgs <- {"o1", "o2"},
  LedgerOf <- OnLedger, Templates <- {"t1", "t2", "t3"}, Form <- SomeKinds,
  Files <- Headers, Jobs <- {"issue"}, Sizes <- {2}, MaxSecond <- 0,
  MaxFaults <- 1,
  pc <- place, faults <- failures
Preview == INSTANCE BulkFiles WITH Clients <- {"c1", "c2"},
  Orgs <- {"o1", "o2"}, LedgerOf <- OnLedger, Templates <- {"t1"},
  Form <- TwoTags, Files <- Lengths, Jobs <- {"upload", "search"},
  Sizes <- {1, 2}, MaxSecond <- 0, MaxFaults <- 1,
  pc <- place, faults <- failures

ASSUME InstancesAssumption ==
  /\ ByMail!ConstantsAssumption
  /\ ByWire!ConstantsAssumption
  /\ Sources!ConstantsAssumption
  /\ GivenItems!ConstantsAssumption
  /\ Groups!ConstantsAssumption
  /\ SchemasMade!ConstantsAssumption
  /\ TagsMade!ConstantsAssumption
  /\ FlatSchemas!ConstantsAssumption
  /\ NestedSchemas!ConstantsAssumption
  /\ TemplateFiles!ConstantsAssumption
  /\ Checks!ConstantsAssumption
  /\ Preview!ConstantsAssumption

-----------------------------------------------------------------------------
(* While one component runs, the variables of the others are not there;    *)
(* ExchangeRecords rests in its initial state.                             *)
Absent == "absent"

\* Variable v, named n, is absent, or stays, unless it is one of S.
Out(S, n, v)   == IF n \in S THEN TRUE ELSE v = Absent
Still(S, n, v) == IF n \in S THEN TRUE ELSE UNCHANGED v

Only(S) ==
  /\ Out(S, "place", place) /\ Out(S, "failures", failures) /\ Out(S, "at", at)
  /\ Out(S, "made", made) /\ Out(S, "reported", reported) /\ Out(S, "broken", broken)
  /\ Out(S, "envelope", envelope) /\ Out(S, "posted", posted) /\ Out(S, "link", link)
  /\ Out(S, "answer", answer) /\ Out(S, "asked", asked)
  /\ Out(S, "requested", requested) /\ Out(S, "presented", presented)
  /\ Out(S, "identifiers", identifiers) /\ Out(S, "verified", verified)
  /\ Out(S, "details", details) /\ Out(S, "ledger", ledger) /\ Out(S, "rows", rows)
  /\ Out(S, "agent", agent) /\ Out(S, "archived", archived)
  /\ Out(S, "overlapped", overlapped) /\ Out(S, "blind", blind)
  /\ Out(S, "inTime", inTime) /\ Out(S, "attributes", attributes)
  /\ Out(S, "published", published) /\ Out(S, "columns", columns)
  /\ Out(S, "filled", filled) /\ Out(S, "value", value) /\ Out(S, "phase", phase)
  /\ Out(S, "second", second) /\ Out(S, "exports", exports) /\ Out(S, "store", store)
  /\ Out(S, "cache", cache) /\ Out(S, "ask", ask) /\ Out(S, "name", name)
  /\ Out(S, "fetched", fetched) /\ Out(S, "page", page) /\ Out(S, "seen", seen)
  /\ Out(S, "refused", refused) /\ Out(S, "leaving", leaving) /\ Out(S, "issuer", issuer)

Around(S) ==
  /\ Still(S, "place", place) /\ Still(S, "failures", failures) /\ Still(S, "at", at)
  /\ Still(S, "made", made) /\ Still(S, "reported", reported)
  /\ Still(S, "broken", broken) /\ Still(S, "envelope", envelope)
  /\ Still(S, "posted", posted) /\ Still(S, "link", link) /\ Still(S, "answer", answer)
  /\ Still(S, "asked", asked) /\ Still(S, "requested", requested)
  /\ Still(S, "presented", presented) /\ Still(S, "identifiers", identifiers)
  /\ Still(S, "verified", verified) /\ Still(S, "details", details)
  /\ Still(S, "ledger", ledger) /\ Still(S, "rows", rows) /\ Still(S, "agent", agent)
  /\ Still(S, "archived", archived) /\ Still(S, "overlapped", overlapped)
  /\ Still(S, "blind", blind) /\ Still(S, "inTime", inTime)
  /\ Still(S, "attributes", attributes) /\ Still(S, "published", published)
  /\ Still(S, "columns", columns) /\ Still(S, "filled", filled)
  /\ Still(S, "value", value) /\ Still(S, "phase", phase) /\ Still(S, "second", second)
  /\ Still(S, "exports", exports) /\ Still(S, "store", store)
  /\ Still(S, "cache", cache) /\ Still(S, "ask", ask) /\ Still(S, "name", name)
  /\ Still(S, "fetched", fetched) /\ Still(S, "page", page) /\ Still(S, "seen", seen)
  /\ Still(S, "refused", refused) /\ Still(S, "leaving", leaving)
  /\ Still(S, "issuer", issuer)

OfOffers == {"place", "at", "made", "reported", "broken", "envelope", "posted", "link",
  "answer", "failures"}
OfDetails == {"asked", "requested", "presented", "identifiers", "verified", "details",
  "place"}
OfObjects == {"ledger", "rows", "agent", "leaving", "issuer", "place", "answer",
  "archived", "overlapped", "blind", "inTime", "failures"}
OfTemplates == {"attributes", "published", "columns", "filled", "value", "phase"}
OfFiles == {"second", "exports", "store", "cache", "place", "ask", "name", "fetched",
  "page", "seen", "refused", "failures"}

MCInit ==
  /\ part \in Parts
  /\ Init
  /\ \/ part = "exchanges" /\ Only({})
     \/ part = "mails" /\ Only(OfOffers) /\ ByMail!Init
     \/ part = "wires" /\ Only(OfOffers) /\ ByWire!Init
     \/ part = "sources" /\ Only(OfDetails) /\ Sources!Init
     \/ part = "given" /\ Only(OfDetails) /\ GivenItems!Init
     \/ part = "groups" /\ Only(OfDetails) /\ Groups!Init
     \/ part = "schemas" /\ Only(OfObjects) /\ SchemasMade!Init
     \/ part = "tags" /\ Only(OfObjects) /\ TagsMade!Init
     \/ part = "rows" /\ Only(OfTemplates) /\ FlatSchemas!Init
     \/ part = "trees" /\ Only(OfTemplates) /\ NestedSchemas!Init
     \/ part = "names" /\ Only(OfFiles) /\ TemplateFiles!Init
     \/ part = "checks" /\ Only(OfFiles) /\ Checks!Init
     \/ part = "preview" /\ Only(OfFiles) /\ Preview!Init

OthersNext ==
  \/ part = "mails" /\ ByMail!Next /\ Around(OfOffers)
  \/ part = "wires" /\ ByWire!Next /\ Around(OfOffers)
  \/ part = "sources" /\ Sources!Next /\ Around(OfDetails)
  \/ part = "given" /\ GivenItems!Next /\ Around(OfDetails)
  \/ part = "groups" /\ Groups!Next /\ Around(OfDetails)
  \/ part = "schemas" /\ SchemasMade!Next /\ Around(OfObjects)
  \/ part = "tags" /\ TagsMade!Next /\ Around(OfObjects)
  \/ part = "rows" /\ FlatSchemas!Next /\ Around(OfTemplates)
  \/ part = "trees" /\ NestedSchemas!Next /\ Around(OfTemplates)
  \/ part = "names" /\ TemplateFiles!Next /\ Around(OfFiles)
  \/ part = "checks" /\ Checks!Next /\ Around(OfFiles)
  \/ part = "preview" /\ Preview!Next /\ Around(OfFiles)

\* Events the gateway is busy with, and how many of them there may be: the two of
\* an exchange, or one of each.
Busy == {e \in Events : pc[e] \notin {"none", "over"}}
Overlap == 2

MCNext ==
  /\ UNCHANGED part
  /\ \/ part = "exchanges" /\ Next /\ Cardinality(Busy') <= Overlap /\ UNCHANGED others
     \/ OthersNext /\ UNCHANGED vars

MCSpec == MCInit /\ [][MCNext]_<<vars, others, part>>

-----------------------------------------------------------------------------
\* What a client learns of offers and proofs is true. The answer to a request
\* speaks of every item, and the mails that share an envelope reach whom they are
\* for. The details of a proof name the credential each value was taken from, and
\* a request is met by what it asked for.
AnswersKept ==
  /\ part = "mails" =>
       /\ ByMail!TypeOK /\ ByMail!AnswerIsTrue /\ ByMail!MailToOwner /\ ByMail!EveryItemTried
  /\ part = "wires" => ByWire!AnswerIsTrue /\ ByWire!EveryItemTried
  /\ part = "sources" => Sources!SourceIsTrue /\ Sources!AllShown /\ Sources!AskedIsMet
  /\ part = "groups" => Groups!SourceIsTrue /\ Groups!AskedIsMet
  /\ part = "given" => GivenItems!AllShown /\ GivenItems!AskedIsMet

\* Schemas and definitions and what is made of them stay together. Their records
\* have names of their own, stand for objects that are on the ledger, and go with
\* the wallet. Templates and uploaded files reach who asked for them, whole, and
\* pass the checks of both services or neither; a file filled in on the template
\* of a schema is a credential of it again.
ObjectsKept ==
  /\ part = "schemas" =>
       /\ SchemasMade!TypeOK /\ SchemasMade!RecordsApart
       /\ SchemasMade!CreatedIsThere /\ SchemasMade!ArchivedWithWallet
  /\ part = "tags" => TagsMade!RecordsApart /\ TagsMade!CreatedIsThere
  /\ part = "names" => TemplateFiles!TypeOK /\ TemplateFiles!TemplateIsMine
  /\ part = "checks" => Checks!HeadersFit /\ Checks!AcceptedIsIssued
  /\ part = "preview" => Preview!PreviewIsWhole
  /\ part = "rows" => FlatSchemas!TemplateFits
  /\ part = "trees" => NestedSchemas!CellsKept
=============================================================================
