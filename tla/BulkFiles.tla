------------------------------ MODULE BulkFiles ------------------------------
(***************************************************************************)
(* The CSV files of a bulk issue before the issue itself. A client asks    *)
(* for a template, which is written to a directory all clients share and   *)
(* fetched by its name; uploads a filled file, which is checked, parsed    *)
(* and parked in a cache for a while; looks at it page by page or          *)
(* searches it; and has its rows checked once more when they are issued.   *)
(***************************************************************************)
EXTENDS Integers, Sequences, FiniteSets, SequencesExt, FiniteSetsExt, TLC

CONSTANTS
  Clients,
  Orgs,
  LedgerOf,    \* the ledger of an organisation's wallet
  Templates,
  Form,        \* template -> [type, ledger, tag, attrs]; attrs: name -> [kind, required]
  Files,       \* what is uploaded: [header, rows, email]
  Jobs,        \* what a client may do: "download", "upload", "search", "issue"
  Sizes,       \* page sizes asked for
  MaxSecond,   \* bound: seconds that go by
  MaxFaults    \* bound: failures of the object storage and of the file system

Email == "email_identifier"

(* What the constants have to be; the suites assume it of their instances. *)
ConstantsAssumption ==
  /\ \A t \in Templates : Form[t].type \in {"indy", "w3c"} /\ DOMAIN Form[t].attrs # {}
  /\ \A f \in Files : \A r \in ToSet(f.rows) : DOMAIN r = ToSet(f.header) \ {Email}
  /\ Sizes \subseteq Nat \ {0} /\ MaxSecond \in Nat /\ MaxFaults \in Nat

VARIABLES
  second,      \* Date.now() in seconds
  exports,     \* the directory of templates: name -> columns
  store,       \* uploaded files, by client: the key is a fresh uuid
  cache,       \* parked files, by client: the request id is a fresh uuid
  pc,
  ask,         \* [org, template, validate, size, file] of a client's request
  name,        \* of the template a client is told to fetch
  fetched,     \* the columns it has fetched
  page,
  seen,        \* how often each row of its file a client has been shown
  refused,     \* the rows refused when they were issued
  faults

request == <<ask, name, fetched, page, seen, refused>>
vars == <<second, exports, store, cache, pc, request, faults>>

Init ==
  /\ second = 0 /\ exports = <<>> /\ store = <<>> /\ cache = <<>>
  /\ pc = [c \in Clients |-> "idle"]
  /\ ask \in [Clients -> [org : Orgs, template : Templates, validate : BOOLEAN, size : Sizes, file : Files]]
  /\ name = [c \in Clients |-> <<>>] /\ fetched = [c \in Clients |-> {}]
  /\ page = [c \in Clients |-> 1] /\ seen = [c \in Clients |-> <<>>]
  /\ refused = [c \in Clients |-> {}]
  /\ faults = 0

form(c)  == Form[ask[c].template]
Attrs(c) == DOMAIN form(c).attrs
Go(c, from, to) == pc[c] = from /\ pc' = [pc EXCEPT ![c] = to]

Tick ==
  /\ second < MaxSecond
  /\ second' = second + 1
  /\ UNCHANGED <<exports, store, cache, pc, request, faults>>

-----------------------------------------------------------------------------
(* The template.                                                           *)
SameLedger(c) == LedgerOf[ask[c].org] = form(c).ledger

FileName(c) == <<form(c).tag, second>>

ReadTemplate(c) ==
  /\ "download" \in Jobs
  /\ IF SameLedger(c)
     THEN /\ Go(c, "idle", "write")
          /\ name' = [name EXCEPT ![c] = FileName(c)]
     ELSE Go(c, "idle", "failed") /\ UNCHANGED name
  /\ UNCHANGED <<second, exports, store, cache, ask, fetched, page, seen, refused, faults>>

WriteTemplate(c) ==
  /\ Go(c, "write", "fetch")
  /\ exports' = (name[c] :> {Email} \union Attrs(c)) @@ exports
  /\ UNCHANGED <<second, store, cache, request, faults>>

FetchTemplate(c) ==
  /\ Go(c, "fetch", "done")
  /\ fetched' = [fetched EXCEPT ![c] = exports[name[c]]]
  /\ UNCHANGED <<second, exports, store, cache, ask, name, page, seen, refused, faults>>

-----------------------------------------------------------------------------
(* The upload: storage, the ledger, the file, the checks, the cache.       *)
UploadCsvFile(c) ==
  /\ Jobs \intersect {"upload", "search", "issue"} # {}
  /\ Go(c, "idle", "check")
  /\ store' = (c :> ask[c].file) @@ store
  /\ UNCHANGED <<second, exports, cache, request, faults>>

StorageFails(c) ==
  /\ faults < MaxFaults
  /\ pc[c] \in {"idle", "check"}
  /\ Go(c, pc[c], "failed")
  /\ faults' = faults + 1
  /\ UNCHANGED <<second, exports, store, cache, request>>

(* A cell is "", "text", "7" or "0"; a value knows its type and whether it *)
(* is empty, as 0 is.                                                      *)
Text(cell)   == [type |-> "string", empty |-> cell = ""]
Number(cell) == [type |-> "number", empty |-> cell \in {"", "0"}]
IsNaN(cell)  == cell = "text"

Columns(file) == Tail(file.header)

validateFileHeaders(file, attrs) ==
  /\ file.header[1] = Email
  /\ Len(Columns(file)) = Cardinality(attrs)
  /\ ToSet(Columns(file)) \subseteq attrs

(* The cells of a row have lost those that are empty, and with them their  *)
(* places, before they are looked at against the header.                   *)
unflattened(file, row) == SelectSeq(Columns(file), LAMBDA n : row[n] # "")

validateFileData(file, attrs) ==
  \A row \in ToSet(file.rows) :
    LET cells == unflattened(file, row)
    IN \A i \in 1..Len(cells) : attrs[Columns(file)[i]].required => row[cells[i]] # ""

Converts(file, attrs) ==
  \A row \in ToSet(file.rows) : \A n \in DOMAIN attrs :
    n \in DOMAIN row /\ (attrs[n].kind = "number" => ~IsNaN(row[n]))

Converted(row, attrs) == [n \in DOMAIN row |-> IF attrs[n].kind = "number" THEN Number(row[n]) ELSE Text(row[n])]

Validated(row, attrs) == Converted(row, attrs)

Nested(row) == [n \in {m \in DOMAIN row : row[m] # ""} |-> Text(row[n])]

Accepted(c) ==
  LET file == store[c]
      attrs == form(c).attrs
  IN /\ SameLedger(c)
     /\ file.rows # <<>> /\ file.email /\ Email \in ToSet(file.header)
     /\ ask[c].validate =>
          /\ form(c).type = "w3c" => Converts(file, attrs)
          /\ validateFileHeaders(file, Attrs(c))
          /\ validateFileData(file, attrs)

Parsed(c) ==
  LET Value(row) == CASE form(c).type = "indy" -> [n \in DOMAIN row |-> Text(row[n])]
                      [] ask[c].validate       -> Validated(row, form(c).attrs)
                      [] OTHER                 -> Nested(row)
  IN [i \in 1..Len(store[c].rows) |-> Value(store[c].rows[i])]

ParkFile(c) ==
  /\ pc[c] = "check"
  /\ IF Accepted(c)
     THEN Go(c, "check", "parked") /\ cache' = (c :> Parsed(c)) @@ cache
     ELSE Go(c, "check", "failed") /\ UNCHANGED cache
  /\ UNCHANGED <<second, exports, store, request, faults>>

CacheExpires(c) ==
  /\ c \in DOMAIN cache
  /\ cache' = [d \in DOMAIN cache \ {c} |-> cache[d]]
  /\ UNCHANGED <<second, exports, store, pc, request, faults>>

-----------------------------------------------------------------------------
(* The preview, page after page.                                           *)
paginator(items, at, size) ==
  SubSeq([i \in 1..Len(items) |-> i], (at - 1) * size + 1, Min({Len(items), at * size}))

TotalPages(items, size) == (Len(items) + size - 1) \div size

PreviewPage(c) ==
  /\ "upload" \in Jobs /\ pc[c] = "parked"
  /\ IF c \in DOMAIN cache
     THEN LET shown == ToSet(paginator(cache[c], page[c], ask[c].size))
          IN /\ seen' = [seen EXCEPT ![c] = [i \in 1..Len(cache[c]) |->
                           (IF i \in DOMAIN @ THEN @[i] ELSE 0) + (IF i \in shown THEN 1 ELSE 0)]]
             /\ page' = [page EXCEPT ![c] = @ + 1]
             /\ pc' = [pc EXCEPT ![c] = IF page[c] < TotalPages(cache[c], ask[c].size) THEN "parked" ELSE "walked"]
     ELSE pc' = [pc EXCEPT ![c] = "expired"] /\ UNCHANGED <<seen, page>>
  /\ UNCHANGED <<second, exports, store, cache, ask, name, fetched, refused, faults>>

(* A search looks at the e-mail address and, where that does not match, at *)
(* an attribute called name.                                               *)
HasName(row) == "name" \in DOMAIN row /\ row["name"].type = "string"

SearchFile(c) ==
  /\ "search" \in Jobs /\ pc[c] = "parked"
  /\ pc' = [pc EXCEPT ![c] =
       IF c \notin DOMAIN cache THEN "expired"
       ELSE IF \A i \in 1..Len(cache[c]) : HasName(cache[c][i]) THEN "found" ELSE "crashed"]
  /\ UNCHANGED <<second, exports, store, cache, request, faults>>

-----------------------------------------------------------------------------
(* The check of a W3C row when it is issued.                               *)
TypeFits(value, kind) == IF kind = "datetime-local" THEN value.type = "string" ELSE value.type = kind

validateW3CSchemaAttributes(row, attrs) ==
  /\ DOMAIN row \subseteq DOMAIN attrs
  /\ \A n \in DOMAIN attrs :
       /\ attrs[n].required => n \in DOMAIN row /\ ~row[n].empty
       /\ n \in DOMAIN row => TypeFits(row[n], attrs[n].kind)

IssueRows(c) ==
  /\ "issue" \in Jobs /\ c \in DOMAIN cache
  /\ Go(c, "parked", "issued")
  /\ refused' = [refused EXCEPT ![c] =
       IF form(c).type = "w3c" /\ ask[c].validate
       THEN {i \in 1..Len(cache[c]) : ~validateW3CSchemaAttributes(cache[c][i], form(c).attrs)} ELSE {}]
  /\ UNCHANGED <<second, exports, store, cache, ask, name, fetched, page, seen, faults>>

Next ==
  \/ Tick
  \/ \E c \in Clients :
       \/ ReadTemplate(c) \/ WriteTemplate(c) \/ FetchTemplate(c)
       \/ UploadCsvFile(c) \/ StorageFails(c) \/ ParkFile(c) \/ CacheExpires(c)
       \/ PreviewPage(c) \/ SearchFile(c) \/ IssueRows(c)

Spec == Init /\ [][Next]_vars

-----------------------------------------------------------------------------
TypeOK ==
  /\ second \in 0..MaxSecond /\ faults \in 0..MaxFaults
  /\ DOMAIN exports \subseteq {Form[t].tag : t \in Templates} \X (0..MaxSecond)
  /\ DOMAIN store \subseteq Clients /\ DOMAIN cache \subseteq DOMAIN store
  /\ \A c \in Clients : pc[c] \in {"idle", "write", "fetch", "done", "check", "parked", "failed",
                                   "walked", "expired", "found", "crashed", "issued"}

(* A client fetches the template it has asked for, whoever asks for one at *)
(* the same time: the name it is told is of one template only.             *)
TemplateIsMine == \A c \in Clients : pc[c] = "done" => fetched[c] = {Email} \union Attrs(c)

(* A parked file that was validated has a cell for every attribute of the  *)
(* template and none beside, in every row.                                 *)
HeadersFit ==
  \A c \in DOMAIN cache : ask[c].validate => \A i \in 1..Len(cache[c]) : DOMAIN cache[c][i] = Attrs(c)

(* A client that walks through a preview to the end has been shown each    *)
(* row of its file exactly once, although the entry may expire meanwhile.  *)
PreviewIsWhole ==
  \A c \in Clients : pc[c] = "walked" => seen[c] = [i \in 1..Len(store[c].rows) |-> 1]

Filled(c, i) ==
  \A n \in Attrs(c) : form(c).attrs[n].required =>
    /\ store[c].rows[i][n] # ""
    /\ form(c).attrs[n].kind = "number" => store[c].rows[i][n] # "0"

(* What the validation of an upload lets pass is not refused when it is    *)
(* issued, unless a required cell is empty or nought: the two checks, one  *)
(* on the file and one on the values made of it, agree.                    *)
AcceptedIsIssued ==
  \A c \in Clients : pc[c] = "issued" => \A i \in refused[c] : ~Filled(c, i)

=============================================================================
