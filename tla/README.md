# A TLA+ model of the confirmd platform

The platform issues, holds and verifies credentials for organisations. It is a
set of NestJS services (`apps/`) that talk over NATS, share one PostgreSQL
database (`libs/prisma-service`), use Redis for a cache and for the Bull queue
`bulk-issuance`, and drive Aries agents over HTTP. Nearly every operation is a
sequence of awaited calls to several of these stores with no transaction around
them, run by processes that interleave at every `await` and may be restarted
between two of them. That is what the modules here are about.

Line numbers refer to this commit. `PROJECT.json` maps every definition to its
lines.

## Inventory

| component | state it keeps | operations that change it | talks to |
|---|---|---|---|
| issuance (`apps/issuance`) | `file_upload`, `file_data`, `credentials`; the parked CSV in Redis; the Bull queue; `processedJobsCounters` in memory | uploadCSVTemplate, issueBulkCredential, retryBulkCredential, processIssuanceData, sendCredentialCreateOffer, outOfBandCredentialOffer, saveIssuedCredentialDetails (webhook), deleteIssuanceRecords | agent-service, utility, mail, socket gateway |
| agent-service (`apps/agent-service`) | `org_agents`, `org_dids`; wallets on the agents | walletProvision, agentConfigure, createTenant, createWallet, createDid, deleteWallet; everything else forwards one call to the agent | agents, agent-provisioning, connection, ledger |
| agent-provisioning | containers of dedicated agents | walletProvision (runs a script) | Docker |
| organization (`apps/organization`) | `organisation`, `org_invitations`, `org_dids`, `user_org_roles` (with `libs/user-org-roles`); Keycloak clients and roles | createOrganization, createOrgCredentials, setPrimaryDid, createInvitation, updateOrgInvitation, updateUserRoles, deleteOrganization, ... | user, Keycloak, mail |
| connection, verification | `connections`, `agent_invitations`; `presentations` | create invitations and proof requests, webhook upserts, deletion of an organisation's records | agent-service, utility, mail |
| ledger (`apps/ledger`) | `schema`, `credential_definition` | createSchema, createCredentialDefinition (ledger first, then database), archiving | agent-service |
| user (`apps/user`) | `user`, `user_devices`, `token`; Keycloak users | sendVerificationMail, verifyEmail, createUserForToken, resetTokenPassword, acceptRejectInvitations | Keycloak, organization |
| cloud-wallet | `cloud_wallet_user_info` | configureBaseWallet, createCloudWallet | cloud agent |
| webhook, notification, utility, geo-location | one table each | single upserts, single HTTP calls | - |
| api-gateway | sockets of the front end | REST routing, webhook endpoints, relaying of socket events | all services over NATS |
| database seed (`libs/prisma-service/prisma/seed.ts`) | the master data of the tables | run with every deployment, again after a failure | - |
| client-registration, common, context, logger, ... (`libs/`) | none | Keycloak administration, NATS and HTTP clients, mail | - |

How they interact: a request enters the gateway, becomes a NATS message to one
service and may become further NATS messages to others; the agents answer
through webhook endpoints of the gateway, in no order and possibly twice; long
work is left to un-awaited promises (`_createTenant`, `_agentSpinup`,
`processInBatches`, `processIssuanceData`) that tell the front end about their
progress over a socket.

What makes it hard, and what correct means:

- *Bulk issuance.* Jobs run concurrently although the queue has concurrency 1,
  because the processor does not await them; "the last job" is found by counting
  starts in memory; a retry looks at rows and not at jobs; a crash loses what
  Redis no longer knows. Correct: nobody in the CSV is lost, `PROCESS_COMPLETED`
  is never false, nobody gets a second offer without a reason, an upload is
  closed, the worker comes to rest.
- *Wallets.* A wallet lives on an agent and its record in the database; both are
  made by an un-awaited sequence and removed by another. Correct: an
  organisation has one agent record, the record never outlives the wallet, a
  wallet without a record has an identifiable cause, one primary DID.
- *Organisations.* Invitations are accepted and rejected concurrently, names and
  limits are checked before they are used, deletion touches ten tables and
  Keycloak. Correct: one final answer per invitation, no member without role,
  nothing left that refers to a deleted organisation.
- *Webhooks.* `connections`, `credentials` and `presentations` are blindly
  upserted from unordered webhooks. Correct: a terminal state is not taken back,
  records go to the right organisation.
- *Ledger objects, users.* A remote write first, then the local row. Correct: a
  local row has its remote counterpart.

## Modules

A module stands for one component or one of its concerns; those that have
theorems have a module of proofs next to them, and the `MC` modules are instances for TLC.

| module | what it is |
|---|---|
| `BulkIssuance` | the whole life of an upload: cache, database, queue, worker, retries, crashes, deletion |
| `CredentialDelivery` | the promise of bulk issuance: register, offer, close, certify, withdraw |
| `AgentProvisioning` | the wallet of one organisation: createTenant, walletProvision, agentConfigure against deleteWallet |
| `OrgMembership` | invitations and their answers, changes of roles, registration with Keycloak; rows and role mappings |
| `OrgCreation` | createOrganization and updateOrganization: name, slug, limit, client, owner |
| `OrgTeardown` | the deletion of an organisation stage by stage against the records that arrive meanwhile |
| `OrgDids` | createDid and setPrimaryDid on `org_dids` and `org_agents` |
| `InvitationBatches` | createInvitation over a list: roles, open invitations, rows, mails, addresses |
| `UserRegistration` | verification code, sign-up, reset tokens, password changes; the row and the Keycloak account |
| `UserDevices` | passkey devices, the mark of the user, sign-ins and their counters |
| `ClientCredentials` | which reader decrypts which credential, and how often |
| `AgentCalls` | how a call finds address, key, tenant and DID of a wallet that may be replaced meanwhile |
| `CloudWallet` | base wallets, users' wallets, and the calls forwarded to them |
| `SpinupEvents` | the socket events a client is sent while its wallet is made |
| `AgentPorts` | `start_agent.sh`, its port files, and the callback that reads what it left |
| `LedgerObjects` | createSchema and createCredentialDefinition: ledger first, then database; issuers' DIDs; archiving by DID |
| `SchemaTemplates` | the published schema, the CSV columns and the nested row made of one tree of attributes |
| `BulkFiles` | template download, upload and its checks, preview and search, the check at issue |
| `Offers` | offers and proof requests to connections, by e-mail and by link; the shared envelope |
| `ExchangeRecords` | webhooks of the agent: upsert, post to the organisation with retries, deletion of records |
| `ProofDetails` | from the items asked for to the details a verifier is shown |
| `PagedLists` | every paginated list, sorted as a client may ask, and a client that walks through it while it changes |
| `ErrorAnswers` | an error on its way from the agent through two services and the filters to the caller |
| `Notifications` | registerOrgWebhookEndpoint and sendNotification |
| `DatabaseSeed` | the fourteen steps of the seed, its repetition, new versions, next to a running platform |
| `BulkIssuanceProofs` | the theorems of `BulkIssuance`; that it implements `CredentialDelivery` |
| `AgentProvisioningProofs`, `OrgMembershipProofs`, `OrgTeardownProofs`, `ExchangeRecordsProofs`, `UsersProofs`, `WalletsProofs`, `PlatformProofs` | the theorems of the module they are named after |
| `MCBulkIssuance`, `MCAgentProvisioning`, `MCOrgMembership`, `MCOrgTeardown` | instances of one proved component each |
| `Users` | `UserRegistration`, `UserDevices` and `ClientCredentials` together, for any constants |
| `Platform` | `OrgCreation`, `InvitationBatches`, `PagedLists`, `ErrorAnswers`, `Notifications` and `DatabaseSeed` together, for any constants |
| `Wallets` | `OrgDids`, `AgentCalls`, `CloudWallet`, `SpinupEvents` and `AgentPorts` together, for any constants |
| `MCUsers`, `MCWallets`, `MCPlatform` | the casts and bounds of `Users`, `Wallets` and `Platform` |
| `MCIssuance` | a suite around a proved component, `ExchangeRecords` |
| `MCProgress` | what must happen in the end, of twelve components |

How modules relate. `BulkIssuance` is composed with its promise by `INSTANCE ...
WITH`. Requests to create, delete or call a wallet meet in `AgentProvisioning`
(creation against deletion), `AgentCalls` (calls against both), `OrgTeardown`
(deletion of everything the wallet serves) and `SpinupEvents` (what the client
hears); each has only the part of the wallet's state its question needs. The
same holds for `org_invitations`: `InvitationBatches` writes the rows that
`OrgMembership` answers. Elsewhere a component is one module.

### BulkIssuance

State and code:

| variables | code |
|---|---|
| `cached` | the parked CSV in Redis (`uploadCSVTemplate`, TTL `DEFAULT_CACHE_TTL`) |
| `file`, `row` | `file_upload.status`; `file_data`: presence, `status`, `isError`, whether `credential_data` is still there |
| `queue`, `active`, `stalled` | the Bull queue: waiting jobs, the unacknowledged job, jobs that lost a worker once |
| `req`, `toStore` | where `issueBulkCredential` stands; the `saveFileDetails` promises not settled yet |
| `todo`, `payload`, `withData` | a run of `processInBatches`: what it still has to enqueue, what it was given (`totalJobs` is its length), which rows it copied with their claims |
| `counter`, `last` | `processedJobsCounters`; the jobs whose `isLastData` is set |
| `run` | where each `processIssuanceData` call stands, one value per `await` |
| `purge` | the file ids a running `deleteIssuanceRecords` has read |
| `delivered`, `disturbed`, `early` | history, read by properties only: mails that left, rows with a cause for a second mail, uploads retried while they were stored |
| `faults`, `purges` | bounds |

Actions, in the order of an upload: `StartIssue` creates the file; `StoreRow` and
`StoreRowFails` settle one `saveFileDetails` each (`Promise.all` with `p-limit`:
after one failure the others go on); `DispatchFile` reads the rows back and
leaves `processInBatches` behind; `FinallyUpdate`/`FinallyFails` are the
`finally` block. `Retry` is `retryBulkCredential`. `EnqueueBatch` adds a batch
with `addBulk`. `StartJob` is Bull handing a job over and the synchronous part
of `processIssuanceData` (count, flag); `AckJob` is the processor returning
without awaiting it. `AgentFound`, `OfferDelivered`, `OfferRefused`,
`OfferAnswerLost`, `MarkIssued`, `MarkFails`, `SaveOutcome`, `CountErrors` and
`CloseFile` are its steps from `await` to `await`. `JobRejects` is a rejection
of the call that nobody handles: the issuance service has no handler for
`unhandledRejection` (the agent service has one), so Node 18 ends the process,
and `Restart` is what that and `Crash` have in common. `PurgeRead`,
`PurgeCommit` and `PurgeAborts` are `deleteIssuanceRecords` for the files.

Abstractions. A CSV is a set of recipients, the same in every upload of the
parked entry; a batch of the store phase is the whole CSV (`BATCH_SIZE` is 100).
Delays between batches and the p-limit width only restrict interleavings and are
left out, so every order they allow is still explored. Jobs wait in a set: the
order in which Bull delivers is not relied on. A uniqueJobId is an element of
`Files` (the first dispatch) or of `Retries`, used once. An offer is the mail
leaving; the agent's invitation behind it is not told apart. What
`outOfBandCredentialOffer` may answer is true, false or an exception at any
time, and only true needs the claims to be there. The selective-issuance branch
parks the CSV again with the request id in the place of the organisation's and
always fails; only its effect on the cache is kept.

### CredentialDelivery

The promise with no mechanism: an entry is `none`, `open`, `offered`, `closed`
or `withdrawn`; it is closed only after it was offered; an upload is certified
only when every entry of it has been offered; `Withdraw` is the operator's.
`BulkIssuance` maps onto it with `ledger` (database and mails) and `certified`
(status completed, for an upload stored whole and not retried before that), and
`ImplementsDelivery` says that every step of the service is a step of the
promise or invisible to it.

### AgentProvisioning

| variables | code |
|---|---|
| `row` | the `org_agents` row an attempt makes: a placeholder has status PROCESSED and no `orgId`, a completed one has both; `removed` rows are gone |
| `did` | the `org_dids` row that belongs to it |
| `referenced` | connections, credentials or presentations of the organisation exist |
| `archived` | wallets whose DID had its schemas archived (`archive-schemas` of the ledger service) |
| `wallet` | the wallets: one per attempt, made by the shared agent or by the provisioning script, and one per agent the organisation runs itself |
| `pc`, `kind`, `home` | where an attempt stands, which of the three requests it is, and the wallet its row names |
| `dpc`, `target` | where a deletion stands, and the attempt whose row it read first |
| `excused`, `cut` | history, read by properties only: attempts with a cause for a wallet without record, and for being left half-made |
| `faults` | bound |

`createTenant` (shared) and `walletProvision` (dedicated) share their shape, so
one set of actions stands for both: `Start` is the check of the existing row,
`CreatePlaceholder`, `CreateWallet`, `WriteDid`, `StoreRecord`, then
`FinishRecord` (the DID of a tenant, a read for a dedicated agent), `Invite`. A
failure goes to `Cleanup`, which is `removeOrgAgent` by the row's id; it is not
awaited and may fail (`CleanupFails`). `agentConfigure` is `Start`,
`AgentHealthy`, `StoreRecord`, `Invite`, and has nothing to clean up. The guard
of `StoreRecord` is the unique index on `orgId`. `deleteWallet` is `ReadRecord`,
`CountReferences` and `DeleteRecord` (the inner transaction of
`deleteOrgAgentByOrg`, which reads committed data), `DeleteWallet`,
`ArchiveSchemas`. `Crash` ends every request; the agent service handles
`unhandledRejection` and therefore survives a rejected `_createTenant`, unlike
the issuance service.

Abstractions. One organisation: nothing here relates two of them. A request that
is refused changes nothing and is not a step. The invitation that `Invite` makes
is not kept: it is deleted with the record; that its insertion may abort a
deletion is kept. DIDs made later by `createDid` are in `OrgDids`. A
dedicated agent removes its placeholder twice when storing fails
(`_storeOrgAgentDetails`, then `_agentSpinup`): one `Cleanup`, which fails only if
both do. Whether exchanges exist is a boolean that webhooks set and the record
deletions of the other services clear.

### Organisations: OrgMembership, InvitationBatches, OrgCreation, OrgTeardown, OrgDids

`OrgMembership` keeps `status` and `terms` (`org_invitations`), `rows`
(`user_org_roles`), `registered` and `clients` (the `idpId` of the row and the
client at Keycloak) and `mapped` (role mappings of that client). An accepted
invitation, a change of roles and a registration are each a sequence of steps;
calls the code starts with `Promise.all` settle in any order (`left`), and rows
that are inserted by promises nobody awaits sit in `onTheWay` and arrive after
the answer. A refused insertion is an unhandled rejection and ends the process.
A registration of all organisations (`registerOrgsMapUsers`) reads who is not
registered and all their rows at once and then takes one organisation after the
other from what it has read; one without an owner is passed over (`SkipOrg`), and
it concerns those that wait for their turn as much as the one in hand.
`InvitationBatches` is the list of `createInvitation`: look-ups, row and mail per
item, what a failure leaves, and the same list sent again, or next to another one
(`crossed`: two requests that find no open invitation for one address both write
theirs). `OrgCreation` is the
race for name and slug between creations and renamings, with the rollback the
code does not have. `OrgTeardown` is `deleteOrganization` and the four deletions
that must come before it, each a count and a delete in statements of their own,
while records keep arriving; `loose` are rows whose organisation was set to null
by the foreign key. `OrgDids` is the election of the primary DID: `createDid`
demotes every row, inserts its own, and then writes the agent's DID and ledger in
two statements; `setPrimaryDid` demotes the row that was primary when it looked,
and promotes its own together with the agent in one transaction.

### Users: UserRegistration, UserDevices, ClientCredentials

`UserRegistration` follows one address through its row and its account at
Keycloak. A password, a code or a token is named by the request that brings or
makes it, so that "the password of the row is that of the account" can be said.
`UserDevices` has the four handlers of passkey devices, with the read of the
counter and its write apart. `ClientCredentials` follows a credential through the
readers that decrypt it, decrypt it if they can, or take it as it is; a request
is one step there, because the only question is how many layers a value has when
it reaches Keycloak. Which password is the right one is `UserRegistration`'s
question.

### Wallets: AgentCalls, CloudWallet, SpinupEvents, AgentPorts

`AgentCalls` has one action per read a call makes (row, endpoint, type, tenant,
invitation DID, primary DID, key, key of the platform) and lets the wallet be
deleted, begun and finished elsewhere between any two. `Ops` says for each of
twenty operations in which of the code's ways it finds address, tenant and key.
The endorsement commands of the agent service have no caller and are left out.
`CloudWallet` makes base wallets and users' wallets and forwards calls.
`SpinupEvents` makes a wallet with no other request around and looks at the
socket: each phase opens a connection, events of one connection stay in order,
those of two do not, and they may be lost. The front end is taken to stay
connected. `AgentPorts` runs the shell script: the port is read, incremented and
written by truncation and `echo`; the callback reads the files by name when the
script ends, whatever its exit code, and an exception in it ends Node. `Gap` is
1000 in the script's files; the instances use the number of provisions, which is
what it takes for the two series of ports not to meet.

### Issuance: LedgerObjects, SchemaTemplates, BulkFiles, Offers, ExchangeRecords, ProofDetails

`LedgerObjects` is the write on the ledger followed by the row, with the look at
the stored names before each and `deleteWallet` and archiving around them. An
object is issued by the DID the request names (`MayName`), or else by the one of the
agent's row when it was read; a W3C schema always by the latter. `SetPrimaryDid` may
change the row at any moment, as an election of `OrgDids` does; an agent writes only
for DIDs whose keys it holds (`HeldBy`). `deleteWallet` reads the row (`ReadWallet`),
removes it, and archives the schemas of the DID it has read, which are not all
schemas of the organisation: `ArchivedWithWallet` says which of them stay live.
`SchemaTemplates` walks a tree of attributes three times, as the code does
(published schema, columns, nested row) and asks whether the walks agree. Keys of
`properties` are the names of the attributes in the instances, as the gateway's
front end sends them; the id of the subject is left aside. `BulkFiles` is a file
before its issue: the directory all templates go through, named by tag and
second; the checks at upload and, in other code, at issue; pages and search.
`Offers` makes offers item by item; filling in and sending the mail envelope a
service shares between all its requests is one step, because the code between
them awaits only a function that is not asynchronous
(`verification.service.ts:677`). `ExchangeRecords` gives every event a handler of
its own that stores, looks the webhook of the organisation up, and posts with
retries; the agent does not wait, so events overtake one another. `ProofDetails`
follows the keys of a request through the answer into the details.

### Platform: PagedLists, ErrorAnswers, Notifications, DatabaseSeed

`PagedLists` has every list of the platform as a record (where it filters, by which
fields it can be sorted, how it counts, how it decides that there is a next page) and
one pair of queries per page. A field to sort by is one of four kinds: the time of
creation, a unique id, a field that stays and that rows may share ("name" stands for
names, versions, tags, labels and DIDs), and one that webhooks write again ("state"
stands for the state and for the ids of a connection or schema of a credential or
proof). A query gives rows that are alike in any order, which may differ between two
pages, since no repository adds a second field to sort by; rows made at the same
moment, as those of one upload, are alike in their time of creation too. So a row
that was ever alike with another one (`tied`) may be missed or repeated though
nothing changed; of such rows `AlikeStandIn` says that in a walk nothing disturbs
they are shown as often as there are of them. A row that a webhook moves has left
its place and come to another one: it counts as removed and as added. `ErrorAnswers` treats a JavaScript value as a function from
paths to leaves and follows it through `handleCommonErrors`, `RpcException`, the
wire, `CustomExceptionFilter` and `HttpExceptionFilter`; the classes of Nest and
of the transport are external. `DatabaseSeed` runs the steps of `main` in their
order; a step that fails, or a crash, ends the run, and the next one starts at the
first step. It may run next to a platform that stores agents and, in a statement
after that, their DIDs (`pending`), or while the platform is stopped (`quiet`,
chosen at the start): that no DID has two rows (`OneDidRow`) and none is left out
(`DidsMigrated`) is claimed of the latter, because the seed reads the DIDs before
it writes the rows it found missing. The seed tells other ledgers by their number
and never adds to a table that has one of its rows; so `LedgersAreMaster` is
claimed where versions with as many ledgers have the same (`CountTells`), and
`MasterComplete` of tables that all versions seed alike (`Lasting`).

## Suites

A suite module has the variables of its components (shared where their names
agree) and a variable `part`, chosen once at the start: a behaviour is one of one
instance, and the variables of the others are `"absent"`. The components of a
suite share no state in the code either as far as their modules model it; a
product of them would only add reorderings of independent steps. Each suite
extends a component that has theorems, so that its properties run under their own
names and for the constants the theorems speak of. `Users`, `Wallets` and
`Platform` are suites for any constants, so that their theorems cover the components
next to the one they extend, and `MCUsers`, `MCWallets` and `MCPlatform` give them
values (in `MCUsers` three casts of requests, one to a part); the other suites are
instances for TLC. While another part runs, that component
rests in its initial state, and where two components name a variable alike the
other's is given a new name (`place`, `failures`, ...). Each remaining property of a suite is a conjunction of
the invariants of one or two components, guarded by the part they belong to,
and the comment of each conjunct is in the component's module. The same
component is run in several instances when its questions need different sizes
(two requests with failures, three without), and instances leave a kind of input
out when it is known to break the property at hand; those inputs are listed
under "Disagreements".

## Runs

All runs switch the deadlock check off: the platform may come to rest.

| run | instances | properties | distinct states |
|---|---|---|---|
| `bulk_promise` | 1 upload, 1 recipient, 1 retry, batches of 1, 1 failure or crash, 1 deletion | `TypeOK`, `UndeliveredIsRetryable`, `SecondOfferHasCause`, `ImplementsDelivery`, `ReopenedByOwnRequestOnly` | 137 000 |
| `bulk_drains` | 1 upload, 2 recipients in 2 batches, 1 failure, 1 deletion, fair | `CompletedMeansDelivered`, `LastClosesDispatch`, `IssueIsClosed`, `QueueDrains` | 56 000 |
| `agent_overlap` | 3 attempts of any kind, 2 deletions, 1 own agent, 1 failure | `RecordHasWallet`, `OrphanHasCause`, `HalfMadeHasCause` | 862 000 |
| `membership` | `roles` (two requests that accept, change roles, register or withdraw, one organisation, one failure or crash), `all` (two that accept or register, two organisations), `invited` (three that invite, accept, reject or withdraw, two invitations, two organisations, limit 1) | `MembershipKept`, `StoresAgree`, `InvitationsKept`, `LimitHolds` | 638 000 |
| `teardown` | two requests of any stage, one arrival, one failure | `RecordsKept`, `OthersKept` | 473 000 |
| `users` | `signups` (five requests, one failure), `resets` (six), `writes` (five, one failure), `devices` (two devices, three sign-ins, one failure), `credentials` (every form) | `RegistrationKept`, `SignInsKept` | 576 000 |
| `wallets` | `elections` (three elections of a primary DID, two rows, one failure, an answer that nests its DID), `calls` (an operation of each kind for an organisation, against two changes of its wallet or the platform's and one failure; or two calls that use the DID of an invitation), `cloud` (six calls: on one base wallet, next to one whose key is wrong, or on two at two agents; without a wallet; an administrator who is a holder), `told` (one provision, two losses, a crash), `ports` (three scripts, two of them by one name, up to two at a time, one failure) | `OneStory`, `PrimaryKept`, `CallsKept`, `StartsKept` | 1 469 000 |
| `issuance` | `exchanges` (a credential and a proof, two states, two events under way at a time, one retry, one failure, one deletion), `mails` and `wires` (three and four requests of up to three items, two failures), `sources`, `given`, `groups` (proof requests of up to three items), `schemas` (three requests, one of which names the second of two DIDs, elections of a primary DID at any time, a deletion), `tags` (three requests, one of which names a DID its wallet does not hold), one failure each, `rows`, `trees` (lists in lists, objects in lists), `names`, `checks`, `preview` | `SettledIsCurrent`, `HeardKept`, `AnswersKept`, `ObjectsKept` | 1 404 000 |
| `platform` | `organisations` (three creations or renamings at a time, or two with a failure), `batches` (lists of up to three items, three requests, up to two at a time, a failure), `exact`, `rough` (lists of five rows and one that comes, two moments of creation, names and states shared, sorted by every kind of field, two changes per walk), `errors` (every error of every operation), `posts` (two registrations, two messages, two failures), `seed` (two versions, three agents, the platform up or stopped, two runs cut short anywhere) | `NamesDiffer`, `OwnersKept`, `DeliveriesKept`, `PagesKept`, `ErrorsKept`, `SeedKept`, `LedgersStay` | 590 000 |
| `progress` | twelve small fair instances | `AcceptedGrants`, `OneCreationWins`, `RaceHasWinner`, `RequestsAnswered`, `OutcomesTold` | 33 000 |
| `agent_atomic` | 1 attempt, 1 deletion, 1 failure | `FailedDeletionKeepsRecord`, violated | |
| `teardown_refused` | one teardown | `RefusedDeletesNothing`, violated | |

A property that ends in `Kept` is a conjunction; of a proved component it and each
conjunct are theorems.

Why the bounds are enough. Of bulk issuance, one retry overlaps the first
dispatch, which is all a second dispatch can overlap with, and two recipients are
needed for a flagged job to overtake another one; the two together are left to
the theorems, which have no bounds. For the wallets, a stale deletion needs one
request whose record it reads, a second deletion that removes it and a second
request that records anew; the third request is a bystander that can lose its
race at the same time. A change of roles is disturbed by one other request or one
failure; the limit and the open invitation need a third request, and two
invitations to count; the proved components have theorems for every number
of requests, so that their runs only have to reach each action and each cause.
Requests that ask for the same are interchangeable, and the runs of invariants
use that symmetry (`platform` too, whose one temporal property tells no request
from another); `progress` and the runs with liveness properties do not. Elsewhere a check and a use race with one other request,
and a third one is there where a bystander can see the outcome (limits, the open
invitation, reset tokens, elections). One failure shows every half-finished
request; two are allowed where a retry can fail again (offers, seeds).

Properties that are checked only where nothing but the clean case can break them
say so in their definitions: an exception is a set named in the history
variables (`torn`, `drifted`, `contested`, `rushed`, `raced`, `crossed`, ...),
which an action fills exactly when the cause occurs.

## Fairness

Weak fairness of each request, dispatcher, call and of the worker: the event loop
runs every promise whose I/O has settled, and Bull's worker takes a waiting job
when it has none. Requests, the TTL, crashes and deletions are owed to nobody.
Each component states its own `Fairness`, and `MCProgress` restates it for its
instance. Two deserve a word. `SpinupEvents` takes it that every call is answered
or fails, and that the gateway hands on what it receives. `DatabaseSeed` takes it
that whoever deploys repeats a seed that failed; the number of failures is
bounded, so that one run is the last.

`IssueIsClosed` is about uploads no failure touched, because a crash
really leaves an upload at `PROCESS_STARTED` for ever: its counter is gone and
nothing else closes it. `RaceHasWinner` is checked without failures and deletions,
which can take any record away. `AcceptedGrants` and `OneCreationWins` are true
of runs without a failure: the code has no compensation.

What the model makes visible and the properties therefore say explicitly:
`IssueIsClosed` promises that a final status is reached, not that it stays,
since the `finally` block of `issueBulkCredential` may overwrite it
(`ReopenedByOwnRequestOnly` confines that); `CompletedMeansDelivered` leaves out
uploads retried while they were being stored, whose retry can complete them with
the rows stored so far; `SecondOfferHasCause` lists overlapping retries among
the causes because `retryBulkCredential` looks neither at the queue nor at the
status. `RecordHasWallet` leaves out an agent the organisation configured more
than once: a deletion that has removed the older record may still delete the
wallet after `agentConfigure` found it healthy and recorded it again.
`OrphanHasCause` lists two causes that are no failures: a request that loses the
race for the unique index keeps its tenant, and a slow `deleteWallet` removes the
record of a newer wallet and then asks for the deletion of the older one.
`OwnWallet` excepts the ledger services, which read the row piece by piece, while
the wallet is changed, and a call on its way to an agent that was dedicated to its
organisation and is to another one by then (`held`, a history variable).
`CallsGoHome` holds as long as all base wallets are at one agent, since any of them
is taken; `NoPortRefused` and `FilesUsable` as long as no two scripts ran at the
same time (`crossed`); and `AnswerIsMine` excepts a provision that was not started,
or next to another one, when files of the same name are there. `StoresAgree` excepts members whose owner asked for
credentials: `createOrgCredentials` maps nobody but the owner. `ArchivedWithWallet` excepts the
schemas issued by another DID than the one the deletion has read, and those of requests
that had found the wallet in time. `MissesOnlyForRemoved` and `RepeatsOnlyForAdded`
except rows that share a value with another one in the field the walk is sorted by.

One hazard has no property: `isLastData` is set on the `totalJobs`-th call to start
(`issuance.service.ts:1789`), so that the verdict about an upload may be made
while other jobs are under way. `CompletedMeansDelivered` holds nevertheless,
because the verdict counts rows and not jobs; but that an upload in error was
judged after its last job ended is not so, and no property claims it.

## Findings

Two disagreements are kept as runs that TLC must find violated:

- `agent_atomic`: `deleteWallet` says "Perform the deletion in a transaction"
  (`agent-service.service.ts:1849`) and throws when the agent does not confirm.
  `deleteOrgAgentByOrg` commits a transaction of its own, so the record stays
  deleted while the wallet lives on (`FailedDeletionKeepsRecord`).
- `teardown_refused`: `deleteIssuanceRecords` deletes the bulk files before it
  counts the presentations (`issuance.service.ts:2081`); a request refused with
  "First you have to remove verification data" has deleted the history of uploads
  (`RefusedDeletesNothing`).

### Disagreements met while modelling

The modules follow the code here too, so these behaviours are in them. Either a
property names the case as an exception, or the instance of the run leaves the
input out, or the property is about something else; no run is kept for them.

Organisations
- `agent-service.service.ts:791`: "Your wallet is already processing" is never
  answered: the placeholder has no `orgId`, and the look-up is by `orgId`.
- `organization.service.ts:1389`: of two answers to one invitation at a time the
  second overwrites the first, though `transitionMap` lets nothing follow one.
- `organization.service.ts:1368`: two acceptances at a time pass the limit of ten
  organisations.
- `organization.service.ts:1774`: a deletion that is refused has removed the
  Keycloak roles already.
- `agent-service.service.ts:1038`: a DID the agent nests in `didState` is never
  "already exist".
- `organization.service.ts:1050`, `:1061`, `:1116`, `:1118`: an unknown role next
  to a known one passes; a mail that was not sent is "sent"; an address invited
  already loses the roles asked for now; an address in capitals finds no user.

Users
- `user.service.ts:381`: a sign-up that finds an account takes it over without
  setting the password, and answers success.
- `client-registration.service.ts:953`, `organization.service.ts:985`,
  `user.service.ts:688`, `user.service.ts:347`: the refresh of a token decrypts
  twice, the organization service not at all, resets refuse the plain credentials
  that sign-ups accept, and a passkey password is stored before it is checked.

Wallets
- `cloud-wallet.service.ts:212`: with a second base wallet, calls go to whichever
  is found first.
- `start_agent.sh:45`, `:52`: two scripts take one port, or a blank that stays;
  `agent-provisioning.service.ts:46`, `:53`: a failed start is answered with the
  files of an earlier one, or not at all.
- `agent-service.service.ts:520`, `:736`: events do not come in the order the guide
  numbers them, and an invitation that failed is told as made.
- `common.service.ts:239`: an error without a response whose text holds 404, 400 or
  422 ends in a TypeError; `http-exception.filter.ts:28`: P2025 loses its 404.

Issuance
- `verification.controller.ts:454`: a presentation that was not stored is answered 201.
- `issuance.service.ts:452`: the deep link is made of the agent's endpoint.
- `schema.repository.ts:84`: "card" exists when "id card" does.
- `schema.repository.ts:201`, `agent-service.service.ts:1871`: when a wallet is deleted,
  the schemas issued by its primary DID of that moment are archived; those issued by a
  DID the caller named (`schema.service.ts:151`) or by an earlier primary one stay live.
- `issuance.repository.ts:149`, `connection.repository.ts:284`,
  `verification.repository.ts:111`, `schema.repository.ts:139`, `:282`, `:339`, `:368`,
  `credential-definition.repository.ts:85`, `:136`: a list sorted by a field that rows
  share has no second one, so that pages may repeat one row and miss another; sorted
  by what webhooks write, rows change their place during the walk.
- `credential-definition.service.ts:303`, `schema.repository.ts:342`,
  `user.repository.ts:526`: no next page, no skip while searching, and a total that
  counts who is not listed.
- `attributes.extractor.ts:32`, `:158`, `w3c.schema.builder.ts:40`, `:182`, `:259`:
  columns below an object repeat the name; numbered lists replace a cell; maxima
  are not published, nor objects in objects; dates in lists have no JSON type.
- `issuance.service.ts:1238`, `:1378`, `:1442`, `:1983`: templates of one tag and
  second replace each other; a boolean column is accepted and then refused; search
  fails on rows without `name`; an empty required cell is not noticed.
- `verification.service.ts:913`, `:937`, `:1021`, `:1079`: details are shown before
  they are verified, with the first credential's certificate, without groups, and
  with the first credential's source if none was asked for.

Platform
- `seed.ts:48`, `:157`, `:203`, `:240`, `:364`: roles are not added later; a run cut
  short between user and organisation blocks all later ones; the administrator's
  row may be missed; other ledgers delete those in use; a configured agent without
  a DID document ends every seed.
- `notification.service.ts:66`: the address is checked after the post.

## Proofs

TLAPS proves the theorems below for all constants that satisfy the module's
`ConstantsAssumption`: any number of requests, users, organisations, rows and
failures. In every module the type invariant is proved first (`TypeCorrect`), and
the inductive invariant is a conjunction of named parts, each of which TLC checked
as an invariant before it was proved. A lemma `NextIsAct` splits the next-state
relation by what one step can do, and lemmas on what a step leaves alone keep the
proof of a part to the few actions that reach it.

`BulkIssuanceProofs` (finite `Files` and `Recipients`, `Files` and `Retries`
disjoint, a positive batch size, any number of failures and deletions):

| theorem | property |
|---|---|
| `NobodyIsLost` | `UndeliveredIsRetryable` |
| `SecondOffersHaveCauses` | `SecondOfferHasCause` |
| `CompletionIsTrue` | `CompletedMeansDelivered` |
| `OneCallCloses` | `LastClosesDispatch` |

None of them is inductive. The argument rests on these invariants:

- `RowsAreGrounded`: a row has its file, and a row that is closed, about to be,
  or without claims, was offered. With types, it implies `UndeliveredIsRetryable`.
- `JobsComeFromPayloads`: a job is in one place only (still to enqueue, waiting,
  or running) and belongs to the payload of its dispatch, and a file has no
  payload of its own before its request has dispatched it.
- `PayloadsComeFromRows`: what was dispatched was saved before, what was offered
  was dispatched.
- `OneOfferEach`: for a row with no recorded cause, at most one job with claims
  may still make an offer, none once an offer was made, and an offered row has
  lost its claims or is about to. It implies `SecondOfferHasCause`. In the proof
  most actions are `Quiet` for a row; what remains is the dispatch, the retry,
  the offer and the update that marks the row.
- `NothingLeftOut`: before the request dispatches its file nobody touches it
  unless a retry came early; afterwards all rows are there, and a job about to
  write completed has seen every row offered. It implies
  `CompletedMeansDelivered`.
- `StartsAreCounted`: the jobs of a dispatch that wait and its starts counted so far
  are together no more than its rows. So a call that reads the full count leaves
  no job waiting and is the only one to read it. A restart forgets all counts and
  returns a job of the dispatch to the queue, which keeps the sum below the rows.

The same module proves the refinement:

| theorem | property |
|---|---|
| `Implements` | `ImplementsDelivery`: `Spec` implements `CredentialDelivery` under the mapping `LedgerOf`, `CertifiedFiles` |
| `OnlyOwnRequestReopens` | `ReopenedByOwnRequestOnly` |

Initial states map to initial states; `NextIsVisible` takes the actions of
`BulkIssuance` one by one and shows which step of the promise each is (`StoreRow`
registers, `OfferDelivered` offers, `MarkIssued` closes, `CloseFile` certifies,
`PurgeCommit` withdraws, ...) or that the mapping does not move. The one
strengthening it needs beside the invariants above is `UnaskedIsAbsent`: the file
of a request that was not made is not there, so that what `StartIssue` creates
is new.

`AgentProvisioningProofs`, for all sets of attempts and deletions and agents
disjoint from the attempts:

| theorem | property |
|---|---|
| `RecordsHaveWallets` | `RecordHasWallet` |
| `OrphansHaveCauses` | `OrphanHasCause` |
| `NothingHalfMade` | `HalfMadeHasCause` |

The inductive invariant joins `AttemptsConsistent` (row, wallet and home fit the
place an attempt has reached, and no attempt lives in the wallet of another),
`DeletionsConsistent` (one row has the `orgId`; the row a deletion read is gone for
good once that deletion has removed a record), `StandingHasWallet` (from its making
until its record is removed a wallet is alive), `LapsedHasCause` (an attempt that
failed or lost its record has no wallet, a doomed one, or an excuse) and
`DoneCompletely`. The first theorem follows because a deletion only reaches the
wallet of its target, whose record is gone by then, and `StoreRecord` never
revives a removed row.

`OrgMembershipProofs`, for any number of people, organisations, invitations and
requests, and any limit:

| theorem | property |
|---|---|
| `MembershipIsKept` | `MembershipKept`, from `MembersHaveRoles` and `ClientsAreKnown` |
| `InvitationsAreKept` | `InvitationsKept`, from `InvitationsAreSingle` and `AnswersAreKept` |
| `LimitIsKept` | `LimitHolds` |
| `StoresAgreeAlways` | `StoresAgree` |

- `MembersKept`: who had a role has one, or a row on its way, or a request that
  owes one (`Owes`), or a known cause. A request owes from the moment its deletion
  settled until its rows are sent; `CallsFit` says which calls can be in flight at
  which place.
- `OneAnswer`, `AnswersFresh`, `GrantsAccepted`: an invitation nobody contests has
  one request at work, which finds the status as it read it; what a finished
  acceptance granted belongs to an accepted invitation.
- `OneInvite`, `InviteChecked`: between the check of an address and the insertion
  nothing else opens an invitation of the pair.
- `AcceptsAlone`, `RoomForOne`, `WithinLimit`: the number of organisations is read
  while rows are missing, so the invariant counts `Potential`, the organisations a
  user is in or will be in again when every request has inserted its rows. It only
  grows by an acceptance, which counted before, and who is not `rushed` has one
  acceptance at work and no rows on the way.
- `OneRegistration`, `ClientsKnown`: where nothing has drifted, one request
  registers an organisation or withdraws that, and client and id differ only
  between its two writes.
- `OneToucher`, `MappedHaveClient`, `StoresFit`: where nothing has drifted, one
  request at a time may change a pair of a user and an organisation. While it does,
  both stores hold what its place says (`StageOf`: `MemberStage` for one member,
  `OwnerStage` for the owner of a registration, `TodoStage`, `ClientStage` and
  `MembersStage` for the registration of all organisations, whose list is what the
  two may still differ by); while none does they are `Even`. A row counts from when
  it is sent (`Promised`), so that its arrival changes nothing, and when nothing is
  under way what is promised is what is there.

`PlatformProofs`, for any users, names and requests, any lists of invitations,
registrations and messages, any versions of the master data and any runs cut short:

| theorem | property |
|---|---|
| `NamesAreUnique` | `NamesDiffer` |
| `OwnersAreKept` | `OwnersKept`, from `FinishedOrgsAreOwned` and `LimitIsKept` |
| `SuiteCreates` | `Platform` implements `OrgCreation`: the theorems above hold in it |
| `DeliveriesAreKept` | `DeliveriesKept`, of `InvitationBatches` and `Notifications` in `Platform` |
| `SeedIsKept` | `SeedKept`, of `DatabaseSeed` in `Platform` |
| `LedgersAreLeft` | `LedgersStay`, an action property, from the invariant of `SeedKept` |

`RowsSlugged` and `SlugsDiffer` give the first: two rows of one name would have one
slug, which the insertion refuses. `StagesKept` says what a creation has done at
each place, so that an end without a failure has reached its last step; `OneCreation`
and `RoomForOne` keep the room a creation has counted until the owner's role is in.

For the lists of invitations, `StillUninvited`: between the look for an open
invitation and the insertion only a request that crossed this one opens another, so
that two open invitations of one address name two requests that crossed.
`ThroughInvited` and `ThroughMailed` carry what a request has behind it in its list
(invited by it or by whoever did so before, and mailed as long as nothing failed)
from item to item; at the end of the list they are the property. For webhooks,
`ReadStays`: the row a message has read is still the one of its organisation,
because rows are written once.

For the seed, `AllOrNothing`: a table all versions seed alike is empty or whole,
and whole behind its step. `LedgersOfOneRun`: the ledgers are those of one version,
made by one run, and as many as the version deployed has once their step is over.
That the count then tells which they are is `CountTells`. `QuietRuns`: while a seed
runs with the platform stopped no DID is pending, and behind the migration every
stored agent has its row. The code compares two counts there; `CountTellsWho`
proves that equal counts leave no agent without a row, because no agent has two.

`OrgTeardownProofs`:

| theorem | property |
|---|---|
| `RecordsAreKept` | `RecordsKept`, from `WalletsOutliveRecords` and `OrgsOutliveRecords` |
| `OthersAreKept` | `OthersKept`, from `SchemasStayLinked` and `GoneOrgsHaveNoRoles` |

`WalletCounted` and `OrgCounted`: what is there after a count of zero was inserted
since, and is named as the cause. `RolesStripped`: once a deletion has been to
Keycloak, only those it knows it has left there still have roles.

`WalletsProofs`, for any organisations, agents, calls, users, hosts, provisions and
scripts, and any number of changes and failures:

| theorem | property |
|---|---|
| `OneStoryIsTold` | `OneStory` |
| `PrimaryIsKept` | `PrimaryKept`, from `SomeDidIsPrimary` and `AgentsDidIsStored` |
| `SuiteElects` | `Wallets` implements `OrgDids`: the theorems above hold in it |
| `CallsAreKept` | `CallsKept`, of `AgentCalls` and `CloudWallet` in `Wallets` |
| `StartsAreKept` | `StartsKept`, of `SpinupEvents` and `AgentPorts` in `Wallets` |

`DemotedIsPromoted`: whoever has demoted is still there to promote, or has failed.
`OneAtWork`: as long as no two elections have crossed, one is at work at most, and
flag, row and agent are those of its `Stage`.

`CallsInv`, of calls: `RowsFit` and `WalletsFit` say that an agent with a dedicated
row holds no other organisation's own wallet, and that shared rows are at the
platform's agent until its wallet is deleted. `RowRead` is of operations that read
the row once: what they have is the row there is, or an earlier one, which counts
fewer wallets; either way its wallet is the organisation's own, or its agent was.
`PiecesRead` and `KeyRead` are of what is read in pieces, and promise something only
while the wallet stays: what has been found so far fits the one row, so that address,
tenant, key and DID fit one another when the call is made. `CloudInv`: a user has one
row, which names a tenant made for that user at the agent of some base wallet, and
`Found` says at which stage a request has a base wallet whose key fits, a row of its
own user, or a tenant not stored yet. The unique index makes the second of two
requests fail.

`SpinupInv`: `Truthful` ties what a client has heard or is about to (`Heard`) to the
place of the provision and to what is stored; events overtake one another, so it is
about sets of events and not about their order. `Little` bounds their number by the
place. `PortsInv`: `SmoothRuns` follows a script that is alone from its container to
the files it leaves and the callback; it survives other scripts because those of the
same name would have to run next to it. `Counted`, while none have crossed: a port
file holds the first port plus the number of scripts that took one, unless one is at
it, and what the scripts took differs. As the two series are `Gap` apart and no more
scripts run than that, no container is refused a port.

`UsersProofs`, for any requests, each about anything, any devices and sign-ins:

| theorem | property |
|---|---|
| `RegistrationIsKept` | `RegistrationKept`, from the theorems below |
| `CodesAreMailed` | `WaitsForMailedCode` |
| `MarksAreEarned` | `VerifiedByMail` |
| `LinkedGetRoles` | `RoleBehindLink` |
| `SignUpsSetPasswords` | `PasswordBehindSignUp` |
| `TokensWorkOnce` | `TokenWorksOnce` |
| `StoresHoldOnePassword` | `PasswordsAgree` |
| `SuiteRegisters` | `Users` implements `UserRegistration`: the theorems above hold in it |
| `SignInsAreKept` | `SignInsKept`, of `UserDevices` and `ClientCredentials` in `Users` |

`JobsFit` says which places belong to which kind of request and what has been done
there: a code is mailed before it is written, a writer of a password past its first
look works on a verified address, and who has mailed or stored a token is past its
look, so that no token comes twice. `VerifiedByMail` is inductive with it, because
`LinkAccount` marks only what is marked. `LinkersGrant` follows the last request
that wrote the account's id, `AccountsHavePassword` the sign-ups past the account's
making. `TokensUsedUp`: a token that worked is gone. For the passwords,
`AloneIsAlone` (a writer that is alone is the only one), `AloneWrites` (what it has
written is still there, by `StoresOf` of its place) and `LookersAgree` (the stores
agree while no writer has got beyond its first look, as the last one left them).

For the devices, `DevicesLive` (a sign-in asks only for a device that is made, and
whose mark is set), `LateStopped` (a sign-in that began after the deletion never
gets a list with the device in it), `CountsAlone` (two sign-ins of a device
between reading and writing its counter are recorded in `overlapped`) and
`PassedCounted` (a counter is the number of passes, which are as many sign-ins at
most). For the credentials, `LinkedReadable`: a linked account's credentials decrypt
to what Keycloak holds, in whichever of the forms they were sent; every request
keeps it, and who reads them strictly reads only what was encrypted.

`ExchangeRecordsProofs`:

| theorem | property |
|---|---|
| `SettledRowsAreCurrent` | `SettledIsCurrent` |
| `HeardIsKept` | `HeardKept`, from `HeardStatesAreVisible` and `HeardOnlyOnce` |

`RowsFollow`: a row shows no state its exchange has not reached, and no earlier one
than any stored event unless events overtook one another. `CallsCounted` and
`HeardAsSeen` count what an organisation's webhook was sent: until the gateway is
done with an event only answers that were lost, afterwards once more at most.

What attempts at these proofs found about the models, each then confirmed by TLC:

- `drifted` missed overlaps with a request that registers all organisations while
  theirs wait for their turn (`todo`);
- `rushed` missed acceptances that overlap a request which deletes rows to insert
  them again, while the number of organisations reads too low;
- an organisation without an owner stopped the registration of the ones behind
  it: in the code it is passed over, which is now the action `SkipOrg`;
- `InvitationBatches` took lists one after the other, where the code lets them
  cross; `crossed` says which did, and that theirs may be two open invitations;
- an empty list of invitations, which the gateway lets through, was stuck at its
  first item; it goes straight to the activity;
- the properties of `AgentCalls`, `CloudWallet` and `AgentPorts` held in some of
  their instances only for what these left out (a second base wallet, an agent that
  is given to another organisation, scripts that overlap); they now name the cause,
  and one instance of each has all of it;
- `DatabaseSeed` claimed master data and ledgers of any two versions, which only
  the values of the instances made true (now `Lasting`, `CountTells`).

Only model-checked:

- liveness (`IssueIsClosed`, `QueueDrains` and the
  properties of the progress run), which is out of the prover's reach;
- the properties of the suites about components without theorems: `AnswersKept`,
  `ObjectsKept`, `PagesKept`, `ErrorsKept`;
- everything about `SchemaTemplates`, which walks trees by `RECURSIVE` operators.

Of the proved components, `BulkIssuance` and those whose type invariant is a
conjunct of a property that ends in `Kept` (`UserRegistration`,
`InvitationBatches`, `Notifications`, `DatabaseSeed`, ...) have it in a run as well;
those of the others are proved only.

## What is left

1. Theorems of `LedgerObjects` and `Offers`, whose invariants are close to inductive;
   they need a suite for any constants first, as `Users`, `Wallets` and `Platform`
   are.
2. `createWallet` of the agent service, and the scripts for other platforms.

## Not modelled

- Utility and geo-location: single inserts, single uploads and read-only look-ups
  that nothing races. Where a caller's step may fail there, the step is in the
  caller's module.
- Of the modelled components: counts for dashboards, public profiles, logos,
  activity logs, platform settings, aliases of schemas (reads or single writes);
  `createWallet`, whose tenant no record names; health checks; questions and basic
  messages beyond the wallet they go to; the agents' own verification and their
  ledgers, which are external.
- Routing, validation of single fields and guards of the gateway: they are the
  input the modules start from. Formatting of mails and payloads, logging.
