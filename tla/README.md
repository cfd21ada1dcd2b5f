# Mosharan: a TLA+ verification project

Mosharan is an industrial telemetry system. Gateways in the field send packets over
HTTPS; a Django/ninja backend on SQLite keeps every packet as an immutable *raw
event*, decodes it under a versioned payload schema and stores typed *readings*; a
React frontend shows dashboards, administers the configuration and simulates
packets; a webhook receiver and a shell script deploy new commits.

This directory holds TLA+ modules translated from that source, TLC configurations
that model-check them on small instances, and proofs, checked by TLAPS, that the
most important properties hold for every size of the system. `PROJECT.json` maps
every definition to the lines it stands for. Paths below are relative to the
repository; note that the application itself lives in an inner `src/`
(`src/src/backend`, `src/src/frontend`), beside `src/deploy`.

## 1. Inventory

| Component | State it keeps | Operations | What is hard |
|---|---|---|---|
| **Telemetry ingestion** `event/services/ingestion.py`, `event/api.py` | `RawEvent` rows (unique per gateway and message id), `ParameterReading` rows | `POST /api/v1/ingest`: authenticate, validate, resolve device and schema, get-or-create the event, process it in one transaction, or mark it failed | four threads serve retries of one message; lookups are used after other transactions commit; crashes between storing and processing; failed database locks; lost responses |
| **Payload parsing and projection** `parsing.py`, `projection.py` | none | bytes of a payload to decoded fields to typed readings | byte boundaries, UTF-8, integer and timestamp ranges; the same rules again in TypeScript |
| **Registry and schema configuration** `device/services.py`, `event/services/configuration.py`, the model classes | device types, parameters, assignments, gateways, devices; event types, schemas, fields, rules, tabs, visualizations | create, update, delete of each by platform superusers | guards that look at *other* tables (telemetry freezes schemas and device identity) and race with ingestion |
| **Gateway credentials and login** `config/security.py`, `account/api.py` | hash of the gateway token, Django sessions, a throttle history in the local-memory cache | authenticate a gateway, rotate its token, log in and out | unlocked read-append-write of the throttle history; rotation against requests in flight |
| **Companies and tenant visibility** `account/` | companies, memberships of users, gateway owners | `visible_to` filters of every dashboard query | a gateway or user moved to another company |
| **Dashboard queries** `event/services/dashboard.py` | none | KPIs, series, event lists of a time range | bucket boundaries |
| **Demo data seeding** `seed_demo_data.py` | none | one transaction of get-or-create steps | being repeatable |
| **Automatic deployment** `deploy/webhook-receiver.py`, `deploy/auto-deploy.sh` | working copy, `.env` tag, images, containers, lock file, run copies | receive a push, start a run, fetch, back up, pull, build, restart | concurrent pushes, failures between the steps, the receiver restarting itself |
| **Browser session** `AuthProvider.tsx`, `LoginPage.tsx`, `SidebarAccount.tsx`, `http.ts` | status, user, the CSRF token of the tab; cookies shared with other tabs | restore, log in, log out, save | answers out of order, lost, or broken off after their headers; tokens fetched across a login; two logout buttons that do not know of each other |
| **Administration workspace** `AdminWorkspace.tsx`, `RecordFormDialog.tsx`, `resourceForms.ts` | a snapshot of all resources, the open tab, editor, draft, issued token | load, create, edit, delete, set a password, issue a token | state read before an `await` and used after it; choices that depend on other choices |
| **Packet simulator** `PacketSimulatorPage.tsx`, `packetProtocol.ts`, `payloadGenerator.ts` | composer, receives in flight, history of receipts | compose, receive, stream, replay, clear | receives that wait for timeouts while the page changes; its decoder must agree with the backend's |
| **Dashboard pages** `OverviewPage.tsx`, `ModulePage.tsx` | one dashboard; one snapshot with a detail and its editor | load, change device, range or section, save | a slow answer replacing a newer one; a reload after the editor has closed |
| Containers, web server, styles, migrations | | | configuration; read for the settings the models rest on |

How they interact: a gateway's request authenticates against its token hash
(credentials), reads the registry (`device`) and the schema configuration (`event`)
and writes telemetry. Superusers edit both configurations through the management API
while requests run; the edit services read the telemetry tables to decide what is
frozen. Dashboards read telemetry only. Deployment kills and restarts the process
that serves all of them.

Settings that decide what can happen, and where they are:

- one Gunicorn process with four threads (`src/Dockerfile:19`): requests interleave,
  the cache is shared by all of them, and a crash takes all requests in flight;
- SQLite in autocommit mode with deferred transactions
  (`config/settings.py:116-121`): outside an `atomic` block each query is its own
  transaction; `select_for_update` locks nothing; a transaction that read before
  another one committed cannot upgrade to a write and fails with "database is
  locked". Transactions that commit are serializable.

Correctness, component by component: ingestion stores each message once, projects it
at most once and completely, answers truthfully and never changes evidence;
configuration edits never touch what telemetry refers to; every event is eventually
processed when its configuration is complete; a deploy is never lost and never
half done; a tab and its cookies agree about who is signed in; a page shows the answer to
what is selected, as new as what the server confirmed to it, and waits for something
that will come; a form sends what its user chose and nothing stale; the simulator says of
a packet what the backend would.

## 2. Modules

| Module | Models |
|---|---|
| `Registry` | gateway flag, devices and payload schemas, every edit of them, and what ingestion looks up in them |
| `Ingestion` | extends `Registry`: the request threads, the event and reading tables, failures; all properties |
| `IdempotentIntake` | what ingestion promises: a ledger of first envelopes, completed at most once, and acceptances that quote it |
| `MCIngestion` | constants for TLC |
| `IngestionProofs` | theorems about `Ingestion`, two of which need edits to wait for requests |
| `Deploy` | the webhook receiver and the runs of the deploy script |
| `MCDeploy` | constants for TLC |
| `DeployProofs` | theorems about `Deploy` |
| `Configuration` | every service that edits types, parameters, assignments, schemas, fields, rules and dashboards, next to an atomic view of ingestion |
| `MCConfiguration` | constants for TLC |
| `ConfigurationProofs` | theorems about `Configuration` |
| `PacketCodec` | decoding, projection, generation of packets and the catalog's mapping, as operators: the Python and the TypeScript versions side by side |
| `PacketAgreement` | a packet on its way from the composer to both decoders and back |
| `PacketAgreementProofs` | theorems about `PacketAgreement`, and about texts, numbers and their encodings |
| `MCPacketAgreement` | schemas, drafts and payloads for TLC |
| `PacketSimulator` | the simulator page: receives, stream, history |
| `MCPacketSimulator` | its constants, compared with `PacketCodec` by an `ASSUME` |
| `PacketSimulatorProofs` | theorems about `PacketSimulator` |
| `Management` | the management API as the pages of one tab see it |
| `AdminWorkspace`, `ModulePage` | extend `Management`: the two pages that load and change records |
| `Administration` | composes them: one tab, one page at a time, other administrators |
| `MCAdministration` | constants for TLC |
| `AdministrationProofs` | theorems about `Administration` |
| `ResourceForm` | the form of all thirteen resources |
| `MCResourceForm` | a snapshot for TLC |
| `ResourceFormProofs` | theorems about `ResourceForm` |
| `BrowserSession` | session, CSRF token and cookies of one tab |
| `OverviewPage` | extends `BrowserSession`: the dashboard page and its loads |
| `BrowserTab` | composes them: the session decides which pages are mounted |
| `MCBrowserTab` | constants for TLC |
| `BrowserTabProofs` | theorems about `BrowserTab` |

### Registry

`device[d]` and `schema[s]` are the rows by primary key: `Absent` before the row is
created, `Deleted` after, since an AUTOINCREMENT key is never used again. Every key
of the ingestion tables contains the gateway, so one gateway is modelled. The rows
below a schema (fields and projection rules) are one value, its `layout`; a layout
determines how many bytes it needs (`Extent`), which payloads decode and convert
under it (`Decodes`) and which parameters it writes (`Targets`). `EditLayout` is any
one create, update or delete of a field or a rule. Each edit is a
`@transaction.atomic` service with its checks, hence one step; an edit that is
refused changes nothing and is no step. The sets of rows that telemetry refers to are
parameters of the edits; `Ingestion` supplies them from its events.

### Ingestion

`req[w]` holds the local variables of thread `w` in `ingest_event`, up to its
response. Every query outside `_process_raw_event` is a step of its own:

| Step | Code | Action |
|---|---|---|
| token lookup | `config/security.py:36-43` | `Receive` |
| size, gateway, event type | `ingestion.py:41-43` | `CheckRequest` |
| device lookup | `ingestion.py:44-48` | `ResolveDevice` |
| schema lookup | `ingestion.py:49-53` | `ResolveSchema` |
| get of get-or-create | `ingestion.py:55-74` | `FindEvent` |
| create of get-or-create | same | `InsertEvent`, `InsertLost` (unique key), `AbortDangling` (foreign key) |
| `_process_raw_event` | `ingestion.py:92-181` | `RefuseEnvelope`, `ReturnProcessed`, `CommitReadings`, `CommitFailure`, `AbortDangling` |
| response | `event/api.py:123-150` | `Deliver` |

`CheckRequest` takes three queries as one step: the first reads the gateway flag that
only `SetGatewayActive` writes, the second event types, which are constant here.
`_process_raw_event` is a single step because the transaction commits only if nothing
committed since its first read; the executions in which something did are
`DatabaseLocked`. In it the code reads fields, rules, and the device type of each
reading afresh, but takes the expected length and the active flag from the objects
resolved earlier: `Processable` does the same, and that is where stale data acts.

`CommitFailure` marks an event that cannot be processed and, as a fault, any other one: the
handler at `ingestion.py:119-128` catches every exception.

The environment: `Crash` loses all requests, `DatabaseLocked` fails one, `Deliver`
does not say whether the gateway got the answer, and gateways may send any envelope
at any time, so retries, duplicates and reorderings need no action of their own.

### IdempotentIntake

Two variables: `ledger[m]` (envelope, status, result) and `reply[c]` (the acceptance a
client is being given). A completion leaves its result open, but it must not share a
reading with another message's, happens at most once, and every acceptance quotes the
ledger. `Ingestion` implements it with the ledger read off the event and reading
tables and the replies off the 200 and 201 responses in flight (`Ledger`, `Replies`).

### Deploy

Commits are numbered as they are pushed. The receiver answers each posted request in one
step (`Handle`, `StartDeploy`, `StartFails`): its handler threads share nothing but the
directory of script copies. `Verdict` is `do_POST`'s chain of early returns. A request
posted while nobody listens is lost (`Lose`); GitHub does not repeat deliveries.

`run[r]` is a process that runs the script: its program counter and the name of its
copy. A name is one number for the pair of second and process id; `NextSecond` changes
it, and `Spaced` says that no two runs are started within one second. A run waits for
`flock` (`Begin`, `GiveUp`) and then does one command after the other: `Fetch`,
`Compare`, `Backup`, `Pull`, `SetTag`, `Build`, `Up`, `Wait`, `RestartReceiver`,
`Finish`, which are lines 28 to 76 of `auto-deploy.sh` from top to bottom. Its trap and
the release of the lock are `Exit`. Checkout (`tracking`, `head`), `.env` (`tag`),
`image`, the containers (`live`, `backend`) and `backup` are separate variables, since a
failing command leaves them half changed. `CommandFails` ends a run at any command that
`set -e` guards, `Reboot` ends all runs and leaves their copies behind.

`Up` replaces the containers, and the new backend starts or does not. `Wait` needs one
that runs; without, `up -d --wait` fails and `WaitFails` ends the run, with the containers
replaced. `StopBackend` and `RestartBackend` are Docker's, at any time: a backend that
crashes is restarted again and again. So the next run's look (`auto-deploy.sh:39`) may
find no running backend, or fail itself, which `set -e` does not see in a test
(`LookFails`); both skip the backup (`Backup`). Two history variables serve the property
about it: `healthy` is the last commit that a run found healthy, and `missed` says that
since then its backend has stopped by itself or a look for it failed.

Abstractions: `git rev-parse HEAD` and the `sed` that uses it are one step, which differs
from the code only for runs without the lock; a copy is there or not, so that a copy
overwritten while bash reads it is not told from the original (both come from the
checkout); the rollback that an operator may do by hand is left out.

### Configuration

One variable per table, by primary key, each action one `@transaction.atomic` service.
A service validates the row it saves (`full_clean`) and no other. Whether the other rows
remain valid depends on guards that look at other tables: `_assert_schema_mutable`,
`_projection_uses_assignment`, the checks of `update_payload_field`,
`update_payload_schema` and `update_parameter`, and the `PROTECT` and `CASCADE` clauses of
the foreign keys. So the `clean` methods and the constraints of the model classes are
operators (`SchemaClean`, `FieldClean`, `RuleClean`, `ChartClean`, `ReadingClean`) that
serve twice: of the new row as the guard of an action, and of all stored rows as an
invariant. That the second follows from the first and the guards is what is checked.

A rule's `source` is its field or the JSON type of its constant; of its conversion only
whether it names a timestamp unit is kept; of `_coerce_constant` the type of the result. A
reading is the rule it came from, its parameter, the type of its device and the column
its value is in. `StoreEvent` and `Project` write telemetry in one step each: the races
within ingestion are the subject of `Ingestion`, where in turn the rows below a schema
are one value. The two meet in the guards, `Used` here and `UsedSchemas` there.

Left out: titles, codes other than those of event types (envelopes select event types by
code), orders and flags of dashboards, hence `update_device_type`, which can change
nothing else; devices and gateways, which are in `Registry` and protect a device type
from deletion as well; names of fields. A deleted key may be used again in this model, so
that there is one value less; since nothing refers to a deleted row (`NothingDangles`),
that is not observable.

### PacketCodec and PacketAgreement

A payload is a sequence of characters, each of a small alphabet chosen for what the two
languages treat differently: digits, signs, the underscore of numeric literals, a letter,
blanks (`fs` is U+001C, which only `str.strip` removes; `nbsp`, which is two bytes), a
two-byte letter, the byte order mark, and half of a surrogate pair. Bytes are those of the
UTF-8 encoding; a field is cut out of them and may begin or end inside a character.
`DecodeField`, `DatetimeReading`, `ProjectRule` and `ParsePayload` translate
`packetProtocol.ts`, `PythonDecode`, `CoerceParameterValue`, `TimestampToDatetime`,
`PythonProject` and `PythonParse` translate `parsing.py` and `projection.py`; the
generator, the drafts of the editor and the mapping of the catalog are the rest. The
ranges of numbers and dates are constants, so that small literals reach them.

The codec has no state. A behaviour of `PacketAgreement` chooses one input: drafts for a
schema and a gap byte (`Compose`), a payload as a gateway sends it (`Receive`), or a schema
that is opened in the composer (`Open`). Three differences are
inside the statement of `DecodersAgree`: `str.strip` removes U+001C to U+001F, `TextDecoder`
drops a leading byte order mark, and `projection.py:135` divides milliseconds by 1000 as a
float, which `datetime.fromtimestamp` rounds to microseconds. Up to 2^33 seconds
(`MaxExact`, in the year 2242) the reading is the very millisecond that was sent; beyond,
it may be off by some microseconds (10000000000001 ms is read as ...40.000999), by 15 at
the end of the calendar, which the simulator does not show. So `TimestampToDatetime` is in
microseconds, and `SameTime` asks for the same time up to `MaxExact` and for one whose
nearest millisecond is the same beyond. Three more are outside the model:
`int()` refuses more than 4300 digits, the generator counts 64 KiB in bytes and the server
65536 characters, and the device timestamp, which only the frontend shows.

`InputsAssumption` says that the schemas passed `full_clean` (`SchemaClean`, with the
constraints of the tables, `PayloadField.clean` and `ProjectionRule.clean`; `Configuration`
shows that they stay clean), that texts are made of the alphabet and payloads have no half
surrogates, and that the browser's time is a date. `LimitsAssumption` orders the limits as the
real ones are: any date in milliseconds is a safe integer. `RoundingAssumption` says of the
float (the constant `Microseconds`) what is said of it above; that IEEE doubles and Python's
rounding satisfy it was computed, not proved. `MCPacketAgreement` has a float of 13 bits. `EditorStartsValid` has a
condition that the proof brought up: the button that fills in the current time writes it in
the unit of the first rule that reads the field, and a field may be read in milliseconds by
its first rule and in seconds by another, which then refuses the draft. Nothing in the
repository promises otherwise, so that the property says so, and a schema of
`MCPacketAgreement` has such rules.

### PacketSimulator

A receive is an asynchronous function: `runs` holds those that wait for one of their four
timeouts, with the arguments they were called with. `Continue` is the code between two
timeouts, `Finish` the last part. A receive is the page's own while its number is
`runRef`; `ClearSession`, `Leave` and `Retry` take the next number, and the receive ends
at its next timeout. `Tick` is the interval of the stream; its first receive is part of
`ToggleStream`, whose effect sends at once. Handlers of controls carry the
`disabled` attribute of the control as a guard (`Idle`, `CanReceive`). `Generate` and
`Parse` are constants: the proofs assume of them what `PacketAgreement` checks
(`CodecAssumption`), and `MCPacketSimulator` compares its tables with `PacketCodec`.

### Management, AdminWorkspace, ModulePage, Administration

The server is `rows` and `tokens`, each row with the number of the write that left it and
the visit that made it; a visit is one mount of a page. `calls` are the calls under way.
`Serve` and `Fail` answer one in any order, `Fail` also after it took effect (a lost
answer); `OtherAdministrator` writes at any time. The snapshot is one step, though the
server runs thirteen queries without a transaction.

`AdminWorkspace` has one action per handler: `Refresh`, `SelectResource`, `Open` (four
kinds of editor), `CloseEditor`, `Submit`, `IssueGatewayToken`, `CloseToken`; what follows
an `await` is `MutationArrives`, `TokenArrives` and `LoadArrives`. A save is followed by a
load in the same function (`reloadAfterMutation`), and the dialog closes after it. The
dialogs are modal, so no handler behind them runs (`Modal`), and loads of the workspace
never overlap. `ModulePage` closes its editor before it loads, keeps old data meanwhile
and mounts its dialog with whatever is selected (`Render`): its loads may overlap
(`overlapped`). `Administration` puts both under the route; leaving a page aborts its
first load and nothing else.

A save whose answer was lost may be repeated, over its own unconfirmed write; both pages
do that. One that takes effect after its caller was told of a failure is a write of
`OtherAdministrator`. A body that breaks off after its headers is no failure to
`apiRequest`: after an edit nobody reads it, after a rotation the missing token throws in
the caller, which is `Fail` after `Serve`. A snapshot that breaks off is left out, so the
properties of these pages are about snapshots that arrive whole. Notices and their timers, search and sorting are left out.

### ResourceForm

One table of fields (`FieldsOf`) stands for the five switches over resources in
`resourceForms.ts`. `Change` is `updateFormDraft` with the fields it clears (`Dependent`),
`Offered` the options that `getFormFields` computes from the draft and the snapshot,
`Errors` and `Payload` are `buildFormPayload`. A unit that is marked as required but not
enforced, the codec of a field against a parameter's type, and uniqueness are left to the
server, by the code as by the model.

`SnapshotAssumption` says what the form may rely on: the records have the types that the
server's models declare, their foreign keys exist and their rules are clean (which the run
`config` and `ConfigurationProofs` show of the server), and integer constants are written as
the API writes them. What is typed may be any numeral that `integer` and `parseConstant`
take, with leading zeros or as -0; `NumberOf` is JavaScript's `Number`. The snapshot of `MCResourceForm`
satisfies it. A unit of blanks is stored as it is and is sent back as no unit, so
`EditKeepsTheRest` promises a unit only up to that.

### BrowserSession, OverviewPage, BrowserTab

A call of `BrowserSession` waits for a CSRF token, is sent, and is answered, or breaks off
after its headers (`BodyBreaksOff`), which `parseResponse` turns into an undefined
answer. `MeOver`, `LogInOver`, `LogOutOver` and `SaveOver` are what the callers do then.
`Elsewhere` is another tab or the end of the session. `AppShell.tsx:28-34` mounts two
accounts, and the width of the window says which one is shown. `LogOut(a)` is guarded by its own
`loggingOut[a]` only, so a second logout may be sent while the first one is under way; a
success unmounts both, and the other call goes on (`LogOutOver`). Four history variables say
what happened that the tab cannot know of: `disturbed`, `crossed` (a token that was fetched
before a login arrived after it), `truncated` and `overtaken` (a login was sent while a
logout was under way).

`OverviewPage` has one effect, `Effect`, that aborts the load before (`Aborted`) and asks
for the selected device and range; a first load without a device learns one from its
answer and loads again (`DashboardArrives`). A load has its headers or not when it is
aborted. `BrowserTab` unmounts the page when the session ends and mounts it anew for the
next user.

## 3. Runs

| Run | Asks | Result |
|---|---|---|
| `racing` | two threads, two conflicting envelopes of one message id, 2 edits at any time, 1 crash or failed lock: what is stored and answered, and the refinement | holds |
| `recovery` | fair threads, persistent gateways, 1 edit between requests, 1 fault: `Recoverable`, `Provenance`, `ExactRetryAccepted` | holds |
| `deploy_faults` | three pushes, three runs, three faults, among them a backend that does not start or stops: `ImagesTrue`, `DoneIsLive`, `UpgradeBackedUp` | holds |
| `deploy_operator` | a run started by hand, two faults: `OneAtATime` | holds |
| `deploy_quiet` | no failures, all kinds of requests, fair runs: `NoOpWhenCurrent`, `StartedIsDeployed` | holds |
| `config` | all edits and telemetry in any order: four invariants and `UsedIsFrozen` | holds |
| `codec` | thirteen schemas, all drafts and payloads over the alphabet: four invariants | holds |
| `simulator` | three schemas, three receives or cancellations, a history of two: three invariants and `StreamDelivers` | holds |
| `administration` | two visits, four calls, two writes, one gateway and one user: four invariants and `DialogsRelease` | holds |
| `forms` | every resource, new or edited, three to five changes: three invariants | holds |
| `tab` | two users, two logout buttons, two devices, two ranges, four calls and three loads: four invariants | holds |
| `aborted` | `AbortedIsIgnored` on the instance of `tab` | violated |

Properties:

- `ReadingsComplete`: a processed event has exactly one reading per parameter its
  schema writes, all from one transaction; any other event has none.
- `AnswersAgree`: a 200 or 201 quotes the processed event of the very envelope sent.
- `ProcessedIsFinal`, `EvidenceKept`, `ReferencedIsFrozen` (step properties): a
  processed event and its readings never change; a stored envelope never changes and
  its device and schema are filled in at most once; no edit changes what an event
  refers to.
- `KeepsPromise`: the refinement of `IdempotentIntake`.
- `Provenance`: device and schema of a processed event are the ones its envelope
  names, and under that schema its payload projects.
- `ExactRetryAccepted`: 409 only for an envelope that differs from the stored one.
- `Recoverable`: if the configuration accepts an envelope from some time on, its
  message id gets processed, or belongs to another envelope.

- `OneAtATime`: runs of the receiver never overlap.
- `ImagesTrue`: an image was built from the commit it is tagged with, although checkout,
  `.env` and image change one after the other.
- `DoneIsLive`: a run that succeeds leaves its checkout, at least what it fetched, live.
- `UpgradeBackedUp` (step property): containers are replaced only after a backup since the
  last deployment that a run found healthy, also when an upgrade has left a backend that
  crashes and is not backed up itself; unless the healthy deployment was `missed`.
- `NoOpWhenCurrent`: a run says "nothing to do" only when its checkout is live.
- `StartedIsDeployed`: a push answered with "deploy started" gets deployed.

- `FieldsStayClean`, `RulesStayClean`: stored schemas, fields and rules pass their own
  validation again, whatever was edited since; no event can fail because of a
  configuration that was accepted and has become inconsistent.
- `ReadingsStayClean`: the rule, the parameter's type and the assignment that a reading
  was checked for stay.
- `NothingDangles`: no visualization, assignment, tab or event refers to a deleted row.
- `UsedIsFrozen` (step property): what decodes and projects the events of a schema - its
  row, the code of its event type, its fields, its rules, the types of their
  parameters - does not change once the schema has an event.

- `DecodersAgree`: what the simulator's decoder accepts the server accepts, with the same
  readings, and the other way round, under the catalog as the server serialises it and the
  frontend reads it; but for the three known differences.
- `GeneratedIsAccepted`: a generated packet has the length of its schema, and the server
  reads from it the values that were typed.
- `ReplayRestores`: the texts that are read back from a generated packet are the drafts it
  was generated from.
- `EditorStartsValid`: every schema passes the catalog, and the drafts it starts with, or
  with an offered truth value or the current time filled in, generate a packet; only a
  schema of which no packet is ever processed is refused, or one beyond the size limit.

- `OneReceiveAtATime`: at most one receive belongs to the page, `busy` and `busyRef` are set
  exactly while there is one, and the strip shows its phase.
- `HistoryIsCoherent`: receipts are numbered without repetition, newest first, and panel,
  strip and composer speak of one of them.
- `ReplayIsFaithful`: a receipt that is selected can be received again and reads the same,
  whichever gap byte is set.
- `StreamDelivers` (liveness): a stream goes on delivering until somebody stops it, and no
  receive leaves the page busy.

- `WorkspaceIsFresh`: a workspace at rest shows data at least as new as every write the
  server confirmed to it, and an edit is never based on a row older than that.
- `EditorIsTold`: an error belongs to the editor that is open, a busy editor waits for its
  own call, and no call outlives the editor that made it.
- `ShownTokenWorks`: the token in the dialog is the gateway's, unless somebody else rotated
  it since.
- `ModuleShowsItsSaves`: a module page at rest whose loads never overlapped shows its own
  saves; a dialog's draft is of the record that will be saved.
- `DialogsRelease` (liveness): no dialog and no page stays busy or loading.

- `NoStaleChoice`: no select holds what it does not offer, unless the record came with it.
- `EditKeepsTheRest`: an edit sends back what was not touched, through draft and parsing.
- `SubmittedIsClean`: a rule, chart or field that the form lets through passes those checks of
  the server's models that a form can know.

- `OnlyLogoutsOverlap`: of the calls that restore, open or close a session only logouts
  overlap, with each other or the next login, and whoever waits has a call under way.
- `TabAgrees`: user and CSRF token of an idle tab are those of its cookies, unless another
  tab, a broken body or a crossed token came between; a login that overtook a second logout
  may have lost its session.
- `ReadyIsCurrent`: a dashboard that is ready answers what is selected, one that is loading
  waits for a load, unless the selected range was pressed again.
- `ShownDataIsMine`: a dashboard that is shown is its user's.
- `AbortedIsIgnored` (step property, violated): a load that was aborted changes nothing.

### Findings

*An aborted answer is taken for a dashboard.* `parseResponse` (`http.ts:46-50`) catches
whatever `response.json()` throws, an `AbortError` included, and returns `undefined`, which
`apiRequest` returns as if it were the answer (`http.ts:148`). `OverviewPage.tsx:57-62`
means to ignore an aborted load. If the range or device changes while the body of an answer
is read, its `.then` runs with `undefined`: without a device the page shows an error, with
one it fails to render, and as there is no error boundary the application is unmounted.
Run `aborted` shows it; the properties of `tab` are stated of a page that is `Intact`.

### Known disagreements

Statements of the documentation and the comments that the code does not keep, which came up
while modelling and which no property states. The first two hold between requests (run
`recovery`), the third without failures (run `deploy_quiet`).

1. ADR-001: "Schema versions and projection provenance explain historical readings". Until
   the event is inserted nothing protects the schema the request resolved. An edit of the
   schema between the lookup and the insert leaves an event processed under a schema with
   another version or length than its own.
2. `docs/ingest-api.md:216-217`: an exact retry "returns 200 ... Retrying is always safe".
   `_assert_same_envelope` also compares the rows the two requests resolved; a retry that
   resolved before the other thread's rows existed is refused with 409.
3. `deploy/README.md:50`: an attempt "no-ops when already current". The script compares the
   checkout with GitHub and pulls before it builds. After a run that failed in between, the
   new commit is checked out and not live, and every further run does nothing until the
   next push.
4. `webhook-receiver.py:9`: the script is copied "to a unique file before execution". The
   name holds the second and the process id of the receiver; two pushes within one second
   share a copy, which the first run removes before the second one starts.
5. `backend/README.md:200-201`: visualizations select a "numeric/datetime Y-axis. Boolean
   parameters are not chart axes". Assignments are guarded by rules only, and types of
   parameters by rules and readings only, so a visualization keeps an axis that is no
   longer assigned or is now a string or boolean. The dashboard skips the readings of such
   a parameter and shows an empty chart.
6. `deploy/README.md:11-13`: the script "takes a consistent SQLite backup". It looks whether
   a backend is running and skips the backup if not (`auto-deploy.sh:39`). A healthy
   deployment whose backend has stopped by itself, or is just being restarted, is upgraded
   without one; and so it is when `docker compose ps` fails, since a command that fails
   within a test does not end the script.

Smaller ones: a failed event freezes the very schema that rejects it (`UsedSchemas`), so
that "reprocessing stays possible" (`ingest-api.md:142-143`) is true only of missing rows; a
422 `invalid_request` stores nothing, although `ingest-api.md:191-192` does not except it; a
manual trigger (`deploy/README.md:49-50`) has no `ref` and is ignored (`Verdict`); the
receiver takes the lock, not the script, so a script started by hand overlaps the others
(`BeginDirectly`). In the browser: the second of two logouts may reach the server after the
next login and end that session behind the tab's back (`overtaken`); pressing the selected range leaves the dashboard
loading without a request (`pressedAgain`); a CSRF token that was fetched before a login may
arrive after it, and the tab's mutations are refused until it is loaded again (`crossed`);
an answer to `/auth/me` or to a login that breaks off leaves a tab signed in without a user,
which renders nothing (`truncated`); a detail on a module page can be edited from data that
a reload under way is about to replace.

### Bounds

- Two threads: the races are between the reads of one thread and the writes of
  another; a third adds no new pair, and the proofs cover any number.
- One message id with two envelopes, of which one decodes (`good`) and one does not
  (`bad`); messages do not interact except through the database lock and the
  freezing of configuration rows.
- One device and one schema key, which start absent or live; device types with and
  without the parameter; two versions, two local ids and up to two lengths, so that an
  edit can make a row match, stop matching, or reject a payload.
- `MaxEdits` 2 while requests run and 1 between them, `MaxFaults` 1. Two edits make a row
  appear and change; one completes a configuration that an event failed under. The
  bounds are guards of `EditRegistry`, `Crash` and `DatabaseLocked` and the proofs
  hold for all of their values.
- Threads are symmetric in the runs without liveness.
- Deploy: two or three runs and pushes, so that a run can overtake another one between
  its fetch and its pull, and a third can wait for the lock; `MaxFaults` 2 next to a
  run by hand, one failure to leave a state behind and one to meet it, and 3 in
  `deploy_faults`: an upgrade whose backend fails, the next one, and one more before the last. Its runs do not check for deadlock:
  when everything is pushed and every run has ended, the system rests.

- Configuration: two event types, codes, device types, parameters, schemas, fields and
  rules, one tab and one visualization, with up to `MaxRows` = 8 rows at a time in all
  tables together. A rule that reads a field needs seven rows (event type, device type,
  parameter, assignment, schema, field and itself); the eighth is a second row of any
  table, to which the first can be moved or with which it can collide. Telemetry is not
  counted. One expected length (or none) and three byte ranges make fields fit, exceed and overlap.
- Codec: fields of up to five bytes with every codec, rules of every type and source, all
  payloads of up to three or four characters, and the words for truth values. The limits of
  integers and dates are two or three digits long so that literals lie on both sides; of the
  dates beyond `MaxExact` = 639 some are rounded, and without the exception the run fails.
- Simulator: `MaxRuns` = 3 receives and cancellations, so that one is cancelled while it
  waits and the next one starts before it wakes; `MaxHistory` = 2 of the code's 8, so that
  the history overflows. One schema has a timestamp and a gap, one a text, one no device.
- Administration: `MaxCalls` = 4 is a first load, a save, its reload and one more, or two
  visits with a call each way; `MaxWrites` = 2 is one's own write and somebody else's;
  one record that exists and one that does not, of two resources.
- Forms: `MaxChanges` 5 for rules and charts, whose chains of dependent selects have four
  links, 4 for fields, 3 otherwise. The form sees one snapshot, which holds rows of every
  kind and a chart whose axis was unassigned.
- Tab: `MaxCalls` = 4 is restore, a logout or two and the next login, or a login and a save
  across it; `MaxSecrets` = 2 one login; `MaxLoads` = 3 a first load, the one with its device
  and one for another choice. Once the fourth call is sent, the constraint `Bounded` follows
  behaviours with one load at most: the session does not depend on loads, and the dashboard
  meets every other order of calls with all of them. The two accounts are symmetric. One user sees two devices, the other none.
- The bounds stop the system, so these runs do not check for deadlock; that nothing waits
  for ever is said by `DialogsRelease` and `StreamDelivers`.

### Fairness

`FairSpec` assumes that a live thread goes on (`WF` of `Serve(w)`: threads are
scheduled by the operating system and every request is handled to its end) and that
a gateway sends each envelope again and again (`SF` of `Receive` for that envelope:
the reaction to an error that `ingest-api.md` prescribes; strong, because the threads
may be busy when it tries). Nothing is assumed of edits, crashes or locks; their
number is bounded.

In `Deploy`, `FairSpec` assumes `WF` of `Step(r)`: no command of a run hangs, and a run
gets the lock once nobody else holds it. `flock` is not a queue, but a push starts one
run, so a waiting run competes with finitely many others. Pushes, requests, failures and
the clock are not fair.

In `PacketSimulator`, timeouts fire (`WF` of a receive's next part) and so does the interval
of a stream (`WF` of `Tick`). In `Administration`, every call is answered or fails (`WF`,
one condition per call: browsers and proxies give up on a server that is silent) and an
answer is handled (`WF`: the event loop). Nothing is assumed of users and other
administrators. `BrowserTab` needs no fairness.

## 4. Proofs

`IngestionProofs` proves, for all values of the constants that satisfy the `ASSUME`s of
`Registry` and `Ingestion`, that `Spec` implies the type invariant, all the safety
properties checked by `racing`, including the refinement, and two more: no stored event
refers to a deleted row (`ReferencesExist`), and a message id is answered with 201 at most
once (`AtMostOneCreated`). The assumptions say that
the constants have their types, that `Null`, `Absent` and `Deleted` are no rows, and
that a layout whose fields reach beyond a payload does not decode it.

None of the invariants is inductive alone. The inductive invariant is

    IngestionInv == TypeInv /\ Orderly /\ ReferencesExist /\ ReadingsComplete
                    /\ AnswersAgree /\ CreatedOnce /\ AtMostOneCreated

- `Engaged` (in `TypeInv`): a busy thread has an envelope, and one that is processing
  has its event stored. Needed to type `event[Message(w)]`.
- `Orderly`: only an answered request has a code, and a processed event has device and
  schema. With it `ReferencesExist` says that the schema of a processed event is live.
- `CreatedOnce`: the thread that inserted an event is the only one with its `created`
  flag, and no 201 was answered before. This is what `AtMostOneCreated` needs: the
  flag is taken by an insert, which happens once, and lost with the answer.

The argument: every step writes telemetry (`InsertEvent`, `CommitReadings`,
`CommitFailure`), edits the configuration, or leaves both alone (`StepKinds`). An edit
cannot touch a row an event refers to (`EditFreezes`), so `ReadingsComplete`, which
speaks of the schema *as it is now*, survives it. A commit happens only when the event
is not processed, so it finds no readings of the message and the unique key never
bites. Responses quote a processed event, and a processed event never changes
(`ProcessedStable`). The refinement follows from the same invariant, action by action.

The module also proves `Provenance` (`ReadingsExplained`) and `ExactRetryAccepted`
(`RetryNeverRefused`) under the hypothesis `QuietConfiguration`: no edit is made while a
request is in flight (known disagreements 1 and 2 show what happens otherwise), and the
tables start with unique keys. To `IngestionInv` it adds

    QuietInv == QuietConfiguration /\ DeviceKeysUnique(device) /\ SchemaKeysUnique(schema)
                /\ Fresh /\ Recorded /\ Projected /\ Refused

- `Fresh`: what a request in flight has resolved, and what it failed to find, is what the
  tables still say. Only an edit could break it, and edits wait.
- `Recorded`, `Projected`: device and schema of an event are those its envelope names, and a
  processed one projects. A fresh request stores nothing else, and what is stored is frozen.
- `Refused`: who was answered 409 sent another envelope than the stored one. A request that
  finds its own envelope resolved, by the unique keys, the very device and schema that are
  recorded with it, or one the event still lacks (`OwnEnvelopeAccepted`).

`DeployProofs` proves, for any number of runs, pushes and failures, the type invariant
and `OneAtATime` (`MutualExclusion`); and, if `DirectRuns` is empty, `ImagesTrue`
(`TagsTellTheTruth`), `DoneIsLive` (`SuccessIsLive`) and `UpgradeBackedUp` (`NoUpgradeWithoutBackup`). The
assumption is needed: a run without the lock can change the checkout between another
run's commands. The inductive invariants:

- `HoldsLock`: a working run of the receiver is the one that `lock` names.
- `Staged`: what a run has set by the time it reaches a command, `tag = head` from the
  build on and `live = head` after the start of the containers. It is kept because only
  the run at work changes any of it, which is mutual exclusion again.
  In the same way there is a backup since the last healthy deployment (`BackedUp`) from
  the look at the backend to the start of the containers.
- `Ordered`: commits become checked out, live and healthy in the order of their numbers.
- `Covered`: there is such a backup already, or what was found healthy is live with its
  backend running, so that the look will find it. A failed upgrade keeps this, because it
  has passed a look; a backend that stops by itself does not, hence `missed`.

`ConfigurationProofs` proves, for tables of any size, the type invariant, the four
invariants of `config` and `UsedIsFrozen`. The inductive invariant `ConfigurationInv` is
their conjunction with `Evidence`: a reading's schema has a stored event. They need one another:
a projection writes readings of the right type because its rules are clean; rules and
readings survive because the schema of every reading has an event, and what such a schema
consists of does not change (`UsedKept`), for which in turn parameters of rules must
exist. `FieldsKept` and `RulesKept` say which tables the two invariants depend on, and
dispose of all other actions at once.

`BrowserTabProofs` proves `OnlyLogoutsOverlap`, `TabAgrees`, `ReadyIsCurrent`, `ShownDataIsMine` and
the type invariant for any users, accounts, devices, ranges and numbers of calls and loads, from
`SessionAssumption` and `OverviewAssumption` (the constants have their types and the special
values are no users or dashboards). The inductive invariant is

    TabInv == SessionInv /\ OverviewTypeOK /\ Owned /\ Current

- `SessionInv` holds the session together: its type, `Separate` (`OnlyLogoutsOverlap`,
  and a login next to a logout has `overtaken` it), `Cookies` (user and cookie differ only by an answer that
  is on its way or by a logout that was overtaken, unless they were disturbed) and `Tokens` (a token
  that is kept or carried is of the present secret, unless it crossed a login). `TabAgrees`
  speaks of an idle tab only; the two parts say what it will be told.
- `Owned`: dashboard and loads belong to the user who is shown, since the page is
  unmounted with the session and no load survives that.
- `Current`: at most one load is not aborted, it asks for what is selected, and if a ready
  dashboard has none under way it answers the selection itself. This is where `Aborted` matters.

`PacketSimulatorProofs` proves `OneReceiveAtATime`, `HistoryIsCoherent`, `ReplayIsFaithful` and
the type invariant for any catalog and history. The inductive invariant is

    Inv == TypeOK /\ Genuine /\ OneReceiveAtATime /\ HistoryIsCoherent

where `Genuine` says that every receive carries a payload that the generator made for its
schema and a device that fits, and every receipt what the parser made of such a payload. With it `ReplayIsFaithful` follows
from `CodecAssumption`: what is generated is parsed, and its raw values generate, with any
gap byte, what parses the same. That is an assumption about operators of `PacketCodec`, and TLC evaluates it in the run
`simulator`. `PacketAgreementProofs` proves what it rests on, for every clean schema and for
drafts without a byte order mark in front: `Generated` and `Replay`, and `AnyGap` for
the gap byte. The other assumptions type the constants, say
that a set of places in a catalog has a first one, and that `Null` is no receipt.

`AdministrationProofs` proves `WorkspaceFresh` (`WorkspaceIsFresh`), `EditorTold`
(`EditorIsTold`), `TokenWorks` (`ShownTokenWorks`), `ModuleShows` (`ModuleShowsItsSaves`) and
the type invariant for any records, resources and sections and any numbers of calls, visits
and writes. `NullAssumption` says that `Null` is no token dialog and `FirstAssumption` that
the resource and section a page starts with exist. The inductive invariant `IInv` has four
kinds of parts:

- `ServerInv`, `NetworkInv`: what the tables and the calls are. A snapshot is `Behind` the
  server: where it differs from the rows, the row was written after it was taken. Nothing
  else is known of an answer on its way while other administrators write.
- `WorkspaceCalls`: the workspace has one call under way at most, and every busy flag, dialog
  and error says which (`WaitedFor`). Loads cannot overlap because the dialogs are modal.
- `WorkspaceFreshness`: what was loaded, or is on its way and will be shown, is at least as
  new as the last write the server confirmed; the record an editor was opened on is the
  present row, or somebody wrote it since. `TokenWorks` is kept alike: a token is only
  replaced by a later write, and not by this visit as long as it is shown.
- `ModuleCalls`, `ModuleFreshness`: one save at a time, and while no loads have overlapped
  one load, begun after the save it must show.

`ResourceFormProofs` proves `ChoicesStayOffered` (`NoStaleChoice`), `RestIsKept`
(`EditKeepsTheRest`) and `OnlyCleanIsSent` (`SubmittedIsClean`) for any snapshot that
satisfies `SnapshotAssumption`, any typed texts, and any number of changes.
`NumeralAssumption` says that a number that is written is read again and has no blanks around it. The inductive invariant is

    FormInv == Shape /\ Closed /\ Untouched /\ Locked /\ Chosen /\ Ready

- `Closed`: what depends on a touched field is touched. So what an untouched field depends on
  is untouched as well, and an untouched rule is as clean as the record.
- `Chosen` is `NoStaleChoice` without its `Asked`: a select that is hidden and shown again
  must not bring back a choice. A change leaves alone what the other selects offer
  (`ReadsAreKept`, `OfferedReads`), clears them, or concerns the two axes of a chart, each of
  which leaves out the other's value (`AxisStays`).
- `Untouched`, `Ready`: an untouched field still shows the record, and what is being saved is
  what the form says now. `EditKeepsTheRest` then goes by the kinds of fields (`NumberKept`,
  `ConstantKept`), `SubmittedIsClean` by the resources (`RuleClean`, `ChartClean`, `SpanClean`).

`PacketAgreementProofs` proves the four invariants of `codec`: `DecodersAgree` (`Agreement`),
`GeneratedIsAccepted` (`Generated`), `ReplayRestores` (`Replay`) and `EditorStartsValid`
(`Editor`), and that the gap byte changes nothing of what is parsed (`AnyGap`), for clean schemas with any number of fields and rules, texts of any length over any
alphabet that has the ASCII characters, and any limits. The specification takes one step, so its invariant is
just that the input is one of those offered (`Inputs`); the work is in the operators.
They compute over sequences, and the provers cannot instantiate an induction rule over a
predicate. `Induct` and `TextInduct` state induction for a *set* of naturals or texts instead,
and follow from the well-foundedness of the naturals (`WFMin`); each inductive lemma names the set
for which it holds. Recursive functions are unfolded once and for all by `Recursion`,
`FlattenIs`, `MagnitudeIs` and `NumeralIs`. On these rest:

- Texts: encoding is a homomorphism and injective, decoding undoes it and accepts nothing
  else (`DecodeEncode`, `DecodeOk`), a segment of an encoded text that is ASCII is the same
  characters. Numerals read back as their number (`NumeralRoundTrip`). Both strips leave the
  same word of a text without U+001C (`SameToken`).
- `DecodersAgree`: the decoders agree on a field (`FieldsAgree`), so do the projections on a
  rule and its value as the catalog sends it (`CatalogIs`, `ReadingsAgree`), hence on the whole
  payload (`PayloadsAgree`). That the browser's numbers lose nothing is `CalendarSafe`;
  of the server's `RoundingAssumption` is used, in `StoredIs`.
- `GeneratedIsAccepted`, `ReplayRestores`: the assembled bytes have the length of the schema and
  each draft where its field is, because fields do not overlap (`AssembleIs`); what is
  generated encodes exactly those bytes, or its own parser would have refused it (`GeneratedIs`).
- `EditorStartsValid`: a draft is `Proper` if it is ASCII, as wide as its field, and has a
  value that all rules of the field accept. Proper drafts generate a payload
  (`ProperGenerates`), and all drafts the editor starts with or offers are proper
  (`DefaultProper`, `OptionsProper`, `TimeProper`).
- `AnyGap`: one-byte characters may be exchanged in a text (`Refill`), and what is parsed depends
  on the segments of the fields only (`SegmentsDecide`).

What stays with TLC: the liveness properties (`Recoverable`, `StartedIsDeployed`,
`StreamDelivers`, `DialogsRelease`), which rest on fairness, and `NoOpWhenCurrent`, which holds
only without failures.

## 5. Not modelled

- Creating, renaming and deleting gateways and companies: single validated saves. `Ingestion`
  has one gateway that exists, and its rows are in `Management` like those of any resource.
- The login throttle (`config/security.py`): an unlocked read, append and write of a list in
  a per-process cache. Attempts that interleave lose an entry; nothing in the repository
  says how many attempts may pass.
- Tenant visibility and dashboard queries: filters and aggregates inside single queries,
  with no sequence of steps of their own. Their outcome appears in `OverviewPage` as the
  devices a user sees.
- Demo data: one transaction of get-or-create steps, run by hand.
- Presentation: charts, tables, formatting, notices, translations, styling, the byte map and
  the curl command of the simulator.
- Configuration of containers and the web server, migrations and generated files.
