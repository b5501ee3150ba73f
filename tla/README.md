# A verification of Janus

Janus is a platform that routes chat requests to language models: a **control
plane** (`services/api`) keeps accounts, conversations, files, knowledge bases and
agents in Postgres; a **model gateway** (`services/gateway`) chooses a deployment
for every request under the caller's policy, calls it, falls back, and records
what was decided and used; a browser client (`apps/web`) talks to the control
plane. Both services are asyncio programs; the control plane runs on any number
of instances.

This directory holds TLA+ specifications of the parts of Janus that carry its own
logic, TLC configurations that check them on small instances, and TLAPS proofs of
what matters most for every value of their parameters. Line references are to
the files under `src/`; `PROJECT.json` maps every definition to the lines it
stands for.

## 1. Inventory

| Component | State it keeps | Operations | What is hard | What makes it correct |
|---|---|---|---|---|
| **Policy** (`janus_schemas/common.py`, `routers/chat.py`, `router/resolver.py`) | none | combine the caller's mode and classification with the request's; hard filters | modes are ordered by a number but not nested | nothing forbidden is called |
| **Health tracker** (`gateway_app/health.py`) | state and consecutive failures per deployment; the probe loop's position | record success / failure / probe; seed; probe pass | a probe's answer is recorded after an await; two writers | probes never outweigh failures; nothing is evicted early |
| **Gateway** (`resolver.py`, `scoring.py`, `execution.py`, `telemetry/writer.py`, `registry/service.py`, `main.py`) | catalog snapshot, requests in flight with a chain of candidates, two telemetry tables | arrive, call, fall back, stream, record, reload, probe, start | the chain is fixed at resolution; failures after the first token; two transactions; retried request ids; clients that leave | one deployment per answer, permitted, charged once and only after it answered |
| **Conversations** (`conversations.py`, `routers/conversations.py`) | a row per conversation (count, title, mode, deleted), a row per message | send, regenerate, rename, narrow, delete | any number of handlers and instances, READ COMMITTED, reads before a row lock | an append-only numbered log; settled prompts |
| **Chat runner, cancellation** (`chat_stream.py`, `cancellation.py`) | the collected answer; the in-process registry | relay, finalize (shielded), cancel, expire | disconnects at any await, crashes, a failing database | relayed turns end, keeping every word; cancellations reach the running turn only |
| **SSE decoder** (`sse.py`) | a buffer, pending bytes | feed | frames and characters split over reads | the same events however the bytes are cut |
| **Rate limiter** (`rate_limit.py`, `redis_client.py`) | a queue of admissions per instance and organization, or a Redis counter per organization and minute | allow | two kinds of window; a request counted in the minute after its own; lost commands | at most the limit in a window; nobody limited for others |
| **Attachments** (`routers/attachments.py`, `storage.py`, `conversations.py`) | rows, and objects outside the database | upload, bind to a message, download, delete | object store and transaction are not atomic; a delete that has read the row before a send binds it | bytes behind rows; a message carries all its files |
| **Identity** (`identity.py`, `deps.py`, `routers/auth.py`, `routers/organizations.py`) | users, organizations, memberships, sessions, API keys, audit events | register, sign in and out, switch, add a member, issue, use and revoke keys | principals resolved before, and in another transaction than, the handler's; two connections at once | nobody without a tenant, nobody registered twice; only admins administer; what has ended stays ended |
| **Knowledge** (`knowledge.py`, `routers/knowledge.py`) | bases, documents, chunks, citations | create, ingest, upload several, search, retrieve for a chat | checks before inserts; locks held file by file; READ COMMITTED statements | a stored document is whole and counted once; citations stay at home |
| **Agents** (`agents.py`, `routers/agents.py`) | agents, runs, steps, checkpoints | create, publish, run | failures in the middle; bases named by anybody | a run ends with a status that fits its steps |
| **Adapters** (`backends/*`) | connections | generate, stream, embed, health | errors of other services | errors are classified as retryable or not |
| **Loader, inference, cost, packages, web, infrastructure** | configuration or none | parse, forward, render | none that is concurrent | |

How they meet: a message goes from the browser to a *send* handler, which reserves
its place under the row lock, asks the gateway to embed its text, commits,
and starts a `ChatRunner`; the runner relays the gateway's stream and copies it
into the message's row. In the gateway the request is resolved against the
snapshot and the tracker, and its outcome is reported to the tracker, which the
probe loop writes as well. The two services share no memory: each is the
environment of the other, and each is modelled with the other free to do anything
its interface allows.

The hazards of the code, each at its line and with the properties aimed at it, are
listed in `PROJECT.json` under `hazards`.

## 2. Modules

| Module | Models | Uses |
|---|---|---|
| `Policy` | modes, classifications, hard filters | |
| `Health` | `HealthTracker` and the probe loop | |
| `HealthProofs` | theorems about `Health` | `Health`, `TLAPS` |
| `Answers` | abstract: what the gateway promises the caller of a request | |
| `Gateway` | snapshots, resolver, executor, telemetry, start-up | `Policy`, `Health`; implements `Answers` and `HealthSpec` |
| `GatewayProofs` | theorems about `Gateway` | `Gateway`, `HealthProofs`, `TLAPS` |
| `Transcript` | abstract: a conversation as an append-only log | |
| `Chat` | handlers, runner, cancellation registry of one conversation | `Policy`; implements `Transcript` |
| `ChatProofs` | theorems about `Chat`, and that it implements `Transcript` | `Chat`, `SequenceTheorems`, `TLAPS` |
| `Cabinet` | abstract: files that are filed, taken by a message, removed | |
| `Attachments` | upload, bind, download, delete; rows and the object store | implements `Cabinet` |
| `AttachmentsProofs` | theorems about `Attachments` | `Attachments`, `TLAPS` |
| `Access` | accounts, sessions, organizations, members, keys, audit log, the pool of connections | `Policy` |
| `AccessProofs` | theorems about `Access` | `Access`, `FiniteSetTheorems`, `TLAPS` |
| `Chunking` | how a text is cut, as a function | |
| `ChunkingProofs` | theorems about `Chunking` | `Chunking`, `WellFoundedInduction`, `SequenceTheorems`, `FiniteSetTheorems`, `TLAPS` |
| `Library` | knowledge bases, ingestion, retrieval, citations, agents and their runs | `Chunking` |
| `LibraryProofs` | theorems about `Library` | `Library`, `ChunkingProofs`, `FiniteSetTheorems`, `TLAPS` |
| `Limiter` | admission at the gateway, with Redis and without | |
| `LimiterProofs` | theorems about `Limiter` | `Limiter`, `TLAPS` |
| `MCHealth`, `MCGateway`, `MCChat`, `MCAttachments`, `MCAccess`, `MCLibrary`, `MCLimiter` | instances for TLC | |

### Health

`entry` is `HealthTracker._states` (`"unknown"` where there is no entry, which
`state_for` reads as ready), `failures` the consecutive failures, `prober` the
pass of `health_probe_loop`: what is still to be asked, and whom it awaits. Each
`record_*` call runs between two awaits and is one step. `AskDeployment` and
`ProbeAnswers` are the two sides of the await in `probe_once`; any outcomes may be
recorded between them, so that a report can be as stale as it gets. The order in
which a pass asks its deployments is left open (the code uses the catalog's order),
which only adds behaviours.

### Gateway

A request (`request[r]`) carries its phase, ask, chain and position. `Arrive` is
everything from the caller to the first backend call: no await lies between. An
ask abstracts a body and its caller's context: the operation, the two modes and
classifications, the candidate pool its model field names, constraints, needs, and
the scores the requirements and the weight profile give each deployment without
their health term, which the model adds from the tracker. `CallFails`,
`CallBreaks`, `CallAnswers`, `EmbedAnswers`, `StreamEnds`, `StreamBreaks` are the
backend's possible answers, `ClientLeaves` the cancellation of a stream,
`RecordDecision`, `RecordUsage` and `TelemetryFails` the two transactions (either may fail with
its row written, when only the reply to the commit is lost, or be cut off by a cancellation),
`Reload` the internal endpoint, `StartServing` the end of `lifespan`'s start-up.
Chunks after the first are one phase, `streaming`: nothing in the executor depends
on their number.

Assumed: a telemetry database is configured and the caller's organization is known
(otherwise nothing is recorded); an embedding request carries no constraint of its
own, as in its router. Left out: the caller's header may name any request id at any time; here an
id is presented again only when its last answer is over, so that two answers in flight are always of
two ids.

### Answers

Four variables per request: its stage, what was wanted, who answered, what was
charged. `Gateway` maps its phases to stages; health, probes, fallback, reloads and
routing decisions are invisible, so a reload or a fallback must be a stutter, and a
wrong one (an answer continued by another deployment, a charge before an answer, a
charge to somebody else, an answer by a deployment policy forbids) is a step
`Answers` does not have.

### Chat

One conversation, seen by any number of requests on any number of instances.
`thread` and `message` are what Postgres has committed, `lock` the row lock that the
first UPDATE of a transaction takes and its end releases, `handler` the local state
of each request (with `read`, the conversation as it was *loaded*: stale once it has
waited), `active` and `cancelled` the `CancellationRegistry` of all instances. A
message is named after the request that adds it and its role, and its text is the
number of chunks kept.

A send goes `Open`, `Reserve` (under the lock: two sequence numbers, the history, the
embedding call), `CommitTurn` or `Rollback`, `Begin`, `Announce`, `Relay`…, then one
of `StreamEnds`, `GatewayFails`, `ClientLeaves` or a cancelled `Relay`, `Write`
(or `WriteFails`) and `Finish`. The write is shielded: `Finish` may come first when
the client has left (`detached`), and the write follows. `LeavesEarly` is a client
that is gone before the first events have reached it. `Crash` drops an instance with
its transactions, its registry and its pending writes.

Assumed: the organization has a knowledge base that is ready (so a send does call the
gateway to embed); whether an attachment can be bound is the environment's choice and
makes a send roll back; the user and the organization do not change.

### Transcript

A log of entries and a flag. It grows by a question with its open answer, or by an
open answer; an open answer is concluded once; the log of a closed conversation does
not grow. `Chat` maps the committed rows, ordered by their number, to it.

### Cabinet and Attachments

`row` is what Postgres has committed of `chat.attachments`, `object` the files whose bytes are in
the store, which no transaction covers; `upload`, `send`, `removal` and `download` are the local
states of the handlers. An upload goes `Count`, `Put` (or `Refuse`), `Answer`, `CommitUpload` (or
`LoseUpload`): the bytes come before the row, and the client's 201 before the commit
(`deps.tenant_session` commits when the response is out). A delete goes `ReadForDelete`,
`DeleteRow` (which waits for the row, and looks at the id only), `Wipe` or `WipeFails`, `CommitDelete`
or `LoseDelete`. `Bind` is the part of a send that `Chat` leaves to its environment. `Cabinet` is
what a reader of the rows sees: place and carrier of each file.

### Access

`users`, `role`, `default_mode`, `session`, `key` and `audit` are the committed tables (a primary
or unique key is the domain of a function), `request` the principal a request was resolved to and
how far it is. A handler is split where another one can get in: `ResolveSession` and
`RequireMembership` are two transactions before the handler's own (`deps.require_principal`); in that
there is a step that reads, a step that writes (and takes the locks, phase `written`), and the
commit, after the client has its answer. A switch has a step more: `ResolveAgain` reads the session
and takes no lock, `RequireNewMembership` looks for the membership, and `FlushSwitch` is the UPDATE of
the row, which SQLAlchemy holds back until the next SELECT (and leaves out when the organization is
the same). A sign-out (`RevokeSession`), an expiry or another switch may come between any of them:
only from `FlushSwitch` to the commit does a switch hold the row. A session keeps `revoked` (a column
that a write could undo) apart from `expired` (the clock, which none can). `Connected` counts the
connections a request holds: `add_member` needs a second one while it holds the tenant's. A request and what it creates (an
organization, a session, a key) have one name, and each records at most one audit event.

### Chunking and Library

`Chunking` has `chunk_text` as a recursive function on paragraphs and lengths of words; what is in
a word is data. `Library` has the eight committed tables, and `pending[r]`: what the transaction of
request `r` has written, which nobody else sees and `Commit` adds all at once. `WaitsFor` is
PostgreSQL: a writer waits for another transaction's entry in a unique index, or for a base's
row, which `CountDocument` locks until the end of an upload of several files; `BreakDeadlock`
ends one request of a circle. `SearchVectors` and `SearchWords` are two statements, between
which others commit (READ COMMITTED).

Left out, which only adds behaviours: the roles that the creation of a base, an agent or a document
requires. Fixed by the instance: the number of hits a search asks for, which a caller may choose
up to a maximum.

Assumed: the ranking (cosine distance, `ts_rank`) is an environment choice, so that any of the
chunks a request may see can be the nearest; extraction of text from a file is outside, a file
that cannot be read is one without text; whatever the gateway answers to an embedding, there is a
vector (`knowledge.py` falls back to a hash).

### Limiter

`local` are the deques of each instance, `counter` Redis's keys with the time they expire; a
request with Redis reads the clock (`AskRedis`) and is counted some time later (`incr_with_expiry`),
under the minute it has read. `RedisFails` loses the command or its reply.

Assumed: Redis keeps its counters until they expire, and a command that takes longer than
`MaxDelay` has failed.

## 3. Runs

Every passing run checks deadlock except where the system really may stop: a bounded
number of requests that are all over, with no probe loop to go on.

| Run | Question | Instance |
|---|---|---|
| `MCHealth` | Do any orders of outcomes and probes undo what failures established, or evict early? | 2 deployments (warming, draining), threshold 2, counter to 3 |
| `MCGateway` | Is each of two concurrent requests answered by one permitted deployment and charged once, whatever falls back, is probed, or fails in the database, commits with a lost reply included? | 2 deployments, 2 requests, 3 operations, symmetric in requests |
| `MCGatewayPolicy` | Does policy hold for fallbacks and across reloads, for every pair of modes and several classes and constraints? | 4 deployments of all privacy levels, 3 snapshots, 394 asks |
| `MCGatewayLive` | Does every accepted request end, do probes bring back what probes took out, are decisions kept when an id is reused, does each charge have the decision that names it, a lost reply included, and is the tracker touched by nothing else? | 2 deployments, 3 snapshots, an id presented twice, fair |
| `MCChat` | Is the conversation an append-only log with exact numbers and settled prompts, whatever crashes, leaves or fails? | 2 requests of 5 kinds, 2 instances, all disturbances |
| `MCChatLive` | Is every relayed turn finalized, and does every handler get the row? | 2 requests, clients leave and cancel, fair |
| `MCAttachments` | Can rows and bytes part, can a message lose a file, can a file come back? | 3 files and 2 messages of 2 conversations, 2 deletes of any file, a download, limit 2, database and store failing |
| `MCAccess` | Do racing registrations, switches, sign-outs, memberships and revocations leave a tenant without an owner, an address registered twice, a session alive that has ended, an act without an admin, an event without its row? Does every request end on a pool of two connections? | 4 workloads of 6 requests, 2 at a time, 2 users, 2 roles and modes, failing transactions, one session that expires, fair |
| `MCLibrary` | Are documents whole and counted once, citations at home, runs consistent, and is every wait over at last? | 7 workloads of 6 requests, 3 at a time, 2 organizations, 3 texts, chunks of 4 characters, failing transactions, fair; and every text of at most 2 paragraphs of at most 3 words is cut cleanly (`CuttingIsClean`, an ASSUME of `MCLibrary`) |
| `MCLimiter` | Does nobody get more than the limit, and is nobody limited for others? | 3 requests, 2 organizations, 2 instances, limits 0 to 2, a minute of 3 units, counters that live 6, commands of up to 3, a clock to 6 |

Each `violation` run states what a comment or a document says and shows that the code
does otherwise (`PROJECT.json`, `findings`):

| Run | Claim refuted |
|---|---|
| `MCGatewayLoosens` | a request only narrows the caller's mode: cloud and private, sovereign and offline are not nested |
| `MCChatFinalized` | a turn is always finalized: not when the client leaves before the first event |

More places where the code and what is written about it part, which no run states; the models do
what the code does:

*Gateway*
* ready probes never bring back what failures evicted (`RecordProbe`; docs/model-gateway.md:316),
  while a degraded report is stored and makes it routable again, without the "real success" of
  health.py:120-121 (`RecordProbe`; health.py:130);
* a second answer under a request id writes its usage row and keeps the decision of the first, so
  that the two, joined on the id, may name different deployments (`WriteDecision`, `WriteUsage`;
  writer.py:101 against docs/database.md:715);
* a fallback calls the next of a chain that was fixed at resolution, even one that has gone
  offline since (`FallBack`; execution.py:215 against docs/model-gateway.md:327);
* a draining deployment that failures take offline is ready again after a success of a request that
  was in flight, without a probe (`RecordFailure`, `RecordSuccess`; docs/model-gateway.md:327);
  nothing in the code makes a deployment drain while it runs, only its registry entry at start-up;
* a deployment that a reload adds counts as ready whatever state it declares, for only
  start-up seeds the tracker (`Reload`, `state_for`; health.py:51);
* no usage row is written for a stream that breaks (`StreamBreaks`; execution.py:264 against
  execution.py:5-6, docs/model-routing.md:233), and failed embedding calls are not reported to the
  tracker (`EmbedAnswers`; execution.py:345);
* the priority that is added to a score as a bonus breaks ties the other way round (scoring.py:100);
* rate_limit.py:1 speaks of a sliding window: with Redis the window is a minute of the clock,
  so that up to twice the limit may pass around its edge (`Limiter`);
* the gateway does not look at a key's expires_at, which nothing sets, nor at its organization's
  default mode (`CallGateway`).

*Control plane*
* the text of a message is given to the gateway, to be embedded, within the transaction that
  stores it (`Reserve`, `CommitTurn`; routers/conversations.py:253-254), and under the
  organization's mode, not the conversation's (routers/conversations.py:277 against 122-126);
* of two first messages at the same time the later one names the conversation
  (`TitleAfter`; conversations.py:64);
* clients are answered 201 and 204 before the commit, which may still fail; a download is answered
  200 before its object is opened (`Answer`, `Commit`, `OpenObject`);
* a delete that has read a file's row before a send bound it removes a sent file (`DeleteRow`;
  routers/attachments.py:200 against 183-187); deleting a conversation removes neither rows nor
  objects (`DeleteThread`); concurrent uploads pass the limit on pending files (`Count`);
* a lost race for a unique index (base, slug, digest) is an IntegrityError, answered 500, not the 409
  of the check before it, and loses an upload with all its files (`InsertDocument`;
  routers/knowledge.py:213);
* an agent need not be published to be run (`StartRun`); nothing sets max_steps, so that a run is
  never halted; hits by words come first within one base only (`Merged`, `Best`); a vector made by
  the hash is labelled with the real model (knowledge.py:519).

### Bounds

* `FailureCap` makes the failure counter saturate. The code compares it with the
  threshold only, so any value at or above the threshold behaves the same; the proofs
  hold for every cap at least the threshold.
* `MaxCalls` limits how often one request id is presented: 2 is the least with a reuse.
* `MaxAttempts` is the code's own `max_fallback_attempts`; chains are as long as the
  instance has deployments (2), or 3 of 4 in the policy run.
* `MaxWords = 1`: an answer with and without text is what the properties tell apart.
* Two deployments give one fallback, two requests one interleaving partner; four
  deployments give one of each privacy level and both hosted and customer-run ones. Two
  chat requests give every pair of handlers that meet at the row, among them a
  regeneration of an answer that a send has just finished or is still streaming; what
  holds for more is for the proofs.
* Three files give a message two and another one to race for; two deletes can meet on one file.
* A workload of `MCAccess` or `MCLibrary` is six requests, of which the first ones make what the others
  race about; two or three at a time give every pair (or three) of steps that meet, and a circle of
  uploads needs two. `MAX_CHUNK_CHARS = 4` and words of up to five characters give texts that are
  whole, cut at a space and cut within a word; one hit to a base makes every limit bite.
* `Window = 3` with a clock to 6 gives two whole minutes and the start of a third, `Expiry = MaxDelay +
  Window` is the tightest the proof allows, and limits of 0, 1 and 2 are none, the least, and one that
  two of three requests exhaust.
* Symmetry over requests and instances is used in `MCChat`, over requests in `MCGateway`, and over
  requests, organizations and instances in `MCLimiter`: these check safety only, their instances give
  all requests the same choices, and their properties name no particular one.

### Fairness

* Gateway: weak fairness of each request's backend and telemetry steps (every backend call
  has a read timeout, every transaction commits or fails) and of the probe loop, a task
  of its own. `ProbesBringBack` also supposes that each deployment is
  up often enough to answer some of its probes with ready (`UpOften`): without it nothing
  could bring it back. Callers, clients and operators owe nothing.
* Chat: weak fairness of each handler's own steps and of the gateway's stream (its client
  has a timeout), strong fairness of getting the row, since Postgres queues waiters.
  `MCChatLive` has no crashes and no failing database: under either, an answer may stay
  unwritten, which `Transcript` allows and `WriteFails` logs.

* Access: weak fairness of all handlers together (`Handle`, `Commit`): as long as one can go on, one
  does, which is the event loop's promise and Postgres's; a wait for the pool has a timeout
  (`PoolTimeout`). With finitely many requests that ends each of them.
* Library: the same, with PostgreSQL's search for deadlocks among the steps that are taken.
* Nothing is asked of the object store or of Redis: `Attachments` and `Limiter` have safety only.

## 4. Proofs

All theorems are checked by TLAPS for every set of deployments, catalog, snapshots, asks,
threshold and bound, and for every finite set of requests, set of instances and choice of
disturbances, that satisfies the assumptions `HealthAssumption`, `GatewayAssumption`,
`ChatAssumption`, `AttachmentsAssumption`, `AccessAssumption`, `ChunkingAssumption`,
`LibraryAssumption` and `LimiterAssumption`, which TLC evaluates in the runs.

`HealthProofs`. `HealthTypeOK` is inductive. `FailuresOutweighProbes` needs only it: a failure
at the threshold puts the deployment offline, a success clears the count, and a probe
that would make it ready is dropped. The invariant says offline *or degraded*, which is
what the code gives (a degraded probe does count). The action property `NoHastyEviction` follows step
by step from the type invariant.

`GatewayProofs`. `GatewayTypeOK` with the tracker's types is inductive; it says that the
attempt of a request in flight points into its chain. `TracksHealthHolds` shows that
each step of the gateway is a step of `HealthSpec` or leaves the tracker alone, so that the
theorems of `HealthProofs` carry over (`GatewayFailuresOutweighProbes`). The inductive
invariant for requests, `EveryRequestSound`, says of each request that its chain names
only deployments its policy permits, that nothing has been sent while it is calling, and
that what has been sent is from the current one; `OneModelPerAnswer` and
`PrivateStaysPrivate` follow from it (the latter with the algebra of the orders on modes and
classifications, proved by cases). `UsageInv` says what `UsageIsExplained` needs of the way to a row:
until its first answer is decided an id has no decision, while it is metering the decision is that
of the candidate that answered, and after that only a second presentation of the id can part the two
(`MCGatewayLive` presents ids twice). `FirstPass` says that, until the instance serves, every deployment of
the first pass is still to be asked, being asked, or reported on: at the end of the pass it gives
`ProbedBeforeServing`. `KeepsPromiseHolds` is the refinement: the initial states map
to initial states of `Answers`, and each of the actions to a step or a stutter, case
by case.

`ChatProofs`. The actions of a request outside its transaction are gathered in one kind of
step (`RunnerStep`) and those of a crash in another, so that an invariant is argued once
for each kind. Four inductive invariants build on one another:

* `LockInv`: types, `RowHeld` (a request is inside its transaction exactly when it holds the
  row) and `Reserved` (what it reserved is the count plus one or two, and the conversation is
  not deleted, for as long as it holds it). The types alone are not inductive: a send's
  question is stored one below the reserved number, which is a number only by `Reserved`.
* `RowInv`: before its commit a request has no rows, from then until its write its answer is
  open; with these and `LockInv`, `Numbered` and `KeepsEveryWord` are inductive. All steps but
  `CommitTurn` and `Write` leave the rows as they are.
* `RegistryInv`: a turn is registered from `Begin` until `Finish`, and a cancellation implies
  registration; it gives `CancelsReachTheRunning`.
* `HistoryInv`: the target and the prompt of a regeneration have ended from the moment they
  are loaded. With `EndedStays` (a message that has ended never changes, from `RowInv`) they
  are still so after the wait for the lock; it gives `PromptsAreSettled` and
  `ReplacesWhatEnded`.

In its second part `ChatProofs` shows the refinement. The log is written as a function of the rows and their count, and lemmas
about it are stated for any numbered rows, so that they can be used before and after a step:
`CommitTurn` appends the question and the open answer, `Write` replaces one open entry (empty,
by `OpenIsEmpty`), a committed delete closes, and every other step leaves the log alone.

`AttachmentsProofs`. Steps are gathered by the part of the state they change (`RowStep`, `SendsStep`,
`DeletesStep`, `UploadsStep`), then three invariants are shown inductive: `FileInv` (bytes before the
row, a row only of a finished upload, only what was filed is deleted), `DeleteInv` (a delete that did
not find the row never will) and `BindInv` (a send that has bound its files has them to itself).
`BytesBehindRows`, `NothingLeftBehind` and `SentWhole` follow, `BytesBehindRows` and `SentWhole` with a
step of their own; `KeepsCabinetHolds` maps `CommitUpload`, `CommitSend` and `CommitDelete` to the
cabinet's steps and all others to stutters.

`AccessProofs`. `AccessInv` says of each request that it is `Sound`: its phase is one its kind gets to
(`Reached`); its principal is a member of its organization, with the role that was read, and the
session it came with is still that user's (`Principal`); what it is about to write is still to be
written (`Intent`: the member is not one yet, the key is not revoked, the user is a member of where
the session goes); and until it is done nothing is named after it (`Unborn`). `Apart` keeps two
requests that have both written off the same row, which is what the locks are for: without it a
second commit could make the first one's `Intent` false. A step that writes nothing is argued once
(`QuietStep`), and commits by the tables they touch (`SessionsStep`, `AdminStep`). `Kept` says what
every step leaves as it was; `EndedForGood` is part of it, and holds because a switch that commits
writes one column of the row as it is by then, whatever it had read. `RegistrationInv` says that of
the registrations that have written no two are of one address and none of a user's, which gives
`RegisteredOnce`. For `AccountedForOnce` the log and
the tables are tied together by `Traced`: an event is true, a fact is told, and nothing is told
twice; `Counted` turns that into the number of events.

`ChunkingProofs`. How a text is cut is a recursion over the text, and the induction theorems of the
library take operators that the provers here cannot instantiate. What they say is therefore stated
once more with sets and functions in the place of operators, and proved from their definitions:

* `RecursionExists`: a recursion with one recursive call has a solution, if every set of data that
  no step leads out of contains data where it stops. The recursive functions of `Chunking`, and the
  folds of the community modules it uses, are defined by it (`JoinedIsDefined`, `SumsAreDefined`,
  `PiecesAreDefined`).
* That the recursion ends is an argument about a smallest element (`LeastNumber`, `SmallestSet`):
  `CuttingEnds` takes the words that are fewest and among them those whose first is shortest, for a
  cut either takes words away or shortens the first one (`CutTakesSome`).
* What the recursion keeps is argued on a least counterexample as well: `SumsInAnyOrder` (letters
  may be counted in any order), `PiecesHoldTheWords` for one paragraph, `OneMoreParagraph` and
  `ChunksHoldTheWords` for a text.

`EveryTextIsCutCleanly` states it for every text and every `MAX_CHUNK_CHARS`; what TLC evaluates of
it on small texts is `CuttingIsClean` of `MCLibrary`.

`LibraryProofs`. `LibraryInv` says of each request that it is `Sound`: its phase is one its kind gets
to (`Reached`); the files before the one it is at are stored whole or were refused, and that one as
far as it has got (`Filed`); the base is counted up by what it has finished (`CountedUp`); what it is
about to file is not there yet (`NoTwins`); what it has found is stored (`Retrieved`); its run and
steps tell the same (`Told`); and a base it founds is its own organization's, and empty (`Founding`). Until a request
commits, nothing is named after it (`Unborn`). `Apart` keeps two transactions from having written the
same text to a base, or having both locked its count: that is what entries in the unique index and
the row's lock are for, and without it the second commit would store a text twice or lose a count.
`Stocked`, `Cited` and `RunsAreTold` say the same of the committed tables. The steps of a
transaction change nothing others can see, so they are argued once for all others (`QuietStep`); a
commit is argued part by part (`CommitSound`, `CommitApart`, `CommitWhole`, ...), with `SoundKept` for
the requests that stay. `DocumentsReadBack` joins `WholeDocuments` with `EveryTextIsCutCleanly`: what is
stored of a document, read in order, has its letters, and is its text word by word when no word
is longer than a chunk.

`LimiterProofs`. The invariant `IInv` has four parts beyond types: `Placed` (who asked is of an
organization and an instance, and not of the future); `Counted` (a counter is at least the
admissions and at most the requests counted under its minute); `Lives` (the counter of whoever was
admitted outlives that request by `Expiry`); `Queued` (an instance's deque, in order, has as many
entries of the last window as it admitted). `CounterStillLives` is the heart: a command no later than
`MaxDelay` after a request of the same minute finds the counter alive, because two requests of a
minute are less than a `Window` apart and `MaxDelay + Window <= Expiry`; without that assumption,
which 120 seconds for a minute of 60 satisfy, the count would start again within the minute.
`QueueIsTheWindow` turns the deque's length, after its head is popped, into the number of
admissions of the last window.

Every safety property of a passing run is stated by a theorem. Only model-checked are the liveness
properties (`EveryCallEnds`, `ProbesBringBack`, `RelayedTurnsEnd`, `NobodyWaitsForever`,
`EveryRequestEnds`, `EveryLibraryRequestEnds`), for TLAPS here has no rules for fairness and ENABLED,
and the two runs that refute a claim. The refinements are proved for the safety part of the
abstract specifications, which is all they have.

## 5. Not modelled

See `components` in `PROJECT.json` for each part and its reason. In short: scores, requirement
inference, cost, ranking and vector arithmetic are parameters or choices (they are preferences, not
guarantees); how frames and characters split over reads are put together (`sse.py`) is parsing, which
tests/test_sse.py goes through; YAML, wire formats and extraction of text are parsing and data; the
tables that no operation writes (projects, provider accounts, connections to MCP servers) are left
out; the browser client, infrastructure and registry data keep no protocol state. Redis that forgets
its counters, and an object store that loses what it has answered for, are outside the models.

## 6. Plan

Done: sections 2 to 4. Left, in this order:

1. `Turn`, a composition of `Chat`'s runner with `Gateway`'s request: the usage and the status the
   control plane stores against what the gateway recorded.
2. `Sse`: decoder and collector as functions on byte classes, against the decoding of the
   whole stream, over every way to cut it.
