# FMS: formal models, model checks and proofs

FMS is a multi-tenant facility management system: a Rust API server
(`fms-server` and the domain crates it mounts), a worker process (`fms-jobs`),
PostgreSQL with a large share of the business rules in SQL (`src/sql`), a Python
service that ingests building models, and a React front end. There is no message
broker and no in-memory state worth the name: **everything that interacts,
interacts through PostgreSQL**, in READ COMMITTED transactions, row locks,
unique and exclusion constraints and triggers. What is hard about the program is
therefore what happens between the statements of concurrent transactions, what
remains after a crash between two of them, and what is repeated afterwards. That
is what the modules in this directory are about.

Contents: [parts](#1-the-parts-of-the-system), [modules](#2-modules-and-how-they-correspond-to-the-code),
[PostgreSQL](#3-postgresql-in-the-models), [runs](#4-runs-bounds-and-what-they-show),
[fairness](#5-fairness), [proofs](#6-proofs), [findings](#7-findings),
[not modelled](#8-what-is-not-modelled), [plan](#9-plan).

## 1. The parts of the system

| Part | State | Operations | Interacts with | Correct when |
|---|---|---|---|---|
| Transactional outbox and relays (`fms-worker/lib.rs`) | `fms.event_outbox`: status, attempt_count, available_at | `emit_event` in the producer's transaction; a relay claims a batch of due rows (`FOR UPDATE SKIP LOCKED`), calls a handler, marks PUBLISHED / FAILED / SKIPPED | every producer of events; the handlers (PM, notification, exports, webhooks, calendar) that commit transactions of their own | no row in two claims; published only after a handler's effect; effects once though delivery is at-least-once; every row settled, finally |
| Webhook fan-out, delivery, subscriptions (`fms-worker/webhook.rs`, `sql/072`) | WEBHOOK rows of `fms.notifications`; `webhook_subscriptions`: is_active, consecutive_failures | fan-out, claim, parking, POST, recording, automatic disabling; `POST /webhooks` | the outbox, the customers' endpoints | SENT rows were accepted; no failure is lost on the way to the threshold; nobody but the customer enables a subscription; rows do not stay queued |
| Idempotency keys (`fms-shared/concurrency.rs`, `sql/025`) | `fms.idempotency_keys` | `begin`, `PendingReplay::release`, `complete` inside the transaction of a creating POST | all creating POST handlers; clients that time out and repeat | one write per key; a replay only for the same body and user, and only if still permitted; nobody locked out |
| Reservations (`fms-reservation`, `sql/005`, `sql/011`) | `reservations` with shadow rows for combined rooms; `reservation_holds` | hold, release, create (single and series), approve, reject, check in, check out, cancel, cancel a series, PATCH; no-show scanner | idempotency keys, outbox (trigger), calendar push, reminders | no room taken twice; a hold serves one booking; freed slots stay free; only the absent are no-shows |
| Work orders and SLA (`fms-workorder`, `sql/008`, `036`, `038`, `044`) | `work_orders`: status, sla_state, deadlines, first_responded_at, completed_at; the catalogue of transitions | create, transition, bulk transition, SLA sweep with escalation | PM generator, notification, reports | every status change is in the catalogue, the verdict agrees with the times on the row, a breach is kept, overdue orders are marked |
| Refresh tokens, sign-on requests (`fms-identity/handlers.rs`, `jwt.rs`, `sso.rs`, `sql/070`, `073`) | signed tokens that no table stores; `revoked_refresh_tokens`; `sso_auth_requests` | login, exchange, logout, authorize, callback, daily purge | clients, audit | one successor per token, none after a logout; a revocation outlives its token; a sign-on request is used once |
| Preventive maintenance (`fms-maintenance`) | `maintenance_plans.next_due_at`, `maintenance_occurrences` | hourly scan, meter events, generate-now, PATCH, skip | work orders, outbox | one work order per (plan, asset, instant); no instant passed over, no plan starves |
| Meter readings (`fms-asset`, `sql/030`) | `meters.current_value`, `current_reading_at`; readings | POST by a person, IoT ingestion | maintenance (threshold events) | the current value is that of the latest reading |
| Notification fan-out and e-mail dispatcher (`fms-worker/notifier.rs`, `dispatcher.rs`, `sql/043`) | `fms.notifications` | fan out, suppress, claim, send, back off, give up, mark as read | outbox, mail server | a mail twice only after a loss; everyone served or suppressed |
| Exports (`audit_export.rs`, `report_export.rs`) | export jobs PENDING / RUNNING / COMPLETED / FAILED | request, produce, poll, download | outbox, object storage | a job ends, its status tells how, COMPLETED has a file |
| Directory sync (`fms-identity/directory_*.rs`, `scim.rs`, `sql/058`) | groups, members, mappings, `user_role_assignments` with their source | reconcile (watchdog, administrator), SCIM group patches, mapping, manual assignment | permissions of all endpoints | manual assignments untouched; no synced one left unbacked; catches up |
| Calendar federation (`fms-calendar`) | `external_event_id`, `delta_token`, conflicts to review; the external calendar | push on confirmed / cancelled, delta sync, review | outbox, reservations, Microsoft Graph | replay creates nothing; what is deleted there frees the room here; no ghosts without a fault |
| Labour, parts, costs, ratings (`fms-workorder/tail.rs`, `repo.rs`, `sql/008`) | rows of labour and parts, totals on the order, `part_stock`, the invitation to rate | transition with labour and parts, single entries, rating | work order transitions, notifications | stock and issued parts add up; the totals are the sums of the rows; one invitation, where the catalogue has it |
| Worker process (`fms-jobs/main.rs`) | seventeen loops, one pool of connections, the shutdown signal; which shard each relay has | start, rounds, Ctrl-C, panic | all loops | it stops when asked and cuts no round off; each event type has exactly the consumers it needs |
| Room calendar (`fms-reservation/availability.rs`, `blackouts.rs`, `tail.rs`) | closures, holds and bookings of a room, its settings and equipment | GET availability, close, book, move, PATCH, PUT amenities | reservations | what is offered is accepted; who closes a booked room has a list of bookings before it, the first of them at least; equipment is one caller's list |
| Settings of a tenant (`admin.rs`, `catalogue`, `sql/050`) | service items, SLA policies, holidays | POST, PATCH, DELETE; resolving a policy, a working day | work orders, reservations | no PATCH makes what POST refuses; there is one answer; writes stay in the writer's scope |
| Optimistic locking (`check_version`) | `version` columns | PATCH and transitions with If-Match, against writers without it | all editable rows | no accepted edit is overwritten by one who has not seen it |
| Keyset pages (`fms-shared/page.rs`, the 24 endpoints that list with it) | none on the server: the cursor holds sort column, key and id of the last row | one SELECT per page | all other requests, which change the rows between two pages | a walk returns each row that stayed, once |
| Organisation and spatial trees (`fms-tenancy`, `sql/004`, `069`) | rows with a parent and a materialised path | create, PATCH (rename, move), delete, bulk import | scope of permissions, assets, reports | every live row hangs under a live row of its facility and its path says so; an import leaves out only what has no parent |
| Tenants, facilities, row security (`fms-tenancy`, `sql/007`, `046`, `050`) | tenants, facilities, grants of scope | CRUD | everything | tenants isolated; the write scope of a facility is in the settings above |
| Accounts and SCIM users (`fms-identity/users.rs`, `scim.rs`) | `users`, their link to a provider | create, edit, suspend; SCIM POST, PATCH, DELETE | permissions of all endpoints | SCIM keeps to what it provisioned; names and subjects unique; no column lost; deletions last |
| Identity providers (`identity_providers.rs`, `sql/074`) | the provider's row with its status and switches, its SCIM tokens | create, PATCH, rotate, authenticate, connection test | SCIM, sign-on | no required field is NULL, one live token, a test that passes nothing bad |
| Login throttle (`throttle.rs`) | a map of failure windows in one process | check, record_failure, record_success | password login | who is blocked has failed; failures per time are bounded |
| Roles, skills, passwords, audit trail (`fms-identity`) | roles, skills, audit rows | CRUD | permissions of all endpoints | – |
| Alarms (`fms-asset/telemetry.rs`, `alarms.rs`, `sql/071`, `056`) | the open alarm of a point, its count and its work order; document counters | batch ingest with a savepoint per reading, rules that open work orders, suppress, acknowledge, link by hand, reconcile | work orders, outbox | every reading counted once; no reading that should open an order is without; a suppression holds for its term |
| Relations between assets (`attributes.rs`) | `asset_relations` | create after two walks, delete | dependency graph | every cycle is the work of requests that overlapped |
| Register of assets (`handlers.rs`, `attributes.rs`) | `assets` with code, category, parent, attributes; `attribute_definitions` | POST, bulk import (dry or not), PATCH, soft deletion, definitions | work orders, trees | a deletion strands nothing; codes differ; what is written conforms; an import reports what it did |
| Attachments (`fms-attachment`, `storage.rs`) | `attachments`, and the objects in a bucket | upload, list, read, delete | owners of files (orders, assets, nodes, reservations) | a live row has its object, a link leads somewhere, orphans are known |
| Devices, alarm rules as data | devices, rules | CRUD | alarms | |
| Reports, series expansion, certificates, partitions, BIM, front end, deployment | – | CRUD, queries, file transfer, periodic statements | – | – |

The behaviours that tests hardly reach are listed, each at its line, under
`hazards` in `PROJECT.json`, with the properties that would notice when one of
them goes wrong.

## 2. Modules and how they correspond to the code

`map` in `PROJECT.json` gives source lines for every definition that stands for
code. Definitions introduced as "Mutant" or "Plausible bug" are not part of any
specification: they are wrong variants of the definition that follows them, kept
to show that the properties notice such a bug.

**EventDelivery** – the abstract contract of the outbox: an event waits, each
kind of handler takes effect on it at most once, it is settled as published only
after some effect, or parked; settling is final. No relays, locks or retries.

**EventOutbox** – `fms.event_outbox` and `run_once` of the relays. A relay is a
process of a *kind*; a kind has a shard (`RelayConfig.event_types`) and a set of
types its handler accepts. `EmitEvent`, `Claim`, `SkipUnhandled` / `HandleOk` /
`HandleErr` for one event of the batch, `Commit` of all marks, `Abort` (crash, lost
connection, failed statement). A handler's effect is committed in another
transaction and survives the relay's rollback; `HandleErr` may have committed it
too. Time is one bit per row (`due`), since only "due or in back-off" matters.
The module ends with the refinement mapping to EventDelivery.

**WebhookDelivery** – one round of `WebhookDispatcher::run_once` is one transaction
that is split where others can come between: `Claim`, `StartPark` (the snapshot of
the parking UPDATE), `ParkRow` per row, `Deliver` (a POST and its answer), `Record`
(`fms.record_webhook_result`, which locks the subscription row until the end),
`Commit`. `Upsert` is `POST /webhooks` on an existing subscription. Waiting for row
locks, the deadlock check and its victim are part of the model.

**IdempotencyKeys** – `begin` is two statements, `Begin` (SELECT) and `Insert`
(INSERT, which waits for an uncommitted row with the same primary key); then
`Authorize`, and `Refuse` or `Commit` with the business write and `complete`.
`Replay` is the permission check and `release` of a stored response. Requests are
sent until answered: after a crash, a lost response or IDEMPOTENCY_IN_PROGRESS the
same request is sent again. Roles change, keys expire. The module ends with the refinement
mapping to KeyPromise.

**KeyPromise** – what a client is promised for an `Idempotency-Key`: one write per key, after a permission check
that passed in the same try; another answer of that write only to its own body and user, checked now; a refusal for
another body; a check that is as old as an earlier try counts for nothing. No transactions, no uncommitted rows, no
crashes, no expiry.

**RoomLedger** – what booking promises: slots that are taken as a whole (all rooms, all occurrences of a
series, or nothing), never two for one room and moment, and never again once given back; tickets (holds) that do not
overlap while they are live and are spent in the very step that takes their owner's slot, within what they were
given for. No shadow rows, transactions, locks, snapshots, clock or scanner.

**Reservations** – `rows[i][r]` is the row of reservation `i` on resource `r`, main
or shadow; writing the main row runs `trg_sync_composition_shadows`, which is in the
same step (`Synced`). Creating is `ConsumeHold`, `CheckConsumed`, `Insert`, or
`CheckCreate`, `Insert` for a request without a hold (one window or a series);
the checks see committed rows only, and `Insert` is refused by the exclusion
constraint (`Exclusive`) as a whole. Releasing a hold and cancelling a series
are single SQL statements, split into snapshot and UPDATE, because the UPDATE
uses what the snapshot said. Conditional one-row UPDATEs (check-in, approval,
cancellation, ...) are one step. `Scan`, `MarkNoShow`, `ScanFails` are the scanner.
The module ends with the refinement mapping to RoomLedger: a slot is taken while its reservation blocks; a hold is a
live ticket until it is released or a *committed* reservation has it, so a hold that is consumed in an open transaction
is still live, and one that serves a reservation is spent whatever its status says. (That is how the ledger is
kept although finding 2 is real: the late release writes a wrong status and a wrong answer, but frees nothing.)

**WorkOrders** – the catalogue of 008 is the set `Rules`; `Applied` is the UPDATE of
`fms.transition_work_order` (044) with the clock that trigger 038 starts. `Create`
and `Transition` lock one row first and are one step. A bulk request reads
(`CheckItem`) before it locks (`ApplyItem`), with a savepoint per order; the sweep is
three UPDATEs, each a snapshot and one `MarkRow` per row (wait, test again on the
newest version, as EvalPlanQual does), then `Escalate` per marked order, all in one
transaction. `row` is the committed version of an order, `tip` the newest.

**PmGenerator** – a worker is a scanner, a request task or a relay task; `gen[w]` is its
one open transaction. A scan reads a list of plans (`ListDue`, the cross-tenant query)
and then opens one transaction per plan with a fresh copy of its row (`OpenListed`,
`claims` of occurrences one asset at a time by `Claim`, which waits for an uncommitted
key, `FinishScan` with `Advance`). `GenerateNow` and `Deliver` are the request and the
meter event; `Ack` is the relay's commit after the handler's. `Patch...`, `Skip` and the
completion trigger run in between. `Die` is a lost transaction. A rule is a set of
instants and a COUNT; RRULE expansion itself is the rrule crate.

**MeterReadings** – one meter. A reading is computed from what was read (`Compute`) and
saved under the row lock with the guard on `current_reading_at` (`Save`, `InTime`); the IoT
path (`Step`) does both in one SQL statement. `NextValue` is `fms.next_meter_value` with
CUMULATIVE, DELTA and GAUGE, and the rollover.

**ExportJobs** – one delivery of the export event by a relay: `ClaimExport`, `StartRun`
(RUNNING, a transaction of its own), `Upload`, `CompleteRun` or `CallFails` and
`RecordFailure`, then `Settle` in the relay's transaction. `LoseConnection` leaves the
handler running without the relay's lock, so two deliveries overlap;
`KillExporter` leaves the job where it was.

**NotificationQueue** – `FanOut` inserts one row per recipient and channel (`ON CONFLICT DO
NOTHING`, `Inserted`), `Acknowledge` or `LoseAcknowledge` is the relay. A dispatcher's round
is `BeginRound` (the suppression sweep, the claim with SKIP LOCKED), one `SendMail` per
row with the server's answer or none, `CommitRound`; `KillRound` loses the marks and keeps the mails.

**AuthTokens** – a token is `iat`, `exp` and the token it was exchanged for: it exists because
it was signed, not because a row says so. An exchange is `Refresh` (signature, with
the library's leeway), `Check` (look-up, status of the account), `InsertRotated`
(ON CONFLICT DO NOTHING, which waits), `Exchange` (successor and commit). `Logout` is
one INSERT. `Purge` deletes by the database's clock, without the leeway. `ended` is a history
variable: what was ever recorded of a token.

**DirectorySync** – a run reads its list of offers (`StartSync`), inserts one row per step in the
order of priority (`Grant`; it waits for another run's uncommitted row in `Resume`), and
deletes what is not backed at the end (`FinishSync` = `Revoke` after `Inserted`). SCIM
patches are `PatchGroup`, `CountMembers` (the subquery's snapshot precedes the wait) and
`CommitPatch`. `DeleteGroup` takes members, mappings and synced rows along by foreign keys.

**CalendarSync** – one room. `push[w]` is the handler's transaction: `ReadBooking` (without a lock),
`CreateEvent` or `CancelEvent` (the external call), `SaveEventId`, `Published`; `PushFails` and
`PushDies` leave what was done outside. The relay takes events of a reservation in order
unless the first is waiting for a retry or busy elsewhere. `pull[w]` is the watchdog's
transaction over all changed events (`Fetch`, then `Echo`, `Deleted`, `Moved`, `Import`,
`Attribute` per event, `CommitPull` with the token). `entry` is the calendar, with a revision
per event in place of the delta token's meaning.

**Alarms** – a batch is one transaction (`txn[g]`) that keeps its locks: the device (`Ingest`), the
alarm (`FindOpen`, `SELECT ... FOR UPDATE`), the counter of alarm numbers (`InsertAlarm`) and that of
work orders (`OpenOrder`), in this order, reading after reading, each in a savepoint (`saved`). A request
takes the counter of work orders first (`Number`) and the alarm last (`LinkByHand`).
The two can deadlock, and so can two batches: `LoseDeadlock` rolls a reading back to its savepoint and a request back as
a whole. `rows` and `new` are what a transaction has written, `CommitAll` publishes it.

**SpatialTree** – both trees, `forest` says which; a row belongs to a *site*, its facility, or the one tenant for
organisations. Where the code looks at the facility the model does, and only there: a POST wants a parent of the
facility (`CheckParent`), a PATCH takes any, the trigger reads the parent's path whatever its facility and rewrites
only rows of its own (`sub` in `Patch`); codes are unique in a facility. A PATCH is one UPDATE whose trigger reads the parent's
path without a lock, tests the guard (`Guard`) and takes the snapshot of the subtree (`Patch`); each row
below is rewritten in its newest version and waits if another holds it (`RepathRow`); then the row itself
is written and its code compared (`FinishPatch`). Creating is `CheckParent` and a later `InsertNode`,
deleting `CountChildren` and a later `SoftDelete`; a deleted row keeps its path. An import is
`ReadKnown`, passes over the file (`ImportRow` in a savepoint per row, `NextPass`), `EndImport`. `LoseDeadlock`
and `CutOff` are the ways not to finish. `stray` is history: the sites of rows that were placed under a row of another site, or
under one that was moving or going.

**KeysetPages** – one definition per endpoint with its columns and their kind; `Lists` is all of them.
`FetchPage` is the SELECT with `LIMIT limit + 1`. `Compared` is the expression of the WHERE clause, `Bound` the key as
Rust writes it into the cursor: two endpoints build them differently. Between two pages others `Toggle` what the
filter shows and `Change` a row, in the columns that the program ever changes. `cuts`, `moved`, `steady` and `seen` are history.

**VersionedEdits** – `ReadDoc` is the client's GET, then a request is `Lock` (`SELECT ... FOR UPDATE`, where there is one),
`Check` (`check_version` and the other refusals), `Update` per row and `CommitEdit`, whose answer may be lost: the client
sends the same If-Match again. Four tables differ in who locks and who sends a version; `Refer` is a
work order that comes to an asset while it is deleted. Two updates of a series can deadlock.

**WorkExecution** – a transition locks its order (`LockJob`), writes labour (`InsertLabour`) and parts
(`FindShelves` is the snapshot of the conditional UPDATE of `part_stock`, `TakeFrom` one row of it, `RecordUse` the row of the
part), takes the sums (`SumRows`) and writes them (`RecomputeCosts`). `Catalogue` is the rules of 008 for
orders that are worked on, with `request_satisfaction` as `asks`; any action may bring labour and parts. `SendSweep` and
`MarkLate` are a round of the SLA sweep, which escalates an order in progress to SLA_BREACHED. Entries of labour and parts do the same without the
first lock. `Conflict` is PostgreSQL's table of row lock strengths. `Rate` is the rating, `Invites` the invitation; `done` is
history: from which status an order was completed or closed.

**ScimProvisioning** – a SCIM request looks for the account in its provider's scope (`CheckScope`) and writes by id
(`WriteUser`); creation looks for the name and the externalId, then inserts account and link (`PostUser` … `LinkUser`,
`CommitUser`). Administrators create, edit and suspend beside it. `wrote`, `byScim`, `left` are history.

**ProviderAdmin** – one provider: creation, `PATCH` (`LockProvider` … `UpdateProvider` writes all connection fields, those
not named as it has read them), a blank stored by the POST and cleared by the PATCH (`Stored`), SCIM and status, rotation of the
token, `FindToken` and `LetIn` for a SCIM request, and the connection test
with each outcome its target can have (`Meets`); `Checks` are the checks it reports.

**LoginThrottle** – `Attempt` (the check), `RecordFailure` or `Grant` (the count) are two critical sections; attempts
overlap between them. `fails` is the history of counted failures.

**WorkerProcess** – the loops with the states of their rounds, the connections each state keeps (`Keeps`), the pool's time
limit (`TimesOut`), the watch channel (`Signal`, `Notice`), `JoinAll` (`tokio::join!`) and `AwaitRest`. A round's effect is in the other modules.

**RoomCalendar** – every caller makes one request, judged when it begins (`Passes`, `Conflicts`) and written later (`Fits`,
the exclusion constraint). `Listings` is what the query for conflicts answers: all of them, or the first `ListLimit` by start,
ties as the database likes. `Offered` is GET availability. `before` (who had written when a request read) and `told` are what the properties need.

**TenantSettings** – one of three tables. `BeginSetting` judges the row it reads with what is sent (`Judged`), `FinishSetting` writes
what was sent onto the row it finds, under the unique index (`NoDuplicate`) and row security (`Scope`).
`Answers` is `resolve_sla_policy` and `business_windows`.

**AssetRelations** – a request walks twice along the relations, each walk a statement that sees what is committed:
`WalkBack` (does the end lead back to the start, `LeadsBack`), `WalkDown` (how deep is it below the end, `TooDeep`), then
`InsertRelation`, which looks at no other relation. `Chains` is the recursive CTE with its limit. `unseen` is history: pairs
of relations of which the later was inserted without both its walks having seen the earlier.

**AssetRegister** – POST is `BeginCreate` (category, parent), `ValidateCreate` (the attributes against all definitions), `InsertAsset`.
An import reads the definitions (`BeginImport`), decides each row (`RefuseRow`, `ImportAsset` in a savepoint, `RowFails`) and commits or,
dry, forgets (`EndAssetImport`). Deletion is `CountBlockers` and a later `MarkDeleted`; `PatchAsset`, `PlaceOrder` come in
between. `CodeOpen` is the wait at the unique index. `late` is history: what came to hang on an asset that was going or gone.

**Attachments** – the object first and then the row (`PutObject`, `CommitFile`), or the row first and then the object (`MarkFile`,
`RemoveObject`), with `PutFails`, `RemoveFails` and `DropCall` between; `SignAddresses` hands out links from rows read before,
without a look at the bucket. `given` and `lost` are history.

**MCBackground**, **MCFederation**, **MCRequests** and **MCTenant** compose six, three, seven and four of these parts
in one specification each (requests: pages, edits, rooms, settings, relations, register, files; tenant: trees, accounts,
provider, login), **MCEventOutbox** the outbox and the idempotency keys, **MCServices** the requests, the tenant and
WorkExecution. The parts share no table; `part` (and `world` in MCServices), chosen by the
initial state, says which one moves, so their state spaces add up and do not multiply. The resting parts'
fairness is vacuous, since nothing in them is enabled that it mentions. The other MC
modules hold nothing but values for the constants. The eight `...Proofs` modules hold the
theorems, those of parts that share a composition in one module.

## 3. PostgreSQL in the models

* **READ COMMITTED.** A statement sees what was committed when it started. A
  statement whose result is used after it could have become stale is a step of
  its own; statements that lock first, and then read, are merged with what follows.
* **Row locks** are held to the end of the transaction. `SKIP LOCKED` excludes
  rows another transaction holds; a plain UPDATE waits. After the wait the WHERE
  clause is evaluated again on the newest version of the *locked* row, while joined
  rows, CTEs and sub-selects keep the old snapshot. This distinction decides
  `VerdictsAreKept` (holds) and `UsedHoldStaysConsumed` (does not).
* **Unique and exclusion constraints** compare with committed rows and wait for
  uncommitted ones; the loser is refused.
* **Deadlocks** are found as cycles of waiting transactions; some victim is
  rolled back (to its savepoint, if it has one).
* **Row security** is taken as given: each model is the world of one tenant.

## 4. Runs, bounds and what they show

| Run | Instance and named bounds | Shows |
|---|---|---|
| `outbox` | 3 events of three types, four relays of three kinds (two of one kind), BatchSize 2, MaxAttempts 2, MaxAborts 1; keys: 4 requests with one key string (a resend, another body, another user), MaxCrashes 1, MaxLost 1, MaxChanges 1, MaxExpiries 1 | `DeliveryIsSound` (`ClaimsExclusive`, `PublishedMeansHandled`, `EffectOnce`, `ParkedOnlyWhenExhausted` and types), `EventuallySettled`, `ImplementsDelivery`; `KeysAreHonoured` (`OneWritePerKey`, `ReplayIsRightful`: own body, own user, authorised), `ImplementsPromise`, `AnsweredUnlessExpired` |
| `outbox_overlap` (violation) | 2 events, three relays with the shards of fms-jobs, no aborts | `AllConsumersServed` fails: finding 1 |
| `webhook` | 2 rows of one subscription, 2 loops, BatchSize 2, MaxAttempts 2, MaxFailures 2, MaxAborts 1, MaxUpserts 2 | `BooksAreTrue` (`RowLocksExclusive`, `SentWasAccepted`, `ActiveBelowThreshold` and types), `EventuallySettled` |
| `requests` | what requests meet, in the three worlds of MCServices. Pages: 3 rows, three contents that tie in a part of the key, in all of it and not at all, limits 0, 2 and 9, MaxPage 2, MaxEdits 1; edits: 2 rows, 2 clients, MaxTries 3; rooms: a room for two and one combined of it, two callers who do everything, with a PATCH of the rooms, or three of whom two book and one closes (`Asks`), ListLimit 1 (200 in the code), LastSlot 2, MaxSettings 1; settings: 2 facilities, an administrator and a manager, 2 rows, four bodies of POST, eight of PATCH, MaxFiled 3; relations: 3 assets, one type, MaxDepth 1, MaxLinks 4; register: 3 ids, 2 definitions (one required and for all, one for a category), four bodies (sound, lacking, wrong, of no category), 2 files with rows that clash, 3 PATCHes, one order, MaxHandled 3; files: 3 keys, 2 owners, MaxServed 4. Trees: 2 facilities, 5 ids, a root in each and a child of one, two files whose rows come before their parents, MaxAsked 3; accounts: 2 names, one externalId, MaxAccounts 2, MaxCalls 3; provider: four types, six bodies (blanks, nulls, SCIM, status and rotation among them), MaxOrders 3; login: three identifiers folding to two, MaxFailures 2, LoginWindow 2, LoginTime 4, MaxLogins 7. Execution: one order, 3 shelves (a part in one place, one in two), three uses, MaxSent 3. The two tasks do the same things in every part (SYMMETRY) | `WalksAreExact`; `EditsAreKept`; `CalendarIsSound` (`NoSilentClosure`, `OffersAreAccepted`, `EquipmentIsOneList`); `SettingsAreSound` (`RulesHold`, `OneAnswer`, `WritesStayInScope`); `CyclesCross`; `AssetsAreSound`: `RegisterIsSound` (`NothingStranded`, `AssetCodesDiffer`, `WrittenConform`, `ReportIsTrue`), `FilesAreSound` (`RowsHaveObjects`, `AddressesLead`, `OrphansAreKnown`); `TreesAreSound` (`PathsFollowParents`, `ImportsAreComplete`); `IdentityIsSound`: `ProvisioningIsSound`, `AdminIsSound`, `ThrottleIsFair`; `ExecutionIsTrue` (`StockIsTrue`, `TotalsAreSums`, `InvitedOnce`, no shelf below zero); `TypesOK`, `TenantTypesOK` |
| `reservation` | combined rooms AB and BC sharing B, one with approval, single windows and a series of two, 2 tasks, MaxBookings 2, MaxMoves 1, MaxTime 2, MaxHolds 0 | `SlotsAreSafe` (`RoomsExclusive`, `NoShowIsAbsent`), `ImplementsLedger` (slots: what was freed stays free until it is booked again), `OverdueIsReleased` |
| `reservation_holds` | one room, 2 users, 2 tasks, overlapping windows, MaxHolds 1, MaxBookings 2, Ttl 1, MaxTime 2 | `HoldIsSpentOnce` (one booking per hold, none lost), `ImplementsLedger` (tickets), `RequestsReturn` |
| `reservation_release` (violation) | as above | `UsedHoldStaysConsumed` fails: finding 2 |
| `workorder` | 2 orders (one SERVICE), both with a policy, one bulk COMPLETE of both, the sweep, ResponseTime 0, ResolutionTime 1, WarnTime 1, MaxTime 2, MaxAborts 1 | `VerdictsHold` (completion time, MET, late response and escalation against the times), `StepsAreLawful` (`VerdictsAreKept`: breaches and settled verdicts; `LegalTransitions`), `OverdueIsMarked` |
| `background` | maintenance: 2 plans, one with two assets and one with none, a scanner, a request and a relay, a meter event of both plans, Batch 1, MaxUpsets 1, PmMaxTime 2; meters: a person and a gateway, MaxReadings 3, MaxValue 2, MaxAt 2; exports: one export, two relays, MaxAttempts 4, MaxMishaps 3; notifications: one alert, 2 recipients, 4 channels, 2 dispatchers, MailBatch 2, MailAttempts 2, MaxLosses 1; alarms: two points of one asset, one with a rule that opens orders, 2 feeds, one operator, Window 2, Hush 1, MaxUsed 3, AlarmMaxTime 1; worker: two relays and the calendar watchdog, PoolSize 2, MaxWork 1, MaxPanics 1 | `InstantsAreServedOnce` (`OneOrderPerInstant`, `NoInstantPassedOver`); `CurrentIsLatest`; `ExportsAreHonest` (`PublishedIsTold`, `CompletedIsKept`); `AlarmsAreSound` (`AlarmsAreTrue`, `SuppressionIsHonoured`); `RoundsAreClean` (`MailOnceUnlessLoss`, `NoRoundIsCut`); `WorkGoesOn`: `PlansAreServed` (`ScanCatchesUp`, `MeterEventIsCovered`), `JobEnds`, `EveryoneIsServed`, `StopsWhenAsked`; `TypesOK` |
| `export_retry` (violation) | one failing call | `AckedIsCompleted` fails: finding 3 |
| `federation` | tokens: MaxTokens 3, one login, 2 servers, Ttl 1, Leeway 1, TokMaxTime 2, one sign-on request; directory: one user, 2 groups, 2 roles, 3 mappings, a watchdog that may not grant one role, an administrator, a SCIM client, MaxChanges 2; calendar: one reservation here, one event there, 2 slots, a pusher, a puller, MaxFaults 1, MaxEdits 2 | `RevocationHolds` (`ChainIsLinear`, `RevocationOutlivesToken`); `SyncIsSound` (`ManualIsNeverTouched`, `SyncLeavesNoOrphan`); `CalendarsAgree` (`EndsAgree`: `GhostNeedsFault`, `DeletionSticks`; `ReplayCreatesNothing`); `SyncsArrive` (`DirectoryCatchesUp`, `DeletionFreesRoom`); `TypesOK` |
| `calendar_echo` (violation) | no faults, one edit | `OwnIsNeverOverwritten` fails: finding 4 |

Why the bounds are enough:

* *Bounded counters.* `MaxAborts`, `MaxCrashes`, `MaxLost`, `MaxChanges`,
  `MaxExpiries`, `MaxUpserts`, `MaxMoves`, `MaxBookings`, `MaxHolds`, `MaxUpsets`, `MaxMishaps`,
  `MaxLosses`, `MaxUsed`, `MaxFaults`, `MaxEdits`, `MaxReadings`, `MaxTokens`, `MaxAsked`, `MaxTries`,
  `MaxSent`, `MaxAccounts`, `MaxCalls`, `MaxOrders`, `MaxLogins`, `MaxSettings`, `MaxFiled`, `MaxPanics`,
  `MaxLinks`, `MaxHandled`, `MaxServed` and the `...MaxTime` limit
  what the environment may do. One abort suffices to separate "committed by a
  handler" from "committed by the relay"; one role change is the revocation
  between store and replay; two upserts allow disabling and
  re-enabling. Three mishaps against four
  export attempts let two deliveries overlap and one die; an edit and its undoing
  is what a calendar round can miss. Three requests of the tree are
  a move, an insert under it and a deletion or a lost connection; one change during a walk is all that
  lies between two pages, and walks of several pages meet it at each cut. Three requests of a part (settings and providers included) are two
  that overlap and one before them or a lost connection; seven attempts within four units of time fill two windows of two failures
  with both tasks past the check. Four requests among three assets build rings of two and of three relations, longer than
  what MaxDepth 1 allows in one chain, with two relations made at once; three requests of
  the register are an asset, its deletion and what comes in between, with a second id for what hangs under it;
  four of the files are an upload, two deletions and a reader. The theorems of section 6 hold for all values of all of them.
* *Actors.* Interference in these protocols is pairwise: two claimers, two
  consumers of one hold, a bulk request against the sweep. Every lock and
  constraint concerns the pair that meets at a row. `outbox` has four relays because
  two questions (two relays of one shard, two overlapping shards) need them.
* *Where one actor is enough.* `calendar` has one pusher and one puller, because
  crashes between external call and commit are what it asks about; the hazards of two
  pushers and two pullers are described in section 7. `directory` has one user: the rows of
  two users never meet, except in the order of the list, and the theorems are for any number.
* *A list that ends.* ListLimit is 1, so that a second booking is one too many for the list a closure is answered with, as
  the 201st is in the code; three callers make two bookings and
  a closure.
* *Limits at 2.* MaxAttempts, MaxFailures and BatchSize are 2: the smallest values
  with a state "failed, but not for good" and "batch not full".
* *Time.* The reservation clock has a time before, during and after the slot
  together with an expired hold; in the work order run a deadline can be in the
  future, now, and past. ResponseTime 0 makes late answers possible at time 1.
* *Work order actions.* Per order the run restricts what clients ask for
  (`Requested`): order 1 goes through assignment, work, hold, close and reopen, order
  2 through draft, submission and the SERVICE rule; COMPLETE comes from the bulk
  request. The actions left out change the status and nothing else that the model keeps
  of an order, or are refused to clients (AUTO_ASSIGN, BREACH_SLA). The theorems are about all of `Rules` and any `Requested`.

Deadlock checking is off in all runs, and has to be: clients owe nothing, the
bounds are reached, and the loops then have nothing to do. That nobody is stuck
while there is something to do is what `RequestsReturn`, `EventuallySettled`,
`AnsweredUnlessExpired`, `OverdueIsReleased`, `OverdueIsMarked`, `WorkGoesOn` and `SyncsArrive` state.

`PROJECT.json` gives for every property of a passing run a definition and a
plausible bug in it (a dropped guard, a lost SKIP LOCKED, a comparison off by one,
a missing reset) with which TLC finds the property violated.

## 5. Fairness

* The loops of `fms-jobs` run until shutdown, and go on after an error
  (`run_until_shutdown` in each): weak fairness of their steps. A handler is a few SQL
  statements and a webhook request has a timeout, so a step that calls one ends.
* The clock moves, so back-offs end (`BackoffElapses`). Where it is an explicit
  counter nothing obliges it to move: `OverdueIsReleased` and `OverdueIsMarked` speak of
  what is overdue already.
* PostgreSQL queues the waiters of a lock. A statement that waits for a row which
  others lock again and again gets it: strong fairness, only for statements that
  wait (`ParkRow`, `Record`, `ApplyItem`, `Proceed`).
* The scan, the export relays, the dispatchers and both watchdogs are loops that wait for
  their interval and go on (`PmFairness`, `ExportFairness`, `NotifyFairness`, `DirFairness`,
  `CalFairness`): weak fairness of their steps, never of deaths, lost connections, failing
  calls or edits, which are bounded instead. `DirFairness` starts the watchdog's runs, not
  the administrator's. `ScanCatchesUp` and `DirectoryCatchesUp` are `[]<>`: rules and members
  may change again right after. `ScanCatchesUp` exempts the plans of `Broken`; with one of
  them it fails for the others too (section 7).
* A loop of the worker process goes on with what it can do, and a statement that finds a free connection gets
  it in the end (`WorkerFairness`). That a sleep ends by itself is not assumed, since it may take a day: `StopsWhenAsked`
  rests on `Notice`, the watch channel that wakes a sleeping loop.
* `DeletionFreesRoom` has the exception `Jammed`, an event moved onto a taken slot: its
  round fails as a whole, as often as it is repeated, and deletions wait behind it.
* `MarkNoShow` is strongly fair although rounds of the scanner may fail: a database
  that is unreachable during *every* round is not assumed. Without this the
  property would say nothing but that the database is up.
* Never fair: producers, users, administrators, crashes, the beginning of a
  request. `AnsweredUnlessExpired` assumes that a client goes on sending once it
  has begun and that the server runs.
* `OverdueIsMarked` has an explicit exception, an order whose status changes again
  and again: such a row can fail the re-evaluated join of the sweep's UPDATE in
  each round. The real code has it too.

## 6. Proofs

All theorems are for arbitrary constants that satisfy the module's assumption. The
assumptions are types and elementary facts (limits are positive, a combined room
is not its own part, parts are not themselves combined, `Never` is no instant), and
TLC evaluates them in every run.

**OutboxProofs, EventOutbox.** `OutboxInv`: the types, `ClaimsExclusive`, a relay holds only
unsettled rows of its shard (`ClaimsAreOwn`), every *uncommitted* mark already has
the reason that the committed status will need (`MarksJustified`), attempts are below
the maximum, and the three safety properties. `MarksJustified` is the heart: the
properties speak of committed statuses, but what makes them true happens while
the transaction is open, and has to survive the steps of all others. Proved:
`TypeCorrect`, `ClaimsAreExclusive`, `PublishedWasHandled`, `EffectsAreOnce`,
`ParkedWhenExhausted`, `SettledRowsAreFinal`, `DeliverySound` (all of them), `OutboxImplementsDelivery` (every step of
EventOutbox is a step of EventDelivery or a stutter; `Commit` is `Settle` of the
published and parked parts of the batch), and `DisjointShardsServeAll`: if no two kinds
that handle a type both own it, all consumers are served – the condition that the
wiring of fms-jobs does not meet (finding 1).

**OutboxProofs, IdempotencyKeys.** `IdemInv`: a request in an open transaction is the writer of
its row and the other way round (`OpenIsWriter`), no response is stored under a
key that is being written (`WriterHasFreshRow`), a stored row belongs to its primary
key (`RowIsOwn`), a request about to be replayed found a row of its own body
(`ReplayFoundRow`), only finished requests have answers, and the properties.
`OneWritePerKey` alone is not inductive: nothing would stop a second open transaction
of the same key. Proved: all safety invariants (`ReplayRightful` states the three about replays together,
`KeysHonoured` everything the run checks), the types
(`KeysTyped`), that a failed request leaves no key locked (`KeysAreReleased`), and `KeysImplementPromise`: every step is a
step of KeyPromise or a stutter (`CommitKey` is the one `Write`). It needs `AuthorizedIsChecked`: a request that is about to
insert has passed its check since its last begin.

**ReservationsProofs.** `ReservationsInv` = types, `RowsInv` (existing reservations have a
status, shadows follow, the table satisfies the exclusion constraint), `HoldsInv`
(existing holds have owners, the lock of a hold and the transaction that consumed
it belong together, the token of a reservation is spent, one booking per hold,
consumed holds have bookings), `TargetsExist`, `NoShowIsAbsent`. `RoomsExclusive` –
about rooms, through any combination of combined rooms – follows from
`ShadowsFollow` and the row-wise constraint: a common room carries a row of both
reservations. The token facts need `LocksOwned`, since a hold is CONSUMED long
before its booking exists. Proved: `TypeCorrect`, `ShadowsAreSynced`, `NoDoubleBooking`,
`AbsentOnly`, `SlotsKept` (all three), `OneBooking`, `FailedCreateKeepsHold`, `HoldsAreSpentOnce`, `FreedSlots`.
`ReservationsImplementLedger`: every step is a step of RoomLedger or a stutter. The steps of a transaction before its
commit, rollbacks included, are stutters; the committing `Insert` is `Book`, or `BookHeld` if it consumed a hold, which
needs `WindowInHold` (the range of a hold is written once, so what was checked against it still lies within it);
every way to end a reservation is `GiveBack` of what still blocked, also for the stale list of a series; `InsertHold` is `Grant`
because a rival that is neither ACTIVE nor locked was released or has its booking (`ConsumedHasBooking`). That
no two taken slots collide is `RoomsExclusive` of the new state. The ledger does not promise that a live ticket
keeps others out: the program does not either, once the hold has expired or the check is older than the hold.

**WorkOrdersProofs.** `RowOK` says what is right about one version of a row; `Continues`
says that a version may directly follow another. `WorkOrdersInv` = types, every
committed and every newest version is `RowOK`, the newest continues the committed
one, an unlocked row has one version; the sweep changes no status before it
escalates, and what it escalates is marked and locked (`SweepInv`); a bulk request is
about to apply an action that exists, and never the system's own (`BulkInv`). The
argument about `tip` is needed because a sweep commits two changes of an order, the
mark and the escalation, as one. Proved: `TypeCorrect`, `VerdictsAgree` (`DoneHasTime`,
`MetMeansInTime`, `LateResponseIsReal`, `EscalatedIsBreached`), `BreachesAreKept`,
`DoneIsLeftAlone`, `VerdictsKept` (both), `TransitionsAreLegal`, `LawfulSteps` (both).

**WorkOrdersProofs, WorkExecution.** First the sums. `SumFunctionOnSet` of the community modules recurs over subsets; that the
function exists, takes out any element (`SumTakesOut`), moves with one value (`SumMoves`) and adds over joined sequences
(`SumOfJoined`) is shown each time by a smallest set, or a least number, where it would not: well-foundedness of `<` does
where the induction theorems, which take an operator, cannot be used. Then `ExecInv`: how far a transaction is, it has the locks that this takes
(`StepsRight`); a row of an order, committed or to be, has its one invitation when a rule that asks has been taken
(`InvitedRight`); the sums it has read are those of the rows, and the totals it will write are the sums (`SumsRight`); its rows
say no more than
it has taken from a shelf, and just that if the part lies nowhere else (`Takes`); of two transactions no locks conflict, no
shelf is taken from twice, and two entries of one order are known to have met (`Compatible`). The heart is `OtherStaysRight`: a
transaction that has read its sums survives the commit of another of the same order only because that was a rating. Proved, with
`UsesAssumption` (quantities are positive, as `handlers.rs` tests): `BooksOfWorkAreTrue`, the types (no shelf below zero) included.

**BackgroundProofs, PmGenerator.** `PmInv`: types, what an open transaction has claimed nobody else has
published or claimed (`WonIsFree`, `WonIsDisjoint` – the unique key, as facts about
transactions), and `ScanGood`: the *copy* of the plan a scan works with was read when
everything before its instant was covered, and the assets it has finished are claimed or
covered. The last is why a scanner with an old copy cannot pass an instant over: what was covered
when it read stays covered. Proved: `PmTyped`, `OneOrder`, `NothingPassedOver`, `ServedOnce` (both),
`ComplianceIsTrue` (an occurrence is COMPLETED exactly while its work order is).

**BackgroundProofs, ExportJobs.** `ExportInv`: `DeliveryInv` ties a delivery's step to the job (past the
upload there is a file, before the acknowledgement the user is told, and while no
connection was lost a delivery at work has a RUNNING job), `HeldAlone`, `Requested`. Overlapping
deliveries are why the file must be part of it: one may complete a job the other has
failed. Proved: `ExportsTyped`, `AcknowledgedJobsAreTold`, `CompletedJobsAreKept`,
`HonestExports` (both).

**FederationProofs, AuthTokens.** `TokInv`: only one request has an uncommitted row of a token, and then there is
no committed one (`OnlyInserter`, `InserterIsFirst`), and successors belong to issued tokens.
`ChainIsLinear` needs `RevocationOutlivesToken`: a fork would need a second insert, and that a
purge. Proved for every lifetime and leeway: `TokensTyped`, `ChainsAreLinear`, `RevocationsOutlive`,
`RevocationsHold`.

**FederationProofs, DirectorySync.** `DirInv`: types, which hold referential integrity (members, mappings
and synced rows refer to existing groups), no two runs insert the same row (`HeldAlone`), a patch's
group exists, and what a run has inserted is free in the table and comes from an existing
group (`WonInv`). Proved: `DirectoryTyped`, `ManualIsSafe`, `NoOrphanIsLeft`,
`SyncsAreSound`.

**BackgroundProofs, MeterReadings.** `MeterInv`: readings are numbered once and there is room for the open ones
(`Numbered`); a stored reading moves the meter exactly if it is not behind the row (`ReadingInv`), and only one open
transaction does (`HitAlone`). `CurrentIsLatest` is about committed readings, but a reading decides under the row lock,
before it commits. Proved: `MeterTyped`, `LatestIsCurrent`.

**BackgroundProofs, NotificationQueue.** `MailInv`: rounds touch open rows, and no two the same one (`RoundsAreApart`); a mail
that the server took is known to its row or to the open round, or something was lost (`MailIsCounted`). The
second half is needed because a mark is in the transaction while the mail is out. Proved: `MailIsSentOnce`.

**BackgroundProofs, Alarms.** `AlarmInv`: what is committed is true (`CommittedFits`); per transaction, what it has written it
has locked, and a row it has written stays linked to an order of its asset and keeps or ends a suppression (`DraftFits`, `Follows`), at
the savepoint too; the readings accepted are those counted in its rows (`Tallied`); locks are apart. The savepoint has to be
part of it: after a deadlock the transaction goes on from there and commits it. Proved: `BooksOfAlarmsAreSound`
(`AlarmsAreSound`, the promise about suppressions included).

**BackgroundProofs, WorkerProcess.** `WorkerInv`: `main` waits for the rest only when the joined loops have ended, has failed only
after a panic, and nothing is cut off while the process runs. Proved: `RoundsAreFinished` (`NoRoundIsCut`).

**FederationProofs, CalendarSync.** Three invariants. `CalInv`, for any number of relay tasks and watchdogs: what the handler has
read of an unconfirmed reservation still holds although no row is locked (`PushFits`, since only one task has a
confirmation and nothing else writes the event id); a row is written by one round only, and of our reservations it
only ends active ones (`PullFits`); the copies of a reservation are numbered, and all but the first have been paid for with a fault
(`Numbered`, from which `NewCopy` always finds an id). `GhostInv`, for one relay task: without a fault a live copy is known to its
reservation or to the task that made it, and a reservation whose cancellation was delivered is silent. `StickInv`, for one watchdog:
a round knows every change between the token and its next token, and what changes later is newer. Proved: `NothingIsReplayed`
(any number of both), `BothCalendarsAgree` under `OnePusher` and `OnePuller`. The two hypotheses are those of
`fms-jobs` with one process; with two relay tasks a confirmation can pass the cancellation, with two watchdogs the older token can
win (section 7), so the theorem is false without them.

**WebhookDeliveryProofs.** `IInv`: an open round confines itself to rows it has locked, what it will write is true
(`RoundInv`), and what it holds of a subscription does not turn it on (`SubInv`). As with the outbox, the truth of a SENT row is made while
the transaction is open. Proved: `TypeCorrect`, `BooksStayTrue`, `OnlyUpsertTurnsOn`.

**RequestsProofs, VersionedEdits.** `EditsInv`: what a client has read is the row or an older version (`ReadIsPast`), a request past its check
holds the locks (`LocksAreHeld`) and has compared the version that it will write over (`ComparedIsRead`). Proved: `AcceptedIsKept`.

**RequestsProofs, RoomCalendar.** `RoomInv`: a booking in flight has passed the closures it saw (`BookingHasPassed`), a closure in flight lists the
bookings it saw or as many others that begin no later (`ClosureTells`), a list in flight has seen the rows of those it saw
(`ListHasSeen`), rows are of
written lists. Each property speaks of two written entries; what decides it was read before either. Proved: `CalendarsAreSound`.

**RequestsProofs, TenantSettings.** `SettingsInv`: what a request was judged by still holds unless somebody wrote the row since
(`RequestInv`), with `RowsAreUnique`. Proved: `SettingsStaySound`.

**RequestsProofs, KeysetPages.** First that the comparison of the code, columns in the direction of the sort and then the identifier, is a
strict total order on the shapes the listings have (`KeysAssumption`: a key has one part, or two where the program joins or pads
them), and that a cursor compares as the rows
do but for the two exemptions (`ComparedRightly`). `PagesInv`: the cursor is the cut of the last row returned, every row returned lies not
after it, every row that was shown all the time with one key and lies before it was returned (`ExactSoFar`). Proved: `WalksStayExact`.

**TenantProofs, LoginThrottle.** `KeyIsFair`: the history of a key's failures splits into the window that counts and the ones before
it (`SplitAt`), each with at most `PerWindow`, and the requests being served fit into what is left. The split is what bounds the
failures *per time*, of which the window itself knows only the last part. Proved: `BlocksAreFair`.

**TenantProofs, ProviderAdmin.** `AdminInv`: what an open request has merged is still true of the committed row (`Prepared`), which
needs `Apart`: one holds the row's lock, one the creation. A connection field that is required is never NULL, and a blank in
one is the POST's; the test's target is missing only then. Proved: `ProvidersAreSound`.

**TenantProofs, ScimProvisioning.** `ScimInv`: an open insert is of a free id, with a name and link of its own (`InsertFits`,
`PendingDiffer`), an open write has the name and link of the account it has in scope (`WriteFits`). Proved: `AccountsAreSound`.

**TenantProofs, SpatialTree.** First what paths are: below is an order, and to move a path is to move the parent's and add the code. Then two
invariants. `TasksAreSound` holds always: no two tasks have the same row, live and new codes differ, a PATCH has its row and rows that
were below it, each in its new place or still to do, the others only new rows (`Moves`, `NewOnly`), and an import in a pass that made
nothing knows no parent of the rows it leaves (`Imports`). `PlacesAreFirm(s)` holds of a site until a row of it went astray: its committed paths are
right, what a delete has counted has no children and gets none, an open move covers every live row of its subtree (`MovesAreWhole`), and where an open
transaction puts a row nobody is moving or deleting (`FirmMove`, `FirmNew`). Paths become wrong only at a commit, by what was read long
before; so the second must speak of every open transaction and not of the table alone. Moves within one another's subtrees make
the step: the row locks
order them, the outer one waits for the inner. `RootsAssumption` says the initial rows are a tree. The sites are separate although
their rows can be each other's parents: a step of another site disturbs nothing of this one
(`ElsewhereFirm`), since what hangs under a row of another site is astray, and a path is rewritten in the row's own site only.
Proved: `TreesStaySound`.

**RequestsProofs, AssetRelations.** The limit of the walks does not matter, by arithmetic on rings. Of a ring through the
relation being inserted, either some relation was not seen at both walks, and then the two have crossed; or the rest of the ring was, and it leads
from the end of the new relation back to its start. If that is as short as a walk, `WalkBack` has refused; if it is longer, its
beginning is a chain deeper than the limit and `WalkDown` has refused. So `RelationInv` says that what a request has seen holds no way back
and no chain too deep (`WalksOK`), and that every ring has a crossed pair (`RingsCross`), for rings of any length and not
only those a walk could follow. Chains are functions on `1..n`: turning a ring and cutting a chain are lemmas
about functions, and no induction is needed. Proved: `DependenciesAcyclic`.

**RequestsProofs, AssetRegister.** `RegisterInv`: rows in flight have ids and codes that no committed row and no other request has
(`IdsPending`, `CodesPending`), what is in flight conforms to the definitions it knows, which were there, a report so far is true, and
whatever is under an asset that is counted for deletion, or gone, is on record as late (`LateUnderDoomed`). Codes must be
apart while rows are uncommitted, since it is the wait at the index, not the commit, that decides. Proved: `RegisterStaysSound`.

**RequestsProofs, Attachments.** `FileInv`: every request in flight works on a file whose state fits its step (`CallOK`: a row about to be
inserted has its object), no two uploads have one key (`OwnKeys`), and an object's row changes only in ways the others can bear
(`Forward`: never back from deleted). Proved: `FilesStaySound`.

**Types of whole runs.** The invariants above are each of a part's own specification. A run composes parts of which one moves; a step of the run
is a step of one part that leaves the variables of the others alone, so the conjunction of the parts' invariants is inductive for the
run: `BackgroundTyped`, `FederationTyped`, `RequestsTyped`, `TenantTyped` prove the runs' type invariants from it (with
referential integrity of the directory, unique numbers of readings, stamps of failures in order). They need invariants because
types hold facts: a bound on a counter, or a field that is there at one step only.

**Properties of several parts.** In the same way: a property that parts of a run share is proved from the conjunction of their
invariants. `AssetsStaySound` joins `RegisterStaysSound` and `FilesStaySound`, `IdentitiesAreSound` joins `AccountsAreSound`,
`ProvidersAreSound` and `BlocksAreFair`, `RoundsStayClean` joins `MailIsSentOnce` and `RoundsAreFinished`. They and the type theorems are
about the specifications of MCRequests, MCTenant, MCBackground and MCFederation, the others about the part's own specification;
MCServices, which the run uses, only adds that one of three such specifications is chosen while the others rest.

**Only model-checked:** every liveness property (the prover does not treat fairness
or ENABLED), that is `EventuallySettled` of the outbox and of webhooks, `AnsweredUnlessExpired`, `OverdueIsReleased`,
`RequestsReturn`, `OverdueIsMarked`, `WorkGoesOn` with its four parts, and `SyncsArrive` with its two; and what is violated: the
four violation runs and the statements of section 7 that are seen violated, which are false. Every other property of a run is
the subject of a theorem.

## 7. Findings

Each is a run in which TLC finds the quoted statement of the repository violated.

1. `outbox_overlap`: the webhook fan-out relay shares event types with the
   maintenance, notification and calendar relays. The first to claim an event
   publishes it; the other consumer never sees it.
2. `reservation_release`: the release of a hold tests the status of its CTE's
   snapshot; racing with a booking it turns CONSUMED into RELEASED and answers 204.
3. `export_retry`: a failed call marks the job FAILED and returns an error; the relay's
   retry finds no row to work on and answers success. The retry never retries.
4. `calendar_echo`: a deletion in the external calendar arrives without our tag, so the
   pull takes the event for a foreign one and cancels our reservation instead of
   reporting a conflict.

Stated in a module, seen violated with TLC, and kept without a run of their own:

* `NoDuplicateWithoutCrash` (WebhookDelivery): rounds lock subscription rows in batch
  order and keep the locks. Two can deadlock; the victim's accepted requests are sent
  again although nothing crashed (`webhook.rs:94`).
* `EventuallyAnswered` (IdempotencyKeys): an expired key is invisible to the SELECT and in
  the way of the INSERT. The client is told to retry with the same key, for ever
  (`concurrency.rs:220`).
* `VerdictIsFinal` (WorkOrders): closing recomputes the verdict with the moment of closing; an
  order completed in time becomes RESOLUTION_BREACHED (`sql/044:232`).
* `CheckedRuleIsApplied` (WorkOrders): a bulk item is checked against the rule of the status it
  read and executed by the rule of the status found under the lock (`tail.rs:286`).
* `PatchedRuleHolds` (PmGenerator): `advance_plan` writes the instant computed from the copy it
  read, over a rule patched meanwhile (`repo.rs:320`). `ScanCatchesUp` itself fails when a plan's
  generation fails for good (`Broken`): `?` ends the scan and the plan heads every later
  list (`pm_worker.rs:147`).
* `LateReadingIsTaken` (MeterReadings): a cumulative reading that arrives after a higher
  later one is refused although it was true when taken.
* `RevokedNeverReturns` (AuthTokens): the purge removes a revocation once `exp` has passed,
  the signature check accepts the token for the leeway longer. `sql/070:72-76` argues that
  the check has refused it by then.
* `RoleKeptWhileBacked` (DirectorySync): the DELETE asks only about the group a row came from, so
  a user who leaves it loses the role although another group gives it, until the next
  run; `sql/058:169` says it is taken back when no mapping backs it.
* `CountIsExact` (DirectorySync, two clients): `member_count` is counted before the wait for the
  group's row (`scim.rs:1254`).
* `OneOpenOrderPerAsset` (Alarms): two batches look for an open order of the asset before either has
  committed its own, and both open one; `sql/006:171` says not to open a second.
* `NothingIsForgotten` (CalendarSync): if the blocker of an imported event is gone when the second
  statement looks for it, the event is dropped and the token moves on; the comment
  (`watchdog.rs:498`) expects the next delta to bring it again.
* `ModelsAreListed` (KeysetPages): the cursor of asset models joins manufacturer and model number, the
  WHERE clause compares it with the manufacturer alone, so the other models of a maker at which a page is
  cut are skipped (`fms-asset/repo.rs:763`), against the comment at `:773`.
* `ItemsAreListedOnce` (KeysetPages): `lpad` and `{:010}` put the sign of a negative `display_order` at
  different places; a page cut there is followed by the same rows again (`catalogue repo.rs:39`).
* `OrderIsKept` (KeysetPages): the cursor names its column, not its direction: with the other direction it is accepted.
* `MovesSucceed` (SpatialTree): a deleted row keeps its path. A new row of the same code at that place
  can never be moved or renamed, `subpath()` fails on the deleted one (`sql/069:143`).
* `PatchedUnderLive` (SpatialTree): a PATCH may put a row under a deleted one. Moves, inserts and deletions that
  meet in a subtree can leave a live row under a deleted parent, a path that does not follow the parents, and
  two concurrent moves a cycle, since the guard of `sql/069` reads the new parent's path without a
  lock. `PathsFollowParents` exempts these by `stray`, and holds for everything else.
* `ParentsAreOfTheSite`, `ForeignPathsFollow` (SpatialTree): `create_node` wants the parent in the facility of the path
  (`fms-tenancy/handlers.rs:556`), `patch_node` does not compare them (`tail.rs:345-469`). The trigger reads the foreign parent's path but
  rewrites rows of the moved row's facility only (`sql/069:147`), so such a node keeps a stale path once its parent
  moves, without any concurrency. `PathsFollowParents` holds for facilities none of whose nodes was placed so.
* `DeletedIsUnused` (VersionedEdits; `late` of AssetRegister is its measure): the deletion of an asset asks for open work orders in a statement
  of its own, and one may come in between.
* `NoCycles`, `ChainsAreShort` (AssetRelations): two relations that are created at once, one each way, are both accepted, since
  neither walk sees the other's row and nothing is locked (`attributes.rs:371`); and the second walk measures what is below the
  new relation only, so a chain extended at its lower end passes the limit (`attributes.rs:404`).
* `NarrowStaysNarrow`, `PatchesConform` (AssetRegister): a definition narrowed to one category is demanded of assets of every
  category (`attributes.rs:845`);
  PATCH writes attributes without a look at the definitions (`handlers.rs:545`).
* `GoneForGood` (ScimProvisioning): a SCIM PATCH reads whether the account is deprovisioned and writes by id; beside a
  DELETE it brings the account back. `RefusedIsFound`: a name held by a deleted account, or by one of another provider, is refused
  with 409 and cannot be found by the provider that asks.
* `HandedOutWorks` (ProviderAdmin): a PATCH that switches SCIM off and asks for a rotation hands out a token that opens
  nothing; the comment at `identity_providers.rs:617` orders the two statements to prevent it, but neither looks at the switch.
* `CompleteHasTarget` (ProviderAdmin): POST asks of the required fields only whether they are absent and stores a blank as it is
  sent (`identity_providers.rs:324-371`); the connection test then finds no target (`target_configured`). Only PATCH trims.
* `ExactlyMax` (LoginThrottle): attempts past the check are counted after it, so a window may hold one failure per task more.
* `DoneIsInvited` (WorkExecution): the sweep escalates an order in progress, and SLA_BREACHED --COMPLETE--> COMPLETED has no
  `request_satisfaction` (`sql/008:260`): its requester is never asked, although `satisfaction.rs:10` speaks of every completion.
* `TotalsNeverDrift`, `IssuedOnce`, `RatedWhenDone` (WorkExecution): an entry that sums while another is uncommitted writes totals without it; a part
  with several shelves is taken from each of them; an order may be rated after it was reopened.
* `PanicEndsProcess` (WorkerProcess): `tokio::join!` waits for the other loops, against the comment at `main.rs:331`. `OthersFinish`: once
  they end, the failing `main` cuts off the loops it has not awaited. `AttemptsAreReal`: a handler that gets no connection
  from the pool in time costs its event an attempt.
* `ClosuresAreTold`, `ClosedIsClosed`, `OffersOfAll`, `ListIsReplaced` (RoomCalendar): a closure and a booking that
  do not see each other are both written, and nobody is told (`blackouts.rs:227`), nor of a booking beyond the first 200 that a
  closure meets (`:335`), and `count` is the number of those listed; a moved booking is not checked against closures and
  holds, and a closure or hold of a part is not seen when the combined room is booked; the calendar of a combined room does not show the
  bookings of its parts; two PUTs of the equipment can leave a mixture (`tail.rs:579`).
* `NoBackDoor`, `PausedIsNotTaken`, `PermittedWhereItIs` (TenantSettings): two PATCHes that are each in order make together what POST refuses
  (`admin.rs:403`); a service paused after it was looked up is still sold; a row moved after the check is changed by one who may not.

Seen while reading, with no run of their own:

* A webhook subscription disabled while a round is under way still receives the
  rest of the batch (`webhook.rs:127`; the model has it), against the comment at `:125`. A
  re-enabled subscription keeps its counter at the threshold, so one failure
  disables it again. `record_webhook_result` returns NOT is_active, so failures after the
  disabling count as disabling too (`sql/072:277`).
* The notification relay reads its shard from the catalogue at start
  (`main.rs:104`): a type added later belongs to no relay until a restart.
* Nothing writes EXPIRED to a hold and the constraint on holds ignores `expires_at`:
  a hold left alone refuses all later holds of its slot (`sql/005:117`).
* PATCH moves a reservation but not its `auto_release_at`. A PATCH can put a
  reservation on a held slot; holds of a combined room do not protect its parts.
* `capacity > 1` does not switch the exclusion constraint off, as `sql/005:38` says.
* A draft submitted when no policy applies stays ON_TRACK; SUBMIT and REOPEN count
  natural minutes where the policy asks for business hours, and leave `sla_basis` NULL;
  REOPEN leaves `closed_at`. `team_workload` counts a `sla_state` of 'BREACHED', which the
  table cannot hold (`tail.rs:462`).
* `fms-jobs` waits for Ctrl-C only: SIGTERM ends it at once, which the other models count as a crash. If `ctrl_c()` itself
  fails, the sender of the watch channel is dropped and every loop ends.
* The ingestion of IoT readings never looks at thresholds, which `sql/030` claims it does; two
  readings computed from the same last value lose a DELTA or report one crossing twice; a
  rollover makes later readings of the old round look wrapped again.
* Skipping an occurrence does not touch its work order: completing that order turns SKIPPED into COMPLETED.
* The push handler ignores the reservation's status: a confirmation retried after the
  cancellation, or processed beside it by a second process, leaves an event in the
  calendar that nothing removes. A crash between `create_event` and the commit makes
  a second event. Rescheduling is not pushed. A cancellation delivered again meets 404
  and is retried until parked. Two watchdogs with different tokens can restore a deleted event.
* Assets: PATCH may make an asset its own ancestor; such assets are each other's children, so none of them can be
  deleted any more. `attributes.rs` accepts REDUNDANT_WITH as a type of relation, which the CHECK of `sql/003` refuses.
  Deleting the owner of files leaves the files, rows and objects.
* Alarms: an alarm that wakes when its suppression ends emits no event, although `sql/071` (c) says that it
  does; a reading dated after the term ends a suppression early; nothing sets CLEARED or CLOSED. A reading that
  loses a deadlock is rejected for good, the client has to send it again.
* An RRULE with COUNT above 1 never ends: each expansion starts at the current due
  date (`generator.rs`), so COUNT starts over; the comment there expects NULL.

## 8. What is not modelled

`components` in `PROJECT.json` lists every part with its status and reason. In short:
CRUD with one statement per request, queries, parsing and formatting, file
transfer, HTTP wiring and the front end have no interleaving to explore; row
security is assumed; RRULE expansion, JWT, Microsoft Graph, SMTP and object storage
are outside the repository. Within modelled parts, these are left out:

* outbox: order by `available_at` within a priority class, payloads;
* webhooks: signing, the address check (one outcome of `Deliver`), new subscriptions;
* idempotency: endpoints (part of the key, one is enough), tenants;
* reservations: assigned desks, rules on duration and booking window
  (more reasons to refuse), versions and If-Match, participants;
* maintenance: RRULE syntax, asset filters, templates, PATCH of other fields;
* notifications: recipient rules, templates; exports: contents, permissions;
* tokens: passwords, access tokens, the identity provider's answers;
* alarms: rules as data (operators, `for_seconds`), readings that fire nothing, liveness;
* trees: types of nodes and which may hold which, the scope that is derived from paths; row locks on
  parents, which the code does not take either;
* pages: filters other than shown or not, encoding of the cursor (a wrong one is refused), endpoints that
  list without a cursor;
* edits: the fields, permissions, what a transition does (WorkOrders has it);
* directory: validity periods;
* accounts: groups of roles, invitations by mail, a SCIM PATCH of `displayName` that is empty or no text (ignored by the code);
  providers: the protocols themselves;
* assets: serial numbers, models, the graph's query, If-Match (VersionedEdits has it); files: the presigned upload of models,
  when an address expires, the rewriting of addresses for a proxy;
* rooms: recurring closures, opening hours, the layout of desks; settings: texts, prices beyond set or not;
* worker: what the loops' rounds do (the other modules have it), metrics, SIGTERM;
* calendar: OAuth, paging, titles and attendees, review of conflicts;
* execution: pauses, CANCEL and the statuses before IN_PROGRESS, orders without a requester;
* work orders: business hours, people, texts, approval data, PATCH.

## 9. Plan

The order is by what goes wrong silently and is hardest to test.

1. **Core, done:** EventDelivery and EventOutbox (everything else hangs on it), then
   WebhookDelivery, IdempotencyKeys, Reservations, WorkOrders, with proofs.
2. **Background and federation, done:** PmGenerator, MeterReadings, ExportJobs,
   NotificationQueue, Alarms and WorkerProcess in MCBackground; AuthTokens, DirectorySync and CalendarSync in
   MCFederation; proofs of all of them.
3. **Requests, done:** KeysetPages, VersionedEdits, RoomCalendar and TenantSettings in MCRequests, SpatialTree, ScimProvisioning,
   ProviderAdmin and LoginThrottle in MCTenant, AssetRelations, AssetRegister and Attachments in MCRequests, and WorkExecution; all in MCServices;
   proofs of all of them, and of the types of each composition.
4. **Next models**: the claim of a BIM job, reports, the rules of alarms as data, roles.
5. **Refinements, done:** EventDelivery by EventOutbox, KeyPromise by IdempotencyKeys, RoomLedger by Reservations.
   Next: a contract of a subscription implemented by WebhookDelivery, and of an order's verdicts by WorkOrders.

Instances stay at two or three actors; each module is to check in a few minutes.
Small modules that share no state share a run.
