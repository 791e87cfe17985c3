# aerobi-api in TLA+

A verification development of aerobi-api, a NestJS API on PostgreSQL (through
Prisma) and an S3-compatible object store. It registers aircraft movements at
aerodromes, lets pilots ask for permission to land, compares the two, manages
aerodromes with their documents, cameras and maintenance, and mirrors the public
registers of ANAC.

Paths below are relative to `src/src/modules/` unless they start with `src/`.

* [1. The system](#1-the-system) — inventory of the components
* [2. Modules](#2-modules) — what is modelled and how it maps to the code
* [3. Runs](#3-runs) — what TLC checks, bounds, fairness
* [4. Proofs](#4-proofs) — what holds for every value of the constants
* [5. Where the code and its documentation disagree](#5-where-the-code-and-its-documentation-disagree)
* [6. Not modelled](#6-not-modelled)
* [7. Plan](#7-plan)

## 1. The system

One Node process. An HTTP handler, an event listener or a cron job is a coroutine:
it runs alone until it awaits (database, object store, e-mail, another server), and
any other coroutine may run there. `EventEmitter2.emit` calls each listener
synchronously up to its first `await` and does not wait for the rest. Most
operations are sequences of separate database calls; only the few named below are
transactions. Nothing is locked outside of them. Several replicas of the process would interleave
in the same way, so the models do not depend on there being one.

| Component | State | Operations | Interacts with | Hard behaviour | Correct when |
| --- | --- | --- | --- | --- | --- |
| Movements (`movements`) | `movement`, snapshot of the aircraft, image in the store | create, batch create, correct the registration, remove, write the verdict | emits `movement.created`, `movement.conformity_requested`; listens to `movement.conformity_resolved` | the correction acts on a copy read earlier; the verdict arrives late | a verdict has its reason in the database; a removed row is not written; no landing stays PENDING |
| Conformity (`conformity`) | `operational_event` | evaluate, open or resolve a non-conformity, e-mail | reads landing requests; emits the verdict and the e-mail event | overlapping evaluations of one movement; look-up and insert are separate; a failure ends an evaluation | status and open events agree; one open event per movement |
| Landing requests (`landing-requests`) | `landing_requests`, aircraft snapshot | create (receipt by e-mail or compensating delete), decide, remove | e-mail, audit, RAB | visible before the receipt was sent; two deciders | decided at most once; a refused creation leaves nothing |
| Sessions (`auth`) | `refresh_tokens` | login, refresh with rotation, detection of reuse, logout | `users` | check and rotation are separate calls; revocation and issue race | a session is never multiplied; a password change leaves no older session |
| Users (`users`) | `users` | create with invitation, accept, change or reset the password, update, remove | sessions, one-time tokens, e-mail | write and revocation are separate calls | see sessions and one-time tokens |
| One-time tokens (`tokens`) | `tokens` | issue (invalidating earlier ones), validate, mark as used | `users` | validate and mark are separate calls | used at most once; at most one active per user and type |
| RAB and aerodrome registers (`rab`, `public-aerodromes`, `private-aerodromes`, `scheduler`) | rows of the register, one sync state per period or data set | sync: HEAD, skip or GET, hash, skip or upsert in chunks | the server of ANAC | manual and scheduled syncs overlap; crash while RUNNING; HEAD and GET see two files | a state SUCCESS describes the rows; a changed file is eventually read |
| Group images (`groups`) | `group_images`, `groups.image_key`, files | upload, remove the image, remove the group | object store | serializable transactions beside one at READ COMMITTED; deadlocks; retries; a commit that is not answered | `image_key` is that of the one active image; a removed group has none; every call is answered |
| Documents and other files (`documents`, `technical-visits`, `movements`, `storage`) | rows with the key of a file, files | upload, replace, rename, remove | object store, `geojsons` | two stores and no transaction over both; uploads of one type at a time | one active document per type and never none; a row refers to an existing file; a file without a row is deleted |
| Maps (`geojsons`) | `geojsons`, one row per aerodrome | derive after an upload or by hand, remove, restore | `documents` | derived outside of the transaction of the upload, best effort | the map is that of the active plan |
| Notifications (`notifications`) | none | fan-out of messages about movements | WhatsApp gateway | best effort | each group is told of its own movements |
| Camera resolver (`streams`) | cache in memory, look-ups in flight | resolve, invalidate, evict | `cameras` | invalidation during a look-up; limit | bounded; an invalidated camera is not served for longer than the TTL |
| Contact (`contact`) | `contacts` | create after limits, roll back when no e-mail could be sent | e-mail | count and insert are separate | limits hold |
| Rate limiting (`src/src/common/services`, `anac`) | counters in memory | count, sweep | guards | edge of the window | at most `limit` per window |
| Bootstrap (`src/src/bootstrap`) | none | listen with retries | operating system | port busy | ends, bound or with an error |

Other modules (aerodromes, cameras, feedbacks, guesses, maintenances, tasks,
pilot landings, dashboard, health, audit, aisweb, plugfield) are forms, queries or
HTTP clients; section 6 says why they are left out.

## 2. Modules

### Conformity

`Conformity.tla` models the life of a movement and the verdict on it, across four
modules of the code: `movements`, `conformity`, the matching adapter and the part of
`landing-requests` it reads.

| Variable | In the code |
| --- | --- |
| `movement` | table `movement` (state `removed` is a `deletedAt`), with only the columns the rule reads |
| `request` | `status` and `deletedAt` of `landing_requests`; the other columns never change and are the elements of `Requests` |
| `event` | table `operational_event`; a row is named by the evaluation that created it |
| `edit` | `UpdateMovementService.execute` between its read and its write, with `existing.registration` |
| `eval` | `ConformityListener.evaluate` and the verdict write it starts |
| `raced` | history: movements whose handlers overlapped or failed |
| `faults` | number of failed calls, bounded by `MaxFaults` |

One action per awaited statement: `CreateMovement` (the insert and the start of the
listener), `ReadForUpdate` and `UpdateRegistration` (or `UpdateFindsNoRow`),
`RemoveMovement`, `DecideRequest`, `RemoveRequest`, and of the listener `FindMatch`,
`ResolveConformant`, `FindOpen`, `CreateEvent`, `PersistVerdict`. `EvaluationFails` and
`PersistFails` are the two catch blocks; a refused statement may have taken effect, so
`EvaluationFails` has both outcomes. Abstracted: which of several matching requests is
the closest (only its existence matters), the text columns, the image, the RAB snapshot,
and how the operation type of an automatic reading is derived (any type may be created).

Which movements the rule concerns is written twice in the code: `isConformityApplicable`
(`movements/utils/conformity-status.util.ts`), for the status at creation and after a
correction, and a test of its own at the head of `ConformityListener.evaluate`. The module
has both, the second as `Evaluates`.

`raced` separates what the code guarantees always from what it guarantees only when the
handlers of one movement do not overlap. It is a history variable: no guard reads it.

Properties: `VerdictJustified` (always: a verdict has its reason in the database),
`ApplicabilityAgrees` (the creation, the correction and the listener agree on which
movements the rule concerns),
`SettledVerdict` (without overlap and failure, the status is a verdict on the
registration the row has, and it is NON_CONFORMANT exactly when one event is open),
`RemovedRowFrozen`, `PendingIsServed` (without failures, PENDING means that an evaluation
is on its way) and `PendingResolved` (liveness).

### Sessions

`Sessions.tla` models refresh tokens and everything that ends them.

| Variable | In the code |
| --- | --- |
| `user` | `users.deletedAt` |
| `token` | table `refresh_tokens`: `revoked`, `userId`, `replacedById` |
| `call` | the HTTP calls in progress, with the statement they are about to run |
| `origin` | history: first token of the chain, the token this one replaced, the value of `cut` the login saw |
| `cut` | history: how often all sessions of the user had to end |
| `unrevoked` | history: users whose revocation broke off |
| `raced` | history: logins with overlapping calls on one token |
| `loggedOut` | history: logins ended by a logout |
| `faults` | number of calls that broke off |

`LoginRead`, `LoginIssue`: the password is compared with the row that was read and the
token is created later. `RefreshFind`, `RefreshReadUser`, `RefreshRotate`: the token is
read and checked, the user is read, and one transaction creates the successor and
updates the old row without any condition on it; a token found revoked leads to
`RevokeAll`. `LogoutFind`, `LogoutRevoke`. `ReloginRead`, `ReloginWrite`, `RevokeAll`
stand for the four operations of `users` that end every session (change of password,
confirmed reset, change of e-mail, removal): they write the row by its id and then
revoke, in two calls. `CallFails` ends any call between two statements. A call that is
refused before it wrote anything (wrong password, expired, unknown or deleted token)
changes nothing and has no action, and a token may be presented by anyone at any time,
so expiry only removes behaviours. Accepting an invitation also issues a token, after
reading the user as a login does; the invitation itself is in Onboarding.

Properties: `SessionsCut` (once the revocation has run no older session is left, except
one written by a call that made its checks before it), `OneLivePerLogin`,
`RotationChain`, `SessionEndsForItsUser`.

### Onboarding

`Onboarding.tla` models the two kinds of link that set a password, of one user.

| Variable | In the code |
| --- | --- |
| `user` | `users.deletedAt` and whether `acceptedInviteAt` is set |
| `token` | table `tokens`, in order of `createdAt`: active, expired (`expiresAt` has passed), used (redeemed, or invalidated by `updateMany`) |
| `call` | the HTTP calls in progress; `open` (history) says whether the token presented was active when the call began |
| `wrote` | history: calls that set the password |
| `raced` | history: types issued by overlapping calls, tokens redeemed by overlapping calls or by one that broke off before marking, and whether two calls accepted at once |
| `faults` | number of calls that broke off |

`CreateUser`, `ResendInvite`, `RequestReset` check the row of the user and then issue in
two statements, `InvalidateOld` and `InsertToken` (both token services). `AcceptRead` and
`ResetRead` read the user, `Validate` compares the token presented with the newest usable
row, `SetPassword` writes the row by its id, `MarkAsUsed` is last. A link is redeemable as
soon as its row exists, because the e-mail follows the insert. Accepting needs no guard
when it writes: the code has none, so a user who was removed or has accepted in the
meantime is written too.

Properties: `OneUse`, `OneOpenLink` and the first half of `AcceptedOnce` hold unless the
calls concerned overlap (or, for `OneUse`, one broke off between the password and the
mark): the code takes no lock. `DeadLinksStayDead`, and that no reset precedes the
acceptance, hold always.

### LandingRequests and RequestBook

`RequestBook.tla` is what `landing-requests` promises about a request: filed, decided
at most once and never after it was withdrawn, withdrawn for good, and its requester is
told only the decision that stands. `LandingRequests.tla` is the service.

| Variable | In the code |
| --- | --- |
| `request` | table `landing_requests`: `status` and who deleted the row (`deletedBy`) |
| `creation` | `CreateLandingRequestService.execute` after the insert of each request |
| `confirmed` | requests whose receipt the mail server accepted |
| `review` | `DecideLandingRequestService.execute`, with the status in `existing` (`seen`) and in `updated` (`after`) |
| `removal` | `RemoveLandingRequestService.execute` |
| `told` | decisions sent to the requester of each request |
| `trail` | table `audit_logs`, with the call that wrote the entry (a call writes at most one) |
| `broken` | history: requests whose creation broke off |
| `faults` | number of calls that broke off or lost an audit entry |

`Create` commits the row, which staff see from then on. `ReceiptSent` or `ReceiptFails`
is the answer of `EmailService.send`; `Compensate` is the compensating delete, which
finds active rows only and swallows its errors, and `AuditCreate` comes after the
receipt. A decision is `DecideRead`, the conditional `UpdateIfPending` (409 when no row
was updated), `Reread` (which falls back to the first copy), `AuditDecision` or
`AuditLost`, and `Notify`. A removal is `RemoveRead`, `RemoveWrite`, `AuditRemoval`.
`CreationBreaks`, `ReviewBreaks` and `RemovalBreaks` end a call between two statements;
a statement that took effect although its answer was lost is a break after it.

The mapping to the book is `status` for the status, the deleted rows for `withdrawn` and
`told` for itself: `Create` files, `UpdateIfPending` decides, `Compensate` and
`RemoveWrite` withdraw, `Notify` tells, everything else leaves the book alone. The book
does not say who may withdraw when, because the code does not either: a request that was
approved while its receipt was being sent is still deleted when the receipt fails.
`DecideRequest` and `RemoveRequest` of Conformity are `Decide` and `Withdraw` of the book
on requests that were filed before the run begins.

Properties: `ImplementsBook` (refinement), `TrailMatchesRows` (the audit trail agrees
with the rows, over calls that all write both), `ReceiptOrRemoval` (liveness: a request
without a receipt does not stay).

### RegisterSync

`RegisterSync.tla` models the copies of the authority's registers: `rab`,
`public-aerodromes` and `private-aerodromes`, which follow one protocol, with the cron
jobs of `scheduler` that start it.

| Variable | In the code |
| --- | --- |
| `source` | which of the services it is, and whether the server sends the headers; chosen in `Init` |
| `file` | the file the server has now; a version stands for its `Last-Modified` and `Content-Length`, its SHA-256 and its rows |
| `state` | the row of the sync state: status, headers, content hash |
| `rows` | table of the register: the version each key was last written from |
| `call` | `syncPeriod` (`execute` elsewhere) between two awaited calls, with the copy `existing` |
| `overlapped` | history: a sync wrote while another ran, and none that ran alone has ended since |
| `faults` | number of failures and crashes |

`Head` is the answer of HEAD, `Find` the read of the state and the skip by headers, `Get`
the answer of GET and the skip by hash, `UpsertRunning`, one `UpsertChunk` per chunk in
the order of the file, `UpdateSuccess`, and `UpdateFailed` in the catch block. Only errors
after `upsertRunning` reach that block; earlier ones leave the state alone (`SyncFails`).
`Crash` ends every sync and leaves what was written. `Publish` may happen between any two
steps, so HEAD and GET may see two files. The two differences between the services are in
`UnchangedHead` and `StoredHead`: a missing header is `undefined` in `rab`, which equals no
column and is not written, and `null` in the others, which equals a null column.

Properties: `SuccessIsComplete` (SUCCESS with a hash says that every row of that file is
in the register), `AnswersFresh` (whoever is told "skipped" or "synced" finds a file no
older than the one the server had when the sync began), `EventuallyCurrent` (liveness).
They except syncs that overlapped (until one has run alone), because the code does nothing
to keep them apart, and the last two except `Blind`: a server that sends neither header
leaves the registers of aerodromes with `null === null`, and a file taken once is never
asked for again without `force`.

### GroupImages and ImageSlot

`ImageSlot.tla` is what `groups` promises about the image of a group: one at a time, an
upload shown once and only while the group is not removed, and shown if it was answered
with success. `GroupImages.tla` models how, statement by statement, and implements it:
the slot shows `group.imageKey`, the images ever shown are those with a row, the
confirmed ones those whose call is `done`.

| Variable | In the code |
| --- | --- |
| `group` | `groups.deletedAt`, `groups.imageKey` |
| `image` | table `group_images`, as committed |
| `store` | files in the object store |
| `call` | the calls, with the transaction each has open: attempt, snapshot (`sees`), what was written since (`stale`), row locks (`locks`), the `imageKey` to be written (`next`) |
| `unanswered`, `broken` | history: uploads whose commit was not answered; uploads that broke off |
| `faults` | number of failures and crashes |

An upload is `Store`, `Insert`, `Supersede`, `Sync`, `Commit`, or `Compensate`; a removal
of the image `Check`, `FindActive`, `DeleteActive`, `Sync`, `Commit`; the removal of the
group `Check`, `RemoveGroup` (the group, then its images) and `Commit`. The database is
modelled by what the isolation levels promise. A statement waits while another transaction
has locked a row it writes (`Free`). A serializable transaction reads the snapshot of its
first statement and is refused when it writes a row that was written since; it may also be
refused at any other moment (`Conflict`), which covers every refusal for a read and more.
The removal of the group is at READ COMMITTED: each of its statements sees what is committed then.
`Deadlock` ends one of two transactions that wait for each other, as a conflict, which is
retried, or as another error. That the removal of the group also closes its aerodromes is
left out: no image depends on it.

Properties: `KeyIsActiveImage`, `RemovedGroupIsBare`, `RowHasFile`, `NoOrphan`,
`ImplementsSlot` (refinement) and `CallsAnswered` (liveness: retries, locks and deadlocks
keep no call from its answer).

### StoredFiles

`StoredFiles.tla` models every other file a row refers to: documents of an aerodrome,
the image of a movement, the images of a technical visit; and the map of the aerodrome.

| Variable | In the code |
| --- | --- |
| `kind` | what each caller sends: a document of some type, the image of a movement or of a visit; chosen in `Init` |
| `open` | `aerodromes.deletedAt` |
| `row` | tables `documents`, `movement` (those with an image), `technical_visit_images`, as committed; a deleted row was superseded by an upload or removed by a user |
| `geojson` | the row of `geojsons`: deleted or not, the upload it was derived from, READY or ERROR |
| `store` | files in the object store |
| `call` | the calls; `sees` and `stale` as in GroupImages |
| `unanswered`, `broken` | history: inserts that took effect unanswered; calls that broke off |
| `crossed` | history: uploads that committed while another derived its map, or whose derivation failed |
| `faults` | number of failures and crashes |

All callers store the file (`Store`), insert their row (`CreateDocument`,
`PersistMovement`, `AddVisitImage`, each one statement) and delete the file when the insert
is answered with an error (`Compensate`), which may be wrong (`InsertFails` with a row). The
dedicated upload of an aerodrome has a transaction instead, of two steps: `Begin` is its
snapshot, `Commit` its end. The locks in between make others wait, which is the order in
which they come after the commit, and a deadlock is one more refusal, so neither needs a
step of its own. `Conflicts` is what PostgreSQL must refuse: a document of the snapshot was
written since, or another upload of the type has committed, so that neither saw the
other's row. `Conflict` may refuse at any time and costs an attempt. After a KML comes
`Generate`, outside of the transaction; `Regenerate`, `RemoveGeojson`, `Remove`, `Rename`
and `RemoveAerodrome` may come at any moment. They are one step each although the code
reads before it writes: the write itself has `deletedAt: null` in its condition, so the
copy read earlier decides nothing. A movement or a visit is not removed here.

Properties: `OneActive` and `NeverBare` are the two halves of the comment "nunca deixa o
tipo com 0 ou 2 ativos"; documents of `POST /documents` coexist with the active one by
design and count for neither. `RowHasFile` and `NoOrphan` relate the two stores.
`MapIsCurrent`: the map is that of the active plan or one an administrator made, unless two
uploads crossed or the derivation failed (then it may be that of a superseded plan, and
stays so). `MapHasSource`: the source of a map has a row.

## 3. Runs

| Run | Question | Bounds |
| --- | --- | --- |
| `conformity` | `TypeOK`, `VerdictJustified`, `ApplicabilityAgrees`, `SettledVerdict`, `RemovedRowFrozen` | 2 movements, 2 registrations, 1 aerodrome, 1 request, 3 evaluations, 1 correction, 1 failed call; 638 thousand states |
| `conformity_live` | `PendingResolved`, `SettledVerdict`, `PendingIsServed` | 1 movement, 2 corrections, 3 evaluations, no failure; 267 thousand states |
| `conformity_dedupe` | finds `OneOpenEvent` violated | as above |
| `conformity_stale` | finds `RegistrationChangeResetsStatus` violated | as above |
| `sessions` | `TypeOK`, `SessionsCut`, `OneLivePerLogin`, `RotationChain`, `SessionEndsForItsUser` | 2 users, 4 tokens, 4 calls, 1 that breaks off; 30 thousand states up to symmetry |
| `sessions_overlap` | finds `RotatesOnlyLive` violated | 1 user, 3 tokens, 3 calls |
| `onboarding` | `TypeOK`, `OneUse`, `OneOpenLink`, `AcceptedOnce`, `DeadLinksStayDead` | 1 user, 3 links, 5 calls, 1 that breaks off; 136 thousand states up to symmetry |
| `landing_requests` | `TypeOK`, `TrailMatchesRows`, `ImplementsBook`, `ReceiptOrRemoval` | 1 request, 3 decisions, 2 removals, 1 call that breaks off; 1.2 million states |
| `landing_trail` | finds `TrailShowsTransition` violated | 1 request, 2 decisions, 2 removals, no failure |
| `register_sync` | `TypeOK`, `SuccessIsComplete`, `AnswersFresh`, `EventuallyCurrent` | 2 versions, 3 keys, the cron and one manual sync, any number of times, 2 failures or crashes; 883 thousand states |
| `group_images` | `TypeOK`, `KeyIsActiveImage`, `RemovedGroupIsBare`, `RowHasFile`, `NoOrphan`, `ImplementsSlot`, `CallsAnswered` | 2 uploads of 3 attempts, 1 removal, 1 removal of the group, 2 failures or crashes; 47 thousand states |
| `stored_files` | `TypeOK`, `OneActive`, `NeverBare`, `RowHasFile`, `NoOrphan`, `MapIsCurrent`, `MapHasSource` | 2 dedicated uploads of 3 attempts, 1 other insert, 2 types, 2 failures or crashes; 958 thousand states up to symmetry |

Why the bounds are enough. *Conformity*: the arrival times 2 and 3 with a window of 1
around a request at 1 put one landing on the edge of the window and one outside it; two
registrations give a landing that can be conformant and one that cannot; three
evaluations of one movement are its creation and two re-evaluations, the least in which
an evaluation can overlap with one that is neither the first nor the last; two movements
show that events of one do not serve the other. Requests are decided in any order with
everything else. *Sessions*: four calls allow login, refresh, replay of the replaced
token and a further login or refresh of another user, or login, change of password and
two calls that overlap it; four tokens let a login rotate three times. With five calls
(one user, three tokens) the run also passes and takes too long to be kept.
*Onboarding*: five calls allow invitation, acceptance, request of a reset and its
confirmation twice, or an invitation sent again twice and two acceptances; three links
are the least in which one superseded by another lies between two that are not.
*LandingRequests*: requests do not interact, so one is enough; two decisions race and a
third comes after both, two removals race with each other and with the compensation.
*RegisterSync*: version 1 has the keys 1 and 2, version 2 the keys 2 and 3, so a row is
dropped, one rewritten and one added, and a sync can be cut off before, between and after
its chunks; calls are reused, so syncs follow each other without bound; two failures are
one of the older and one of the newer version. *GroupImages*: two uploads supersede each
other, and each meets a removal of the image and one of the group; with these four calls
every pair of transactions can conflict and deadlock, and the third attempt is reached
with conflicts alone. *StoredFiles*: two uploads race on one type or go past each other on
two; the third row is an active document they find, of the same type or not, or another
image; the proofs cover more of each.

Symmetry is used on sets of identifiers that no operator compares, and never in the run
with a liveness property. Deadlock is checked in `register_sync` and `stored_files`; in
the other runs it is not: the supply of movements, corrections and calls is finite, and a
state where all are used up is the end of a run. That transactions of GroupImages which
wait for each other go on is part of `CallsAnswered`.

Fairness. `FairSpec` of Conformity has weak fairness on the continuations of the
listener and the verdict write (`Handler(e)`), because the event loop resumes a coroutine
whose awaited call was answered, and, without a failure, every call is answered. There
is none on HTTP calls: nobody has to make a request or a decision. `PendingResolved` is
stated without failures because the code does not retry: an evaluation that failed
leaves the landing PENDING until somebody corrects it (`conformity.listener.ts:83-87` says
so). `FairSpec` of LandingRequests has weak fairness on the creation of a request up to
its receipt or compensation, for the same reason: `EmailService.send` answers, with
`false` on any error. A creation that broke off (`broken`) is excepted: nothing resumes
it, and the request remains without a receipt. `FairSpec` of RegisterSync has weak
fairness on the steps of a sync, for the same reason, and on `Head(Cron)`: the scheduler
starts the cron every day (`scheduler/services/rab-sync.cron.ts`). Failures are bounded, so
some run of it meets none. `FairSpec` of GroupImages has weak fairness on the statements of
a call that has begun: the database answers when it need not wait, and it ends deadlocks.
Nobody has to make a call.

## 4. Proofs

All theorems are for arbitrary sets of movements, requests, evaluations, corrections,
users, tokens, versions, keys, uploads and calls and any number of attempts and failures.
They assume `ConformityAssumption` (requests have the shape of the table, `Null` is no
identifier), `SessionsAssumption`, `OnboardingAssumption` and `LandingRequestsAssumption`
(`Null` is no identifier and no status, the bounds are numbers, no administrator is called
`system`), `RegisterSyncAssumption` (keys are numbers, there is a version, each holds some
keys), `GroupImagesAssumption` and `StoredFilesAssumption` (calls of different kinds are
different, there is an attempt, KML is a type), nothing else.

**`ConformityProofs`.** `VerdictJustified` is not inductive: the verdict in flight needs
its reason as well. `IInv` says that an evaluation about to emit CONFORMANT has an
approved request covering the landing under the registration it carries, one about to
emit NON_CONFORMANT has an event, and that the columns the rule reads never change after
the insert. Decisions are never undone (`REJECTED` and `APPROVED` are final), so a reason,
once found, remains. `ListenerAgrees` says that the listener's own test and
`isConformityApplicable` accept the same movements. From `ReasonsInvariant` follow `TypeCorrect`, `VerdictsJustified`,
`ApplicabilityAgreesAlways` and, as a property of steps, `RemovedRowsFrozen`.

`SettledVerdict` is about the moment when nobody evaluates the movement, so its invariant
has to say what holds in the middle. `SerialInv`: as long as the handlers of a movement
do not overlap and none fails (it is not in `raced`), one evaluation and one correction
of it at most are in progress and at most one of its events is open (`OneByOne`); the
evaluation carries the registration of the row, finds none open when it is about to
create one, and its verdict is the one the register stands for (`StageOK`); the
correction holds a current copy (`CopyOK`); and if no evaluation is in progress, status
and register agree (`Agreed`). That an evaluation which has not started owns no event
(`FreshInv`) is needed when it starts. `SettledVerdicts` follows. `PendingIsServed`
needs no strengthening beyond the reasons (`PendingAlwaysServed`): who sets PENDING
starts an evaluation in the same step, and only writing a verdict or failing ends one.

**`SessionsProofs`.** The argument for `OneLivePerLogin`: as long as no calls on one
token overlap, exactly one token of a login has no successor (`TailInv`), and a token
with a successor is revoked (`ChainInv`), so only the tail can be live. A rotation takes
the tail and adds a new one; that it does take the tail is `OverlapInv`: a token somebody
is rotating has no successor yet, or its login is `raced`. A logout revokes the tail, and
`LogoutInv` says that nothing of that login is live afterwards. `RowInv` and `CallInv`
type the references. From `ChainsInvariant` follow `SessionsTypeCorrect`,
`OneLiveTokenPerLogin`, `RotationChains` and, as a property of steps,
`SessionsEndForTheirUser`.

The argument for `SessionsCut` is another one, `CutInv`: while no revocation of a user is
due, the user is active and the counter `cut` has its current value for each live token,
for each login about to create one and for each token somebody is about to rotate, except
those marked `late`. The counter moves only in steps that make a revocation due
(`OnlyRevocationsEndIt`: no other step ends one), so nothing has to be shown until the
revocation runs; and then it revokes all live tokens and marks the calls that had made
their checks. `SessionsCutAlways` follows.

**`OnboardingProofs`.** Each property has an invariant of its own over a common typing.
`UseInv`: the calls that redeem or have redeemed a link are one, and once it is done the
row is used, which no step undoes. `LinkInv`: a call between the two statements of an
issue finds no link of its type open and is alone there, and rows are numbered in order
(`TableInv`), so the one it inserts is the newest. `AcceptanceInv`: once `acceptedInviteAt`
is set nobody is in the middle of an acceptance, and links for a reset exist only after
that. `OpenInv`: a row that is active now was active when the calls in progress began.
From `LinksInvariant` follow `OnboardingTypeCorrect`, `LinksAreOneShot`,
`NewestLinkIsTheOnlyOne`, `AcceptanceComesFirst` and `DeadLinksAreRefused`.

**`LandingRequestsProofs`.** `DeciderInv`: a call past its update read PENDING, carries
the decision the row has, and is the only such call of its request, because the update
is conditional and nothing else writes the status. `TrailInv` carries this on to the
entry after the call has ended: the request of an entry is no longer PENDING, so nobody
will decide it again. `RemoverInv`: a removal that found the row active signed it, and a
deleted row is not signed again. From `RequestsInvariant` follow `RequestsTypeCorrect` and
`TrailAgreesWithRows`, and the refinement `RequestsImplementBook`: the update happens in
a state where the book allows it, a soft delete by anyone is a withdrawal
(`SoftDeleteIsWithdrawal`), and an e-mail tells the decision of the row (`NotifyTells`).

**`RegisterSyncProofs`.** The argument runs over the syncs that were alone. `AloneInv`: a
sync marked alone is the only one in progress. `StateInv` is `SuccessIsComplete`, and that
the headers of a state SUCCESS are no newer than its content: HEAD comes before GET, so a
skip by headers misses nothing. `KnowsFile`: what a sync holds (headers, content) is no
older than the file it began with. `KnowsState`: the copy `existing` that decides the skip by
hash is still the row, the headers a lone sync is about to store are no newer than its
content, and the keys it has dealt with have the version it holds. From
`RegisterInvariant` follow the typing, `SuccessIsComplete` and, as a property of steps,
`AnswersFresh`.

**`GroupImagesProofs`.** `GroupLocked`: at most one transaction has locked the row of the
group, which every one of them writes before it commits. `Good` types the stages of a call;
`Knows` says what a transaction knows of the tables while its snapshot is not stale: once
it has the lock on the group and was not refused, the active images are those it saw, and
the key it will write is that of the only one it leaves. `Filed` relates the stages of an
upload to its row and file. Refusals for reads are not needed: the write of the group's
row alone serializes the transactions. The refinement `ImagesImplementSlot` needs no more:
every step but a commit leaves what the slot sees alone (`Still`), and a commit, which
writes every active image (`AboutToCommit`), puts the image of its upload, which had no
row, clears the slot or retires it; the second removal of a group that is removed
already changes nothing. `WaitsEnd` concerns the model itself: whenever a transaction
waits, another one has nothing to wait for or two wait for each other, for any number of
calls. So `Deadlock`, which looks at pairs, misses no deadlock: only the holder of the
group's row can wait in a circle, and only with one that waits for that row.

**`StoredFilesProofs`.** `Knows`: while a transaction is open, every active document of an
upload of its type is in its snapshot or among the rows written since, so a transaction
that is not refused supersedes all of them; that is `OneActive`, and with it `NeverBare`,
because whoever supersedes is active from then on until another of the type does the same.
`Filed` relates the stages of a call to its row and file. For the map, `Fresh`: after an
upload that did not cross another, no derivation of another is under way, so what is
written into the map until the next upload commits is its own.

Every invariant, action property and refinement of the passing runs is stated by a
theorem. Only model-checked: `PendingResolved`, `ReceiptOrRemoval`, `EventuallyCurrent` and
`CallsAnswered` (liveness under fairness is outside what the prover handles;
`PendingAlwaysServed` is the part of the first that is a safety property, `WaitsEnd` one of
the last).

## 5. Where the code and its documentation disagree

* `OneOpenEvent`. `conformity/listeners/conformity.listener.ts:45` says non-conformities
  are deduplicated by movement. The look-up and the insert are two calls; two evaluations
  of one movement that overlap leave two open events. Both are closed by the next match,
  so what remains wrong is the register and a second e-mail.
* `RegistrationChangeResetsStatus`. `movements/services/update-movement.service.ts:96` says
  the status returns to PENDING, in the same transaction, when the registration changes.
  The comparison uses the copy read earlier; of two corrections that overlap, the second
  may change the registration back without resetting the status, and the verdict on the
  other registration remains.
* `RotatesOnlyLive`. `src/prisma/schema.prisma:1003` describes rotation as a chain in which
  presenting a revoked token is detected. Two refreshes of one token that overlap both
  rotate it: two live sessions, and one successor is missing from the chain.
* `TrailShowsTransition`. `landing-requests/services/decide-landing-request.service.ts:31`
  says that the audit records the transition. The snapshot after it is of a second read
  that finds active rows only, with the first copy as a substitute: when the request is
  removed in between, the entry shows PENDING before and after. `TrailMatchesRows` holds
  all the same, because the decision itself is in the metadata.

The passing properties state what holds all the same: `VerdictJustified` whatever
overlaps, and `SettledVerdict`, `OneLivePerLogin`, `RotationChain` for movements and logins
without overlapping calls.

A comment that is not literally true without being wrong today:
`movements/utils/conformity-status.util.ts:28` calls `isConformityApplicable` the only point
of truth of the rule, shared with the listener's filter. The listener has a test of its own.
The two agree, which `ApplicabilityAgrees` checks and `ListenerAgrees` proves, so a change of
one alone breaks both.

Several properties except a case that the code leaves open, marked by a history variable
(or, for `Blind`, a definition) that no guard reads. This is what bounds each case all the
same:

| Excepted | By | What still holds |
| --- | --- | --- |
| evaluations and corrections of one movement that overlap or fail | `raced` in `SettledVerdict` | `VerdictJustified`, `RemovedRowFrozen`, `ApplicabilityAgrees`; `PendingIsServed` and `PendingResolved` with overlap, without failures |
| two calls at once on one refresh token | `raced` in `OneLivePerLogin`, `RotationChain` | `SessionsCut`: a revocation ends every session they left |
| a token written by a call that made its checks before a revocation; a revocation that failed | `late`, `unrevoked` in `SessionsCut` | it holds for every other token, and again from the user's next revocation |
| links issued or redeemed by overlapping calls, or by one that broke off before marking | `raced` in `OneUse`, `OneOpenLink`, `AcceptedOnce` | `DeadLinksStayDead`: only a call begun before the mark can write; `AcceptedOnce` also when the first acceptance broke off |
| a creation that broke off (a crash, or the compensation of a failed receipt failed too) | `broken` in `ReceiptOrRemoval` | `TrailMatchesRows`: without a receipt it has no entry of a creation |
| syncs of one register that overlap | `overlapped` in `SuccessIsComplete`, `AnswersFresh`, `EventuallyCurrent` | all three again after a sync that ran alone and succeeded |
| a row whose insert or commit took effect without an answer | `unanswered` in `RowHasFile` | the properties on rows (`KeyIsActiveImage`, `OneActive`, `NeverBare`): the row stands, its file may be gone |
| a file whose delete failed, or whose caller crashed | `broken` in `NoOrphan` | the same properties on rows: the file stays without a row |
| two derivations of the map that overlap, or one that failed | `crossed` in `MapIsCurrent` | `MapHasSource`; `MapIsCurrent` again after an upload that crosses no other |
| an answer that cannot be told from the last one | `Blind` | no property: the source is not read again |

## 6. Not modelled

* Clients of external services (aisweb, plugfield, ANAC scraper, HLS proxy): input and
  output without state.
* E-mail of non-conformities (`conformity/listeners/notification.listener.ts`): it looks for
  a recent notification, sends, and marks the event as notified whatever `send` answers.
  The column it writes is read by itself only, so no other property depends on it.
* The 48 h toggle of automatic readings and the chunks of a batch: Conformity creates
  movements of any type in any order, which includes what they produce; that readings of
  one chunk may infer the same type is accepted in
  `movements/services/create-movement.service.ts:214`.
* Resolver cache, contact form, rate limiter, listen retries: small, in memory or of one
  row, each with unit tests of its limits; the hazards among them are listed in
  PROJECT.json without a property.
* Notifications of movements: messages without state.
* Audit outside landing requests: best-effort inserts whose errors are swallowed and that
  nothing reads back.
* Dashboard, health, exports, listings: queries.
* Aerodromes, cameras, groups, feedbacks, tasks, maintenances, guesses, pilot landings:
  one read and one write per call, with unique constraints where two calls could collide.
* Permissions and scopes: tables evaluated per request, tested entry by entry.
* Passwords, signatures and hashes; the access token (JWT), which is valid until it
  expires whatever happens to the refresh token.
* A crash between the commit of a correction and the request for its evaluation: like a
  failed evaluation it leaves the landing PENDING, and the code has no recovery to check.

## 7. Plan

Done: `Conformity`, `Sessions`, `Onboarding`, `LandingRequests`, `RegisterSync`,
`GroupImages` and `StoredFiles`, with their proofs, and the refinements of `RequestBook` and
`ImageSlot`. What is left:

1. An abstract document slot per type, as `ImageSlot`, implemented by StoredFiles.
2. The e-mail of non-conformities over the register of Conformity: of two events of one
   aircraft and aerodrome within the window one is mailed, unless their look-ups overlap.
3. The cache of the camera resolver: an invalidated camera is served for one more TTL when
   a look-up was in flight.
