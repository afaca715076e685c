# Slide Machine: verification models

Slide Machine turns a spoken lecture into slides. `src/server` is an Express
and MongoDB server, one Node.js process (or several) with no transactions: every
database, storage or vendor call is an `await`, and whatever else the process
does happens between two of them. `src/client` is a React application, and
`src/shared` holds the types both use. These modules model the server where that
concurrency, a failure, or a crash between two awaits can do harm.

Each module says at its head which file it models; `PROJECT.json` maps every
definition to its lines.

## Inventory

Paths are below `src/server/src`.

| Component | State | Operations | What is hard | What makes it correct |
|---|---|---|---|---|
| Audio socket, `ws/audio-socket.ts`, and retention budget, `ws/retention-budget.ts` | per socket: the stream, the recording, what is held and written; per process: bytes reserved | start, frames, stop, close; begin, edit check, storage check, opening, flush | four asynchronous chains race the frames and the end of the session | reservations balance and stay within the budget; nothing denied is uploaded; nothing is left open |
| Transcription metering, `settleStt` there, `billing/usage.ts`, `billing/meter-hooks.ts` | frames unmetered, the account's counter | settle, record, read the fraction, judge the capacity | settles overlap, several sockets share the counter, calls fail | every frame is counted once; a spent allowance stops the stream |
| Recording storage ledger, `jobs/audio-cleanup.ts`, `lib/cascade.ts`, `jobs/soft-delete-purge.ts`, `storage/index.ts` | objects, references on lectures, the gauge `audioStorageMb` | flush, expire, sweep, delete, restore, transfer, purge | three stores that are updated one after the other, by jobs that act on what they read long before | a live lecture's audio is there; the gauge errs high |
| Subscription webhooks, `billing/subscription.ts`, `routes/billing.ts`, `actions/billing.ts` | the Subscription row, `user.planTier` | webhook, downgrade from the application | repeated, reordered and concurrent deliveries; a failure between two writes | the account gets what it pays for |
| Cloud transcription adapter, `providers/google-cloud-transcription.ts` | the current stream, byte offsets, two timers | write, end, rollover, the stream's handlers | retired streams go on answering | word times are absolute; the iterable completes, and not too early |
| Cap notifications, `billing/cap-queue.ts`, `billing/cap-notifications.ts`, the reset in `billing/usage.ts` | per process: queued signals and timers; claims with a unique index | note, flush, claim, send, reset of the period | many calls cross one threshold at once; the claim precedes the send; a reset between two writes | one mail per crossing, a refusal is never forgotten, a restored allowance can warn again |
| Sessions, `auth/refresh-store.ts`, `auth/one-time-tokens.ts`, `auth/service.ts`, `routes/admin.ts` | refresh tokens, reset links, bans, the browser's cookie | login, refresh, logout, reset, ban, new password | rotation in two writes against a revocation; tabs sharing a cookie | a revoked account has no live session; tabs do not sign each other out |
| OAuth server for assistants, `oauth/store.ts`, `oauth/provider.ts`, `routes/oauth.ts`, `actions/mcp.ts` | consents, codes, access and refresh rows | authorize, approve, deny, exchange, rotate, revoke, disconnect | lost answers, retries, replays, a teardown while a pair is being written | one consent buys one pair; a client that behaves stays connected; an ended connection is dead |
| Narration objects, `models/tts-object.ts`, `routes/tts.ts`, `lib/cascade.ts` | content-addressed audio and marks, the lectures that refer to them | play, retain, release | a release is four calls, and playbacks and other purges run between them | what a lecture holds is not taken from it; nothing outlives its lectures |
| Template versions, `templates/versions.ts` | versions, pins | ensure, pin, purge | the purge against a new pin | a pinned version exists |
| Slide order, `actions/slide.ts`, `actions/deck.ts`, `actions/reconcile.ts` | `deck.slideOrder`, and an `index` in every slide | add, delete, duplicate, reorder, split, refine | read, await, write; the two copies; a job with a stale copy for minutes | no action undoes another's; the two copies agree |
| Refinement jobs, `actions/reconcile.ts` | a job's status, its copy of the lecture | start, split, narrate, finish | a process that dies; two requests | a job never loses a slide, is never stuck |
| Account and project deletion, `lib/cascade.ts`, `models/plugins/soft-delete.ts`, `jobs/soft-delete-purge.ts` | tombstones on four levels | delete, restore, purge | cascades that fail half-way | a restore brings back what its deletion took and nothing else; the purge takes nothing live |
| Access policy, dispatch, generation, enrichment, translation, quizzes, import and export, cost ledger, telemetry, mail, seeding, the client | little or none that others decide on | | | left to tests |

The components meet in few places. The socket calls the adapter for its words
and the meter for its allowance, and a recording it retained becomes the
ledger's. The flush of the socket, the sweep and the purge share the lecture, the
bucket and the gauge. The plan tier that billing writes is what the meter's
allowance and the sweep's retention window are computed from. The meter's counter
is what the cap notifications judge. A lecture's deletion starts a purge that ends
in the ledger's credit and in the release of its narration.

## Modules

| Module | Models | Role |
|---|---|---|
| `RetentionLeases` | what the budget promises | abstract specification |
| `AudioSocket` | the sockets of one process and the budget they share | detailed specification; implements `RetentionLeases` |
| `AudioSocketProof` | | theorems about `AudioSocket` |
| `SttMeter` | `settleStt` and the account's counter | |
| `RetainedAudio` | storage, references and gauge, with the jobs that move them | |
| `RetainedAudioProof` | | theorems about `RetainedAudio` |
| `EntitlementHistory` | what following the billing provider promises | abstract specification |
| `BillingEvents` | the provider, its deliveries and their handlers | implements `EntitlementHistory` under the conditions below |
| `SpeechStream` | one session of the speech adapter | |
| `TranscriptionProof` | | theorems about `SpeechStream` and `SttMeter` |
| `AuthSessions` | one account's sessions, reset links and what ends them | |
| `AuthSessionsProof` | | theorems about `AuthSessions` |
| `OAuthTokens` | one assistant's connection to one account | |
| `OAuthTokensProof` | | theorems about `OAuthTokens` |
| `NarrationObjects` | one synthesized object and the lectures that play it | |
| `SlideOrder` | one lecture's slides and the actions that arrange them | |
| `LectureProof` | | theorems about `NarrationObjects` and `SlideOrder` |
| `CapNotifications` | one allowance, the calls that spend it, the mails about it | |
| `BillingProof` | | theorems about `BillingEvents` and `CapNotifications` |
| `DeletionCascades` | deletion, restore and purge of accounts, projects, lectures and what they hold | |
| `DeletionCascadesProof` | | theorems about `DeletionCascades` |
| `MCAuthSessions`, `MCOAuthTokens`, `MCNarrationObjects`, `MCSlideOrder`, `MCDeletionCascades` | | symmetric instances for TLC |

### AudioSocket

A connection's handlers run on one JavaScript thread, so an action is what runs
between two awaits. `begins[<<c, b>>]` is the begin() of the b-th `start` of
connection c, `task` the asynchronous part of its `beginRetention`, `flush` its
`flushRetention`; `stream` and `retain` are the two closure variables, and it
matters that they are variables of the connection while the chains that read
them are many. `reserved` is a history variable: whose reservation is
outstanding. Frames are counted, not named. The server closing a socket is two
steps (`closing`, then the `close` event), as `ws.close()` leaves frames on the
way. The speaker's capacity, the edit check and the storage check answer
nondeterministically.

### SttMeter

Each settle is a task with four awaits at most; it acts on the *answer* it was
given, not on the counter as it is by then. `lost` counts the frames of an update
that failed: `recordUsage` never throws. Which of the free places a settle takes
is left open (`NextSlot`): nothing depends on it. `Held` counts what a socket's settles
hold as the size of a set, and not as a sum, so that it can be reasoned about. A
begin() is two steps, the capacity it asks for (`Begin`) and what it then does
(`Opened`), and the socket may close in between; a second recognizer is
AudioSocket's. The module's `MeterInit`, `MeterNext` and `MeterSpec` have the prefix
because one proof module extends both it and `SpeechStream`.

### RetainedAudio

The flush of a session, the sweep and the purge are three processes; each await
is a step, and `sweep` and `purge` hold what the job read when it began. Expiry
is an event: days are not counted. Soft-deleted lectures are invisible to `find`
and `updateOne` (`models/plugins/soft-delete.ts`), which is why `PushReference`
and `SweepPull` do nothing on a tombstone. Deletes of objects are best effort and
may fail. `adjustGauge` swallows its errors (`AdjustLost`). `Listed` are the
lectures a purge has found and not yet removed; `astray` remembers the recordings
whose reference was still to come when their lecture was restored while listed.

### BillingEvents

`history` is the provider's list of subscription states, each an event that is
delivered until it is acknowledged and may be repeated after that. A handler
reads the row, then writes it, then writes the account. `created` has whole
seconds (`PerSecond` ticks). The application's own change of plan is the handler
`Local`: it is dated by the server's clock, and nobody retries it. Handlers run
concurrently, as in the code. `amiss` remembers what that or the clock's resolution
has led to: a row overwritten that was not the one read, a row written while
another handler was between its two writes (`crossed`), an event applied over one
of the same second (`tied`). The properties hold until then and name which of
the three they except. Checkout puts
the account's id on the subscription, so attribution by reference is left out.

### SpeechStream

A chunk of audio is a unit of time and holds one word. The vendor is external: it
may answer late, answer after the stream was retired, fail, or never answer.
`origin` remembers where in the session each stream's audio lies, and is what
`WordsAbsolute` compares times with.

### AuthSessions

A request is a record in `work` that says which database call comes next, and
what the calls before it found. Changes of the account are numbered (`epoch`): a
password proved at login is the one of the time, so `auth[s]` is all there is to
know of it. A rotation finds the token, issues its successor, and then shortens
the old one, in that order, which is why a revocation between the first two
leaves the successor alive; `late` remembers such sessions and what is rotated
from them, and `RevocationIsComplete` says that there are no others.

### OAuthTokens

A pair of tokens is a number with a row of each kind, written in either order
(`Promise.all`). `Find` is the branch structure of `rotateTokens`, `Save` the
stamp that precedes the new pair. The assistant keeps the last pair it was told;
`Replay` is any other copy. `Tick` is held back so that the assistant retries
within the grace window, which is what the window is for. `late` has the pairs
that were being written while the connection was deleted.

### NarrationObjects

Objects do not interact, so one stands for all: its two files, its row and the
row's references. A purge holds the id of the row it found, and a row created
again has another id; that a pull or a deletion by a stale id matches nothing is
part of the argument. `holders` is, for each purge, who kept a reference from its
first lookup on; `claimed` is who was recorded on the row, at any time, since the
audio was last deleted. A playback that stopped between the audio and its sidecar
leaves audio without marks, as in the code.

### SlideOrder

The version check is Mongoose's and external to the sources: `push` sends an
unconditional `$push`, an array that was assigned or spliced is written only where
the stored version is the one loaded. The refine job goes on with its changed copy
after a refusal (`Refused`) or any other failed call (`SlideFailed`), as the catch in
its loop does: a save that failed leaves the copy changed, and a later save sends
it. Renumbering writes
each index on its own, in any order, and skips deleted slides. A request that dies
leaves what it had saved; `deaths` bounds how often a call fails or a process stops. The prefix of
`OrderInit`, `OrderNext` and `OrderSpec` is for the proof module it shares with
`NarrationObjects`.

### CapNotifications

A metered call reads the counter, works, and counts; the signal is queued after
that, in the memory of its server. The entry's timer stays set when it has fired,
and only taking the entry makes room for another: `RefusalIsClaimed` is about that.
A flush that has taken its signals forgets them where the account or the usage
cannot be read (`LookupFailed`); `lost` remembers refusals that went this way, by a
failed claim or with their server, and `RefusalIsClaimed` excepts them.
The three-second window is not counted; a timer fires some time. `stale` marks a
reset that met a call or a signal in progress. The prefix of `CapInit`, `CapNext`
and `CapSpec` is for the proof module it shares with `BillingEvents`.

### DeletionCascades

The cascades call one another over four levels, so a request is a stack: `calls`
holds the database calls it has still to make, and a call that finds records is
replaced by what is done with each (`Then`). An `updateMany` stamps one record at
a time, in any order, as other requests may come between. Stamps are readings of
one clock, each later than the last. What the soft-delete plugin does is spread as
in the code: `updateMany` and `find` see live records only (`Stampable`,
`Alive`), the restore and the purge say `withDeleted`, and `save()` and
`deleteMany` are not filtered. `killer` remembers whose deletion stamped a record,
`own` what was deleted on its own; `RestoreIsExact` compares both with what is
live. `mixed` marks what two cascades worked on at once, or one worked on half,
and `adrift` what was restored alone into something deleted. Who owns a lecture
and whose project it lies in are constants. `CascadeAssumption` says that there are
finitely many records, that each is in one collection, and that what a record
refers to exists.

## What is checked

Every run has `CHECK_DEADLOCK FALSE`: sessions, events and jobs are bounded, and
a behaviour that has used them up has rightly nothing left to do.

| Run | Instance | Properties |
|---|---|---|
| `AudioSocketSafety` | two sockets, one start and three frames each, a budget that fits one window but not two | `BudgetHonoured`, `HeldMatchesReservations`, `AudioInFlightIsReserved`, `DeniedNeverUploads`, `NoDanglingUpload`, `ImplementsLeases`, `FlushReleases` |
| `SttMeterSettles` | two sockets, four frames in all, a settle every two, an allowance of two, one failed call | `EveryFrameOnce`, `ClosedIsSettled`, `SpentStops` |
| `RetainedAudioSafety` | one lecture, two recordings; three disturbances among two deletions, a restore, a transfer, a crash and a failed call | `RecordingHasAudio`, `GaugeNeverUnderstates`, `GaugeOnlyCountsFindableAudio`, `PurgedAudioIsCredited`, `ExpiredIsRemoved` |
| `BillingEventsDelivered` | two subscriptions, two deliveries at once, two events to a second; three in all of events, a failure and a change made in the application | `TierMatchesRowIfServed`, `SettlesOnTheTruth`, `FollowsHistory`, `EveryEventAnswered` |
| `SpeechStreamSession` | three streams, four chunks | `WordsAbsolute`, `TailIsKept`, `EndedCompletes` |
| `AuthSessionsRevoked` | two requests at once, one browser with any number of tabs, three sessions, two links, one change of the account, one failure | `RevocationIsComplete`, `TabsStaySignedIn`, `OlderLinksStop` |
| `OAuthTokensRotation` | two requests at once, one consent, three pairs, a grace of two ticks, one end of the connection, one failure | `ClientStaysConnected`, `WindowIsBounded`, `EndedIsDead`, `OneConsentOnePair` |
| `NarrationObjectsShared` | two lectures, two playbacks and two purges at once, one failure | `NarrationGoesWithItsLecture`, `HoldersKeepTheirAudio`, `ClaimsAreNotForgotten` |
| `SlideOrderKept` | two requests at once on a lecture of two slides, two more to create, two splits of a job, one failed call or stopped process | `AnswersStayTrue`, `RenumberingRestoresOrder`, `NothingListedIsLost` |
| `CapNotificationsOnce` | one server, two metered calls and two flushes at once, an allowance of two, one reset, one failed call or lookup or stopped process | `OneMailPerCrossing`, `ClaimsAreCurrent`, `RefusalIsClaimed` |
| `DeletionCascadesRestored` | two cascades at once; two accounts, a project of the first with a lecture of each, a slide in one; three readings of the clock, one purge, one cascade that meets another or dies half-way | `RestoreIsExact`, `LiveIsNotPurged` |

`RevocationIsComplete`, `EndedIsDead`, `NarrationGoesWithItsLecture`,
`AnswersStayTrue`, `OneMailPerCrossing`, `WordsAbsolute`, `EveryFrameOnce`,
`GaugeNeverUnderstates`, `RestoreIsExact` and `TierMatchesRowIfServed` include
their module's `TypeOK`. Where a module has a proof module its `TypeOK` is proved
too, as a part of the inductive invariant.

One run, `BillingEventsFailure`, shows the code doing what a comment in it rules
out, and is a finding of `PROJECT.json`: the row is written, the write of
`planTier` fails, and the provider's retry is discarded as a duplicate.

### Bounds, and why they are enough

Two sockets are enough for the budget: the counter does not know who holds a
reservation, and a budget of less than two windows makes the second one's refusal
and its later success both happen. Three frames reach every branch of a frame:
held, over what may be held, written, over the session's cap, and dropped after
it. Four frames with a settle every two let a periodic settle, a second one and
the final one be in progress together, on the same socket or on two. Two
recordings let one expire while another is added under the sweep;
`MaxDisturbances` bounds how many of the deletions, restores, transfers, crashes and
failures happen in one behaviour, which of them is open, and every property is
violated by one or two where it is violated at all. Three events are enough to
repeat one and to reorder two around a third; `MaxTogether` has a failure or a
change made in the application take the place of one, and each of them with two
events reaches every branch. One paid tier suffices: the code compares no tiers but
for the application's own change, and what an account can be wrong about is paid
or free; the theorems are for any set of tiers. Three streams let a retired stream
answer while another retired stream and the current one do.

Two requests at once are what a race between two database calls takes; three
sessions or pairs are a token, its successor and a rival's successor. A link and
its replacement are two. Two lectures make a reference shared or not, and two
purges let one work by what the other changed. Two slides and two more to create
let a split have two new parts, or two requests add at once. Two calls reach an
allowance of two together, and a third exceeds it; flushes overlap as those of two
servers would, since a flush that took its signal shares only the claims. A lecture
handed to somebody else is what makes an account's deletion and a project's differ,
and three times let a part, its whole and the whole above that be deleted in turn.
One disturbance suffices to make both exceptions of the two properties necessary.

### Fairness, and why the code justifies it

- AudioSocket: weak fairness of the steps after an await. A database or storage
  call answers or rejects, and the event loop runs what follows. Nothing is
  assumed of the client.
- SttMeter: the same, for each settle.
- RetainedAudio: weak fairness of the sweep and of the purge, which run at
  startup and every day after that. Flushes need not progress.
- BillingEvents: a handler that began goes on, and the provider delivers each
  event again and again until it is answered (strong fairness per event: other
  events may be delivered in between).
- SpeechStream: an armed timer fires. Nothing is assumed of the vendor.
- CapNotifications: an armed timer fires, and the calls of a flush are answered or
  rejected. Nothing is assumed of the metered calls or of the administrator.
- The other modules state safety only.

## What is proved

A theorem holds for every value of the constants that the module's assumptions
allow; the bounds (`Max...`) among them may be any naturals. All eleven detailed
modules have proofs, three of the proof modules being about two of them each, and
every safety property of a passing run is proved. Every detailed module has one
inductive invariant, `IInv` (`MeterIInv` for `SttMeter`, `OrderIInv` for
`SlideOrder`, `CapIInv` for `CapNotifications`, `CascadeIInv` for
`DeletionCascades`), the conjunction of named parts; none of the properties is
inductive alone. TLC checked each invariant on the module's run before it was
proved. A part is preserved by a lemma of its own, with one step per action that
can disturb it.

### AudioSocketProof

`AudioSocketProof` proves, for every number of sockets, starts and frames and for
every budget, window and cap within the assumptions:

- `TypeCorrect`, `BudgetIsHonoured`, `CounterIsExact`, `MemoryIsBacked`,
  `DenialIsFinal`: the invariants `TypeOK`, `BudgetHonoured`,
  `HeldMatchesReservations`, `AudioInFlightIsReserved`, `DeniedNeverUploads`;
- `TruncationIsFinal`, `ReplayNeverCaps`: the action properties `CapIsFinal` and
  `HeldFramesAlwaysFit`;
- `BudgetImplementsLeases`: AudioSocket implements `RetentionLeases`;
- `UploadsAreOwned`: `NoDanglingUpload`, where a connection sends one start
  message (`MaxStarts = 1`, the hypothesis of the theorem; see the known limits).

The assumptions are those of `AudioSocket`. `BoundsAssumption`: finitely many
sockets and a positive window. `SizesAssumption`: what may be held before the
edit check answers (512 KB) is below the upload's high-water mark (1 MiB) and
below a session cap, which is a whole number of megabytes. The
second bounds what is held (`HeldFrames`) and is what `HeldFramesAlwaysFit`
rests on.

None of the invariants is inductive alone. That the counter is one window per
reservation is kept by a release only if the reservation was outstanding, and
whether it was depends on where the recording's begin, check, upload and flush
are. The inductive invariant is `IInv == TypeOK /\ Counted /\ \A r : RecInv(r)`:
`Counted` ties the counter to a finite set of reservations; `RecInv` says of one
recording that nothing exists of it before its begin is over (`Unborn`), that
`retain` and a running flush each imply the reservation and exclude one another
(`FlushOrder`), that the upload opens last, backed, and never once discarded
(`UploadOrder`), and that what is held is bounded (`HeldFrames`). The steps
preserve it in three layers: `TypeStep` for the types, `RecStep` for each
recording with one step per action, and `BudgetStep`, which shows that every step
is one of the three moves the budget knows. `BudgetImplementsLeases` follows from
the same three moves. `UploadsAreOwned` needs that with one start a connection has
one recording, so that nothing but the flush of an open upload takes `retain` from
its session (`OneRecording`, `OwnedStep`).

### OAuthTokensProof

`OAuthTokensProof` proves, for every number of requests, consents, pairs, ticks,
ends and failures, and every window of a tick or more (`OAuthAssumption`):

- `ConsentBuysOnePair`, `GraceIsNotRenewed`, `EndedConnectionIsDead`,
  `ClientKeepsItsConnection`: the invariants `OneConsentOnePair`,
  `WindowIsBounded`, `EndedIsDead`, `ClientStaysConnected`.

`IInv` has a part for each. A consent that bought a pair is spent (`ConsentInv`). A
rotation about to be stamped began no later than any that was, so that stamping it
cannot lengthen the window (`WindowInv`). A pair about to be written belongs to the
connection of now or is counted late (`EndInv`). For the client, as long as nothing
disturbed it: every request under way is its own and within the window, no two of
them write the same pair, and nobody presents a pair that is still being written
(`ClientInv`); with it goes `Unspent`, that a token lives for ever until it is
superseded. Types and these five are preserved in a lemma each
(`TypeStep`, `ConsentStep`, `WindowStep`, `EndStep`, `UnspentStep`, `ClientStep`),
with one step per action.

### RetainedAudioProof

For any number of lectures, users and recordings, and any mixture of deletions,
restores, transfers, crashes and failed calls (finitely many lectures, an owner
among the users: `BoundsAssumption`, `AccountsAssumption`):

- `AudioIsKept`, `GaugeIsNeverLow`, `ChargesAreFindable`: the invariants
  `RecordingHasAudio`, `GaugeNeverUnderstates`, `GaugeOnlyCountsFindableAudio`;
- `PurgedIsCredited`: the action property `PurgedAudioIsCredited`.

The properties name the disturbances they except, and so do the parts of `IInv`:
each says what is known as long as some kind of disturbance has not happened.
`Told` ties what has been done for a recording to where its flush is; `JobsInv` says
that a job which read its recordings long ago still holds expired ones of its
lecture, which is what keeps `RecordingHasAudio`. For the gauge, `Charged(u)` is
what an account was charged for and `Owed(u)` the part of it not yet credited.
The gauge is at most the one (`ChargedInv`), so that the clamp at zero is never
reached by more than was never charged, and at least the other less what was
credited though never charged (`OwedInv`). A credit moves both, once: what is on
its lecture has not been credited, no two jobs of a sweep have the same lecture,
and a job credits what it took off itself (`SweepInv`). For the purge
three parts follow a lecture from the list to its removal. A restored lecture that
is still listed has every reference to come among those `astray` (`ListedInv`), so
that what a lecture in hand refers to was read by the purge or is astray
(`ReadInv`); and without failed calls what was read has been credited before the
lecture is removed (`CreditedInv`). Without restores nothing it listed comes back to
life (`PurgeInv`), which the audio of live lectures rests on. The
lemma `Writers` says once which actions write which variable.

### BillingProof

`BillingEvents`, for any set of paid tiers, subscriptions and any number of events,
changes and failures:

- `TiersAgree`, `AccountSettles`: `TierMatchesRowIfServed` and `SettlesOnTheTruth`;
- `Follows`: `FollowsHistory`, the refinement of `EntitlementHistory`.

Neither the number of handlers at once nor the resolution of the clock is
restricted: what the properties except are the mishaps that a behaviour has met so
far (`amiss`, failures, changes made in the application), and the parts of the
invariant say what is known until then. A delivery carries the date of its event
and so does the row (`DeliveryInv`); dates never fall from a version to a later one
(`ClockInv`). As long as no row was overwritten unread and no two events of a second
were applied, the row is past whatever a handler has read of it or written
(`PastInv`), so that a write that is let through moves it forward, which is
`Follows`; and with one subscription an event that was answered is no later than the
row (`AckedInv`), which is what `AccountSettles` needs once all were. For the
account, at most one handler is between its two writes until two have crossed, and
the row is then its (`WrittenInv`); when none is, the account is on the row's tier
(`TierInv`).

`CapNotifications`, for any number of servers, flushes, resets and failures,
finitely many calls, and any positive allowance with a warning at or below it:

- `MailsAreOnePerCrossing`, `ClaimsStayCurrent`: `OneMailPerCrossing` and
  `ClaimsAreCurrent`;
- `QueuedSignalsAreTimed`: what is queued has an armed timer or a flush about to
  take it, the safety part of `RefusalIsClaimed`.

A mail sent, a mail about to be sent and a row not yet claimed are counted
together: a claim moves one, and only a reset makes another (`MailInv`, by the
cardinality of the flushes at `mail`). `Truthful` says that whatever claims a
threshold was reached is right about the counter. A failed lookup drops a signal
and with it nothing that any part counts.

### TranscriptionProof

`SpeechStream`, for any number of streams and chunks: `WordsStayAbsolute` (`WordsAbsolute`) and
`TailStays` (`TailIsKept`). The audio a stream was sent is an interval that
begins after its base, the current one's ends with what was written last
(`IntervalInv`, `OffsetInv`); a stream says no more than it heard, and every word
carries the base of its stream (`SaidInv`); as long as the iterable is open it
has all that was said (`HeardInv`). The count of chunks before a word is then the
size of an interval.

`SttMeter`, for finitely many sockets and any allowance, warning, settle size, and
number of frames and failures: `FramesAreMeteredOnce` (`EveryFrameOnce`). What the
settles of a socket hold is the size of a set of pairs (`Held`), so that a settle
that takes or gives up frames changes it by the size of one row (`PiecesChange`).
Only a settle on its way to the counter holds any (`HoldersRecord`). A settle
needs a free place: each of those in progress took a frame at least, so as long as
there is a frame to settle not all places are taken (`PlacesSuffice`,
`PlaceIsFree`).

### AuthSessionsProof

For any number of requests, browsers, sessions, links, changes and failures:
`RevocationCompletes`, `TabsStay`, `OlderLinksEnd` (`RevocationIsComplete`,
`TabsStaySignedIn`, `OlderLinksStop`). For the first, a session that works and is
not `late`, and a login or a rotation about to issue one, was begun after what the
last revocation sealed (`RevokedInv`). For the second, no two browsers ever share
a token (`OwnerInv`, from `HeldInv`: a client presents what it was given, and each
new token is handed out by one request), and a token in its grace window that is
still a cookie has its successor on the way to that browser (`GraceInv`). For the
third, a request that has dropped the links knows that only later ones work
(`CreateInv`).

### LectureProof

`NarrationObjects`, for any number of lectures, playbacks and failures and finitely many purges:
`NarrationGoes`, `HoldersKeep`, `ClaimsStand` (`NarrationGoesWithItsLecture`,
`HoldersKeepTheirAudio`, `ClaimsAreNotForgotten`). The purges work by the id of the row
they found (`HoldersInv`: while that row is there, those who held it refer to it),
and a row created again has an id that none of them holds, which there always is
by counting (`FreshIdIsFresh`). Unless `leaked`, whatever is left has somebody who
will remove it: an unreferred row a purge about to delete it, a file without a row
a playback or a purge (`EmptyRowIsSeen`, `FileIsSeen`). A claim is forgotten only by
the deletion of the row under it, and the purge that deletes the row has the audio
to delete next.

`SlideOrder`, for any number of slides, requests, splits and deaths:
`SavedAnswersStayTrue` (`AnswersStayTrue`), `RenumberingRestores`
(`RenumberingRestoresOrder`) and the action property `StaleCopiesLoseNothing`
(`NothingListedIsLost`). The lists are finite sequences without repetition, and the
first lemmas say what inserting, appending, removing and arranging make of one. Of
each request the invariant says where it can be with which slides (`PlaceInv`),
that its copy is what is stored as long as its version is, but for the new slides
that a job's failed saves have left in it (`CopyInv`), that what it
created and has not saved is listed nowhere (`MadeInv`) and is in no other request's
hands (`HeldByOne`, of `Held`), that what
it saved stays true (`KeptInv`), and, as long as nobody else writes, that an index
is right or still to do (`AloneInv`, `RestoredInv`). A step of one request is shown to
keep its own part, and to pass for the others (`Passes`): slides are only created
and deleted, the list gains what its maker made and loses only what is deleted, and
whoever was alone is not after a write. From that alone every other request's part
follows (`OthersKeep`).

### DeletionCascadesProof

For any tree of records and any number of requests, sweeps and disturbances:

- `NothingLiveIsPurged`: the action property `LiveIsNotPurged`;
- `RestoresAreExact`: `RestoreIsExact`.

The argument is about every stack that a cascade can build. `CascadeShape` says
which calls a request of each kind makes, and on what: nothing but what lies below
the record it is about (`Below`), for which the first lemmas say how the collections
nest. `DeadInv` is what the purge needs: below something deleted nothing is live
but the exceptions and what a restore is working on, and of what a call will remove
all that lies below is gone before it (`BottomUp`). With `MixedInv`, that what two
requests share is marked, it gives `LiveIsNotPurged`.

`RestoreIsExact` needs that a restore finds again what the deletion stamped,
although it looks by the stamp of the record above. `ChainInv`: what a deletion
stamped lies below a record (`Via`) that the same deletion stamped no later, or
is yet to stamp. `DeletionInv` says that the stack of a deletion is ordered so that
it will, `RestoreInv` that a restore comes to what lies below a record before it
brings back that record, and `OwnInv` that no restore comes to what was deleted on
its own before, since whatever is above it is stamped later.

A step replaces the call on top of one stack by those it leads to (`Then`), and
`StackChanges` says what that makes of the rest. For the request that moves, each
part has a lemma per kind of call. For all others the step passes (`Passes`): it
changes no record but below what its own request is about, and whatever two
requests share is mixed, which the parts leave out (`Settled`).

### Left to TLC

Liveness: `FlushReleases`, `ClosedIsSettled`, `SpentStops`, `ExpiredIsRemoved`,
`EveryEventAnswered`, `EndedCompletes`, `RefusalIsClaimed`. TLAPS does not reason
about `ENABLED`, which fairness rests on.

`CapIsFinal`, `HeldFramesAlwaysFit` (`TruncationIsFinal`, `ReplayNeverCaps`) and
`QueuedIsTimed` are proved only.

## Known limits of the code the properties are stated around

The passing runs state some properties under a condition. Outside of it the
modules reach the following, each by raising the bound it names:

- A second `start` before the first begin() has its stream replaces `retain`, and
  the first recording's reservation and upload are reachable by nothing
  (`MaxStarts = 2` with `NoDanglingUpload`).
- begin() goes on after its await although the socket closed meanwhile, and
  reserves for a session that is over: the reservation is never given back.
- A lecture restored after the purge listed it is removed although live, and
  what a session adds to it after the purge read it stays charged for ever
  (`astray`). Nothing is stated about the removal itself, as the code looks at a
  lecture only when it lists it.
- A recognizer stream retired by a rollover that fails after the caller ended
  completes the iterable while the current stream still has words; `TailIsKept` is
  stated for streams that end.
- A lecture deleted while its session records is charged for audio no lecture
  refers to; a lecture transferred later credits its new owner; a crash between
  the removal of a reference and its credit, or a failed update, leaves the gauge
  high for good (the sweep no longer finds the recording); a purge interrupted
  between credit and removal credits twice. `GaugeOnlyCountsFindableAudio`
  and `GaugeNeverUnderstates` name these events as exceptions.
- If the reference cannot be written after the upload completed, `abort()` leaves
  the completed object behind.
- Two deliveries for one account handled at once can overwrite a newer state that
  one of them had not read, and leave the account on the tier of one and the row
  on the other's; two events of one second delivered in the wrong order move the
  row backwards. The run reaches all three, and the properties end there (`amiss`).
  A change made in the application is dated by the application's clock and can hide
  a later state of the provider (`local`); the cancellation of a replaced
  subscription that arrives before the new one's creation leaves the account free
  (`SettlesOnTheTruth` is stated for one subscription).
- A login that was let through, or a rotation that found its token, before a
  revocation issues its session after it; so does whatever is rotated from that
  session. A pair of tokens being written while its connection is deleted survives
  likewise. `RevocationIsComplete` and `EndedIsDead` except these (`late`).
- Two requests for a reset link that interleave leave two links that work.
- A purge that stops between pulling its references and deleting the orphans
  leaves a row and files that no later purge finds; a playback that claims the
  object of a lecture being purged holds it for ever; `leaked` says when. A
  sidecar that could not be written leaves audio that is played without marks from
  then on, so that no property relates the two files.
- A slide deleted while another action creates, or whose deletion is refused by
  the version check after its tombstone, stays listed although deleted; one whose
  listing is refused after its creation is live and not listed. A client
  that orders only the live slides of such a lecture is rejected. A refine job whose
  copy was overtaken has all its later splits refused; one that dies between the
  first part's save and the creation of the others loses their words.
- Two slides added at once take their index from copies of the lecture that each
  read before the other's push; both get the same index and nothing renumbers, until
  the next action that does. `RenumberingRestoresOrder` is about the latter.
- A deletion that stops half-way, or a second deletion of the same lecture, leaves
  the lecture with a later time than its slides; restoring it brings it back
  empty (`mixed`). A lecture restored alone while its project or its account
  is deleted is live, and the purge of what is above removes it (`adrift`); so is
  what an account's restore brings back into a project that is deleted.
- An account's templates are stamped with it, but no restore brings them back and
  no purge removes them. Its id is taken off sharing lists at once, where the
  comment before `deleteUserCascade` says that this waits for the purge.
- A reset of the period that meets a queued signal lets it claim an allowance that
  is whole again; a server that stops forgets what it queued, and a flush that
  cannot read the account or its usage forgets what it took, as `takePending`
  deletes the entry first. The refusal is then mailed only after the next one.

## Plan

Modules to come, the most consequential first, with what each is for:

1. `TemplateVersions`: pins of lectures against the purge of unpinned versions.
2. `RefineJobs`: a job's status, its narration pass, and a second job at once.
3. A composition of `DeletionCascades` with the ledger of `RetainedAudio`: the purge
   of an account credits gauges of other accounts.
4. A composition of `CapNotifications` with `SttMeter`'s counter.
5. Pure arithmetic: the rounding of audio to milliseconds and megabytes
   (`lib/wav.ts`, `billing/usage.ts`), charge against credit.

Every safety property above has its theorem; a module to come should have its
invariant checked and proved with it. Not worth a theorem: properties about bounds
alone.

## What is not modelled

Besides the plan: the text of slides, prompts, layouts and translations, the
search for images, file conversions, quizzes, telemetry and audit rows that
nothing reads back, mail, seeding and the browser client, whose messages the
models take in any order. The access policy is a table of cases over one document
and one account. The rate limiter counts in one synchronous step. `PROJECT.json`
lists each with its files.
