----------------------------- MODULE AudioSocket -----------------------------
(***************************************************************************)
(* The audio WebSocket (server/src/ws/audio-socket.ts) and the process-wide *)
(* budget its recordings draw on (server/src/ws/retention-budget.ts).       *)
(*                                                                         *)
(* A connection's handlers run on one JavaScript thread, so a step here is  *)
(* what runs between two awaits.  Every `start` message spawns a begin() of  *)
(* its own; a begin() that opens a recognizer may spawn a recording, whose  *)
(* edit check, storage check and upload opening are three more awaits that  *)
(* race the audio frames, the `stop` message and the close of the socket.   *)
(*                                                                         *)
(* Audio is measured in frames.  A recording is <<connection, start>>: the  *)
(* object the closure variable `retain` points at.                         *)
(***************************************************************************)
EXTENDS Integers, FiniteSets

CONSTANTS
    Conns,       \* the connections of one server process
    MaxStarts,   \* bound: `start` messages per connection
    MaxFrames,   \* bound: audio frames per connection
    Window,      \* UPLOAD_MEMORY_WINDOW_BYTES
    Budget,      \* AUDIO_RETENTION_MAX_TOTAL_MB, 0 = no limit
    MaxPending,  \* MAX_PENDING_BYTES, in frames
    SessionCap,  \* AUDIO_RETENTION_MAX_SESSION_MB in frames, 0 = no cap
    HighWater    \* UPLOAD_HIGH_WATER_MARK in frames: below it no back-pressure

ASSUME BoundsAssumption ==
    /\ IsFiniteSet(Conns)
    /\ MaxStarts \in Nat /\ MaxFrames \in Nat
    /\ Window \in Nat \ {0}
    /\ Budget \in Nat

\* 512 KB are held before the edit check answers; a session cap is a whole
\* number of megabytes and the stream pushes back at 1 MiB.
ASSUME SizesAssumption ==
    /\ MaxPending \in Nat /\ SessionCap \in Nat /\ HighWater \in Nat
    /\ MaxPending < HighWater
    /\ SessionCap # 0 => MaxPending < SessionCap

Starts == 1..MaxStarts
Rec == Conns \X Starts

VARIABLES
    ws,         \* [Conns -> ...] the socket: open, closing, closed
    begins,     \* [Rec -> ...] a begin(): none, checking, over
    streams,    \* [Rec -> ...] the recognizer stream it opened: none, live, ended
    stream,     \* [Conns -> 0..MaxStarts] the closure's `stream`, 0 = null
    stopped,    \* [Conns -> BOOLEAN]
    frames,     \* [Conns -> Nat] frames received, for the bound
    retain,     \* [Conns -> 0..MaxStarts] the closure's `retain`, 0 = null
    task,       \* [Rec -> ...] the async part of beginRetention
    upload,     \* [Rec -> ...] r.upload: null, open, done, aborted
    capped,     \* [Rec -> BOOLEAN] r.capped
    discard,    \* [Rec -> BOOLEAN] r.discard
    pending,    \* [Rec -> Nat] frames held until the upload is open
    bytes,      \* [Rec -> Nat] frames handed to the upload
    flush,      \* [Rec -> ...] where flushRetention(r) is
    heldBytes,  \* the budget's counter
    reserved    \* history: the recordings whose reservation is outstanding

connVars == <<ws, begins, streams, stream, stopped, frames>>
recVars  == <<retain, task, upload, capped, discard, pending, bytes>>
vars == <<ws, begins, streams, stream, stopped, frames, retain, task, upload,
          capped, discard, pending, bytes, flush, heldBytes, reserved>>

TypeOK ==
    /\ ws \in [Conns -> {"open", "closing", "closed"}]
    /\ begins \in [Rec -> {"none", "checking", "over"}]
    /\ streams \in [Rec -> {"none", "live", "ended"}]
    /\ stream \in [Conns -> 0..MaxStarts]
    /\ stopped \in [Conns -> BOOLEAN]
    /\ frames \in [Conns -> 0..MaxFrames]
    /\ retain \in [Conns -> 0..MaxStarts]
    /\ task \in [Rec -> {"none", "owner", "capacity", "opening", "over"}]
    /\ upload \in [Rec -> {"null", "open", "done", "aborted"}]
    /\ capped \in [Rec -> BOOLEAN]
    /\ discard \in [Rec -> BOOLEAN]
    /\ pending \in [Rec -> Nat]
    /\ bytes \in [Rec -> Nat]
    /\ flush \in [Rec -> {"none", "aborting", "completing", "recording",
                          "charging", "over"}]
    /\ heldBytes \in Nat
    /\ reserved \subseteq Rec

Init ==
    /\ ws = [c \in Conns |-> "open"]
    /\ begins = [r \in Rec |-> "none"]
    /\ streams = [r \in Rec |-> "none"]
    /\ stream = [c \in Conns |-> 0]
    /\ stopped = [c \in Conns |-> FALSE]
    /\ frames = [c \in Conns |-> 0]
    /\ retain = [c \in Conns |-> 0]
    /\ task = [r \in Rec |-> "none"]
    /\ upload = [r \in Rec |-> "null"]
    /\ capped = [r \in Rec |-> FALSE]
    /\ discard = [r \in Rec |-> FALSE]
    /\ pending = [r \in Rec |-> 0]
    /\ bytes = [r \in Rec |-> 0]
    /\ flush = [r \in Rec |-> "none"]
    /\ heldBytes = 0
    /\ reserved = {}

-----------------------------------------------------------------------------
(* The budget.                                                             *)

CanStart == Budget = 0 \/ heldBytes < Budget

\* Mutant: any room at all is taken for room for a whole window.
ReservableIfAnyRoom == Budget = 0 \/ heldBytes < Budget

Reservable == Budget = 0 \/ heldBytes + Window <= Budget

Reserve(r) ==
    /\ heldBytes' = heldBytes + Window
    /\ reserved' = reserved \union {r}

Release(r) ==
    /\ heldBytes' = IF heldBytes > Window THEN heldBytes - Window ELSE 0
    /\ reserved' = reserved \ {r}

BudgetUnchanged == UNCHANGED <<heldBytes, reserved>>

-----------------------------------------------------------------------------
(* Starting: begin() waits on the speaker's capacity, then opens the         *)
(* recognizer and calls beginRetention, all of whose synchronous part runs  *)
(* in the same step.                                                       *)

\* The handler's only guard is `!stream`, read when the message arrives.
Start(r) ==
    /\ ws[r[1]] # "closed"
    /\ stream[r[1]] = 0
    /\ begins[r] = "none"
    /\ \A b \in Starts : b < r[2] => begins[<<r[1], b>>] # "none"
    /\ begins' = [begins EXCEPT ![r] = "checking"]
    /\ UNCHANGED <<ws, streams, stream, stopped, frames, recVars, flush>>
    /\ BudgetUnchanged

ServerClose(c) ==
    ws' = [ws EXCEPT ![c] = IF @ = "open" THEN "closing" ELSE @]

\* Allowance spent, no speech engine, or startStream threw.
BeginRefused(r) ==
    /\ begins[r] = "checking"
    /\ begins' = [begins EXCEPT ![r] = "over"]
    /\ ServerClose(r[1])
    /\ UNCHANGED <<streams, stream, stopped, frames, recVars, flush>>
    /\ BudgetUnchanged

OpenStream(r) ==
    /\ begins[r] = "checking"
    /\ begins' = [begins EXCEPT ![r] = "over"]
    /\ streams' = [streams EXCEPT ![r] = "live"]
    /\ stream' = [stream EXCEPT ![r[1]] = r[2]]
    /\ UNCHANGED <<ws, stopped, frames, upload, capped, discard, pending,
                   bytes, flush>>

BeginRetaining(r) ==
    /\ OpenStream(r)
    /\ CanStart /\ Reservable
    /\ Reserve(r)
    /\ retain' = [retain EXCEPT ![r[1]] = r[2]]
    /\ task' = [task EXCEPT ![r] = "owner"]

\* Retention disabled, no deck or session named, or the budget is committed.
BeginWithoutRetaining(r) ==
    /\ OpenStream(r)
    /\ UNCHANGED <<retain, task>>
    /\ BudgetUnchanged

-----------------------------------------------------------------------------
(* The recording's own checks.                                             *)

Retained(r) == retain[r[1]] = r[2]

CapRetention(r) ==
    /\ capped' = [capped EXCEPT ![r] = TRUE]
    /\ pending' = [pending EXCEPT ![r] = 0]

TaskEnds(r) == task' = [task EXCEPT ![r] = "over"]

Deny(r) ==
    /\ TaskEnds(r)
    /\ CapRetention(r)
    /\ discard' = [discard EXCEPT ![r] = TRUE]

\* Mutant: the denial is noted but the return after it is missing.
OwnerDeniedWithoutReturn(r) ==
    /\ task[r] = "owner" /\ Retained(r)
    /\ task' = [task EXCEPT ![r] = "capacity"]
    /\ CapRetention(r)
    /\ discard' = [discard EXCEPT ![r] = TRUE]
    /\ UNCHANGED <<connVars, retain, upload, bytes, flush>>
    /\ BudgetUnchanged

\* The speaker may not edit the lecture, or it is gone.
OwnerDenied(r) ==
    /\ task[r] = "owner" /\ Retained(r)
    /\ Deny(r)
    /\ UNCHANGED <<connVars, retain, upload, bytes, flush>>
    /\ BudgetUnchanged

OwnerAllowed(r) ==
    /\ task[r] = "owner" /\ Retained(r)
    /\ task' = [task EXCEPT ![r] = "capacity"]
    /\ UNCHANGED <<connVars, retain, upload, capped, discard, pending, bytes,
                   flush>>
    /\ BudgetUnchanged

\* The one answer read before asking whether the session is over.
StorageFull(r) ==
    /\ task[r] = "capacity"
    /\ Deny(r)
    /\ UNCHANGED <<connVars, retain, upload, bytes, flush>>
    /\ BudgetUnchanged

StorageFree(r) ==
    /\ task[r] = "capacity" /\ Retained(r)
    /\ task' = [task EXCEPT ![r] = "opening"]
    /\ UNCHANGED <<connVars, retain, upload, capped, discard, pending, bytes,
                   flush>>
    /\ BudgetUnchanged

\* `retain !== r` after an await.  An upload that opened meanwhile is aborted
\* without ever having been assigned.
SessionOver(r) ==
    /\ task[r] \in {"owner", "capacity", "opening"}
    /\ ~Retained(r)
    /\ TaskEnds(r)
    /\ UNCHANGED <<connVars, retain, upload, capped, discard, pending, bytes,
                   flush>>
    /\ BudgetUnchanged

OpenFailed(r) ==
    /\ task[r] = "opening"
    /\ Deny(r)
    /\ UNCHANGED <<connVars, retain, upload, bytes, flush>>
    /\ BudgetUnchanged

\* The frames already held go out in one synchronous loop: `held` of them.
\* Each is a writeFrame, so the cap bounds how many leave.
Replayed(held) ==
    IF SessionCap # 0 /\ held > SessionCap THEN SessionCap ELSE held

\* Mutant: the session is not asked again once the upload is open.
OpenedWhateverHappened(r) ==
    /\ task[r] = "opening"
    /\ TaskEnds(r)
    /\ upload' = [upload EXCEPT ![r] = "open"]
    /\ bytes' = [bytes EXCEPT ![r] = Replayed(pending[r])]
    /\ pending' = [pending EXCEPT ![r] = 0]
    /\ UNCHANGED <<connVars, retain, capped, discard, flush>>
    /\ BudgetUnchanged

Opened(r) ==
    /\ task[r] = "opening"
    /\ Retained(r)
    /\ TaskEnds(r)
    /\ upload' = [upload EXCEPT ![r] = "open"]
    /\ bytes' = [bytes EXCEPT ![r] = Replayed(pending[r])]
    /\ pending' = [pending EXCEPT ![r] = 0]
    /\ \E accepted \in IF bytes'[r] < HighWater THEN {TRUE} ELSE BOOLEAN :
          capped' = [capped EXCEPT
                        ![r] = @ \/ ~accepted \/ bytes'[r] < pending[r]]
    /\ UNCHANGED <<connVars, retain, discard, flush>>
    /\ BudgetUnchanged

-----------------------------------------------------------------------------
(* Audio frames.                                                           *)

OverCap(n) == SessionCap # 0 /\ n > SessionCap

WriteFrame(r) ==
    /\ upload[r] # "null"
    /\ \/ /\ OverCap(bytes[r] + 1)
          /\ CapRetention(r)
          /\ UNCHANGED bytes
       \/ /\ ~OverCap(bytes[r] + 1)
          /\ bytes' = [bytes EXCEPT ![r] = @ + 1]
          /\ \/ UNCHANGED <<capped, pending>>
             \/ bytes'[r] >= HighWater /\ CapRetention(r)

HoldFrame(r) ==
    /\ upload[r] = "null"
    /\ UNCHANGED bytes
    /\ \/ /\ pending[r] + 1 > MaxPending
          /\ CapRetention(r)
       \/ /\ pending[r] + 1 <= MaxPending
          /\ pending' = [pending EXCEPT ![r] = @ + 1]
          /\ UNCHANGED capped

\* The recording this connection's frames are copied to.
Teed(r, c) == r[1] = c /\ Retained(r) /\ ~capped[r]

Frame(c) ==
    /\ ws[c] # "closed"
    /\ frames[c] < MaxFrames
    /\ frames' = [frames EXCEPT ![c] = @ + 1]
    /\ \/ /\ ~\E r \in Rec : Teed(r, c)
          /\ UNCHANGED <<capped, pending, bytes>>
       \/ \E r \in Rec : /\ Teed(r, c)
                         /\ WriteFrame(r) \/ HoldFrame(r)
    /\ UNCHANGED <<ws, begins, streams, stream, stopped, retain, task, upload,
                   discard, flush>>
    /\ BudgetUnchanged

-----------------------------------------------------------------------------
(* Ending: finish() stops the recognizer and starts flushRetention, whose   *)
(* synchronous part takes `retain`.                                        *)

EndStream(c) ==
    streams' = [r \in Rec |->
        IF r = <<c, stream[c]>> THEN "ended" ELSE streams[r]]

\* Where the flush of an opened upload goes first.
FlushOf(r) == IF discard[r] \/ bytes[r] = 0 THEN "aborting" ELSE "completing"

\* Mutant: `retain` is not taken, so a close after a stop flushes again.
TakeRetainedNot(r) ==
    /\ UNCHANGED retain
    /\ \/ /\ upload[r] = "null"
          /\ flush' = [flush EXCEPT ![r] = "over"]
          /\ Release(r)
       \/ /\ upload[r] # "null"
          /\ flush' = [flush EXCEPT ![r] = FlushOf(r)]
          /\ BudgetUnchanged

\* Mutant: the reservation goes back when the flush starts, not in `finally`.
TakeRetainedReleasing(r) ==
    /\ retain' = [retain EXCEPT ![r[1]] = 0]
    /\ flush' = [flush EXCEPT ![r] =
          IF upload[r] = "null" THEN "over" ELSE FlushOf(r)]
    /\ Release(r)

\* With nothing opened there is nothing to undo and no await: the `finally`
\* that releases runs in the same step.
TakeRetained(r) ==
    /\ retain' = [retain EXCEPT ![r[1]] = 0]
    /\ \/ /\ upload[r] = "null"
          /\ flush' = [flush EXCEPT ![r] = "over"]
          /\ Release(r)
       \/ /\ upload[r] # "null"
          /\ flush' = [flush EXCEPT ![r] = FlushOf(r)]
          /\ BudgetUnchanged

NothingRetained(c) ==
    /\ retain[c] = 0
    /\ UNCHANGED <<retain, flush>>
    /\ BudgetUnchanged

BeginFlush(c) ==
    \/ NothingRetained(c)
    \/ \E r \in Rec : r[1] = c /\ Retained(r) /\ TakeRetained(r)

Finish(c) ==
    /\ stopped' = [stopped EXCEPT ![c] = TRUE]
    /\ EndStream(c)
    /\ BeginFlush(c)
    /\ UNCHANGED <<begins, stream, frames, task, upload, capped, discard,
                   pending, bytes>>

\* A `stop` message; the socket's `error` event runs the same handler.
Stop(c) ==
    /\ ws[c] # "closed"
    /\ Finish(c)
    /\ UNCHANGED ws

Close(c) ==
    /\ ws[c] # "closed"
    /\ ws' = [ws EXCEPT ![c] = "closed"]
    /\ Finish(c)

\* A settle found the speaker's allowance spent (SttMeter).
AllowanceSpent(c) ==
    /\ stream[c] # 0
    /\ EndStream(c)
    /\ ServerClose(c)
    /\ UNCHANGED <<begins, stream, stopped, frames, recVars, flush>>
    /\ BudgetUnchanged

\* The recognizer's events ran out; the client is told unless it had stopped.
ProviderEnds(r) ==
    /\ streams[r] = "live"
    /\ streams' = [streams EXCEPT ![r] = "ended"]
    /\ IF stopped[r[1]] THEN UNCHANGED ws ELSE ServerClose(r[1])
    /\ UNCHANGED <<begins, stream, stopped, frames, recVars, flush>>
    /\ BudgetUnchanged

-----------------------------------------------------------------------------
(* The awaits of flushRetention.                                           *)

FlushTo(r, from, to) ==
    /\ flush[r] = from
    /\ flush' = [flush EXCEPT ![r] = to]
    /\ UNCHANGED <<connVars, retain, task, capped, discard, pending, bytes>>

UploadDone(r) ==
    /\ FlushTo(r, "completing", "recording")
    /\ upload' = [upload EXCEPT ![r] = "done"]
    /\ BudgetUnchanged

DeckUpdated(r) ==
    /\ FlushTo(r, "recording", "charging")
    /\ UNCHANGED upload
    /\ BudgetUnchanged

\* Mutant: the failure is logged and nothing else happens.
FlushFailedSilently(r) ==
    /\ \E from \in {"completing", "recording"} : FlushTo(r, from, "over")
    /\ UNCHANGED upload
    /\ BudgetUnchanged

\* done() or the deck update threw: the catch aborts, then `finally`.
FlushFailed(r) ==
    /\ \E from \in {"completing", "recording"} : FlushTo(r, from, "aborting")
    /\ UNCHANGED upload
    /\ BudgetUnchanged

\* adjustGauge never throws.
GaugeCharged(r) ==
    /\ FlushTo(r, "charging", "over")
    /\ UNCHANGED upload
    /\ Release(r)

Aborted(r) ==
    /\ FlushTo(r, "aborting", "over")
    /\ upload' = [upload EXCEPT ![r] = IF @ = "done" THEN "done" ELSE "aborted"]
    /\ Release(r)

FlushStep(r) ==
    \/ UploadDone(r) \/ DeckUpdated(r) \/ FlushFailed(r)
    \/ GaugeCharged(r) \/ Aborted(r)

TaskStep(r) ==
    \/ OwnerDenied(r) \/ OwnerAllowed(r)
    \/ StorageFull(r) \/ StorageFree(r)
    \/ OpenFailed(r) \/ Opened(r) \/ SessionOver(r)

BeginStep(r) ==
    BeginRefused(r) \/ BeginRetaining(r) \/ BeginWithoutRetaining(r)

Next ==
    \/ \E r \in Rec : \/ Start(r) \/ BeginStep(r) \/ TaskStep(r)
                     \/ FlushStep(r) \/ ProviderEnds(r)
    \/ \E c \in Conns : Frame(c) \/ Stop(c) \/ Close(c) \/ AllowanceSpent(c)

Spec == Init /\ [][Next]_vars

\* Promises settle: a database or storage call answers or rejects, and the
\* event loop runs its continuation.  Nothing is assumed of the client.
Fairness ==
    \A r \in Rec : WF_vars(BeginStep(r)) /\ WF_vars(TaskStep(r))
                   /\ WF_vars(FlushStep(r))

FairSpec == Spec /\ Fairness

-----------------------------------------------------------------------------
(* Properties.                                                             *)

\* "Reserves right up to the ceiling but refuses to cross it": whatever the
\* sessions do, the counter never exceeds the configured total
\* (reserveRetentionBytes).
BudgetHonoured == Budget # 0 => heldBytes <= Budget

\* The counter is exactly one window per outstanding reservation: no session
\* is released twice and the clamp in releaseRetentionBytes never bites
\* ("flush at most once, even if close+error both fire").
HeldMatchesReservations == heldBytes = Window * Cardinality(reserved)

\* Audio that has left for the bucket, or waits to, belongs to a reservation
\* still held: the memory is never given away before the upload has finished
\* or been abandoned (flushRetention's finally).
AudioInFlightIsReserved ==
    \A r \in Rec :
        (upload[r] = "open" /\ bytes[r] > 0) \/ (Retained(r) /\ pending[r] > 0)
            => r \in reserved

\* A recording that was denied -- the speaker may not edit the lecture, the
\* owner's storage is full, the bucket refused -- never opens an upload:
\* "once bytes leave for the bucket they cannot be un-sent".
DeniedNeverUploads == \A r \in Rec : discard[r] => upload[r] = "null"

\* Once a session stops copying audio it never resumes: a recording is
\* truncated at the end, never given a hole (capRetention, writeFrame).
CapIsFinal ==
    [][\A r \in Rec : capped[r] => capped'[r] /\ bytes'[r] = bytes[r]]_vars

\* What was held while the edit check ran always fits the upload it goes to:
\* replaying it meets neither back-pressure nor the session cap, so the replay
\* loop, which does not stop at either, never has to (MAX_PENDING_BYTES
\* against UPLOAD_HIGH_WATER_MARK).
HeldFramesAlwaysFit ==
    [][\A r \in Rec : upload[r] = "null" /\ upload'[r] = "open" =>
          capped'[r] = capped[r] /\ bytes'[r] = pending[r]]_vars

\* Every open upload has an owner who will finish or abort it ("never leave
\* it dangling").  Holds when a connection sends one start message.
NoDanglingUpload ==
    \A r \in Rec : upload[r] = "open" =>
        Retained(r) \/ flush[r] \in {"aborting", "completing"}

\* A flush that began gives the reservation back, whatever fails on the way.
FlushReleases ==
    \A r \in Rec : flush[r] \notin {"none", "over"} ~> r \notin reserved

\* The counter implements the leases it stands for.
Leases == INSTANCE RetentionLeases WITH Recorder <- Rec, leases <- reserved
ImplementsLeases == Leases!Spec
=============================================================================
