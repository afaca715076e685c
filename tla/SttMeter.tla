------------------------------ MODULE SttMeter ------------------------------
(***************************************************************************)
(* Metering of cloud transcription: settleStt in ws/audio-socket.ts against  *)
(* the account's `sttMinutes` counter (billing/usage.ts, meter-hooks.ts).   *)
(*                                                                         *)
(* The sockets belong to one account.  Audio is counted in frames, and the  *)
(* allowance too.  Each socket may have several settles in progress: a      *)
(* settle takes what is unmetered and then waits for the counter, for the   *)
(* fraction spent and for the capacity, one after the other; what it acts   *)
(* on is the answer, not the counter as it is by then.  A second recognizer *)
(* of one socket is AudioSocket's.                                         *)
(***************************************************************************)
EXTENDS Integers, FiniteSets

CONSTANTS
    Conns,      \* the account's sockets
    Cap,        \* the allowance, in frames
    WarnAt,     \* what of it is worth a warning, in frames
    SettleAt,   \* frames between settles
    MaxFrames,  \* bound: frames in all
    MaxFaults   \* bound: database calls that fail

ASSUME AllowanceAssumption ==
    /\ Cap \in Nat \ {0} /\ WarnAt \in 0..Cap /\ SettleAt \in Nat \ {0}
    /\ IsFiniteSet(Conns) /\ MaxFrames \in Nat /\ MaxFaults \in Nat

Slots == 1..MaxFrames
Settle == Conns \X Slots

VARIABLES
    ws,         \* [Conns -> ...] open, closing, closed
    stream,     \* [Conns -> ...] null, live, ended
    begun,      \* [Conns -> ...] what begin() was answered: no, spare or spent
    sttBytes,   \* [Conns -> Nat] counted since the last settle
    sttStopped, \* [Conns -> BOOLEAN] a settle found the allowance spent
    sttWarned,  \* [Conns -> BOOLEAN]
    task,       \* [Settle -> [at, bytes, final, answer]]
    used,       \* the account's counter
    faults,     \* database calls that failed
    received,   \* history: [Conns -> Nat] frames counted
    metered,    \* history: [Conns -> Nat] frames on the counter
    lost        \* history: [Conns -> Nat] frames whose update failed

sockets == <<ws, stream, begun, sttStopped, sttWarned>>
history == <<received, metered, lost>>
meterVars == <<sockets, sttBytes, task, used, faults, history>>

Free == [at |-> "free", bytes |-> 0, final |-> FALSE, answer |-> "none"]

MeterTypeOK ==
    /\ ws \in [Conns -> {"open", "closing", "closed"}]
    /\ stream \in [Conns -> {"null", "live", "ended"}]
    /\ begun \in [Conns -> {"no", "spare", "spent"}]
    /\ sttBytes \in [Conns -> 0..MaxFrames]
    /\ sttStopped \in [Conns -> BOOLEAN] /\ sttWarned \in [Conns -> BOOLEAN]
    /\ task \in [Settle -> [at : {"free", "recording", "recorded", "fraction",
                                  "capacity"},
                            bytes : 0..MaxFrames, final : BOOLEAN,
                            answer : {"none", "spare", "spent"}]]
    /\ used \in Nat /\ faults \in 0..MaxFaults
    /\ \A h \in {received, metered, lost} :
          h \in [Conns -> 0..MaxFrames]

MeterInit ==
    /\ ws = [c \in Conns |-> "open"]
    /\ stream = [c \in Conns |-> "null"]
    /\ begun = [c \in Conns |-> "no"]
    /\ sttBytes = [c \in Conns |-> 0]
    /\ sttStopped = [c \in Conns |-> FALSE]
    /\ sttWarned = [c \in Conns |-> FALSE]
    /\ task = [k \in Settle |-> Free]
    /\ used = 0
    /\ faults = 0
    /\ received = [c \in Conns |-> 0]
    /\ metered = [c \in Conns |-> 0]
    /\ lost = [c \in Conns |-> 0]

-----------------------------------------------------------------------------

ServerClose(c) == ws' = [ws EXCEPT ![c] = IF @ = "open" THEN "closing" ELSE @]

EndStream(c) ==
    stream' = [stream EXCEPT ![c] = IF @ = "live" THEN "ended" ELSE @]

Fault == faults < MaxFaults /\ faults' = faults + 1

\* begin() asks for the capacity; the answer errs towards allowing.
Begin(c) ==
    /\ ws[c] = "open" /\ stream[c] = "null" /\ begun[c] = "no"
    /\ \/ begun' = [begun EXCEPT ![c] = IF used < Cap THEN "spare" ELSE "spent"] /\ UNCHANGED faults
       \/ begun' = [begun EXCEPT ![c] = "spare"] /\ Fault
    /\ UNCHANGED <<ws, stream, sttStopped, sttWarned, sttBytes, task, used, history>>

\* The recognizer opens, whatever became of the socket and of the allowance
\* meanwhile; or it is refused or cannot be opened.
Opened(c) ==
    /\ \/ /\ begun[c] = "spare"
          /\ stream' = [stream EXCEPT ![c] = "live"]
          /\ UNCHANGED ws
       \/ /\ begun[c] \in {"spare", "spent"}
          /\ ServerClose(c)
          /\ UNCHANGED stream
    /\ begun' = [begun EXCEPT ![c] = "no"]
    /\ UNCHANGED <<sttStopped, sttWarned, sttBytes, task, used, faults, history>>

\* A free place for one more settle of c: any, since they are alike.
NextSlot(c) == CHOOSE k \in {c} \X Slots : task[k] = Free

\* Mutant: the frames stay counted until the counter has been updated.
TakeLater(c, n, final) ==
    /\ task' = [task EXCEPT ![NextSlot(c)] =
                  [Free EXCEPT !.at = "recording", !.bytes = n, !.final = final]]
    /\ sttBytes' = [sttBytes EXCEPT ![c] = n]

\* settleStt: n frames are taken before the first await.
Take(c, n, final) ==
    /\ task' = [task EXCEPT ![NextSlot(c)] =
                  [Free EXCEPT !.at = "recording", !.bytes = n, !.final = final]]
    /\ sttBytes' = [sttBytes EXCEPT ![c] = 0]

\* A frame is counted once there is a stream, even one that has ended.
Frame(c) ==
    LET n == sttBytes[c] + 1
    IN  /\ ws[c] # "closed" /\ stream[c] # "null"
        /\ Cardinality({f \in Conns \X Slots : f[2] <= received[f[1]]}) < MaxFrames
        /\ received' = [received EXCEPT ![c] = @ + 1]
        /\ \/ n >= SettleAt /\ Take(c, n, FALSE)
           \/ /\ n < SettleAt
              /\ sttBytes' = [sttBytes EXCEPT ![c] = n]
              /\ UNCHANGED task
        /\ UNCHANGED <<sockets, used, faults, metered, lost>>

\* Mutant: what was not yet due for a settle is left unmetered.
FinishUnsettled(c) ==
    /\ EndStream(c)
    /\ UNCHANGED <<begun, sttStopped, sttWarned, sttBytes, task, used, faults, history>>

\* finish(): settleStt(true) returns at once when nothing is unmetered.
Finish(c) ==
    /\ EndStream(c)
    /\ \/ sttBytes[c] > 0 /\ Take(c, sttBytes[c], TRUE)
       \/ sttBytes[c] = 0 /\ UNCHANGED <<sttBytes, task>>
    /\ UNCHANGED <<begun, sttStopped, sttWarned, used, faults, history>>

Stop(c) == ws[c] # "closed" /\ Finish(c) /\ UNCHANGED ws

Disconnect(c) ==
    /\ ws[c] # "closed"
    /\ Finish(c)
    /\ ws' = [ws EXCEPT ![c] = "closed"]

\* What an await of a settle leaves alone.
Unmoved == UNCHANGED <<sockets, sttBytes, received>>

\* recordUsage: one $inc.
Recorded(k) ==
    /\ task[k].at = "recording"
    /\ task' = [task EXCEPT ![k].at = "recorded", ![k].bytes = 0]
    /\ used' = used + task[k].bytes
    /\ metered' = [metered EXCEPT ![k[1]] = @ + task[k].bytes]
    /\ UNCHANGED <<faults, lost>>
    /\ Unmoved

\* It never throws: the count is lost and the settle goes on.
RecordFailed(k) ==
    /\ task[k].at = "recording"
    /\ task' = [task EXCEPT ![k].at = "recorded", ![k].bytes = 0]
    /\ Fault
    /\ lost' = [lost EXCEPT ![k[1]] = @ + task[k].bytes]
    /\ UNCHANGED <<used, metered>>
    /\ Unmoved

AfterRecording(k) ==
    /\ task[k].at = "recorded"
    /\ task' = [task EXCEPT ![k] =
          IF @.final \/ sttStopped[k[1]] THEN Free
          ELSE [@ EXCEPT !.at = IF sttWarned[k[1]] THEN "capacity"
                                ELSE "fraction"]]
    /\ UNCHANGED <<used, faults, metered, lost>>
    /\ Unmoved

\* The counter is read: by usedFractionOf or by userHasCapacity.
Answer(k, at, threshold) ==
    /\ task[k].at = at /\ task[k].answer = "none"
    /\ task' = [task EXCEPT ![k].answer =
                  IF used >= threshold THEN "spent" ELSE "spare"]
    /\ UNCHANGED <<used, faults, metered, lost>>
    /\ Unmoved

\* Mutant: an allowance spent to the last frame is not yet spent.
CounterReadLate(k) == Answer(k, "fraction", WarnAt) \/ Answer(k, "capacity", Cap + 1)

CounterRead(k) == Answer(k, "fraction", WarnAt) \/ Answer(k, "capacity", Cap)

\* Both err towards allowing.
ReadFailed(k) ==
    /\ task[k].at \in {"fraction", "capacity"} /\ task[k].answer = "none"
    /\ Fault
    /\ task' = [task EXCEPT ![k].answer = "spare"]
    /\ UNCHANGED <<used, metered, lost>>
    /\ Unmoved

\* The settle acts on the fraction.
Warn(k) ==
    LET c == k[1]
    IN  /\ task[k].at = "fraction" /\ task[k].answer # "none"
        /\ task' = [task EXCEPT ![k].at = "capacity", ![k].answer = "none"]
        /\ \/ /\ task[k].answer = "spent"
              /\ sttWarned' = [sttWarned EXCEPT ![c] = TRUE]
           \/ /\ task[k].answer = "spare"
              /\ UNCHANGED sttWarned
        /\ UNCHANGED <<ws, stream, begun, sttStopped, sttBytes, used, faults, received,
                       metered, lost>>

\* It acts on the capacity.
Judge(k) ==
    LET c == k[1]
    IN  /\ task[k].at = "capacity" /\ task[k].answer # "none"
        /\ task' = [task EXCEPT ![k] = Free]
        /\ \/ task[k].answer = "spare" /\ UNCHANGED sockets
           \/ /\ task[k].answer = "spent"
              /\ sttStopped' = [sttStopped EXCEPT ![c] = TRUE]
              /\ EndStream(c)
              /\ ServerClose(c)
              /\ UNCHANGED <<begun, sttWarned>>
        /\ UNCHANGED <<sttBytes, used, faults, history>>

SettleStep(k) ==
    \/ Recorded(k) \/ RecordFailed(k) \/ AfterRecording(k)
    \/ CounterRead(k) \/ ReadFailed(k) \/ Warn(k) \/ Judge(k)

MeterNext ==
    \/ \E c \in Conns : Begin(c) \/ Opened(c)
    \/ \E c \in Conns : Frame(c) \/ Stop(c) \/ Disconnect(c)
    \/ \E k \in Settle : SettleStep(k)

MeterSpec == MeterInit /\ [][MeterNext]_meterVars

\* A database call answers or rejects, and its continuation runs.
MeterFairSpec == MeterSpec /\ \A k \in Settle : WF_meterVars(SettleStep(k))

-----------------------------------------------------------------------------
(* Properties.                                                             *)

\* What the settles of a socket hold: frame <<s, n>> is the n-th of the settle at s.
Held(c) == Cardinality({f \in Slots \X Slots : f[2] <= task[<<c, f[1]>>].bytes})

\* Every frame counted is in exactly one place: not yet settled, held by one
\* settle, on the counter, or lost with a failed update.  "Taken before the
\* await so concurrent frames cannot be counted twice" (settleStt), and a final
\* settle racing a periodic one loses nothing.
EveryFrameOnce ==
    /\ MeterTypeOK
    /\ \A c \in Conns : received[c] = sttBytes[c] + Held(c) + metered[c] + lost[c]

\* All the frames of a closed socket are settled at last, those of the final
\* settle included: on the counter, or lost with a failed update (finish,
\* settleStt(true)).
ClosedIsSettled ==
    \A c \in Conns : ws[c] = "closed" ~> metered[c] + lost[c] = received[c]

\* A settle about to ask when the account is at its cap or past it stops its
\* socket's stream, unless a database call failed: what is left running "would
\* otherwise spend an unbounded amount" (settleStt).
SpentStops ==
    \A k \in Settle :
        task[k].at \in {"fraction", "capacity"} /\ task[k].answer = "none"
            /\ used >= Cap
          ~> stream[k[1]] = "ended" \/ faults > 0

=============================================================================
