---------------------------- MODULE SpeechStream ----------------------------
(***************************************************************************)
(* One session of the Google Cloud speech adapter                           *)
(* (providers/google-cloud-transcription.ts): a row of recognizer streams,   *)
(* each replaced before the vendor's time limit, behind one iterable of     *)
(* events.                                                                 *)
(*                                                                         *)
(* A chunk of audio is one unit of time and holds one word.  The vendor's    *)
(* side is external: an open or half-closed stream returns its words in      *)
(* order with offsets counted from its own first chunk, then ends or fails;  *)
(* a stream that was retired goes on answering.                             *)
(***************************************************************************)
EXTENDS Naturals, FiniteSets

CONSTANTS
    MaxStreams,   \* bound: streams opened in the session
    MaxChunks     \* bound: chunks of audio

ASSUME CountsAssumption == MaxStreams \in Nat \ {0} /\ MaxChunks \in Nat

Streams == 1..MaxStreams

VARIABLES
    ended,        \* the caller ended the session
    queue,        \* the iterable: open, or what closed it
    recognize,    \* the current stream
    restartTimer, \* whether it is armed
    graceTimer,   \* whether it is armed
    sessionByteOffset, currentStreamBytes,
    streamBase,   \* [Streams -> Nat] streamBaseMs, frozen at open
    vendor,       \* [Streams -> ...] the vendor's side of each stream
    origin,       \* history: [Streams -> Seq] where its chunks are in the session
    sent,         \* history: chunks written so far
    said,         \* [Streams -> Nat] words returned so far
    events        \* words in the iterable: [stream, word, at]

callerVars == <<ended, recognize, restartTimer, graceTimer, sessionByteOffset,
                currentStreamBytes, streamBase>>
vars == <<callerVars, queue, vendor, origin, sent, said, events>>

TypeOK ==
    /\ ended \in BOOLEAN
    /\ queue \in {"open", "failed", "retired", "current", "lapsed"}
    /\ recognize \in Streams
    /\ restartTimer \in BOOLEAN /\ graceTimer \in BOOLEAN
    /\ sessionByteOffset \in 0..MaxChunks
    /\ currentStreamBytes \in 0..MaxChunks
    /\ streamBase \in [Streams -> 0..MaxChunks]
    /\ vendor \in [Streams -> {"unopened", "open", "halfclosed", "over"}]
    /\ origin \in [Streams -> SUBSET (1..MaxChunks)]
    /\ sent \in 0..MaxChunks
    /\ said \in [Streams -> 0..MaxChunks]
    /\ events \subseteq [stream : Streams, word : 1..MaxChunks, at : 1..2*MaxChunks]

\* open() of the first stream.
Init ==
    /\ ended = FALSE
    /\ queue = "open"
    /\ recognize = 1
    /\ restartTimer = TRUE
    /\ graceTimer = FALSE
    /\ sessionByteOffset = 0
    /\ currentStreamBytes = 0
    /\ streamBase = [s \in Streams |-> 0]
    /\ vendor = [s \in Streams |-> IF s = 1 THEN "open" ELSE "unopened"]
    /\ origin = [s \in Streams |-> {}]
    /\ sent = 0
    /\ said = [s \in Streams |-> 0]
    /\ events = {}

-----------------------------------------------------------------------------

Close(by) == queue' = IF queue = "open" THEN by ELSE queue

HalfClosed(v, s) ==
    [v EXCEPT ![s] = IF @ = "open" THEN "halfclosed" ELSE @]

Commit == sessionByteOffset' = sessionByteOffset + currentStreamBytes

\* restart(): commit the old stream's audio, open the next, half-close the old.
\* v is the vendor's side as the caller of restart leaves it.
Restart(v) ==
    /\ recognize + 1 \in Streams
    /\ Commit
    /\ currentStreamBytes' = 0
    /\ recognize' = recognize + 1
    /\ streamBase' = [streamBase EXCEPT ![recognize'] = sessionByteOffset']
    /\ vendor' = [HalfClosed(v, recognize) EXCEPT ![recognize'] = "open"]
    /\ restartTimer' = TRUE
    /\ UNCHANGED <<ended, graceTimer, queue>>

RestartTimer ==
    /\ restartTimer
    /\ Restart(vendor)
    /\ UNCHANGED <<origin, sent, said, events>>

Write ==
    /\ ~ended
    /\ sent < MaxChunks
    /\ sent' = sent + 1
    /\ currentStreamBytes' = currentStreamBytes + 1
    /\ origin' = [origin EXCEPT ![recognize] =
                    IF vendor[recognize] = "open" THEN @ \union {sent'} ELSE @]
    /\ UNCHANGED <<ended, recognize, restartTimer, graceTimer, sessionByteOffset,
                   streamBase, queue, vendor, said, events>>

\* Mutant: the grace window is not armed.
EndWithoutGrace ==
    /\ ~ended
    /\ ended' = TRUE
    /\ restartTimer' = FALSE
    /\ graceTimer' = FALSE
    /\ vendor' = HalfClosed(vendor, recognize)
    /\ UNCHANGED <<recognize, sessionByteOffset, currentStreamBytes, streamBase,
                   queue, origin, sent, said, events>>

\* Mutant: the iterable is completed as soon as the caller ends.
EndAtOnce ==
    /\ ~ended
    /\ ended' = TRUE
    /\ restartTimer' = FALSE
    /\ graceTimer' = FALSE
    /\ Close("current")
    /\ vendor' = HalfClosed(vendor, recognize)
    /\ UNCHANGED <<recognize, sessionByteOffset, currentStreamBytes, streamBase,
                   origin, sent, said, events>>

\* end(); `recognize` is null only inside restart.
End ==
    /\ ~ended
    /\ ended' = TRUE
    /\ restartTimer' = FALSE
    /\ graceTimer' = TRUE
    /\ vendor' = HalfClosed(vendor, recognize)
    /\ UNCHANGED <<recognize, sessionByteOffset, currentStreamBytes, streamBase,
                   queue, origin, sent, said, events>>

FinishGrace(by) ==
    /\ graceTimer' = FALSE
    /\ Close(by)

GraceTimer ==
    /\ graceTimer
    /\ FinishGrace("lapsed")
    /\ UNCHANGED <<ended, recognize, restartTimer, sessionByteOffset,
                   currentStreamBytes, streamBase, vendor, origin, sent, said,
                   events>>

-----------------------------------------------------------------------------
(* What a stream's handlers do with what the vendor sends.                   *)

Answering(s) == vendor[s] \in {"open", "halfclosed"}

\* Mutant: the base is read when the words arrive.
BaseAtArrival(s) == sessionByteOffset

Base(s) == streamBase[s]

\* 'data': the next word of s; a closed iterable drops it.
Data(s) ==
    /\ Answering(s)
    /\ said[s] < Cardinality(origin[s])
    /\ said' = [said EXCEPT ![s] = @ + 1]
    /\ events' = IF queue # "open" THEN events ELSE
          events \union {[stream |-> s, word |-> said'[s],
                          at |-> Base(s) + said'[s]]}
    /\ UNCHANGED <<callerVars, queue, vendor, origin, sent>>

Over(s) == [vendor EXCEPT ![s] = "over"]

\* 'end': everything the vendor will say about the audio has been said.
StreamEnd(s) ==
    /\ vendor[s] = "halfclosed"
    /\ said[s] = Cardinality(origin[s])
    /\ vendor' = Over(s)
    /\ \/ /\ ended /\ recognize = s
          /\ FinishGrace("current")
       \/ /\ ~(ended /\ recognize = s)
          /\ UNCHANGED <<graceTimer, queue>>
    /\ UNCHANGED <<ended, recognize, restartTimer, sessionByteOffset,
                   currentStreamBytes, streamBase, origin, sent, said, events>>

\* 'error' OUT_OF_RANGE before the session ended.
LimitError(s) ==
    /\ Answering(s)
    /\ ~ended
    /\ Restart(Over(s))
    /\ UNCHANGED <<origin, sent, said, events>>

\* Any other error before the session ended.
FatalError(s) ==
    /\ Answering(s)
    /\ ~ended
    /\ vendor' = Over(s)
    /\ Close("failed")
    /\ UNCHANGED <<callerVars, origin, sent, said, events>>

\* Any error after it: the handler does not ask which stream it belongs to.
LateError(s) ==
    /\ Answering(s)
    /\ ended
    /\ vendor' = Over(s)
    /\ FinishGrace(IF recognize = s THEN "failed" ELSE "retired")
    /\ UNCHANGED <<ended, recognize, restartTimer, sessionByteOffset,
                   currentStreamBytes, streamBase, origin, sent, said, events>>

-----------------------------------------------------------------------------

CallerStep == Write \/ End \/ RestartTimer \/ GraceTimer

VendorStep(s) ==
    Data(s) \/ StreamEnd(s) \/ LimitError(s) \/ FatalError(s) \/ LateError(s)

Next == CallerStep \/ \E s \in Streams : VendorStep(s)

Spec == Init /\ [][Next]_vars

\* An armed timer fires.  Nothing is assumed of the vendor or of the caller.
FairSpec == Spec /\ WF_vars(GraceTimer)

-----------------------------------------------------------------------------
(* Properties.                                                             *)

\* A word's time is its place in the whole session, whichever stream heard it
\* and however late it answers: "timings stay absolute to the whole recording
\* session" (sessionByteOffset, streamBaseMs).  Until a stream fails, after
\* which chunks are written to nobody.
WordsAbsolute ==
    /\ TypeOK
    /\ queue # "failed" =>
        \A e \in events :
          e.at \in origin[e.stream]
            /\ Cardinality({c \in origin[e.stream] : c <= e.at}) = e.word

\* Whatever the vendor does, a session the caller ended completes: a consumer
\* does not wait for ever ("so consumers stop waiting").
EndedCompletes == ended ~> queue # "open"

\* When the current stream ends cleanly, everything it heard is in the
\* iterable: "cutting the iterable off at end() would drop the tail of the
\* transcript" (FINAL_GRACE_MS).
TailIsKept ==
    queue = "current" =>
        {e.word : e \in {f \in events : f.stream = recognize}}
            = 1..Cardinality(origin[recognize])

=============================================================================
