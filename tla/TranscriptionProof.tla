------------------------- MODULE TranscriptionProof -------------------------
(***************************************************************************)
(* Proofs about cloud transcription.  SpeechStream: a word's time is its     *)
(* place in the session, whichever of the recognizer's streams heard it, and *)
(* a session that ends cleanly has all of what its last stream heard.        *)
(* SttMeter: every frame of audio is metered once.                          *)
(***************************************************************************)
EXTENDS SpeechStream, SttMeter, FiniteSetTheorems, TLAPS

-----------------------------------------------------------------------------
(* The inductive invariant.                                                *)

\* What is written is what was committed and what the current stream has taken; a
\* stream's base is what was committed when it was opened.
OffsetInv ==
    /\ sent = sessionByteOffset + currentStreamBytes
    /\ streamBase[recognize] = sessionByteOffset

\* While the session goes on and no stream has failed, the current stream listens;
\* later streams are not open yet.
StreamInv ==
    /\ restartTimer => ~ended
    /\ graceTimer => ended
    /\ queue \in {"retired", "current", "lapsed"} => ended
    /\ ~ended /\ queue # "failed" => vendor[recognize] = "open"
    /\ vendor[recognize] = "halfclosed" => ended
    /\ \A s \in Streams : s > recognize =>
          vendor[s] = "unopened" /\ origin[s] = {} /\ said[s] = 0

\* A stream's chunks follow each other from its base on.
IntervalInv ==
    queue # "failed" =>
        /\ origin[recognize] = (sessionByteOffset + 1)..sent
        /\ \A s \in Streams : s < recognize =>
              \E n \in 0..MaxChunks : origin[s] = (streamBase[s] + 1)..(streamBase[s] + n)

\* No stream says more than it heard; each word in the iterable was said, and
\* carries the base of its stream.
SaidInv ==
    /\ \A s \in Streams : said[s] <= Cardinality(origin[s])
    /\ \A e \in events : /\ e.stream <= recognize
                         /\ e.word <= said[e.stream]
                         /\ e.at = streamBase[e.stream] + e.word

\* As long as the iterable is open it takes every word.
Heard(s) == {e.word : e \in {f \in events : f.stream = s}}
HeardInv == queue = "open" => \A s \in Streams : Heard(s) = 1..said[s]

IInv ==
    /\ TypeOK /\ OffsetInv /\ StreamInv /\ IntervalInv /\ SaidInv /\ HeardInv
    /\ TailIsKept

-----------------------------------------------------------------------------
(* The kinds of step.                                                      *)

LEMMA OriginIsFinite ==
    ASSUME TypeOK, NEW s \in Streams
    PROVE  /\ IsFiniteSet(origin[s]) /\ Cardinality(origin[s]) \in 0..MaxChunks
           /\ origin[s] \subseteq 1..MaxChunks
<1>1. IsFiniteSet(1..MaxChunks) /\ Cardinality(1..MaxChunks) = MaxChunks
    BY FS_Interval, CountsAssumption
<1>2. origin[s] \in SUBSET (1..MaxChunks)
    BY DEF TypeOK
<1> QED
    BY <1>1, <1>2, FS_Subset, FS_CardinalityType, CountsAssumption

\* A timer, the end of a stream or an error that restarts nothing: at most one
\* stream is over and the iterable closed.
Settles ==
    /\ UNCHANGED <<ended, recognize, restartTimer, sessionByteOffset, currentStreamBytes,
                   streamBase, origin, sent, said, events>>
    /\ graceTimer' \in {graceTimer, FALSE}
    /\ vendor' \in [Streams -> {"unopened", "open", "halfclosed", "over"}]
    /\ \A s \in Streams : vendor'[s] = vendor[s] \/ (vendor'[s] = "over" /\ Answering(s))
    /\ queue' \in {"open", "failed", "retired", "current", "lapsed"}
    /\ queue # "open" => queue' = queue
    /\ vendor'[recognize] # vendor[recognize] => ended \/ queue' = "failed" \/ queue # "open"
    /\ queue' # queue => ended \/ queue' = "failed"
    /\ queue = "open" /\ queue' = "current" =>
          said[recognize] = Cardinality(origin[recognize])

\* restart(), from the vendor's side in which at most one stream is over.
Restarts ==
    \E v \in [Streams -> {"unopened", "open", "halfclosed", "over"}] :
        /\ Restart(v) /\ ~ended /\ UNCHANGED <<origin, sent, said, events>>
        /\ \A s \in Streams : v[s] = vendor[s] \/ (v[s] = "over" /\ Answering(s))

LEMMA Kinds ==
    ASSUME TypeOK, StreamInv, [Next]_vars
    PROVE  \/ Write \/ End \/ Restarts \/ Settles \/ UNCHANGED vars
           \/ \E s \in Streams : Data(s)
<1> USE DEF TypeOK
<1>1. ASSUME RestartTimer PROVE Restarts
    BY <1>1 DEF RestartTimer, Restarts, StreamInv
<1>2. ASSUME GraceTimer PROVE Settles
    BY <1>2 DEF GraceTimer, FinishGrace, Close, Settles, StreamInv
<1>3. ASSUME NEW s \in Streams, StreamEnd(s) PROVE Settles
    BY <1>3 DEF StreamEnd, FinishGrace, Close, Over, Settles, StreamInv, Answering
<1>4. ASSUME NEW s \in Streams, LimitError(s) PROVE Restarts
    <2>1. Over(s) \in [Streams -> {"unopened", "open", "halfclosed", "over"}]
        BY DEF Over
    <2>2. \A x \in Streams : Over(s)[x] = vendor[x] \/ (Over(s)[x] = "over" /\ Answering(x))
        BY <1>4 DEF LimitError, Answering, Over
    <2> QED
        BY <1>4, <2>1, <2>2 DEF LimitError, Restarts
<1>5. ASSUME NEW s \in Streams, FatalError(s) PROVE Settles
    BY <1>5 DEF FatalError, Answering, Close, Over, Settles, callerVars
<1>6. ASSUME NEW s \in Streams, LateError(s) PROVE Settles
    BY <1>6 DEF LateError, Answering, FinishGrace, Close, Over, Settles
<1> QED
    BY <1>1, <1>2, <1>3, <1>4, <1>5, <1>6 DEF Next, CallerStep, VendorStep

-----------------------------------------------------------------------------
(* Each kind of step keeps the invariant.                                  *)

LEMMA InitIInv == Init => IInv
<1> SUFFICES ASSUME Init PROVE IInv
    OBVIOUS
<1> USE CountsAssumption DEF Init
<1>0. 1 \in Streams /\ 1..0 = {} /\ Cardinality({}) = 0
    BY FS_EmptySet DEF Streams
<1>1. TypeOK
    <2>1. 0 \in 0..MaxChunks
        OBVIOUS
    <2>2. /\ streamBase \in [Streams -> 0..MaxChunks] /\ said \in [Streams -> 0..MaxChunks]
          /\ origin \in [Streams -> SUBSET (1..MaxChunks)]
          /\ vendor \in [Streams -> {"unopened", "open", "halfclosed", "over"}]
        BY <2>1
    <2> QED
        BY <1>0, <2>1, <2>2 DEF TypeOK
<1>2. OffsetInv
    BY <1>0 DEF OffsetInv
<1>3. StreamInv
    BY <1>0 DEF StreamInv, Streams
<1>4. IntervalInv
    BY <1>0 DEF IntervalInv, Streams
<1>5. SaidInv
    BY <1>0 DEF SaidInv
<1>6. HeardInv /\ TailIsKept
    BY <1>0 DEF HeardInv, Heard, TailIsKept
<1> QED
    BY <1>1, <1>2, <1>3, <1>4, <1>5, <1>6 DEF IInv

LEMMA SettlesStep == IInv /\ Settles => IInv'
<1> SUFFICES ASSUME IInv, Settles PROVE IInv'
    OBVIOUS
<1> USE DEF IInv, Settles
<1>1. TypeOK'
    BY DEF TypeOK
<1>2. OffsetInv'
    BY DEF OffsetInv
<1>3. StreamInv'
    <2>1. queue' # "failed" => queue # "failed"
        OBVIOUS
    <2>2. graceTimer' => ended
        BY DEF StreamInv, TypeOK
    <2> QED
        BY <2>1, <2>2 DEF StreamInv, Answering, TypeOK
<1>4. IntervalInv'
    BY DEF IntervalInv
<1>5. SaidInv'
    BY DEF SaidInv
<1>6. HeardInv'
    BY DEF HeardInv, Heard
<1>7. TailIsKept'
    <2>1. CASE queue = "current"
        BY <2>1 DEF TailIsKept
    <2>2. CASE queue = "open" /\ queue' = "current"
        BY <2>2 DEF TailIsKept, HeardInv, Heard, TypeOK
    <2> QED
        BY <2>1, <2>2 DEF TailIsKept
<1> QED
    BY <1>1, <1>2, <1>3, <1>4, <1>5, <1>6, <1>7

LEMMA WriteStep == IInv /\ Write => IInv'
<1> SUFFICES ASSUME IInv, Write PROVE IInv'
    OBVIOUS
<1> USE CountsAssumption DEF IInv
<1>0. /\ ~ended /\ sent < MaxChunks /\ sent' = sent + 1
      /\ currentStreamBytes' = currentStreamBytes + 1
      /\ UNCHANGED <<ended, recognize, restartTimer, graceTimer, sessionByteOffset, streamBase,
                     queue, vendor, said, events>>
    BY DEF Write
<1>1. /\ recognize \in Streams /\ sent \in Nat /\ sessionByteOffset \in Nat
      /\ currentStreamBytes \in Nat
    BY DEF TypeOK
<1>2. /\ \A s \in Streams \ {recognize} : origin'[s] = origin[s]
      /\ origin'[recognize] =
            IF vendor[recognize] = "open" THEN origin[recognize] \union {sent + 1}
                                          ELSE origin[recognize]
    BY <1>1 DEF Write, TypeOK
<1>3. TypeOK'
    <2>1. origin' \in [Streams -> SUBSET (1..MaxChunks)]
        BY <1>0, <1>1, <1>2 DEF Write, TypeOK
    <2>2. sent' \in 0..MaxChunks /\ currentStreamBytes' \in 0..MaxChunks
        BY <1>0, <1>1 DEF OffsetInv
    <2> QED
        BY <1>0, <2>1, <2>2 DEF TypeOK
<1>4. OffsetInv'
    BY <1>0, <1>1 DEF OffsetInv
<1>5. StreamInv'
    BY <1>0, <1>1, <1>2 DEF StreamInv, Streams
<1>6. IntervalInv'
    <2> SUFFICES ASSUME queue # "failed" PROVE IntervalInv'
        BY <1>0 DEF IntervalInv
    <2>1. vendor[recognize] = "open"
        BY <1>0 DEF StreamInv
    <2>2. origin'[recognize] = ((sessionByteOffset + 1)..sent) \union {sent + 1}
        BY <1>2, <2>1 DEF IntervalInv
    <2>3. sessionByteOffset <= sent
        BY <1>1 DEF OffsetInv
    <2>4. origin'[recognize] = (sessionByteOffset + 1)..(sent + 1)
        BY <1>1, <2>2, <2>3
    <2>5. \A s \in Streams : s < recognize => origin'[s] = origin[s]
        BY <1>1, <1>2 DEF Streams
    <2> QED
        BY <1>0, <2>4, <2>5 DEF IntervalInv
<1>7. \A s \in Streams : Cardinality(origin[s]) <= Cardinality(origin'[s])
    <2> TAKE s \in Streams
    <2>1. IsFiniteSet(origin'[s]) /\ origin[s] \subseteq origin'[s]
        <3>1. IsFiniteSet(origin[s])
            BY OriginIsFinite
        <3>2. IsFiniteSet(origin[s] \union {sent + 1})
            BY <3>1, FS_AddElement
        <3> QED
            BY <1>2, <3>1, <3>2
    <2> QED
        BY <2>1, FS_Subset
<1>8. SaidInv'
    <2>1. \A s \in Streams : said[s] \in Nat /\ Cardinality(origin[s]) \in Nat
        BY OriginIsFinite DEF TypeOK
    <2>2. \A s \in Streams : Cardinality(origin'[s]) \in Nat
        <3> TAKE s \in Streams
        <3>1. origin'[s] \in SUBSET (1..MaxChunks)
            BY <1>3 DEF TypeOK
        <3>2. IsFiniteSet(1..MaxChunks)
            BY FS_Interval
        <3> QED
            BY <3>1, <3>2, FS_Subset, FS_CardinalityType
    <2>3. \A s \in Streams : said[s] <= Cardinality(origin'[s])
        BY <1>7, <2>1, <2>2 DEF SaidInv
    <2> QED
        BY <1>0, <2>3 DEF SaidInv
<1>9. HeardInv' /\ TailIsKept'
    BY <1>0 DEF HeardInv, Heard, TailIsKept, StreamInv
<1> QED
    BY <1>3, <1>4, <1>5, <1>6, <1>8, <1>9

LEMMA EndStep == IInv /\ End => IInv'
<1> SUFFICES ASSUME IInv, End PROVE IInv'
    OBVIOUS
<1> USE DEF IInv
<1>0. /\ ended' = TRUE /\ restartTimer' = FALSE /\ graceTimer' = TRUE
      /\ UNCHANGED <<recognize, sessionByteOffset, currentStreamBytes, streamBase, queue, origin,
                     sent, said, events>>
    BY DEF End
<1>1. /\ vendor' \in [Streams -> {"unopened", "open", "halfclosed", "over"}]
      /\ \A s \in Streams : vendor[s] = "unopened" => vendor'[s] = "unopened"
    BY DEF End, HalfClosed, TypeOK
<1>2. TypeOK'
    BY <1>0, <1>1 DEF TypeOK
<1>3. OffsetInv' /\ IntervalInv' /\ SaidInv' /\ HeardInv' /\ TailIsKept'
    BY <1>0 DEF OffsetInv, IntervalInv, SaidInv, HeardInv, Heard, TailIsKept
<1>4. StreamInv'
    BY <1>0, <1>1 DEF StreamInv
<1> QED
    BY <1>2, <1>3, <1>4

LEMMA RestartsStep == IInv /\ Restarts => IInv'
<1> SUFFICES ASSUME IInv, Restarts PROVE IInv'
    OBVIOUS
<1> USE CountsAssumption DEF IInv
<1> DEFINE n == recognize + 1
<1>0. PICK v \in [Streams -> {"unopened", "open", "halfclosed", "over"}] :
          /\ Restart(v)
          /\ \A s \in Streams : v[s] = vendor[s] \/ (v[s] = "over" /\ Answering(s))
    BY DEF Restarts
<1>1. /\ n \in Streams /\ recognize' = n /\ ~ended
      /\ sessionByteOffset' = sessionByteOffset + currentStreamBytes
      /\ currentStreamBytes' = 0 /\ restartTimer' = TRUE
      /\ streamBase' = [streamBase EXCEPT ![n] = sessionByteOffset + currentStreamBytes]
      /\ vendor' = [HalfClosed(v, recognize) EXCEPT ![n] = "open"]
      /\ UNCHANGED <<ended, graceTimer, queue, origin, sent, said, events>>
    BY <1>0 DEF Restart, Commit, Restarts
<1>2. /\ recognize \in Streams /\ recognize \in Nat /\ sent \in 0..MaxChunks
      /\ sessionByteOffset \in Nat /\ currentStreamBytes \in Nat
      /\ sessionByteOffset' = sent
    BY <1>1 DEF TypeOK, OffsetInv, Streams
<1>3. streamBase'[n] = sent /\ \A s \in Streams \ {n} : streamBase'[s] = streamBase[s]
    BY <1>1, <1>2 DEF TypeOK
<1>4. /\ vendor' \in [Streams -> {"unopened", "open", "halfclosed", "over"}]
      /\ vendor'[n] = "open"
      /\ \A s \in Streams : s > n => vendor'[s] = vendor[s]
    <2>1. HalfClosed(v, recognize) \in [Streams -> {"unopened", "open", "halfclosed", "over"}]
        BY DEF HalfClosed
    <2>2. \A s \in Streams : s > n => v[s] = vendor[s]
        BY <1>0, <1>2 DEF StreamInv, Answering, Streams
    <2>3. \A s \in Streams : s > n => HalfClosed(v, recognize)[s] = v[s]
        BY <1>2 DEF HalfClosed, Streams
    <2> HIDE DEF n
    <2> QED
        BY <1>1, <2>1, <2>2, <2>3 DEF Streams
<1>5. TypeOK'
    BY <1>1, <1>2, <1>4 DEF TypeOK
<1>6. OffsetInv'
    BY <1>1, <1>2, <1>3 DEF OffsetInv
<1>7. StreamInv'
    BY <1>1, <1>2, <1>4 DEF StreamInv, Streams
<1>8. IntervalInv'
    <2> SUFFICES ASSUME queue # "failed" PROVE IntervalInv'
        BY <1>1 DEF IntervalInv
    <2>1. origin[n] = {}
        BY <1>1, <1>2 DEF StreamInv
    <2>2. origin'[n] = (sent + 1)..sent
        BY <1>1, <1>2, <2>1
    <2>3. origin[recognize] = (streamBase[recognize] + 1)..(streamBase[recognize] + currentStreamBytes)
        BY <1>2 DEF IntervalInv, OffsetInv
    <2>4. currentStreamBytes \in 0..MaxChunks
        BY DEF TypeOK
    <2>5. ASSUME NEW s \in Streams, s < n
          PROVE  \E k \in 0..MaxChunks : origin'[s] = (streamBase'[s] + 1)..(streamBase'[s] + k)
        <3>1. s \in Nat /\ s # n /\ (s = recognize \/ s < recognize)
            BY <1>2, <2>5 DEF Streams
        <3>2. origin'[s] = origin[s] /\ streamBase'[s] = streamBase[s]
            BY <1>1, <1>3, <3>1
        <3>3. CASE s = recognize
            BY <2>3, <2>4, <3>2, <3>3
        <3>4. CASE s < recognize
            BY <3>2, <3>4 DEF IntervalInv
        <3> QED
            BY <3>1, <3>3, <3>4
    <2> QED
        BY <1>1, <1>2, <2>2, <2>5 DEF IntervalInv
<1>9. SaidInv'
    <2>1. \A e \in events : e.stream \in Streams /\ e.stream <= recognize
        BY DEF TypeOK, SaidInv
    <2>2. \A e \in events : e.stream # n /\ e.stream <= n
        BY <1>2, <2>1 DEF Streams
    <2> QED
        BY <1>1, <1>3, <2>1, <2>2 DEF SaidInv
<1>10. HeardInv' /\ TailIsKept'
    BY <1>1 DEF HeardInv, Heard, TailIsKept, StreamInv
<1> QED
    BY <1>5, <1>6, <1>7, <1>8, <1>9, <1>10

LEMMA DataStep == IInv /\ (\E s \in Streams : Data(s)) => IInv'
<1> SUFFICES ASSUME IInv, NEW s \in Streams, Data(s) PROVE IInv'
    OBVIOUS
<1> USE CountsAssumption DEF IInv
<1> DEFINE w == said[s] + 1
           new == [stream |-> s, word |-> w, at |-> streamBase[s] + w]
<1>1. /\ Answering(s) /\ said[s] < Cardinality(origin[s])
      /\ said' = [said EXCEPT ![s] = w]
      /\ UNCHANGED <<callerVars, queue, vendor, origin, sent>>
    BY DEF Data
<1>2. said'[s] = w /\ \A x \in Streams \ {s} : said'[x] = said[x]
    BY <1>1 DEF TypeOK
<1>3. events' = IF queue # "open" THEN events ELSE events \union {new}
    BY <1>2 DEF Data, Base
<1>4. /\ said[s] \in Nat /\ Cardinality(origin[s]) \in Nat /\ w \in 1..MaxChunks
      /\ streamBase[s] \in 0..MaxChunks /\ w <= Cardinality(origin[s])
    BY <1>1, OriginIsFinite DEF TypeOK
<1>5. s <= recognize /\ recognize \in Nat /\ s \in Nat
    BY <1>1 DEF StreamInv, Answering, Streams, TypeOK
<1>6. TypeOK'
    <2>1. new \in [stream : Streams, word : 1..MaxChunks, at : 1..2*MaxChunks]
        BY <1>4
    <2>2. said' \in [Streams -> 0..MaxChunks]
        BY <1>1, <1>4 DEF TypeOK
    <2>3. events' \subseteq [stream : Streams, word : 1..MaxChunks, at : 1..2*MaxChunks]
        BY <1>3, <2>1 DEF TypeOK
    <2> QED
        BY <1>1, <2>2, <2>3 DEF TypeOK, callerVars
<1>7. OffsetInv' /\ IntervalInv'
    BY <1>1 DEF callerVars, OffsetInv, IntervalInv
<1>8. StreamInv'
    BY <1>1, <1>2, <1>5 DEF callerVars, StreamInv, Streams
<1>9. SaidInv'
    <2>1. \A x \in Streams : said'[x] <= Cardinality(origin[x])
        BY <1>2, <1>4 DEF SaidInv
    <2>2. \A e \in events : e.stream \in Streams /\ e.word \in Nat
        BY DEF TypeOK
    <2>3. \A e \in events : e.word <= said'[e.stream]
        BY <1>2, <1>4, <2>2 DEF SaidInv
    <2>4. new.stream <= recognize /\ new.word <= said'[s] /\ new.stream = s
          /\ new.at = streamBase[new.stream] + new.word
        BY <1>2, <1>4, <1>5
    <2> HIDE DEF new
    <2> QED
        BY <1>1, <1>3, <2>1, <2>3, <2>4 DEF SaidInv, callerVars
<1>10. HeardInv'
    <2> SUFFICES ASSUME queue = "open", NEW x \in Streams PROVE Heard(x)' = 1..said'[x]
        BY <1>1 DEF HeardInv
    <2>1. Heard(x) = 1..said[x] /\ said[x] \in Nat
        BY DEF HeardInv, TypeOK
    <2>2. events' = events \union {new} /\ new.stream = s /\ new.word = w
        BY <1>3
    <2> HIDE DEF new
    <2>3. CASE x = s
        <3>1. Heard(x)' = Heard(x) \union {w}
            BY <2>2, <2>3 DEF Heard
        <3>2. 1..w = (1..said[s]) \union {w}
            BY <1>4
        <3> QED
            BY <1>2, <2>1, <2>3, <3>1, <3>2
    <2>4. CASE x # s
        <3>1. Heard(x)' = Heard(x)
            BY <2>2, <2>4 DEF Heard
        <3> QED
            BY <1>2, <2>1, <2>4, <3>1
    <2> QED
        BY <2>3, <2>4
<1>11. TailIsKept'
    BY <1>1, <1>3 DEF TailIsKept, callerVars
<1> QED
    BY <1>6, <1>7, <1>8, <1>9, <1>10, <1>11

-----------------------------------------------------------------------------
(* The theorems.                                                           *)

\* Every state of a session satisfies the inductive invariant.
THEOREM Invariance == Spec => []IInv
<1>1. IInv /\ [Next]_vars => IInv'
    <2> SUFFICES ASSUME IInv, [Next]_vars PROVE IInv'
        OBVIOUS
    <2>1. UNCHANGED vars => IInv'
        BY DEF vars, callerVars, IInv, TypeOK, OffsetInv, StreamInv, IntervalInv, SaidInv,
               HeardInv, Heard, TailIsKept
    <2>2. TypeOK /\ StreamInv
        BY DEF IInv
    <2> QED
        BY <2>1, <2>2, Kinds, WriteStep, EndStep, RestartsStep, SettlesStep, DataStep
<1> QED
    BY InitIInv, <1>1, PTL DEF Spec

\* "Timings stay absolute to the whole recording session": a word's time is a chunk
\* of its stream, and as many of the stream's chunks go before it as words do
\* (streamBaseMs, restart).
THEOREM WordsStayAbsolute == Spec => []WordsAbsolute
<1>1. IInv => WordsAbsolute
    <2> USE CountsAssumption
    <2> SUFFICES ASSUME IInv, queue # "failed", NEW e \in events
                 PROVE  /\ e.at \in origin[e.stream]
                        /\ Cardinality({c \in origin[e.stream] : c <= e.at}) = e.word
        BY DEF IInv, WordsAbsolute
    <2> DEFINE s == e.stream
               b == streamBase[s]
    <2>1. s \in Streams /\ s \in Nat /\ b \in Nat /\ e.word \in Nat \ {0} /\ said[s] \in Nat
        BY DEF IInv, TypeOK, Streams
    <2>2. s <= recognize /\ e.word <= said[s] /\ e.at = b + e.word
          /\ said[s] <= Cardinality(origin[s])
        BY <2>1 DEF IInv, SaidInv
    <2>3. PICK n \in Nat : origin[s] = (b + 1)..(b + n)
        <3>1. recognize \in Nat /\ sent \in Nat /\ sessionByteOffset \in Nat
              /\ currentStreamBytes \in Nat
            BY DEF IInv, TypeOK, Streams
        <3>2. CASE s = recognize
            <4>1. b = sessionByteOffset /\ sent = b + currentStreamBytes
                BY <3>2 DEF IInv, OffsetInv
            <4>2. origin[s] = (b + 1)..(b + currentStreamBytes)
                BY <3>2, <4>1 DEF IInv, IntervalInv
            <4> QED
                BY <3>1, <4>2
        <3>3. CASE s < recognize
            <4>1. PICK k \in 0..MaxChunks : origin[s] = (b + 1)..(b + k)
                BY <2>1, <3>3 DEF IInv, IntervalInv
            <4>2. k \in Nat
                OBVIOUS
            <4> QED
                BY <4>1, <4>2
        <3> QED
            BY <2>1, <2>2, <3>1, <3>2, <3>3
    <2>4. Cardinality(origin[s]) = n
        <3>1. b + 1 \in Int /\ b + n \in Int /\ (b + n) - (b + 1) + 1 = n
            BY <2>1, <2>3
        <3>2. Cardinality((b + 1)..(b + n)) =
                IF b + 1 > b + n THEN 0 ELSE (b + n) - (b + 1) + 1
            BY <3>1, FS_Interval
        <3> QED
            BY <2>1, <2>3, <3>1, <3>2
    <2>5. e.at \in origin[s]
        BY <2>1, <2>2, <2>3, <2>4
    <2>6. {c \in origin[s] : c <= e.at} = (b + 1)..(b + e.word)
        BY <2>1, <2>2, <2>3, <2>4
    <2>7. Cardinality((b + 1)..(b + e.word)) = e.word
        <3> DEFINE from == b + 1
                   to == b + e.word
        <3>1. from \in Int /\ to \in Int /\ ~(from > to) /\ to - from + 1 = e.word
            BY <2>1
        <3> HIDE DEF from, to
        <3>2. Cardinality(from..to) = to - from + 1
            BY <3>1, FS_Interval
        <3> QED
            BY <3>1, <3>2 DEF from, to
    <2> QED
        BY <2>5, <2>6, <2>7
<1> QED
    BY <1>1, Invariance, PTL

\* When the current stream ends cleanly, all it heard is in the iterable (end(),
\* finishGrace).
THEOREM TailStays == Spec => []TailIsKept
<1>1. IInv => TailIsKept
    BY DEF IInv
<1> QED
    BY <1>1, Invariance, PTL

-----------------------------------------------------------------------------
(*                               SttMeter                                  *)

Tasks == [at : {"free", "recording", "recorded", "fraction", "capacity"},
          bytes : 0..MaxFrames, final : BOOLEAN, answer : {"none", "spare", "spent"}]

\* Only a settle that has not reached the counter holds frames.
HoldersRecord == \A k \in Settle : task[k].at # "recording" => task[k].bytes = 0

\* Every settle took a frame at least, so there is a place for one more as long as there
\* is a frame that has not been settled.
Busy(c) == {s \in Slots : task[<<c, s>>] # Free}
PlacesSuffice == \A c \in Conns : Cardinality(Busy(c)) + sttBytes[c] <= received[c]

MeterIInv == HoldersRecord /\ PlacesSuffice /\ EveryFrameOnce

-----------------------------------------------------------------------------
(* Frames held.                                                            *)

\* The frames of settles that hold b[s] each.
Pieces(b) == {f \in Slots \X Slots : f[2] <= b[f[1]]}

LEMMA SlotsFinite ==
    /\ IsFiniteSet(Slots) /\ IsFiniteSet(Slots \X Slots)
    /\ \A S \in SUBSET Slots : IsFiniteSet(S) /\ Cardinality(S) \in Nat
    /\ \A S \in SUBSET (Slots \X Slots) : IsFiniteSet(S) /\ Cardinality(S) \in Nat
<1>1. IsFiniteSet(Slots)
    BY AllowanceAssumption, FS_Interval DEF Slots
<1>2. IsFiniteSet(Slots \X Slots)
    BY <1>1, FS_Product
<1> QED
    BY <1>1, <1>2, FS_Subset, FS_CardinalityType

\* The pairs of one element and n numbers.
LEMMA RowSize ==
    ASSUME NEW s, NEW n \in Nat
    PROVE  IsFiniteSet({s} \X (1..n)) /\ Cardinality({s} \X (1..n)) = n
<1>1. IsFiniteSet({s}) /\ Cardinality({s}) = 1
    BY FS_Singleton
<1>2. IsFiniteSet(1..n) /\ Cardinality(1..n) = n
    BY FS_Interval
<1>3. /\ IsFiniteSet({s} \X (1..n))
      /\ Cardinality({s} \X (1..n)) = Cardinality({s}) * Cardinality(1..n)
    BY <1>1, <1>2, FS_Product
<1> QED
    BY <1>1, <1>2, <1>3

LEMMA PiecesChange ==
    ASSUME NEW b \in [Slots -> 0..MaxFrames], NEW s \in Slots, NEW n \in 0..MaxFrames,
           b[s] = 0
    PROVE  Cardinality(Pieces([b EXCEPT ![s] = n])) = Cardinality(Pieces(b)) + n
<1> DEFINE d == [b EXCEPT ![s] = n]
           row == {s} \X (1..n)
<1>1. Pieces(d) = Pieces(b) \union row
    <2>1. \A t \in Slots : d[t] = IF t = s THEN n ELSE b[t]
        OBVIOUS
    <2>2. \A i \in Slots : i \in Nat /\ i >= 1
        BY DEF Slots
    <2>3. \A i \in 1..n : i \in Slots
        BY AllowanceAssumption DEF Slots
    <2> HIDE DEF d
    <2>4. ASSUME NEW t \in Slots, NEW i \in Slots
          PROVE  <<t, i>> \in Pieces(d) <=> <<t, i>> \in Pieces(b) \union row
        <3>1. <<t, i>> \in Pieces(d) <=> i <= d[t]
            BY DEF Pieces
        <3>2. <<t, i>> \in Pieces(b) <=> i <= b[t]
            BY DEF Pieces
        <3>3. <<t, i>> \in row <=> t = s /\ i <= n
            BY <2>2
        <3>4. t = s => ~(i <= b[t])
            BY <2>2
        <3> HIDE DEF row
        <3> QED
            BY <2>1, <3>1, <3>2, <3>3, <3>4
    <2>5. Pieces(d) \subseteq Slots \X Slots /\ Pieces(b) \union row \subseteq Slots \X Slots
        BY <2>3 DEF Pieces
    <2> HIDE DEF row
    <2> QED
        BY <2>4, <2>5
<1>2. Pieces(b) \intersect row = {}
    <2>1. \A f \in Pieces(b) : f[2] <= b[f[1]] /\ f[2] \in Slots
        BY DEF Pieces
    <2>2. \A i \in Slots : i \in Nat /\ i >= 1
        BY DEF Slots
    <2>3. \A f \in row : f[1] = s
        OBVIOUS
    <2> HIDE DEF row
    <2> QED
        BY <2>1, <2>2, <2>3
<1>3. IsFiniteSet(Pieces(b)) /\ Cardinality(Pieces(b)) \in Nat
    BY SlotsFinite DEF Pieces
<1>4. IsFiniteSet(row) /\ Cardinality(row) = n
    <2>1. n \in Nat
        OBVIOUS
    <2> QED
        BY <2>1, RowSize, Zenon
<1>5. Cardinality(Pieces(b) \intersect row) = 0
    BY <1>2, FS_EmptySet
<1>6. Cardinality(Pieces(b) \union row) =
        Cardinality(Pieces(b)) + Cardinality(row) - Cardinality(Pieces(b) \intersect row)
    BY <1>3, <1>4, FS_Union
<1> HIDE DEF row, d
<1>7. Cardinality(Pieces(d)) = Cardinality(Pieces(b)) + n
    BY <1>1, <1>3, <1>4, <1>5, <1>6
<1> QED
    BY <1>7 DEF d

Bytes(c) == [s \in Slots |-> task[<<c, s>>].bytes]

LEMMA HeldIs ==
    ASSUME NEW c
    PROVE  Held(c) = Cardinality(Pieces(Bytes(c))) /\ Held(c)' = Cardinality(Pieces(Bytes(c)'))
<1>1. {f \in Slots \X Slots : f[2] <= task[<<c, f[1]>>].bytes} = Pieces(Bytes(c))
    BY DEF Pieces, Bytes
<1>2. {f \in Slots \X Slots : f[2] <= task'[<<c, f[1]>>].bytes} = Pieces(Bytes(c)')
    BY DEF Pieces, Bytes
<1> QED
    BY <1>1, <1>2 DEF Held

\* What settle k of a socket c no longer holds when it becomes u.
Released(k, u, c) == IF c = k[1] THEN task[k].bytes - u.bytes ELSE 0

\* One settle changes; what the socket's settles hold changes by what it holds.
LEMMA HeldChanges ==
    ASSUME task \in [Settle -> Tasks], NEW k \in Settle, NEW u \in Tasks,
           task' = [task EXCEPT ![k] = u], NEW c \in Conns,
           task[k].bytes = 0 \/ u.bytes = 0 \/ u.bytes = task[k].bytes
    PROVE  /\ Held(c) \in Nat /\ Held(c)' \in Nat
           /\ Held(c) = Held(c)' + Released(k, u, c)
<1>1. PICK d \in Conns, s \in Slots : k = <<d, s>>
    BY DEF Settle
<1>2. k[1] = d
    BY <1>1
<1>3. \A e \in Conns, t \in Slots : <<e, t>> \in Settle
    BY DEF Settle
<1>4. /\ \A e \in Conns : Bytes(e) \in [Slots -> 0..MaxFrames]
      /\ u.bytes \in 0..MaxFrames
      /\ task[k].bytes \in 0..MaxFrames
    BY <1>3 DEF Bytes, Tasks
<1>5. Bytes(d)' = [Bytes(d) EXCEPT ![s] = u.bytes] /\ Bytes(d)[s] = task[k].bytes
    BY <1>1, <1>3 DEF Bytes
<1>6. \A e \in Conns : e # d => Bytes(e)' = Bytes(e)
    BY <1>1, <1>3 DEF Bytes
<1>7. \A e \in Conns : Bytes(e)' \in [Slots -> 0..MaxFrames]
    BY <1>4, <1>5, <1>6
<1>8. Held(c) \in Nat /\ Held(c)' \in Nat
    <2>1. \A b : IsFiniteSet(Pieces(b)) /\ Cardinality(Pieces(b)) \in Nat
        BY SlotsFinite DEF Pieces
    <2> QED
        BY <2>1, HeldIs
<1>9. c # d => Held(c)' = Held(c)
    BY <1>6, HeldIs
<1>10. task[k].bytes = 0 => Held(d)' = Held(d) + u.bytes
    BY <1>4, <1>5, HeldIs, PiecesChange
<1>11. u.bytes = 0 => Held(d) = Held(d)' + task[k].bytes
    <2> SUFFICES ASSUME u.bytes = 0 PROVE Held(d) = Held(d)' + task[k].bytes
        OBVIOUS
    <2> DEFINE b == Bytes(d)'
    <2>1. b \in [Slots -> 0..MaxFrames] /\ b[s] = 0
        BY <1>4, <1>5, <1>7
    <2>2. Bytes(d) = [b EXCEPT ![s] = task[k].bytes]
        BY <1>4, <1>5
    <2> HIDE DEF b
    <2>3. Cardinality(Pieces([b EXCEPT ![s] = task[k].bytes])) = Cardinality(Pieces(b)) + task[k].bytes
        BY <1>4, <2>1, PiecesChange
    <2> QED
        BY <2>2, <2>3, HeldIs DEF b
<1>12. u.bytes = task[k].bytes => Held(d)' = Held(d)
    <2>1. u.bytes = task[k].bytes => Bytes(d)' = Bytes(d)
        BY <1>4, <1>5
    <2> QED
        BY <2>1, HeldIs
<1>13. Held(c) = Held(c)' + Released(k, u, c)
    <2>1. CASE c # d
        BY <1>2, <1>8, <1>9, <2>1 DEF Released
    <2>2. CASE c = d
        <3>1. Held(d) \in Nat /\ Held(d)' \in Nat /\ task[k].bytes \in Nat /\ u.bytes \in Nat
            BY <1>4, <1>8, <2>2
        <3>2. Held(d) = Held(d)' + (task[k].bytes - u.bytes)
            BY <1>10, <1>11, <1>12, <3>1
        <3> QED
            BY <1>2, <2>2, <3>2 DEF Released
    <2> QED
        BY <2>1, <2>2
<1> QED
    BY <1>8, <1>13

-----------------------------------------------------------------------------
(* A step of a settle.                                                     *)

\* One settle goes on: it keeps what it holds, or puts it on the counter or among what
\* is lost.
LEMMA SettleGoesOn ==
    ASSUME MeterIInv, NEW k \in Settle, NEW u \in Tasks,
           task' = [task EXCEPT ![k] = u], task[k] # Free,
           u.at # "recording" => u.bytes = 0,
           UNCHANGED <<sttBytes, received>>,
           metered' \in [Conns -> Nat], lost' \in [Conns -> Nat],
           \A c \in Conns : metered'[c] + lost'[c] = metered[c] + lost[c] + Released(k, u, c),
           u.bytes = 0 \/ u.bytes = task[k].bytes
    PROVE  /\ HoldersRecord' /\ PlacesSuffice'
           /\ \A c \in Conns : received'[c] = sttBytes'[c] + Held(c)' + metered'[c] + lost'[c]
           /\ \A h \in {received', metered', lost'} : h \in [Conns -> 0..MaxFrames]
<1>1. /\ task \in [Settle -> Tasks] /\ k[1] \in Conns
      /\ sttBytes \in [Conns -> 0..MaxFrames]
      /\ received \in [Conns -> 0..MaxFrames]
      /\ metered \in [Conns -> 0..MaxFrames] /\ lost \in [Conns -> 0..MaxFrames]
      /\ \A c \in Conns : received[c] = sttBytes[c] + Held(c) + metered[c] + lost[c]
    BY DEF MeterIInv, EveryFrameOnce, MeterTypeOK, Tasks, Settle
<1>2. HoldersRecord'
    BY <1>1 DEF MeterIInv, HoldersRecord
<1>3. PlacesSuffice'
    <2> SUFFICES ASSUME NEW c \in Conns
                 PROVE  Cardinality(Busy(c)') + sttBytes'[c] <= received'[c]
        BY DEF PlacesSuffice, Busy
    <2>1. Busy(c)' \in SUBSET Busy(c) /\ Busy(c) \in SUBSET Slots
        BY <1>1 DEF Busy, Settle
    <2>2. IsFiniteSet(Busy(c)) /\ Cardinality(Busy(c)) \in Nat
        BY <2>1, SlotsFinite
    <2>3. Cardinality(Busy(c)') <= Cardinality(Busy(c)) /\ Cardinality(Busy(c)') \in Nat
        BY <2>1, <2>2, FS_Subset, FS_CardinalityType
    <2>4. Cardinality(Busy(c)) + sttBytes[c] <= received[c]
        BY DEF MeterIInv, PlacesSuffice
    <2>5. sttBytes[c] \in Nat /\ received[c] \in Nat /\ sttBytes'[c] = sttBytes[c] /\ received'[c] = received[c]
        BY <1>1
    <2> QED
        BY <2>2, <2>3, <2>4, <2>5
<1>4. ASSUME NEW c \in Conns
      PROVE  /\ received'[c] = sttBytes'[c] + Held(c)' + metered'[c] + lost'[c]
             /\ metered'[c] \in 0..MaxFrames /\ lost'[c] \in 0..MaxFrames
    <2>1. Held(c) \in Nat /\ Held(c)' \in Nat /\ Held(c) = Held(c)' + Released(k, u, c)
        BY <1>1, HeldChanges
    <2>2. /\ received[c] = sttBytes[c] + Held(c) + metered[c] + lost[c]
          /\ sttBytes[c] \in Nat /\ received[c] \in 0..MaxFrames
          /\ metered[c] \in Nat /\ lost[c] \in Nat
          /\ metered'[c] \in Nat /\ lost'[c] \in Nat
          /\ sttBytes'[c] = sttBytes[c] /\ received'[c] = received[c]
          /\ task[k].bytes \in Nat /\ u.bytes \in Nat
        BY <1>1 DEF Tasks
    <2>3. /\ metered'[c] + lost'[c] = metered[c] + lost[c] + Released(k, u, c)
          /\ Released(k, u, c) \in Int
        BY <2>2 DEF Released
    <2>4. received[c] = sttBytes[c] + Held(c)' + metered'[c] + lost'[c]
        BY <2>1, <2>2, <2>3
    <2>5. received[c] <= MaxFrames
        BY <2>2
    <2> QED
        BY <2>1, <2>2, <2>4, <2>5, AllowanceAssumption
<1>5. received' \in [Conns -> 0..MaxFrames]
    BY <1>1
<1>6. metered' \in [Conns -> 0..MaxFrames] /\ lost' \in [Conns -> 0..MaxFrames]
    BY <1>4
<1> QED
    BY <1>2, <1>3, <1>4, <1>5, <1>6

-----------------------------------------------------------------------------
(* A settle begins, and a frame is counted.                                *)

\* While a socket's settles have taken fewer than MaxFrames frames, one place is free.
LEMMA PlaceIsFree ==
    ASSUME MeterIInv, NEW c \in Conns, received[c] - sttBytes[c] < MaxFrames
    PROVE  NextSlot(c) \in {c} \X Slots /\ task[NextSlot(c)] = Free
<1>1. Busy(c) \in SUBSET Slots
    BY DEF Busy
<1>2. IsFiniteSet(Slots) /\ Cardinality(Slots) = MaxFrames /\ Cardinality(Busy(c)) \in Nat
    BY <1>1, SlotsFinite, AllowanceAssumption, FS_Interval DEF Slots
<1>3. /\ Cardinality(Busy(c)) + sttBytes[c] <= received[c]
      /\ sttBytes[c] \in Nat /\ received[c] \in Nat
    BY DEF MeterIInv, PlacesSuffice, EveryFrameOnce, MeterTypeOK
<1>4. Busy(c) # Slots
    BY <1>2, <1>3, AllowanceAssumption
<1>5. PICK s \in Slots : task[<<c, s>>] = Free
    BY <1>1, <1>4 DEF Busy
<1>6. <<c, s>> \in {c} \X Slots
    OBVIOUS
<1> QED
    BY <1>5, <1>6 DEF NextSlot

\* n frames are taken, those counted with this step included.
LEMMA TakeKeeps ==
    ASSUME MeterIInv, NEW c \in Conns, NEW n \in Nat, n >= 1, NEW final \in BOOLEAN,
           Take(c, n, final),
           received' \in [Conns -> 0..MaxFrames],
           \A d \in Conns : d # c => received'[d] = received[d],
           received'[c] = (received[c] - sttBytes[c]) + n,
           UNCHANGED <<metered, lost>>
    PROVE  /\ HoldersRecord' /\ PlacesSuffice'
           /\ \A d \in Conns : received'[d] = sttBytes'[d] + Held(d)' + metered'[d] + lost'[d]
           /\ task' \in [Settle -> Tasks] /\ sttBytes' \in [Conns -> 0..MaxFrames]
<1> DEFINE k == NextSlot(c)
           u == [Free EXCEPT !.at = "recording", !.bytes = n, !.final = final]
<1>1. /\ task \in [Settle -> Tasks]
      /\ sttBytes \in [Conns -> 0..MaxFrames]
      /\ received \in [Conns -> 0..MaxFrames]
      /\ metered \in [Conns -> 0..MaxFrames] /\ lost \in [Conns -> 0..MaxFrames]
      /\ \A d \in Conns : received[d] = sttBytes[d] + Held(d) + metered[d] + lost[d]
      /\ \A d \in Conns : Cardinality(Busy(d)) + sttBytes[d] <= received[d]
    BY DEF MeterIInv, PlacesSuffice, EveryFrameOnce, MeterTypeOK, Tasks
<1>2. \A d \in Conns : Busy(d) \in SUBSET Slots /\ IsFiniteSet(Busy(d)) /\ Cardinality(Busy(d)) \in Nat
    BY SlotsFinite DEF Busy
<1>3. /\ received[c] - sttBytes[c] \in Nat /\ received[c] - sttBytes[c] < MaxFrames
      /\ n \in 0..MaxFrames
    <2>1. /\ received[c] \in Nat /\ sttBytes[c] \in Nat /\ received'[c] \in 0..MaxFrames
          /\ Cardinality(Busy(c)) \in Nat /\ Cardinality(Busy(c)) + sttBytes[c] <= received[c]
        BY <1>1, <1>2
    <2> QED
        BY <2>1, AllowanceAssumption
<1>4. k \in {c} \X Slots /\ task[k] = Free
    BY <1>3, PlaceIsFree
<1>5. PICK s \in Slots : k = <<c, s>>
    BY <1>4
<1>6. /\ task' = [task EXCEPT ![k] = u]
      /\ sttBytes' = [sttBytes EXCEPT ![c] = 0]
    BY DEF Take
<1>7. u \in Tasks /\ u.bytes = n /\ u.at = "recording" /\ task[k].bytes = 0
    <2>1. Free \in Tasks /\ Free.bytes = 0
        BY AllowanceAssumption DEF Tasks, Free
    <2>2. u \in Tasks /\ u.bytes = n /\ u.at = "recording"
        BY <1>3, <2>1 DEF Tasks
    <2> QED
        BY <1>4, <2>1, <2>2
<1> HIDE DEF k, u
<1>8. k \in Settle /\ k[1] = c
    BY <1>5 DEF Settle
<1>9. task' \in [Settle -> Tasks] /\ sttBytes' \in [Conns -> 0..MaxFrames]
    <2>1. task' \in [Settle -> Tasks]
        BY <1>1, <1>6, <1>7
    <2>2. 0 \in 0..MaxFrames
        BY AllowanceAssumption
    <2> QED
        BY <1>1, <1>6, <2>1, <2>2
<1>10. HoldersRecord'
    BY <1>1, <1>6, <1>7 DEF MeterIInv, HoldersRecord
<1>11. PlacesSuffice'
    <2> SUFFICES ASSUME NEW d \in Conns
                 PROVE  Cardinality(Busy(d)') + sttBytes'[d] <= received'[d]
        BY DEF PlacesSuffice, Busy
    <2>1. CASE d # c
        <3>1. Busy(d)' = Busy(d)
            BY <1>1, <1>5, <1>6, <2>1 DEF Busy, Settle
        <3>2. sttBytes'[d] = sttBytes[d] /\ received'[d] = received[d]
            BY <1>1, <1>6, <2>1
        <3> QED
            BY <1>1, <3>1, <3>2
    <2>2. CASE d = c
        <3>1. Busy(c)' \in SUBSET (Busy(c) \union {s})
            BY <1>1, <1>5, <1>6 DEF Busy, Settle
        <3>2. /\ IsFiniteSet(Busy(c) \union {s})
              /\ Cardinality(Busy(c) \union {s}) <= Cardinality(Busy(c)) + 1
            <4>1. IsFiniteSet(Busy(c)) /\ Cardinality(Busy(c)) \in Nat
                BY <1>2
            <4>2. /\ IsFiniteSet(Busy(c) \union {s})
                  /\ Cardinality(Busy(c) \union {s}) =
                        IF s \in Busy(c) THEN Cardinality(Busy(c)) ELSE Cardinality(Busy(c)) + 1
                BY <4>1, FS_AddElement
            <4> QED
                BY <4>1, <4>2
        <3>3. /\ Cardinality(Busy(c)') <= Cardinality(Busy(c) \union {s})
              /\ Cardinality(Busy(c)') \in Nat /\ Cardinality(Busy(c) \union {s}) \in Nat
            BY <3>1, <3>2, FS_Subset, FS_CardinalityType
        <3>4. sttBytes'[c] = 0 /\ sttBytes[c] \in Nat /\ received[c] \in Nat /\ received'[c] \in Nat
            BY <1>1, <1>6
        <3>5. Cardinality(Busy(c)) \in Nat /\ Cardinality(Busy(c)) + sttBytes[c] <= received[c]
            BY <1>1, <1>2
        <3>6. Cardinality(Busy(c)') + sttBytes'[c] <= received'[c]
            BY <3>2, <3>3, <3>4, <3>5
        <3> QED
            BY <2>2, <3>6
    <2> QED
        BY <2>1, <2>2
<1>12. ASSUME NEW d \in Conns
       PROVE  received'[d] = sttBytes'[d] + Held(d)' + metered'[d] + lost'[d]
    <2>1. Held(d) \in Nat /\ Held(d)' \in Nat /\ Held(d) = Held(d)' + Released(k, u, d)
        BY <1>1, <1>6, <1>7, <1>8, HeldChanges
    <2>2. /\ received[d] = sttBytes[d] + Held(d) + metered[d] + lost[d]
          /\ sttBytes[d] \in Nat /\ received[d] \in Nat
          /\ metered[d] \in Nat /\ lost[d] \in Nat
          /\ metered'[d] = metered[d] /\ lost'[d] = lost[d]
        BY <1>1
    <2>3. CASE d # c
        <3>1. Released(k, u, d) = 0
            BY <1>8, <2>3 DEF Released
        <3>2. sttBytes'[d] = sttBytes[d] /\ received'[d] = received[d]
            BY <1>1, <1>6, <2>3
        <3> QED
            BY <2>1, <2>2, <3>1, <3>2
    <2>4. CASE d = c
        <3>1. Released(k, u, d) = 0 - n
            BY <1>7, <1>8, <2>4 DEF Released
        <3>2. sttBytes'[d] = 0 /\ received'[d] = (received[d] - sttBytes[d]) + n
            BY <1>1, <1>6, <2>4
        <3> QED
            BY <2>1, <2>2, <3>1, <3>2
    <2> QED
        BY <2>3, <2>4
<1> QED
    BY <1>9, <1>10, <1>11, <1>12

\* The bound on the frames of all sockets bounds those of each.
LEMMA FrameIsCounted ==
    ASSUME received \in [Conns -> 0..MaxFrames], NEW c \in Conns,
           Cardinality({f \in Conns \X Slots : f[2] <= received[f[1]]}) < MaxFrames
    PROVE  received[c] < MaxFrames
<1> DEFINE all == {f \in Conns \X Slots : f[2] <= received[f[1]]}
           row == {c} \X (1..received[c])
<1>1. IsFiniteSet(Conns \X Slots)
    BY SlotsFinite, AllowanceAssumption, FS_Product
<1>2. IsFiniteSet(all) /\ Cardinality(all) \in Nat
    BY <1>1, FS_Subset, FS_CardinalityType
<1>3. received[c] \in Nat /\ received[c] <= MaxFrames
    BY AllowanceAssumption
<1>4. row \in SUBSET all
    <2>1. \A i \in 1..received[c] : i \in Slots /\ i <= received[c]
        BY <1>3, AllowanceAssumption DEF Slots
    <2> QED
        BY <2>1
<1>5. Cardinality(row) = received[c]
    BY <1>3, RowSize
<1> HIDE DEF row
<1>6. Cardinality(row) <= Cardinality(all)
    BY <1>2, <1>4, FS_Subset
<1> QED
    BY <1>2, <1>3, <1>5, <1>6, AllowanceAssumption

LEMMA FrameKeeps == ASSUME MeterIInv, NEW c \in Conns, Frame(c) PROVE MeterIInv'
<1> DEFINE n == sttBytes[c] + 1
<1>1. /\ task \in [Settle -> Tasks]
      /\ sttBytes \in [Conns -> 0..MaxFrames]
      /\ received \in [Conns -> 0..MaxFrames]
      /\ metered \in [Conns -> 0..MaxFrames] /\ lost \in [Conns -> 0..MaxFrames]
      /\ \A d \in Conns : received[d] = sttBytes[d] + Held(d) + metered[d] + lost[d]
      /\ \A d \in Conns : Cardinality(Busy(d)) + sttBytes[d] <= received[d]
    BY DEF MeterIInv, PlacesSuffice, EveryFrameOnce, MeterTypeOK, Tasks
<1>2. received[c] < MaxFrames
    BY <1>1, FrameIsCounted DEF Frame
<1>3. received' = [received EXCEPT ![c] = @ + 1] /\ UNCHANGED <<sockets, used, faults, metered, lost>>
    BY DEF Frame
<1>4. /\ received' \in [Conns -> 0..MaxFrames]
      /\ \A d \in Conns : d # c => received'[d] = received[d]
      /\ received'[c] = received[c] + 1
    <2>1. received[c] + 1 \in 0..MaxFrames
        BY <1>1, <1>2, AllowanceAssumption
    <2> QED
        BY <1>1, <1>3, <2>1
<1>5. n \in Nat /\ n >= 1 /\ received'[c] = (received[c] - sttBytes[c]) + n
    BY <1>1, <1>4
<1>6. CASE Take(c, n, FALSE)
    <2>1. /\ HoldersRecord' /\ PlacesSuffice'
          /\ \A d \in Conns : received'[d] = sttBytes'[d] + Held(d)' + metered'[d] + lost'[d]
          /\ task' \in [Settle -> Tasks] /\ sttBytes' \in [Conns -> 0..MaxFrames]
        <3> HIDE DEF n
        <3> QED
            BY <1>3, <1>4, <1>5, <1>6, TakeKeeps
    <2>2. MeterTypeOK'
        BY <1>3, <1>4, <2>1 DEF MeterIInv, EveryFrameOnce, MeterTypeOK, Tasks, sockets
    <2> QED
        BY <2>1, <2>2 DEF MeterIInv, EveryFrameOnce
<1>7. CASE sttBytes' = [sttBytes EXCEPT ![c] = n] /\ UNCHANGED task
    <2>1. \A d \in Conns : Busy(d)' = Busy(d) /\ Held(d)' = Held(d)
        BY <1>7 DEF Busy, Held
    <2>2. /\ sttBytes'[c] = sttBytes[c] + 1
          /\ \A d \in Conns : d # c => sttBytes'[d] = sttBytes[d]
        BY <1>1, <1>7
    <2>3. \A d \in Conns : Cardinality(Busy(d)) \in Nat /\ Held(d) \in Nat
        BY SlotsFinite DEF Busy, Held
    <2>4. ASSUME NEW d \in Conns
          PROVE  /\ Cardinality(Busy(d)') + sttBytes'[d] <= received'[d]
                 /\ received'[d] = sttBytes'[d] + Held(d)' + metered'[d] + lost'[d]
        <3>1. /\ received[d] = sttBytes[d] + Held(d) + metered[d] + lost[d]
              /\ Cardinality(Busy(d)) + sttBytes[d] <= received[d]
              /\ sttBytes[d] \in Nat /\ received[d] \in Nat /\ metered[d] \in Nat /\ lost[d] \in Nat
              /\ metered'[d] = metered[d] /\ lost'[d] = lost[d]
              /\ Cardinality(Busy(d)) \in Nat /\ Held(d) \in Nat
            BY <1>1, <1>3, <2>3
        <3>2. CASE d = c
            BY <1>4, <2>1, <2>2, <3>1, <3>2
        <3>3. CASE d # c
            BY <1>4, <2>1, <2>2, <3>1, <3>3
        <3> QED
            BY <3>2, <3>3
    <2>5. sttBytes' \in [Conns -> 0..MaxFrames]
        <3>1. sttBytes[c] <= received[c]
            <4>1. /\ Cardinality(Busy(c)) \in Nat /\ Cardinality(Busy(c)) + sttBytes[c] <= received[c]
                  /\ sttBytes[c] \in Nat /\ received[c] \in Nat
                BY <1>1, <2>3
            <4> QED
                BY <4>1
        <3>2. n \in 0..MaxFrames
            BY <1>1, <1>2, <3>1, AllowanceAssumption
        <3> HIDE DEF n
        <3> QED
            BY <1>1, <1>7, <3>2
    <2>6. MeterTypeOK'
        BY <1>3, <1>4, <1>7, <2>5 DEF MeterIInv, EveryFrameOnce, MeterTypeOK, sockets
    <2>7. HoldersRecord'
        BY <1>7 DEF MeterIInv, HoldersRecord
    <2>8. PlacesSuffice'
        BY <2>4 DEF PlacesSuffice, Busy
    <2> QED
        BY <2>4, <2>6, <2>7, <2>8 DEF MeterIInv, EveryFrameOnce
<1> QED
    BY <1>6, <1>7 DEF Frame

\* finish() settles what there is.
LEMMA FinishKeeps ==
    ASSUME MeterIInv, NEW c \in Conns, Finish(c), ws' \in [Conns -> {"open", "closing", "closed"}]
    PROVE  MeterIInv'
<1>1. /\ sttBytes \in [Conns -> 0..MaxFrames]
      /\ received \in [Conns -> 0..MaxFrames]
    BY DEF MeterIInv, EveryFrameOnce, MeterTypeOK
<1>2. UNCHANGED <<begun, sttStopped, sttWarned, used, faults, received, metered, lost>>
    BY DEF Finish, history
<1>3. stream' \in [Conns -> {"null", "live", "ended"}]
    BY DEF Finish, EndStream, MeterIInv, EveryFrameOnce, MeterTypeOK
<1>4. CASE sttBytes[c] > 0 /\ Take(c, sttBytes[c], TRUE)
    <2>1. sttBytes[c] \in Nat /\ sttBytes[c] >= 1 /\ received'[c] = (received[c] - sttBytes[c]) + sttBytes[c]
        BY <1>1, <1>2, <1>4
    <2>2. received' \in [Conns -> 0..MaxFrames] /\ \A d \in Conns : d # c => received'[d] = received[d]
        BY <1>1, <1>2
    <2>3. /\ HoldersRecord' /\ PlacesSuffice'
          /\ \A d \in Conns : received'[d] = sttBytes'[d] + Held(d)' + metered'[d] + lost'[d]
          /\ task' \in [Settle -> Tasks] /\ sttBytes' \in [Conns -> 0..MaxFrames]
        BY <1>2, <1>4, <2>1, <2>2, TakeKeeps
    <2>4. MeterTypeOK'
        BY <1>2, <1>3, <2>3 DEF MeterIInv, EveryFrameOnce, MeterTypeOK, Tasks
    <2> QED
        BY <2>3, <2>4 DEF MeterIInv, EveryFrameOnce
<1>5. CASE UNCHANGED <<sttBytes, task>>
    <2>1. MeterTypeOK'
        BY <1>2, <1>3, <1>5 DEF MeterIInv, EveryFrameOnce, MeterTypeOK
    <2> QED
        BY <1>2, <1>5, <2>1 DEF MeterIInv, EveryFrameOnce, HoldersRecord, PlacesSuffice, Busy, Held
<1> QED
    BY <1>4, <1>5 DEF Finish
\* What a settle's step leaves to be shown: it goes on as u.
Goes(k, u) ==
    /\ u \in Tasks /\ task[k] # Free /\ task' = [task EXCEPT ![k] = u]
    /\ u.at # "recording" => u.bytes = 0
    /\ u.bytes = 0 \/ u.bytes = task[k].bytes
    /\ UNCHANGED <<sttBytes, received>>

\* A step of a settle that holds no frames, or keeps what it holds.
LEMMA QuietSettle ==
    ASSUME MeterIInv, NEW k \in Settle, NEW u, Goes(k, u),
           u.bytes = task[k].bytes, UNCHANGED <<metered, lost>>,
           ws' \in [Conns -> {"open", "closing", "closed"}],
           stream' \in [Conns -> {"null", "live", "ended"}],
           sttStopped' \in [Conns -> BOOLEAN], sttWarned' \in [Conns -> BOOLEAN], begun' = begun,
           used' = used, faults' \in 0..MaxFaults
    PROVE  MeterIInv'
<1>1. /\ task \in [Settle -> Tasks] /\ u \in Tasks /\ used \in Nat
      /\ sttBytes \in [Conns -> 0..MaxFrames]
      /\ metered \in [Conns -> 0..MaxFrames] /\ lost \in [Conns -> 0..MaxFrames]
      /\ begun' \in [Conns -> {"no", "spare", "spent"}]
    BY DEF MeterIInv, EveryFrameOnce, MeterTypeOK, Tasks, Goes
<1>2. \A c \in Conns : metered'[c] + lost'[c] = metered[c] + lost[c] + Released(k, u, c)
    <2>1. \A c \in Conns : Released(k, u, c) = 0
        BY <1>1 DEF Released, Tasks
    <2>2. \A c \in Conns : metered[c] \in Nat /\ lost[c] \in Nat
        BY <1>1
    <2> QED
        BY <2>1, <2>2
<1>3. metered' \in [Conns -> Nat] /\ lost' \in [Conns -> Nat]
    BY <1>1
<1>4. /\ HoldersRecord' /\ PlacesSuffice'
      /\ \A c \in Conns : received'[c] = sttBytes'[c] + Held(c)' + metered'[c] + lost'[c]
      /\ \A h \in {received', metered', lost'} : h \in [Conns -> 0..MaxFrames]
    BY <1>1, <1>2, <1>3, SettleGoesOn DEF Goes
<1>5. task' \in [Settle -> Tasks] /\ sttBytes' \in [Conns -> 0..MaxFrames]
    BY <1>1 DEF Goes
<1>6. MeterTypeOK'
    BY <1>1, <1>4, <1>5 DEF MeterTypeOK, Tasks
<1> QED
    BY <1>4, <1>6 DEF MeterIInv, EveryFrameOnce

\* The frames of a settle reach the counter, or are lost.
LEMMA RecordedKeeps ==
    ASSUME MeterIInv, NEW k \in Settle, Recorded(k) \/ RecordFailed(k)
    PROVE  MeterIInv'
<1> DEFINE u == [task[k] EXCEPT !.at = "recorded", !.bytes = 0]
           c == k[1]
           n == task[k].bytes
<1>1. /\ task \in [Settle -> Tasks] /\ used \in Nat /\ c \in Conns
      /\ task[k].at = "recording" /\ n \in Nat
      /\ sttBytes \in [Conns -> 0..MaxFrames]
      /\ metered \in [Conns -> 0..MaxFrames] /\ lost \in [Conns -> 0..MaxFrames]
    BY DEF MeterIInv, EveryFrameOnce, MeterTypeOK, Tasks, Settle, Recorded, RecordFailed
<1>2. u \in Tasks /\ u.bytes = 0 /\ u.at = "recorded"
    <2>1. task[k] \in Tasks /\ 0 \in 0..MaxFrames
        BY <1>1, AllowanceAssumption
    <2> QED
        BY <2>1 DEF Tasks
<1>3. /\ task' = [task EXCEPT ![k] = u]
      /\ UNCHANGED <<ws, stream, begun, sttStopped, sttWarned, sttBytes, received>>
    BY DEF Recorded, RecordFailed, Unmoved, sockets
<1>4. task[k] # Free
    BY <1>1 DEF Free
<1>5. /\ metered' \in [Conns -> Nat] /\ lost' \in [Conns -> Nat]
      /\ used' \in Nat /\ faults' \in 0..MaxFaults
      /\ \A d \in Conns : metered'[d] + lost'[d] = metered[d] + lost[d] + Released(k, u, d)
    <2>0. \A d \in Conns : Released(k, u, d) = IF d = c THEN n ELSE 0
        BY <1>1, <1>2 DEF Released
    <2> HIDE DEF u, n, c
    <2>1. CASE Recorded(k)
        <3>1. /\ metered' = [metered EXCEPT ![c] = metered[c] + n] /\ lost' = lost
              /\ used' = used + n /\ faults' = faults
            BY <2>1 DEF Recorded, n, c
        <3>2. \A d \in Conns : metered'[d] = metered[d] + (IF d = c THEN n ELSE 0)
            BY <1>1, <3>1
        <3> QED
            BY <1>1, <2>0, <3>1, <3>2 DEF MeterIInv, EveryFrameOnce, MeterTypeOK
    <2>2. CASE RecordFailed(k)
        <3>1. /\ lost' = [lost EXCEPT ![c] = lost[c] + n] /\ metered' = metered
              /\ used' = used /\ Fault
            BY <2>2 DEF RecordFailed, n, c
        <3>2. \A d \in Conns : lost'[d] = lost[d] + (IF d = c THEN n ELSE 0)
            BY <1>1, <3>1
        <3>3. faults' \in 0..MaxFaults
            BY <3>1, AllowanceAssumption DEF Fault, MeterIInv, EveryFrameOnce, MeterTypeOK
        <3> QED
            BY <1>1, <2>0, <3>1, <3>2, <3>3
    <2> QED
        BY <2>1, <2>2
<1> HIDE DEF u, n, c
<1>6. /\ HoldersRecord' /\ PlacesSuffice'
      /\ \A d \in Conns : received'[d] = sttBytes'[d] + Held(d)' + metered'[d] + lost'[d]
      /\ \A h \in {received', metered', lost'} : h \in [Conns -> 0..MaxFrames]
    BY <1>1, <1>2, <1>3, <1>4, <1>5, SettleGoesOn
<1>7. task' \in [Settle -> Tasks] /\ sttBytes' \in [Conns -> 0..MaxFrames]
    BY <1>1, <1>2, <1>3
<1>8. MeterTypeOK'
    BY <1>3, <1>5, <1>6, <1>7 DEF MeterIInv, EveryFrameOnce, MeterTypeOK, Tasks
<1> QED
    BY <1>6, <1>8 DEF MeterIInv, EveryFrameOnce

\* What a settle does after the counter: it holds nothing.
LEMMA AfterwardsKeep ==
    ASSUME MeterIInv, NEW k \in Settle,
           AfterRecording(k) \/ CounterRead(k) \/ ReadFailed(k) \/ Warn(k) \/ Judge(k)
    PROVE  MeterIInv'
<1>1. /\ task \in [Settle -> Tasks] /\ task[k] \in Tasks /\ k[1] \in Conns
      /\ ws \in [Conns -> {"open", "closing", "closed"}]
      /\ stream \in [Conns -> {"null", "live", "ended"}]
      /\ sttStopped \in [Conns -> BOOLEAN] /\ sttWarned \in [Conns -> BOOLEAN]
      /\ faults \in 0..MaxFaults
      /\ Free \in Tasks /\ Free.bytes = 0 /\ Free.at = "free"
    BY AllowanceAssumption DEF MeterIInv, EveryFrameOnce, MeterTypeOK, Tasks, Settle, Free
<1>2. task[k].at \in {"recorded", "fraction", "capacity"}
    BY DEF AfterRecording, CounterRead, Answer, ReadFailed, Warn, Judge
<1>3. task[k].bytes = 0 /\ task[k] # Free
    BY <1>1, <1>2 DEF MeterIInv, HoldersRecord
<1>4. UNCHANGED <<begun, sttBytes, received, metered, lost, used>>
    BY DEF AfterRecording, CounterRead, Answer, ReadFailed, Warn, Judge, Unmoved, sockets, history
<1>5. faults' \in 0..MaxFaults
    BY <1>1, AllowanceAssumption
       DEF AfterRecording, CounterRead, Answer, ReadFailed, Warn, Judge, Fault
<1>6. /\ ws' \in [Conns -> {"open", "closing", "closed"}]
      /\ stream' \in [Conns -> {"null", "live", "ended"}]
      /\ sttStopped' \in [Conns -> BOOLEAN] /\ sttWarned' \in [Conns -> BOOLEAN]
    <2>1. CASE AfterRecording(k) \/ CounterRead(k) \/ ReadFailed(k)
        BY <1>1, <2>1 DEF AfterRecording, CounterRead, Answer, ReadFailed, Unmoved, sockets
    <2>2. CASE Warn(k)
        BY <1>1, <2>2 DEF Warn
    <2>3. CASE Judge(k)
        <3>1. CASE UNCHANGED sockets
            BY <1>1, <3>1 DEF sockets
        <3>2. CASE /\ sttStopped' = [sttStopped EXCEPT ![k[1]] = TRUE]
                   /\ EndStream(k[1]) /\ ServerClose(k[1]) /\ UNCHANGED sttWarned
            <4>1. sttStopped' \in [Conns -> BOOLEAN] /\ sttWarned' \in [Conns -> BOOLEAN]
                BY <1>1, <3>2
            <4>2. stream' \in [Conns -> {"null", "live", "ended"}]
                BY <1>1, <3>2 DEF EndStream
            <4>3. ws' \in [Conns -> {"open", "closing", "closed"}]
                BY <1>1, <3>2 DEF ServerClose
            <4> QED
                BY <4>1, <4>2, <4>3
        <3> QED
            BY <2>3, <3>1, <3>2 DEF Judge
    <2> QED
        BY <2>1, <2>2, <2>3
<1>7. \E u : /\ u \in Tasks /\ u.bytes = 0 /\ u.at # "recording"
             /\ task' = [task EXCEPT ![k] = u]
    <2>1. CASE AfterRecording(k)
        <3> DEFINE u == IF task[k].final \/ sttStopped[k[1]] THEN Free
                        ELSE [task[k] EXCEPT !.at = IF sttWarned[k[1]] THEN "capacity"
                                                    ELSE "fraction"]
        <3>1. task' = [task EXCEPT ![k] = u]
            BY <2>1 DEF AfterRecording
        <3>2. u \in Tasks /\ u.bytes = 0 /\ u.at # "recording"
            <4>1. CASE task[k].final \/ sttStopped[k[1]]
                BY <1>1, <4>1
            <4>2. CASE ~(task[k].final \/ sttStopped[k[1]])
                <5> DEFINE at == IF sttWarned[k[1]] THEN "capacity" ELSE "fraction"
                <5>1. at \in {"fraction", "capacity"}
                    OBVIOUS
                <5>2. u = [task[k] EXCEPT !.at = at]
                    BY <4>2
                <5> HIDE DEF at, u
                <5> QED
                    BY <1>1, <1>3, <5>1, <5>2 DEF Tasks
            <4> QED
                BY <4>1, <4>2
        <3> HIDE DEF u
        <3> QED
            BY <3>1, <3>2
    <2>2. CASE CounterRead(k) \/ ReadFailed(k)
        <3>1. PICK answer \in {"spent", "spare"} : task' = [task EXCEPT ![k].answer = answer]
            BY <2>2 DEF CounterRead, Answer, ReadFailed
        <3> DEFINE u == [task[k] EXCEPT !.answer = answer]
        <3>2. u \in Tasks /\ u.bytes = 0 /\ u.at # "recording"
            BY <1>1, <1>2, <1>3 DEF Tasks
        <3>3. task' = [task EXCEPT ![k] = u]
            BY <3>1
        <3> HIDE DEF u
        <3> QED
            BY <3>2, <3>3
    <2>3. CASE Warn(k)
        <3> DEFINE u == [task[k] EXCEPT !.at = "capacity", !.answer = "none"]
        <3>2. u \in Tasks /\ u.bytes = 0 /\ u.at # "recording"
            BY <1>1, <1>3 DEF Tasks
        <3>3. task' = [task EXCEPT ![k] = u]
            BY <2>3 DEF Warn
        <3> HIDE DEF u
        <3> QED
            BY <3>2, <3>3
    <2>4. CASE Judge(k)
        <3>1. task' = [task EXCEPT ![k] = Free]
            BY <2>4 DEF Judge
        <3> QED
            BY <1>1, <3>1
    <2> QED
        BY <2>1, <2>2, <2>3, <2>4
<1>8. PICK u : /\ u \in Tasks /\ u.bytes = 0 /\ u.at # "recording"
               /\ task' = [task EXCEPT ![k] = u]
    BY <1>7
<1>9. Goes(k, u)
    BY <1>3, <1>4, <1>8 DEF Goes
<1> QED
    BY <1>3, <1>4, <1>5, <1>6, <1>8, <1>9, QuietSettle

LEMMA MeterStart == MeterInit => MeterIInv
<1> SUFFICES ASSUME MeterInit PROVE MeterIInv
    OBVIOUS
<1>1. Free \in Tasks /\ Free.bytes = 0
    BY AllowanceAssumption DEF Free, Tasks
<1>2. \A k \in Settle : task[k] = Free
    BY DEF MeterInit
<1>3. 0 \in 0..MaxFrames /\ 0 \in 0..MaxFaults
    BY AllowanceAssumption
<1>4. MeterTypeOK
    <2>1. task \in [Settle -> Tasks]
        BY <1>1 DEF MeterInit
    <2> QED
        BY <1>3, <2>1 DEF MeterInit, MeterTypeOK, Tasks
<1>5. \A c \in Conns : Busy(c) = {} /\ Held(c) = 0
    <2> TAKE c \in Conns
    <2>1. \A s \in Slots : task[<<c, s>>] = Free /\ s \in Nat /\ s >= 1
        BY <1>2 DEF Settle, Slots
    <2>2. {f \in Slots \X Slots : f[2] <= task[<<c, f[1]>>].bytes} = {}
        <3> SUFFICES ASSUME NEW s \in Slots, NEW i \in Slots, i <= task[<<c, s>>].bytes PROVE FALSE
            OBVIOUS
        <3>1. task[<<c, s>>].bytes = 0 /\ i \in Nat /\ i >= 1
            BY <1>1, <2>1
        <3> QED
            BY <3>1
    <2> QED
        BY <2>1, <2>2, FS_EmptySet DEF Busy, Held
<1>6. ASSUME NEW c \in Conns
      PROVE  /\ Cardinality(Busy(c)) + sttBytes[c] <= received[c]
             /\ received[c] = sttBytes[c] + Held(c) + metered[c] + lost[c]
    BY <1>5, FS_EmptySet DEF MeterInit
<1>7. HoldersRecord
    BY <1>1, <1>2 DEF HoldersRecord
<1> QED
    BY <1>4, <1>6, <1>7 DEF MeterIInv, PlacesSuffice, EveryFrameOnce

\* The inductive invariant of the metering: only a settle on its way to the counter holds
\* frames, and there is always a place for one more.
THEOREM MeterInvariance == MeterSpec => []MeterIInv
<1>1. MeterIInv /\ [MeterNext]_meterVars => MeterIInv'
    <2> SUFFICES ASSUME MeterIInv, [MeterNext]_meterVars PROVE MeterIInv'
        OBVIOUS
    <2>1. CASE UNCHANGED meterVars
        BY <2>1 DEF meterVars, sockets, history, MeterIInv, EveryFrameOnce, MeterTypeOK,
                    HoldersRecord, PlacesSuffice, Busy, Held
    <2>2. ASSUME NEW c \in Conns, Begin(c) \/ Opened(c) PROVE MeterIInv'
        <3>1. MeterTypeOK'
            <4>1. faults' \in 0..MaxFaults
                BY <2>2, AllowanceAssumption DEF Begin, Opened, Fault, MeterIInv,
                                                 EveryFrameOnce, MeterTypeOK
            <4> QED
                BY <2>2, <4>1 DEF Begin, Opened, ServerClose, history, MeterIInv,
                                  EveryFrameOnce, MeterTypeOK
        <3> QED
            BY <2>2, <3>1 DEF Begin, Opened, history, MeterIInv, EveryFrameOnce,
                              HoldersRecord, PlacesSuffice, Busy, Held
    <2>3. ASSUME NEW c \in Conns, Frame(c) PROVE MeterIInv'
        BY <2>3, FrameKeeps
    <2>4. ASSUME NEW c \in Conns, Stop(c) \/ Disconnect(c) PROVE MeterIInv'
        <3>1. ws' \in [Conns -> {"open", "closing", "closed"}]
            BY <2>4 DEF Stop, Disconnect, MeterIInv, EveryFrameOnce, MeterTypeOK
        <3> QED
            BY <2>4, <3>1, FinishKeeps DEF Stop, Disconnect
    <2>5. ASSUME NEW k \in Settle, SettleStep(k) PROVE MeterIInv'
        BY <2>5, RecordedKeeps, AfterwardsKeep DEF SettleStep
    <2> QED
        BY <2>1, <2>2, <2>3, <2>4, <2>5 DEF MeterNext
<1> QED
    BY <1>1, MeterStart, PTL DEF MeterSpec

\* EveryFrameOnce: every frame counted is in one place, whatever settles of its socket run
\* at once (settleStt takes the count before its first await).
THEOREM FramesAreMeteredOnce == MeterSpec => []EveryFrameOnce
<1>1. MeterIInv => EveryFrameOnce
    BY DEF MeterIInv
<1> QED
    BY <1>1, MeterInvariance, PTL
=============================================================================
