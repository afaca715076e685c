-------------------------- MODULE RetainedAudioProof --------------------------
(***************************************************************************)
(* Proofs about RetainedAudio: a live lecture keeps the audio it refers to,  *)
(* the purge credits what it removes, and the storage gauge of an account   *)
(* neither understates what is kept nor counts what can never be credited.  *)
(***************************************************************************)
EXTENDS RetainedAudio, FiniteSetTheorems, TLAPS

-----------------------------------------------------------------------------
(* The inductive invariant.                                                *)

Kinds == {"delete", "restore", "transfer", "crash", "fault"}

\* A sweep at work has a job in hand.
WorkIs(places, todo) == [at : places, todo : todo, job : Job \union {NoJob}]

Shape ==
    /\ deck \in [Decks -> {"live", "tombstoned", "purged"}]
    /\ owner \in [Decks -> Users]
    /\ refs \in [Decks -> SUBSET Rec]
    /\ objects \subseteq Rec
    /\ gauge \in [Users -> Nat]
    /\ flush \in [Rec -> {"none", "uploading", "stored", "recorded",
                          "aborting", "over"}]
    /\ payer \in [Rec -> Users \union {Nobody}]
    /\ old \subseteq Rec
    /\ astray \subseteq Rec
    /\ sweep \in WorkIs({"idle", "deleting", "pulling", "crediting"}, SUBSET Job)
    /\ purge \in WorkIs({"idle", "deleting", "crediting", "removing"}, SUBSET Decks)
    /\ debited \subseteq Rec
    /\ credits \in [Rec -> Seq(Users)]
    /\ spent \in [Kinds -> Nat]
    /\ \A k \in Kinds : spent[k] <= Bound[k]

\* Where a flush is tells what has been done for its recording.
Told(r) ==
    /\ flush[r] # "none" => payer[r] \in Users
    /\ r \in refs[r[1]] => flush[r] \in {"recorded", "over"}
    /\ r \in old => flush[r] = "over"
    /\ r \in debited => flush[r] = "over"
    /\ flush[r] = "stored" => r \in objects

FlushInv == \A r \in Rec : Told(r)

RefsInv == \A d \in Decks : \A r \in refs[d] : r[1] = d

\* The sweeps act on recordings of their lecture that have expired, or at least
\* are referred to.
JobIsExpired(j) ==
    /\ j \in Job
    /\ j.left \subseteq j.recs
    /\ \A r \in j.recs : r \in old /\ r[1] = j.deck

JobsInv ==
    /\ sweep.at = "idle" => sweep.job = NoJob
    /\ sweep.at # "idle" => JobIsExpired(sweep.job)
    /\ \A j \in sweep.todo : JobIsExpired(j)
    /\ purge.at # "idle" =>
          /\ purge.job \in Job
          /\ \A r \in purge.job.recs : /\ r[1] = purge.job.deck
                                       /\ flush[r] \in {"recorded", "over"}

\* Nothing that the purge has in hand comes back to life.
PurgeInv ==
    Never({"restore"}) =>
      /\ \A d \in purge.todo : deck[d] # "live"
      /\ purge.at # "idle" => deck[purge.job.deck] # "live"

\* What a lecture still refers to when the purge removes it: what the purge read,
\* and so credits, or what came after a restore that the purge did not notice.
Pending(r) == flush[r] \in {"none", "uploading", "stored"}
ListedInv ==
    \A d \in Listed : deck[d] = "live" =>
        \A r \in Rec : r[1] = d /\ Pending(r) => r \in astray
ReadInv ==
    purge.at # "idle" => refs[purge.job.deck] \subseteq purge.job.recs \union astray
CreditedInv ==
    Never({"fault"}) /\ purge.at = "removing" =>
        \A r \in purge.job.recs : credits[r] # <<>>

\* What an account was charged for: the gauge never counts more.
Charged(u) == {r \in debited : payer[r] = u}
ChargedInv == \A u \in Users : gauge[u] <= Cardinality(Charged(u))

\* Where nothing is deleted, a recording that is on its lecture has not been
\* credited; a job credits those it has taken off, and no two have the same.
JobIsKept(j) == j.recs \subseteq refs[j.deck]

SweepInv ==
    Never({"delete"}) =>
      /\ \A d \in Decks : deck[d] = "live"
      /\ purge = Idle
      /\ \A r \in Rec : /\ r \in refs[r[1]] => credits[r] = <<>>
                        /\ credits[r] # <<>> => flush[r] = "over"
      /\ \A j \in sweep.todo : JobIsKept(j)
      /\ \A j, k \in sweep.todo : j.deck = k.deck => j = k
      /\ sweep.at # "idle" => \A j \in sweep.todo : j.deck # sweep.job.deck
      /\ sweep.at \in {"deleting", "pulling"} => JobIsKept(sweep.job)
      /\ sweep.at = "crediting" =>
            \A r \in sweep.job.recs : r \notin refs[r[1]] /\ credits[r] = <<>>

\* Without transfers either, everything is charged and credited to one account.
PayerInv ==
    Never({"delete", "transfer"}) =>
      /\ \A d \in Decks : owner[d] = FirstOwner
      /\ \A r \in Rec : payer[r] \in {FirstOwner, Nobody}
      /\ \A j \in sweep.todo : j.owner = FirstOwner
      /\ sweep.at # "idle" => sweep.job.owner = FirstOwner

\* What an account was charged for and not yet credited.
Owed(u) == {r \in Charged(u) : credits[r] = <<>>}
OwedInv ==
    Never({"delete", "transfer"}) =>
      \A u \in Users :
        Cardinality(Owed(u)) <= gauge[u] + Cardinality(NeverCharged(u))

\* A flush that has written its reference still finds it.
RecordedInv ==
    Never({"delete", "crash", "fault"}) =>
      \A r \in Rec : flush[r] = "recorded" => r \in refs[r[1]]

IInv ==
    /\ Shape /\ FlushInv /\ RefsInv /\ JobsInv /\ PurgeInv /\ ChargedInv
    /\ ListedInv /\ ReadInv /\ CreditedInv
    /\ SweepInv /\ PayerInv /\ OwedInv /\ RecordedInv
    /\ RecordingHasAudio /\ GaugeOnlyCountsFindableAudio

-----------------------------------------------------------------------------
(* Facts about the constants and the bounds.                               *)

LEMMA BoundIs == DOMAIN Bound = Kinds /\ \A k \in Kinds : Bound[k] \in Nat
BY BoundsAssumption DEF Bound, Kinds

LEMMA RecIs == IsFiniteSet(Rec) /\ \A r \in Rec : r[1] \in Decks
<1>1. IsFiniteSet(1..MaxRecordings)
    BY BoundsAssumption, FS_Interval
<1>2. IsFiniteSet(Decks)
    BY BoundsAssumption
<1>3. IsFiniteSet(Rec)
    BY <1>1, <1>2, FS_Product DEF Rec
<1> QED
    BY <1>3 DEF Rec

LEMMA Spends ==
    ASSUME Shape, NEW kind \in Kinds, Spend(kind)
    PROVE  /\ spent' \in [Kinds -> Nat] /\ spent'[kind] # 0
           /\ \A k \in Kinds : spent[k] <= spent'[k] /\ spent'[k] <= Bound[k]
BY BoundIs DEF Shape, Spend

\* What a step does to the counts of disturbances: none goes down.
Grows == /\ spent' \in [Kinds -> Nat]
         /\ \A k \in Kinds : spent[k] <= spent'[k] /\ spent'[k] <= Bound[k]

LEMMA InitIInv == Init => IInv
<1> SUFFICES ASSUME Init PROVE IInv
    OBVIOUS
<1>1. Shape
    <2>1. spent \in [Kinds -> Nat] /\ \A k \in Kinds : spent[k] <= Bound[k]
        BY BoundIs DEF Init
    <2>2. /\ sweep \in WorkIs({"idle", "deleting", "pulling", "crediting"}, SUBSET Job)
          /\ purge \in WorkIs({"idle", "deleting", "crediting", "removing"}, SUBSET Decks)
        BY DEF Init, Idle, WorkIs
    <2>3. credits \in [Rec -> Seq(Users)] /\ owner \in [Decks -> Users]
        BY AccountsAssumption DEF Init
    <2> QED
        BY <2>1, <2>2, <2>3 DEF Shape, Init
<1>2. \A r \in Rec : r \notin refs[r[1]]
    BY RecIs DEF Init
<1>3. FlushInv /\ RefsInv /\ RecordedInv
    BY <1>2 DEF Init, FlushInv, Told, RefsInv, RecordedInv
<1>4. JobsInv /\ PurgeInv /\ ListedInv /\ ReadInv /\ CreditedInv
    BY DEF Init, Idle, JobsInv, PurgeInv, Listed, ListedInv, ReadInv, CreditedInv
<1>5. SweepInv /\ PayerInv
    BY <1>2 DEF Init, Idle, SweepInv, PayerInv
<1>6. \A u \in Users : gauge[u] = 0 /\ Charged(u) = {} /\ Owed(u) = {} /\ NeverCharged(u) = {}
    BY DEF Init, Charged, Owed, NeverCharged
<1>7. ChargedInv /\ OwedInv
    BY <1>6, FS_EmptySet DEF ChargedInv, OwedInv
<1>8. RecordingHasAudio /\ GaugeOnlyCountsFindableAudio
    BY DEF Init, RecordingHasAudio, GaugeOnlyCountsFindableAudio
<1> QED
    BY <1>1, <1>3, <1>4, <1>5, <1>7, <1>8 DEF IInv

-----------------------------------------------------------------------------
(* The shape of the state.                                                 *)

LEMMA Credits ==
    ASSUME Shape, NEW u \in Users, NEW recs \in SUBSET Rec, Credit(u, recs)
    PROVE  /\ gauge' \in [Users -> Nat] /\ credits' \in [Rec -> Seq(Users)]
           /\ debited' = debited /\ Grows
<1>1. CASE AdjustLost
    BY <1>1, Spends DEF AdjustLost, ledger, Shape, Grows, Kinds
<1>2. CASE /\ gauge' = [gauge EXCEPT ![u] = Less(@, Cardinality(recs))]
           /\ credits' = [r \in Rec |->
                            IF r \in recs THEN Append(credits[r], u) ELSE credits[r]]
           /\ UNCHANGED <<debited, spent>>
    <2>1. Cardinality(recs) \in Nat
        BY RecIs, FS_Subset, FS_CardinalityType
    <2>2. gauge' \in [Users -> Nat]
        BY <1>2, <2>1 DEF Shape, Less
    <2>3. credits' \in [Rec -> Seq(Users)]
        BY <1>2 DEF Shape
    <2> QED
        BY <1>2, <2>2, <2>3 DEF Shape, Grows
<1> QED
    BY <1>1, <1>2 DEF Credit

\* What the actions of a session, of deletion, and of the two sweeps leave.
LEMMA ShapeOfFlush ==
    ASSUME Shape, NEW r \in Rec, BeginRetention(r) \/ FlushStep(r) \/ Expire(r)
    PROVE  Shape' /\ Grows
<1>1. CASE BeginRetention(r)
    BY <1>1, RecIs DEF BeginRetention, ledger, Shape, Grows
<1>2. CASE UploadDone(r)
    BY <1>2 DEF UploadDone, FlushTo, ledger, Shape, Grows
<1>7. CASE UploadAborted(r)
    BY <1>7 DEF UploadAborted, FlushTo, ledger, Shape, Grows
<1>8. CASE Abort(r)
    BY <1>8 DEF Abort, FlushTo, ledger, Shape, Grows
<1>3. CASE PushReference(r)
    BY <1>3, RecIs DEF PushReference, FlushTo, ledger, Shape, Grows
<1>4. CASE PushFails(r)
    BY <1>4, Spends DEF PushFails, FlushTo, ledger, Shape, Grows, Kinds
<1>5. CASE Charge(r)
    <2>1. CASE AdjustLost
        BY <1>5, <2>1, Spends DEF AdjustLost, Charge, FlushTo, ledger, Shape, Grows, Kinds
    <2>2. CASE /\ gauge' = [gauge EXCEPT ![payer[r]] = @ + 1]
               /\ debited' = debited \union {r}
               /\ UNCHANGED <<credits, spent>>
        <3>1. gauge' \in [Users -> Nat]
            <4>1. \A u \in Users : gauge'[u] = IF u = payer[r] THEN gauge[u] + 1 ELSE gauge[u]
                BY <2>2 DEF Shape
            <4>2. \A u \in Users : gauge[u] \in Nat
                BY DEF Shape
            <4>3. \A u \in Users : gauge'[u] \in Nat
                BY <4>1, <4>2
            <4> QED
                BY <2>2, <4>3 DEF Shape
        <3>2. flush' = [flush EXCEPT ![r] = "over"]
              /\ UNCHANGED <<deck, owner, payer, old, astray, sweep, purge, refs, objects>>
            BY <1>5 DEF Charge, FlushTo
        <3> QED
            BY <2>2, <3>1, <3>2 DEF Shape, Grows
    <2> QED
        BY <1>5, <2>1, <2>2 DEF Charge
<1>6. CASE Expire(r)
    BY <1>6 DEF Expire, ledger, Shape, Grows
<1> QED
    BY <1>1, <1>2, <1>3, <1>4, <1>5, <1>6, <1>7, <1>8 DEF FlushStep

LEMMA ShapeOfDecks ==
    ASSUME Shape, NEW d \in Decks, NEW u \in Users,
           DeleteDeck(d) \/ RestoreDeck(d) \/ TransferOwnership(d, u)
    PROVE  Shape' /\ Grows
<1>1. CASE DeleteDeck(d)
    BY <1>1, Spends DEF DeleteDeck, ledger, Shape, Grows, Kinds
<1>2. CASE RestoreDeck(d)
    BY <1>2, Spends DEF RestoreDeck, ledger, Shape, Grows, Kinds
<1>3. CASE TransferOwnership(d, u)
    BY <1>3, Spends DEF TransferOwnership, ledger, Shape, Grows, Kinds
<1> QED
    BY <1>1, <1>2, <1>3

LEMMA Jobs ==
    ASSUME Shape, NEW d \in Decks, NEW recs \in SUBSET Rec
    PROVE  JobOf(d, recs) \in Job
BY DEF JobOf, Job, Shape

\* The sweep from one lecture to the next: its record is rebuilt or updated.
LEMMA SweepMoves ==
    ASSUME Shape, sweep.at # "idle" => sweep.job \in Job, SweepStep
    PROVE  sweep' \in WorkIs({"idle", "deleting", "pulling", "crediting"}, SUBSET Job)
<1>0. /\ sweep.at \in {"idle", "deleting", "pulling", "crediting"}
      /\ sweep.todo \in SUBSET Job /\ sweep.job \in Job \union {NoJob}
      /\ sweep = [at |-> sweep.at, todo |-> sweep.todo, job |-> sweep.job]
    BY DEF Shape, WorkIs
<1>1. CASE SweepFind
    <2>1. \A d \in Decks : JobOf(d, Expired(d)) \in Job
        BY Jobs DEF Expired, Shape
    <2>2. PICK jobs \in SUBSET Job : sweep' = [Idle EXCEPT !.todo = jobs]
        BY <1>1, <2>1 DEF SweepFind
    <2> QED
        BY <2>2 DEF Idle, WorkIs
<1>2. CASE SweepTake
    BY <1>0, <1>2 DEF SweepTake, WorkIs
<1>3. CASE SweepDelete
    <2>1. PICK r \in sweep.job.left :
              sweep' = [sweep EXCEPT
                          !.job.left = sweep.job.left \ {r},
                          !.at = IF sweep.job.left \ {r} = {} THEN "pulling" ELSE "deleting"]
        BY <1>3 DEF SweepDelete
    <2>2. sweep.job \in Job
        BY <1>3 DEF SweepDelete
    <2>3. [sweep.job EXCEPT !.left = sweep.job.left \ {r}] \in Job
        BY <2>2 DEF Job
    <2> QED
        BY <1>0, <2>1, <2>3 DEF WorkIs
<1>4. CASE SweepPull
    BY <1>0, <1>4 DEF SweepPull, WorkIs
<1>5. CASE SweepPullFails
    BY <1>5 DEF SweepPullFails, Idle, WorkIs
<1>6. CASE SweepCredit
    BY <1>0, <1>6 DEF SweepCredit, WorkIs
<1> QED
    BY <1>1, <1>2, <1>3, <1>4, <1>5, <1>6 DEF SweepStep

LEMMA ShapeOfSweep ==
    ASSUME Shape, sweep.at # "idle" => JobIsExpired(sweep.job), SweepStep
    PROVE  Shape' /\ Grows
<1>0. sweep.at # "idle" => sweep.job \in Job
    BY DEF JobIsExpired
<1>1. sweep' \in WorkIs({"idle", "deleting", "pulling", "crediting"}, SUBSET Job)
    BY <1>0, SweepMoves
<1>2. CASE SweepFind \/ SweepTake
    <2>1. UNCHANGED <<deck, owner, flush, payer, old, astray, purge, refs, objects, ledger, spent>>
        BY <1>2 DEF SweepFind, SweepTake, SweepUnchanged
    <2> QED
        BY <1>1, <2>1 DEF ledger, Shape, Grows
<1>3. CASE SweepDelete
    <2>1. UNCHANGED <<deck, owner, flush, payer, old, astray, purge, refs, ledger, spent>>
          /\ objects' \subseteq objects
        BY <1>3 DEF SweepDelete, SweepUnchanged
    <2> QED
        BY <1>1, <2>1 DEF ledger, Shape, Grows
<1>4. CASE SweepPull
    <2>1. UNCHANGED <<deck, owner, flush, payer, old, astray, purge, objects, ledger, spent>>
        BY <1>4 DEF SweepPull, SweepUnchanged
    <2>2. refs' \in [Decks -> SUBSET Rec]
        BY <1>4 DEF SweepPull, Shape
    <2> QED
        BY <1>1, <2>1, <2>2 DEF ledger, Shape, Grows
<1>5. CASE SweepPullFails
    <2>1. UNCHANGED <<deck, owner, flush, payer, old, astray, purge, refs, objects, ledger>>
        BY <1>5 DEF SweepPullFails, SweepUnchanged
    <2>2. Grows
        BY <1>5, Spends DEF SweepPullFails, Grows, Kinds
    <2> QED
        BY <1>1, <2>1, <2>2 DEF ledger, Shape, Grows
<1>6. CASE SweepCredit
    <2>1. UNCHANGED <<deck, owner, flush, payer, old, astray, purge, refs, objects>>
        BY <1>6 DEF SweepCredit, SweepUnchanged
    <2>2. sweep.job.owner \in Users /\ sweep.job.recs \in SUBSET Rec
        BY <1>0, <1>6 DEF SweepCredit, Job
    <2>3. /\ gauge' \in [Users -> Nat] /\ credits' \in [Rec -> Seq(Users)]
          /\ debited' = debited /\ Grows
        BY <1>6, <2>2, Credits DEF SweepCredit
    <2> QED
        BY <1>1, <2>1, <2>3 DEF Shape, Grows
<1> QED
    BY <1>2, <1>3, <1>4, <1>5, <1>6 DEF SweepStep

LEMMA ShapeOfPurge ==
    ASSUME Shape, purge.at # "idle" => purge.job \in Job, PurgeStep
    PROVE  Shape' /\ Grows
<1>0. /\ purge.at \in {"idle", "deleting", "crediting", "removing"}
      /\ purge.todo \in SUBSET Decks /\ purge.job \in Job \union {NoJob}
      /\ purge = [at |-> purge.at, todo |-> purge.todo, job |-> purge.job]
    BY DEF Shape, WorkIs
<1>1. CASE PurgeFind
    <2>1. PICK S \in SUBSET Decks : purge' = [Idle EXCEPT !.todo = S]
        BY <1>1 DEF PurgeFind, Purgeable
    <2>2. purge' \in WorkIs({"idle", "deleting", "crediting", "removing"}, SUBSET Decks)
        BY <2>1 DEF Idle, WorkIs
    <2>3. UNCHANGED <<owner, flush, payer, old, astray, sweep, deck, refs, objects, ledger, spent>>
        BY <1>1 DEF PurgeFind, PurgeUnchanged
    <2> QED
        BY <2>2, <2>3 DEF ledger, Shape, Grows
<1>2. CASE PurgeTake
    <2>1. PICK d \in Decks :
              purge' = [at |-> "deleting", todo |-> purge.todo \ {d}, job |-> JobOf(d, refs[d])]
        BY <1>0, <1>2 DEF PurgeTake
    <2>2. JobOf(d, refs[d]) \in Job
        BY Jobs DEF Shape
    <2>3. purge' \in WorkIs({"idle", "deleting", "crediting", "removing"}, SUBSET Decks)
        BY <1>0, <2>1, <2>2 DEF WorkIs
    <2>4. UNCHANGED <<owner, flush, payer, old, astray, sweep, deck, refs, objects, ledger, spent>>
        BY <1>2 DEF PurgeTake, PurgeUnchanged
    <2> QED
        BY <2>3, <2>4 DEF ledger, Shape, Grows
<1>3. CASE PurgeDelete
    <2>1. purge' \in WorkIs({"idle", "deleting", "crediting", "removing"}, SUBSET Decks)
        BY <1>0, <1>3 DEF PurgeDelete, WorkIs
    <2>2. UNCHANGED <<owner, flush, payer, old, astray, sweep, deck, refs, ledger, spent>>
          /\ objects' \subseteq objects
        BY <1>3 DEF PurgeDelete, PurgeUnchanged
    <2> QED
        BY <2>1, <2>2 DEF ledger, Shape, Grows
<1>4. CASE PurgeCredit
    <2>1. purge' \in WorkIs({"idle", "deleting", "crediting", "removing"}, SUBSET Decks)
        BY <1>0, <1>4 DEF PurgeCredit, WorkIs
    <2>2. UNCHANGED <<owner, flush, payer, old, astray, sweep, deck, refs, objects>>
        BY <1>4 DEF PurgeCredit, PurgeUnchanged
    <2>3. purge.job.owner \in Users /\ purge.job.recs \in SUBSET Rec
        BY <1>4 DEF PurgeCredit, Job
    <2>4. /\ gauge' \in [Users -> Nat] /\ credits' \in [Rec -> Seq(Users)]
          /\ debited' = debited /\ Grows
        BY <1>4, <2>3, Credits DEF PurgeCredit
    <2> QED
        BY <2>1, <2>2, <2>4 DEF Shape, Grows
<1>5. CASE PurgeRemove
    <2>1. purge' \in WorkIs({"idle", "deleting", "crediting", "removing"}, SUBSET Decks)
        BY <1>0, <1>5 DEF PurgeRemove, WorkIs
    <2>2. UNCHANGED <<owner, flush, payer, old, astray, sweep, objects, ledger, spent>>
        BY <1>5 DEF PurgeRemove, PurgeUnchanged
    <2>3. refs' \in [Decks -> SUBSET Rec]
          /\ deck' \in [Decks -> {"live", "tombstoned", "purged"}]
        BY <1>5 DEF PurgeRemove, Shape
    <2> QED
        BY <2>1, <2>2, <2>3 DEF ledger, Shape, Grows
<1>6. CASE PurgeFails
    <2>1. purge' \in WorkIs({"idle", "deleting", "crediting", "removing"}, SUBSET Decks)
        BY <1>6 DEF PurgeFails, Idle, WorkIs
    <2>2. UNCHANGED <<owner, flush, payer, old, astray, sweep, deck, refs, objects, ledger>>
        BY <1>6 DEF PurgeFails, PurgeUnchanged
    <2>3. Grows
        BY <1>6, Spends DEF PurgeFails, Grows, Kinds
    <2> QED
        BY <2>1, <2>2, <2>3 DEF ledger, Shape, Grows
<1> QED
    BY <1>1, <1>2, <1>3, <1>4, <1>5, <1>6 DEF PurgeStep

LEMMA ShapeOfCrash == Shape /\ Crash => Shape' /\ Grows
<1> SUFFICES ASSUME Shape, Crash PROVE Shape' /\ Grows
    OBVIOUS
<1>1. /\ sweep' \in WorkIs({"idle", "deleting", "pulling", "crediting"}, SUBSET Job)
      /\ purge' \in WorkIs({"idle", "deleting", "crediting", "removing"}, SUBSET Decks)
    BY DEF Crash, Idle, WorkIs
<1>2. Grows
    BY Spends DEF Crash, Grows, Kinds
<1>3. UNCHANGED <<deck, owner, refs, objects, payer, old, astray, ledger>>
    BY DEF Crash
<1>4. flush' \in [Rec -> {"none", "uploading", "stored", "recorded", "aborting", "over"}]
    BY DEF Crash
<1> QED
    BY <1>1, <1>2, <1>3, <1>4 DEF ledger, Shape, Grows

LEMMA ShapeStep == IInv /\ [Next]_vars => Shape' /\ Grows
<1> SUFFICES ASSUME IInv, [Next]_vars PROVE Shape' /\ Grows
    OBVIOUS
<1>1. /\ Shape /\ (sweep.at # "idle" => JobIsExpired(sweep.job))
      /\ (purge.at # "idle" => purge.job \in Job)
    BY DEF IInv, JobsInv
<1>2. CASE UNCHANGED vars
    BY <1>1, <1>2 DEF vars, ledger, Shape, Grows
<1>3. CASE \E d \in Decks : DeleteDeck(d) \/ RestoreDeck(d)
    BY <1>1, <1>3, AccountsAssumption, ShapeOfDecks
<1> QED
    BY <1>1, <1>2, <1>3, ShapeOfFlush, ShapeOfDecks, ShapeOfSweep, ShapeOfPurge, ShapeOfCrash
       DEF Next

LEMMA NeverStays ==
    ASSUME Shape, Grows, NEW S \in SUBSET Kinds, Never(S)'
    PROVE  Never(S)
<1>1. \A k \in Kinds : spent[k] \in Nat /\ spent'[k] \in Nat /\ spent[k] <= spent'[k]
    BY DEF Shape, Grows
<1>2. \A k \in S : spent'[k] = 0
    BY DEF Never
<1>3. \A k \in S : spent[k] = 0
    BY <1>1, <1>2
<1> QED
    BY <1>3 DEF Never

LEMMA SpendEnds ==
    ASSUME Shape, NEW S \in SUBSET Kinds, NEW kind \in S, Spend(kind)
    PROVE  ~Never(S)'
BY Spends DEF Never

-----------------------------------------------------------------------------
(* The flushes.                                                            *)

LEMMA FlushStepTold == IInv /\ [Next]_vars => FlushInv'
<1> SUFFICES ASSUME IInv, [Next]_vars, NEW x \in Rec PROVE Told(x)'
    BY DEF FlushInv
<1>0. Told(x) /\ Shape /\ x[1] \in Decks
    BY RecIs DEF IInv, FlushInv
<1>1. ASSUME UNCHANGED <<flush, payer, old, debited>>, refs'[x[1]] \subseteq refs[x[1]],
             flush[x] = "stored" /\ x \in objects => x \in objects'
      PROVE  Told(x)'
    BY <1>0, <1>1 DEF Told
<1>2. CASE UNCHANGED vars
    BY <1>1, <1>2 DEF vars, ledger
<1>3. ASSUME NEW r \in Rec, BeginRetention(r) \/ FlushStep(r) \/ Expire(r)
      PROVE  Told(x)'
    <2>1. CASE BeginRetention(r)
        <3>1. owner[r[1]] \in Users
            BY <1>0, RecIs DEF Shape
        <3> QED
            BY <1>0, <2>1, <3>1 DEF BeginRetention, ledger, Told, Shape
    <2>2. CASE UploadDone(r)
        BY <1>0, <2>2 DEF UploadDone, FlushTo, ledger, Told, Shape
    <2>3. CASE UploadAborted(r)
        BY <1>0, <2>3 DEF UploadAborted, FlushTo, ledger, Told, Shape
    <2>4. CASE PushReference(r)
        <3>1. x # r => (x \in refs'[x[1]] => x \in refs[x[1]])
            BY <1>0, <2>4 DEF PushReference, Shape
        <3>2. flush[r] = "stored" /\ flush' = [flush EXCEPT ![r] = "recorded"]
              /\ UNCHANGED <<payer, old, debited, objects>>
            BY <2>4 DEF PushReference, FlushTo, ledger
        <3> QED
            BY <1>0, <3>1, <3>2 DEF Told, Shape
    <2>5. CASE PushFails(r)
        BY <1>0, <2>5 DEF PushFails, FlushTo, ledger, Told, Shape
    <2>6. CASE Abort(r)
        BY <1>0, <2>6 DEF Abort, FlushTo, ledger, Told, Shape
    <2>7. CASE Charge(r)
        <3>1. debited' \subseteq debited \union {r}
            BY <2>7 DEF Charge, AdjustLost, ledger
        <3>2. flush[r] = "recorded" /\ flush' = [flush EXCEPT ![r] = "over"]
              /\ UNCHANGED <<payer, old, astray, refs, objects>>
            BY <2>7 DEF Charge, FlushTo
        <3> QED
            BY <1>0, <3>1, <3>2 DEF Told, Shape
    <2>8. CASE Expire(r)
        BY <1>0, <2>8 DEF Expire, ledger, Told, Shape
    <2> QED
        BY <1>3, <2>1, <2>2, <2>3, <2>4, <2>5, <2>6, <2>7, <2>8 DEF FlushStep
<1>4. ASSUME NEW d \in Decks, NEW u \in Users,
             DeleteDeck(d) \/ RestoreDeck(d) \/ TransferOwnership(d, u)
      PROVE  Told(x)'
    BY <1>1, <1>4 DEF DeleteDeck, RestoreDeck, TransferOwnership, ledger
<1>5. CASE SweepStep
    <2>1. UNCHANGED <<flush, payer, old, astray>>
        BY <1>5 DEF SweepStep, SweepFind, SweepTake, SweepDelete, SweepPull, SweepPullFails,
                    SweepCredit, SweepUnchanged
    <2>2. debited' = debited
        BY <1>5 DEF SweepStep, SweepFind, SweepTake, SweepDelete, SweepPull, SweepPullFails,
                    SweepCredit, Credit, AdjustLost, ledger
    <2>3. refs'[x[1]] \subseteq refs[x[1]]
        <3>1. CASE SweepPull
            BY <1>0, <3>1 DEF SweepPull, Shape
        <3> QED
            BY <1>5, <3>1 DEF SweepStep, SweepFind, SweepTake, SweepDelete, SweepPullFails,
                              SweepCredit
    <2>4. flush[x] = "stored" /\ x \in objects => x \in objects'
        <3>1. CASE SweepDelete
            <4>1. PICK r \in sweep.job.left : objects' \in {objects, objects \ {r}}
                BY <3>1 DEF SweepDelete
            <4>2. r \in old
                BY <3>1, <4>1 DEF SweepDelete, IInv, JobsInv, JobIsExpired
            <4> QED
                BY <1>0, <4>1, <4>2 DEF Told
        <3> QED
            BY <1>5, <3>1 DEF SweepStep, SweepFind, SweepTake, SweepPull, SweepPullFails,
                              SweepCredit
    <2> QED
        BY <1>1, <2>1, <2>2, <2>3, <2>4
<1>6. CASE PurgeStep
    <2>1. UNCHANGED <<flush, payer, old, astray>>
        BY <1>6 DEF PurgeStep, PurgeFind, PurgeTake, PurgeDelete, PurgeCredit, PurgeRemove,
                    PurgeFails, PurgeUnchanged
    <2>2. debited' = debited
        BY <1>6 DEF PurgeStep, PurgeFind, PurgeTake, PurgeDelete, PurgeCredit, PurgeRemove,
                    PurgeFails, Credit, AdjustLost, ledger
    <2>3. refs'[x[1]] \subseteq refs[x[1]]
        <3>1. CASE PurgeRemove
            BY <1>0, <3>1 DEF PurgeRemove, Shape
        <3> QED
            BY <1>6, <3>1 DEF PurgeStep, PurgeFind, PurgeTake, PurgeDelete, PurgeCredit,
                              PurgeFails
    <2>4. flush[x] = "stored" /\ x \in objects => x \in objects'
        <3>1. CASE PurgeDelete
            <4>1. x \in purge.job.recs => flush[x] # "stored"
                BY <3>1 DEF PurgeDelete, IInv, JobsInv
            <4> QED
                BY <3>1, <4>1 DEF PurgeDelete
        <3> QED
            BY <1>6, <3>1 DEF PurgeStep, PurgeFind, PurgeTake, PurgeCredit, PurgeRemove,
                              PurgeFails
    <2> QED
        BY <1>1, <2>1, <2>2, <2>3, <2>4
<1>7. CASE Crash
    BY <1>0, <1>7 DEF Crash, ledger, Told, Shape
<1>8. CASE \E d \in Decks : DeleteDeck(d) \/ RestoreDeck(d)
    BY <1>4, <1>8, AccountsAssumption
<1> QED
    BY <1>2, <1>3, <1>4, <1>5, <1>6, <1>7, <1>8 DEF Next

-----------------------------------------------------------------------------
(* Who writes what.                                                        *)

LEMMA Writers ==
    ASSUME [Next]_vars
    PROVE  /\ deck' = deck \/ (\E d \in Decks : DeleteDeck(d) \/ RestoreDeck(d)) \/ PurgeRemove
           /\ owner' = owner \/ (\E d \in Decks, u \in Users : TransferOwnership(d, u))
           /\ refs' = refs \/ (\E r \in Rec : PushReference(r)) \/ SweepPull \/ PurgeRemove
           /\ objects' = objects \/ (\E r \in Rec : UploadDone(r)) \/ SweepDelete \/ PurgeDelete
           /\ flush' = flush \/ (\E r \in Rec : BeginRetention(r) \/ FlushStep(r)) \/ Crash
           /\ payer' = payer \/ (\E r \in Rec : BeginRetention(r))
           /\ old' = old \/ (\E r \in Rec : Expire(r))
           /\ astray' = astray \/ (\E d \in Decks : RestoreDeck(d))
           /\ sweep' = sweep \/ SweepStep \/ Crash
           /\ purge' = purge \/ PurgeStep \/ Crash
           /\ UNCHANGED ledger \/ (\E r \in Rec : Charge(r)) \/ SweepCredit \/ PurgeCredit
<1>1. CASE UNCHANGED vars
    BY <1>1 DEF vars
<1>2. ASSUME NEW r \in Rec, BeginRetention(r)
      PROVE  UNCHANGED <<deck, owner, refs, objects, old, astray, sweep, purge, ledger>>
    BY <1>2 DEF BeginRetention
<1>3. ASSUME NEW r \in Rec, FlushStep(r)
      PROVE  /\ UNCHANGED <<deck, owner, payer, old, astray, sweep, purge>>
             /\ refs' = refs \/ PushReference(r)
             /\ objects' = objects \/ UploadDone(r)
             /\ UNCHANGED ledger \/ Charge(r)
    BY <1>3 DEF FlushStep, UploadDone, UploadAborted, PushReference, PushFails, Abort, Charge,
                FlushTo
<1>4. ASSUME NEW r \in Rec, Expire(r)
      PROVE  UNCHANGED <<deck, owner, refs, objects, flush, payer, astray, sweep, purge, ledger>>
    BY <1>4 DEF Expire
<1>5. ASSUME NEW d \in Decks, DeleteDeck(d) \/ RestoreDeck(d)
      PROVE  /\ UNCHANGED <<owner, refs, objects, flush, payer, old, sweep, purge, ledger>>
             /\ astray' = astray \/ RestoreDeck(d)
    BY <1>5 DEF DeleteDeck, RestoreDeck
<1>6. ASSUME NEW d \in Decks, NEW u \in Users, TransferOwnership(d, u)
      PROVE  UNCHANGED <<deck, refs, objects, flush, payer, old, astray, sweep, purge, ledger>>
    BY <1>6 DEF TransferOwnership
<1>7. ASSUME SweepStep
      PROVE  /\ UNCHANGED <<deck, owner, flush, payer, old, astray, purge>>
             /\ refs' = refs \/ SweepPull
             /\ objects' = objects \/ SweepDelete
             /\ UNCHANGED ledger \/ SweepCredit
    BY <1>7 DEF SweepStep, SweepFind, SweepTake, SweepDelete, SweepPull, SweepPullFails,
                SweepCredit, SweepUnchanged
<1>8. ASSUME PurgeStep
      PROVE  /\ UNCHANGED <<owner, flush, payer, old, astray, sweep>>
             /\ (deck' = deck /\ refs' = refs) \/ PurgeRemove
             /\ objects' = objects \/ PurgeDelete
             /\ UNCHANGED ledger \/ PurgeCredit
    BY <1>8 DEF PurgeStep, PurgeFind, PurgeTake, PurgeDelete, PurgeCredit, PurgeRemove,
                PurgeFails, PurgeUnchanged
<1>9. ASSUME Crash
      PROVE  UNCHANGED <<deck, owner, refs, objects, payer, old, astray, ledger>>
    BY <1>9 DEF Crash
<1> QED
    BY <1>1, <1>2, <1>3, <1>4, <1>5, <1>6, <1>7, <1>8, <1>9 DEF Next

LEMMA RefsStep == IInv /\ [Next]_vars => RefsInv'
<1> SUFFICES ASSUME IInv, [Next]_vars, NEW d \in Decks, NEW x \in refs'[d] PROVE x[1] = d
    BY DEF RefsInv
<1>0. Shape /\ \A r \in refs[d] : r[1] = d
    BY DEF IInv, RefsInv
<1>1. ASSUME NEW r \in Rec, PushReference(r) PROVE x[1] = d
    BY <1>0, <1>1, RecIs DEF PushReference, Shape
<1>2. CASE SweepPull
    BY <1>0, <1>2 DEF SweepPull, Shape
<1>3. CASE PurgeRemove
    BY <1>0, <1>3 DEF PurgeRemove, Shape
<1> QED
    BY <1>0, <1>1, <1>2, <1>3, Writers

\* A recording that has expired stays so.
LEMMA OldStays == [Next]_vars => old \subseteq old'
BY Writers DEF Expire

LEMMA JobsStep == IInv /\ [Next]_vars => JobsInv'
<1> SUFFICES ASSUME IInv, [Next]_vars PROVE JobsInv'
    OBVIOUS
<1>0. Shape /\ JobsInv /\ FlushInv /\ RefsInv
    BY DEF IInv
<1>1. \A j : JobIsExpired(j) => JobIsExpired(j)'
    BY OldStays DEF JobIsExpired
<1> DEFINE Sweeps == /\ sweep.at = "idle" => sweep.job = NoJob
                     /\ sweep.at # "idle" => JobIsExpired(sweep.job)
                     /\ \A j \in sweep.todo : JobIsExpired(j)
           Purges == purge.at # "idle" =>
                        /\ purge.job \in Job
                        /\ \A r \in purge.job.recs : /\ r[1] = purge.job.deck
                                                     /\ flush[r] \in {"recorded", "over"}
<1>2. Sweeps'
    <2>0. Sweeps
        BY <1>0 DEF JobsInv
    <2>1. CASE SweepFind
        <3>1. ASSUME NEW d \in Decks PROVE JobIsExpired(JobOf(d, Expired(d)))
            <4>1. JobOf(d, Expired(d)) \in Job
                BY <1>0, Jobs DEF Expired, Shape
            <4>2. \A r \in Expired(d) : r \in old /\ r[1] = d
                BY <1>0 DEF Expired, RefsInv
            <4> QED
                BY <4>1, <4>2 DEF JobIsExpired, JobOf
        <3>2. PICK jobs : sweep' = [Idle EXCEPT !.todo = jobs] /\ \A j \in jobs : JobIsExpired(j)
            BY <2>1, <3>1 DEF SweepFind
        <3> QED
            BY <1>1, <3>2 DEF Idle
    <2>2. CASE SweepTake
        BY <1>1, <2>0, <2>2 DEF SweepTake
    <2>3. CASE SweepDelete
        <3>1. PICK r \in sweep.job.left :
                  sweep' = [sweep EXCEPT
                              !.job.left = sweep.job.left \ {r},
                              !.at = IF sweep.job.left \ {r} = {} THEN "pulling"
                                     ELSE "deleting"]
            BY <2>3 DEF SweepDelete
        <3>2. JobIsExpired(sweep.job)
            BY <2>0, <2>3 DEF SweepDelete
        <3>3. JobIsExpired([sweep.job EXCEPT !.left = sweep.job.left \ {r}])
            BY <3>2 DEF JobIsExpired, Job
        <3>4. sweep'.job = [sweep.job EXCEPT !.left = sweep.job.left \ {r}]
              /\ sweep'.todo = sweep.todo /\ sweep'.at # "idle"
            BY <1>0, <3>1 DEF Shape, WorkIs
        <3> QED
            BY <1>1, <2>0, <3>3, <3>4
    <2>4. CASE SweepPull
        <3>1. sweep'.job = sweep.job /\ sweep'.todo = sweep.todo /\ sweep'.at = "crediting"
              /\ sweep.at # "idle"
            BY <1>0, <2>4 DEF SweepPull, Shape, WorkIs
        <3> QED
            BY <1>1, <2>0, <3>1
    <2>5. CASE SweepCredit
        <3>1. sweep'.job = NoJob /\ sweep'.todo = sweep.todo /\ sweep'.at = "idle"
            BY <1>0, <2>5 DEF SweepCredit, Shape, WorkIs
        <3> QED
            BY <1>1, <2>0, <3>1
    <2>6. CASE sweep' = Idle
        BY <2>6 DEF Idle
    <2>7. CASE sweep' = sweep
        BY <1>1, <2>0, <2>7
    <2> QED
        BY <2>1, <2>2, <2>3, <2>4, <2>5, <2>6, <2>7, Writers
           DEF SweepStep, SweepPullFails, Crash
<1>3. Purges'
    <2>0. Purges
        BY <1>0 DEF JobsInv
    <2>1. CASE PurgeTake
        <3>1. PICK d \in Decks :
                  purge' = [at |-> "deleting", todo |-> purge.todo \ {d},
                            job |-> JobOf(d, refs[d])]
            BY <1>0, <2>1 DEF PurgeTake, Shape, WorkIs
        <3>2. JobOf(d, refs[d]) \in Job /\ flush' = flush
            BY <1>0, <2>1, Jobs DEF PurgeTake, PurgeUnchanged, Shape
        <3>3. \A r \in refs[d] : r[1] = d /\ flush[r] \in {"recorded", "over"}
            BY <1>0 DEF RefsInv, FlushInv, Told, Shape
        <3> QED
            BY <3>1, <3>2, <3>3 DEF JobOf
    <2>2. CASE PurgeDelete \/ PurgeCredit
        <3>1. purge'.job = purge.job /\ purge.at # "idle" /\ flush' = flush
            BY <1>0, <2>2 DEF PurgeDelete, PurgeCredit, PurgeUnchanged, Shape, WorkIs
        <3> QED
            BY <2>0, <3>1
    <2>3. CASE PurgeFind \/ PurgeRemove \/ PurgeFails \/ Crash
        <3>1. CASE PurgeFind
            BY <3>1 DEF PurgeFind, Idle
        <3>2. CASE PurgeRemove
            BY <1>0, <3>2 DEF PurgeRemove, Shape, WorkIs
        <3>3. CASE PurgeFails \/ Crash
            BY <3>3 DEF PurgeFails, Crash, Idle
        <3> QED
            BY <2>3, <3>1, <3>2, <3>3
    <2>4. CASE purge' = purge /\ ~Crash
        <3>1. ASSUME NEW r \in Rec, BeginRetention(r) \/ FlushStep(r),
                     NEW x \in Rec, flush[x] \in {"recorded", "over"}
              PROVE  flush'[x] \in {"recorded", "over"}
            BY <1>0, <3>1 DEF BeginRetention, FlushStep, UploadDone, UploadAborted, PushReference,
                              PushFails, Abort, Charge, FlushTo, Shape
        <3>2. \A x \in Rec : flush[x] \in {"recorded", "over"}
                                => flush'[x] \in {"recorded", "over"}
            BY <2>4, <3>1, Writers
        <3>3. purge.job \in Job => purge.job.recs \subseteq Rec
            BY DEF Job
        <3> QED
            BY <2>0, <2>4, <3>2, <3>3
    <2> QED
        BY <2>1, <2>2, <2>3, <2>4, Writers DEF PurgeStep
<1> QED
    BY <1>2, <1>3 DEF JobsInv

-----------------------------------------------------------------------------
(* The purge, and the audio of live lectures.                              *)

\* Without restores, what is not live stays so.
LEMMA DeadStays ==
    ASSUME IInv, [Next]_vars, Never({"restore"})', NEW d \in Decks, deck'[d] = "live"
    PROVE  deck[d] = "live"
<1>0. Shape
    BY DEF IInv
<1>1. ASSUME NEW e \in Decks, RestoreDeck(e) PROVE FALSE
    BY <1>0, <1>1, SpendEnds DEF RestoreDeck, Kinds
<1>2. ASSUME NEW e \in Decks, DeleteDeck(e) PROVE deck[d] = "live"
    BY <1>0, <1>2 DEF DeleteDeck, Shape
<1>3. CASE PurgeRemove
    BY <1>0, <1>3 DEF PurgeRemove, Shape
<1> QED
    BY <1>1, <1>2, <1>3, Writers

LEMMA NeverRestored == IInv /\ [Next]_vars /\ Never({"restore"})' => Never({"restore"})
BY ShapeStep, NeverStays DEF IInv, Kinds

LEMMA PurgeInvStep == IInv /\ [Next]_vars => PurgeInv'
<1> SUFFICES ASSUME IInv, [Next]_vars, Never({"restore"})'
             PROVE  /\ \A d \in purge'.todo : deck'[d] # "live"
                    /\ purge'.at # "idle" => deck'[purge'.job.deck] # "live"
    BY DEF PurgeInv
<1>0. Shape /\ Never({"restore"}) /\ Shape'
    BY NeverRestored, ShapeStep DEF IInv
<1>1. /\ \A d \in purge.todo : deck[d] # "live"
      /\ purge.at # "idle" => deck[purge.job.deck] # "live" /\ purge.job.deck \in Decks
      /\ purge.todo \subseteq Decks
    BY <1>0 DEF IInv, PurgeInv, JobsInv, Job, Shape, WorkIs
<1>2. \A d \in Decks : deck[d] # "live" => deck'[d] # "live"
    BY DeadStays
<1>3. CASE purge' = purge
    BY <1>1, <1>2, <1>3
<1>4. CASE PurgeFind
    <2>1. PICK S \in SUBSET Purgeable : purge' = [Idle EXCEPT !.todo = S]
        BY <1>4 DEF PurgeFind
    <2>2. purge'.todo = S /\ purge'.at = "idle"
        BY <2>1 DEF Idle
    <2> QED
        BY <1>2, <2>2 DEF Purgeable
<1>5. CASE PurgeTake
    <2>1. PICK d \in purge.todo :
              purge' = [at |-> "deleting", todo |-> purge.todo \ {d}, job |-> JobOf(d, refs[d])]
        BY <1>5 DEF PurgeTake
    <2> QED
        BY <1>1, <1>2, <2>1 DEF JobOf
<1>6. CASE PurgeDelete \/ PurgeCredit
    <2>1. purge'.job = purge.job /\ purge'.todo = purge.todo /\ purge.at # "idle"
        BY <1>0, <1>6 DEF PurgeDelete, PurgeCredit, Shape, WorkIs
    <2> QED
        BY <1>1, <1>2, <2>1
<1>7. CASE PurgeRemove
    <2>1. purge'.at = "idle" /\ purge'.todo = purge.todo
        BY <1>0, <1>7 DEF PurgeRemove, Shape, WorkIs
    <2> QED
        BY <1>1, <1>2, <2>1
<1>8. CASE PurgeFails \/ Crash
    BY <1>8 DEF PurgeFails, Crash, Idle
<1> QED
    BY <1>3, <1>4, <1>5, <1>6, <1>7, <1>8, Writers DEF PurgeStep

LEMMA ListedStep == IInv /\ [Next]_vars => ListedInv'
<1> SUFFICES ASSUME IInv, [Next]_vars, NEW d \in Listed', deck'[d] = "live",
                    NEW x \in Rec, x[1] = d, Pending(x)'
             PROVE  x \in astray'
    BY DEF ListedInv
<1>0. Shape /\ ListedInv /\ d \in Decks
    BY RecIs DEF IInv
<1>1. Pending(x) /\ x \notin refs[d]
    <2>1. ASSUME NEW r \in Rec, BeginRetention(r) \/ FlushStep(r) PROVE Pending(x)
        BY <1>0, <2>1 DEF BeginRetention, FlushStep, UploadDone, UploadAborted, PushReference,
                          PushFails, Abort, Charge, FlushTo, Pending, Shape
    <2>2. ASSUME Crash PROVE Pending(x)
        BY <2>2 DEF Crash, Pending
    <2>3. Pending(x)
        BY <2>1, <2>2, Writers DEF Pending
    <2> QED
        BY <2>3 DEF IInv, FlushInv, Told, Pending
<1>2. astray \subseteq astray'
    BY Writers DEF RestoreDeck
<1>3. CASE d \in Listed /\ deck[d] = "live"
    BY <1>0, <1>1, <1>2, <1>3 DEF ListedInv
<1>4. CASE d \in Listed /\ deck[d] # "live"
    <2>1. ASSUME NEW e \in Decks, DeleteDeck(e) PROVE FALSE
        BY <1>0, <1>4, <2>1 DEF DeleteDeck, Shape
    <2>2. ~PurgeRemove
        BY <1>0, <1>4 DEF PurgeRemove, Shape
    <2>3. PICK e \in Decks : RestoreDeck(e)
        BY <1>4, <2>1, <2>2, Writers
    <2>4. e = d
        BY <1>0, <1>4, <2>3 DEF RestoreDeck, Shape
    <2> QED
        BY <1>1, <1>4, <2>3, <2>4 DEF RestoreDeck
<1>5. CASE d \notin Listed
    <2>1. purge = [at |-> purge.at, todo |-> purge.todo, job |-> purge.job]
        BY <1>0 DEF Shape, WorkIs
    <2>2. CASE PurgeFind
        <3>1. PICK S \in SUBSET Purgeable : purge' = [Idle EXCEPT !.todo = S]
            BY <2>2 DEF PurgeFind
        <3>2. d \in Purgeable /\ deck' = deck
            BY <2>2, <3>1 DEF Idle, Listed, PurgeFind
        <3> QED
            BY <3>2 DEF Purgeable
    <2>3. CASE PurgeTake
        <3>1. PICK e \in purge.todo :
                  purge' = [at |-> "deleting", todo |-> purge.todo \ {e}, job |-> JobOf(e, refs[e])]
            BY <2>3 DEF PurgeTake
        <3> QED
            BY <1>5, <2>3, <3>1 DEF PurgeTake, Listed, JobOf
    <2>4. CASE PurgeDelete \/ PurgeCredit
        <3>1. purge'.job = purge.job /\ purge'.todo = purge.todo /\ purge.at # "idle"
            BY <2>1, <2>4 DEF PurgeDelete, PurgeCredit
        <3> QED
            BY <1>5, <3>1 DEF Listed
    <2>5. CASE PurgeRemove
        <3>1. purge'.at = "idle" /\ purge'.todo = purge.todo
            BY <2>1, <2>5 DEF PurgeRemove
        <3> QED
            BY <1>5, <3>1 DEF Listed
    <2>6. CASE PurgeFails \/ Crash
        BY <2>6 DEF PurgeFails, Crash, Idle, Listed
    <2>7. CASE purge' = purge
        BY <1>5, <2>7 DEF Listed
    <2> QED
        BY <2>2, <2>3, <2>4, <2>5, <2>6, <2>7, Writers DEF PurgeStep
<1> QED
    BY <1>3, <1>4, <1>5

LEMMA ReadStep == IInv /\ [Next]_vars => ReadInv'
<1> SUFFICES ASSUME IInv, [Next]_vars, purge'.at # "idle", NEW x \in refs'[purge'.job.deck]
             PROVE  x \in purge'.job.recs \union astray'
    BY DEF ReadInv
<1>0. Shape /\ purge = [at |-> purge.at, todo |-> purge.todo, job |-> purge.job]
    BY DEF IInv, Shape, WorkIs
<1>1. astray \subseteq astray'
    BY Writers DEF RestoreDeck
<1>2. CASE PurgeTake
    BY <1>2 DEF PurgeTake, JobOf
<1>3. CASE purge'.at # "idle" /\ purge.at # "idle" /\ purge'.job = purge.job
    <2>1. purge.job.deck \in Decks /\ purge.job.deck \in Listed
        BY <1>3 DEF IInv, JobsInv, Job, Listed
    <2>2. CASE x \in refs[purge.job.deck]
        BY <1>1, <1>3, <2>2 DEF IInv, ReadInv
    <2>3. CASE x \notin refs[purge.job.deck]
        <3>1. ~SweepPull
            <4>1. SweepPull => refs'[purge.job.deck] \subseteq refs[purge.job.deck]
                BY <1>0, <2>1 DEF SweepPull, Shape
            <4> QED
                BY <1>3, <2>3, <4>1
        <3>2. ~PurgeRemove
            BY <1>0, <1>3 DEF PurgeRemove
        <3>3. PICK r \in Rec : PushReference(r)
            BY <1>3, <2>3, <3>1, <3>2, Writers
        <3>4. x = r /\ r[1] = purge.job.deck /\ deck[r[1]] = "live" /\ flush[r] = "stored"
            BY <1>0, <1>3, <2>1, <2>3, <3>3 DEF PushReference, FlushTo, Shape
        <3>5. r \in astray
            BY <2>1, <3>4 DEF IInv, ListedInv, Pending
        <3> QED
            BY <1>1, <3>4, <3>5
    <2> QED
        BY <2>2, <2>3
<1>4. CASE PurgeDelete \/ PurgeCredit
    <2>1. purge'.job = purge.job /\ purge.at # "idle"
        BY <1>0, <1>4 DEF PurgeDelete, PurgeCredit
    <2> QED
        BY <1>3, <2>1
<1>5. ~PurgeFind
    BY DEF PurgeFind, Idle
<1>7. ~PurgeRemove
    BY <1>0 DEF PurgeRemove
<1>8. ~PurgeFails /\ ~Crash
    BY DEF PurgeFails, Crash, Idle
<1>6. CASE purge' = purge
    BY <1>3, <1>6
<1> QED
    BY <1>2, <1>4, <1>5, <1>6, <1>7, <1>8, Writers DEF PurgeStep

\* A credit is never taken back.
LEMMA CreditsStay ==
    ASSUME IInv, [Next]_vars, NEW r \in Rec, credits[r] # <<>>
    PROVE  credits'[r] # <<>>
<1>0. Shape /\ credits[r] \in Seq(Users)
    BY DEF IInv, Shape
<1>1. ASSUME NEW u \in Users, NEW recs, Credit(u, recs) PROVE credits'[r] # <<>>
    <2>1. CASE AdjustLost
        BY <2>1 DEF AdjustLost, ledger
    <2>2. CASE ~AdjustLost
        BY <1>0, <1>1, <2>2 DEF Credit
    <2> QED
        BY <2>1, <2>2
<1>2. CASE SweepCredit
    <2>1. sweep.job.owner \in Users
        BY <1>2 DEF SweepCredit, IInv, JobsInv, JobIsExpired, Job
    <2> QED
        BY <1>1, <1>2, <2>1 DEF SweepCredit
<1>3. CASE PurgeCredit
    <2>1. purge.job.owner \in Users
        BY <1>3 DEF PurgeCredit, IInv, JobsInv, Job
    <2> QED
        BY <1>1, <1>3, <2>1 DEF PurgeCredit
<1>4. ASSUME NEW x \in Rec, Charge(x) PROVE credits'[r] # <<>>
    BY <1>4 DEF Charge, AdjustLost, ledger
<1> QED
    BY <1>2, <1>3, <1>4, Writers DEF ledger

LEMMA PurgeCreditedStep == IInv /\ [Next]_vars => CreditedInv'
<1> SUFFICES ASSUME IInv, [Next]_vars, Never({"fault"})', purge'.at = "removing",
                    NEW r \in purge'.job.recs
             PROVE  credits'[r] # <<>>
    BY DEF CreditedInv
<1>0. /\ Shape /\ Shape' /\ Never({"fault"})
      /\ purge = [at |-> purge.at, todo |-> purge.todo, job |-> purge.job]
    BY ShapeStep, NeverStays DEF IInv, Kinds, Shape, WorkIs
<1>1. CASE PurgeCredit
    <2>1. purge.job \in Job /\ purge'.job = purge.job
        BY <1>0, <1>1 DEF PurgeCredit, IInv, JobsInv
    <2>2. r \in Rec /\ purge.job.owner \in Users
        BY <2>1 DEF Job
    <2>3. ~AdjustLost
        BY <1>0, SpendEnds DEF AdjustLost, Kinds
    <2>4. credits'[r] = Append(credits[r], purge.job.owner) /\ credits[r] \in Seq(Users)
        BY <1>0, <1>1, <2>1, <2>2, <2>3 DEF PurgeCredit, Credit, Shape
    <2>5. Len(credits'[r]) = Len(credits[r]) + 1 /\ Len(credits[r]) \in Nat
        BY <2>2, <2>4
    <2>6. Len(<<>>) = 0
        OBVIOUS
    <2> QED
        BY <2>5, <2>6
<1>2. CASE purge' = purge
    <2>1. r \in Rec
        BY <1>2 DEF IInv, JobsInv, Job
    <2>2. credits[r] # <<>>
        BY <1>0, <1>2 DEF IInv, CreditedInv
    <2> QED
        BY <2>1, <2>2, CreditsStay
<1>3. ~PurgeFind /\ ~PurgeFails /\ ~Crash
    BY DEF PurgeFind, PurgeFails, Crash, Idle
<1>4. ~PurgeTake
    BY DEF PurgeTake
<1>5. ~PurgeDelete /\ ~PurgeRemove
    BY <1>0 DEF PurgeDelete, PurgeRemove
<1> QED
    BY <1>1, <1>2, <1>3, <1>4, <1>5, Writers DEF PurgeStep

LEMMA AudioStep == IInv /\ [Next]_vars => RecordingHasAudio'
<1> SUFFICES ASSUME IInv, [Next]_vars, Never({"restore"})', NEW d \in Decks, deck'[d] = "live",
                    NEW x \in refs'[d], x \notin old'
             PROVE  x \in objects'
    BY DEF RecordingHasAudio
<1>0. Shape /\ Never({"restore"}) /\ deck[d] = "live" /\ x \notin old
    BY NeverRestored, DeadStays, OldStays DEF IInv
<1>1. CASE x \in refs[d]
    <2>1. x \in objects /\ x[1] = d
        BY <1>0, <1>1 DEF IInv, RecordingHasAudio, RefsInv
    <2>2. CASE SweepDelete
        <3>1. x \notin sweep.job.left
            BY <1>0, <2>2 DEF SweepDelete, IInv, JobsInv, JobIsExpired
        <3> QED
            BY <2>1, <2>2, <3>1 DEF SweepDelete
    <2>3. CASE PurgeDelete
        <3>1. x \notin purge.job.recs
            BY <1>0, <2>1, <2>3 DEF PurgeDelete, IInv, JobsInv, PurgeInv
        <3> QED
            BY <2>1, <2>3, <3>1 DEF PurgeDelete
    <2>4. ASSUME NEW r \in Rec, UploadDone(r) PROVE x \in objects'
        BY <2>1, <2>4 DEF UploadDone
    <2> QED
        BY <2>1, <2>2, <2>3, <2>4, Writers
<1>2. CASE x \notin refs[d]
    <2>1. ~SweepPull
        <3>1. SweepPull => refs'[d] \subseteq refs[d]
            BY <1>0 DEF SweepPull, Shape
        <3> QED
            BY <1>2, <3>1
    <2>2. ~PurgeRemove
        BY <1>0, <1>2 DEF PurgeRemove, Shape
    <2>3. PICK r \in Rec : PushReference(r)
        BY <1>2, <2>1, <2>2, Writers
    <2>4. x = r
        BY <1>0, <1>2, <2>3 DEF PushReference, Shape
    <2>5. flush[r] = "stored" /\ objects' = objects
        BY <2>3 DEF PushReference, FlushTo
    <2> QED
        BY <2>4, <2>5 DEF IInv, FlushInv, Told
<1> QED
    BY <1>1, <1>2

-----------------------------------------------------------------------------
(* The gauge.                                                              *)

\* Who pays for a recording is settled when its session begins.
LEMMA PayerStays ==
    ASSUME Shape, [Next]_vars, NEW x \in Rec, flush[x] # "none"
    PROVE  payer'[x] = payer[x]
<1>1. ASSUME NEW r \in Rec, BeginRetention(r) PROVE payer'[x] = payer[x]
    BY <1>1 DEF BeginRetention, Shape
<1> QED
    BY <1>1, Writers

LEMMA ChargedStays ==
    ASSUME IInv, [Next]_vars, debited' = debited, NEW u \in Users
    PROVE  Charged(u)' = Charged(u)
<1>1. \A x \in debited : payer'[x] = payer[x]
    BY PayerStays DEF IInv, FlushInv, Told, Shape
<1> QED
    BY <1>1 DEF Charged

\* Charging a recording adds it, once, to what its payer was charged for.
LEMMA ChargedGrows ==
    ASSUME IInv, [Next]_vars, NEW r \in Rec, Charge(r), ~AdjustLost
    PROVE  /\ gauge' = [gauge EXCEPT ![payer[r]] = @ + 1]
           /\ credits' = credits /\ spent' = spent
           /\ r \notin debited /\ payer[r] \in Users /\ payer' = payer
           /\ \A u \in Users : Charged(u)' = IF u = payer[r] THEN Charged(u) \union {r}
                                             ELSE Charged(u)
<1>1. /\ gauge' = [gauge EXCEPT ![payer[r]] = @ + 1]
      /\ debited' = debited \union {r}
      /\ UNCHANGED <<credits, spent>> /\ payer' = payer /\ flush[r] = "recorded"
    BY DEF Charge, FlushTo
<1>2. r \notin debited /\ payer[r] \in Users
    BY <1>1 DEF IInv, FlushInv, Told
<1> QED
    BY <1>1, <1>2 DEF Charged

LEMMA ChargedFinite ==
    ASSUME Shape, NEW u \in Users
    PROVE  IsFiniteSet(Charged(u)) /\ Cardinality(Charged(u)) \in Nat
           /\ Cardinality(Charged(u)) <= Cardinality(Rec)
BY RecIs, FS_Subset, FS_CardinalityType DEF Charged, Shape

LEMMA ChargedStep == IInv /\ [Next]_vars => ChargedInv'
<1> SUFFICES ASSUME IInv, [Next]_vars, NEW u \in Users
             PROVE  gauge'[u] <= Cardinality(Charged(u)')
    BY DEF ChargedInv
<1>0. /\ Shape /\ gauge[u] <= Cardinality(Charged(u)) /\ gauge[u] \in Nat
      /\ IsFiniteSet(Charged(u)) /\ Cardinality(Charged(u)) \in Nat
    BY ChargedFinite DEF IInv, ChargedInv, Shape
<1>1. CASE UNCHANGED ledger
    BY <1>0, <1>1, ChargedStays DEF ledger
<1>2. ASSUME NEW r \in Rec, Charge(r) PROVE gauge'[u] <= Cardinality(Charged(u)')
    <2>1. CASE AdjustLost
        BY <1>1, <2>1 DEF AdjustLost
    <2>2. CASE ~AdjustLost
        <3>1. gauge'[u] = IF u = payer[r] THEN gauge[u] + 1 ELSE gauge[u]
            BY <1>0, <1>2, <2>2, ChargedGrows DEF Shape
        <3>2. r \notin Charged(u)
            BY <1>2, <2>2, ChargedGrows DEF Charged
        <3>3. Cardinality(Charged(u) \union {r}) = Cardinality(Charged(u)) + 1
            BY <1>0, <3>2, FS_AddElement
        <3>4. Charged(u)' = IF u = payer[r] THEN Charged(u) \union {r} ELSE Charged(u)
            BY <1>2, <2>2, ChargedGrows
        <3> QED
            BY <1>0, <3>1, <3>3, <3>4
    <2> QED
        BY <2>1, <2>2
<1>3. CASE SweepCredit \/ PurgeCredit
    <2>1. PICK w \in Users, recs \in SUBSET Rec : Credit(w, recs)
        BY <1>0, <1>3 DEF SweepCredit, PurgeCredit, IInv, JobsInv, JobIsExpired, Job
    <2>2. Cardinality(recs) \in Nat
        BY RecIs, FS_Subset, FS_CardinalityType
    <2>3. debited' = debited /\ gauge'[u] <= gauge[u]
        BY <1>0, <2>1, <2>2 DEF Credit, AdjustLost, ledger, Less, Shape
    <2> QED
        BY <1>0, <2>3, ShapeStep, ChargedStays DEF Shape
<1> QED
    BY <1>1, <1>2, <1>3, Writers

LEMMA Types == IInv => TypeOK
<1> SUFFICES ASSUME IInv PROVE TypeOK
    OBVIOUS
<1>0. Shape
    BY DEF IInv
<1>1. \A u \in Users : gauge[u] \in 0..Cardinality(Rec)
    <2> SUFFICES ASSUME NEW u \in Users PROVE gauge[u] \in 0..Cardinality(Rec)
        OBVIOUS
    <2>1. gauge[u] \in Nat /\ gauge[u] <= Cardinality(Charged(u))
        BY <1>0 DEF IInv, ChargedInv, Shape
    <2>2. Cardinality(Rec) \in Nat
        BY RecIs, FS_CardinalityType
    <2> QED
        BY <1>0, <2>1, <2>2, ChargedFinite
<1>2. gauge \in [Users -> 0..Cardinality(Rec)]
    BY <1>0, <1>1 DEF Shape
<1>3. \A k \in DOMAIN Bound : spent[k] \in 0..Bound[k]
    BY <1>0, BoundIs DEF Shape
<1>4. /\ sweep.at \in {"idle", "deleting", "pulling", "crediting"}
      /\ sweep.todo \subseteq Job /\ sweep.job \in Job \union {NoJob}
      /\ purge.at \in {"idle", "deleting", "crediting", "removing"}
      /\ purge.todo \subseteq Decks /\ purge.job \in Job \union {NoJob}
    BY <1>0 DEF Shape, WorkIs
<1> QED
    BY <1>0, <1>2, <1>3, <1>4 DEF TypeOK, Shape

-----------------------------------------------------------------------------
(* Where nothing is deleted.                                               *)

\* The purge has nothing to do, and no lecture changes.
LEMMA NoPurge ==
    ASSUME IInv, [Next]_vars, Never({"delete"})'
    PROVE  /\ Never({"delete"})
           /\ \A d \in Decks : deck[d] = "live"
           /\ deck' = deck /\ purge' = Idle /\ ~PurgeStep
<1>1. Never({"delete"}) /\ Shape
    BY ShapeStep, NeverStays DEF IInv, Kinds
<1>2. (\A d \in Decks : deck[d] = "live") /\ purge = Idle
    BY <1>1 DEF IInv, SweepInv
<1>3. ~PurgeStep
    <2>1. purge.at = "idle" /\ purge.todo = {}
        BY <1>2 DEF Idle
    <2>2. \A S \in SUBSET Purgeable : S = {}
        <3>1. \A d : d \notin Purgeable
            BY <1>2 DEF Purgeable
        <3> QED
            BY <3>1
    <2>3. ASSUME PurgeFind PROVE FALSE
        <3>1. PICK S \in (SUBSET Purgeable) \ {{}} : TRUE
            BY <2>3 DEF PurgeFind
        <3>2. S \in SUBSET Purgeable /\ S # {}
            BY <3>1
        <3> QED
            BY <2>2, <3>2, Zenon
    <2> QED
        BY <2>1, <2>3 DEF PurgeStep, PurgeTake, PurgeDelete, PurgeCredit, PurgeRemove,
                          PurgeFails
<1>4. ASSUME NEW d \in Decks, DeleteDeck(d) PROVE FALSE
    BY <1>1, <1>4, SpendEnds DEF DeleteDeck, Kinds
<1>5. ASSUME NEW d \in Decks, RestoreDeck(d) PROVE FALSE
    BY <1>2, <1>5 DEF RestoreDeck
<1>6. deck' = deck
    BY <1>3, <1>4, <1>5, Writers DEF PurgeStep
<1>7. purge' = Idle
    BY <1>2, <1>3, Writers DEF Crash
<1> QED
    BY <1>1, <1>2, <1>3, <1>6, <1>7

LEMMA OverStays ==
    ASSUME Shape, [Next]_vars, NEW x \in Rec, flush[x] = "over"
    PROVE  flush'[x] = "over"
<1>1. ASSUME NEW r \in Rec, BeginRetention(r) \/ FlushStep(r)
      PROVE  flush'[x] = "over"
    BY <1>1 DEF BeginRetention, FlushStep, UploadDone, UploadAborted, PushReference,
                PushFails, Abort, Charge, FlushTo, Shape
<1>2. CASE Crash
    BY <1>2 DEF Crash
<1> QED
    BY <1>1, <1>2, Writers

\* A reference is only added by its own flush, and only taken by the sweep.
LEMMA RefsMove ==
    ASSUME IInv, [Next]_vars, Never({"delete"})', NEW x \in Rec
    PROVE  /\ x \in refs'[x[1]] =>
                 x \in refs[x[1]] \/ (flush[x] = "stored" /\ PushReference(x))
           /\ x \in refs[x[1]] /\ ~SweepPull => x \in refs'[x[1]]
<1>0. Shape /\ x[1] \in Decks
    BY RecIs DEF IInv
<1>1. ASSUME NEW r \in Rec, PushReference(r)
      PROVE  /\ x \in refs'[x[1]] => x \in refs[x[1]] \/ (x = r /\ flush[x] = "stored")
             /\ x \in refs[x[1]] => x \in refs'[x[1]]
    <2>1. flush[r] = "stored" /\ r[1] \in Decks
        BY <1>1, RecIs DEF PushReference, FlushTo
    <2> QED
        BY <1>0, <1>1, <2>1 DEF PushReference, Shape
<1>2. CASE SweepPull
    BY <1>0, <1>2 DEF SweepPull, Shape
<1>3. ~PurgeRemove
    BY NoPurge DEF PurgeStep
<1> QED
    BY <1>1, <1>2, <1>3, Writers

\* What the sweep takes off a lecture are the recordings of its job.
LEMMA Pulled ==
    ASSUME IInv, Never({"delete"}), SweepPull, NEW x \in Rec
    PROVE  x \in refs'[x[1]] <=> x \in refs[x[1]] /\ x \notin sweep.job.recs
<1>0. Shape /\ x[1] \in Decks
    BY RecIs DEF IInv
<1>1. JobIsExpired(sweep.job) /\ deck[sweep.job.deck] = "live" /\ sweep.job.deck \in Decks
    BY DEF SweepPull, IInv, JobsInv, JobIsExpired, Job, SweepInv
<1>2. refs' = [refs EXCEPT ![sweep.job.deck] = @ \ sweep.job.recs]
    BY <1>1 DEF SweepPull
<1>3. x \in sweep.job.recs => x[1] = sweep.job.deck
    BY <1>1 DEF JobIsExpired
<1> QED
    BY <1>0, <1>1, <1>2, <1>3 DEF Shape

LEMMA CreditsMove ==
    ASSUME IInv, [Next]_vars, Never({"delete"})', NEW x \in Rec, credits'[x] # credits[x]
    PROVE  SweepCredit /\ x \in sweep.job.recs
<1>1. ~PurgeCredit
    BY NoPurge DEF PurgeStep
<1>2. SweepCredit
    BY <1>1, Writers DEF Charge, AdjustLost, ledger
<1> QED
    BY <1>2 DEF SweepCredit, Credit, AdjustLost, ledger

LEMMA CreditedStep ==
    ASSUME IInv, [Next]_vars, Never({"delete"})', NEW x \in Rec
    PROVE  /\ x \in refs'[x[1]] => credits'[x] = <<>>
           /\ credits'[x] # <<>> => flush'[x] = "over"
<1>0. /\ Never({"delete"}) /\ Shape
      /\ x \in refs[x[1]] => credits[x] = <<>>
      /\ credits[x] # <<>> => flush[x] = "over"
    BY NoPurge DEF IInv, SweepInv
<1>1. CASE SweepCredit /\ x \in sweep.job.recs
    <2>1. x \notin refs[x[1]]
        BY <1>0, <1>1 DEF SweepCredit, IInv, SweepInv
    <2>2. refs' = refs
        BY <1>1 DEF SweepCredit
    <2>3. flush[x] = "over"
        BY <1>1 DEF SweepCredit, IInv, JobsInv, JobIsExpired, FlushInv, Told
    <2> QED
        BY <1>0, <2>1, <2>2, <2>3, OverStays
<1>2. CASE credits'[x] = credits[x]
    BY <1>0, <1>2, RefsMove, OverStays
<1> QED
    BY <1>1, <1>2, CreditsMove

\* The jobs still waiting keep their recordings: no other job has their lecture.
LEMMA WaitingStep ==
    ASSUME IInv, [Next]_vars, Never({"delete"})', NEW j \in sweep.todo,
           sweep.at # "idle" => j.deck # sweep.job.deck
    PROVE  JobIsKept(j)'
<1>0. Never({"delete"}) /\ JobIsKept(j) /\ JobIsExpired(j) /\ j \in Job
    BY NoPurge DEF IInv, SweepInv, JobsInv, JobIsExpired
<1>1. SUFFICES ASSUME NEW x \in j.recs PROVE x \in refs'[j.deck]
    BY DEF JobIsKept
<1>2. x \in Rec /\ x[1] = j.deck /\ x \in refs[j.deck]
    BY <1>0 DEF JobIsKept, JobIsExpired, Job
<1>3. CASE SweepPull
    <2>1. JobIsExpired(sweep.job) /\ sweep.at # "idle"
        BY <1>3 DEF SweepPull, IInv, JobsInv
    <2>2. x \notin sweep.job.recs
        BY <1>2, <2>1 DEF JobIsExpired
    <2> QED
        BY <1>0, <1>2, <1>3, <2>2, Pulled
<1> QED
    BY <1>2, <1>3, RefsMove

\* So does the job in hand, until its pull.
LEMMA InHandStep ==
    ASSUME IInv, [Next]_vars, Never({"delete"})', sweep.at \in {"deleting", "pulling"},
           ~SweepPull
    PROVE  sweep.job.recs \subseteq refs'[sweep.job.deck]
<1>0. Never({"delete"}) /\ JobIsKept(sweep.job) /\ JobIsExpired(sweep.job)
    BY NoPurge DEF IInv, SweepInv, JobsInv
<1>1. \A x \in sweep.job.recs : x \in Rec /\ x[1] = sweep.job.deck /\ x \in refs[sweep.job.deck]
    BY <1>0 DEF JobIsKept, JobIsExpired, Job
<1> QED
    BY <1>1, RefsMove

\* What is waiting and in hand, and how far: the part of SweepInv about jobs.
Apart == /\ \A j \in sweep.todo : JobIsKept(j)
         /\ \A j, k \in sweep.todo : j.deck = k.deck => j = k
         /\ sweep.at # "idle" => \A j \in sweep.todo : j.deck # sweep.job.deck
         /\ sweep.at \in {"deleting", "pulling"} => JobIsKept(sweep.job)
         /\ sweep.at = "crediting" =>
               \A r \in sweep.job.recs : r \notin refs[r[1]] /\ credits[r] = <<>>

LEMMA ApartStep ==
    ASSUME IInv, [Next]_vars, Never({"delete"})'
    PROVE  Apart'
<1>0. /\ Never({"delete"}) /\ Shape /\ JobsInv /\ Apart
      /\ \A d \in Decks : deck[d] = "live"
    BY NoPurge DEF IInv, SweepInv, Apart
<1>1. CASE sweep' = Idle
    BY <1>1 DEF Idle, Apart
<1>2. CASE SweepFind
    <2>1. refs' = refs /\ sweep.at = "idle"
        BY <1>2 DEF SweepFind, Idle
    <2>2. PICK jobs : /\ sweep' = [Idle EXCEPT !.todo = jobs]
                      /\ \A j \in jobs : \E d \in Decks : j = JobOf(d, Expired(d))
        BY <1>2 DEF SweepFind
    <2>3. sweep'.at = "idle" /\ sweep'.todo = jobs
        BY <2>2 DEF Idle
    <2>4. \A j \in jobs : JobIsKept(j)'
        BY <2>1, <2>2 DEF JobIsKept, JobOf, Expired
    <2>5. \A j, k \in jobs : j.deck = k.deck => j = k
        BY <2>2 DEF JobOf
    <2> QED
        BY <2>3, <2>4, <2>5 DEF Apart
<1>3. CASE SweepTake
    <2>1. PICK j \in sweep.todo :
              sweep' = [at |-> "deleting", todo |-> sweep.todo \ {j}, job |-> j]
        BY <1>3 DEF SweepTake
    <2>2. refs' = refs /\ sweep.at = "idle"
        BY <1>3 DEF SweepTake
    <2> QED
        BY <1>0, <2>1, <2>2 DEF Apart, JobIsKept
<1>4. CASE SweepDelete
    <2>1. /\ sweep.at = "deleting" /\ sweep'.at \in {"deleting", "pulling"}
          /\ sweep'.todo = sweep.todo
          /\ sweep'.job.deck = sweep.job.deck /\ sweep'.job.recs = sweep.job.recs
        <3>1. sweep.job \in Job
            BY <1>0, <1>4 DEF SweepDelete, JobsInv, JobIsExpired
        <3>2. PICK r \in sweep.job.left :
                  sweep' = [sweep EXCEPT
                              !.job.left = sweep.job.left \ {r},
                              !.at = IF sweep.job.left \ {r} = {} THEN "pulling"
                                     ELSE "deleting"]
            BY <1>4 DEF SweepDelete
        <3>3. sweep'.job = [sweep.job EXCEPT !.left = sweep.job.left \ {r}]
            BY <1>0, <3>2 DEF Shape, WorkIs
        <3> QED
            BY <1>0, <1>4, <3>1, <3>2, <3>3 DEF SweepDelete, Shape, WorkIs, Job
    <2>2. refs' = refs
        BY <1>4 DEF SweepDelete
    <2> QED
        BY <1>0, <2>1, <2>2 DEF Apart, JobIsKept
<1>5. CASE SweepPull
    <2>1. /\ sweep.at = "pulling" /\ sweep'.at = "crediting"
          /\ sweep'.todo = sweep.todo /\ sweep'.job = sweep.job
          /\ credits' = credits
        BY <1>0, <1>5 DEF SweepPull, Shape, WorkIs, ledger
    <2>2. \A j \in sweep.todo : JobIsKept(j)'
        BY <1>0, <2>1, WaitingStep DEF Apart
    <2>3. \A r \in sweep.job.recs : r \in Rec /\ r \in refs[r[1]]
        BY <1>0, <2>1 DEF JobsInv, JobIsExpired, JobIsKept, Apart, Job
    <2>4. \A r \in sweep.job.recs : r \notin refs'[r[1]]
        BY <1>0, <1>5, <2>3, Pulled
    <2>5. \A r \in sweep.job.recs : credits'[r] = <<>>
        BY <1>0, <2>1, <2>3 DEF IInv, SweepInv
    <2> QED
        BY <1>0, <2>1, <2>2, <2>4, <2>5 DEF Apart
<1>6. CASE SweepCredit
    <2>1. /\ sweep.at = "crediting" /\ sweep'.at = "idle"
          /\ sweep'.todo = sweep.todo /\ refs' = refs
        BY <1>0, <1>6 DEF SweepCredit, Shape, WorkIs
    <2> QED
        BY <1>0, <2>1 DEF Apart, JobIsKept
<1>7. CASE sweep' = sweep /\ ~SweepStep
    <2>1. \A j \in sweep.todo : JobIsKept(j)'
        BY <1>0, WaitingStep DEF Apart
    <2>2. sweep.at \in {"deleting", "pulling"} => JobIsKept(sweep.job)'
        BY <1>7, InHandStep DEF JobIsKept, SweepStep
    <2>3. ASSUME sweep.at = "crediting", NEW r \in sweep.job.recs
          PROVE  r \notin refs'[r[1]] /\ credits'[r] = <<>>
        <3>1. r \in Rec /\ r \in old /\ flush[r] = "over"
            BY <1>0, <2>3 DEF JobsInv, JobIsExpired, Job, IInv, FlushInv, Told
        <3>2. r \notin refs[r[1]] /\ credits[r] = <<>>
            BY <1>0, <2>3 DEF Apart
        <3> QED
            BY <1>7, <3>1, <3>2, RefsMove, CreditsMove DEF SweepStep
    <2> QED
        BY <1>0, <1>7, <2>1, <2>2, <2>3 DEF Apart
<1>8. CASE sweep' = sweep /\ SweepStep
    BY <1>0, <1>2, <1>3, <1>4, <1>5, <1>6, <1>8 DEF SweepStep, SweepPullFails, Idle
<1> QED
    BY <1>1, <1>2, <1>3, <1>4, <1>5, <1>6, <1>7, <1>8, Writers DEF SweepStep, SweepPullFails, Crash

LEMMA SweepInvStep == IInv /\ [Next]_vars => SweepInv'
<1> SUFFICES ASSUME IInv, [Next]_vars, Never({"delete"})'
             PROVE  /\ \A d \in Decks : deck'[d] = "live"
                    /\ purge' = Idle
                    /\ \A r \in Rec : /\ r \in refs'[r[1]] => credits'[r] = <<>>
                                      /\ credits'[r] # <<>> => flush'[r] = "over"
                    /\ Apart'
    BY DEF SweepInv, Apart, Idle, JobIsKept
<1> QED
    BY NoPurge, CreditedStep, ApartStep

\* A flush that wrote its reference finds it: only what has expired is pulled.
LEMMA RecordedStep == IInv /\ [Next]_vars => RecordedInv'
<1> SUFFICES ASSUME IInv, [Next]_vars, Never({"delete", "crash", "fault"})',
                    NEW x \in Rec, flush'[x] = "recorded"
             PROVE  x \in refs'[x[1]]
    BY DEF RecordedInv
<1>0. /\ Never({"delete", "crash", "fault"}) /\ Never({"delete"})' /\ Never({"delete"})
      /\ Shape /\ x[1] \in Decks
    BY ShapeStep, NeverStays, RecIs DEF IInv, Kinds, Never
<1>1. ~Crash
    BY <1>0, SpendEnds DEF Crash, Kinds
<1>2. CASE flush[x] = "recorded"
    <2>1. x \in refs[x[1]] /\ x \notin old
        BY <1>0, <1>2 DEF IInv, RecordedInv, FlushInv, Told
    <2>2. CASE SweepPull
        <3>1. x \notin sweep.job.recs
            BY <2>1, <2>2 DEF SweepPull, IInv, JobsInv, JobIsExpired
        <3> QED
            BY <1>0, <2>1, <2>2, <3>1, Pulled
    <2> QED
        BY <1>0, <2>1, <2>2, RefsMove
<1>3. CASE flush[x] # "recorded"
    <2>1. PICK r \in Rec : BeginRetention(r) \/ FlushStep(r)
        BY <1>1, <1>3, Writers
    <2>2. PushReference(x)
        BY <1>0, <1>3, <2>1 DEF BeginRetention, FlushStep, UploadDone, UploadAborted,
                                PushReference, PushFails, Abort, Charge, FlushTo, Shape
    <2>3. deck[x[1]] = "live"
        BY <1>0 DEF IInv, SweepInv
    <2> QED
        BY <1>0, <2>2, <2>3 DEF PushReference, Shape
<1> QED
    BY <1>2, <1>3

LEMMA FindableStep == IInv /\ [Next]_vars => GaugeOnlyCountsFindableAudio'
<1> SUFFICES ASSUME IInv, [Next]_vars, Never({"delete", "crash", "fault"})',
                    NEW x \in debited'
             PROVE  \/ credits'[x] # <<>>
                    \/ x \in refs'[x[1]]
                    \/ x \in sweep'.job.recs /\ sweep'.at = "crediting"
    BY DEF GaugeOnlyCountsFindableAudio
<1>0. /\ Never({"delete", "crash", "fault"}) /\ Never({"delete"})' /\ Never({"delete"})
      /\ Shape /\ x \in Rec /\ x[1] \in Decks
    BY ShapeStep, NeverStays, RecIs DEF IInv, Kinds, Never, Shape
<1>1. ~Crash /\ ~SweepPullFails /\ ~AdjustLost
    BY <1>0, SpendEnds DEF Crash, SweepPullFails, AdjustLost, Kinds
<1>2. CASE x \notin debited
    <2>1. PICK r \in Rec : Charge(r)
        BY <1>0, <1>2, Writers DEF SweepCredit, PurgeCredit, Credit, AdjustLost, ledger
    <2>2. x = r /\ flush[x] = "recorded" /\ refs' = refs
        BY <1>2, <2>1 DEF Charge, AdjustLost, FlushTo, ledger
    <2> QED
        BY <1>0, <2>2 DEF IInv, RecordedInv
<1>3. CASE x \in debited /\ credits[x] # <<>>
    <2>1. credits'[x] # credits[x] => SweepCredit /\ x \in sweep.job.recs
        BY <1>0, CreditsMove
    <2>2. SweepCredit /\ x \in sweep.job.recs => credits[x] = <<>>
        BY <1>0 DEF SweepCredit, IInv, SweepInv
    <2> QED
        BY <1>3, <2>1, <2>2
<1>4. CASE x \in refs[x[1]]
    <2>1. CASE SweepPull
        <3>1. sweep'.job = sweep.job /\ sweep'.at = "crediting"
            BY <1>0, <2>1 DEF SweepPull, Shape, WorkIs
        <3> QED
            BY <1>0, <1>4, <2>1, <3>1, Pulled
    <2> QED
        BY <1>0, <1>4, <2>1, RefsMove
<1>5. CASE x \in sweep.job.recs /\ sweep.at = "crediting"
    <2>1. CASE SweepCredit
        <3>1. credits'[x] = Append(credits[x], sweep.job.owner)
            BY <1>0, <1>1, <1>5, <2>1 DEF SweepCredit, Credit
        <3>2. credits[x] \in Seq(Users) /\ sweep.job.owner \in Users
            BY <1>0, <1>5 DEF Shape, IInv, JobsInv, JobIsExpired, Job
        <3>3. Len(credits'[x]) = Len(credits[x]) + 1 /\ Len(credits[x]) \in Nat
            BY <3>1, <3>2
        <3>4. Len(<<>>) = 0
            OBVIOUS
        <3> QED
            BY <3>3, <3>4
    <2>2. CASE SweepStep /\ ~SweepCredit
        BY <1>1, <1>5, <2>2 DEF SweepStep, SweepFind, SweepTake, SweepDelete, SweepPull, Idle
    <2> QED
        BY <1>1, <1>5, <2>1, <2>2, Writers
<1> QED
    BY <1>0, <1>2, <1>3, <1>4, <1>5 DEF IInv, GaugeOnlyCountsFindableAudio

-----------------------------------------------------------------------------
(* Where nothing is deleted or transferred: the gauge and what is owed.     *)

LEMMA PayerStep == IInv /\ [Next]_vars => PayerInv'
<1> SUFFICES ASSUME IInv, [Next]_vars, Never({"delete", "transfer"})'
             PROVE  /\ \A d \in Decks : owner'[d] = FirstOwner
                    /\ \A r \in Rec : payer'[r] \in {FirstOwner, Nobody}
                    /\ \A j \in sweep'.todo : j.owner = FirstOwner
                    /\ sweep'.at # "idle" => sweep'.job.owner = FirstOwner
    BY DEF PayerInv
<1>0. /\ Never({"delete", "transfer"}) /\ Shape /\ JobsInv
      /\ \A d \in Decks : owner[d] = FirstOwner
      /\ \A r \in Rec : payer[r] \in {FirstOwner, Nobody}
      /\ \A j \in sweep.todo : j.owner = FirstOwner
      /\ sweep.at # "idle" => sweep.job.owner = FirstOwner
    BY ShapeStep, NeverStays DEF IInv, Kinds, PayerInv
<1>1. owner' = owner
    <2>1. ASSUME NEW d \in Decks, NEW u \in Users, TransferOwnership(d, u) PROVE FALSE
        BY <1>0, <2>1, SpendEnds DEF TransferOwnership, Kinds
    <2> QED
        BY <2>1, Writers
<1>2. \A r \in Rec : payer'[r] \in {FirstOwner, Nobody}
    <2>1. ASSUME NEW r \in Rec, BeginRetention(r), NEW x \in Rec
          PROVE  payer'[x] \in {FirstOwner, Nobody}
        BY <1>0, <2>1, RecIs DEF BeginRetention, Shape
    <2> QED
        BY <1>0, <2>1, Writers
<1>3. CASE SweepFind
    BY <1>0, <1>1, <1>2, <1>3 DEF SweepFind, Idle, JobOf
<1>4. CASE SweepTake
    BY <1>0, <1>1, <1>2, <1>4 DEF SweepTake
<1>5. CASE SweepDelete
    <2>1. sweep.job \in Job /\ sweep.at = "deleting"
        BY <1>0, <1>5 DEF SweepDelete, JobsInv, JobIsExpired
    <2>2. PICK r \in sweep.job.left :
              sweep' = [sweep EXCEPT
                          !.job.left = sweep.job.left \ {r},
                          !.at = IF sweep.job.left \ {r} = {} THEN "pulling" ELSE "deleting"]
        BY <1>5 DEF SweepDelete
    <2>3. sweep'.job = [sweep.job EXCEPT !.left = sweep.job.left \ {r}]
          /\ sweep'.todo = sweep.todo
        BY <1>0, <2>2 DEF Shape, WorkIs
    <2> QED
        BY <1>0, <1>1, <1>2, <2>1, <2>3 DEF Job
<1>6. CASE SweepPull
    <2>1. sweep'.todo = sweep.todo /\ sweep'.job = sweep.job /\ sweep.at # "idle"
        BY <1>0, <1>6 DEF SweepPull, Shape, WorkIs
    <2> QED
        BY <1>0, <1>1, <1>2, <2>1
<1>7. CASE SweepCredit
    <2>1. sweep'.todo = sweep.todo /\ sweep'.at = "idle"
        BY <1>0, <1>7 DEF SweepCredit, Shape, WorkIs
    <2> QED
        BY <1>0, <1>1, <1>2, <2>1
<1>8. CASE sweep' = Idle
    BY <1>0, <1>1, <1>2, <1>8 DEF Idle
<1> QED
    BY <1>0, <1>1, <1>2, <1>3, <1>4, <1>5, <1>6, <1>7, <1>8, Writers
       DEF SweepStep, SweepPullFails, Crash

LEMMA SetsOfRec ==
    ASSUME NEW S \in SUBSET Rec
    PROVE  IsFiniteSet(S) /\ Cardinality(S) \in Nat
BY RecIs, FS_Subset, FS_CardinalityType

LEMMA Disjoint ==
    ASSUME NEW S \in SUBSET Rec, NEW T \in SUBSET Rec, S \intersect T = {}
    PROVE  Cardinality(S \union T) = Cardinality(S) + Cardinality(T)
<1>1. IsFiniteSet(S) /\ IsFiniteSet(T) /\ Cardinality(S) \in Nat /\ Cardinality(T) \in Nat
    BY SetsOfRec
<1>2. Cardinality(S \union T) = Cardinality(S) + Cardinality(T) - Cardinality({})
    BY <1>1, FS_Union
<1> QED
    BY <1>1, <1>2, FS_EmptySet

\* A credit takes as much off what is owed, and adds to what was never charged, as
\* it takes off the gauge, or leaves the gauge at nothing.
LEMMA OwedByCredit ==
    ASSUME IInv, Never({"delete", "transfer"}), SweepCredit, ~AdjustLost, NEW u \in Users,
           Cardinality(Owed(u)) <= gauge[u] + Cardinality(NeverCharged(u))
    PROVE  Cardinality(Owed(u)') <= gauge'[u] + Cardinality(NeverCharged(u)')
<1> DEFINE recs == sweep.job.recs
           D == recs \intersect debited
           N == recs \ debited
<1>0. /\ Shape /\ Never({"delete"})
      /\ sweep.at = "crediting" /\ JobIsExpired(sweep.job) /\ sweep.job.owner = FirstOwner
    BY DEF IInv, JobsInv, SweepCredit, PayerInv, Never
<1>1. /\ recs \subseteq Rec
      /\ \A r \in recs : credits[r] = <<>> /\ payer[r] = FirstOwner
    <2>1. recs \subseteq Rec /\ \A r \in recs : credits[r] = <<>> /\ flush[r] = "over"
        BY <1>0 DEF JobIsExpired, Job, IInv, SweepInv, FlushInv, Told
    <2>2. \A r \in recs : payer[r] \in Users /\ payer[r] \in {FirstOwner, Nobody}
        BY <2>1 DEF IInv, FlushInv, Told, PayerInv
    <2> QED
        BY <2>1, <2>2, AccountsAssumption
<1>2. /\ gauge' = [gauge EXCEPT ![FirstOwner] = Less(@, Cardinality(recs))]
      /\ credits' = [r \in Rec |-> IF r \in recs THEN Append(credits[r], FirstOwner)
                                   ELSE credits[r]]
      /\ debited' = debited /\ payer' = payer
    BY <1>0 DEF SweepCredit, Credit, SweepUnchanged
<1>3. \A r \in recs : credits'[r] # <<>>
    <2> SUFFICES ASSUME NEW r \in recs PROVE credits'[r] # <<>>
        OBVIOUS
    <2>1. credits[r] \in Seq(Users) /\ credits'[r] = Append(credits[r], FirstOwner)
        BY <1>0, <1>1, <1>2 DEF Shape
    <2>2. Len(credits'[r]) = Len(credits[r]) + 1 /\ Len(credits[r]) \in Nat
        BY <2>1, AccountsAssumption
    <2>3. Len(<<>>) = 0
        OBVIOUS
    <2> QED
        BY <2>2, <2>3
<1>4. \A r \in Rec \ recs : credits'[r] = credits[r]
    BY <1>2
<1>5. gauge[u] \in Nat
    BY <1>0 DEF Shape
<1>6. CASE u # FirstOwner
    <2>1. gauge'[u] = gauge[u]
        BY <1>0, <1>2, <1>6 DEF Shape
    <2>2. Owed(u)' = Owed(u)
        BY <1>0, <1>1, <1>2, <1>4, <1>6 DEF Owed, Charged, Shape
    <2>3. NeverCharged(u)' = NeverCharged(u)
        BY <1>1, <1>2, <1>4, <1>6 DEF NeverCharged
    <2> QED
        BY <2>1, <2>2, <2>3
<1>7. CASE u = FirstOwner
    <2>1. Owed(u)' = Owed(u) \ D /\ D \subseteq Owed(u)
        <3>1. D \subseteq Owed(u)
            BY <1>1, <1>7 DEF Owed, Charged
        <3>2. \A r \in D : r \notin Owed(u)'
            BY <1>3 DEF Owed
        <3>3. \A r \in debited \ D : r \in Owed(u)' <=> r \in Owed(u)
            BY <1>0, <1>2, <1>4 DEF Owed, Charged, Shape
        <3>4. Owed(u) \subseteq debited /\ Owed(u)' \subseteq debited
            BY <1>2 DEF Owed, Charged
        <3> QED
            BY <3>1, <3>2, <3>3, <3>4
    <2>2. NeverCharged(u)' = NeverCharged(u) \union N /\ NeverCharged(u) \intersect N = {}
        <3>1. N \intersect NeverCharged(u) = {}
            BY <1>1 DEF NeverCharged
        <3>2. N \subseteq NeverCharged(u)'
            BY <1>1, <1>2, <1>3, <1>7 DEF NeverCharged
        <3>3. \A r \in Rec \ N : r \in NeverCharged(u)' <=> r \in NeverCharged(u)
            BY <1>2, <1>4 DEF NeverCharged
        <3>4. NeverCharged(u) \subseteq Rec /\ NeverCharged(u)' \subseteq Rec /\ N \subseteq Rec
            BY <1>1 DEF NeverCharged
        <3> QED
            BY <3>1, <3>2, <3>3, <3>4
    <2>3. Owed(u) \in SUBSET Rec /\ NeverCharged(u) \in SUBSET Rec
          /\ D \in SUBSET Rec /\ N \in SUBSET Rec /\ recs \in SUBSET Rec
        BY <1>0, <1>1 DEF Owed, Charged, NeverCharged, Shape
    <2>4. recs = D \union N /\ D \intersect N = {}
        OBVIOUS
    <2>5. gauge'[u] = Less(gauge[u], Cardinality(recs))
        BY <1>0, <1>2, <1>7 DEF Shape
    <2> HIDE DEF recs, D, N
    <2>6. Cardinality(Owed(u)') = Cardinality(Owed(u)) - Cardinality(D)
        <3>1. Owed(u) \intersect D = D
            BY <2>1
        <3> QED
            BY <2>1, <2>3, <3>1, SetsOfRec, FS_Difference
    <2>7. Cardinality(NeverCharged(u)') = Cardinality(NeverCharged(u)) + Cardinality(N)
        BY <2>2, <2>3, Disjoint
    <2>8. Cardinality(recs) = Cardinality(D) + Cardinality(N)
        BY <2>3, <2>4, Disjoint
    <2>9. /\ Cardinality(Owed(u)) \in Nat /\ Cardinality(NeverCharged(u)) \in Nat
          /\ Cardinality(D) \in Nat /\ Cardinality(N) \in Nat
        BY <2>3, SetsOfRec
    <2> QED
        BY <1>5, <2>5, <2>6, <2>7, <2>8, <2>9 DEF Less
<1> QED
    BY <1>6, <1>7

LEMMA OwedStep == IInv /\ [Next]_vars => OwedInv'
<1> SUFFICES ASSUME IInv, [Next]_vars, Never({"delete", "transfer"})', NEW u \in Users
             PROVE  Cardinality(Owed(u)') <= gauge'[u] + Cardinality(NeverCharged(u)')
    BY DEF OwedInv
<1>0. /\ Never({"delete", "transfer"}) /\ Never({"delete"})' /\ Never({"delete"}) /\ Shape
      /\ Cardinality(Owed(u)) <= gauge[u] + Cardinality(NeverCharged(u))
      /\ gauge[u] \in Nat
    BY ShapeStep, NeverStays DEF IInv, Kinds, Never, OwedInv, Shape
<1>1. \A x \in Rec : credits[x] # <<>> => flush[x] = "over"
    BY <1>0 DEF IInv, SweepInv
<1>2. \A x \in Rec : flush[x] # "none" => payer'[x] = payer[x]
    BY <1>0, PayerStays
<1>3. CASE UNCHANGED ledger
    <2>1. Owed(u)' = Owed(u)
        BY <1>3, ChargedStays DEF Owed, ledger
    <2>2. NeverCharged(u)' = NeverCharged(u)
        BY <1>1, <1>2, <1>3 DEF NeverCharged, ledger
    <2> QED
        BY <1>0, <1>3, <2>1, <2>2 DEF ledger
<1>4. ASSUME NEW r \in Rec, Charge(r), ~AdjustLost
      PROVE  Cardinality(Owed(u)') <= gauge'[u] + Cardinality(NeverCharged(u)')
    <2>1. /\ gauge' = [gauge EXCEPT ![payer[r]] = @ + 1]
          /\ credits' = credits /\ debited' = debited \union {r}
          /\ r \notin debited /\ payer' = payer
          /\ Charged(u)' = IF u = payer[r] THEN Charged(u) \union {r} ELSE Charged(u)
        BY <1>4, ChargedGrows DEF Charge
    <2>2. credits[r] = <<>>
        BY <1>1, <1>4 DEF Charge, FlushTo
    <2>3. NeverCharged(u)' = NeverCharged(u)
        BY <2>1, <2>2 DEF NeverCharged
    <2>4. Owed(u)' = IF u = payer[r] THEN Owed(u) \union {r} ELSE Owed(u)
        BY <2>1, <2>2 DEF Owed
    <2>5. Owed(u) \in SUBSET Rec /\ r \notin Owed(u) /\ NeverCharged(u) \in SUBSET Rec
        BY <1>0, <2>1 DEF Owed, Charged, NeverCharged, Shape
    <2>6. Cardinality(Owed(u) \union {r}) = Cardinality(Owed(u)) + 1
        BY <2>5, SetsOfRec, FS_AddElement
    <2>7. gauge'[u] = IF u = payer[r] THEN gauge[u] + 1 ELSE gauge[u]
        BY <1>0, <2>1 DEF Shape
    <2>8. Cardinality(Owed(u)) \in Nat /\ Cardinality(NeverCharged(u)) \in Nat
        BY <2>5, SetsOfRec
    <2> QED
        BY <1>0, <2>3, <2>4, <2>6, <2>7, <2>8
<1>5. ~PurgeCredit
    BY <1>0, NoPurge DEF PurgeStep
<1>6. CASE SweepCredit /\ ~AdjustLost
    BY <1>0, <1>6, OwedByCredit
<1>7. AdjustLost => UNCHANGED ledger
    BY DEF AdjustLost
<1> QED
    BY <1>3, <1>4, <1>5, <1>6, <1>7, Writers

-----------------------------------------------------------------------------
(* The theorems.                                                           *)

\* Every state satisfies the inductive invariant.
THEOREM Invariance == Spec => []IInv
<1>1. IInv /\ [Next]_vars => IInv'
    BY ShapeStep, FlushStepTold, RefsStep, JobsStep, PurgeInvStep, ListedStep, ReadStep, PurgeCreditedStep, ChargedStep, SweepInvStep,
       PayerStep, OwedStep, RecordedStep, AudioStep, FindableStep DEF IInv
<1> QED
    BY InitIInv, <1>1, PTL DEF Spec

\* A recording that a live lecture refers to keeps its audio until it expires, whatever
\* the sweep and the purge read earlier (deleteStorageKeys, storage.delete).
THEOREM AudioIsKept == Spec => []RecordingHasAudio
<1>1. IInv => RecordingHasAudio
    BY DEF IInv
<1> QED
    BY <1>1, Invariance, PTL

\* No order of flushes, sweeps, failed updates and crashes makes an account's gauge
\* count less than the recordings it was charged for and still keeps, by more than
\* those that were credited though never charged (adjustGauge, flushRetention,
\* sweepExpiredRecordings).
THEOREM GaugeIsNeverLow == Spec => []GaugeNeverUnderstates
<1>1. IInv => GaugeNeverUnderstates
    <2> SUFFICES ASSUME IInv, Never({"delete", "transfer"}), NEW u \in Users
                 PROVE  Cardinality({r \in debited : payer[r] = u /\ r \in refs[r[1]]})
                            <= gauge[u] + Cardinality(NeverCharged(u))
        BY Types DEF GaugeNeverUnderstates
    <2> DEFINE Kept == {r \in debited : payer[r] = u /\ r \in refs[r[1]]}
    <2>0. Shape /\ Never({"delete"})
        BY DEF IInv, Never
    <2>1. Kept \subseteq Owed(u) /\ Owed(u) \in SUBSET Rec /\ NeverCharged(u) \in SUBSET Rec
        BY <2>0 DEF IInv, SweepInv, Owed, Charged, NeverCharged, Shape
    <2>2. Cardinality(Owed(u)) <= gauge[u] + Cardinality(NeverCharged(u))
        BY DEF IInv, OwedInv
    <2>3. gauge[u] \in Nat
        BY <2>0 DEF Shape
    <2> HIDE DEF Kept
    <2>4. IsFiniteSet(Owed(u)) /\ Kept \in SUBSET Rec
        BY <2>1, SetsOfRec
    <2>5. Cardinality(Kept) <= Cardinality(Owed(u))
        BY <2>1, <2>4, FS_Subset
    <2>6. /\ Cardinality(Kept) \in Nat /\ Cardinality(Owed(u)) \in Nat
          /\ Cardinality(NeverCharged(u)) \in Nat
        BY <2>1, <2>4, SetsOfRec
    <2>7. Cardinality(Kept) <= gauge[u] + Cardinality(NeverCharged(u))
        BY <2>2, <2>3, <2>5, <2>6
    <2> QED
        BY <2>7 DEF Kept
<1> QED
    BY <1>1, Invariance, PTL

\* What is on the gauge can be credited back: as long as nothing is deleted and nothing
\* fails, a charged recording has been credited, is being credited, or is on its lecture
\* for a later sweep to find (flushRetention).
THEOREM ChargesAreFindable == Spec => []GaugeOnlyCountsFindableAudio
<1>1. IInv => GaugeOnlyCountsFindableAudio
    BY DEF IInv
<1> QED
    BY <1>1, Invariance, PTL

\* The purge removes no lecture whose recordings are still to be credited, though it
\* deletes by an id, and credits from a copy, that it read long before: whatever flushes,
\* sweeps, restores and crashes do meanwhile, only what a session adds to a lecture that
\* was restored while listed is lost (purgeDeckCascade, creditRetainedAudio).
THEOREM PurgedIsCredited == Spec => PurgedAudioIsCredited
<1>1. IInv /\ [Next]_vars =>
          [Never({"fault"}) => \A d \in Decks :
             deck[d] # deck'[d] /\ deck'[d] = "purged" =>
                \A r \in refs[d] \ astray : credits[r] # <<>>]_vars
    <2> SUFFICES ASSUME IInv, [Next]_vars, Never({"fault"}), NEW d \in Decks,
                        deck[d] # deck'[d], deck'[d] = "purged",
                        NEW r \in refs[d], r \notin astray
                 PROVE  credits[r] # <<>>
        OBVIOUS
    <2>0. Shape
        BY DEF IInv
    <2>1. ASSUME NEW e \in Decks, DeleteDeck(e) \/ RestoreDeck(e) PROVE FALSE
        BY <2>0, <2>1 DEF DeleteDeck, RestoreDeck, Shape
    <2>2. PurgeRemove
        BY <2>1, Writers
    <2>3. d = purge.job.deck /\ purge.at = "removing"
        BY <2>0, <2>2 DEF PurgeRemove, Shape
    <2>4. r \in purge.job.recs
        BY <2>3 DEF IInv, ReadInv
    <2> QED
        BY <2>3, <2>4 DEF IInv, CreditedInv
<1> QED
    BY <1>1, Invariance, PTL DEF Spec, PurgedAudioIsCredited
=============================================================================
