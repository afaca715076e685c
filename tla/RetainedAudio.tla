---------------------------- MODULE RetainedAudio ----------------------------
(***************************************************************************)
(* What becomes of a recording once its session is over: the object in      *)
(* storage, the reference on the lecture, and the owner's `audioStorageMb`  *)
(* gauge, as moved by the flush of the audio socket, the expiry sweep       *)
(* (jobs/audio-cleanup.ts), deletion and restore of a lecture and the       *)
(* retention purge (lib/cascade.ts, jobs/soft-delete-purge.ts), and a       *)
(* transfer of ownership (actions/deck.ts).                                *)
(*                                                                         *)
(* Nothing here is a transaction: every await of the code is a step.  A     *)
(* recording is <<lecture, number>> and occupies one unit of the gauge.     *)
(* Days are not counted: Expire says that a recording is past its owner's   *)
(* window, and the purge takes any of the tombstones.  Deletion of whole    *)
(* accounts and projects is left out.                                      *)
(***************************************************************************)
EXTENDS Integers, FiniteSetsExt, Sequences

CONSTANTS
    Decks,         \* lectures
    Users,         \* accounts that may own a lecture
    Nobody,        \* no account
    FirstOwner,    \* the owner of every lecture at the start
    MaxRecordings, \* bound: recordings per lecture
    MaxDeletes,    \* bound: deletions of a lecture
    MaxRestores,   \* bound: restores by an administrator
    MaxTransfers,  \* bound: transfers of ownership
    MaxCrashes,    \* bound: restarts of the server
    MaxFaults,     \* bound: database errors
    MaxDisturbances \* bound: all of these together

ASSUME AccountsAssumption == FirstOwner \in Users /\ Nobody \notin Users
ASSUME BoundsAssumption ==
    /\ IsFiniteSet(Decks) /\ MaxRecordings \in Nat
    /\ {MaxDeletes, MaxRestores, MaxTransfers, MaxCrashes, MaxFaults} \subseteq Nat

Rec == Decks \X (1..MaxRecordings)

Bound == [delete |-> MaxDeletes, restore |-> MaxRestores,
          transfer |-> MaxTransfers, crash |-> MaxCrashes, fault |-> MaxFaults]

VARIABLES
    deck,      \* [Decks -> ...] live, tombstoned (deletedAt set), purged
    owner,     \* [Decks -> Users] deck.ownerId
    refs,      \* [Decks -> SUBSET Rec] deck.recordings
    objects,   \* the recordings whose object is in storage
    gauge,     \* [Users -> Nat] used, of metric audioStorageMb
    flush,     \* [Rec -> ...] where flushRetention is
    payer,     \* [Rec -> Users \union {Nobody}] r.ownerId, taken at the start
    old,       \* recordings past their owner's retention window
    astray,    \* history: recordings whose reference was still to come when
               \* their lecture was restored under the purge
    sweep,     \* the sweep: where it is, the jobs left, the job in hand
    purge,     \* the purge: where it is, the lectures left, the job in hand
    debited,   \* history: recordings that were charged, to payer
    credits,   \* history: [Rec -> Seq(Users)] the accounts credited for it
    spent      \* how much of each bound is used

ledger == <<gauge, debited, credits>>
vars == <<deck, owner, refs, objects, flush, payer, old, astray, sweep, purge,
          ledger, spent>>

\* What a job read of a lecture before it acts; left are the objects to delete.
Job == [deck : Decks, owner : Users, recs : SUBSET Rec, left : SUBSET Rec]
NoJob == [recs |-> {}]
JobOf(d, recs) ==
    [deck |-> d, owner |-> owner[d], recs |-> recs, left |-> recs]

Idle == [at |-> "idle", todo |-> {}, job |-> NoJob]

TypeOK ==
    /\ deck \in [Decks -> {"live", "tombstoned", "purged"}]
    /\ owner \in [Decks -> Users]
    /\ refs \in [Decks -> SUBSET Rec]
    /\ objects \subseteq Rec
    /\ gauge \in [Users -> 0..Cardinality(Rec)]
    /\ flush \in [Rec -> {"none", "uploading", "stored", "recorded",
                          "aborting", "over"}]
    /\ payer \in [Rec -> Users \union {Nobody}]
    /\ old \subseteq Rec /\ astray \subseteq Rec
    /\ sweep.at \in {"idle", "deleting", "pulling", "crediting"}
    /\ sweep.todo \subseteq Job /\ sweep.job \in Job \union {NoJob}
    /\ purge.at \in {"idle", "deleting", "crediting", "removing"}
    /\ purge.todo \subseteq Decks /\ purge.job \in Job \union {NoJob}
    /\ debited \subseteq Rec
    /\ \A r \in Rec : credits[r] \in Seq(Users)
    /\ \A k \in DOMAIN Bound : spent[k] \in 0..Bound[k]

Init ==
    /\ deck = [d \in Decks |-> "live"]
    /\ owner = [d \in Decks |-> FirstOwner]
    /\ refs = [d \in Decks |-> {}]
    /\ objects = {}
    /\ gauge = [u \in Users |-> 0]
    /\ flush = [r \in Rec |-> "none"]
    /\ payer = [r \in Rec |-> Nobody]
    /\ old = {} /\ astray = {}
    /\ sweep = Idle
    /\ purge = Idle
    /\ debited = {}
    /\ credits = [r \in Rec |-> <<>>]
    /\ spent = [k \in DOMAIN Bound |-> 0]

Disturbances == MapThenSumSet(LAMBDA k : spent[k], DOMAIN Bound)

Spend(kind) ==
    /\ spent[kind] < Bound[kind]
    /\ Disturbances < MaxDisturbances
    /\ spent' = [spent EXCEPT ![kind] = @ + 1]

-----------------------------------------------------------------------------
(* The gauge.                                                              *)

Less(used, freed) == IF used > freed THEN used - freed ELSE 0

\* adjustGauge never throws: an update that fails is logged and forgotten.
AdjustLost == Spend("fault") /\ UNCHANGED ledger

\* adjustGauge(u, 'audioStorageMb', -|recs|).
Credit(u, recs) ==
    \/ AdjustLost
    \/ /\ gauge' = [gauge EXCEPT ![u] = Less(@, Cardinality(recs))]
       /\ credits' = [r \in Rec |->
                        IF r \in recs THEN Append(credits[r], u) ELSE credits[r]]
       /\ UNCHANGED <<debited, spent>>

-----------------------------------------------------------------------------
(* The session: the edit check, then flushRetention.                        *)

BeginRetention(r) ==
    /\ flush[r] = "none"
    /\ deck[r[1]] = "live"
    /\ flush' = [flush EXCEPT ![r] = "uploading"]
    /\ payer' = [payer EXCEPT ![r] = owner[r[1]]]
    /\ UNCHANGED <<deck, owner, refs, objects, old, astray, sweep, purge, ledger, spent>>

FlushTo(r, from, to) ==
    /\ flush[r] = from
    /\ flush' = [flush EXCEPT ![r] = to]
    /\ UNCHANGED <<deck, owner, payer, old, astray, sweep, purge>>

UploadDone(r) ==
    /\ FlushTo(r, "uploading", "stored")
    /\ objects' = objects \union {r}
    /\ UNCHANGED <<refs, ledger, spent>>

\* Discarded or empty, or done() threw: abort() leaves nothing behind.
UploadAborted(r) ==
    /\ FlushTo(r, "uploading", "aborting")
    /\ UNCHANGED <<refs, objects, ledger, spent>>

\* Mutant: the reference is written to a deleted lecture too.
PushAnyway(r) ==
    /\ FlushTo(r, "stored", "recorded")
    /\ refs' = [refs EXCEPT ![r[1]] = @ \union {r}]
    /\ UNCHANGED <<objects, ledger, spent>>

\* updateOne skips a lecture that was deleted meanwhile; nobody looks.
PushReference(r) ==
    /\ FlushTo(r, "stored", "recorded")
    /\ refs' = IF deck[r[1]] = "live"
                 THEN [refs EXCEPT ![r[1]] = @ \union {r}] ELSE refs
    /\ UNCHANGED <<objects, ledger, spent>>

PushFails(r) ==
    /\ FlushTo(r, "stored", "aborting")
    /\ Spend("fault")
    /\ UNCHANGED <<refs, objects, ledger>>

\* Mutant: the storage is charged in the finally, recorded or not.
AbortCharged(r) ==
    /\ FlushTo(r, "aborting", "over")
    /\ gauge' = [gauge EXCEPT ![payer[r]] = @ + 1]
    /\ debited' = debited \union {r}
    /\ UNCHANGED <<refs, objects, credits, spent>>

\* abort() destroys the stream and its parts; a completed object stays.
Abort(r) ==
    /\ FlushTo(r, "aborting", "over")
    /\ UNCHANGED <<refs, objects, ledger, spent>>

Charge(r) ==
    /\ FlushTo(r, "recorded", "over")
    /\ \/ AdjustLost
       \/ /\ gauge' = [gauge EXCEPT ![payer[r]] = @ + 1]
          /\ debited' = debited \union {r}
          /\ UNCHANGED <<credits, spent>>
    /\ UNCHANGED <<refs, objects>>

\* A recording is days old when it expires: its flush is long over.
Expire(r) ==
    /\ r \in refs[r[1]] \ old
    /\ flush[r] = "over"
    /\ old' = old \union {r}
    /\ UNCHANGED <<deck, owner, refs, objects, flush, payer, astray, sweep,
                   purge, ledger, spent>>

-----------------------------------------------------------------------------
(* Deletion, restore, transfer.                                            *)

DeleteDeck(d) ==
    /\ deck[d] = "live"
    /\ Spend("delete")
    /\ deck' = [deck EXCEPT ![d] = "tombstoned"]
    /\ UNCHANGED <<owner, refs, objects, flush, payer, old, astray, sweep, purge, ledger>>

\* The lectures the purge has found and not yet removed.
Listed ==
    IF purge.at = "idle" THEN purge.todo ELSE purge.todo \union {purge.job.deck}

\* A lecture restored while the purge has it listed stays listed.
RestoreDeck(d) ==
    /\ deck[d] = "tombstoned"
    /\ Spend("restore")
    /\ deck' = [deck EXCEPT ![d] = "live"]
    /\ astray' = IF d \in Listed
                   THEN astray \union {r \in Rec : r[1] = d /\ r \notin refs[d]}
                   ELSE astray
    /\ UNCHANGED <<owner, refs, objects, flush, payer, old, sweep, purge, ledger>>

TransferOwnership(d, u) ==
    /\ deck[d] = "live"
    /\ u # owner[d]
    /\ Spend("transfer")
    /\ owner' = [owner EXCEPT ![d] = u]
    /\ UNCHANGED <<deck, refs, objects, flush, payer, old, astray, sweep, purge, ledger>>

-----------------------------------------------------------------------------
(* sweepExpiredRecordings.                                                 *)

SweepUnchanged == UNCHANGED <<deck, owner, flush, payer, old, astray, purge>>

\* Mutant: the per-owner cutoff is not applied to the recordings.
ExpiredOfAll(d) == refs[d]

Expired(d) == refs[d] \intersect old

\* find() sees live lectures; what it returns is acted on much later.
SweepFind ==
    LET jobs == {JobOf(d, Expired(d)) :
                   d \in {e \in Decks : deck[e] = "live" /\ Expired(e) # {}}}
    IN  /\ sweep = Idle
        /\ jobs # {}
        /\ sweep' = [Idle EXCEPT !.todo = jobs]
        /\ SweepUnchanged
        /\ UNCHANGED <<refs, objects, ledger, spent>>

SweepTake ==
    /\ sweep.at = "idle"
    /\ \E j \in sweep.todo :
          sweep' = [at |-> "deleting", todo |-> sweep.todo \ {j}, job |-> j]
    /\ SweepUnchanged
    /\ UNCHANGED <<refs, objects, ledger, spent>>

\* Mutant: a storage failure ends the sweep.
SweepDeleteWedged ==
    /\ sweep.at = "deleting"
    /\ \E r \in sweep.job.left :
          \/ /\ objects' = objects \ {r}
             /\ LET left == sweep.job.left \ {r}
                IN  sweep' = [sweep EXCEPT
                       !.job.left = left,
                       !.at = IF left = {} THEN "pulling" ELSE "deleting"]
          \/ objects' = objects /\ sweep' = Idle
    /\ SweepUnchanged
    /\ UNCHANGED <<refs, ledger, spent>>

\* Best effort: a failed delete is logged and the sweep goes on.
SweepDelete ==
    /\ sweep.at = "deleting"
    /\ \E r \in sweep.job.left :
          /\ objects' \in {objects, objects \ {r}}
          /\ LET left == sweep.job.left \ {r}
             IN  sweep' = [sweep EXCEPT
                    !.job.left = left,
                    !.at = IF left = {} THEN "pulling" ELSE "deleting"]
    /\ SweepUnchanged
    /\ UNCHANGED <<refs, ledger, spent>>

\* Mutant: the credit comes first, and the reference goes with the next sweep.
SweepPullLater ==
    /\ sweep.at = "pulling"
    /\ sweep' = [sweep EXCEPT !.at = "crediting"]
    /\ refs' = refs
    /\ SweepUnchanged
    /\ UNCHANGED <<objects, ledger, spent>>

\* $pull, again on a live lecture only.
SweepPull ==
    /\ sweep.at = "pulling"
    /\ sweep' = [sweep EXCEPT !.at = "crediting"]
    /\ LET d == sweep.job.deck
       IN  refs' = IF deck[d] = "live"
                     THEN [refs EXCEPT ![d] = @ \ sweep.job.recs] ELSE refs
    /\ SweepUnchanged
    /\ UNCHANGED <<objects, ledger, spent>>

\* The rejection ends this sweep; the next day's starts over.
SweepPullFails ==
    /\ sweep.at = "pulling"
    /\ Spend("fault")
    /\ sweep' = Idle
    /\ SweepUnchanged
    /\ UNCHANGED <<refs, objects, ledger>>

SweepCredit ==
    /\ sweep.at = "crediting"
    /\ Credit(sweep.job.owner, sweep.job.recs)
    /\ sweep' = [sweep EXCEPT !.at = "idle", !.job = NoJob]
    /\ SweepUnchanged
    /\ UNCHANGED <<refs, objects>>

SweepStep ==
    SweepFind \/ SweepTake \/ SweepDelete \/ SweepPull \/ SweepPullFails
              \/ SweepCredit

-----------------------------------------------------------------------------
(* purgeExpiredSoftDeletes and purgeDeckCascade.                            *)

PurgeUnchanged == UNCHANGED <<owner, flush, payer, old, astray, sweep>>

Purgeable == {d \in Decks : deck[d] = "tombstoned"}

\* The ids of the tombstones older than the cutoff: some of them.
PurgeFind ==
    /\ purge = Idle
    /\ \E S \in (SUBSET Purgeable) \ {{}} : purge' = [Idle EXCEPT !.todo = S]
    /\ PurgeUnchanged
    /\ UNCHANGED <<deck, refs, objects, ledger, spent>>

\* purgeDeckContents reads the lecture withDeleted: whatever it is by now.
PurgeTake ==
    /\ purge.at = "idle"
    /\ \E d \in purge.todo :
          purge' = [at |-> "deleting", todo |-> purge.todo \ {d},
                    job |-> JobOf(d, refs[d])]
    /\ PurgeUnchanged
    /\ UNCHANGED <<deck, refs, objects, ledger, spent>>

PurgeDelete ==
    /\ purge.at = "deleting"
    /\ \E failed \in SUBSET purge.job.recs :
          objects' = objects \ (purge.job.recs \ failed)
    /\ purge' = [purge EXCEPT !.at = "crediting"]
    /\ PurgeUnchanged
    /\ UNCHANGED <<deck, refs, ledger, spent>>

PurgeCredit ==
    /\ purge.at = "crediting"
    /\ Credit(purge.job.owner, purge.job.recs)
    /\ purge' = [purge EXCEPT !.at = "removing"]
    /\ PurgeUnchanged
    /\ UNCHANGED <<deck, refs, objects>>

\* deleteOne asks nothing but the id.
PurgeRemove ==
    /\ purge.at = "removing"
    /\ deck' = [deck EXCEPT ![purge.job.deck] = "purged"]
    /\ refs' = [refs EXCEPT ![purge.job.deck] = {}]
    /\ purge' = [purge EXCEPT !.at = "idle", !.job = NoJob]
    /\ PurgeUnchanged
    /\ UNCHANGED <<objects, ledger, spent>>

\* A removal was rejected: the rest of this purge waits for the next.
PurgeFails ==
    /\ purge.at = "removing"
    /\ Spend("fault")
    /\ purge' = Idle
    /\ PurgeUnchanged
    /\ UNCHANGED <<deck, refs, objects, ledger>>

PurgeStep ==
    PurgeFind \/ PurgeTake \/ PurgeDelete \/ PurgeCredit \/ PurgeRemove
              \/ PurgeFails

-----------------------------------------------------------------------------

\* The process dies: flushes and sweeps stop where they are.
Crash ==
    /\ Spend("crash")
    /\ flush' = [r \in Rec |-> IF flush[r] = "none" THEN "none" ELSE "over"]
    /\ sweep' = Idle
    /\ purge' = Idle
    /\ UNCHANGED <<deck, owner, refs, objects, payer, old, astray, ledger>>

FlushStep(r) ==
    \/ UploadDone(r) \/ UploadAborted(r) \/ PushReference(r) \/ PushFails(r)
    \/ Abort(r) \/ Charge(r)

Next ==
    \/ \E r \in Rec : BeginRetention(r) \/ FlushStep(r) \/ Expire(r)
    \/ \E d \in Decks : DeleteDeck(d) \/ RestoreDeck(d)
    \/ \E d \in Decks, u \in Users : TransferOwnership(d, u)
    \/ SweepStep \/ PurgeStep \/ Crash

Spec == Init /\ [][Next]_vars

\* Both sweeps run at startup and once a day ever after, and a promise settles.
Fairness == WF_vars(SweepStep) /\ WF_vars(PurgeStep)

FairSpec == Spec /\ Fairness

-----------------------------------------------------------------------------
(* Properties.                                                             *)

\* No event of these kinds has happened.
Never(kinds) == \A k \in kinds : spent[k] = 0

\* Recordings credited though a crash or a failed update between the reference
\* and the charge left them uncharged.
NeverCharged(u) == {r \in Rec \ debited : payer[r] = u /\ credits[r] # <<>>}

\* What an account is charged for and still holds is on its gauge: no order
\* of flushes, sweeps and crashes makes the gauge understate by more than the
\* recordings that were never charged ("a crash mid-sweep leaves the gauge
\* overstating rather than understating").  For lectures that are neither
\* deleted nor transferred.
GaugeNeverUnderstates ==
  /\ TypeOK
  /\ Never({"delete", "transfer"}) =>
      \A u \in Users :
        Cardinality({r \in debited : payer[r] = u /\ r \in refs[r[1]]})
            <= gauge[u] + Cardinality(NeverCharged(u))

\* A recording a live lecture refers to can be played until it expires, even
\* with the sweep and the purge at work on what they read earlier.  Without
\* restores (deleteStorageKeys, storage.delete).
RecordingHasAudio ==
    Never({"restore"}) =>
      \A d \in Decks :
        deck[d] = "live" => refs[d] \ old \subseteq objects

\* A lecture removed for good takes no storage charge with it: each recording
\* it still refers to has been credited, by a sweep or by this purge, though
\* flushes, sweeps, restores and crashes go on between the read of the lecture
\* and the deletion by its id (creditRetainedAudio).  As long as no database
\* call fails, and but for what a session adds to a lecture that was restored
\* after the purge had listed it: the purge never looks at it again.
PurgedAudioIsCredited ==
    [][Never({"fault"}) => \A d \in Decks :
         deck[d] # deck'[d] /\ deck'[d] = "purged" =>
            \A r \in refs[d] \ astray : credits[r] # <<>>]_vars

\* An expired recording leaves its lecture at last, through failed deletes,
\* crashes, deletion and restore ("so a missing object can't wedge the sweep").
ExpiredIsRemoved ==
    \A r \in Rec : r \in old /\ r \in refs[r[1]] ~> r \notin refs[r[1]]

\* "The gauge only ever counts audio the sweep can later find and credit back"
\* (flushRetention): what was charged is credited, about to be, or still on its
\* lecture, as long as nothing is deleted and no call or process fails.
GaugeOnlyCountsFindableAudio ==
    Never({"delete", "crash", "fault"}) =>
      \A r \in debited :
        \/ credits[r] # <<>>
        \/ r \in refs[r[1]]
        \/ r \in sweep.job.recs /\ sweep.at = "crediting"

=============================================================================
