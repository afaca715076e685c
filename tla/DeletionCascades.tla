---------------------------- MODULE DeletionCascades ----------------------------
(***************************************************************************)
(* Deletion, restore and purge of accounts, projects, lectures and slides    *)
(* (lib/cascade.ts, jobs/soft-delete-purge.ts, models/plugins/soft-delete.ts). *)
(*                                                                         *)
(* A deletion stamps the record and what lies below it with the time it      *)
(* began; a restore brings back what was stamped at or after its root; the   *)
(* purge removes what was stamped before its cutoff.  None of them is        *)
(* atomic: a request is the sequence of database calls it has still to make,  *)
(* and a call that finds something is replaced by what is to be done with it.  *)
(*                                                                         *)
(* A slide stands for everything that is stored under a lecture.  Left out:  *)
(* votes, sharing lists, templates, sessions, files, translations and the      *)
(* moving of lectures.                                                     *)
(***************************************************************************)
EXTENDS Integers, Sequences, FiniteSets, SequencesExt

CONSTANTS
    Requests,               \* requests and jobs in progress at once
    Accounts, Projects, Lectures, Slides,
    Owner,                  \* [Projects \union Lectures -> Accounts]
    Project,                \* [Lectures -> Projects]
    Lecture,                \* [Slides -> Lectures]
    MaxTime,                \* bound: readings of the clock
    MaxSweeps,              \* bound: runs of the purge
    MaxDisturbances         \* bound: cascades that meet or die half-way

Records == UNION {Accounts, Projects, Lectures, Slides}
Purge == "purge"         \* the root of the purge, which is not about one record

\* Every collection has its own documents.
ASSUME CascadeAssumption ==
    /\ Owner \in [Projects \union Lectures -> Accounts]
    /\ Project \in [Lectures -> Projects]
    /\ Lecture \in [Slides -> Lectures]
    /\ IsFiniteSet(Records) /\ Purge \notin Records
    /\ Accounts \intersect (Projects \union Lectures \union Slides) = {}
    /\ Projects \intersect (Lectures \union Slides) = {}
    /\ Lectures \intersect Slides = {}
    /\ {MaxTime, MaxSweeps, MaxDisturbances} \subseteq Nat

Live == 0

VARIABLES
    stamp,      \* [Records -> deletedAt, or Live]
    gone,       \* records removed for good
    calls,      \* [Requests -> Seq of calls still to make]
    root,       \* [Requests -> what the request is about, <<>> without one]
    now,        \* the clock
    sweeps, disturbances,
    killer,     \* history: [Records -> the record whose deletion stamped it]
    own,        \* history: records deleted on their own, in a place that was live
    mixed,      \* history: records under two cascades at once, or half of one
    adrift      \* history: records a restore left live below a deleted one

vars == <<stamp, gone, calls, root, now, sweeps, disturbances, killer, own, mixed, adrift>>

OwnedBy(a, set) == {x \in set : Owner[x] = a}
LecturesIn(p) == {l \in Lectures : Project[l] = p}
SlidesOf(ls) == {s \in Slides : Lecture[s] \in ls}

Stored == Records \ gone
Alive == {x \in Stored : stamp[x] = Live}
Dead == Records \ Alive

\* What lies below a record, itself included, and what lies above it.
Below(x) ==
    CASE x \in Slides -> {x}
      [] x \in Lectures -> {x} \union SlidesOf({x})
      [] x \in Projects -> {x} \union LecturesIn(x) \union SlidesOf(LecturesIn(x))
      [] x \in Accounts ->
           LET ps == OwnedBy(x, Projects)
               ls == OwnedBy(x, Lectures) \union UNION {LecturesIn(p) : p \in ps}
           IN  {x} \union ps \union ls \union SlidesOf(ls)
Above(x) == {y \in Records \ {x} : x \in Below(y)}

Call(do, on, at) == [do |-> do, on |-> on, at |-> at]
Active == {r \in Requests : root[r] # <<>>}
About(r) == root[r][2]
Does(r, what) == r \in Active /\ root[r][1] = what

TypeOK ==
    /\ stamp \in [Records -> 0..MaxTime] /\ gone \subseteq Records
    /\ now \in 0..MaxTime /\ sweeps \in 0..MaxSweeps
    /\ disturbances \in 0..MaxDisturbances
    /\ killer \in [Records -> Records]
    /\ UNION {own, mixed, adrift} \subseteq Records
    /\ \A r \in Requests :
          /\ r \in Active => root[r] \in {"delete", "restore", "purge"} \X
                                         (Records \union {Purge})
          /\ r \notin Active => calls[r] = <<>>
          /\ \A i \in DOMAIN calls[r] :
                calls[r][i].on \subseteq Records /\ calls[r][i].at \in 0..MaxTime + 1

Init ==
    /\ stamp = [x \in Records |-> Live] /\ gone = {}
    /\ calls = [r \in Requests |-> <<>>] /\ root = [r \in Requests |-> <<>>]
    /\ now = 0 /\ sweeps = 0 /\ disturbances = 0
    /\ killer = [x \in Records |-> x]
    /\ own = {} /\ mixed = {} /\ adrift = {}

-----------------------------------------------------------------------------
(* Requests.                                                               *)

\* Two cascades that touch one record, unless both only ever remove.
Clashing(what, x) ==
    UNION {IF what = "purge" THEN Below(About(q))
           ELSE IF About(q) = Purge THEN Below(x) ELSE Below(x) \intersect Below(About(q)) :
           q \in {q \in Active : what = "restore" \/ Does(q, "restore")
                                 \/ (what = "delete" /\ Does(q, "delete"))}}

Disturbs(xs) ==
    /\ mixed' = mixed \union xs
    /\ disturbances' = disturbances + (IF xs = {} THEN 0 ELSE 1)
    /\ disturbances' <= MaxDisturbances

Begin(r, what, x, first) ==
    /\ root' = [root EXCEPT ![r] = <<what, x>>]
    /\ calls' = [calls EXCEPT ![r] = <<first>>]
    /\ Disturbs(Clashing(what, x))
    /\ UNCHANGED <<stamp, gone, now, killer, adrift>>

\* The record is loaded and live; deleting begins some awaits later.
Delete(r, x) ==
    /\ r \notin Active /\ now < MaxTime
    /\ x \in Alive
    /\ x \in Slides => Lecture[x] \in Alive
    /\ Begin(r, "delete", x, Call("delete", {x}, 0))
    /\ own' = IF Above(x) \subseteq Alive THEN own \union {x} ELSE own
    /\ UNCHANGED sweeps

Restore(r, x) ==
    /\ r \notin Active
    /\ x \in Dead \ (gone \union Slides)
    /\ Begin(r, "restore", x, Call("restore", {x}, 0))
    /\ own' = own \ {x}
    /\ UNCHANGED sweeps

\* Daily.  What expires was deleted long before any deletion now in progress.
Sweep(r) ==
    /\ r \notin Active
    /\ sweeps < MaxSweeps /\ sweeps' = sweeps + 1
    /\ \E cutoff \in 1..now + 1 :
          /\ \A q \in Requests : Does(q, "delete") =>
                \A i \in DOMAIN calls[q] :
                   calls[q][i].at # 0 => cutoff <= calls[q][i].at
          /\ Begin(r, "purge", Purge, Call("users", {}, cutoff))
    /\ UNCHANGED own

\* The call ends, and then come `next` and what was to come anyway.
Then(r, next) ==
    LET rest == next \o Tail(calls[r])
        done == rest = <<>>
        under == {x \in Below(About(r)) : Above(x) \intersect Dead' # {}}
    IN  /\ calls' = [calls EXCEPT ![r] = rest]
        /\ root' = IF done THEN [root EXCEPT ![r] = <<>>] ELSE root
        /\ adrift' = (IF done /\ Does(r, "restore") THEN adrift \union under ELSE adrift)
                       \intersect Alive'

Each(do, xs, at) == [i \in 1..Cardinality(xs) |-> Call(do, {SetToSeq(xs)[i]}, at)]

At(r, do) == r \in Active /\ Head(calls[r]).do = do
Of(r) == Head(calls[r])
Target(r) == CHOOSE x \in Of(r).on : TRUE

\* The call goes on with the records it has not come to.
Others(r, x, left) ==
    IF left = {x} THEN <<>> ELSE <<[Of(r) EXCEPT !.on = left \ {x}]>>

RecordsUnchanged == UNCHANGED <<stamp, gone, now, killer>>
CountsUnchanged == UNCHANGED <<sweeps, disturbances, own, mixed>>

-----------------------------------------------------------------------------
(* The deletion.                                                           *)

\* Mutant: the lectures of others in a project are left to their owners.
StampedWithProjectOfOwner(p) == OwnedBy(Owner[p], LecturesIn(p))

StampedWithProject(p) == LecturesIn(p)

\* The date is read and the live lectures are looked up.  Lectures are stamped
\* whatever was found, the contents only of those that were.
DeleteCalls(x, at) ==
    CASE x \in Slides -> <<Call("save", {x}, at)>>
      [] x \in Lectures -> <<Call("stamp", SlidesOf({x}), at), Call("save", {x}, at)>>
      [] x \in Projects ->
           <<Call("stamp", SlidesOf(LecturesIn(x) \intersect Alive), at),
             Call("stamp", StampedWithProject(x), at), Call("stamp", {x}, at)>>
      [] x \in Accounts ->
           <<Call("stamp", SlidesOf(OwnedBy(x, Lectures) \intersect Alive), at),
             Call("stamp", OwnedBy(x, Lectures), at),
             Call("projects", {x}, 0), Call("stamp", {x}, at)>>

DeleteStarts(r) ==
    /\ At(r, "delete")
    /\ now < MaxTime /\ now' = now + 1
    /\ UNCHANGED <<stamp, gone, killer>> /\ CountsUnchanged
    /\ Then(r, DeleteCalls(Target(r), now'))

DeleteProjects(r) ==
    /\ At(r, "projects")
    /\ RecordsUnchanged /\ CountsUnchanged
    /\ Then(r, Each("delete", OwnedBy(Target(r), Projects) \intersect Alive, 0))

\* updateMany skips what is stamped already.
Stampable(xs) == xs \intersect Alive

Stamp(r, x) ==
    /\ stamp' = [stamp EXCEPT ![x] = Of(r).at]
    /\ killer' = [killer EXCEPT ![x] = About(r)]
    /\ UNCHANGED <<gone, now>> /\ CountsUnchanged

\* One record of an updateMany, or its end.
StampMany(r) ==
    /\ At(r, "stamp")
    /\ \/ \E x \in Stampable(Of(r).on) :
             /\ Stamp(r, x)
             /\ Then(r, Others(r, x, Stampable(Of(r).on)))
       \/ /\ Stampable(Of(r).on) = {}
          /\ RecordsUnchanged /\ CountsUnchanged
          /\ Then(r, <<>>)

\* save() of a loaded document has no filter, but for one that is no more.
Save(r) ==
    /\ At(r, "save")
    /\ IF Target(r) \in Stored THEN Stamp(r, Target(r))
       ELSE RecordsUnchanged /\ CountsUnchanged
    /\ Then(r, <<>>)

-----------------------------------------------------------------------------
(* The restore.                                                            *)

\* Mutant: only what was stamped after the root.
CameAfter(x, at) == x \in Stored /\ stamp[x] > at

CameWith(x, at) == x \in Stored /\ stamp[x] # Live /\ stamp[x] >= at

WithRoot(xs, at) == {x \in xs : CameWith(x, at)}

RestoreCalls(x, at) ==
    CASE x \in Lectures -> <<Call("revive", SlidesOf({x}), at)>>
      [] x \in Projects -> Each("restore", WithRoot(LecturesIn(x), at), 0)
      [] x \in Accounts -> Append(Each("restore", WithRoot(OwnedBy(x, Lectures), at), 0),
                                  Call("restoreProjects", {x}, at))

\* What is live or removed by now is left alone.  The root itself comes last.
RestoreStarts(r) ==
    /\ At(r, "restore")
    /\ RecordsUnchanged /\ CountsUnchanged
    /\ LET x == Target(r)
       IN  Then(r, IF x \in Alive \union gone THEN <<>>
                   ELSE Append(RestoreCalls(x, stamp[x]), Call("revive", {x}, 0)))

RestoreProjects(r) ==
    /\ At(r, "restoreProjects")
    /\ RecordsUnchanged /\ CountsUnchanged
    /\ Then(r, Each("restore", WithRoot(OwnedBy(Target(r), Projects), Of(r).at), 0))

Revivable(r) == WithRoot(Of(r).on, Of(r).at)

Revive(r) ==
    /\ At(r, "revive")
    /\ \/ \E x \in Revivable(r) :
             /\ stamp' = [stamp EXCEPT ![x] = Live]
             /\ killer' = [killer EXCEPT ![x] = x]
             /\ UNCHANGED <<gone, now>>
             /\ Then(r, Others(r, x, Revivable(r)))
       \/ /\ Revivable(r) = {}
          /\ RecordsUnchanged
          /\ Then(r, <<>>)
    /\ CountsUnchanged

-----------------------------------------------------------------------------
(* The purge: accounts, then projects, then lectures, then what lies in      *)
(* lectures that are live.                                                 *)

Expired(xs, cutoff) ==
    {x \in xs \intersect Stored : stamp[x] # Live /\ stamp[x] < cutoff}

PurgeLooks(r) ==
    /\ r \in Active
    /\ RecordsUnchanged /\ CountsUnchanged
    /\ LET cutoff == Of(r).at
       IN  \/ /\ At(r, "users")
              /\ Then(r, Append(Each("purge", Expired(Accounts, cutoff), 0),
                                Call("expiredProjects", {}, cutoff)))
           \/ /\ At(r, "expiredProjects")
              /\ Then(r, Append(Each("purge", Expired(Projects, cutoff), 0),
                                Call("expiredLectures", {}, cutoff)))
           \/ /\ At(r, "expiredLectures")
              /\ Then(r, Append(Each("purge", Expired(Lectures, cutoff), 0),
                                Call("expiredSlides", {}, cutoff)))
           \/ /\ At(r, "expiredSlides")
              /\ Then(r, <<Call("drop", Expired(Slides, cutoff), 0)>>)

\* Lectures are found with their tombstones, and by whose they are, live or not.
PurgeCalls(x) ==
    CASE x \in Lectures -> <<Call("drop", SlidesOf({x}), 0), Call("drop", {x}, 0)>>
      [] x \in Projects -> <<Call("drop", SlidesOf(LecturesIn(x)), 0),
                             Call("drop", LecturesIn(x), 0), Call("drop", {x}, 0)>>
      [] x \in Accounts -> <<Call("drop", SlidesOf(OwnedBy(x, Lectures)), 0),
                             Call("drop", OwnedBy(x, Lectures), 0),
                             Call("purgeProjects", {x}, 0), Call("drop", {x}, 0)>>

PurgeStarts(r) ==
    /\ At(r, "purge")
    /\ RecordsUnchanged /\ CountsUnchanged
    /\ Then(r, PurgeCalls(Target(r)))

PurgeProjects(r) ==
    /\ At(r, "purgeProjects")
    /\ RecordsUnchanged /\ CountsUnchanged
    /\ Then(r, Each("purge", OwnedBy(Target(r), Projects) \intersect Stored, 0))

\* deleteMany is not filtered by the plugin.
Drop(r) ==
    /\ At(r, "drop")
    /\ gone' = gone \union Of(r).on
    /\ stamp' = [x \in Records |-> IF x \in Of(r).on THEN Live ELSE stamp[x]]
    /\ killer' = [x \in Records |-> IF x \in Of(r).on THEN x ELSE killer[x]]
    /\ own' = own \ Of(r).on /\ mixed' = mixed \ Of(r).on
    /\ UNCHANGED <<now, sweeps, disturbances>>
    /\ Then(r, <<>>)

\* A call is rejected, or the process stops.
Die(r) ==
    /\ r \in Active
    /\ root' = [root EXCEPT ![r] = <<>>] /\ calls' = [calls EXCEPT ![r] = <<>>]
    /\ Disturbs(IF About(r) = Purge THEN {} ELSE Below(About(r)))
    /\ UNCHANGED <<stamp, gone, now, sweeps, killer, own, adrift>>

-----------------------------------------------------------------------------

Next ==
    \E r \in Requests :
       \/ \E x \in Records : Delete(r, x) \/ Restore(r, x)
       \/ DeleteStarts(r) \/ DeleteProjects(r) \/ StampMany(r) \/ Save(r)
       \/ RestoreStarts(r) \/ RestoreProjects(r) \/ Revive(r)
       \/ Sweep(r) \/ PurgeLooks(r) \/ PurgeStarts(r) \/ PurgeProjects(r) \/ Drop(r)
       \/ Die(r)

Spec == Init /\ [][Next]_vars

-----------------------------------------------------------------------------
(* Properties.                                                             *)

\* Between cascades: whatever is deleted was deleted by something that is still
\* deleted, so a restore brings back all its deletion took ("so a restore brings
\* everything back"); and what was deleted on its own before stays deleted ("a
\* child deleted earlier stays deleted").  In whatever order the levels are
\* deleted and restored, for what no two cascades worked on at once.
RestoreIsExact ==
    /\ TypeOK
    /\ Active = {} =>
         \A x \in Stored \ mixed :
            /\ x \in Dead => killer[x] \in Dead
            /\ x \in own => x \in Dead

\* The purge removes nothing that is live ("permanently removes every record
\* tombstoned before the retention cutoff"), unless it was restored into a
\* project or an account that is deleted.
LiveIsNotPurged ==
    [][\A x \in gone' \ gone : x \in Alive => x \in mixed \union adrift]_vars
=============================================================================
