------------------------ MODULE DeletionCascadesProof ------------------------
(***************************************************************************)
(* Proofs about the cascades of deletion, restore and purge, for any tree of *)
(* accounts, projects, lectures and slides and any number of requests.       *)
(*                                                                         *)
(* A request is a stack of calls and a step replaces the call on top of one. *)
(* So a part of the invariant is kept in two halves: what the new calls of    *)
(* the request that moved come to, and that its step passes for the others.  *)
(***************************************************************************)
EXTENDS DeletionCascades, FiniteSetTheorems, SequenceTheorems, TLAPS

-----------------------------------------------------------------------------
(* The inductive invariant.                                                *)

DeleteDo == {"delete", "projects", "stamp", "save"}
RestoreDo == {"restore", "restoreProjects", "revive"}
LookDo == {"users", "expiredProjects", "expiredLectures", "expiredSlides"}
PurgeDo == LookDo \union {"purge", "purgeProjects", "drop"}
CallRecords == [do : DeleteDo \union RestoreDo \union PurgeDo,
                on : SUBSET Records, at : 0..MaxTime + 1]

\* A call that is about one record.
Names(c, set) == \E x \in set : c.on = {x}

\* The calls of each kind of request, at time t.
DeleteCall(c, t) ==
    /\ c.do \in DeleteDo /\ c.at <= t
    /\ c.do = "projects" => Names(c, Accounts)
    /\ c.do \in {"delete", "save"} => Names(c, Records)
    /\ c.do \in {"stamp", "save"} => c.at # 0
RestoreCall(c, t) ==
    /\ c.do \in RestoreDo /\ c.at <= t
    /\ c.do = "restoreProjects" => Names(c, Accounts)
    /\ c.do = "restore" => Names(c, Records \ Slides)
PurgeCall(c, t) ==
    /\ c.do \in PurgeDo /\ c.at <= t + 1
    /\ c.do = "purgeProjects" => Names(c, Accounts)
    /\ c.do = "purge" => Names(c, Records \ Slides)

\* A request makes the calls of its kind, on what lies below the record it is about.
CallFits(r, c, t) ==
    \/ Does(r, "delete") /\ DeleteCall(c, t) /\ c.on \subseteq Below(About(r))
    \/ Does(r, "restore") /\ RestoreCall(c, t) /\ c.on \subseteq Below(About(r))
    \/ Does(r, "purge") /\ PurgeCall(c, t)

RequestShape(r) ==
    /\ r \in Active =>
          /\ calls[r] # <<>>
          /\ \/ root[r] = <<"purge", Purge>>
             \/ \E x \in Records : root[r] = <<"delete", x>> \/ root[r] = <<"restore", x>>
          /\ \A i \in DOMAIN calls[r] : CallFits(r, calls[r][i], now)
    /\ r \notin Active => calls[r] = <<>>

CascadeShape ==
    /\ stamp \in [Records -> 0..MaxTime] /\ gone \in SUBSET Records
    /\ now \in 0..MaxTime /\ sweeps \in 0..MaxSweeps
    /\ disturbances \in 0..MaxDisturbances
    /\ killer \in [Records -> Records]
    /\ own \in SUBSET Records /\ mixed \in SUBSET Records /\ adrift \in SUBSET Records
    /\ calls \in [Requests -> Seq(CallRecords)]
    /\ DOMAIN root = Requests
    /\ \A x \in Records : stamp[x] <= now /\ x \in Below(killer[x])
    /\ \A r \in Requests : RequestShape(r)

\* What two requests work on is mixed, unless both only remove; and so is all below it.
MixedInv ==
    /\ \A q, r \in Active : q # r /\ ~Does(q, "purge") /\ ~Does(r, "purge") =>
          Below(About(q)) \intersect Below(About(r)) \subseteq mixed \union gone
    /\ \A q, r \in Active : Does(q, "restore") /\ Does(r, "purge") =>
          Below(About(q)) \subseteq mixed \union gone
    /\ \A x \in mixed : Below(x) \subseteq mixed \union gone

\* What a call will have removed by the time it is over.
Removes(c) == c.do \in {"stamp", "save", "drop"}
Reach(c) ==
    CASE Removes(c) -> c.on
      [] c.do \in {"delete", "purge"} -> UNION {Below(x) : x \in c.on}
      [] c.do \in {"projects", "purgeProjects"} ->
            UNION {Below(p) : p \in UNION {OwnedBy(x, Projects) : x \in c.on}}
      [] OTHER -> {}

\* Whatever a call removes, what lies below it has been removed (it is in base), or is by an
\* earlier call.
BottomUp(s, base) ==
    \A i \in DOMAIN s : Removes(s[i]) => \A x \in s[i].on : \A y \in Below(x) \ {x} :
        y \in base \/ \E j \in 1..(i - 1) : y \in Reach(s[j])

Restoring == UNION {Below(About(q)) : q \in {r \in Active : Does(r, "restore")}}
Excepted == UNION {Dead, mixed, adrift}

\* What lies below a deleted record is deleted, but for what is being restored.  A deletion
\* comes to what lies below first, and a purge finds nothing else.
DeadInv ==
    /\ \A x \in Dead : Below(x) \subseteq Excepted \union Restoring
    /\ \A x \in gone : Below(x) \subseteq gone
    /\ \A r \in Requests :
          /\ Does(r, "delete") => BottomUp(calls[r], Excepted)
          /\ Does(r, "purge") =>
                /\ BottomUp(calls[r], gone)
                /\ \A i \in DOMAIN calls[r] : \A x \in Reach(calls[r][i]) :
                      Below(x) \subseteq Excepted

-----------------------------------------------------------------------------
\* The deletion of k comes to x by way of this record.
Via(x, k) ==
    IF x \in Slides THEN Lecture[x]
    ELSE IF x \in Lectures /\ Owner[x] # k THEN Project[x] ELSE k

Settled == Stored \ mixed
Stamps(c, x) == c.do \in {"stamp", "save"} /\ x \in c.on

\* Calls that are about to stamp x, and no later than at.
WillStamp(s, x, from, at) == \E j \in from..Len(s) : Stamps(s[j], x) /\ s[j].at <= at

\* What a deletion stamped can be found from the record it was about: the record on the
\* way is deleted by it, and not later than what lies below; or it is about to be.
ChainInv ==
    \A x \in Settled : x \in Dead /\ killer[x] # x =>
        LET k == killer[x]
            y == Via(x, k)
        IN  \/ y \in Dead /\ (y = k \/ killer[y] = k) /\ stamp[y] <= stamp[x]
            \/ /\ y \in Alive
               /\ \E r \in Active : Does(r, "delete") /\ About(r) = k /\ WillStamp(calls[r], y, 1, stamp[x])

\* The record a deletion is about comes last; before it there are calls that stamp, and then
\* deletions of an account's projects.  No two calls are about the same record.
Ordered(s, k) ==
    LET n == Len(s)
    IN  /\ s[n].on = {k} /\ s[n].do \in {"delete", "stamp", "save"}
        /\ s[n].do = "delete" => n = 1
        /\ \A i \in 1..(n - 1) :
              /\ s[i].do \in {"stamp", "delete", "projects"}
              /\ s[i].do = "stamp" => k \notin s[i].on /\ s[n].at <= s[i].at
              /\ s[i].do = "delete" => /\ \E p \in Projects : s[i].on = {p} /\ Owner[p] = k
                                        /\ \A j \in i..(n - 1) : s[j].do = "delete"
              /\ s[i].do = "projects" => s[i].on = {k} /\ i = n - 1
        /\ \A i, j \in DOMAIN s : i # j /\ s[i].do # "projects" /\ s[j].do # "projects" =>
              s[i].on \intersect s[j].on = {}
DeletionOrder(r) == Ordered(calls[r], About(r))

\* What is on the way to a record it stamps is live, and stamped later with no later date.
DeletionLeads(r) ==
    LET s == calls[r]
        k == About(r)
    IN  /\ k \in Settled => k \in Alive
        /\ \A i \in DOMAIN s : \A x \in Settled \intersect Alive : Stamps(s[i], x) /\ x # k =>
              Via(x, k) \in Alive /\ WillStamp(s, Via(x, k), i + 1, s[i].at)
        /\ \A i \in DOMAIN s : s[i].do = "delete" => s[i].on \intersect Settled \subseteq Alive

DeletionInv == \A r \in Active : Does(r, "delete") => DeletionOrder(r) /\ DeletionLeads(r)

\* What a restore has to bring back before y: an earlier call finds it, stamped at t.
Children(y) == {x \in Settled \intersect Dead : killer[x] # x /\ Via(x, killer[x]) = y}
Finds(c, x, t) ==
    \/ c.do = "revive" /\ x \in c.on /\ c.at <= t
    \/ c.do = "restore" /\ x \in c.on
    \/ c.do = "restoreProjects" /\ x \in Projects /\ Owner[x] \in c.on /\ c.at <= t
RestoreFinds(r) ==
    \A i \in DOMAIN calls[r] : calls[r][i].do = "revive" =>
        \A y \in calls[r][i].on : \A x \in Children(y) :
            \E j \in 1..(i - 1) : Finds(calls[r][j], x, stamp[x])
RestoreInv == \A r \in Active : Does(r, "restore") => RestoreFinds(r)

\* A request leaves x as it was deleted: a deletion of what is above stamps later, and no
\* restore finds it.
Spares(r, x) ==
    \A i \in DOMAIN calls[r] :
        /\ Does(r, "delete") /\ x \in Below(About(r)) /\ calls[r][i].at # 0 =>
              stamp[x] < calls[r][i].at
        /\ Does(r, "restore") => ~Finds(calls[r][i], x, stamp[x])

\* What was deleted on its own was deleted below what was live, and is deleted before
\* anything above it.
OwnHolds(x) ==
    /\ x \in Alive => /\ \E r \in Active : Does(r, "delete") /\ About(r) = x
                      /\ Above(x) \subseteq Alive
    /\ x \in Dead => /\ \A y \in Above(x) \intersect Dead : stamp[x] < stamp[y]
                     /\ \A r \in Active : Spares(r, x)
OwnInv == \A x \in own \intersect Settled : OwnHolds(x)

CascadeIInv ==
    CascadeShape /\ MixedInv /\ DeadInv /\ ChainInv /\ DeletionInv /\ RestoreInv /\ OwnInv

-----------------------------------------------------------------------------
(* What lies below a record.                                               *)

LEMMA KindsAreApart ==
    /\ Records = Accounts \union Projects \union Lectures \union Slides
    /\ \A x \in Accounts : x \notin Projects /\ x \notin Lectures /\ x \notin Slides
    /\ \A x \in Projects : x \notin Lectures /\ x \notin Slides
    /\ \A x \in Lectures : x \notin Slides
    /\ \A x \in Projects \union Lectures : Owner[x] \in Accounts
    /\ \A x \in Lectures : Project[x] \in Projects
    /\ \A x \in Slides : Lecture[x] \in Lectures
    /\ Purge \notin Records
    BY CascadeAssumption DEF Records

LEMMA BelowSlide == \A x \in Slides : \A y : y \in Below(x) <=> y = x
    BY KindsAreApart DEF Below

LEMMA BelowLecture ==
    \A x \in Lectures : \A y :
        y \in Below(x) <=> y = x \/ (y \in Slides /\ Lecture[y] = x)
    BY KindsAreApart DEF Below, SlidesOf

LEMMA BelowProject ==
    \A x \in Projects : \A y :
        y \in Below(x) <=>
            \/ y = x
            \/ y \in Lectures /\ Project[y] = x
            \/ y \in Slides /\ Project[Lecture[y]] = x
<1> SUFFICES ASSUME NEW x \in Projects, NEW y
             PROVE  y \in Below(x) <=>
                        \/ y = x
                        \/ y \in Lectures /\ Project[y] = x
                        \/ y \in Slides /\ Project[Lecture[y]] = x
    OBVIOUS
<1>1. Below(x) = {x} \union LecturesIn(x) \union SlidesOf(LecturesIn(x))
    BY KindsAreApart DEF Below
<1>2. y \in LecturesIn(x) <=> y \in Lectures /\ Project[y] = x
    BY DEF LecturesIn
<1>3. y \in SlidesOf(LecturesIn(x)) <=> y \in Slides /\ Project[Lecture[y]] = x
    BY KindsAreApart DEF LecturesIn, SlidesOf
<1> QED
    BY <1>1, <1>2, <1>3

LEMMA BelowAccount ==
    \A x \in Accounts : \A y :
        y \in Below(x) <=>
            \/ y = x
            \/ y \in Projects /\ Owner[y] = x
            \/ y \in Lectures /\ (Owner[y] = x \/ Owner[Project[y]] = x)
            \/ /\ y \in Slides
               /\ Owner[Lecture[y]] = x \/ Owner[Project[Lecture[y]]] = x
<1> SUFFICES ASSUME NEW x \in Accounts, NEW y
             PROVE  y \in Below(x) <=>
                        \/ y = x
                        \/ y \in Projects /\ Owner[y] = x
                        \/ y \in Lectures /\ (Owner[y] = x \/ Owner[Project[y]] = x)
                        \/ /\ y \in Slides
                           /\ Owner[Lecture[y]] = x \/ Owner[Project[Lecture[y]]] = x
    OBVIOUS
<1> DEFINE ps == OwnedBy(x, Projects)
           ls == OwnedBy(x, Lectures) \union UNION {LecturesIn(p) : p \in ps}
<1>1. Below(x) = {x} \union ps \union ls \union SlidesOf(ls)
    BY KindsAreApart DEF Below
<1>2. \A l : l \in ls <=> l \in Lectures /\ (Owner[l] = x \/ Owner[Project[l]] = x)
    BY KindsAreApart DEF OwnedBy, LecturesIn
<1>3. \A p : p \in ps <=> p \in Projects /\ Owner[p] = x
    BY DEF OwnedBy
<1>4. \A s : s \in SlidesOf(ls) <=>
        s \in Slides /\ (Owner[Lecture[s]] = x \/ Owner[Project[Lecture[s]]] = x)
    BY <1>2, KindsAreApart DEF SlidesOf
<1> QED
    BY <1>1, <1>2, <1>3, <1>4

LEMMA BelowItself == \A x \in Records : x \in Below(x) /\ Below(x) \subseteq Records
<1> SUFFICES ASSUME NEW x \in Records
             PROVE  x \in Below(x) /\ \A y \in Below(x) : y \in Records
    OBVIOUS
<1>1. CASE x \in Slides
    BY <1>1, BelowSlide
<1>2. CASE x \in Lectures
    BY <1>2, KindsAreApart, BelowLecture
<1>3. CASE x \in Projects
    BY <1>3, KindsAreApart, BelowProject
<1>4. CASE x \in Accounts
    BY <1>4, KindsAreApart, BelowAccount
<1> QED
    BY <1>1, <1>2, <1>3, <1>4, KindsAreApart

LEMMA BelowIsTransitive ==
    \A x \in Records : \A y \in Below(x) : Below(y) \subseteq Below(x)
<1> SUFFICES ASSUME NEW x \in Records, NEW y \in Below(x), NEW z \in Below(y)
             PROVE  z \in Below(x)
    OBVIOUS
<1>1. CASE x \in Slides
    BY <1>1, BelowSlide
<1>2. CASE x \in Lectures
    BY <1>2, KindsAreApart, BelowSlide, BelowLecture
<1>3. CASE x \in Projects
    BY <1>3, KindsAreApart, BelowSlide, BelowLecture, BelowProject
<1>4. CASE x \in Accounts
    BY <1>4, KindsAreApart, BelowSlide, BelowLecture, BelowProject, BelowAccount
<1> QED
    BY <1>1, <1>2, <1>3, <1>4, KindsAreApart

\* Two records are not below one another.
LEMMA BelowIsAntisymmetric ==
    \A x, y \in Records : x \in Below(y) /\ y \in Below(x) => x = y
    BY KindsAreApart, BelowSlide, BelowLecture, BelowProject, BelowAccount

-----------------------------------------------------------------------------
(* Each makes one call for every record of a set.                          *)

\* The calls are listed in some order.
Lists(do, xs, at, n, f) ==
    /\ n \in Nat /\ f \in [1..n -> xs]
    /\ \A x \in xs : \E i \in 1..n : f[i] = x
    /\ \A i, j \in 1..n : f[i] = f[j] => i = j
    /\ Each(do, xs, at) = [i \in 1..n |-> Call(do, {f[i]}, at)]

LEMMA EachOrder ==
    ASSUME NEW do, NEW at, NEW xs \in SUBSET Records
    PROVE  \E n, f : Lists(do, xs, at, n, f)
<1> DEFINE n == Cardinality(xs)
           f == SetToSeq(xs)
<1>1. IsFiniteSet(xs)
    BY CascadeAssumption, FS_Subset
<1>2. n \in Nat /\ ExistsBijection(1..n, xs)
    BY <1>1, FS_CardinalityType
<1>3. PICK g : g \in Bijection(1..n, xs)
    BY <1>2 DEF ExistsBijection
<1>4. g \in [1..n -> xs] /\ IsInjective(g)
    BY <1>3 DEF Bijection, Injection
<1>5. f \in [1..n -> xs] /\ IsInjective(f)
    BY <1>4 DEF SetToSeq
<1>6. f \in Injection(1..n, xs)
    BY <1>5 DEF Injection
<1>7. IsFiniteSet(1..n) /\ Cardinality(1..n) = n
    BY <1>2, FS_Interval
<1>8. f \in Surjection(1..n, xs)
    BY <1>1, <1>6, <1>7, FS_Injection
<1>9. \A x \in xs : \E i \in 1..n : f[i] = x
    BY <1>8 DEF Surjection
<1>10. \A i, j \in 1..n : f[i] = f[j] => i = j
    BY <1>5 DEF IsInjective
<1> HIDE DEF f
<1>11. Each(do, xs, at) = [i \in 1..n |-> Call(do, {f[i]}, at)]
    BY DEF Each, f
<1> HIDE DEF n
<1>12. Lists(do, xs, at, n, f)
    BY <1>2, <1>5, <1>9, <1>10, <1>11 DEF Lists
<1> QED
    BY <1>12

LEMMA EachIs ==
    ASSUME NEW do, NEW at, NEW xs \in SUBSET Records
    PROVE  /\ \A T : (\A x \in xs : Call(do, {x}, at) \in T) => Each(do, xs, at) \in Seq(T)
           /\ \A i \in DOMAIN Each(do, xs, at) :
                 \E x \in xs : Each(do, xs, at)[i] = Call(do, {x}, at)
           /\ \A x \in xs : \E i \in DOMAIN Each(do, xs, at) :
                 Each(do, xs, at)[i] = Call(do, {x}, at)
<1>1. PICK n, f : Lists(do, xs, at, n, f)
    BY EachOrder
<1>2. DOMAIN Each(do, xs, at) = 1..n
    BY <1>1 DEF Lists
<1>3. \A i \in 1..n : Each(do, xs, at)[i] = Call(do, {f[i]}, at) /\ f[i] \in xs
    BY <1>1 DEF Lists
<1>4. ASSUME NEW T, \A x \in xs : Call(do, {x}, at) \in T
      PROVE  Each(do, xs, at) \in Seq(T)
    <2>1. \A i \in 1..n : Call(do, {f[i]}, at) \in T
        BY <1>3, <1>4
    <2> QED
        BY <1>1, <2>1, IsASeq DEF Lists
<1>5. \A i \in 1..n : \E x \in xs : Each(do, xs, at)[i] = Call(do, {x}, at)
    BY <1>3
<1>6. ASSUME NEW x \in xs
      PROVE  \E i \in 1..n : Each(do, xs, at)[i] = Call(do, {x}, at)
    <2>1. PICK i \in 1..n : f[i] = x
        BY <1>1 DEF Lists
    <2> QED
        BY <1>3, <2>1
<1> QED
    BY <1>2, <1>4, <1>5, <1>6

\* No two of them are about the same record.
LEMMA EachApart ==
    ASSUME NEW do, NEW at, NEW xs \in SUBSET Records,
           NEW i \in DOMAIN Each(do, xs, at), NEW j \in DOMAIN Each(do, xs, at), i # j
    PROVE  Each(do, xs, at)[i].on \intersect Each(do, xs, at)[j].on = {}
<1>1. PICK n, f : Lists(do, xs, at, n, f)
    BY EachOrder
<1>2. i \in 1..n /\ j \in 1..n /\ f[i] # f[j]
    BY <1>1 DEF Lists
<1>3. Each(do, xs, at)[i] = Call(do, {f[i]}, at) /\ Each(do, xs, at)[j] = Call(do, {f[j]}, at)
    BY <1>1, <1>2 DEF Lists
<1>4. Call(do, {f[i]}, at).on = {f[i]} /\ Call(do, {f[j]}, at).on = {f[j]}
    BY DEF Call
<1> QED
    BY <1>2, <1>3, <1>4

-----------------------------------------------------------------------------
(* Requests and their calls.                                               *)

LEMMA RequestIs ==
    ASSUME CascadeShape, NEW r \in Active
    PROVE  /\ \/ /\ Does(r, "purge") /\ ~Does(r, "delete") /\ ~Does(r, "restore")
                 /\ About(r) = Purge /\ root[r] = <<"purge", Purge>>
              \/ /\ Does(r, "delete") /\ ~Does(r, "purge") /\ ~Does(r, "restore")
                 /\ About(r) \in Records /\ root[r] = <<"delete", About(r)>>
              \/ /\ Does(r, "restore") /\ ~Does(r, "purge") /\ ~Does(r, "delete")
                 /\ About(r) \in Records /\ root[r] = <<"restore", About(r)>>
           /\ r \in Requests /\ calls[r] \in Seq(CallRecords) /\ calls[r] # <<>>
<1>1. r \in Requests
    BY DEF Active
<1>2. RequestShape(r)
    BY <1>1 DEF CascadeShape
<1>3. CASE root[r] = <<"purge", Purge>>
    BY <1>1, <1>2, <1>3 DEF CascadeShape, RequestShape, Does, About
<1>4. CASE \E x \in Records : root[r] = <<"delete", x>>
    BY <1>1, <1>2, <1>4 DEF CascadeShape, RequestShape, Does, About
<1>5. CASE \E x \in Records : root[r] = <<"restore", x>>
    BY <1>1, <1>2, <1>5 DEF CascadeShape, RequestShape, Does, About
<1> QED
    BY <1>2, <1>3, <1>4, <1>5 DEF RequestShape

LEMMA CallIs ==
    ASSUME CascadeShape, NEW r \in Active, NEW i \in DOMAIN calls[r]
    PROVE  /\ calls[r][i] \in CallRecords /\ CallFits(r, calls[r][i], now)
           /\ calls[r][i].do \in DeleteDo \union RestoreDo \union PurgeDo
           /\ calls[r][i].on \subseteq Records
           /\ calls[r][i].at \in Nat /\ calls[r][i].at \in 0..MaxTime + 1
<1>1. CallFits(r, calls[r][i], now)
    BY RequestIs DEF CascadeShape, RequestShape
<1>2. calls[r][i] \in CallRecords
    BY RequestIs, ElementOfSeq, LenProperties
<1> QED
    BY <1>1, <1>2, CascadeAssumption DEF CallRecords

\* The call a request makes next, and what kind of request makes it.
LEMMA HeadIs ==
    ASSUME CascadeShape, NEW r \in Active
    PROVE  /\ 1 \in DOMAIN calls[r] /\ Of(r) = calls[r][1]
           /\ Of(r) \in CallRecords /\ Of(r).on \subseteq Records
           /\ Of(r).at \in Nat /\ Of(r).at \in 0..MaxTime + 1
           /\ Of(r).do \in DeleteDo =>
                 /\ Does(r, "delete") /\ ~Does(r, "restore") /\ ~Does(r, "purge")
                 /\ About(r) \in Records
                 /\ DeleteCall(Of(r), now) /\ Of(r).on \subseteq Below(About(r))
           /\ Of(r).do \in RestoreDo =>
                 /\ Does(r, "restore") /\ ~Does(r, "delete") /\ ~Does(r, "purge")
                 /\ About(r) \in Records
                 /\ RestoreCall(Of(r), now) /\ Of(r).on \subseteq Below(About(r))
           /\ Of(r).do \in PurgeDo =>
                 /\ Does(r, "purge") /\ ~Does(r, "delete") /\ ~Does(r, "restore")
                 /\ About(r) = Purge
                 /\ PurgeCall(Of(r), now)
<1>1. 1 \in DOMAIN calls[r]
    BY RequestIs, LenProperties, EmptySeq
<1>2. Of(r) = calls[r][1]
    BY DEF Of
<1>3. /\ Of(r) \in CallRecords /\ CallFits(r, Of(r), now) /\ Of(r).on \subseteq Records
      /\ Of(r).at \in Nat /\ Of(r).at \in 0..MaxTime + 1
    BY <1>1, <1>2, CallIs
<1>4. CASE Does(r, "purge")
    BY <1>1, <1>2, <1>3, <1>4, RequestIs
       DEF CallFits, PurgeCall, LookDo, PurgeDo, DeleteDo, RestoreDo
<1>5. CASE Does(r, "delete")
    BY <1>1, <1>2, <1>3, <1>5, RequestIs
       DEF CallFits, DeleteCall, LookDo, PurgeDo, DeleteDo, RestoreDo
<1>6. CASE Does(r, "restore")
    BY <1>1, <1>2, <1>3, <1>6, RequestIs
       DEF CallFits, RestoreCall, LookDo, PurgeDo, DeleteDo, RestoreDo
<1> QED
    BY <1>4, <1>5, <1>6, RequestIs

\* A call about one record has it as its target.
LEMMA TargetIs ==
    ASSUME NEW r \in Active, NEW x, Of(r).on = {x}
    PROVE  Target(r) = x
    BY DEF Target

\* What becomes of a stack when its head is replaced.
GoesOn(s, n) == n \o Tail(s)
LEMMA StackIs ==
    ASSUME NEW s \in Seq(CallRecords), s # <<>>, NEW n \in Seq(CallRecords),
           NEW t, t = GoesOn(s, n)
    PROVE  /\ t \in Seq(CallRecords) /\ Len(t) = Len(n) + Len(s) - 1
           /\ Len(s) \in Nat \ {0} /\ Len(n) \in Nat
           /\ DOMAIN s = 1..Len(s) /\ DOMAIN n = 1..Len(n) /\ DOMAIN t = 1..Len(t)
           /\ \A i \in DOMAIN n : i \in DOMAIN t /\ t[i] = n[i]
           /\ \A j \in 2..Len(s) : Len(n) + j - 1 \in DOMAIN t /\ t[Len(n) + j - 1] = s[j]
<1>1. /\ Tail(s) \in Seq(CallRecords) /\ Len(Tail(s)) = Len(s) - 1
      /\ \A i \in 1..(Len(s) - 1) : Tail(s)[i] = s[i + 1]
    BY HeadTailProperties
<1>2. Len(s) \in Nat \ {0} /\ Len(n) \in Nat /\ DOMAIN s = 1..Len(s) /\ DOMAIN n = 1..Len(n)
    BY LenProperties, EmptySeq
<1>3. /\ t \in Seq(CallRecords) /\ Len(t) = Len(n) + Len(Tail(s))
      /\ \A i \in 1..(Len(n) + Len(Tail(s))) :
            t[i] = IF i <= Len(n) THEN n[i] ELSE Tail(s)[i - Len(n)]
    BY <1>1, ConcatProperties DEF GoesOn
<1>4. DOMAIN t = 1..Len(t) /\ Len(t) = Len(n) + Len(s) - 1
    BY <1>1, <1>2, <1>3, LenProperties
<1>5. \A i \in DOMAIN n : i \in DOMAIN t /\ t[i] = n[i]
    BY <1>1, <1>2, <1>3, <1>4
<1>6. ASSUME NEW j \in 2..Len(s)
      PROVE  Len(n) + j - 1 \in DOMAIN t /\ t[Len(n) + j - 1] = s[j]
    <2> DEFINE i == Len(n) + j - 1
    <2>1. i \in 1..Len(t) /\ ~(i <= Len(n)) /\ i - Len(n) = j - 1 /\ j - 1 \in 1..(Len(s) - 1)
        BY <1>2, <1>4
    <2>2. t[i] = Tail(s)[j - 1]
        BY <1>1, <1>3, <1>4, <2>1
    <2>3. Tail(s)[j - 1] = s[(j - 1) + 1] /\ (j - 1) + 1 = j
        BY <1>1, <2>1
    <2> QED
        BY <1>4, <2>1, <2>2, <2>3
<1> QED
    BY <1>2, <1>3, <1>4, <1>5, <1>6


\* What the end of a call does to the requests.
LEMMA ThenIs ==
    ASSUME CascadeShape, NEW r \in Active, NEW next \in Seq(CallRecords), Then(r, next)
    PROVE  /\ calls' = [calls EXCEPT ![r] = next \o Tail(calls[r])]
           /\ calls'[r] = next \o Tail(calls[r]) /\ calls'[r] \in Seq(CallRecords)
           /\ DOMAIN root' = Requests
           /\ \A q \in Requests \ {r} : calls'[q] = calls[q] /\ root'[q] = root[q]
           /\ \/ calls'[r] # <<>> /\ root'[r] = root[r] /\ r \in Active'
              \/ calls'[r] = <<>> /\ root'[r] = <<>> /\ r \notin Active'
           /\ Active' \ {r} = Active \ {r} /\ Active' \subseteq Active
<1>1. r \in Requests /\ calls[r] \in Seq(CallRecords) /\ calls[r] # <<>> /\ root[r] # <<>>
    BY RequestIs DEF Active
<1> DEFINE rest == next \o Tail(calls[r])
<1>2. rest \in Seq(CallRecords)
    BY <1>1, StackIs DEF GoesOn
<1>3. calls' = [calls EXCEPT ![r] = rest]
    BY DEF Then
<1>4. root' = IF rest = <<>> THEN [root EXCEPT ![r] = <<>>] ELSE root
    BY DEF Then
<1> HIDE DEF rest
<1>5. calls'[r] = rest /\ \A q \in Requests \ {r} : calls'[q] = calls[q]
    BY <1>1, <1>3 DEF CascadeShape
<1>6. DOMAIN root = Requests
    BY DEF CascadeShape
<1>7. DOMAIN root' = Requests /\ \A q \in Requests \ {r} : root'[q] = root[q]
    BY <1>4, <1>6
<1>8. \/ rest # <<>> /\ root'[r] = root[r]
      \/ rest = <<>> /\ root'[r] = <<>>
    BY <1>1, <1>4, <1>6
<1>9. /\ \/ calls'[r] # <<>> /\ root'[r] = root[r] /\ r \in Active'
         \/ calls'[r] = <<>> /\ root'[r] = <<>> /\ r \notin Active'
      /\ Active' \ {r} = Active \ {r} /\ Active' \subseteq Active
    BY <1>1, <1>5, <1>7, <1>8 DEF Active
<1> QED
    BY <1>2, <1>3, <1>5, <1>7, <1>9 DEF rest

LEMMA StackChanges ==
    ASSUME CascadeShape, NEW r \in Active, NEW next \in Seq(CallRecords), Then(r, next)
    PROVE  /\ Len(calls'[r]) = Len(next) + Len(calls[r]) - 1
           /\ Len(calls[r]) \in Nat \ {0} /\ Len(next) \in Nat
           /\ DOMAIN calls[r] = 1..Len(calls[r]) /\ DOMAIN next = 1..Len(next)
           /\ DOMAIN calls'[r] = 1..Len(calls'[r])
           /\ \A i \in DOMAIN next : i \in DOMAIN calls'[r] /\ calls'[r][i] = next[i]
           /\ \A j \in 2..Len(calls[r]) :
                 Len(next) + j - 1 \in DOMAIN calls'[r] /\ calls'[r][Len(next) + j - 1] = calls[r][j]
           /\ \A i \in DOMAIN calls'[r] :
                 \/ i \in DOMAIN next /\ calls'[r][i] = next[i]
                 \/ \E j \in 2..Len(calls[r]) :
                       i = Len(next) + j - 1 /\ calls'[r][i] = calls[r][j]
<1> DEFINE s == calls[r]
           t == calls'[r]
<1>1. s \in Seq(CallRecords) /\ s # <<>>
    BY RequestIs
<1>2. t = GoesOn(s, next)
    BY ThenIs DEF GoesOn
<1> HIDE DEF s, t
<1>3. /\ Len(t) = Len(next) + Len(s) - 1
      /\ Len(s) \in Nat \ {0} /\ Len(next) \in Nat
      /\ DOMAIN s = 1..Len(s) /\ DOMAIN next = 1..Len(next) /\ DOMAIN t = 1..Len(t)
    BY <1>1, <1>2, StackIs
<1>4. \A i \in DOMAIN next : i \in DOMAIN t /\ t[i] = next[i]
    BY <1>1, <1>2, StackIs
<1>5. \A j \in 2..Len(s) : Len(next) + j - 1 \in DOMAIN t /\ t[Len(next) + j - 1] = s[j]
    BY <1>1, <1>2, StackIs
<1>6. ASSUME NEW i \in DOMAIN t, ~(i \in DOMAIN next /\ t[i] = next[i])
      PROVE  \E j \in 2..Len(s) : i = Len(next) + j - 1 /\ t[i] = s[j]
    <2> DEFINE j == i - Len(next) + 1
    <2>1. j \in 2..Len(s) /\ i = Len(next) + j - 1
        BY <1>3, <1>4, <1>6
    <2> QED
        BY <1>5, <2>1
<1> QED
    BY <1>3, <1>4, <1>5, <1>6 DEF s, t

LEMMA FitsLater ==
    ASSUME CascadeShape, NEW r \in Active, NEW i \in DOMAIN calls[r], now \in Nat, now' \in Nat,
           now <= now'
    PROVE  CallFits(r, calls[r][i], now')
<1>1. CallFits(r, calls[r][i], now) /\ calls[r][i].at \in Nat
    BY CallIs
<1>2. calls[r][i].at <= now => calls[r][i].at <= now'
    BY <1>1
<1>3. calls[r][i].at <= now + 1 => calls[r][i].at <= now' + 1
    BY <1>1
<1> QED
    BY <1>1, <1>2, <1>3 DEF CallFits, DeleteCall, RestoreCall, PurgeCall

CallsShape ==
    /\ calls \in [Requests -> Seq(CallRecords)] /\ DOMAIN root = Requests
    /\ \A r \in Requests : RequestShape(r)
RecordsShape ==
    /\ stamp \in [Records -> 0..MaxTime] /\ gone \in SUBSET Records
    /\ now \in 0..MaxTime /\ sweeps \in 0..MaxSweeps
    /\ disturbances \in 0..MaxDisturbances
    /\ killer \in [Records -> Records]
    /\ own \in SUBSET Records /\ mixed \in SUBSET Records /\ adrift \in SUBSET Records
    /\ \A x \in Records : stamp[x] <= now /\ x \in Below(killer[x])

\* A request that goes on as it was keeps its shape.
LEMMA OtherShape ==
    ASSUME CascadeShape, NEW q \in Requests, calls'[q] = calls[q], root'[q] = root[q],
           now' \in Nat, now <= now'
    PROVE  RequestShape(q)'
<1>1. RequestShape(q) /\ now \in Nat
    BY CascadeAssumption DEF CascadeShape
<1>2. q \in Active' <=> q \in Active
    BY DEF Active
<1>3. ASSUME q \in Active, NEW i \in DOMAIN calls[q]
      PROVE  CallFits(q, calls[q][i], now)'
    <2>1. CallFits(q, calls[q][i], now')
        BY <1>1, <1>3, FitsLater
    <2> QED
        BY <1>2, <1>3, <2>1 DEF CallFits, Does, About
<1> QED
    BY <1>1, <1>2, <1>3 DEF RequestShape

LEMMA ThenShape ==
    ASSUME CascadeShape, NEW r \in Active, NEW next \in Seq(CallRecords), Then(r, next),
           now' \in Nat, now <= now',
           \A i \in DOMAIN next : CallFits(r, next[i], now')
    PROVE  CallsShape'
<1>1. r \in Requests /\ calls[r] \in Seq(CallRecords) /\ calls[r] # <<>> /\ now \in Nat
    BY RequestIs, CascadeAssumption DEF CascadeShape
<1>2. calls' \in [Requests -> Seq(CallRecords)]
    BY <1>1, ThenIs DEF CascadeShape
<1>3. \A q \in Requests \ {r} : RequestShape(q)'
    BY ThenIs, OtherShape
<1>4. CASE r \in Active'
    <2>1. root'[r] = root[r] /\ calls'[r] # <<>>
        BY <1>4, ThenIs
    <2>2. ASSUME NEW i \in DOMAIN calls'[r]
          PROVE  CallFits(r, calls'[r][i], now')
        <3>1. CASE i \in DOMAIN next /\ calls'[r][i] = next[i]
            BY <3>1
        <3>2. CASE \E j \in 2..Len(calls[r]) :
                      i = Len(next) + j - 1 /\ calls'[r][i] = calls[r][j]
            <4>1. PICK j \in 2..Len(calls[r]) : calls'[r][i] = calls[r][j]
                BY <3>2
            <4>2. j \in DOMAIN calls[r]
                BY <1>1, LenProperties
            <4> QED
                BY <1>1, <4>1, <4>2, FitsLater
        <3> QED
            BY <3>1, <3>2, StackChanges
    <2>3. \A i \in DOMAIN calls'[r] : CallFits(r, calls[r][i], now)'
        BY <1>4, <2>1, <2>2 DEF CallFits, Does, About
    <2>4. RequestShape(r)
        BY <1>1 DEF CascadeShape
    <2> QED
        BY <1>2, <1>3, <1>4, <2>1, <2>3, <2>4, ThenIs DEF RequestShape, CallsShape
<1>5. CASE r \notin Active'
    BY <1>2, <1>3, <1>5, ThenIs DEF RequestShape, CallsShape
<1> QED
    BY <1>4, <1>5

\* What a restore leaves live below a deleted record is adrift.
LEMMA AdriftIs ==
    ASSUME CascadeShape, NEW r \in Active, NEW next \in Seq(CallRecords), Then(r, next)
    PROVE  /\ adrift' \in SUBSET Records
           /\ adrift' \subseteq Alive' /\ adrift \intersect Alive' \subseteq adrift'
           /\ r \notin Active' /\ Does(r, "restore") =>
                 \A x \in Below(About(r)) \intersect Alive' :
                     Above(x) \intersect Dead' # {} => x \in adrift'
<1> DEFINE rest == next \o Tail(calls[r])
           under == {x \in Below(About(r)) : Above(x) \intersect Dead' # {}}
<1>1. adrift' = (IF rest = <<>> /\ Does(r, "restore") THEN adrift \union under ELSE adrift)
                   \intersect Alive'
    BY DEF Then
<1>2. r \notin Active' => rest = <<>>
    BY ThenIs
<1>3. \A x : x \in Alive' => x \in Records
    BY DEF Alive, Stored
<1> HIDE DEF rest
<1> QED
    BY <1>1, <1>2, <1>3

-----------------------------------------------------------------------------
(* The calls that each call is replaced by.                                *)

LEMMA CallFields ==
    \A do, on, at : /\ Call(do, on, at).do = do
                    /\ Call(do, on, at).on = on
                    /\ Call(do, on, at).at = at
    BY DEF Call

LEMMA CallTyped ==
    ASSUME NEW do \in DeleteDo \union RestoreDo \union PurgeDo, NEW on \in SUBSET Records,
           NEW at \in 0..MaxTime + 1
    PROVE  Call(do, on, at) \in CallRecords
    BY DEF Call, CallRecords

LEMMA BelowParts ==
    /\ \A x \in Lectures : SlidesOf({x}) \subseteq Below(x)
    /\ \A x \in Projects : LecturesIn(x) \subseteq Below(x)
                           /\ SlidesOf(LecturesIn(x)) \subseteq Below(x)
    /\ \A x \in Accounts : /\ OwnedBy(x, Lectures) \subseteq Below(x)
                           /\ SlidesOf(OwnedBy(x, Lectures)) \subseteq Below(x)
                           /\ OwnedBy(x, Projects) \subseteq Below(x)
<1>1. \A x \in Lectures : SlidesOf({x}) \subseteq Below(x)
    BY BelowLecture DEF SlidesOf
<1>2. \A x \in Projects : LecturesIn(x) \subseteq Below(x)
    BY BelowProject DEF LecturesIn
<1>3. \A x \in Projects : SlidesOf(LecturesIn(x)) \subseteq Below(x)
    BY BelowProject DEF LecturesIn, SlidesOf
<1>4. \A x \in Accounts : OwnedBy(x, Lectures) \subseteq Below(x)
    BY BelowAccount DEF OwnedBy
<1>5. \A x \in Accounts : OwnedBy(x, Projects) \subseteq Below(x)
    BY BelowAccount DEF OwnedBy
<1>6. \A x \in Accounts : SlidesOf(OwnedBy(x, Lectures)) \subseteq Below(x)
    BY BelowAccount DEF OwnedBy, SlidesOf
<1> QED
    BY <1>1, <1>2, <1>3, <1>4, <1>5, <1>6

LEMMA DeleteCallsAre ==
    ASSUME NEW x \in Records, NEW t
    PROVE  /\ x \in Slides => DeleteCalls(x, t) = <<Call("save", {x}, t)>>
           /\ x \in Lectures =>
                 DeleteCalls(x, t) = <<Call("stamp", SlidesOf({x}), t), Call("save", {x}, t)>>
           /\ x \in Projects =>
                 DeleteCalls(x, t) =
                   <<Call("stamp", SlidesOf(LecturesIn(x) \intersect Alive), t),
                     Call("stamp", LecturesIn(x), t), Call("stamp", {x}, t)>>
           /\ x \in Accounts =>
                 DeleteCalls(x, t) =
                   <<Call("stamp", SlidesOf(OwnedBy(x, Lectures) \intersect Alive), t),
                     Call("stamp", OwnedBy(x, Lectures), t),
                     Call("projects", {x}, 0), Call("stamp", {x}, t)>>
    BY KindsAreApart DEF DeleteCalls, StampedWithProject

\* Calls that a deletion may make below x.
DeletesBelow(n, x, t) ==
    /\ n \in Seq(CallRecords)
    /\ \A i \in DOMAIN n : DeleteCall(n[i], t) /\ n[i].on \subseteq Below(x)

LEMMA DeleteCallsShape ==
    ASSUME NEW x \in Records, NEW t \in 1..MaxTime
    PROVE  DeletesBelow(DeleteCalls(x, t), x, t)
<1>1. /\ t \in 0..MaxTime + 1 /\ 0 \in 0..MaxTime + 1 /\ t # 0 /\ t <= t /\ 0 <= t
    BY CascadeAssumption
<1>2. ASSUME NEW do \in {"stamp", "save", "projects", "delete"}, NEW on \in SUBSET Below(x),
             NEW at \in {0, t},
             at = 0 => do \in {"projects", "delete"},
             do \in {"save", "projects", "delete"} => on = {x},
             do = "projects" => x \in Accounts
      PROVE  /\ Call(do, on, at) \in CallRecords /\ Call(do, on, at).on \subseteq Below(x)
             /\ DeleteCall(Call(do, on, at), t)
    <2>1. on \in SUBSET Records /\ at \in 0..MaxTime + 1 /\ at <= t
        BY <1>1, BelowItself
    <2>2. Call(do, on, at) \in CallRecords
        BY <2>1, CallTyped DEF DeleteDo
    <2> QED
        BY <1>1, <1>2, <2>1, <2>2, CallFields DEF DeleteCall, DeleteDo, Names
<1>3. {x} \subseteq Below(x)
    BY BelowItself
<1>4. CASE x \in Slides
    <2> DEFINE c == Call("save", {x}, t)
    <2>1. c \in CallRecords /\ DeleteCall(c, t) /\ c.on \subseteq Below(x)
        BY <1>1, <1>2, <1>3
    <2>2. DeleteCalls(x, t) = <<c>>
        BY <1>4, DeleteCallsAre
    <2> HIDE DEF c
    <2> QED
        BY <2>1, <2>2 DEF DeletesBelow
<1>5. CASE x \in Lectures
    <2> DEFINE c == Call("stamp", SlidesOf({x}), t)
               d == Call("save", {x}, t)
    <2>1. c \in CallRecords /\ DeleteCall(c, t) /\ c.on \subseteq Below(x)
        BY <1>1, <1>2, <1>5, BelowParts
    <2>2. d \in CallRecords /\ DeleteCall(d, t) /\ d.on \subseteq Below(x)
        BY <1>1, <1>2, <1>3
    <2>3. DeleteCalls(x, t) = <<c, d>>
        BY <1>5, DeleteCallsAre
    <2> HIDE DEF c, d
    <2> QED
        BY <2>1, <2>2, <2>3 DEF DeletesBelow
<1>6. CASE x \in Projects
    <2> DEFINE a == Call("stamp", SlidesOf(LecturesIn(x) \intersect Alive), t)
               c == Call("stamp", LecturesIn(x), t)
               d == Call("stamp", {x}, t)
    <2>0. SlidesOf(LecturesIn(x) \intersect Alive) \subseteq SlidesOf(LecturesIn(x))
        BY DEF SlidesOf
    <2>1. a \in CallRecords /\ DeleteCall(a, t) /\ a.on \subseteq Below(x)
        BY <1>1, <1>2, <1>6, <2>0, BelowParts
    <2>2. c \in CallRecords /\ DeleteCall(c, t) /\ c.on \subseteq Below(x)
        BY <1>1, <1>2, <1>6, BelowParts
    <2>3. d \in CallRecords /\ DeleteCall(d, t) /\ d.on \subseteq Below(x)
        BY <1>1, <1>2, <1>3
    <2>4. DeleteCalls(x, t) = <<a, c, d>>
        BY <1>6, DeleteCallsAre
    <2> HIDE DEF a, c, d
    <2> QED
        BY <2>1, <2>2, <2>3, <2>4 DEF DeletesBelow
<1>7. CASE x \in Accounts
    <2> DEFINE a == Call("stamp", SlidesOf(OwnedBy(x, Lectures) \intersect Alive), t)
               b == Call("stamp", OwnedBy(x, Lectures), t)
               c == Call("projects", {x}, 0)
               d == Call("stamp", {x}, t)
    <2>0. SlidesOf(OwnedBy(x, Lectures) \intersect Alive) \subseteq SlidesOf(OwnedBy(x, Lectures))
        BY DEF SlidesOf
    <2>1. a \in CallRecords /\ DeleteCall(a, t) /\ a.on \subseteq Below(x)
        BY <1>1, <1>2, <1>7, <2>0, BelowParts
    <2>2. b \in CallRecords /\ DeleteCall(b, t) /\ b.on \subseteq Below(x)
        BY <1>1, <1>2, <1>7, BelowParts
    <2>3. c \in CallRecords /\ DeleteCall(c, t) /\ c.on \subseteq Below(x)
        BY <1>1, <1>2, <1>3, <1>7
    <2>4. d \in CallRecords /\ DeleteCall(d, t) /\ d.on \subseteq Below(x)
        BY <1>1, <1>2, <1>3
    <2>5. DeleteCalls(x, t) = <<a, b, c, d>>
        BY <1>7, DeleteCallsAre
    <2> HIDE DEF a, b, c, d
    <2> QED
        BY <2>1, <2>2, <2>3, <2>4, <2>5 DEF DeletesBelow
<1> QED
    BY <1>4, <1>5, <1>6, <1>7, KindsAreApart

\* What a deletion that starts goes on with.
LEMMA DeleteStartsWith ==
    ASSUME CascadeShape, NEW r \in Requests, DeleteStarts(r)
    PROVE  LET x == Target(r)
               next == DeleteCalls(x, now')
           IN  /\ r \in Active /\ Does(r, "delete") /\ now' = now + 1 /\ now' \in 1..MaxTime
               /\ About(r) \in Records /\ x \in Below(About(r)) /\ x \in Records
               /\ Of(r).on = {x} /\ Of(r).do = "delete" /\ Of(r).at <= now
               /\ next \in Seq(CallRecords) /\ Then(r, next)
               /\ \A i \in DOMAIN next : CallFits(r, next[i], now')
<1> DEFINE x == Target(r)
           next == DeleteCalls(x, now')
<1>1. r \in Active /\ Of(r).do = "delete"
    BY DEF DeleteStarts, At, Of
<1>2. now' = now + 1 /\ now' \in 1..MaxTime
    BY CascadeAssumption DEF DeleteStarts, CascadeShape
<1>3. /\ Does(r, "delete") /\ About(r) \in Records
      /\ DeleteCall(Of(r), now) /\ Of(r).on \subseteq Below(About(r))
    BY <1>1, HeadIs DEF DeleteDo
<1>4. PICK y \in Records : Of(r).on = {y}
    BY <1>1, <1>3 DEF DeleteCall, Names
<1>5. Target(r) = y
    BY <1>1, <1>4, TargetIs
<1>6. x \in Records /\ Of(r).on = {x} /\ x \in Below(About(r))
    BY <1>3, <1>4, <1>5
<1>7. DeletesBelow(next, x, now')
    BY <1>2, <1>6, DeleteCallsShape
<1>8. Below(x) \subseteq Below(About(r))
    BY <1>3, <1>6, BelowIsTransitive
<1>9. Then(r, next)
    BY DEF DeleteStarts
<1>10. \A i \in DOMAIN next : CallFits(r, next[i], now')
    BY <1>3, <1>7, <1>8 DEF DeletesBelow, CallFits
<1>11. Of(r).at <= now
    BY <1>3 DEF DeleteCall
<1> QED
    BY <1>1, <1>2, <1>3, <1>6, <1>7, <1>9, <1>10, <1>11 DEF DeletesBelow

LEMMA EachCalls ==
    \A do, at : \A xs \in SUBSET Records :
        /\ \A i \in DOMAIN Each(do, xs, at) :
              \E x \in xs : Each(do, xs, at)[i] = Call(do, {x}, at)
        /\ \A x \in xs : \E i \in DOMAIN Each(do, xs, at) :
              Each(do, xs, at)[i] = Call(do, {x}, at)
<1> SUFFICES ASSUME NEW do, NEW at, NEW xs \in SUBSET Records
             PROVE  /\ \A i \in DOMAIN Each(do, xs, at) :
                          \E x \in xs : Each(do, xs, at)[i] = Call(do, {x}, at)
                    /\ \A x \in xs : \E i \in DOMAIN Each(do, xs, at) :
                          Each(do, xs, at)[i] = Call(do, {x}, at)
    OBVIOUS
<1> QED
    BY EachIs

LEMMA EmptyCalls == <<>> \in Seq(CallRecords) /\ DOMAIN <<>> = {} /\ Len(<<>>) = 0
    BY EmptySeq

\* The calls of a request, one for each of some records.
LEMMA EachFits ==
    ASSUME NEW r \in Active, NEW do, NEW at, NEW xs \in SUBSET Records, NEW t,
           \A x \in xs : Call(do, {x}, at) \in CallRecords /\ CallFits(r, Call(do, {x}, at), t)
    PROVE  /\ Each(do, xs, at) \in Seq(CallRecords)
           /\ \A i \in DOMAIN Each(do, xs, at) : CallFits(r, Each(do, xs, at)[i], t)
<1>1. Each(do, xs, at) \in Seq(CallRecords)
    BY EachIs
<1>3. \A i \in DOMAIN Each(do, xs, at) : \E x \in xs : Each(do, xs, at)[i] = Call(do, {x}, at)
    BY EachIs
<1>2. ASSUME NEW i \in DOMAIN Each(do, xs, at)
      PROVE  CallFits(r, Each(do, xs, at)[i], t)
    <2>1. PICK x \in xs : Each(do, xs, at)[i] = Call(do, {x}, at)
        BY <1>3
    <2> QED
        BY <2>1
<1> QED
    BY <1>1, <1>2

LEMMA DeleteProjectsWith ==
    ASSUME CascadeShape, NEW r \in Requests, DeleteProjects(r)
    PROVE  LET x == Target(r)
               ps == OwnedBy(x, Projects) \intersect Alive
               next == Each("delete", ps, 0)
           IN  /\ r \in Active /\ Does(r, "delete") /\ now' = now /\ now \in Nat
               /\ About(r) \in Records /\ x \in Below(About(r)) /\ x \in Accounts
               /\ Of(r).on = {x} /\ Of(r).do = "projects"
               /\ ps \subseteq Below(x) /\ ps \subseteq Records
               /\ next \in Seq(CallRecords) /\ Then(r, next)
               /\ \A i \in DOMAIN next : CallFits(r, next[i], now')
<1> DEFINE x == Target(r)
           ps == OwnedBy(x, Projects) \intersect Alive
           next == Each("delete", ps, 0)
<1>1. r \in Active /\ Of(r).do = "projects"
    BY DEF DeleteProjects, At, Of
<1>2. now' = now /\ now \in Nat /\ 0 <= now /\ 0 \in 0..MaxTime + 1
    BY CascadeAssumption DEF DeleteProjects, CascadeShape, RecordsUnchanged
<1>3. /\ Does(r, "delete") /\ About(r) \in Records
      /\ DeleteCall(Of(r), now) /\ Of(r).on \subseteq Below(About(r))
    BY <1>1, HeadIs DEF DeleteDo
<1>4. PICK y \in Accounts : Of(r).on = {y}
    BY <1>1, <1>3 DEF DeleteCall, Names
<1>5. x \in Accounts /\ Of(r).on = {x} /\ x \in Below(About(r))
    BY <1>1, <1>3, <1>4, TargetIs
<1>6. ps \subseteq Below(x) /\ ps \subseteq Records
    BY <1>5, BelowParts DEF Alive, Stored
<1>7. Below(x) \subseteq Below(About(r))
    BY <1>3, <1>5, BelowIsTransitive
<1>8. ASSUME NEW p \in ps
      PROVE  Call("delete", {p}, 0) \in CallRecords /\ CallFits(r, Call("delete", {p}, 0), now')
    <2>1. Call("delete", {p}, 0) \in CallRecords
        BY <1>2, <1>6, CallTyped DEF DeleteDo
    <2>2. DeleteCall(Call("delete", {p}, 0), now')
        BY <1>2, <1>6, CallFields DEF DeleteCall, DeleteDo, Names
    <2>3. {p} \subseteq Below(About(r))
        BY <1>6, <1>7
    <2> QED
        BY <1>3, <2>1, <2>2, <2>3, CallFields DEF CallFits
<1> HIDE DEF ps
<1>9. next \in Seq(CallRecords) /\ \A i \in DOMAIN next : CallFits(r, next[i], now')
    BY <1>1, <1>6, <1>8, EachFits
<1>10. Then(r, next)
    BY DEF DeleteProjects, ps
<1> QED
    BY <1>1, <1>2, <1>3, <1>5, <1>6, <1>9, <1>10 DEF ps

\* An update or a removal goes on with what is left.
LEMMA OthersFit ==
    ASSUME CascadeShape, NEW r \in Active, NEW x, NEW left, left \subseteq Of(r).on,
           Of(r).do \in {"stamp", "revive"}
    PROVE  /\ Others(r, x, left) \in Seq(CallRecords)
           /\ left = {x} => Others(r, x, left) = <<>>
           /\ left # {x} =>
                 /\ Others(r, x, left) = <<[Of(r) EXCEPT !.on = left \ {x}]>>
                 /\ [Of(r) EXCEPT !.on = left \ {x}].on = left \ {x}
                 /\ [Of(r) EXCEPT !.on = left \ {x}].do = Of(r).do
                 /\ [Of(r) EXCEPT !.on = left \ {x}].at = Of(r).at
           /\ \A i \in DOMAIN Others(r, x, left) : CallFits(r, Others(r, x, left)[i], now)
<1> DEFINE c == [Of(r) EXCEPT !.on = left \ {x}]
<1>1. Of(r) \in CallRecords /\ Of(r).on \subseteq Records /\ CallFits(r, Of(r), now)
    BY HeadIs, CallIs
<1>2. c \in CallRecords /\ c.on = left \ {x} /\ c.do = Of(r).do /\ c.at = Of(r).at
    BY <1>1 DEF CallRecords
<1>3. /\ left = {x} => Others(r, x, left) = <<>>
      /\ left # {x} => Others(r, x, left) = <<c>>
    BY DEF Others
<1> HIDE DEF c
<1>4. c.on \subseteq Of(r).on
    BY <1>2
<1>5. CallFits(r, c, now)
    BY <1>1, <1>2, <1>4 DEF CallFits, DeleteCall, RestoreCall, PurgeCall, PurgeDo, LookDo
<1>6. CASE left = {x}
    BY <1>3, <1>6, EmptyCalls
<1>7. CASE left # {x}
    <2>1. Others(r, x, left) = <<c>>
        BY <1>3, <1>7
    <2>2. /\ <<c>> \in Seq(CallRecords)
          /\ \A i \in DOMAIN <<c>> : CallFits(r, <<c>>[i], now)
        BY <1>2, <1>5
    <2> QED
        BY <1>2, <1>7, <2>1, <2>2 DEF c
<1> QED
    BY <1>6, <1>7

LEMMA StampManyWith ==
    ASSUME CascadeShape, NEW r \in Requests, StampMany(r)
    PROVE  /\ r \in Active /\ Does(r, "delete") /\ now' = now /\ now \in Nat
           /\ About(r) \in Records
           /\ Of(r).do = "stamp" /\ Of(r).on \subseteq Below(About(r)) /\ Of(r).on \subseteq Records
           /\ Of(r).at \in 1..MaxTime /\ Of(r).at <= now
           /\ \/ \E x \in Of(r).on \intersect Alive :
                   /\ Stamp(r, x)
                   /\ Then(r, Others(r, x, Of(r).on \intersect Alive))
                   /\ Others(r, x, Of(r).on \intersect Alive) \in Seq(CallRecords)
                   /\ \A i \in DOMAIN Others(r, x, Of(r).on \intersect Alive) :
                         CallFits(r, Others(r, x, Of(r).on \intersect Alive)[i], now')
              \/ /\ Of(r).on \intersect Alive = {}
                 /\ RecordsUnchanged /\ CountsUnchanged /\ Then(r, <<>>)
<1>1. r \in Active /\ Of(r).do = "stamp"
    BY DEF StampMany, At, Of
<1>2. now' = now /\ now \in 0..MaxTime
    BY CascadeAssumption DEF StampMany, CascadeShape, RecordsUnchanged, Stamp
<1>3. /\ Does(r, "delete") /\ About(r) \in Records /\ Of(r).on \subseteq Records
      /\ DeleteCall(Of(r), now) /\ Of(r).on \subseteq Below(About(r)) /\ Of(r).at \in Nat
    BY <1>1, HeadIs DEF DeleteDo
<1>4. Of(r).at # 0 /\ Of(r).at <= now
    BY <1>1, <1>3 DEF DeleteCall
<1>5. now \in Nat /\ Of(r).at \in 1..MaxTime
    BY <1>2, <1>3, <1>4, CascadeAssumption
<1>6. \/ \E x \in Stampable(Of(r).on) :
             /\ Stamp(r, x)
             /\ Then(r, Others(r, x, Stampable(Of(r).on)))
      \/ /\ Stampable(Of(r).on) = {}
         /\ RecordsUnchanged /\ CountsUnchanged
         /\ Then(r, <<>>)
    BY DEF StampMany
<1> DEFINE left == Of(r).on \intersect Alive
<1>7. Stampable(Of(r).on) = left /\ left \subseteq Of(r).on
    BY DEF Stampable
<1> HIDE DEF left
<1>8. \A x : /\ Others(r, x, left) \in Seq(CallRecords)
             /\ \A i \in DOMAIN Others(r, x, left) : CallFits(r, Others(r, x, left)[i], now')
    BY <1>1, <1>2, <1>7, OthersFit
<1>9. \/ \E x \in left : /\ Stamp(r, x) /\ Then(r, Others(r, x, left))
                         /\ Others(r, x, left) \in Seq(CallRecords)
                         /\ \A i \in DOMAIN Others(r, x, left) :
                               CallFits(r, Others(r, x, left)[i], now')
      \/ left = {} /\ RecordsUnchanged /\ CountsUnchanged /\ Then(r, <<>>)
    BY <1>6, <1>7, <1>8
<1> QED
    BY <1>1, <1>2, <1>3, <1>4, <1>5, <1>9 DEF left

LEMMA SaveWith ==
    ASSUME CascadeShape, NEW r \in Requests, Save(r)
    PROVE  /\ r \in Active /\ Does(r, "delete") /\ now' = now /\ now \in Nat
           /\ About(r) \in Records /\ Target(r) \in Records
           /\ Of(r).do = "save" /\ Of(r).on = {Target(r)} /\ Target(r) \in Below(About(r))
           /\ Of(r).at \in 1..MaxTime /\ Of(r).at <= now
           /\ \/ Target(r) \in Stored /\ Stamp(r, Target(r))
              \/ Target(r) \notin Stored /\ RecordsUnchanged /\ CountsUnchanged
           /\ Then(r, <<>>)
<1>1. r \in Active /\ Of(r).do = "save"
    BY DEF Save, At, Of
<1>2. now' = now /\ now \in 0..MaxTime
    BY CascadeAssumption DEF Save, CascadeShape, RecordsUnchanged, Stamp
<1>3. /\ Does(r, "delete") /\ About(r) \in Records
      /\ DeleteCall(Of(r), now) /\ Of(r).on \subseteq Below(About(r)) /\ Of(r).at \in Nat
    BY <1>1, HeadIs DEF DeleteDo
<1>4. Of(r).at # 0 /\ Of(r).at <= now
    BY <1>1, <1>3 DEF DeleteCall
<1>5. now \in Nat /\ Of(r).at \in 1..MaxTime
    BY <1>2, <1>3, <1>4, CascadeAssumption
<1>6. PICK y \in Records : Of(r).on = {y}
    BY <1>1, <1>3 DEF DeleteCall, Names
<1>7. Target(r) = y
    BY <1>1, <1>6, TargetIs
<1> QED
    BY <1>1, <1>2, <1>3, <1>4, <1>5, <1>6, <1>7 DEF Save

LEMMA AppendIs ==
    ASSUME NEW n \in Seq(CallRecords), NEW c \in CallRecords
    PROVE  /\ Append(n, c) \in Seq(CallRecords) /\ Len(Append(n, c)) = Len(n) + 1
           /\ Len(n) \in Nat /\ DOMAIN n = 1..Len(n) /\ DOMAIN Append(n, c) = 1..(Len(n) + 1)
           /\ \A i \in DOMAIN n : i \in DOMAIN Append(n, c) /\ Append(n, c)[i] = n[i]
           /\ Append(n, c)[Len(n) + 1] = c
           /\ \A i \in DOMAIN Append(n, c) :
                 \/ i \in DOMAIN n /\ Append(n, c)[i] = n[i]
                 \/ i = Len(n) + 1 /\ Append(n, c)[i] = c
<1>1. Len(n) \in Nat /\ DOMAIN n = 1..Len(n)
    BY LenProperties
<1>2. /\ Append(n, c) \in Seq(CallRecords) /\ Len(Append(n, c)) = Len(n) + 1
      /\ \A i \in 1..Len(n) : Append(n, c)[i] = n[i]
      /\ Append(n, c)[Len(n) + 1] = c
    BY AppendProperties
<1>3. DOMAIN Append(n, c) = 1..(Len(n) + 1)
    BY <1>2, LenProperties
<1> QED
    BY <1>1, <1>2, <1>3

LEMMA AppendFits ==
    ASSUME NEW r, NEW t, NEW n \in Seq(CallRecords), \A i \in DOMAIN n : CallFits(r, n[i], t),
           NEW c \in CallRecords, CallFits(r, c, t)
    PROVE  /\ Append(n, c) \in Seq(CallRecords)
           /\ \A i \in DOMAIN Append(n, c) : CallFits(r, Append(n, c)[i], t)
<1>1. /\ Append(n, c) \in Seq(CallRecords)
      /\ \A i \in DOMAIN Append(n, c) :
            \/ i \in DOMAIN n /\ Append(n, c)[i] = n[i]
            \/ i = Len(n) + 1 /\ Append(n, c)[i] = c
    BY AppendIs
<1> QED
    BY <1>1

LEMMA WithRootIs ==
    \A xs, at, x : x \in WithRoot(xs, at) <=>
        x \in xs /\ x \in Stored /\ stamp[x] # Live /\ stamp[x] >= at
    BY DEF WithRoot, CameWith

LEMMA RestoreCallsAre ==
    ASSUME NEW x \in Records, NEW t
    PROVE  /\ x \in Lectures => RestoreCalls(x, t) = <<Call("revive", SlidesOf({x}), t)>>
           /\ x \in Projects => RestoreCalls(x, t) = Each("restore", WithRoot(LecturesIn(x), t), 0)
           /\ x \in Accounts =>
                 RestoreCalls(x, t) =
                   Append(Each("restore", WithRoot(OwnedBy(x, Lectures), t), 0),
                          Call("restoreProjects", {x}, t))
    BY KindsAreApart DEF RestoreCalls

\* A call of a restore of what lies below About(r).
LEMMA RestoreFits ==
    ASSUME CascadeShape, NEW r \in Active, Does(r, "restore"),
           NEW do \in RestoreDo, NEW on \in SUBSET Below(About(r)), NEW at \in Nat, at <= now,
           do = "restore" => \E x \in Records \ Slides : on = {x},
           do = "restoreProjects" => \E x \in Accounts : on = {x}
    PROVE  Call(do, on, at) \in CallRecords /\ CallFits(r, Call(do, on, at), now)
<1>1. About(r) \in Records /\ on \subseteq Records
    BY RequestIs, BelowItself
<1>2. at \in 0..MaxTime + 1
    BY CascadeAssumption DEF CascadeShape
<1>3. Call(do, on, at) \in CallRecords
    BY <1>1, <1>2, CallTyped
<1>4. RestoreCall(Call(do, on, at), now)
    BY CallFields DEF RestoreCall, Names
<1> QED
    BY <1>3, <1>4, CallFields DEF CallFits

LEMMA EachRestoreFits ==
    ASSUME CascadeShape, NEW r \in Active, Does(r, "restore"),
           NEW xs \in SUBSET Below(About(r)), xs \intersect Slides = {}
    PROVE  /\ Each("restore", xs, 0) \in Seq(CallRecords)
           /\ \A i \in DOMAIN Each("restore", xs, 0) :
                 CallFits(r, Each("restore", xs, 0)[i], now)
<1>1. About(r) \in Records /\ xs \subseteq Records /\ now \in Nat /\ 0 <= now
    BY RequestIs, BelowItself, CascadeAssumption DEF CascadeShape
<1>2. ASSUME NEW x \in xs
      PROVE  Call("restore", {x}, 0) \in CallRecords /\ CallFits(r, Call("restore", {x}, 0), now)
    <2>1. x \in Records \ Slides /\ {x} \in SUBSET Below(About(r))
        BY <1>1
    <2>2. "restore" \in RestoreDo /\ "restore" # "restoreProjects"
        BY DEF RestoreDo
    <2> QED
        BY <1>1, <2>1, <2>2, RestoreFits
<1> QED
    BY <1>1, <1>2, EachFits

LEMMA RestoreStartsWith ==
    ASSUME CascadeShape, NEW r \in Requests, RestoreStarts(r)
    PROVE  LET x == Target(r)
               inner == RestoreCalls(x, stamp[x])
               next == Append(inner, Call("revive", {x}, 0))
           IN  /\ r \in Active /\ Does(r, "restore") /\ now' = now /\ now \in Nat
               /\ About(r) \in Records /\ x \in Below(About(r)) /\ x \in Records \ Slides
               /\ Of(r).on = {x} /\ Of(r).do = "restore"
               /\ \/ x \in Alive \union gone /\ Then(r, <<>>)
                  \/ /\ x \notin Alive \union gone
                     /\ inner \in Seq(CallRecords) /\ Call("revive", {x}, 0) \in CallRecords
                     /\ next \in Seq(CallRecords) /\ Then(r, next)
                     /\ \A i \in DOMAIN next : CallFits(r, next[i], now')
<1> DEFINE x == Target(r)
           t == stamp[x]
           inner == RestoreCalls(x, t)
           last == Call("revive", {x}, 0)
<1>1. r \in Active /\ Of(r).do = "restore"
    BY DEF RestoreStarts, At, Of
<1>2. now' = now /\ now \in Nat /\ 0 <= now
    BY CascadeAssumption DEF RestoreStarts, CascadeShape, RecordsUnchanged
<1>3. /\ Does(r, "restore") /\ About(r) \in Records
      /\ RestoreCall(Of(r), now) /\ Of(r).on \subseteq Below(About(r))
    BY <1>1, HeadIs DEF RestoreDo
<1>4. PICK y \in Records \ Slides : Of(r).on = {y}
    BY <1>1, <1>3 DEF RestoreCall, Names
<1>5. x \in Records \ Slides /\ Of(r).on = {x} /\ x \in Below(About(r))
    BY <1>1, <1>3, <1>4, TargetIs
<1>6. Below(x) \subseteq Below(About(r))
    BY <1>3, <1>5, BelowIsTransitive
<1>7. t \in Nat /\ t <= now
    BY <1>5, CascadeAssumption DEF CascadeShape
<1>8. Then(r, IF x \in Alive \union gone THEN <<>> ELSE Append(inner, last))
    BY DEF RestoreStarts
<1>9. last \in CallRecords /\ CallFits(r, last, now)
    <2>1. "revive" \in RestoreDo /\ "revive" # "restore" /\ "revive" # "restoreProjects"
        BY DEF RestoreDo
    <2>2. {x} \in SUBSET Below(About(r))
        BY <1>5
    <2> QED
        BY <1>1, <1>2, <1>3, <2>1, <2>2, RestoreFits
<1>10. inner \in Seq(CallRecords) /\ \A i \in DOMAIN inner : CallFits(r, inner[i], now)
    <2>1. CASE x \in Lectures
        <3> DEFINE c == Call("revive", SlidesOf({x}), t)
        <3>1. SlidesOf({x}) \in SUBSET Below(About(r))
            BY <1>6, <2>1, BelowParts
        <3>2. "revive" \in RestoreDo /\ "revive" # "restore" /\ "revive" # "restoreProjects"
            BY DEF RestoreDo
        <3>3. c \in CallRecords /\ CallFits(r, c, now)
            BY <1>1, <1>3, <1>7, <3>1, <3>2, RestoreFits
        <3>4. inner = <<c>>
            BY <2>1, <1>5, RestoreCallsAre
        <3> HIDE DEF c, inner
        <3> QED
            BY <3>3, <3>4
    <2>2. CASE x \in Projects
        <3> DEFINE xs == WithRoot(LecturesIn(x), t)
        <3>1. xs \in SUBSET Below(About(r)) /\ xs \intersect Slides = {}
            BY <1>6, <2>2, BelowParts, WithRootIs, KindsAreApart DEF LecturesIn
        <3>2. inner = Each("restore", xs, 0)
            BY <2>2, <1>5, RestoreCallsAre
        <3> HIDE DEF xs, inner
        <3> QED
            BY <1>1, <1>3, <3>1, <3>2, EachRestoreFits
    <2>3. CASE x \in Accounts
        <3> DEFINE xs == WithRoot(OwnedBy(x, Lectures), t)
                   c == Call("restoreProjects", {x}, t)
                   n == Each("restore", xs, 0)
        <3>1. xs \in SUBSET Below(About(r)) /\ xs \intersect Slides = {}
            BY <1>6, <2>3, BelowParts, WithRootIs, KindsAreApart DEF OwnedBy
        <3>2. inner = Append(n, c)
            BY <2>3, <1>5, RestoreCallsAre
        <3>3. n \in Seq(CallRecords) /\ \A i \in DOMAIN n : CallFits(r, n[i], now)
            BY <1>1, <1>3, <3>1, EachRestoreFits
        <3>4. {x} \in SUBSET Below(About(r)) /\ "restoreProjects" \in RestoreDo
              /\ "restoreProjects" # "restore"
            BY <1>5 DEF RestoreDo
        <3>5. c \in CallRecords /\ CallFits(r, c, now)
            BY <1>1, <1>3, <1>7, <2>3, <3>4, RestoreFits
        <3> HIDE DEF xs, c, n, inner
        <3> QED
            BY <3>2, <3>3, <3>5, AppendFits
    <2> QED
        BY <1>5, <2>1, <2>2, <2>3, KindsAreApart
<1> HIDE DEF inner, last
<1>11. /\ Append(inner, last) \in Seq(CallRecords)
       /\ \A i \in DOMAIN Append(inner, last) : CallFits(r, Append(inner, last)[i], now')
    BY <1>2, <1>9, <1>10, AppendFits
<1> QED
    BY <1>1, <1>2, <1>3, <1>5, <1>8, <1>9, <1>10, <1>11 DEF inner, last

LEMMA RestoreProjectsWith ==
    ASSUME CascadeShape, NEW r \in Requests, RestoreProjects(r)
    PROVE  LET x == Target(r)
               ps == WithRoot(OwnedBy(x, Projects), Of(r).at)
               next == Each("restore", ps, 0)
           IN  /\ r \in Active /\ Does(r, "restore") /\ now' = now /\ now \in Nat
               /\ About(r) \in Records /\ x \in Accounts
               /\ Of(r).on = {x} /\ Of(r).do = "restoreProjects" /\ Of(r).at \in Nat
               /\ ps \subseteq Records
               /\ next \in Seq(CallRecords) /\ Then(r, next)
               /\ \A i \in DOMAIN next : CallFits(r, next[i], now')
<1> DEFINE x == Target(r)
           ps == WithRoot(OwnedBy(x, Projects), Of(r).at)
           next == Each("restore", ps, 0)
<1>1. r \in Active /\ Of(r).do = "restoreProjects"
    BY DEF RestoreProjects, At, Of
<1>2. now' = now /\ now \in Nat
    BY CascadeAssumption DEF RestoreProjects, CascadeShape, RecordsUnchanged
<1>3. /\ Does(r, "restore") /\ About(r) \in Records /\ Of(r).at \in Nat
      /\ RestoreCall(Of(r), now) /\ Of(r).on \subseteq Below(About(r))
    BY <1>1, HeadIs DEF RestoreDo
<1>4. PICK y \in Accounts : Of(r).on = {y}
    BY <1>1, <1>3 DEF RestoreCall, Names
<1>5. x \in Accounts /\ Of(r).on = {x} /\ x \in Below(About(r))
    BY <1>1, <1>3, <1>4, TargetIs
<1>6. Below(x) \subseteq Below(About(r))
    BY <1>3, <1>5, BelowIsTransitive
<1>7. ps \in SUBSET Below(About(r)) /\ ps \intersect Slides = {} /\ ps \subseteq Records
    BY <1>5, <1>6, BelowParts, WithRootIs, KindsAreApart DEF OwnedBy
<1>8. Then(r, next)
    BY DEF RestoreProjects
<1> HIDE DEF ps
<1>9. next \in Seq(CallRecords) /\ \A i \in DOMAIN next : CallFits(r, next[i], now)
    BY <1>1, <1>3, <1>7, EachRestoreFits
<1> QED
    BY <1>1, <1>2, <1>3, <1>5, <1>7, <1>8, <1>9 DEF ps

LEMMA ReviveWith ==
    ASSUME CascadeShape, NEW r \in Requests, Revive(r)
    PROVE  /\ r \in Active /\ Does(r, "restore") /\ now' = now /\ now \in Nat
           /\ About(r) \in Records
           /\ Of(r).do = "revive" /\ Of(r).on \subseteq Below(About(r)) /\ Of(r).on \subseteq Records
           /\ Revivable(r) \subseteq Of(r).on /\ Of(r).at \in Nat
           /\ CountsUnchanged
           /\ \/ \E x \in Revivable(r) :
                   /\ stamp' = [stamp EXCEPT ![x] = Live]
                   /\ killer' = [killer EXCEPT ![x] = x]
                   /\ gone' = gone
                   /\ Then(r, Others(r, x, Revivable(r)))
                   /\ Others(r, x, Revivable(r)) \in Seq(CallRecords)
                   /\ \A i \in DOMAIN Others(r, x, Revivable(r)) :
                         CallFits(r, Others(r, x, Revivable(r))[i], now')
              \/ Revivable(r) = {} /\ RecordsUnchanged /\ Then(r, <<>>)
<1>1. r \in Active /\ Of(r).do = "revive"
    BY DEF Revive, At, Of
<1>2. now' = now /\ now \in Nat
    BY CascadeAssumption DEF Revive, CascadeShape, RecordsUnchanged
<1>3. /\ Does(r, "restore") /\ About(r) \in Records /\ Of(r).on \subseteq Records
      /\ Of(r).on \subseteq Below(About(r)) /\ Of(r).at \in Nat
    BY <1>1, HeadIs DEF RestoreDo
<1>4. Revivable(r) \subseteq Of(r).on
    BY WithRootIs DEF Revivable
<1>5. \A x : /\ Others(r, x, Revivable(r)) \in Seq(CallRecords)
             /\ \A i \in DOMAIN Others(r, x, Revivable(r)) :
                   CallFits(r, Others(r, x, Revivable(r))[i], now')
    BY <1>1, <1>2, <1>4, OthersFit
<1> QED
    BY <1>1, <1>2, <1>3, <1>4, <1>5 DEF Revive

-----------------------------------------------------------------------------

\* A call of a purge.
LEMMA PurgeFits ==
    ASSUME CascadeShape, NEW r \in Active, Does(r, "purge"),
           NEW do \in PurgeDo, NEW on \in SUBSET Records, NEW at \in Nat, at <= now + 1,
           do = "purge" => \E x \in Records \ Slides : on = {x},
           do = "purgeProjects" => \E x \in Accounts : on = {x}
    PROVE  Call(do, on, at) \in CallRecords /\ CallFits(r, Call(do, on, at), now)
<1>1. at \in 0..MaxTime + 1
    BY CascadeAssumption DEF CascadeShape
<1>2. Call(do, on, at) \in CallRecords
    BY <1>1, CallTyped
<1>3. PurgeCall(Call(do, on, at), now)
    BY CallFields DEF PurgeCall, Names
<1> QED
    BY <1>2, <1>3, CallFields DEF CallFits

LEMMA EachPurgeFits ==
    ASSUME CascadeShape, NEW r \in Active, Does(r, "purge"),
           NEW xs \in SUBSET Records, xs \intersect Slides = {}
    PROVE  /\ Each("purge", xs, 0) \in Seq(CallRecords)
           /\ \A i \in DOMAIN Each("purge", xs, 0) : CallFits(r, Each("purge", xs, 0)[i], now)
<1>1. now \in Nat /\ 0 <= now + 1
    BY CascadeAssumption DEF CascadeShape
<1>2. ASSUME NEW x \in xs
      PROVE  Call("purge", {x}, 0) \in CallRecords /\ CallFits(r, Call("purge", {x}, 0), now)
    <2>1. x \in Records \ Slides /\ {x} \in SUBSET Records
        OBVIOUS
    <2>2. "purge" \in PurgeDo /\ "purge" # "purgeProjects"
        BY DEF PurgeDo
    <2> QED
        BY <1>1, <2>1, <2>2, PurgeFits
<1> QED
    BY <1>2, EachFits

\* The levels a purge looks at, each followed by the next.
Level(do) ==
    CASE do = "users" -> Accounts
      [] do = "expiredProjects" -> Projects
      [] do = "expiredLectures" -> Lectures
NextLevel(do) ==
    CASE do = "users" -> "expiredProjects"
      [] do = "expiredProjects" -> "expiredLectures"
      [] do = "expiredLectures" -> "expiredSlides"

LEMMA ExpiredIs ==
    \A xs, t, x : x \in Expired(xs, t) <=>
        x \in xs /\ x \in Stored /\ stamp[x] # Live /\ stamp[x] < t
    BY DEF Expired

LEMMA PurgeLooksWith ==
    ASSUME CascadeShape, NEW r \in Requests, PurgeLooks(r)
    PROVE  LET t == Of(r).at
               found == Expired(Level(Of(r).do), t)
               inner == Each("purge", found, 0)
               last == Call(NextLevel(Of(r).do), {}, t)
               drop == Call("drop", Expired(Slides, t), 0)
           IN  /\ r \in Active /\ Does(r, "purge") /\ now' = now /\ now \in Nat
               /\ Of(r).do \in LookDo
               /\ \/ /\ Of(r).do # "expiredSlides"
                     /\ found \subseteq Records \ Slides
                     /\ NextLevel(Of(r).do) \in LookDo
                     /\ inner \in Seq(CallRecords) /\ last \in CallRecords
                     /\ Append(inner, last) \in Seq(CallRecords)
                     /\ Then(r, Append(inner, last))
                     /\ \A i \in DOMAIN Append(inner, last) : CallFits(r, Append(inner, last)[i], now')
                  \/ /\ Expired(Slides, t) \subseteq Slides
                     /\ drop \in CallRecords /\ <<drop>> \in Seq(CallRecords) /\ Then(r, <<drop>>)
                     /\ \A i \in DOMAIN <<drop>> : CallFits(r, <<drop>>[i], now')
<1> DEFINE t == Of(r).at
           found == Expired(Level(Of(r).do), t)
           inner == Each("purge", found, 0)
           last == Call(NextLevel(Of(r).do), {}, t)
           drop == Call("drop", Expired(Slides, t), 0)
<1>1. r \in Active /\ Of(r).do \in LookDo
    BY DEF PurgeLooks, At, Of, LookDo
<1>2. now' = now /\ now \in Nat /\ 0 <= now + 1
    BY CascadeAssumption DEF PurgeLooks, CascadeShape, RecordsUnchanged
<1>3. Does(r, "purge") /\ t \in Nat /\ t <= now + 1
    BY <1>1, HeadIs DEF PurgeDo, PurgeCall
<1>4. CASE Of(r).do # "expiredSlides"
    <2>1. /\ NextLevel(Of(r).do) \in LookDo
          /\ Level(Of(r).do) \in {Accounts, Projects, Lectures}
        BY <1>1, <1>4 DEF LookDo, NextLevel, Level
    <2>2. found \subseteq Records \ Slides
        BY <2>1, ExpiredIs, KindsAreApart
    <2>3. inner \in Seq(CallRecords) /\ \A i \in DOMAIN inner : CallFits(r, inner[i], now)
        BY <1>1, <1>3, <2>2, EachPurgeFits
    <2>4. last \in CallRecords /\ CallFits(r, last, now)
        <3>1. /\ NextLevel(Of(r).do) \in PurgeDo
              /\ NextLevel(Of(r).do) \notin {"purge", "purgeProjects"}
            BY <2>1 DEF LookDo, PurgeDo
        <3> QED
            BY <1>1, <1>3, <3>1, PurgeFits
    <2>5. Then(r, Append(inner, last))
        BY <1>1, <1>4 DEF PurgeLooks, At, Of, Level, NextLevel
    <2> HIDE DEF inner, last
    <2>6. /\ Append(inner, last) \in Seq(CallRecords)
          /\ \A i \in DOMAIN Append(inner, last) : CallFits(r, Append(inner, last)[i], now')
        BY <1>2, <2>3, <2>4, AppendFits
    <2> QED
        BY <1>1, <1>2, <1>3, <1>4, <2>1, <2>2, <2>3, <2>4, <2>5, <2>6 DEF inner, last
<1>5. CASE Of(r).do = "expiredSlides"
    <2>1. Expired(Slides, t) \subseteq Slides
        BY ExpiredIs
    <2>2. "drop" \in PurgeDo /\ "drop" # "purge" /\ "drop" # "purgeProjects"
        BY DEF PurgeDo
    <2>3. drop \in CallRecords /\ CallFits(r, drop, now)
        BY <1>1, <1>2, <1>3, <2>1, <2>2, PurgeFits, KindsAreApart
    <2>4. Then(r, <<drop>>)
        BY <1>1, <1>5 DEF PurgeLooks, At, Of
    <2> HIDE DEF drop
    <2>5. <<drop>> \in Seq(CallRecords) /\ \A i \in DOMAIN <<drop>> : CallFits(r, <<drop>>[i], now')
        BY <1>2, <2>3
    <2> QED
        BY <1>1, <1>2, <1>3, <2>1, <2>3, <2>4, <2>5 DEF drop
<1> QED
    BY <1>4, <1>5

LEMMA PurgeCallsAre ==
    ASSUME NEW x \in Records
    PROVE  /\ x \in Lectures =>
                 PurgeCalls(x) = <<Call("drop", SlidesOf({x}), 0), Call("drop", {x}, 0)>>
           /\ x \in Projects =>
                 PurgeCalls(x) = <<Call("drop", SlidesOf(LecturesIn(x)), 0),
                                   Call("drop", LecturesIn(x), 0), Call("drop", {x}, 0)>>
           /\ x \in Accounts =>
                 PurgeCalls(x) = <<Call("drop", SlidesOf(OwnedBy(x, Lectures)), 0),
                                   Call("drop", OwnedBy(x, Lectures), 0),
                                   Call("purgeProjects", {x}, 0), Call("drop", {x}, 0)>>
    BY KindsAreApart DEF PurgeCalls

LEMMA PurgeStartsWith ==
    ASSUME CascadeShape, NEW r \in Requests, PurgeStarts(r)
    PROVE  LET x == Target(r)
               next == PurgeCalls(x)
           IN  /\ r \in Active /\ Does(r, "purge") /\ now' = now /\ now \in Nat
               /\ x \in Records \ Slides /\ Of(r).on = {x} /\ Of(r).do = "purge"
               /\ next \in Seq(CallRecords) /\ Then(r, next)
               /\ \A i \in DOMAIN next : CallFits(r, next[i], now')
<1> DEFINE x == Target(r)
           next == PurgeCalls(x)
<1>1. r \in Active /\ Of(r).do = "purge"
    BY DEF PurgeStarts, At, Of
<1>2. now' = now /\ now \in Nat /\ 0 <= now + 1
    BY CascadeAssumption DEF PurgeStarts, CascadeShape, RecordsUnchanged
<1>3. Does(r, "purge") /\ PurgeCall(Of(r), now)
    BY <1>1, HeadIs DEF PurgeDo
<1>4. PICK y \in Records \ Slides : Of(r).on = {y}
    BY <1>1, <1>3 DEF PurgeCall, Names
<1>5. x \in Records \ Slides /\ Of(r).on = {x}
    BY <1>1, <1>4, TargetIs
<1>6. ASSUME NEW on \in SUBSET Records
      PROVE  Call("drop", on, 0) \in CallRecords /\ CallFits(r, Call("drop", on, 0), now')
    <2>1. "drop" \in PurgeDo /\ "drop" # "purge" /\ "drop" # "purgeProjects"
        BY DEF PurgeDo
    <2> QED
        BY <1>1, <1>2, <1>3, <2>1, PurgeFits
<1>7. ASSUME NEW ls \in SUBSET Lectures PROVE SlidesOf(ls) \in SUBSET Records
    BY KindsAreApart DEF SlidesOf
<1>8. {x} \in SUBSET Records
    BY <1>5
<1>9. next \in Seq(CallRecords) /\ \A i \in DOMAIN next : CallFits(r, next[i], now')
    <2>1. CASE x \in Lectures
        <3> DEFINE c == Call("drop", SlidesOf({x}), 0)
                   d == Call("drop", {x}, 0)
        <3>1. c \in CallRecords /\ CallFits(r, c, now')
            BY <1>6, <1>7, <2>1
        <3>2. d \in CallRecords /\ CallFits(r, d, now')
            BY <1>6, <1>8
        <3>3. next = <<c, d>>
            BY <1>5, <2>1, PurgeCallsAre
        <3> HIDE DEF c, d, next
        <3> QED
            BY <3>1, <3>2, <3>3
    <2>2. CASE x \in Projects
        <3> DEFINE a == Call("drop", SlidesOf(LecturesIn(x)), 0)
                   c == Call("drop", LecturesIn(x), 0)
                   d == Call("drop", {x}, 0)
        <3>0. LecturesIn(x) \in SUBSET Lectures /\ LecturesIn(x) \in SUBSET Records
            BY KindsAreApart DEF LecturesIn
        <3>1. a \in CallRecords /\ CallFits(r, a, now')
            BY <1>6, <1>7, <3>0
        <3>2. c \in CallRecords /\ CallFits(r, c, now')
            BY <1>6, <3>0
        <3>3. d \in CallRecords /\ CallFits(r, d, now')
            BY <1>6, <1>8
        <3>4. next = <<a, c, d>>
            BY <1>5, <2>2, PurgeCallsAre
        <3> HIDE DEF a, c, d, next
        <3> QED
            BY <3>1, <3>2, <3>3, <3>4
    <2>3. CASE x \in Accounts
        <3> DEFINE a == Call("drop", SlidesOf(OwnedBy(x, Lectures)), 0)
                   b == Call("drop", OwnedBy(x, Lectures), 0)
                   c == Call("purgeProjects", {x}, 0)
                   d == Call("drop", {x}, 0)
        <3>0. OwnedBy(x, Lectures) \in SUBSET Lectures /\ OwnedBy(x, Lectures) \in SUBSET Records
            BY KindsAreApart DEF OwnedBy
        <3>1. a \in CallRecords /\ CallFits(r, a, now')
            BY <1>6, <1>7, <3>0
        <3>2. b \in CallRecords /\ CallFits(r, b, now')
            BY <1>6, <3>0
        <3>3. c \in CallRecords /\ CallFits(r, c, now')
            <4>1. "purgeProjects" \in PurgeDo /\ "purgeProjects" # "purge"
                BY DEF PurgeDo
            <4> QED
                BY <1>1, <1>2, <1>3, <1>8, <2>3, <4>1, PurgeFits
        <3>4. d \in CallRecords /\ CallFits(r, d, now')
            BY <1>6, <1>8
        <3>5. next = <<a, b, c, d>>
            BY <1>5, <2>3, PurgeCallsAre
        <3> HIDE DEF a, b, c, d, next
        <3> QED
            BY <3>1, <3>2, <3>3, <3>4, <3>5
    <2> QED
        BY <1>5, <2>1, <2>2, <2>3, KindsAreApart
<1>10. Then(r, next)
    BY DEF PurgeStarts
<1> QED
    BY <1>1, <1>2, <1>3, <1>5, <1>9, <1>10

LEMMA PurgeProjectsWith ==
    ASSUME CascadeShape, NEW r \in Requests, PurgeProjects(r)
    PROVE  LET x == Target(r)
               ps == OwnedBy(x, Projects) \intersect Stored
               next == Each("purge", ps, 0)
           IN  /\ r \in Active /\ Does(r, "purge") /\ now' = now /\ now \in Nat
               /\ x \in Accounts /\ Of(r).on = {x} /\ Of(r).do = "purgeProjects"
               /\ ps \subseteq Records \ Slides
               /\ next \in Seq(CallRecords) /\ Then(r, next)
               /\ \A i \in DOMAIN next : CallFits(r, next[i], now')
<1> DEFINE x == Target(r)
           ps == OwnedBy(x, Projects) \intersect Stored
           next == Each("purge", ps, 0)
<1>1. r \in Active /\ Of(r).do = "purgeProjects"
    BY DEF PurgeProjects, At, Of
<1>2. now' = now /\ now \in Nat
    BY CascadeAssumption DEF PurgeProjects, CascadeShape, RecordsUnchanged
<1>3. Does(r, "purge") /\ PurgeCall(Of(r), now)
    BY <1>1, HeadIs DEF PurgeDo
<1>4. PICK y \in Accounts : Of(r).on = {y}
    BY <1>1, <1>3 DEF PurgeCall, Names
<1>5. x \in Accounts /\ Of(r).on = {x}
    BY <1>1, <1>4, TargetIs
<1>6. ps \subseteq Records \ Slides
    BY KindsAreApart DEF OwnedBy
<1>7. Then(r, next)
    BY DEF PurgeProjects
<1> HIDE DEF ps
<1>8. next \in Seq(CallRecords) /\ \A i \in DOMAIN next : CallFits(r, next[i], now)
    BY <1>1, <1>3, <1>6, EachPurgeFits
<1> QED
    BY <1>1, <1>2, <1>3, <1>5, <1>6, <1>7, <1>8 DEF ps

LEMMA DropWith ==
    ASSUME CascadeShape, NEW r \in Requests, Drop(r)
    PROVE  /\ r \in Active /\ Does(r, "purge") /\ now' = now /\ now \in Nat
           /\ Of(r).do = "drop" /\ Of(r).on \subseteq Records
           /\ Then(r, <<>>)
<1>1. r \in Active /\ Of(r).do = "drop"
    BY DEF Drop, At, Of
<1> QED
    BY <1>1, HeadIs, CascadeAssumption DEF Drop, CascadeShape, PurgeDo

-----------------------------------------------------------------------------
(* Requests begin and die.                                                 *)

LEMMA ClashingIs ==
    ASSUME CascadeShape
    PROVE  /\ \A x, z : z \in Clashing("purge", x) <=>
                 \E q \in Active : Does(q, "restore") /\ z \in Below(About(q))
           /\ \A x \in Records : \A z : z \in Clashing("delete", x) <=>
                 /\ z \in Below(x)
                 /\ \E q \in Active : (Does(q, "restore") \/ Does(q, "delete")) /\ z \in Below(About(q))
           /\ \A x \in Records : \A z : z \in Clashing("restore", x) <=>
                 /\ z \in Below(x)
                 /\ \E q \in Active : Does(q, "purge") \/ z \in Below(About(q))
<1>1. \A q \in Active : Does(q, "restore") \/ Does(q, "delete") => About(q) # Purge
    BY RequestIs, KindsAreApart
<1>2. \A q \in Active : About(q) = Purge <=> Does(q, "purge")
    BY RequestIs, KindsAreApart
<1>3. \A x, z : z \in Clashing("purge", x) <=>
                 \E q \in Active : Does(q, "restore") /\ z \in Below(About(q))
    BY DEF Clashing
<1>4. \A x \in Records : \A z : z \in Clashing("delete", x) <=>
                 /\ z \in Below(x)
                 /\ \E q \in Active : (Does(q, "restore") \/ Does(q, "delete")) /\ z \in Below(About(q))
    BY <1>1 DEF Clashing
<1>5. \A x \in Records : \A z : z \in Clashing("restore", x) <=>
                 /\ z \in Below(x)
                 /\ \E q \in Active : Does(q, "purge") \/ z \in Below(About(q))
    BY <1>2 DEF Clashing
<1> QED
    BY <1>3, <1>4, <1>5

\* A request begins with one call.
BeginsAs(r, what, x, first) ==
    /\ what \in {"delete", "restore", "purge"}
    /\ IF what = "purge" THEN x = Purge ELSE x \in Records
    /\ first \in CallRecords /\ r \notin Active /\ Begin(r, what, x, first)
    /\ \/ what = "delete" /\ DeleteCall(first, now) /\ first.on \subseteq Below(x)
       \/ what = "restore" /\ RestoreCall(first, now) /\ first.on \subseteq Below(x)
       \/ what = "purge" /\ PurgeCall(first, now)

LEMMA BeginIs ==
    ASSUME CascadeShape, NEW r \in Requests,
           NEW what, NEW x, NEW first, BeginsAs(r, what, x, first)
    PROVE  /\ r \notin Active /\ Active' = Active \union {r}
           /\ Does(r, what)' /\ About(r)' = x
           /\ \A w \in {"delete", "restore", "purge"} : Does(r, w)' <=> w = what
           /\ calls'[r] = <<first>> /\ DOMAIN calls'[r] = {1} /\ calls'[r][1] = first
           /\ Len(calls'[r]) = 1
           /\ \A q \in Requests \ {r} : calls'[q] = calls[q] /\ root'[q] = root[q]
           /\ mixed' = mixed \union Clashing(what, x) /\ Clashing(what, x) \subseteq Records
           /\ disturbances' \in 0..MaxDisturbances
           /\ UNCHANGED <<stamp, gone, now, killer, adrift>>
           /\ CallsShape'
<1>1. /\ r \notin Active /\ root' = [root EXCEPT ![r] = <<what, x>>]
      /\ calls' = [calls EXCEPT ![r] = <<first>>]
      /\ mixed' = mixed \union Clashing(what, x)
      /\ UNCHANGED <<stamp, gone, now, killer, adrift>>
    BY DEF Begin, Disturbs, BeginsAs
<1>2. disturbances' \in 0..MaxDisturbances
    <2>1. disturbances \in Nat
        BY CascadeAssumption DEF CascadeShape
    <2>2. disturbances' = disturbances + (IF Clashing(what, x) = {} THEN 0 ELSE 1)
          /\ disturbances' <= MaxDisturbances
        BY DEF Begin, Disturbs, BeginsAs
    <2> QED
        BY <2>1, <2>2, CascadeAssumption
<1>3. Clashing(what, x) \subseteq Records
    <2>1. \A q \in Active : Does(q, "restore") => Below(About(q)) \subseteq Records
        BY RequestIs, BelowItself
    <2>2. what # "purge" => x \in Records /\ Below(x) \subseteq Records
        BY BelowItself DEF BeginsAs
    <2>3. what \in {"delete", "restore", "purge"}
        BY DEF BeginsAs
    <2> QED
        BY <2>1, <2>2, <2>3, ClashingIs
<1>4. /\ root'[r] = <<what, x>> /\ calls'[r] = <<first>>
      /\ \A q \in Requests \ {r} : calls'[q] = calls[q] /\ root'[q] = root[q]
      /\ DOMAIN root' = Requests /\ first \in CallRecords
    BY <1>1 DEF CascadeShape, BeginsAs
<1>5. /\ DOMAIN calls'[r] = {1} /\ calls'[r][1] = first /\ Len(calls'[r]) = 1
      /\ calls'[r] \in Seq(CallRecords) /\ calls'[r] # <<>>
    BY <1>4
<1>6. root'[r] # <<>> /\ root'[r][1] = what /\ root'[r][2] = x
    BY <1>4
<1>7. Active' = Active \union {r}
    BY <1>4, <1>6 DEF Active
<1>8. /\ Does(r, what)' /\ About(r)' = x
      /\ \A w \in {"delete", "restore", "purge"} : Does(r, w)' <=> w = what
    BY <1>6, <1>7 DEF Does, About
<1>9. CallsShape'
    <2>1. calls' \in [Requests -> Seq(CallRecords)]
        BY <1>1, <1>5, <1>4 DEF CascadeShape
    <2>2. \A q \in Requests \ {r} : RequestShape(q)'
        BY <1>1, <1>4, OtherShape, CascadeAssumption DEF CascadeShape
    <2>3. CallFits(r, first, now)'
        BY <1>1, <1>8 DEF CallFits, DeleteCall, RestoreCall, PurgeCall, BeginsAs
    <2>4. \A i \in DOMAIN calls'[r] : CallFits(r, calls[r][i], now)'
        BY <1>5, <2>3
    <2>5. RequestShape(r)'
        BY <1>4, <1>5, <1>7, <2>4 DEF RequestShape, BeginsAs
    <2> QED
        BY <1>4, <2>1, <2>2, <2>5 DEF CallsShape
<1> QED
    BY <1>1, <1>2, <1>3, <1>4, <1>5, <1>7, <1>8, <1>9

LEMMA DeleteBegins ==
    ASSUME CascadeShape, NEW r \in Requests, NEW x \in Records, Delete(r, x)
    PROVE  LET first == Call("delete", {x}, 0)
           IN  /\ BeginsAs(r, "delete", x, first)
               /\ first.do = "delete" /\ first.on = {x} /\ first.at = 0
<1>1. 0 \in 0..MaxTime + 1 /\ 0 <= now /\ {x} \subseteq Below(x)
    BY CascadeAssumption, BelowItself DEF CascadeShape
<1> DEFINE first == Call("delete", {x}, 0)
<1>2. first \in CallRecords
    BY <1>1, CallTyped DEF DeleteDo
<1>3. first.do = "delete" /\ first.on = {x} /\ first.at = 0
    BY CallFields
<1>4. r \notin Active /\ Begin(r, "delete", x, first)
    BY DEF Delete
<1> HIDE DEF first
<1>5. DeleteCall(first, now)
    BY <1>1, <1>3 DEF DeleteCall, DeleteDo, Names
<1> QED
    BY <1>1, <1>2, <1>3, <1>4, <1>5 DEF first, BeginsAs

LEMMA RestoreBegins ==
    ASSUME CascadeShape, NEW r \in Requests, NEW x \in Records, Restore(r, x)
    PROVE  LET first == Call("restore", {x}, 0)
           IN  /\ BeginsAs(r, "restore", x, first)
               /\ first.do = "restore" /\ first.on = {x} /\ first.at = 0
               /\ x \notin Slides /\ x \notin gone /\ x \in Dead
<1>1. 0 \in 0..MaxTime + 1 /\ 0 <= now /\ {x} \subseteq Below(x)
    BY CascadeAssumption, BelowItself DEF CascadeShape
<1> DEFINE first == Call("restore", {x}, 0)
<1>2. first \in CallRecords
    BY <1>1, CallTyped DEF RestoreDo
<1>3. first.do = "restore" /\ first.on = {x} /\ first.at = 0
    BY CallFields
<1>4. r \notin Active /\ Begin(r, "restore", x, first) /\ x \notin Slides /\ x \notin gone /\ x \in Dead
    BY DEF Restore
<1> HIDE DEF first
<1>5. RestoreCall(first, now)
    BY <1>1, <1>3, <1>4 DEF RestoreCall, RestoreDo, Names
<1> QED
    BY <1>1, <1>2, <1>3, <1>4, <1>5 DEF first, BeginsAs

LEMMA SweepBegins ==
    ASSUME CascadeShape, NEW r \in Requests, Sweep(r)
    PROVE  \E first : /\ BeginsAs(r, "purge", Purge, first)
                      /\ first.do = "users" /\ first.on = {}
<1>1. PICK cutoff \in 1..now + 1 : r \notin Active /\ Begin(r, "purge", Purge, Call("users", {}, cutoff))
    BY DEF Sweep
<1>2. cutoff \in 0..MaxTime + 1 /\ cutoff <= now + 1
    BY CascadeAssumption DEF CascadeShape
<1> DEFINE first == Call("users", {}, cutoff)
<1>3. first \in CallRecords
    BY <1>2, CallTyped DEF PurgeDo, LookDo
<1>4. first.do = "users" /\ first.on = {} /\ first.at = cutoff
    BY CallFields
<1>5. r \notin Active /\ Begin(r, "purge", Purge, first)
    BY <1>1
<1> HIDE DEF first
<1>6. PurgeCall(first, now)
    BY <1>2, <1>4 DEF PurgeCall, PurgeDo, LookDo
<1> QED
    BY <1>3, <1>4, <1>5, <1>6 DEF BeginsAs

LEMMA DieIs ==
    ASSUME CascadeShape, NEW r \in Requests, Die(r)
    PROVE  /\ r \in Active /\ Active' = Active \ {r}
           /\ \A q \in Requests \ {r} : calls'[q] = calls[q] /\ root'[q] = root[q]
           /\ mixed' = mixed \union (IF About(r) = Purge THEN {} ELSE Below(About(r)))
           /\ mixed' \subseteq Records
           /\ disturbances' \in 0..MaxDisturbances
           /\ UNCHANGED <<stamp, gone, now, sweeps, killer, own, adrift>>
           /\ CallsShape'
<1>1. /\ r \in Active /\ root' = [root EXCEPT ![r] = <<>>]
      /\ calls' = [calls EXCEPT ![r] = <<>>]
      /\ mixed' = mixed \union (IF About(r) = Purge THEN {} ELSE Below(About(r)))
      /\ UNCHANGED <<stamp, gone, now, sweeps, killer, own, adrift>>
    BY DEF Die, Disturbs
<1>2. disturbances' \in 0..MaxDisturbances
    <2> DEFINE xs == IF About(r) = Purge THEN {} ELSE Below(About(r))
    <2>1. disturbances \in Nat
        BY CascadeAssumption DEF CascadeShape
    <2>2. disturbances' = disturbances + (IF xs = {} THEN 0 ELSE 1)
          /\ disturbances' <= MaxDisturbances
        BY DEF Die, Disturbs
    <2> HIDE DEF xs
    <2> QED
        BY <2>1, <2>2, CascadeAssumption
<1>3. /\ root'[r] = <<>> /\ calls'[r] = <<>> /\ DOMAIN root' = Requests
      /\ \A q \in Requests \ {r} : calls'[q] = calls[q] /\ root'[q] = root[q]
    BY <1>1 DEF CascadeShape
<1>4. Active' = Active \ {r}
    BY <1>3 DEF Active
<1>5. mixed' \subseteq Records
    <2>1. About(r) # Purge => Below(About(r)) \subseteq Records
        BY <1>1, RequestIs, BelowItself
    <2> QED
        BY <1>1, <2>1 DEF CascadeShape
<1>6. CallsShape'
    <2>1. calls' \in [Requests -> Seq(CallRecords)]
        BY <1>1, EmptyCalls DEF CascadeShape
    <2>2. \A q \in Requests \ {r} : RequestShape(q)'
        BY <1>1, <1>3, OtherShape, CascadeAssumption DEF CascadeShape
    <2>3. RequestShape(r)'
        BY <1>3, <1>4 DEF RequestShape
    <2> QED
        BY <1>3, <2>1, <2>2, <2>3 DEF CallsShape
<1> QED
    BY <1>1, <1>2, <1>3, <1>4, <1>5, <1>6

-----------------------------------------------------------------------------
(* The shape of the state.                                                 *)

LEMMA ShapeIs == CascadeShape <=> RecordsShape /\ CallsShape
    BY DEF CascadeShape, RecordsShape, CallsShape

LEMMA AliveIs ==
    /\ \A x : x \in Alive <=> x \in Records /\ x \notin gone /\ stamp[x] = Live
    /\ \A x : x \in Dead <=> x \in Records /\ (x \in gone \/ stamp[x] # Live)
    /\ \A x : x \in Stored <=> x \in Records /\ x \notin gone
    /\ \A x : x \in Settled <=> x \in Records /\ x \notin gone /\ x \notin mixed
    BY DEF Alive, Dead, Stored, Settled

LEMMA QuietShape ==
    ASSUME CascadeShape, RecordsUnchanged, CountsUnchanged, NEW r \in Active,
           NEW next \in Seq(CallRecords), Then(r, next)
    PROVE  RecordsShape'
<1>1. adrift' \in SUBSET Records
    BY AdriftIs
<1> QED
    BY <1>1 DEF CascadeShape, RecordsShape, RecordsUnchanged, CountsUnchanged

LEMMA StampShape ==
    ASSUME CascadeShape, NEW r \in Active, NEW x \in Records, Stamp(r, x),
           x \in Below(About(r)), About(r) \in Records, Of(r).at \in 1..MaxTime, Of(r).at <= now,
           NEW next \in Seq(CallRecords), Then(r, next)
    PROVE  RecordsShape'
<1>1. adrift' \in SUBSET Records
    BY AdriftIs
<1>2. /\ stamp' = [stamp EXCEPT ![x] = Of(r).at] /\ killer' = [killer EXCEPT ![x] = About(r)]
      /\ gone' = gone /\ now' = now /\ sweeps' = sweeps /\ disturbances' = disturbances
      /\ own' = own /\ mixed' = mixed
    BY DEF Stamp, CountsUnchanged
<1>3. stamp' \in [Records -> 0..MaxTime] /\ \A y \in Records : stamp'[y] <= now'
    BY <1>2 DEF CascadeShape
<1>4. killer' \in [Records -> Records] /\ \A y \in Records : y \in Below(killer'[y])
    BY <1>2 DEF CascadeShape
<1> QED
    BY <1>1, <1>2, <1>3, <1>4 DEF CascadeShape, RecordsShape

LEMMA ShapeStep == CascadeShape /\ [Next]_vars => CascadeShape'
<1> SUFFICES ASSUME CascadeShape, [Next]_vars PROVE CascadeShape'
    OBVIOUS
<1> SUFFICES RecordsShape' /\ CallsShape'
    BY ShapeIs DEF CascadeShape, RecordsShape, CallsShape
<1>1. ASSUME NEW r \in Requests, NEW x \in Records, Delete(r, x)
      PROVE  RecordsShape' /\ CallsShape'
    <2>1. /\ mixed' = mixed \union Clashing("delete", x) /\ Clashing("delete", x) \subseteq Records
          /\ disturbances' \in 0..MaxDisturbances
          /\ UNCHANGED <<stamp, gone, now, killer, adrift>> /\ CallsShape'
        <3> DEFINE first == Call("delete", {x}, 0)
        <3>1. BeginsAs(r, "delete", x, first)
            BY <1>1, DeleteBegins
        <3> HIDE DEF first
        <3> QED
            BY <3>1, BeginIs
    <2>2. own' \in SUBSET Records /\ sweeps' = sweeps
        BY <1>1 DEF Delete, CascadeShape
    <2> QED
        BY <2>1, <2>2 DEF CascadeShape, RecordsShape
<1>2. ASSUME NEW r \in Requests, NEW x \in Records, Restore(r, x)
      PROVE  RecordsShape' /\ CallsShape'
    <2>1. /\ mixed' = mixed \union Clashing("restore", x) /\ Clashing("restore", x) \subseteq Records
          /\ disturbances' \in 0..MaxDisturbances
          /\ UNCHANGED <<stamp, gone, now, killer, adrift>> /\ CallsShape'
        <3> DEFINE first == Call("restore", {x}, 0)
        <3>1. BeginsAs(r, "restore", x, first)
            BY <1>2, RestoreBegins
        <3> HIDE DEF first
        <3> QED
            BY <3>1, BeginIs
    <2>2. own' \in SUBSET Records /\ sweeps' = sweeps
        BY <1>2 DEF Restore, CascadeShape
    <2> QED
        BY <2>1, <2>2 DEF CascadeShape, RecordsShape
<1>3. ASSUME NEW r \in Requests, Sweep(r)
      PROVE  RecordsShape' /\ CallsShape'
    <2>1. /\ mixed' = mixed \union Clashing("purge", Purge)
          /\ Clashing("purge", Purge) \subseteq Records
          /\ disturbances' \in 0..MaxDisturbances
          /\ UNCHANGED <<stamp, gone, now, killer, adrift>> /\ CallsShape'
        BY <1>3, SweepBegins, BeginIs
    <2>2. own' = own /\ sweeps' \in 0..MaxSweeps
        BY <1>3, CascadeAssumption DEF Sweep, CascadeShape
    <2> QED
        BY <2>1, <2>2 DEF CascadeShape, RecordsShape
<1>4. ASSUME NEW r \in Requests, DeleteStarts(r)
      PROVE  RecordsShape' /\ CallsShape'
    <2> DEFINE next == DeleteCalls(Target(r), now')
    <2>1. /\ r \in Active /\ now' = now + 1 /\ now' \in 1..MaxTime
          /\ next \in Seq(CallRecords) /\ Then(r, next)
          /\ \A i \in DOMAIN next : CallFits(r, next[i], now')
        BY <1>4, DeleteStartsWith
    <2> HIDE DEF next
    <2>2. now \in Nat /\ now' \in Nat /\ now <= now'
        BY <2>1, CascadeAssumption DEF CascadeShape
    <2>3. CallsShape'
        BY <2>1, <2>2, ThenShape
    <2>4. adrift' \in SUBSET Records
        BY <2>1, AdriftIs
    <2>5. UNCHANGED <<stamp, gone, killer>> /\ CountsUnchanged
        BY <1>4 DEF DeleteStarts
    <2>6. \A x \in Records : stamp[x] <= now'
        BY <2>2, CascadeAssumption DEF CascadeShape
    <2> QED
        BY <2>1, <2>3, <2>4, <2>5, <2>6 DEF CascadeShape, RecordsShape, CountsUnchanged
<1>5. ASSUME NEW r \in Active, NEW next \in Seq(CallRecords), Then(r, next),
             RecordsUnchanged, CountsUnchanged, now' = now, now \in Nat,
             \A i \in DOMAIN next : CallFits(r, next[i], now')
      PROVE  RecordsShape' /\ CallsShape'
    BY <1>5, QuietShape, ThenShape
<1>6. ASSUME NEW r \in Requests, DeleteProjects(r)
      PROVE  RecordsShape' /\ CallsShape'
    BY <1>5, <1>6, DeleteProjectsWith DEF DeleteProjects
<1>7. ASSUME NEW r \in Requests, StampMany(r)
      PROVE  RecordsShape' /\ CallsShape'
    <2>0. /\ r \in Active /\ now' = now /\ now \in Nat
          /\ About(r) \in Records /\ Of(r).on \subseteq Below(About(r)) /\ Of(r).on \subseteq Records
          /\ Of(r).at \in 1..MaxTime /\ Of(r).at <= now
        BY <1>7, StampManyWith
    <2>1. /\ r \in Active /\ now' = now /\ now \in Nat /\ now <= now'
          /\ About(r) \in Records /\ Of(r).on \subseteq Below(About(r)) /\ Of(r).on \subseteq Records
          /\ Of(r).at \in 1..MaxTime /\ Of(r).at <= now
        BY <2>0
    <2> DEFINE left == Of(r).on \intersect Alive
    <2>2. CASE \E x \in left :
                  /\ Stamp(r, x)
                  /\ Then(r, Others(r, x, left))
                  /\ Others(r, x, left) \in Seq(CallRecords)
                  /\ \A i \in DOMAIN Others(r, x, left) : CallFits(r, Others(r, x, left)[i], now')
        <3>1. PICK x \in left :
                  /\ Stamp(r, x)
                  /\ Then(r, Others(r, x, left))
                  /\ Others(r, x, left) \in Seq(CallRecords)
                  /\ \A i \in DOMAIN Others(r, x, left) : CallFits(r, Others(r, x, left)[i], now')
            BY <2>2
        <3>2. x \in Records /\ x \in Below(About(r))
            BY <2>1
        <3> HIDE DEF left
        <3>3. RecordsShape'
            BY <2>1, <3>1, <3>2, StampShape
        <3> QED
            BY <2>1, <3>1, <3>3, ThenShape
    <2>3. CASE left = {} /\ RecordsUnchanged /\ CountsUnchanged /\ Then(r, <<>>)
        BY <1>5, <2>1, <2>3, EmptyCalls
    <2> QED
        BY <1>7, <2>2, <2>3, StampManyWith
<1>8. ASSUME NEW r \in Requests, Save(r)
      PROVE  RecordsShape' /\ CallsShape'
    <2>1. /\ r \in Active /\ now' = now /\ now \in Nat /\ now <= now'
          /\ About(r) \in Records /\ Target(r) \in Below(About(r)) /\ Target(r) \in Records
          /\ Of(r).at \in 1..MaxTime /\ Of(r).at <= now /\ Then(r, <<>>)
        BY <1>8, SaveWith
    <2>2. CASE Stamp(r, Target(r))
        <3>1. RecordsShape'
            BY <2>1, <2>2, StampShape, EmptyCalls
        <3> QED
            BY <2>1, <3>1, ThenShape, EmptyCalls
    <2>3. CASE RecordsUnchanged /\ CountsUnchanged
        BY <1>5, <2>1, <2>3, EmptyCalls
    <2> QED
        BY <1>8, <2>2, <2>3, SaveWith
<1>9. ASSUME NEW r \in Requests, RestoreStarts(r)
      PROVE  RecordsShape' /\ CallsShape'
    <2> DEFINE x == Target(r)
               next == Append(RestoreCalls(x, stamp[x]), Call("revive", {x}, 0))
    <2>1. /\ r \in Active /\ now' = now /\ now \in Nat
          /\ \/ Then(r, <<>>)
             \/ /\ next \in Seq(CallRecords) /\ Then(r, next)
                /\ \A i \in DOMAIN next : CallFits(r, next[i], now')
        BY <1>9, RestoreStartsWith
    <2>2. RecordsUnchanged /\ CountsUnchanged
        BY <1>9 DEF RestoreStarts
    <2> HIDE DEF next
    <2> QED
        BY <1>5, <2>1, <2>2, EmptyCalls
<1>10. ASSUME NEW r \in Requests, RestoreProjects(r)
       PROVE  RecordsShape' /\ CallsShape'
    BY <1>5, <1>10, RestoreProjectsWith DEF RestoreProjects
<1>11. ASSUME NEW r \in Requests, Revive(r)
       PROVE  RecordsShape' /\ CallsShape'
    <2>1. /\ r \in Active /\ now' = now /\ now \in Nat /\ now <= now' /\ CountsUnchanged
          /\ Of(r).on \subseteq Records /\ Revivable(r) \subseteq Of(r).on
        BY <1>11, ReviveWith
    <2>2. CASE \E x \in Revivable(r) :
                   /\ stamp' = [stamp EXCEPT ![x] = Live]
                   /\ killer' = [killer EXCEPT ![x] = x]
                   /\ gone' = gone
                   /\ Then(r, Others(r, x, Revivable(r)))
                   /\ Others(r, x, Revivable(r)) \in Seq(CallRecords)
                   /\ \A i \in DOMAIN Others(r, x, Revivable(r)) :
                         CallFits(r, Others(r, x, Revivable(r))[i], now')
        <3>1. PICK x \in Revivable(r) :
                   /\ stamp' = [stamp EXCEPT ![x] = Live]
                   /\ killer' = [killer EXCEPT ![x] = x]
                   /\ gone' = gone
                   /\ Then(r, Others(r, x, Revivable(r)))
                   /\ Others(r, x, Revivable(r)) \in Seq(CallRecords)
                   /\ \A i \in DOMAIN Others(r, x, Revivable(r)) :
                         CallFits(r, Others(r, x, Revivable(r))[i], now')
            BY <2>2
        <3>2. x \in Records /\ Live \in 0..MaxTime /\ Live <= now
            BY <2>1, CascadeAssumption DEF Live
        <3>3. stamp' \in [Records -> 0..MaxTime] /\ \A y \in Records : stamp'[y] <= now'
            BY <2>1, <3>1, <3>2 DEF CascadeShape
        <3>4. killer' \in [Records -> Records] /\ \A y \in Records : y \in Below(killer'[y])
            BY <3>1, <3>2, BelowItself DEF CascadeShape
        <3>5. adrift' \in SUBSET Records
            BY <2>1, <3>1, AdriftIs
        <3>6. RecordsShape'
            BY <2>1, <3>1, <3>3, <3>4, <3>5 DEF CascadeShape, RecordsShape, CountsUnchanged
        <3> QED
            BY <2>1, <3>1, <3>6, ThenShape
    <2>3. CASE RecordsUnchanged /\ Then(r, <<>>)
        BY <1>5, <2>1, <2>3, EmptyCalls
    <2> QED
        BY <1>11, <2>2, <2>3, ReviveWith
<1>12. ASSUME NEW r \in Requests, PurgeLooks(r)
       PROVE  RecordsShape' /\ CallsShape'
    <2> DEFINE t == Of(r).at
               one == Append(Each("purge", Expired(Level(Of(r).do), t), 0),
                             Call(NextLevel(Of(r).do), {}, t))
               two == <<Call("drop", Expired(Slides, t), 0)>>
    <2>1. /\ r \in Active /\ now' = now /\ now \in Nat
          /\ \/ /\ one \in Seq(CallRecords) /\ Then(r, one)
                /\ \A i \in DOMAIN one : CallFits(r, one[i], now')
             \/ /\ two \in Seq(CallRecords) /\ Then(r, two)
                /\ \A i \in DOMAIN two : CallFits(r, two[i], now')
        BY <1>12, PurgeLooksWith
    <2>2. RecordsUnchanged /\ CountsUnchanged
        BY <1>12 DEF PurgeLooks
    <2> HIDE DEF one, two
    <2> QED
        BY <1>5, <2>1, <2>2
<1>13. ASSUME NEW r \in Requests, PurgeStarts(r)
       PROVE  RecordsShape' /\ CallsShape'
    BY <1>5, <1>13, PurgeStartsWith DEF PurgeStarts
<1>14. ASSUME NEW r \in Requests, PurgeProjects(r)
       PROVE  RecordsShape' /\ CallsShape'
    BY <1>5, <1>14, PurgeProjectsWith DEF PurgeProjects
<1>15. ASSUME NEW r \in Requests, Drop(r)
       PROVE  RecordsShape' /\ CallsShape'
    <2>1. /\ r \in Active /\ now' = now /\ now \in Nat /\ now <= now'
          /\ Of(r).on \subseteq Records /\ Then(r, <<>>)
        BY <1>15, DropWith
    <2>2. /\ gone' = gone \union Of(r).on
          /\ stamp' = [x \in Records |-> IF x \in Of(r).on THEN Live ELSE stamp[x]]
          /\ killer' = [x \in Records |-> IF x \in Of(r).on THEN x ELSE killer[x]]
          /\ own' = own \ Of(r).on /\ mixed' = mixed \ Of(r).on
          /\ UNCHANGED <<now, sweeps, disturbances>>
        BY <1>15 DEF Drop
    <2>3. Live \in 0..MaxTime /\ Live <= now
        BY <2>1, CascadeAssumption DEF Live
    <2>4. stamp' \in [Records -> 0..MaxTime] /\ \A y \in Records : stamp'[y] <= now'
        BY <2>2, <2>3 DEF CascadeShape
    <2>5. killer' \in [Records -> Records] /\ \A y \in Records : y \in Below(killer'[y])
        BY <2>2, BelowItself DEF CascadeShape
    <2>6. adrift' \in SUBSET Records
        BY <2>1, AdriftIs, EmptyCalls
    <2>7. RecordsShape'
        BY <2>1, <2>2, <2>4, <2>5, <2>6 DEF CascadeShape, RecordsShape
    <2> QED
        BY <2>1, <2>7, ThenShape, EmptyCalls
<1>16. ASSUME NEW r \in Requests, Die(r)
       PROVE  RecordsShape' /\ CallsShape'
    <2>1. /\ mixed' \subseteq Records /\ disturbances' \in 0..MaxDisturbances
          /\ UNCHANGED <<stamp, gone, now, sweeps, killer, own, adrift>> /\ CallsShape'
        BY <1>16, DieIs
    <2> QED
        BY <2>1 DEF CascadeShape, RecordsShape
<1>17. CASE UNCHANGED vars
    BY <1>17 DEF vars, CascadeShape, RecordsShape, CallsShape, RequestShape, Active, CallFits, Does, About
<1> QED
    BY <1>1, <1>2, <1>3, <1>4, <1>6, <1>7, <1>8, <1>9, <1>10, <1>11, <1>12, <1>13, <1>14, <1>15, <1>16,
       <1>17 DEF Next

-----------------------------------------------------------------------------
(* What the steps of one request are for the others.                       *)

\* Requests go on as they were; records removed stay removed, and mixed ones mixed; a
\* deletion and a restore touch what lies below the record they are about, and only a
\* restore brings anything back.
Passes(r) ==
    /\ \A q \in Requests \ {r} : calls'[q] = calls[q] /\ root'[q] = root[q]
    /\ Active' \ {r} = Active \ {r}
    /\ r \in Active /\ r \in Active' => root'[r] = root[r]
    /\ now <= now'
    /\ gone \subseteq gone' /\ mixed \subseteq mixed' \union gone'
    /\ \A x \in Records \ gone' :
          \/ stamp'[x] = stamp[x] /\ killer'[x] = killer[x]
          \/ (Does(r, "delete") \/ Does(r, "restore")) /\ x \in Below(About(r))
    /\ \A x \in Dead \ Dead' : Does(r, "restore") /\ x \in Below(About(r)) /\ x \notin gone

LEMMA QuietPasses ==
    ASSUME CascadeShape, NEW r \in Requests, UNCHANGED <<stamp, gone, killer>>, now <= now',
           mixed \subseteq mixed',
           \A q \in Requests \ {r} : calls'[q] = calls[q] /\ root'[q] = root[q],
           Active' \ {r} = Active \ {r},
           r \in Active /\ r \in Active' => root'[r] = root[r]
    PROVE  Passes(r)
<1>1. Dead' = Dead
    BY DEF Dead, Alive, Stored
<1> QED
    BY <1>1 DEF Passes

LEMMA ThenQuiet ==
    ASSUME CascadeShape, NEW r \in Active, NEW next \in Seq(CallRecords), Then(r, next),
           UNCHANGED <<stamp, gone, killer>>, CountsUnchanged, now <= now'
    PROVE  Passes(r)
<1>1. r \in Requests /\ mixed' = mixed
    BY DEF Active, CountsUnchanged
<1> QED
    BY <1>1, ThenIs, QuietPasses

LEMMA StampPasses ==
    ASSUME CascadeShape, NEW r \in Active, NEW next \in Seq(CallRecords), Then(r, next),
           NEW x \in Records, Stamp(r, x), Does(r, "delete"), x \in Below(About(r)),
           Of(r).at # 0
    PROVE  Passes(r)
<1>1. /\ stamp' = [stamp EXCEPT ![x] = Of(r).at] /\ killer' = [killer EXCEPT ![x] = About(r)]
      /\ gone' = gone /\ now' = now /\ mixed' = mixed /\ now <= now'
    BY CascadeAssumption DEF Stamp, CountsUnchanged, CascadeShape
<1>2. \A y \in Records : y # x => stamp'[y] = stamp[y] /\ killer'[y] = killer[y]
    BY <1>1 DEF CascadeShape
<1>3. stamp'[x] # Live
    BY <1>1 DEF CascadeShape, Live
<1>4. Dead \subseteq Dead'
    BY <1>1, <1>2, <1>3 DEF Dead, Alive, Stored
<1>5. r \in Requests
    BY DEF Active
<1> QED
    BY <1>1, <1>2, <1>4, <1>5, ThenIs DEF Passes

LEMMA RevivePasses ==
    ASSUME CascadeShape, NEW r \in Active, NEW next \in Seq(CallRecords), Then(r, next),
           NEW x \in Revivable(r), Does(r, "restore"), Of(r).on \subseteq Below(About(r)),
           Of(r).on \subseteq Records,
           stamp' = [stamp EXCEPT ![x] = Live], killer' = [killer EXCEPT ![x] = x],
           gone' = gone, now' = now, CountsUnchanged
    PROVE  Passes(r) /\ x \in Records /\ x \notin gone /\ stamp[x] # Live
<1>1. x \in Of(r).on /\ x \in Stored /\ x \in Records /\ stamp[x] # Live
    BY WithRootIs DEF Revivable
<1>2. \A y \in Records : y # x => stamp'[y] = stamp[y] /\ killer'[y] = killer[y]
    BY DEF CascadeShape
<1>3. Dead \subseteq Dead' \union {x}
    BY <1>1, <1>2 DEF Dead, Alive, Stored
<1>4. r \in Requests /\ mixed' = mixed /\ now <= now' /\ x \notin gone
    BY <1>1, CascadeAssumption DEF Active, CountsUnchanged, CascadeShape, Stored
<1> QED
    BY <1>1, <1>2, <1>3, <1>4, ThenIs DEF Passes

LEMMA DropPasses ==
    ASSUME CascadeShape, NEW r \in Requests, Drop(r)
    PROVE  Passes(r)
<1>1. /\ r \in Active /\ now' = now /\ now \in Nat /\ Then(r, <<>>)
      /\ Of(r).on \subseteq Records
    BY DropWith
<1>2. /\ gone' = gone \union Of(r).on
      /\ stamp' = [x \in Records |-> IF x \in Of(r).on THEN Live ELSE stamp[x]]
      /\ killer' = [x \in Records |-> IF x \in Of(r).on THEN x ELSE killer[x]]
      /\ mixed' = mixed \ Of(r).on
    BY DEF Drop
<1>3. \A x \in Records \ gone' : stamp'[x] = stamp[x] /\ killer'[x] = killer[x]
    BY <1>2
<1>4. Dead \subseteq Dead'
    BY <1>2, <1>3 DEF Dead, Alive, Stored
<1>5. now <= now' /\ gone \subseteq gone' /\ mixed \subseteq mixed' \union gone'
    BY <1>1, <1>2
<1> QED
    BY <1>1, <1>3, <1>4, <1>5, ThenIs, EmptyCalls DEF Passes

\* The actions of a request that is under way, but for its end.
Works(r) ==
    \/ DeleteStarts(r) \/ DeleteProjects(r) \/ StampMany(r) \/ Save(r)
    \/ RestoreStarts(r) \/ RestoreProjects(r) \/ Revive(r)
    \/ PurgeLooks(r) \/ PurgeStarts(r) \/ PurgeProjects(r) \/ Drop(r)

LEMMA WorkPasses ==
    ASSUME CascadeShape, NEW r \in Requests, Works(r)
    PROVE  /\ Passes(r) /\ r \in Active /\ Active' \subseteq Active
           /\ \/ mixed' = mixed
              \/ Drop(r) /\ mixed' = mixed \ Of(r).on
<1>0. ASSUME NEW s \in Active, NEW next \in Seq(CallRecords), Then(s, next) PROVE Active' \subseteq Active
    BY <1>0, ThenIs
<1>1. CASE DeleteStarts(r)
    <2> DEFINE next == DeleteCalls(Target(r), now')
    <2>1. /\ r \in Active /\ now' = now + 1 /\ now' \in 1..MaxTime
          /\ next \in Seq(CallRecords) /\ Then(r, next)
        BY <1>1, DeleteStartsWith
    <2> HIDE DEF next
    <2>2. now <= now' /\ UNCHANGED <<stamp, gone, killer>> /\ CountsUnchanged
        BY <1>1, <2>1, CascadeAssumption DEF CascadeShape, DeleteStarts
    <2> QED
        BY <1>0, <2>1, <2>2, ThenQuiet DEF CountsUnchanged
<1>2. ASSUME NEW next \in Seq(CallRecords), r \in Active, Then(r, next), RecordsUnchanged,
             CountsUnchanged, now \in Nat
      PROVE  Passes(r) /\ Active' \subseteq Active /\ mixed' = mixed
    BY <1>0, <1>2, ThenQuiet DEF RecordsUnchanged, CountsUnchanged
<1>3. CASE DeleteProjects(r)
    BY <1>2, <1>3, DeleteProjectsWith DEF DeleteProjects
<1>4. CASE StampMany(r)
    <2>1. /\ r \in Active /\ Does(r, "delete") /\ now \in Nat
          /\ Of(r).on \subseteq Below(About(r)) /\ Of(r).on \subseteq Records
          /\ Of(r).at \in 1..MaxTime
        BY <1>4, StampManyWith
    <2> DEFINE left == Of(r).on \intersect Alive
    <2>2. CASE \E x \in left :
                  /\ Stamp(r, x)
                  /\ Then(r, Others(r, x, left))
                  /\ Others(r, x, left) \in Seq(CallRecords)
        <3>1. PICK x \in left :
                  /\ Stamp(r, x)
                  /\ Then(r, Others(r, x, left))
                  /\ Others(r, x, left) \in Seq(CallRecords)
            BY <2>2
        <3>2. x \in Records /\ x \in Below(About(r)) /\ Of(r).at # 0
            BY <2>1
        <3> HIDE DEF left
        <3>3. Passes(r) /\ Active' \subseteq Active
            BY <1>0, <2>1, <3>1, <3>2, StampPasses
        <3> QED
            BY <2>1, <3>1, <3>3 DEF Stamp, CountsUnchanged
    <2>3. CASE RecordsUnchanged /\ CountsUnchanged /\ Then(r, <<>>)
        BY <1>2, <2>1, <2>3, EmptyCalls
    <2> QED
        BY <1>4, <2>2, <2>3, StampManyWith
<1>5. CASE Save(r)
    <2>1. /\ r \in Active /\ Does(r, "delete") /\ now \in Nat
          /\ Target(r) \in Below(About(r)) /\ Target(r) \in Records
          /\ Of(r).at \in 1..MaxTime /\ Of(r).at # 0 /\ Then(r, <<>>)
        BY <1>5, SaveWith
    <2>2. CASE Stamp(r, Target(r))
        BY <1>0, <2>1, <2>2, StampPasses, EmptyCalls DEF Stamp, CountsUnchanged
    <2>3. CASE RecordsUnchanged /\ CountsUnchanged
        BY <1>2, <2>1, <2>3, EmptyCalls
    <2> QED
        BY <1>5, <2>2, <2>3, SaveWith
<1>6. CASE RestoreStarts(r)
    <2> DEFINE x == Target(r)
               next == Append(RestoreCalls(x, stamp[x]), Call("revive", {x}, 0))
    <2>1. /\ r \in Active /\ now \in Nat
          /\ Then(r, <<>>) \/ (next \in Seq(CallRecords) /\ Then(r, next))
        BY <1>6, RestoreStartsWith
    <2>2. RecordsUnchanged /\ CountsUnchanged
        BY <1>6 DEF RestoreStarts
    <2> HIDE DEF next
    <2> QED
        BY <1>2, <2>1, <2>2, EmptyCalls
<1>7. CASE RestoreProjects(r)
    BY <1>2, <1>7, RestoreProjectsWith DEF RestoreProjects
<1>8. CASE Revive(r)
    <2>1. /\ r \in Active /\ Does(r, "restore") /\ now' = now /\ now \in Nat /\ CountsUnchanged
          /\ Of(r).on \subseteq Below(About(r)) /\ Of(r).on \subseteq Records
        BY <1>8, ReviveWith
    <2>2. CASE \E x \in Revivable(r) :
                   /\ stamp' = [stamp EXCEPT ![x] = Live]
                   /\ killer' = [killer EXCEPT ![x] = x]
                   /\ gone' = gone
                   /\ Then(r, Others(r, x, Revivable(r)))
                   /\ Others(r, x, Revivable(r)) \in Seq(CallRecords)
        BY <1>0, <2>1, <2>2, RevivePasses DEF CountsUnchanged
    <2>3. CASE RecordsUnchanged /\ Then(r, <<>>)
        BY <1>2, <2>1, <2>3, EmptyCalls
    <2> QED
        BY <1>8, <2>2, <2>3, ReviveWith
<1>9. CASE PurgeLooks(r)
    <2> DEFINE t == Of(r).at
               one == Append(Each("purge", Expired(Level(Of(r).do), t), 0),
                             Call(NextLevel(Of(r).do), {}, t))
               two == <<Call("drop", Expired(Slides, t), 0)>>
    <2>1. /\ r \in Active /\ now \in Nat
          /\ (one \in Seq(CallRecords) /\ Then(r, one)) \/ (two \in Seq(CallRecords) /\ Then(r, two))
        BY <1>9, PurgeLooksWith
    <2>2. RecordsUnchanged /\ CountsUnchanged
        BY <1>9 DEF PurgeLooks
    <2> HIDE DEF one, two
    <2> QED
        BY <1>2, <2>1, <2>2
<1>10. CASE PurgeStarts(r)
    BY <1>2, <1>10, PurgeStartsWith DEF PurgeStarts
<1>11. CASE PurgeProjects(r)
    BY <1>2, <1>11, PurgeProjectsWith DEF PurgeProjects
<1>12. CASE Drop(r)
    BY <1>0, <1>12, DropPasses, DropWith, EmptyCalls DEF Drop
<1> QED
    BY <1>1, <1>3, <1>4, <1>5, <1>6, <1>7, <1>8, <1>9, <1>10, <1>11, <1>12 DEF Works

LEMMA BeginsIs ==
    ASSUME CascadeShape, NEW r \in Requests,
           Sweep(r) \/ \E x \in Records : Delete(r, x) \/ Restore(r, x)
    PROVE  \E what, x, first : BeginsAs(r, what, x, first)
<1>1. CASE Sweep(r)
    BY <1>1, SweepBegins
<1>2. ASSUME NEW x \in Records, Delete(r, x) \/ Restore(r, x)
      PROVE  \E what, first : BeginsAs(r, what, x, first)
    BY <1>2, DeleteBegins, RestoreBegins
<1> QED
    BY <1>1, <1>2

LEMMA NextIs ==
    ASSUME [Next]_vars
    PROVE  \/ \E r \in Requests : Works(r) \/ Die(r) \/ Sweep(r)
           \/ \E r \in Requests, x \in Records : Delete(r, x) \/ Restore(r, x)
           \/ UNCHANGED vars
    BY DEF Next, Works

LEMMA BeginPasses ==
    ASSUME CascadeShape, NEW r \in Requests,
           NEW what, NEW x, NEW first, BeginsAs(r, what, x, first)
    PROVE  Passes(r)
<1>1. /\ r \notin Active /\ Active' = Active \union {r}
      /\ \A q \in Requests \ {r} : calls'[q] = calls[q] /\ root'[q] = root[q]
      /\ mixed' = mixed \union Clashing(what, x)
      /\ UNCHANGED <<stamp, gone, now, killer, adrift>>
    BY BeginIs
<1>2. now <= now' /\ mixed \subseteq mixed' /\ Active' \ {r} = Active \ {r}
    BY <1>1, CascadeAssumption DEF CascadeShape
<1> QED
    BY <1>1, <1>2, QuietPasses

LEMMA DiePasses ==
    ASSUME CascadeShape, NEW r \in Requests, Die(r)
    PROVE  Passes(r)
<1>1. /\ r \in Active /\ Active' = Active \ {r}
      /\ \A q \in Requests \ {r} : calls'[q] = calls[q] /\ root'[q] = root[q]
      /\ mixed' = mixed \union (IF About(r) = Purge THEN {} ELSE Below(About(r)))
      /\ UNCHANGED <<stamp, gone, now, sweeps, killer, own, adrift>>
    BY DieIs
<1>2. now <= now' /\ mixed \subseteq mixed' /\ Active' \ {r} = Active \ {r}
    BY <1>1, CascadeAssumption DEF CascadeShape
<1> QED
    BY <1>1, <1>2, QuietPasses

\* A request that goes on is what it was.
LEMMA SameRequest ==
    ASSUME NEW q, root'[q] = root[q]
    PROVE  /\ q \in Active' <=> q \in Active
           /\ \A w : Does(q, w)' <=> Does(q, w)
           /\ About(q)' = About(q)
    BY DEF Active, Does, About

LEMMA WhoGoesOn ==
    ASSUME NEW r \in Requests, Passes(r), NEW q \in Active', q # r \/ r \in Active
    PROVE  q \in Active /\ root'[q] = root[q]
<1>1. q \in Requests
    BY DEF Active
<1>2. CASE q # r
    BY <1>1, <1>2, SameRequest DEF Passes
<1>3. CASE q = r
    BY <1>3 DEF Passes
<1> QED
    BY <1>2, <1>3

LEMMA MixedKeeps ==
    ASSUME CascadeShape, MixedInv, NEW r \in Active, Passes(r),
           \A x \in mixed' : Below(x) \subseteq mixed' \union gone'
    PROVE  MixedInv'
<1>1. r \in Requests /\ mixed \union gone \subseteq mixed' \union gone'
    BY DEF Active, Passes
<1>2. ASSUME NEW q \in Active'
      PROVE  /\ q \in Active /\ \A w : Does(q, w)' <=> Does(q, w)
             /\ About(q)' = About(q)
    BY <1>1, WhoGoesOn, SameRequest
<1>3. ASSUME NEW q \in Active', NEW s \in Active', q # s, ~Does(q, "purge")', ~Does(s, "purge")'
      PROVE  Below(About(q)') \intersect Below(About(s)') \subseteq mixed' \union gone'
    <2>1. /\ q \in Active /\ s \in Active /\ ~Does(q, "purge") /\ ~Does(s, "purge")
          /\ About(q)' = About(q) /\ About(s)' = About(s)
        BY <1>2, <1>3
    <2>2. Below(About(q)) \intersect Below(About(s)) \subseteq mixed \union gone
        BY <1>3, <2>1 DEF MixedInv
    <2> QED
        BY <1>1, <2>1, <2>2
<1>4. ASSUME NEW q \in Active', NEW s \in Active', Does(q, "restore")', Does(s, "purge")'
      PROVE  Below(About(q)') \subseteq mixed' \union gone'
    <2>1. /\ q \in Active /\ s \in Active /\ Does(q, "restore") /\ Does(s, "purge")
          /\ About(q)' = About(q)
        BY <1>2, <1>4
    <2>2. Below(About(q)) \subseteq mixed \union gone
        BY <2>1 DEF MixedInv
    <2> QED
        BY <1>1, <2>1, <2>2
<1> QED
    BY <1>3, <1>4 DEF MixedInv, Below, OwnedBy, LecturesIn, SlidesOf

LEMMA MixedBegins ==
    ASSUME CascadeShape, MixedInv, NEW r \in Requests,
           NEW what, NEW x, NEW first, BeginsAs(r, what, x, first)
    PROVE  MixedInv'
<1>1. /\ r \notin Active /\ Active' = Active \union {r} /\ About(r)' = x
      /\ \A w \in {"delete", "restore", "purge"} : Does(r, w)' <=> w = what
      /\ mixed' = mixed \union Clashing(what, x) /\ gone' = gone
      /\ what \in {"delete", "restore", "purge"} /\ (what # "purge" => x \in Records)
    BY BeginIs DEF BeginsAs
<1>2. Passes(r)
    BY BeginPasses
<1>3. ASSUME NEW q \in Active', q # r
      PROVE  /\ q \in Active /\ \A w : Does(q, w)' <=> Does(q, w)
             /\ About(q)' = About(q)
    BY <1>2, <1>3, WhoGoesOn, SameRequest
<1>4. ASSUME NEW q \in Active', q # r, ~Does(q, "purge")', what # "purge"
      PROVE  Below(About(q)') \intersect Below(x) \subseteq mixed'
    <2>1. q \in Active /\ ~Does(q, "purge") /\ About(q)' = About(q)
        BY <1>3, <1>4
    <2>2. Does(q, "delete") \/ Does(q, "restore")
        BY <2>1, RequestIs
    <2>3. Below(About(q)) \intersect Below(x) \subseteq Clashing(what, x)
        BY <1>1, <1>4, <2>1, <2>2, ClashingIs
    <2> QED
        BY <1>1, <2>1, <2>3
<1>5. ASSUME NEW q \in Active', NEW s \in Active', q # s, ~Does(q, "purge")', ~Does(s, "purge")'
      PROVE  Below(About(q)') \intersect Below(About(s)') \subseteq mixed' \union gone'
    <2>1. CASE q = r
        BY <1>1, <1>4, <1>5, <2>1
    <2>2. CASE s = r
        BY <1>1, <1>4, <1>5, <2>2
    <2>3. CASE q # r /\ s # r
        <3>1. /\ q \in Active /\ s \in Active /\ ~Does(q, "purge") /\ ~Does(s, "purge")
              /\ About(q)' = About(q) /\ About(s)' = About(s)
            BY <1>3, <1>5, <2>3
        <3>2. Below(About(q)) \intersect Below(About(s)) \subseteq mixed \union gone
            BY <1>5, <3>1 DEF MixedInv
        <3> QED
            BY <1>1, <3>1, <3>2
    <2> QED
        BY <2>1, <2>2, <2>3
<1>6. ASSUME NEW q \in Active', NEW s \in Active', Does(q, "restore")', Does(s, "purge")'
      PROVE  Below(About(q)') \subseteq mixed' \union gone'
    <2>1. CASE q = r
        <3>1. what = "restore" /\ About(q)' = x /\ s # r
            BY <1>1, <1>6, <2>1
        <3>2. s \in Active /\ Does(s, "purge")
            BY <1>3, <1>6, <3>1
        <3>3. Below(x) \subseteq Clashing("restore", x)
            BY <1>1, <3>1, <3>2, ClashingIs
        <3> QED
            BY <1>1, <3>1, <3>3
    <2>2. CASE s = r /\ q # r
        <3>1. what = "purge" /\ q \in Active /\ Does(q, "restore") /\ About(q)' = About(q)
            BY <1>1, <1>3, <1>6, <2>2
        <3>2. Below(About(q)) \subseteq Clashing("purge", x)
            BY <3>1, ClashingIs
        <3> QED
            BY <1>1, <3>1, <3>2
    <2>3. CASE q # r /\ s # r
        <3>1. /\ q \in Active /\ s \in Active /\ Does(q, "restore") /\ Does(s, "purge")
              /\ About(q)' = About(q)
            BY <1>3, <1>6, <2>3
        <3>2. Below(About(q)) \subseteq mixed \union gone
            BY <3>1 DEF MixedInv
        <3> QED
            BY <1>1, <3>1, <3>2
    <2> QED
        BY <2>1, <2>2, <2>3
<1>7. ASSUME NEW y \in mixed'
      PROVE  Below(y) \subseteq mixed' \union gone'
    <2>1. CASE y \in mixed
        BY <1>1, <2>1 DEF MixedInv
    <2>2. CASE y \in Clashing(what, x)
        <3>1. CASE what = "purge"
            <4>1. PICK q \in Active : Does(q, "restore") /\ y \in Below(About(q))
                BY <2>2, <3>1, ClashingIs
            <4>2. About(q) \in Records
                BY <4>1, RequestIs
            <4>3. Below(y) \subseteq Below(About(q))
                BY <4>1, <4>2, BelowIsTransitive
            <4>4. Below(y) \subseteq Clashing("purge", x)
                BY <4>1, <4>3, ClashingIs
            <4> QED
                BY <1>1, <3>1, <4>4
        <3>2. CASE what = "delete"
            <4>1. y \in Below(x) /\ x \in Records
                BY <1>1, <2>2, <3>2, ClashingIs
            <4>2. PICK q \in Active : (Does(q, "restore") \/ Does(q, "delete")) /\ y \in Below(About(q))
                BY <1>1, <2>2, <3>2, <4>1, ClashingIs
            <4>3. About(q) \in Records
                BY <4>2, RequestIs
            <4>4. Below(y) \subseteq Below(About(q)) /\ Below(y) \subseteq Below(x)
                BY <4>1, <4>2, <4>3, BelowIsTransitive
            <4>5. Below(y) \subseteq Clashing("delete", x)
                BY <1>1, <4>1, <4>2, <4>4, ClashingIs
            <4> QED
                BY <1>1, <3>2, <4>5
        <3>3. CASE what = "restore"
            <4>1. y \in Below(x) /\ x \in Records
                BY <1>1, <2>2, <3>3, ClashingIs
            <4>2. PICK q \in Active : Does(q, "purge") \/ y \in Below(About(q))
                BY <2>2, <3>3, <4>1, ClashingIs
            <4>3. Below(y) \subseteq Below(x)
                BY <4>1, BelowIsTransitive
            <4>4. Does(q, "purge") \/ Below(y) \subseteq Below(About(q))
                BY <4>2, RequestIs, BelowIsTransitive
            <4>5. Below(y) \subseteq Clashing("restore", x)
                BY <1>1, <4>1, <4>3, <4>4, ClashingIs
            <4> QED
                BY <1>1, <3>3, <4>5
        <3> QED
            BY <1>1, <3>1, <3>2, <3>3
    <2> QED
        BY <1>1, <2>1, <2>2
<1> QED
    BY <1>5, <1>6, <1>7 DEF MixedInv, Below, OwnedBy, LecturesIn, SlidesOf

LEMMA MixedStep == CascadeShape /\ MixedInv /\ [Next]_vars => MixedInv'
<1> SUFFICES ASSUME CascadeShape, MixedInv, [Next]_vars
             PROVE  MixedInv'
    OBVIOUS
<1>1. ASSUME NEW r \in Requests, Works(r)
      PROVE  MixedInv'
    <2>1. /\ Passes(r) /\ r \in Active
          /\ \/ mixed' = mixed
             \/ Drop(r) /\ mixed' = mixed \ Of(r).on
        BY <1>1, WorkPasses
    <2>2. mixed' \subseteq mixed /\ mixed \union gone \subseteq mixed' \union gone'
        BY <2>1 DEF Passes
    <2>3. \A x \in mixed' : Below(x) \subseteq mixed' \union gone'
        BY <2>2 DEF MixedInv
    <2> QED
        BY <2>1, <2>3, MixedKeeps
<1>2. ASSUME NEW r \in Requests, Die(r)
      PROVE  MixedInv'
    <2>1. /\ r \in Active /\ gone' = gone
          /\ mixed' = mixed \union (IF About(r) = Purge THEN {} ELSE Below(About(r)))
        BY <1>2, DieIs
    <2>2. Passes(r)
        BY <1>2, DiePasses
    <2>3. \A x \in mixed : Below(x) \subseteq mixed' \union gone'
        BY <2>1 DEF MixedInv
    <2>4. \A x \in mixed' : Below(x) \subseteq mixed' \union gone'
        BY <2>1, <2>3, RequestIs, BelowIsTransitive
    <2> QED
        BY <2>1, <2>2, <2>4, MixedKeeps
<1>3. ASSUME NEW r \in Requests, Sweep(r) \/ \E x \in Records : Delete(r, x) \/ Restore(r, x)
      PROVE  MixedInv'
    BY <1>3, BeginsIs, MixedBegins
<1>4. CASE UNCHANGED vars
    <2>1. root' = root /\ mixed' = mixed /\ gone' = gone
        BY <1>4 DEF vars
    <2>2. Active' = Active /\ (\A q, w : Does(q, w)' <=> Does(q, w)) /\ \A q : About(q)' = About(q)
        BY <2>1 DEF Active, Does, About
    <2>3. /\ \A q, s \in Active : q # s /\ ~Does(q, "purge")' /\ ~Does(s, "purge")' =>
                Below(About(q)') \intersect Below(About(s)') \subseteq mixed' \union gone'
          /\ \A q, s \in Active : Does(q, "restore")' /\ Does(s, "purge")' =>
                Below(About(q)') \subseteq mixed' \union gone'
          /\ \A x \in mixed' : Below(x) \subseteq mixed' \union gone'
        BY <2>1, <2>2 DEF MixedInv
    <2> QED
        BY <2>2, <2>3 DEF MixedInv, Below, OwnedBy, LecturesIn, SlidesOf
<1> QED
    BY <1>1, <1>2, <1>3, <1>4, NextIs

-----------------------------------------------------------------------------
(* What lies below the deleted is deleted.                                 *)

LEMMA ReachIs ==
    /\ \A do \in {"stamp", "save", "drop"} : \A on, at :
          Removes(Call(do, on, at)) /\ Reach(Call(do, on, at)) = on
    /\ \A do \in {"delete", "purge"} : \A x, at :
          ~Removes(Call(do, {x}, at)) /\ Reach(Call(do, {x}, at)) = Below(x)
    /\ \A do \in {"projects", "purgeProjects"} : \A x, at :
          /\ ~Removes(Call(do, {x}, at))
          /\ \A y : y \in Reach(Call(do, {x}, at)) <=>
                \E p \in OwnedBy(x, Projects) : y \in Below(p)
    /\ \A c : c.do \in LookDo => ~Removes(c) /\ Reach(c) = {}
<1>1. \A do \in {"stamp", "save", "drop"} : \A on, at :
          Removes(Call(do, on, at)) /\ Reach(Call(do, on, at)) = on
    BY CallFields DEF Removes, Reach
<1>2. \A do \in {"delete", "purge"} : \A x, at :
          ~Removes(Call(do, {x}, at)) /\ Reach(Call(do, {x}, at)) = Below(x)
    BY CallFields DEF Removes, Reach
<1>3. \A do \in {"projects", "purgeProjects"} : \A x, at :
          /\ ~Removes(Call(do, {x}, at))
          /\ \A y : y \in Reach(Call(do, {x}, at)) <=>
                \E p \in OwnedBy(x, Projects) : y \in Below(p)
    BY CallFields DEF Removes, Reach
<1>4. \A c : c.do \in LookDo => ~Removes(c) /\ Reach(c) = {}
    BY DEF Removes, Reach, LookDo
<1> QED
    BY <1>1, <1>2, <1>3, <1>4

\* All that lies below what a call removes is in this set.
UnderIn(c, set) == Removes(c) => \A x \in c.on : \A y \in Below(x) \ {x} : y \in set

LEMMA BottomUpIs ==
    /\ \A c1, base : UnderIn(c1, base) => BottomUp(<<c1>>, base)
    /\ \A c1, c2, base :
          UnderIn(c1, base) /\ UnderIn(c2, base \union Reach(c1)) => BottomUp(<<c1, c2>>, base)
    /\ \A c1, c2, c3, base :
          /\ UnderIn(c1, base) /\ UnderIn(c2, base \union Reach(c1))
          /\ UnderIn(c3, base \union Reach(c1) \union Reach(c2))
          => BottomUp(<<c1, c2, c3>>, base)
    /\ \A c1, c2, c3, c4, base :
          /\ UnderIn(c1, base) /\ UnderIn(c2, base \union Reach(c1))
          /\ UnderIn(c3, base \union Reach(c1) \union Reach(c2))
          /\ UnderIn(c4, base \union Reach(c1) \union Reach(c2) \union Reach(c3))
          => BottomUp(<<c1, c2, c3, c4>>, base)
<1>1. ASSUME NEW c1, NEW base, UnderIn(c1, base)
      PROVE  BottomUp(<<c1>>, base)
    BY <1>1 DEF BottomUp, UnderIn
<1>2. ASSUME NEW c1, NEW c2, NEW base, UnderIn(c1, base), UnderIn(c2, base \union Reach(c1))
      PROVE  BottomUp(<<c1, c2>>, base)
    <2> DEFINE s == <<c1, c2>>
    <2>1. DOMAIN s = 1..2 /\ s[1] = c1 /\ s[2] = c2
        OBVIOUS
    <2> HIDE DEF s
    <2>2. 1 \in 1..(2 - 1)
        OBVIOUS
    <2>3. BottomUp(s, base)
        BY <1>2, <2>1, <2>2 DEF BottomUp, UnderIn
    <2> QED
        BY <2>3 DEF s
<1>3. ASSUME NEW c1, NEW c2, NEW c3, NEW base, UnderIn(c1, base), UnderIn(c2, base \union Reach(c1)),
             UnderIn(c3, base \union Reach(c1) \union Reach(c2))
      PROVE  BottomUp(<<c1, c2, c3>>, base)
    <2> DEFINE s == <<c1, c2, c3>>
    <2>1. DOMAIN s = 1..3 /\ s[1] = c1 /\ s[2] = c2 /\ s[3] = c3
        OBVIOUS
    <2> HIDE DEF s
    <2>2. 1 \in 1..(2 - 1) /\ 1 \in 1..(3 - 1) /\ 2 \in 1..(3 - 1)
        OBVIOUS
    <2>3. BottomUp(s, base)
        BY <1>3, <2>1, <2>2 DEF BottomUp, UnderIn
    <2> QED
        BY <2>3 DEF s
<1>4. ASSUME NEW c1, NEW c2, NEW c3, NEW c4, NEW base,
             UnderIn(c1, base), UnderIn(c2, base \union Reach(c1)),
             UnderIn(c3, base \union Reach(c1) \union Reach(c2)),
             UnderIn(c4, base \union Reach(c1) \union Reach(c2) \union Reach(c3))
      PROVE  BottomUp(<<c1, c2, c3, c4>>, base)
    <2> DEFINE s == <<c1, c2, c3, c4>>
    <2>1. DOMAIN s = 1..4 /\ s[1] = c1 /\ s[2] = c2 /\ s[3] = c3 /\ s[4] = c4
        OBVIOUS
    <2> HIDE DEF s
    <2>2. /\ 1 \in 1..(2 - 1) /\ 1 \in 1..(3 - 1) /\ 2 \in 1..(3 - 1)
          /\ 1 \in 1..(4 - 1) /\ 2 \in 1..(4 - 1) /\ 3 \in 1..(4 - 1)
        OBVIOUS
    <2>3. BottomUp(s, base)
        BY <1>4, <2>1, <2>2 DEF BottomUp, UnderIn
    <2> QED
        BY <2>3 DEF s
<1> QED
    BY <1>1, <1>2, <1>3, <1>4

\* What is excepted stays so, but for what a restore brings back.
LEMMA ExceptedKeeps ==
    ASSUME CascadeShape, NEW r \in Requests, Passes(r), adrift \subseteq adrift' \union Dead'
    PROVE  \A y \in Excepted \ Excepted' :
              Does(r, "restore") /\ y \in Below(About(r)) /\ y \notin mixed \union gone
<1>1. gone' \subseteq Dead' \/ ~(gone' \subseteq Records)
    BY DEF Dead, Alive, Stored
<1>2. gone' \intersect Records \subseteq Dead'
    BY DEF Dead, Alive, Stored
<1>3. mixed \subseteq Records
    BY DEF CascadeShape
<1>4. mixed \subseteq Excepted'
    BY <1>2, <1>3 DEF Excepted, Passes
<1>5. adrift \subseteq Excepted'
    BY DEF Excepted
<1>6. ASSUME NEW y \in Excepted \ Excepted'
      PROVE  Does(r, "restore") /\ y \in Below(About(r)) /\ y \notin mixed \union gone
    <2>1. y \in Dead /\ y \notin mixed /\ y \notin Dead'
        BY <1>4, <1>5, <1>6 DEF Excepted
    <2> QED
        BY <2>1 DEF Passes
<1> QED
    BY <1>6

\* What a restore that ends leaves behind.
EndsClean(r) ==
    r \in Active /\ r \notin Active' /\ Does(r, "restore") =>
        \A y \in Below(About(r)) : y \in Excepted' \/ Above(y) \intersect Dead' = {}

LEMMA ThenEndsClean ==
    ASSUME CascadeShape, NEW r \in Active, NEW next \in Seq(CallRecords), Then(r, next)
    PROVE  EndsClean(r) /\ adrift \subseteq adrift' \union Dead'
<1>1. adrift \subseteq Records
    BY DEF CascadeShape
<1>2. Records \subseteq Alive' \union Dead'
    BY DEF Dead
<1>3. adrift \intersect Alive' \subseteq adrift'
    BY AdriftIs
<1>4. ASSUME r \notin Active', Does(r, "restore"), NEW y \in Below(About(r)), y \notin Excepted'
      PROVE  Above(y) \intersect Dead' = {}
    <2>1. y \in Records
        BY <1>4, RequestIs, BelowItself
    <2>2. y \in Alive' /\ y \notin adrift'
        BY <1>2, <1>4, <2>1 DEF Excepted
    <2> QED
        BY <1>4, <2>2, AdriftIs
<1> QED
    BY <1>1, <1>2, <1>3, <1>4 DEF EndsClean

\* The part of the invariant that is about the records.
LEMMA DeadKeeps ==
    ASSUME CascadeShape, MixedInv, DeadInv, NEW r \in Requests, Passes(r),
           adrift \subseteq adrift' \union Dead', EndsClean(r),
           \A x \in Dead' \ Dead : Below(x) \subseteq Excepted'
    PROVE  \A x \in Dead' : Below(x) \subseteq Excepted' \union Restoring'
<1> SUFFICES ASSUME NEW x \in Dead', NEW y \in Below(x), x \in Dead, y \notin Excepted'
             PROVE  y \in Restoring'
    OBVIOUS
<1>1. x \in Records
    BY AliveIs
<1>2. y \in Excepted \/ y \in Restoring
    BY DEF DeadInv
<1>3. \A q \in Active' : Does(q, "restore")' /\ y \in Below(About(q)) /\ root'[q] = root[q] =>
          y \in Restoring'
    <2> SUFFICES ASSUME NEW q \in Active', Does(q, "restore")', y \in Below(About(q)), root'[q] = root[q]
                 PROVE  y \in Restoring'
        OBVIOUS
    <2>1. About(q)' = About(q)
        BY SameRequest
    <2>2. y \in UNION {Below(About(s)') : s \in {s \in Active' : Does(s, "restore")'}}
        BY <2>1
    <2> QED
        BY <2>2 DEF Restoring, Below, OwnedBy, LecturesIn, SlidesOf
<1>4. ASSUME NEW q \in Active, Does(q, "restore"), y \in Below(About(q))
      PROVE  y \in Restoring'
    <2>1. CASE q \in Active'
        <3>1. root'[q] = root[q]
            BY <2>1, <1>4 DEF Passes, Active
        <3> QED
            BY <1>3, <1>4, <2>1, <3>1, SameRequest
    <2>2. CASE q \notin Active'
        <3>1. q = r
            BY <1>4, <2>2 DEF Passes
        <3>2. Above(y) \intersect Dead' = {}
            BY <1>4, <2>2, <3>1 DEF EndsClean
        <3>3. x # y
            BY DEF Excepted
        <3>4. x \in Above(y)
            BY <1>1, <3>3 DEF Above
        <3> QED
            BY <3>2, <3>4
    <2> QED
        BY <2>1, <2>2
<1>5. CASE y \in Excepted
    <2>1. Does(r, "restore") /\ y \in Below(About(r))
        BY <1>5, ExceptedKeeps
    <2> QED
        BY <1>4, <2>1 DEF Does
<1>6. CASE y \in Restoring
    BY <1>4, <1>6 DEF Restoring
<1> QED
    BY <1>2, <1>5, <1>6

\* What the invariant says of one request.
DeadRequest(r) ==
    /\ Does(r, "delete") => BottomUp(calls[r], Excepted)
    /\ Does(r, "purge") =>
          /\ BottomUp(calls[r], gone)
          /\ \A i \in DOMAIN calls[r] : \A x \in Reach(calls[r][i]) : Below(x) \subseteq Excepted

LEMMA DeadInvIs ==
    /\ DeadInv <=>
          /\ \A x \in Dead : Below(x) \subseteq Excepted \union Restoring
          /\ \A x \in gone : Below(x) \subseteq gone
          /\ \A r \in Requests : DeadRequest(r)
    BY DEF DeadInv, DeadRequest

\* The same of the state after a step, with what does not change as it was.
LEMMA DeadRequestLater ==
    ASSUME NEW q, Does(q, "delete")' => BottomUp(calls'[q], Excepted'),
           Does(q, "purge")' =>
              /\ BottomUp(calls'[q], gone')
              /\ \A i \in DOMAIN calls'[q] : \A x \in Reach(calls'[q][i]) : Below(x) \subseteq Excepted'
    PROVE  DeadRequest(q)'
    BY DEF DeadRequest, BottomUp, Reach, Removes, Below, OwnedBy, LecturesIn, SlidesOf

LEMMA BottomUpGrows ==
    ASSUME NEW s, NEW base, NEW more, BottomUp(s, base), base \subseteq more
    PROVE  BottomUp(s, more)
    BY DEF BottomUp

\* The steps of a request leave what the invariant says of the others.
LEMMA DeadOthers ==
    ASSUME CascadeShape, MixedInv, DeadInv, NEW r \in Requests, Passes(r),
           adrift \subseteq adrift' \union Dead', NEW q \in Requests \ {r}
    PROVE  DeadRequest(q)'
<1>1. calls'[q] = calls[q] /\ root'[q] = root[q] /\ gone \subseteq gone'
    BY DEF Passes
<1>2. (q \in Active' <=> q \in Active) /\ \A w : Does(q, w)' <=> Does(q, w)
    BY <1>1, SameRequest
<1>3. CASE Does(q, "delete")
    <2>1. q \in Active /\ ~Does(q, "purge") /\ About(q) \in Records
        BY <1>3, RequestIs DEF Does
    <2>2. BottomUp(calls[q], Excepted)
        BY <1>3 DEF DeadInv
    <2>3. ASSUME NEW i \in DOMAIN calls[q], Removes(calls[q][i]), NEW x \in calls[q][i].on,
                 NEW y \in Below(x) \ {x}, y \in Excepted
          PROVE  y \in Excepted'
        <3>1. calls[q][i].on \subseteq Below(About(q))
            BY <1>3, <2>1, CallIs, RequestIs DEF CallFits
        <3>2. y \in Below(About(q))
            BY <2>1, <2>3, <3>1, BelowIsTransitive
        <3>3. SUFFICES ASSUME y \notin Excepted'
                       PROVE  FALSE
            OBVIOUS
        <3>4. Does(r, "restore") /\ y \in Below(About(r)) /\ y \notin mixed \union gone
            BY <2>3, <3>3, ExceptedKeeps
        <3>5. r \in Active /\ ~Does(r, "purge")
            BY <3>4, RequestIs DEF Does
        <3> QED
            BY <2>1, <3>2, <3>4, <3>5 DEF MixedInv
    <2>4. BottomUp(calls[q], Excepted')
        BY <2>2, <2>3 DEF BottomUp
    <2> QED
        BY <1>1, <1>2, <2>1, <2>4, DeadRequestLater
<1>4. CASE Does(q, "purge")
    <2>1. q \in Active /\ ~Does(q, "delete")
        BY <1>4, RequestIs DEF Does
    <2>2. BottomUp(calls[q], gone)
        BY <1>4 DEF DeadInv
    <2>3. BottomUp(calls[q], gone')
        BY <1>1, <2>2, BottomUpGrows
    <2>4. Excepted \subseteq Excepted'
        <3> SUFFICES ASSUME NEW y \in Excepted, y \notin Excepted'
                     PROVE  FALSE
            OBVIOUS
        <3>1. Does(r, "restore") /\ y \in Below(About(r)) /\ y \notin mixed \union gone
            BY ExceptedKeeps
        <3> QED
            BY <1>4, <2>1, <3>1 DEF MixedInv, Does
    <2>5. \A i \in DOMAIN calls[q] : \A x \in Reach(calls[q][i]) : Below(x) \subseteq Excepted'
        BY <1>4, <2>4 DEF DeadInv
    <2> QED
        BY <1>1, <1>2, <2>1, <2>3, <2>5, DeadRequestLater
<1>5. CASE ~Does(q, "delete") /\ ~Does(q, "purge")
    BY <1>2, <1>5, DeadRequestLater
<1> QED
    BY <1>3, <1>4, <1>5

\* What is to come in a stack.
Awaits(s, y) == \E j \in DOMAIN s : y \in Reach(s[j])

\* A stack stays in order when what its head would have reached has been, or comes first.
LEMMA BottomUpKeeps ==
    ASSUME CascadeShape, NEW r \in Active, NEW next \in Seq(CallRecords), Then(r, next),
           NEW base, NEW more, BottomUp(calls[r], base), base \subseteq more, BottomUp(next, more),
           \A y \in Reach(Of(r)) : y \in more \/ Awaits(next, y)
    PROVE  BottomUp(calls'[r], more)
<1>0. DEFINE n == Len(next)
             m == Len(calls[r])
             t == calls'[r]
<1>1. /\ m \in Nat \ {0} /\ n \in Nat /\ DOMAIN calls[r] = 1..m /\ DOMAIN next = 1..n
      /\ \A i \in 1..n : t[i] = next[i]
      /\ \A j \in 2..m : t[n + j - 1] = calls[r][j]
      /\ \A i \in DOMAIN t :
            \/ i \in 1..n /\ t[i] = next[i]
            \/ \E j \in 2..m : i = n + j - 1 /\ t[i] = calls[r][j]
      /\ Of(r) = calls[r][1]
    BY StackChanges DEF Of
<1> HIDE DEF n, m, t
<1>2. ASSUME NEW i \in 1..n, Removes(next[i]), NEW x \in next[i].on, NEW y \in Below(x) \ {x}
      PROVE  y \in more \/ \E j \in 1..(i - 1) : y \in Reach(t[j])
    <2>1. y \in more \/ \E j \in 1..(i - 1) : y \in Reach(next[j])
        BY <1>1, <1>2 DEF BottomUp
    <2>2. \A j \in 1..(i - 1) : j \in 1..n
        BY <1>1
    <2> QED
        BY <1>1, <2>1, <2>2
<1>3. ASSUME NEW k \in 2..m, Removes(calls[r][k]), NEW x \in calls[r][k].on, NEW y \in Below(x) \ {x}
      PROVE  y \in more \/ \E j \in 1..(n + k - 1 - 1) : y \in Reach(t[j])
    <2>1. k \in DOMAIN calls[r]
        BY <1>1
    <2>2. y \in base \/ \E j \in 1..(k - 1) : y \in Reach(calls[r][j])
        BY <1>3, <2>1 DEF BottomUp
    <2>3. ASSUME NEW j \in 1..(k - 1), y \in Reach(calls[r][j]), j # 1
          PROVE  \E h \in 1..(n + k - 1 - 1) : y \in Reach(t[h])
        <3>1. j \in 2..m /\ n + j - 1 \in 1..(n + k - 1 - 1)
            BY <1>1, <2>3
        <3> QED
            BY <1>1, <2>3, <3>1
    <2>4. ASSUME y \in Reach(calls[r][1])
          PROVE  y \in more \/ \E h \in 1..(n + k - 1 - 1) : y \in Reach(t[h])
        <3>1. \A h \in 1..n : h \in 1..(n + k - 1 - 1)
            BY <1>1
        <3>2. y \in more \/ \E h \in 1..n : y \in Reach(next[h])
            BY <1>1, <2>4 DEF Awaits
        <3> QED
            BY <1>1, <3>1, <3>2
    <2> QED
        BY <2>2, <2>3, <2>4
<1>4. ASSUME NEW i \in DOMAIN t, Removes(t[i]), NEW x \in t[i].on, NEW y \in Below(x) \ {x}
      PROVE  y \in more \/ \E j \in 1..(i - 1) : y \in Reach(t[j])
    BY <1>1, <1>2, <1>3, <1>4
<1> QED
    BY <1>4 DEF BottomUp, t

-----------------------------------------------------------------------------
\* What lies below something deleted that a deletion comes to.
LEMMA DeadUnder ==
    ASSUME CascadeShape, MixedInv, DeadInv, NEW r \in Active, Does(r, "delete"),
           NEW z \in Dead, z \in Below(About(r))
    PROVE  Below(z) \subseteq Excepted
<1> SUFFICES ASSUME NEW y \in Below(z), y \in Restoring
             PROVE  y \in Excepted
    BY DEF DeadInv
<1>1. PICK q \in Active : Does(q, "restore") /\ y \in Below(About(q))
    BY DEF Restoring
<1>2. About(r) \in Records /\ ~Does(r, "purge") /\ ~Does(r, "restore") /\ ~Does(q, "purge")
    BY <1>1, RequestIs
<1>3. y \in Below(About(r))
    BY <1>2, BelowIsTransitive
<1>4. y \in mixed \union gone
    BY <1>1, <1>2, <1>3 DEF MixedInv
<1>5. y \in Records
    BY <1>2, <1>3, BelowItself
<1> QED
    BY <1>4, <1>5, AliveIs DEF Excepted

\* A deletion that starts comes to everything below the record, from the bottom.
LEMMA DeleteCallsReach ==
    ASSUME NEW x \in Records, NEW t, \A z \in Dead \intersect Below(x) : Below(z) \subseteq Excepted
    PROVE  /\ BottomUp(DeleteCalls(x, t), Excepted)
           /\ \A y \in Below(x) : y \in Excepted \/ Awaits(DeleteCalls(x, t), y)
<1>1. CASE x \in Slides
    <2> DEFINE c == Call("save", {x}, t)
    <2>1. DeleteCalls(x, t) = <<c>>
        BY <1>1, DeleteCallsAre
    <2>2. c.on = {x} /\ Reach(c) = {x}
        BY CallFields, ReachIs
    <2> HIDE DEF c
    <2>3. UnderIn(c, Excepted)
        BY <1>1, <2>2, BelowSlide DEF UnderIn
    <2>4. \A y \in Below(x) : Awaits(<<c>>, y)
        BY <1>1, <2>2, BelowSlide DEF Awaits
    <2> QED
        BY <2>1, <2>3, <2>4, BottomUpIs
<1>2. CASE x \in Lectures
    <2> DEFINE c1 == Call("stamp", SlidesOf({x}), t)
               c2 == Call("save", {x}, t)
               s == <<c1, c2>>
    <2>1. DeleteCalls(x, t) = s
        BY <1>2, DeleteCallsAre
    <2>2. c1.on = SlidesOf({x}) /\ Reach(c1) = SlidesOf({x}) /\ c2.on = {x} /\ Reach(c2) = {x}
        BY CallFields, ReachIs
    <2> HIDE DEF c1, c2
    <2>3. DOMAIN s = 1..2 /\ s[1] = c1 /\ s[2] = c2
        OBVIOUS
    <2>4. \A y \in Below(x) : y = x \/ y \in SlidesOf({x})
        BY <1>2, BelowLecture DEF SlidesOf
    <2>5. \A y \in SlidesOf({x}) : Below(y) = {y}
        BY BelowSlide DEF SlidesOf
    <2>6. UnderIn(c1, Excepted) /\ UnderIn(c2, Excepted \union Reach(c1))
        BY <2>2, <2>4, <2>5 DEF UnderIn
    <2>7. BottomUp(s, Excepted)
        BY <2>6, BottomUpIs
    <2> HIDE DEF s
    <2>8. \A y \in Below(x) : Awaits(s, y)
        BY <2>2, <2>3, <2>4 DEF Awaits
    <2> QED
        BY <2>1, <2>7, <2>8
<1>3. CASE x \in Projects
    <2> DEFINE slides == SlidesOf(LecturesIn(x) \intersect Alive)
               c1 == Call("stamp", slides, t)
               c2 == Call("stamp", LecturesIn(x), t)
               c3 == Call("stamp", {x}, t)
               s == <<c1, c2, c3>>
    <2>1. DeleteCalls(x, t) = s
        BY <1>3, DeleteCallsAre
    <2>2. /\ c1.on = slides /\ Reach(c1) = slides
          /\ c2.on = LecturesIn(x) /\ Reach(c2) = LecturesIn(x) /\ c3.on = {x} /\ Reach(c3) = {x}
        BY CallFields, ReachIs
    <2> HIDE DEF c1, c2, c3
    <2>3. DOMAIN s = 1..3 /\ s[1] = c1 /\ s[2] = c2 /\ s[3] = c3
        OBVIOUS
    <2>4. ASSUME NEW y \in Slides, Project[Lecture[y]] = x
          PROVE  y \in Excepted \/ y \in slides
        <3>1. Lecture[y] \in LecturesIn(x) /\ y \in SlidesOf({Lecture[y]}) /\ Lecture[y] \in Below(x)
            BY <1>3, <2>4, KindsAreApart, BelowProject DEF LecturesIn, SlidesOf
        <3>2. y \in Below(Lecture[y])
            BY <2>4, KindsAreApart, BelowLecture
        <3>3. Lecture[y] \in Alive \/ Lecture[y] \in Dead
            BY KindsAreApart DEF Dead
        <3> QED
            BY <2>4, <3>1, <3>2, <3>3 DEF SlidesOf
    <2>5. \A y \in Below(x) : y = x \/ y \in LecturesIn(x) \/ y \in Excepted \/ y \in slides
        BY <1>3, <2>4, BelowProject DEF LecturesIn
    <2>6. \A y \in slides : Below(y) = {y}
        BY BelowSlide DEF SlidesOf
    <2>7. ASSUME NEW l \in LecturesIn(x), NEW y \in Below(l) \ {l}
          PROVE  y \in Excepted \/ y \in slides
        <3>1. l \in Lectures /\ Project[l] = x
            BY DEF LecturesIn
        <3>2. y \in Slides /\ Project[Lecture[y]] = x
            BY <2>7, <3>1, BelowLecture
        <3> QED
            BY <2>4, <3>2
    <2>8. UnderIn(c1, Excepted)
        BY <2>2, <2>6 DEF UnderIn
    <2>9. UnderIn(c2, Excepted \union Reach(c1))
        BY <2>2, <2>7 DEF UnderIn
    <2>11. UnderIn(c3, Excepted \union Reach(c1) \union Reach(c2))
        BY <2>2, <2>5 DEF UnderIn
    <2>12. BottomUp(s, Excepted)
        BY <2>8, <2>9, <2>11, BottomUpIs
    <2> HIDE DEF s, slides
    <2>10. \A y \in Below(x) : y \in Excepted \/ Awaits(s, y)
        BY <2>2, <2>3, <2>5 DEF Awaits
    <2> QED
        BY <2>1, <2>12, <2>10
<1>4. CASE x \in Accounts
    <2> DEFINE slides == SlidesOf(OwnedBy(x, Lectures) \intersect Alive)
               lectures == OwnedBy(x, Lectures)
               c1 == Call("stamp", slides, t)
               c2 == Call("stamp", lectures, t)
               c3 == Call("projects", {x}, 0)
               c4 == Call("stamp", {x}, t)
               s == <<c1, c2, c3, c4>>
    <2>1. DeleteCalls(x, t) = s
        BY <1>4, DeleteCallsAre
    <2>2. /\ c1.on = slides /\ Reach(c1) = slides
          /\ c2.on = lectures /\ Reach(c2) = lectures
          /\ ~Removes(c3)
          /\ c4.on = {x} /\ Reach(c4) = {x}
        BY CallFields, ReachIs
    <2>14. \A y : y \in Reach(c3) <=> \E p \in OwnedBy(x, Projects) : y \in Below(p)
        BY ReachIs
    <2> HIDE DEF c1, c2, c3, c4
    <2>3. DOMAIN s = 1..4 /\ s[1] = c1 /\ s[2] = c2 /\ s[3] = c3 /\ s[4] = c4
        OBVIOUS
    <2>4. ASSUME NEW y \in Slides, Owner[Lecture[y]] = x
          PROVE  y \in Excepted \/ y \in slides
        <3>1. Lecture[y] \in lectures /\ y \in SlidesOf({Lecture[y]}) /\ Lecture[y] \in Below(x)
            BY <1>4, <2>4, KindsAreApart, BelowAccount DEF OwnedBy, SlidesOf
        <3>2. y \in Below(Lecture[y])
            BY <2>4, KindsAreApart, BelowLecture
        <3>3. Lecture[y] \in Alive \/ Lecture[y] \in Dead
            BY KindsAreApart DEF Dead
        <3> QED
            BY <2>4, <3>1, <3>2, <3>3 DEF SlidesOf
    <2>5. ASSUME NEW y \in Below(x)
          PROVE  y = x \/ y \in lectures \/ y \in Excepted \/ y \in slides \/ y \in Reach(c3)
        <3>1. CASE y \in Projects /\ Owner[y] = x
            <4>1. y \in OwnedBy(x, Projects) /\ y \in Below(y)
                BY <3>1, KindsAreApart, BelowItself DEF OwnedBy
            <4> QED
                BY <2>14, <4>1
        <3>2. CASE y \in Lectures /\ (Owner[y] = x \/ Owner[Project[y]] = x)
            <4>1. Project[y] \in Projects /\ y \in Below(Project[y])
                BY <3>2, KindsAreApart, BelowProject
            <4> QED
                BY <2>14, <3>2, <4>1 DEF OwnedBy
        <3>3. CASE y \in Slides /\ (Owner[Lecture[y]] = x \/ Owner[Project[Lecture[y]]] = x)
            <4>1. Project[Lecture[y]] \in Projects /\ y \in Below(Project[Lecture[y]])
                BY <3>3, KindsAreApart, BelowProject
            <4> QED
                BY <2>14, <2>4, <3>3, <4>1 DEF OwnedBy
        <3> QED
            BY <1>4, <2>5, <3>1, <3>2, <3>3, BelowAccount
    <2>6. \A y \in slides : Below(y) = {y}
        BY BelowSlide DEF SlidesOf
    <2>7. ASSUME NEW l \in lectures, NEW y \in Below(l) \ {l}
          PROVE  y \in Excepted \/ y \in slides
        <3>1. l \in Lectures /\ Owner[l] = x
            BY DEF OwnedBy
        <3>2. y \in Slides /\ Owner[Lecture[y]] = x
            BY <2>7, <3>1, BelowLecture
        <3> QED
            BY <2>4, <3>2
    <2>8. UnderIn(c1, Excepted)
        BY <2>2, <2>6 DEF UnderIn
    <2>9. UnderIn(c2, Excepted \union Reach(c1))
        BY <2>2, <2>7 DEF UnderIn
    <2>11. UnderIn(c3, Excepted \union Reach(c1) \union Reach(c2))
        BY <2>2 DEF UnderIn
    <2>12. UnderIn(c4, Excepted \union Reach(c1) \union Reach(c2) \union Reach(c3))
        BY <2>2, <2>5 DEF UnderIn
    <2>13. BottomUp(s, Excepted)
        BY <2>8, <2>9, <2>11, <2>12, BottomUpIs
    <2> HIDE DEF s, slides, lectures
    <2>10. \A y \in Below(x) : y \in Excepted \/ Awaits(s, y)
        BY <2>2, <2>3, <2>5 DEF Awaits
    <2> QED
        BY <2>1, <2>13, <2>10
<1> QED
    BY <1>1, <1>2, <1>3, <1>4, KindsAreApart

\* A deletion whose head is replaced by calls that reach what it would have reached.
LEMMA DeletionKeeps ==
    ASSUME CascadeShape, DeadInv, NEW r \in Active, Does(r, "delete"),
           NEW next \in Seq(CallRecords), Then(r, next), Excepted \subseteq Excepted',
           BottomUp(next, Excepted'), \A y \in Reach(Of(r)) : y \in Excepted' \/ Awaits(next, y)
    PROVE  DeadRequest(r)'
<1>1. BottomUp(calls[r], Excepted)
    BY DEF DeadInv, Active
<1>2. BottomUp(calls'[r], Excepted')
    BY <1>1, BottomUpKeeps
<1>3. ~Does(r, "purge")'
    <2>1. ~Does(r, "purge")
        BY RequestIs
    <2> QED
        BY <2>1, ThenIs, SameRequest DEF Does
<1> QED
    BY <1>2, <1>3, DeadRequestLater

\* And a purge.
LEMMA PurgeKeeps ==
    ASSUME CascadeShape, DeadInv, NEW r \in Active, Does(r, "purge"),
           NEW next \in Seq(CallRecords), Then(r, next), Excepted \subseteq Excepted', gone \subseteq gone',
           BottomUp(next, gone'), \A y \in Reach(Of(r)) : y \in gone' \/ Awaits(next, y),
           \A i \in DOMAIN next : \A x \in Reach(next[i]) : Below(x) \subseteq Excepted'
    PROVE  DeadRequest(r)'
<1>1. /\ BottomUp(calls[r], gone)
      /\ \A i \in DOMAIN calls[r] : \A x \in Reach(calls[r][i]) : Below(x) \subseteq Excepted
    BY DEF DeadInv, Active
<1>2. BottomUp(calls'[r], gone')
    BY <1>1, BottomUpKeeps
<1>3. \A i \in DOMAIN calls'[r] : \A x \in Reach(calls'[r][i]) : Below(x) \subseteq Excepted'
    <2> SUFFICES ASSUME NEW i \in DOMAIN calls'[r]
                 PROVE  \A x \in Reach(calls'[r][i]) : Below(x) \subseteq Excepted'
        OBVIOUS
    <2>1. \/ i \in DOMAIN next /\ calls'[r][i] = next[i]
          \/ \E j \in DOMAIN calls[r] : calls'[r][i] = calls[r][j]
        BY StackChanges
    <2>2. CASE i \in DOMAIN next /\ calls'[r][i] = next[i]
        BY <2>2
    <2>3. CASE \E j \in DOMAIN calls[r] : calls'[r][i] = calls[r][j]
        BY <1>1, <2>3
    <2> QED
        BY <2>1, <2>2, <2>3
<1>4. ~Does(r, "delete")'
    <2>1. ~Does(r, "delete")
        BY RequestIs
    <2> QED
        BY <2>1, ThenIs, SameRequest DEF Does
<1> QED
    BY <1>2, <1>3, <1>4, DeadRequestLater

\* The records and their marks are as they were, but for what is adrift.
LEMMA QuietExcepted ==
    ASSUME UNCHANGED <<stamp, gone, killer>>, mixed' = mixed, adrift \subseteq adrift' \union Dead'
    PROVE  Excepted \subseteq Excepted' /\ Dead' = Dead
<1>1. Dead' = Dead
    BY DEF Dead, Alive, Stored
<1> QED
    BY <1>1 DEF Excepted

\* Every step of a deletion.
LEMMA DeadDeletes ==
    ASSUME CascadeShape, MixedInv, DeadInv, NEW r \in Requests,
           DeleteStarts(r) \/ DeleteProjects(r) \/ StampMany(r) \/ Save(r)
    PROVE  /\ DeadRequest(r)' /\ EndsClean(r) /\ adrift \subseteq adrift' \union Dead' /\ gone' = gone
           /\ \A x \in Dead' \ Dead : Below(x) \subseteq Excepted'
<1>1. CASE DeleteStarts(r)
    <2> DEFINE x == Target(r)
               next == DeleteCalls(x, now')
    <2>1. /\ r \in Active /\ Does(r, "delete") /\ About(r) \in Records
          /\ x \in Below(About(r)) /\ x \in Records /\ Of(r).on = {x} /\ Of(r).do = "delete"
          /\ next \in Seq(CallRecords) /\ Then(r, next)
        BY <1>1, DeleteStartsWith
    <2>2. UNCHANGED <<stamp, gone, killer>> /\ mixed' = mixed
        BY <1>1 DEF DeleteStarts, CountsUnchanged
    <2>3. \A z \in Dead \intersect Below(x) : Below(z) \subseteq Excepted
        <3>1. Below(x) \subseteq Below(About(r))
            BY <2>1, BelowIsTransitive
        <3> QED
            BY <2>1, <3>1, DeadUnder
    <2>4. /\ BottomUp(next, Excepted)
          /\ \A y \in Below(x) : y \in Excepted \/ Awaits(next, y)
        BY <2>1, <2>3, DeleteCallsReach
    <2>5. Reach(Of(r)) = Below(x)
        BY <2>1 DEF Reach, Removes
    <2> HIDE DEF next, x
    <2>6. EndsClean(r) /\ adrift \subseteq adrift' \union Dead'
        BY <2>1, ThenEndsClean
    <2>7. Excepted \subseteq Excepted' /\ Dead' = Dead
        BY <2>2, <2>6, QuietExcepted
    <2>8. BottomUp(next, Excepted') /\ \A y \in Reach(Of(r)) : y \in Excepted' \/ Awaits(next, y)
        BY <2>4, <2>5, <2>7, BottomUpGrows
    <2>9. DeadRequest(r)'
        BY <2>1, <2>7, <2>8, DeletionKeeps
    <2> QED
        BY <2>2, <2>6, <2>7, <2>9
<1>2. CASE DeleteProjects(r)
    <2> DEFINE x == Target(r)
               ps == OwnedBy(x, Projects) \intersect Alive
               next == Each("delete", ps, 0)
    <2>1. /\ r \in Active /\ Does(r, "delete") /\ About(r) \in Records
          /\ x \in Below(About(r)) /\ x \in Accounts /\ Of(r).on = {x} /\ Of(r).do = "projects"
          /\ ps \subseteq Records /\ next \in Seq(CallRecords) /\ Then(r, next)
        BY <1>2, DeleteProjectsWith
    <2>2. UNCHANGED <<stamp, gone, killer>> /\ mixed' = mixed
        BY <1>2 DEF DeleteProjects, RecordsUnchanged, CountsUnchanged
    <2>3. \A y \in Reach(Of(r)) : \E p \in OwnedBy(x, Projects) : y \in Below(p)
        BY <2>1 DEF Reach, Removes
    <2>4. \A i \in DOMAIN next : ~Removes(next[i])
        <3>1. ps \in SUBSET Records
            BY <2>1
        <3> HIDE DEF ps
        <3>2. \A i \in DOMAIN next : \E p \in ps : next[i] = Call("delete", {p}, 0)
            BY <3>1, EachCalls
        <3>3. \A p : ~Removes(Call("delete", {p}, 0))
            BY ReachIs
        <3> HIDE DEF next
        <3> QED
            BY <3>2, <3>3
    <2>5. \A p \in ps : \E i \in DOMAIN next : Reach(next[i]) = Below(p)
        <3>1. ps \in SUBSET Records
            BY <2>1
        <3> HIDE DEF ps
        <3>2. \A p \in ps : \E i \in DOMAIN next : next[i] = Call("delete", {p}, 0)
            BY <3>1, EachCalls
        <3>3. \A p : Reach(Call("delete", {p}, 0)) = Below(p)
            BY ReachIs
        <3> HIDE DEF next
        <3> QED
            BY <3>2, <3>3
    <2>6. \A p \in OwnedBy(x, Projects) : p \in ps \/ Below(p) \subseteq Excepted
        <3> SUFFICES ASSUME NEW p \in OwnedBy(x, Projects), p \notin ps
                     PROVE  Below(p) \subseteq Excepted
            OBVIOUS
        <3>1. p \in Dead /\ p \in Below(x)
            BY <2>1, KindsAreApart, BelowParts DEF Dead, OwnedBy
        <3>2. p \in Below(About(r))
            BY <2>1, <3>1, BelowIsTransitive
        <3> QED
            BY <2>1, <3>1, <3>2, DeadUnder
    <2> HIDE DEF next, ps, x
    <2>7. EndsClean(r) /\ adrift \subseteq adrift' \union Dead'
        BY <2>1, ThenEndsClean
    <2>8. Excepted \subseteq Excepted' /\ Dead' = Dead
        BY <2>2, <2>7, QuietExcepted
    <2>9. BottomUp(next, Excepted')
        BY <2>4 DEF BottomUp
    <2>10. \A y \in Reach(Of(r)) : y \in Excepted' \/ Awaits(next, y)
        BY <2>3, <2>5, <2>6, <2>8 DEF Awaits
    <2>11. DeadRequest(r)'
        BY <2>1, <2>8, <2>9, <2>10, DeletionKeeps
    <2> QED
        BY <2>2, <2>7, <2>8, <2>11
<1>3. ASSUME NEW next \in Seq(CallRecords), r \in Active, Does(r, "delete"), Then(r, next),
             NEW x \in Of(r).on, Stamp(r, x), Removes(Of(r)), Of(r).at # 0, Of(r).on \subseteq Records,
             x \in Below(About(r)),
             \A y \in Of(r).on : y = x \/ y \in Dead \/ Awaits(next, y),
             \A i \in DOMAIN next : Removes(next[i]) /\ next[i].on \subseteq Of(r).on
      PROVE  /\ DeadRequest(r)' /\ EndsClean(r) /\ adrift \subseteq adrift' \union Dead' /\ gone' = gone
             /\ \A z \in Dead' \ Dead : Below(z) \subseteq Excepted'
    <2>1. x \in Records /\ ~Does(r, "restore")
        BY <1>3, RequestIs
    <2>2. Passes(r)
        BY <1>3, <2>1, StampPasses
    <2>3. EndsClean(r) /\ adrift \subseteq adrift' \union Dead'
        BY <1>3, ThenEndsClean
    <2>4. Excepted \subseteq Excepted'
        BY <2>1, <2>2, <2>3, ExceptedKeeps
    <2>5. Dead \subseteq Dead' /\ gone' = gone
        BY <1>3, <2>1, <2>2 DEF Passes, Stamp
    <2>6. x \in Dead' /\ Dead' \subseteq Dead \union {x}
        <3>1. stamp' = [stamp EXCEPT ![x] = Of(r).at] /\ stamp \in [Records -> 0..MaxTime]
            BY <1>3 DEF Stamp, CascadeShape
        <3>2. \A y \in Records : y # x => stamp'[y] = stamp[y]
            BY <3>1
        <3>3. stamp'[x] # Live
            BY <1>3, <2>1, <3>1 DEF Live
        <3> QED
            BY <2>1, <2>5, <3>2, <3>3 DEF Dead, Alive, Stored
    <2>7. \A z \in Of(r).on : Below(z) \ {z} \subseteq Excepted
        <3>1. BottomUp(calls[r], Excepted) /\ 1 \in DOMAIN calls[r] /\ Of(r) = calls[r][1]
            BY <1>3, HeadIs DEF DeadInv
        <3>2. 1..(1 - 1) = {}
            OBVIOUS
        <3> QED
            BY <1>3, <3>1, <3>2 DEF BottomUp
    <2>8. \A z \in Dead' \ Dead : Below(z) \subseteq Excepted'
        BY <1>3, <2>4, <2>6, <2>7 DEF Excepted
    <2>9. BottomUp(next, Excepted')
        BY <1>3, <2>4, <2>7 DEF BottomUp
    <2>10. Reach(Of(r)) = Of(r).on
        BY <1>3 DEF Reach, Removes
    <2>11. \A y \in Reach(Of(r)) : y \in Excepted' \/ Awaits(next, y)
        BY <1>3, <2>5, <2>6, <2>10 DEF Excepted
    <2>12. DeadRequest(r)'
        BY <1>3, <2>4, <2>9, <2>11, DeletionKeeps
    <2> QED
        BY <2>3, <2>5, <2>8, <2>12
<1>4. ASSUME r \in Active, Does(r, "delete"), Then(r, <<>>), RecordsUnchanged, CountsUnchanged,
             Removes(Of(r)), Of(r).on \subseteq Dead
      PROVE  /\ DeadRequest(r)' /\ EndsClean(r) /\ adrift \subseteq adrift' \union Dead' /\ gone' = gone
             /\ \A z \in Dead' \ Dead : Below(z) \subseteq Excepted'
    <2>1. EndsClean(r) /\ adrift \subseteq adrift' \union Dead'
        BY <1>4, EmptyCalls, ThenEndsClean
    <2>2. Excepted \subseteq Excepted' /\ Dead' = Dead /\ gone' = gone
        BY <1>4, <2>1, QuietExcepted DEF RecordsUnchanged, CountsUnchanged
    <2>3. Reach(Of(r)) = Of(r).on
        BY <1>4 DEF Reach, Removes
    <2>4. \A y \in Reach(Of(r)) : y \in Excepted'
        BY <1>4, <2>2, <2>3 DEF Excepted
    <2>5. BottomUp(<<>>, Excepted')
        BY EmptyCalls DEF BottomUp
    <2>6. DeadRequest(r)'
        BY <1>4, <2>2, <2>4, <2>5, EmptyCalls, DeletionKeeps
    <2> QED
        BY <2>1, <2>2, <2>6
<1>5. CASE StampMany(r)
    <2> DEFINE left == Of(r).on \intersect Alive
    <2>1. /\ r \in Active /\ Does(r, "delete") /\ About(r) \in Records
          /\ Of(r).do = "stamp" /\ Of(r).on \subseteq Below(About(r)) /\ Of(r).on \subseteq Records
          /\ Of(r).at \in 1..MaxTime
        BY <1>5, StampManyWith
    <2>4. Removes(Of(r)) /\ Of(r).at # 0
        BY <2>1 DEF Removes
    <2>2. ASSUME NEW x \in left, Stamp(r, x), Then(r, Others(r, x, left)),
                 Others(r, x, left) \in Seq(CallRecords)
          PROVE  /\ DeadRequest(r)' /\ EndsClean(r) /\ adrift \subseteq adrift' \union Dead' /\ gone' = gone
                 /\ \A z \in Dead' \ Dead : Below(z) \subseteq Excepted'
        <3> DEFINE next == Others(r, x, left)
                   c == [Of(r) EXCEPT !.on = left \ {x}]
        <3>1. /\ left = {x} => next = <<>>
              /\ left # {x} => /\ next = <<c>>
                               /\ c.on = left \ {x} /\ c.do = Of(r).do
            <4>1. left \subseteq Of(r).on /\ Of(r).do \in {"stamp", "revive"}
                BY <2>1
            <4> HIDE DEF left
            <4> QED
                BY <2>1, <4>1, OthersFit
        <3>2. x \in Of(r).on /\ next \in Seq(CallRecords) /\ Then(r, next)
            BY <2>2
        <3>3. \A y \in Of(r).on : y \in left \/ y \in Dead
            BY <2>1 DEF Dead
        <3>4. left \subseteq Of(r).on
            OBVIOUS
        <3> HIDE DEF next, c, left
        <3>5. \A i \in DOMAIN next : Removes(next[i]) /\ next[i].on \subseteq Of(r).on
            BY <2>1, <3>1, <3>4, EmptyCalls DEF Removes
        <3>6. \A y \in left \ {x} : Awaits(next, y)
            <4> SUFFICES ASSUME NEW y \in left \ {x}
                         PROVE  Awaits(next, y)
                OBVIOUS
            <4>1. next = <<c>> /\ c.on = left \ {x} /\ Removes(c)
                BY <2>1, <3>1 DEF Removes
            <4>2. Reach(c) = left \ {x}
                BY <4>1 DEF Reach, Removes
            <4> QED
                BY <4>1, <4>2 DEF Awaits
        <3>7. \A y \in Of(r).on : y = x \/ y \in Dead \/ Awaits(next, y)
            BY <3>3, <3>6
        <3> QED
            BY <1>3, <2>1, <2>4, <2>2, <3>2, <3>5, <3>7
    <2>3. CASE left = {} /\ RecordsUnchanged /\ CountsUnchanged /\ Then(r, <<>>)
        BY <1>4, <2>1, <2>4, <2>3 DEF Dead
    <2> QED
        BY <1>5, <2>2, <2>3, StampManyWith
<1>6. CASE Save(r)
    <2>1. /\ r \in Active /\ Does(r, "delete") /\ Target(r) \in Records
          /\ Of(r).do = "save" /\ Of(r).on = {Target(r)} /\ Target(r) \in Below(About(r))
          /\ Of(r).at \in 1..MaxTime /\ Of(r).at # 0 /\ Removes(Of(r)) /\ Then(r, <<>>)
        BY <1>6, SaveWith DEF Removes
    <2>2. CASE Stamp(r, Target(r))
        BY <1>3, <2>1, <2>2, EmptyCalls
    <2>3. CASE Target(r) \notin Stored /\ RecordsUnchanged /\ CountsUnchanged
        <3>1. Of(r).on \subseteq Dead
            BY <2>1, <2>3 DEF Dead, Alive
        <3> QED
            BY <1>4, <2>1, <2>3, <3>1
    <2> QED
        BY <1>6, <2>2, <2>3, SaveWith
<1> QED
    BY <1>1, <1>2, <1>5, <1>6

\* A purge comes to everything below the record, from the bottom.
LEMMA PurgeCallsReach ==
    ASSUME NEW x \in Records \ Slides
    PROVE  /\ BottomUp(PurgeCalls(x), gone)
           /\ \A y \in Below(x) : Awaits(PurgeCalls(x), y)
           /\ \A i \in DOMAIN PurgeCalls(x) : Reach(PurgeCalls(x)[i]) \subseteq Below(x)
<1>1. CASE x \in Lectures
    <2> DEFINE c1 == Call("drop", SlidesOf({x}), 0)
               c2 == Call("drop", {x}, 0)
               s == <<c1, c2>>
    <2>1. PurgeCalls(x) = s
        BY <1>1, PurgeCallsAre
    <2>2. c1.on = SlidesOf({x}) /\ Reach(c1) = SlidesOf({x}) /\ c2.on = {x} /\ Reach(c2) = {x}
        BY CallFields, ReachIs
    <2> HIDE DEF c1, c2
    <2>3. DOMAIN s = 1..2 /\ s[1] = c1 /\ s[2] = c2
        OBVIOUS
    <2>4. \A y : y \in Below(x) <=> y = x \/ y \in SlidesOf({x})
        BY <1>1, BelowLecture DEF SlidesOf
    <2>5. \A y \in SlidesOf({x}) : Below(y) = {y}
        BY BelowSlide DEF SlidesOf
    <2>6. UnderIn(c1, gone) /\ UnderIn(c2, gone \union Reach(c1))
        BY <2>2, <2>4, <2>5 DEF UnderIn
    <2>7. BottomUp(s, gone)
        BY <2>6, BottomUpIs
    <2> HIDE DEF s
    <2>8. \A y \in Below(x) : Awaits(s, y)
        BY <2>2, <2>3, <2>4 DEF Awaits
    <2>9. \A i \in DOMAIN s : Reach(s[i]) \subseteq Below(x)
        BY <2>2, <2>3, <2>4
    <2> QED
        BY <2>1, <2>7, <2>8, <2>9
<1>2. CASE x \in Projects
    <2> DEFINE slides == SlidesOf(LecturesIn(x))
               c1 == Call("drop", slides, 0)
               c2 == Call("drop", LecturesIn(x), 0)
               c3 == Call("drop", {x}, 0)
               s == <<c1, c2, c3>>
    <2>1. PurgeCalls(x) = s
        BY <1>2, PurgeCallsAre
    <2>2. /\ c1.on = slides /\ Reach(c1) = slides
          /\ c2.on = LecturesIn(x) /\ Reach(c2) = LecturesIn(x) /\ c3.on = {x} /\ Reach(c3) = {x}
        BY CallFields, ReachIs
    <2> HIDE DEF c1, c2, c3
    <2>3. DOMAIN s = 1..3 /\ s[1] = c1 /\ s[2] = c2 /\ s[3] = c3
        OBVIOUS
    <2>4. \A y : y \in slides <=> y \in Slides /\ Project[Lecture[y]] = x
        BY KindsAreApart DEF SlidesOf, LecturesIn
    <2>5. \A y : y \in Below(x) <=> y = x \/ y \in LecturesIn(x) \/ y \in slides
        BY <1>2, <2>4, BelowProject DEF LecturesIn
    <2>6. \A y \in slides : Below(y) = {y}
        BY <2>4, BelowSlide
    <2>7. \A l \in LecturesIn(x) : \A y \in Below(l) \ {l} : y \in slides
        BY <2>4, BelowLecture DEF LecturesIn
    <2>8. UnderIn(c1, gone)
        BY <2>2, <2>6 DEF UnderIn
    <2>9. UnderIn(c2, gone \union Reach(c1))
        BY <2>2, <2>7 DEF UnderIn
    <2>10. UnderIn(c3, gone \union Reach(c1) \union Reach(c2))
        BY <2>2, <2>5 DEF UnderIn
    <2>11. BottomUp(s, gone)
        BY <2>8, <2>9, <2>10, BottomUpIs
    <2> HIDE DEF s, slides
    <2>12. \A y \in Below(x) : Awaits(s, y)
        BY <2>2, <2>3, <2>5 DEF Awaits
    <2>13. \A i \in DOMAIN s : Reach(s[i]) \subseteq Below(x)
        BY <2>2, <2>3, <2>5
    <2> QED
        BY <2>1, <2>11, <2>12, <2>13
<1>3. CASE x \in Accounts
    <2> DEFINE lectures == OwnedBy(x, Lectures)
               slides == SlidesOf(lectures)
               c1 == Call("drop", slides, 0)
               c2 == Call("drop", lectures, 0)
               c3 == Call("purgeProjects", {x}, 0)
               c4 == Call("drop", {x}, 0)
               s == <<c1, c2, c3, c4>>
    <2>1. PurgeCalls(x) = s
        BY <1>3, PurgeCallsAre
    <2>2. /\ c1.on = slides /\ Reach(c1) = slides
          /\ c2.on = lectures /\ Reach(c2) = lectures
          /\ ~Removes(c3)
          /\ c4.on = {x} /\ Reach(c4) = {x}
        <3>1. c1.on = slides /\ c2.on = lectures /\ c4.on = {x}
            BY CallFields
        <3>2. Reach(c1) = slides
            BY ReachIs
        <3>3. Reach(c2) = lectures
            BY ReachIs
        <3>4. ~Removes(c3)
            BY ReachIs
        <3>5. Reach(c4) = {x}
            BY ReachIs
        <3> QED
            BY <3>1, <3>2, <3>3, <3>4, <3>5
    <2>3. \A y : y \in Reach(c3) <=> \E p \in OwnedBy(x, Projects) : y \in Below(p)
        BY ReachIs
    <2> HIDE DEF c1, c2, c3, c4
    <2>4. DOMAIN s = 1..4 /\ s[1] = c1 /\ s[2] = c2 /\ s[3] = c3 /\ s[4] = c4
        OBVIOUS
    <2>5. \A y : y \in slides <=> y \in Slides /\ Owner[Lecture[y]] = x
        BY KindsAreApart DEF SlidesOf, OwnedBy
    <2>6. ASSUME NEW y \in Below(x)
          PROVE  y = x \/ y \in lectures \/ y \in slides \/ y \in Reach(c3)
        <3>1. CASE y \in Projects /\ Owner[y] = x
            <4>1. y \in OwnedBy(x, Projects) /\ y \in Below(y)
                BY <3>1, KindsAreApart, BelowItself DEF OwnedBy
            <4> QED
                BY <2>3, <4>1
        <3>2. CASE y \in Lectures /\ (Owner[y] = x \/ Owner[Project[y]] = x)
            <4>1. Project[y] \in Projects /\ y \in Below(Project[y])
                BY <3>2, KindsAreApart, BelowProject
            <4> QED
                BY <2>3, <3>2, <4>1 DEF OwnedBy
        <3>3. CASE y \in Slides /\ (Owner[Lecture[y]] = x \/ Owner[Project[Lecture[y]]] = x)
            <4>1. Project[Lecture[y]] \in Projects /\ y \in Below(Project[Lecture[y]])
                BY <3>3, KindsAreApart, BelowProject
            <4> QED
                BY <2>3, <2>5, <3>3, <4>1 DEF OwnedBy
        <3> QED
            BY <1>3, <2>6, <3>1, <3>2, <3>3, BelowAccount
    <2>7. \A y \in Reach(c3) : y \in Below(x)
        <3> SUFFICES ASSUME NEW y \in Reach(c3)
                     PROVE  y \in Below(x)
            OBVIOUS
        <3>1. PICK p \in OwnedBy(x, Projects) : y \in Below(p)
            BY <2>3
        <3>2. p \in Below(x)
            BY <1>3, BelowParts
        <3> QED
            BY <3>1, <3>2, BelowIsTransitive
    <2>8. lectures \subseteq Below(x) /\ slides \subseteq Below(x) /\ x \in Below(x)
        BY <1>3, BelowParts, BelowItself
    <2>9. \A y \in slides : Below(y) = {y}
        BY <2>5, BelowSlide
    <2>10. \A l \in lectures : \A y \in Below(l) \ {l} : y \in slides
        BY <2>5, BelowLecture DEF OwnedBy
    <2>11. UnderIn(c1, gone)
        BY <2>2, <2>9 DEF UnderIn
    <2>12. UnderIn(c2, gone \union Reach(c1))
        BY <2>2, <2>10 DEF UnderIn
    <2>13. UnderIn(c3, gone \union Reach(c1) \union Reach(c2))
        BY <2>2 DEF UnderIn
    <2>14. UnderIn(c4, gone \union Reach(c1) \union Reach(c2) \union Reach(c3))
        BY <2>2, <2>6 DEF UnderIn
    <2>15. BottomUp(s, gone)
        BY <2>11, <2>12, <2>13, <2>14, BottomUpIs
    <2> HIDE DEF s, slides, lectures
    <2>16. \A y \in Below(x) : Awaits(s, y)
        BY <2>2, <2>4, <2>6 DEF Awaits
    <2>17. \A i \in DOMAIN s : Reach(s[i]) \subseteq Below(x)
        BY <2>2, <2>4, <2>7, <2>8
    <2> QED
        BY <2>1, <2>15, <2>16, <2>17
<1> QED
    BY <1>1, <1>2, <1>3, KindsAreApart

\* What a purge has found is deleted, and so is what lies below it.
LEMMA PurgeUnder ==
    ASSUME CascadeShape, MixedInv, DeadInv, NEW r \in Active, Does(r, "purge"), NEW z \in Dead
    PROVE  \A y \in Below(z) : Below(y) \subseteq Excepted
<1>1. Restoring \subseteq mixed \union gone
    BY DEF Restoring, MixedInv
<1>2. gone \subseteq Dead
    BY DEF CascadeShape, Dead, Alive, Stored
<1>3. Below(z) \subseteq Excepted
    BY <1>1, <1>2 DEF DeadInv, Excepted
<1>4. z \in Records
    BY AliveIs
<1> QED
    BY <1>3, <1>4, BelowIsTransitive

\* Every step of a purge.
LEMMA DeadPurges ==
    ASSUME CascadeShape, MixedInv, DeadInv, NEW r \in Requests,
           PurgeLooks(r) \/ PurgeStarts(r) \/ PurgeProjects(r) \/ Drop(r)
    PROVE  /\ DeadRequest(r)' /\ EndsClean(r) /\ adrift \subseteq adrift' \union Dead'
           /\ \A x \in gone' : Below(x) \subseteq gone'
           /\ \A x \in Dead' \ Dead : Below(x) \subseteq Excepted'
<1>1. ASSUME NEW next \in Seq(CallRecords), r \in Active, Does(r, "purge"), Then(r, next),
             RecordsUnchanged, CountsUnchanged, BottomUp(next, gone),
             \A y \in Reach(Of(r)) : y \in gone \/ Awaits(next, y),
             \A i \in DOMAIN next : \A x \in Reach(next[i]) : Below(x) \subseteq Excepted
      PROVE  /\ DeadRequest(r)' /\ EndsClean(r) /\ adrift \subseteq adrift' \union Dead'
             /\ \A x \in gone' : Below(x) \subseteq gone'
             /\ \A x \in Dead' \ Dead : Below(x) \subseteq Excepted'
    <2>1. UNCHANGED <<stamp, gone, killer>> /\ mixed' = mixed /\ gone \subseteq gone'
        BY <1>1 DEF RecordsUnchanged, CountsUnchanged
    <2>2. EndsClean(r) /\ adrift \subseteq adrift' \union Dead'
        BY <1>1, ThenEndsClean
    <2>3. Excepted \subseteq Excepted' /\ Dead' = Dead
        BY <2>1, <2>2, QuietExcepted
    <2>4. /\ BottomUp(next, gone') /\ \A y \in Reach(Of(r)) : y \in gone' \/ Awaits(next, y)
          /\ \A i \in DOMAIN next : \A x \in Reach(next[i]) : Below(x) \subseteq Excepted'
        BY <1>1, <2>1, <2>3
    <2>5. DeadRequest(r)'
        BY <1>1, <2>1, <2>3, <2>4, PurgeKeeps
    <2>6. \A x \in gone' : Below(x) \subseteq gone'
        BY <2>1 DEF DeadInv
    <2> QED
        BY <2>2, <2>3, <2>5, <2>6
<1>2. CASE PurgeLooks(r)
    <2> DEFINE t == Of(r).at
               found == Expired(Level(Of(r).do), t)
               inner == Each("purge", found, 0)
               last == Call(NextLevel(Of(r).do), {}, t)
               drop == Call("drop", Expired(Slides, t), 0)
    <2>1. /\ r \in Active /\ Does(r, "purge") /\ Of(r).do \in LookDo
          /\ \/ /\ found \subseteq Records \ Slides
                /\ NextLevel(Of(r).do) \in LookDo
                /\ inner \in Seq(CallRecords) /\ last \in CallRecords
                /\ Append(inner, last) \in Seq(CallRecords)
                /\ Then(r, Append(inner, last))
             \/ /\ Expired(Slides, t) \subseteq Slides
                /\ drop \in CallRecords /\ <<drop>> \in Seq(CallRecords) /\ Then(r, <<drop>>)
        BY <1>2, PurgeLooksWith
    <2>2. RecordsUnchanged /\ CountsUnchanged
        BY <1>2 DEF PurgeLooks
    <2>3. Reach(Of(r)) = {}
        BY <2>1, ReachIs
    <2>4. CASE /\ found \subseteq Records \ Slides
               /\ NextLevel(Of(r).do) \in LookDo
               /\ inner \in Seq(CallRecords) /\ last \in CallRecords
               /\ Append(inner, last) \in Seq(CallRecords)
               /\ Then(r, Append(inner, last))
        <3> DEFINE next == Append(inner, last)
        <3>1. found \in SUBSET Records /\ found \subseteq Dead
            BY <2>4, ExpiredIs, AliveIs
        <3>2. last.do \in LookDo
            BY <2>4, CallFields
        <3> HIDE DEF found, last
        <3>3. \A i \in DOMAIN inner : \E x \in found : inner[i] = Call("purge", {x}, 0)
            BY <3>1, EachCalls
        <3>4. /\ inner \in Seq(CallRecords) /\ last \in CallRecords
              /\ next \in Seq(CallRecords) /\ Then(r, next)
            BY <2>4
        <3> HIDE DEF inner
        <3>5. \A i \in DOMAIN next : next[i] = last \/ \E x \in found : next[i] = Call("purge", {x}, 0)
            <4>1. \A i \in DOMAIN next : next[i] = last \/ (i \in DOMAIN inner /\ next[i] = inner[i])
                BY <3>4, AppendIs
            <4> HIDE DEF next
            <4> QED
                BY <3>3, <4>1
        <3> HIDE DEF next
        <3>6. \A x : ~Removes(Call("purge", {x}, 0)) /\ Reach(Call("purge", {x}, 0)) = Below(x)
            BY ReachIs
        <3>7. ~Removes(last) /\ Reach(last) = {}
            BY <3>2, ReachIs
        <3>8. BottomUp(next, gone)
            BY <3>5, <3>6, <3>7 DEF BottomUp
        <3>9. \A i \in DOMAIN next : \A x \in Reach(next[i]) : Below(x) \subseteq Excepted
            <4> SUFFICES ASSUME NEW i \in DOMAIN next, NEW x \in Reach(next[i])
                         PROVE  Below(x) \subseteq Excepted
                OBVIOUS
            <4>1. PICK z \in found : x \in Below(z)
                BY <3>5, <3>6, <3>7
            <4> QED
                BY <2>1, <3>1, <4>1, PurgeUnder
        <3> QED
            BY <1>1, <2>1, <2>2, <2>3, <3>4, <3>8, <3>9
    <2>5. CASE /\ Expired(Slides, t) \subseteq Slides
               /\ <<drop>> \in Seq(CallRecords) /\ Then(r, <<drop>>)
        <3>1. Expired(Slides, t) \subseteq Dead
            BY KindsAreApart, ExpiredIs, AliveIs
        <3>2. drop.on = Expired(Slides, t) /\ Reach(drop) = Expired(Slides, t)
            BY CallFields, ReachIs
        <3> HIDE DEF drop
        <3>3. \A x \in Expired(Slides, t) : Below(x) = {x}
            BY <2>5, BelowSlide
        <3>4. UnderIn(drop, gone)
            BY <3>2, <3>3 DEF UnderIn
        <3>5. BottomUp(<<drop>>, gone)
            BY <3>4, BottomUpIs
        <3>6. \A i \in DOMAIN <<drop>> : \A x \in Reach(<<drop>>[i]) : Below(x) \subseteq Excepted
            BY <3>1, <3>2, <3>3 DEF Excepted
        <3> QED
            BY <1>1, <2>1, <2>2, <2>3, <2>5, <3>5, <3>6
    <2> QED
        BY <2>1, <2>4, <2>5
<1>3. CASE PurgeStarts(r)
    <2> DEFINE x == Target(r)
               next == PurgeCalls(x)
    <2>1. /\ r \in Active /\ Does(r, "purge") /\ x \in Records \ Slides
          /\ Of(r).on = {x} /\ Of(r).do = "purge"
          /\ next \in Seq(CallRecords) /\ Then(r, next)
        BY <1>3, PurgeStartsWith
    <2>2. RecordsUnchanged /\ CountsUnchanged
        BY <1>3 DEF PurgeStarts
    <2>3. Reach(Of(r)) = Below(x)
        BY <2>1 DEF Reach, Removes
    <2>4. /\ BottomUp(next, gone) /\ \A y \in Below(x) : Awaits(next, y)
          /\ \A i \in DOMAIN next : Reach(next[i]) \subseteq Below(x)
        BY <2>1, PurgeCallsReach
    <2>5. \A y \in Below(x) : Below(y) \subseteq Excepted
        BY <2>1, <2>3, HeadIs DEF DeadInv
    <2> HIDE DEF next, x
    <2> QED
        BY <1>1, <2>1, <2>2, <2>3, <2>4, <2>5
<1>4. CASE PurgeProjects(r)
    <2> DEFINE x == Target(r)
               ps == OwnedBy(x, Projects) \intersect Stored
               next == Each("purge", ps, 0)
    <2>1. /\ r \in Active /\ Does(r, "purge") /\ x \in Accounts
          /\ Of(r).on = {x} /\ Of(r).do = "purgeProjects" /\ ps \subseteq Records \ Slides
          /\ next \in Seq(CallRecords) /\ Then(r, next)
        BY <1>4, PurgeProjectsWith
    <2>2. RecordsUnchanged /\ CountsUnchanged
        BY <1>4 DEF PurgeProjects
    <2>3. \A y : y \in Reach(Of(r)) <=> \E p \in OwnedBy(x, Projects) : y \in Below(p)
        BY <2>1 DEF Reach, Removes
    <2>4. ps \in SUBSET Records
        BY <2>1
    <2>5. \A p \in OwnedBy(x, Projects) : p \in ps \/ Below(p) \subseteq gone
        BY KindsAreApart DEF DeadInv, Stored, OwnedBy
    <2>6. ps \subseteq OwnedBy(x, Projects)
        OBVIOUS
    <2> HIDE DEF ps, x
    <2>7. /\ \A i \in DOMAIN next : \E p \in ps : next[i] = Call("purge", {p}, 0)
          /\ \A p \in ps : \E i \in DOMAIN next : next[i] = Call("purge", {p}, 0)
        BY <2>4, EachCalls
    <2>8. \A p : ~Removes(Call("purge", {p}, 0)) /\ Reach(Call("purge", {p}, 0)) = Below(p)
        BY ReachIs
    <2> HIDE DEF next
    <2>9. BottomUp(next, gone)
        BY ZenonT(40), <2>7, <2>8 DEF BottomUp
    <2>10. \A p \in ps : \A y \in Below(p) : Awaits(next, y)
        BY <2>7, <2>8 DEF Awaits
    <2>11. \A y \in Reach(Of(r)) : y \in gone \/ Awaits(next, y)
        BY <2>3, <2>5, <2>10
    <2>12. \A i \in DOMAIN next : \A y \in Reach(next[i]) : Below(y) \subseteq Excepted
        <3>1. \A y \in Reach(Of(r)) : Below(y) \subseteq Excepted
            BY <2>1, HeadIs DEF DeadInv
        <3> QED
            <4> SUFFICES ASSUME NEW i \in DOMAIN next, NEW y \in Reach(next[i])
                         PROVE  Below(y) \subseteq Excepted
                OBVIOUS
            <4>1. PICK p \in ps : next[i] = Call("purge", {p}, 0)
                BY <2>7
            <4>2. y \in Below(p)
                BY <2>8, <4>1
            <4> QED
                BY <2>3, <2>6, <3>1, <4>2
    <2> QED
        BY <1>1, <2>1, <2>2, <2>9, <2>11, <2>12
<1>5. CASE Drop(r)
    <2>1. /\ r \in Active /\ Does(r, "purge") /\ Of(r).do = "drop" /\ Of(r).on \subseteq Records
          /\ Then(r, <<>>) /\ Passes(r)
        BY <1>5, DropWith, DropPasses
    <2>2. gone' = gone \union Of(r).on /\ ~Does(r, "restore")
        BY <1>5, <2>1, RequestIs DEF Drop
    <2>3. EndsClean(r) /\ adrift \subseteq adrift' \union Dead'
        BY <2>1, EmptyCalls, ThenEndsClean
    <2>4. Excepted \subseteq Excepted'
        BY <2>1, <2>2, <2>3, ExceptedKeeps
    <2>5. Reach(Of(r)) = Of(r).on /\ Removes(Of(r))
        BY <2>1 DEF Reach, Removes
    <2>6. \A i \in DOMAIN <<>> : \A x \in Reach(<<>>[i]) : Below(x) \subseteq Excepted'
        BY EmptyCalls
    <2>7. BottomUp(<<>>, gone')
        BY EmptyCalls DEF BottomUp
    <2>8. DeadRequest(r)'
        BY <2>1, <2>2, <2>4, <2>5, <2>6, <2>7, EmptyCalls, PurgeKeeps
    <2>9. \A x \in Of(r).on : Below(x) \ {x} \subseteq gone
        <3>1. BottomUp(calls[r], gone) /\ 1 \in DOMAIN calls[r] /\ Of(r) = calls[r][1]
            BY <2>1, HeadIs DEF DeadInv
        <3>2. 1..(1 - 1) = {}
            OBVIOUS
        <3> QED
            BY <2>5, <3>1, <3>2 DEF BottomUp
    <2>10. \A x \in gone' : Below(x) \subseteq gone'
        BY <2>2, <2>9 DEF DeadInv
    <2>11. \A x \in Of(r).on : Below(x) \subseteq Excepted
        BY <2>1, <2>5, HeadIs DEF DeadInv
    <2>12. \A x \in Dead' \ Dead : x \in Of(r).on
        <3>1. \A x \in Records \ gone' : stamp'[x] = stamp[x]
            BY <2>1, <2>2, RequestIs DEF Passes
        <3> QED
            BY <2>2, <3>1 DEF Dead, Alive, Stored
    <2> QED
        BY <2>3, <2>4, <2>8, <2>10, <2>11, <2>12
<1> QED
    BY <1>2, <1>3, <1>4, <1>5

\* Every step of a restore: it is about what is being restored until it ends.
LEMMA DeadRestores ==
    ASSUME CascadeShape, MixedInv, DeadInv, NEW r \in Requests,
           RestoreStarts(r) \/ RestoreProjects(r) \/ Revive(r)
    PROVE  /\ DeadRequest(r)' /\ EndsClean(r) /\ adrift \subseteq adrift' \union Dead' /\ gone' = gone
           /\ Dead' \subseteq Dead
<1>1. r \in Active /\ Does(r, "restore")
    BY RestoreStartsWith, RestoreProjectsWith, ReviveWith
<1>2. \E next \in Seq(CallRecords) : Then(r, next)
    <2>1. CASE RestoreStarts(r)
        BY <2>1, RestoreStartsWith, EmptyCalls
    <2>2. CASE RestoreProjects(r)
        BY <2>2, RestoreProjectsWith
    <2>3. CASE Revive(r)
        BY <2>3, ReviveWith, EmptyCalls
    <2> QED
        BY <2>1, <2>2, <2>3
<1>3. EndsClean(r) /\ adrift \subseteq adrift' \union Dead'
    BY <1>1, <1>2, ThenEndsClean
<1>4. ~Does(r, "delete") /\ ~Does(r, "purge")
    BY <1>1, RequestIs
<1>5. ~Does(r, "delete")' /\ ~Does(r, "purge")'
    <2>1. r \notin Active' \/ root'[r] = root[r]
        BY <1>1, <1>2, ThenIs
    <2> QED
        BY <1>1, <1>4, <2>1, SameRequest DEF Does
<1>6. DeadRequest(r)'
    BY <1>5, DeadRequestLater
<1>7. gone' = gone /\ Dead' \subseteq Dead
    <2>1. CASE RecordsUnchanged
        BY <2>1 DEF RecordsUnchanged, Dead, Alive, Stored
    <2>2. ASSUME NEW x \in Revivable(r), stamp' = [stamp EXCEPT ![x] = Live], gone' = gone
          PROVE  Dead' \subseteq Dead
        <3>1. x \in Records
            BY WithRootIs, AliveIs DEF Revivable
        <3>2. \A y \in Records : stamp'[y] = stamp[y] \/ stamp'[y] = Live
            BY <2>2, <3>1 DEF CascadeShape
        <3> QED
            BY <2>2, <3>2 DEF Dead, Alive, Stored
    <2> QED
        BY <2>1, <2>2 DEF RestoreStarts, RestoreProjects, Revive, RecordsUnchanged
<1> QED
    BY <1>3, <1>6, <1>7

\* A request that begins has removed nothing.
LEMMA DeadBegins ==
    ASSUME CascadeShape, DeadInv, NEW r \in Requests, NEW what, NEW x, NEW first,
           BeginsAs(r, what, x, first),
           what = "delete" => first.do = "delete", what = "purge" => first.do = "users"
    PROVE  DeadRequest(r)'
<1>1. /\ \A w \in {"delete", "restore", "purge"} : Does(r, w)' <=> w = what
      /\ calls'[r] = <<first>> /\ DOMAIN calls'[r] = {1} /\ calls'[r][1] = first
    BY BeginIs
<1>2. CASE what \notin {"delete", "purge"}
    BY <1>1, <1>2, DeadRequestLater
<1>3. CASE what = "delete"
    <2>1. ~Removes(first)
        BY <1>3 DEF Removes
    <2>2. BottomUp(calls'[r], Excepted')
        BY <1>1, <2>1 DEF BottomUp
    <2> QED
        BY <1>1, <1>3, <2>2, DeadRequestLater
<1>4. CASE what = "purge"
    <2>1. ~Removes(first) /\ Reach(first) = {}
        BY <1>4, ReachIs DEF LookDo
    <2>2. BottomUp(calls'[r], gone')
        BY <1>1, <2>1 DEF BottomUp
    <2>3. \A i \in DOMAIN calls'[r] : \A y \in Reach(calls'[r][i]) : Below(y) \subseteq Excepted'
        BY <1>1, <2>1
    <2> QED
        BY <1>1, <1>4, <2>2, <2>3, DeadRequestLater
<1> QED
    BY <1>2, <1>3, <1>4

\* The whole of it, of a step of r.
LEMMA DeadWhole ==
    ASSUME CascadeShape, MixedInv, DeadInv, NEW r \in Requests, Passes(r),
           DeadRequest(r)', EndsClean(r), adrift \subseteq adrift' \union Dead',
           \A x \in gone' : Below(x) \subseteq gone',
           \A x \in Dead' \ Dead : Below(x) \subseteq Excepted'
    PROVE  DeadInv'
<1>1. \A x \in Dead' : Below(x) \subseteq Excepted' \union Restoring'
    BY DeadKeeps
<1>2. \A q \in Requests : DeadRequest(q)'
    BY DeadOthers
<1>3. (\A x \in Dead : Below(x) \subseteq Excepted \union Restoring)'
    BY <1>1 DEF Below, OwnedBy, LecturesIn, SlidesOf
<1>4. (\A x \in gone : Below(x) \subseteq gone)'
    BY DEF Below, OwnedBy, LecturesIn, SlidesOf
<1> QED
    BY <1>2, <1>3, <1>4 DEF DeadInv, DeadRequest

LEMMA DeadStep == CascadeShape /\ MixedInv /\ DeadInv /\ [Next]_vars => DeadInv'
<1> SUFFICES ASSUME CascadeShape, MixedInv, DeadInv, [Next]_vars
             PROVE  DeadInv'
    OBVIOUS
<1>1. ASSUME NEW r \in Requests, Works(r)
      PROVE  DeadInv'
    <2>1. Passes(r)
        BY <1>1, WorkPasses
    <2>2. CASE DeleteStarts(r) \/ DeleteProjects(r) \/ StampMany(r) \/ Save(r)
        <3>1. /\ DeadRequest(r)' /\ EndsClean(r) /\ adrift \subseteq adrift' \union Dead' /\ gone' = gone
              /\ \A x \in Dead' \ Dead : Below(x) \subseteq Excepted'
            BY <2>2, DeadDeletes
        <3>2. \A x \in gone' : Below(x) \subseteq gone'
            BY <3>1 DEF DeadInv
        <3> QED
            BY <2>1, <3>1, <3>2, DeadWhole
    <2>3. CASE RestoreStarts(r) \/ RestoreProjects(r) \/ Revive(r)
        <3>1. /\ DeadRequest(r)' /\ EndsClean(r) /\ adrift \subseteq adrift' \union Dead' /\ gone' = gone
              /\ Dead' \subseteq Dead
            BY <2>3, DeadRestores
        <3>2. \A x \in gone' : Below(x) \subseteq gone'
            BY <3>1 DEF DeadInv
        <3>3. \A x \in Dead' \ Dead : Below(x) \subseteq Excepted'
            BY <3>1
        <3> QED
            BY <2>1, <3>1, <3>2, <3>3, DeadWhole
    <2>4. CASE PurgeLooks(r) \/ PurgeStarts(r) \/ PurgeProjects(r) \/ Drop(r)
        BY <2>1, <2>4, DeadPurges, DeadWhole
    <2> QED
        BY <1>1, <2>2, <2>3, <2>4 DEF Works
<1>2. ASSUME NEW r \in Requests, UNCHANGED <<stamp, gone, adrift>>, Passes(r),
             DeadRequest(r)', EndsClean(r)
      PROVE  DeadInv'
    <2>1. Dead' = Dead
        BY <1>2 DEF Dead, Alive, Stored
    <2>2. \A x \in gone' : Below(x) \subseteq gone'
        BY <1>2 DEF DeadInv
    <2>3. adrift \subseteq adrift' \union Dead' /\ \A x \in Dead' \ Dead : Below(x) \subseteq Excepted'
        BY <1>2, <2>1
    <2> QED
        BY <1>2, <2>2, <2>3, DeadWhole
<1>3. ASSUME NEW r \in Requests, NEW what, NEW x, NEW first, BeginsAs(r, what, x, first),
             what = "delete" => first.do = "delete", what = "purge" => first.do = "users"
      PROVE  DeadInv'
    <2>1. DeadRequest(r)' /\ Passes(r)
        BY <1>3, DeadBegins, BeginPasses
    <2>2. r \notin Active /\ UNCHANGED <<stamp, gone, adrift>>
        BY <1>3, BeginIs
    <2>3. EndsClean(r)
        BY <2>2 DEF EndsClean
    <2> QED
        BY <1>2, <2>1, <2>2, <2>3
<1>4. ASSUME NEW r \in Requests, Sweep(r) \/ \E x \in Records : Delete(r, x) \/ Restore(r, x)
      PROVE  DeadInv'
    <2>1. CASE Sweep(r)
        <3>1. PICK first : BeginsAs(r, "purge", Purge, first) /\ first.do = "users"
            BY <2>1, SweepBegins
        <3>2. "purge" # "delete"
            OBVIOUS
        <3> QED
            BY <1>3, <3>1, <3>2
    <2>2. ASSUME NEW x \in Records, Delete(r, x)
          PROVE  DeadInv'
        <3>1. BeginsAs(r, "delete", x, Call("delete", {x}, 0)) /\ Call("delete", {x}, 0).do = "delete"
            BY <2>2, DeleteBegins
        <3>2. "delete" # "purge"
            OBVIOUS
        <3> QED
            BY <1>3, <3>1, <3>2
    <2>3. ASSUME NEW x \in Records, Restore(r, x)
          PROVE  DeadInv'
        <3>1. BeginsAs(r, "restore", x, Call("restore", {x}, 0))
            BY <2>3, RestoreBegins
        <3>2. "restore" # "purge" /\ "restore" # "delete"
            OBVIOUS
        <3> QED
            BY <1>3, <3>1, <3>2
    <2> QED
        BY <1>4, <2>1, <2>2, <2>3
<1>5. ASSUME NEW r \in Requests, Die(r)
      PROVE  DeadInv'
    <2>1. /\ r \in Active /\ Active' = Active \ {r}
          /\ mixed' = mixed \union (IF About(r) = Purge THEN {} ELSE Below(About(r)))
          /\ UNCHANGED <<stamp, gone, adrift>>
        BY <1>5, DieIs
    <2>2. EndsClean(r)
        <3>1. Does(r, "restore") => About(r) # Purge
            BY <2>1, RequestIs, KindsAreApart
        <3> QED
            BY <2>1, <3>1 DEF EndsClean, Excepted
    <2>3. DeadRequest(r)'
        <3>1. ~Does(r, "delete")' /\ ~Does(r, "purge")'
            BY <2>1 DEF Does
        <3> QED
            BY <3>1, DeadRequestLater
    <2> QED
        BY <1>2, <1>5, <2>1, <2>2, <2>3, DiePasses
<1>6. CASE UNCHANGED vars
    <2>1. UNCHANGED <<stamp, gone, calls, root, mixed, adrift>>
        BY <1>6 DEF vars
    <2>2. Dead' = Dead /\ Excepted' = Excepted /\ Active' = Active /\ Restoring' = Restoring
        BY <2>1 DEF Dead, Alive, Stored, Excepted, Active, Restoring, Does, About, Below, OwnedBy,
                    LecturesIn, SlidesOf
    <2>3. ASSUME NEW q \in Requests
          PROVE  DeadRequest(q)'
        <3>1. \A w : Does(q, w)' <=> Does(q, w)
            BY <2>1, SameRequest
        <3> QED
            BY <2>1, <2>2, <2>3, <3>1, DeadRequestLater DEF DeadInv
    <2>4. (\A x \in Dead : Below(x) \subseteq Excepted \union Restoring)'
        BY <2>2 DEF DeadInv, Below, OwnedBy, LecturesIn, SlidesOf
    <2>5. (\A x \in gone : Below(x) \subseteq gone)'
        BY <2>1 DEF DeadInv, Below, OwnedBy, LecturesIn, SlidesOf
    <2> QED
        BY <2>3, <2>4, <2>5 DEF DeadInv, DeadRequest
<1> QED
    BY <1>1, <1>4, <1>5, <1>6, NextIs

LEMMA BottomInit == Init => CascadeShape /\ MixedInv /\ DeadInv
<1> SUFFICES ASSUME Init
             PROVE  CascadeShape /\ MixedInv /\ DeadInv
    OBVIOUS
<1>1. Active = {} /\ \A r \in Requests : root[r] = <<>> /\ calls[r] = <<>>
    BY DEF Init, Active
<1>2. \A r, w : ~Does(r, w)
    BY <1>1 DEF Does
<1>3. Dead = {} /\ gone = {} /\ mixed = {}
    BY DEF Init, Dead, Alive, Stored
<1>4. RecordsShape
    BY CascadeAssumption, BelowItself DEF Init, RecordsShape, Live
<1>5. CallsShape
    BY <1>1, EmptyCalls DEF Init, CallsShape, RequestShape, Active
<1>6. MixedInv
    BY <1>1, <1>3 DEF MixedInv
<1>7. DeadInv
    BY <1>2, <1>3 DEF DeadInv
<1> QED
    BY <1>4, <1>5, <1>6, <1>7, ShapeIs

\* The part of the invariant that is about what is deleted, removed and mixed.
BottomIInv == CascadeShape /\ MixedInv /\ DeadInv

LEMMA BottomInvariance == Spec => []BottomIInv
<1>1. Init => BottomIInv
    BY BottomInit DEF BottomIInv
<1>2. BottomIInv /\ [Next]_vars => BottomIInv'
    BY ShapeStep, MixedStep, DeadStep DEF BottomIInv
<1> QED
    BY <1>1, <1>2, PTL DEF Spec

\* Nothing live is removed for good, but what two cascades worked on or a restore left below
\* something deleted: what is about to be removed, and all that lies below it, is deleted
\* (jobs/soft-delete-purge.ts "permanently removes every record tombstoned before the cutoff").
THEOREM NothingLiveIsPurged == Spec => LiveIsNotPurged
<1>1. BottomIInv /\ [Next]_vars =>
          [\A x \in gone' \ gone : x \in Alive => x \in mixed \union adrift]_vars
    <2> SUFFICES ASSUME BottomIInv, [Next]_vars, NEW x \in gone' \ gone, x \in Alive
                 PROVE  x \in mixed \union adrift
        OBVIOUS
    <2>1. CascadeShape /\ MixedInv /\ DeadInv
        BY DEF BottomIInv
    <2>2. \E r \in Requests : Drop(r)
        <3>1. ASSUME NEW r \in Requests, Works(r), ~Drop(r)
              PROVE  gone' = gone
            BY <3>1 DEF Works, DeleteStarts, DeleteProjects, StampMany, Save, Stamp, RestoreStarts,
                        RestoreProjects, Revive, PurgeLooks, PurgeStarts, PurgeProjects, RecordsUnchanged
        <3>2. ASSUME NEW r \in Requests, Die(r) \/ Sweep(r) \/ \E y \in Records : Delete(r, y) \/ Restore(r, y)
              PROVE  gone' = gone
            BY <3>2 DEF Die, Sweep, Delete, Restore, Begin
        <3>3. UNCHANGED vars => gone' = gone
            BY DEF vars
        <3> QED
            BY <3>1, <3>2, <3>3, NextIs
    <2>3. PICK r \in Requests : Drop(r)
        BY <2>2
    <2>4. r \in Active /\ Does(r, "purge") /\ Of(r).do = "drop" /\ Of(r).on \subseteq Records
        BY <2>1, <2>3, DropWith
    <2>5. x \in Of(r).on
        BY <2>3 DEF Drop
    <2>6. Reach(Of(r)) = Of(r).on
        BY <2>4 DEF Reach, Removes
    <2>7. Below(x) \subseteq Excepted
        BY <2>1, <2>4, <2>5, <2>6, HeadIs DEF DeadInv
    <2>8. x \in Below(x)
        BY <2>4, <2>5, BelowItself
    <2> QED
        BY <2>7, <2>8 DEF Excepted, Dead
<1> QED
    BY <1>1, BottomInvariance, PTL DEF Spec, LiveIsNotPurged

-----------------------------------------------------------------------------
(* What a deletion stamped is found again.                                 *)

\* The record on the way lies between what was stamped and what its deletion was about.
LEMMA ViaIs ==
    ASSUME NEW k \in Records, NEW x \in Below(k), x # k
    PROVE  /\ Via(x, k) \in Records \ Slides /\ Via(x, k) # x
           /\ x \in Below(Via(x, k)) /\ Via(x, k) \in Below(k)
           /\ x \in Slides => Via(x, k) = Lecture[x] /\ Via(x, k) \in Lectures
           /\ x \in Lectures => \/ Via(x, k) = k /\ k \in Accounts /\ Owner[x] = k
                                \/ Via(x, k) = Project[x] /\ Via(x, k) \in Projects
           /\ x \in Projects => Via(x, k) = k /\ k \in Accounts /\ Owner[x] = k
           /\ x \notin Accounts
<1>1. x \in Records
    BY BelowItself
<1>2. x \notin Accounts
    <2> SUFFICES ASSUME x \in Accounts
                 PROVE  FALSE
        OBVIOUS
    <2>1. CASE k \in Slides
        BY <2>1, BelowSlide
    <2>2. CASE k \in Lectures
        BY <2>2, KindsAreApart, BelowLecture
    <2>3. CASE k \in Projects
        BY <2>3, KindsAreApart, BelowProject
    <2>4. CASE k \in Accounts
        BY <2>4, KindsAreApart, BelowAccount
    <2> QED
        BY <2>1, <2>2, <2>3, <2>4, KindsAreApart
<1>3. CASE x \in Slides
    <2>1. Via(x, k) = Lecture[x] /\ Lecture[x] \in Lectures
        BY <1>3, KindsAreApart DEF Via
    <2>2. x \in Below(Lecture[x])
        BY <1>3, KindsAreApart, BelowLecture
    <2>3. Lecture[x] \in Below(k)
        <3>1. CASE k \in Slides
            BY <3>1, BelowSlide
        <3>2. CASE k \in Lectures
            BY <1>3, <3>2, KindsAreApart, BelowLecture
        <3>3. CASE k \in Projects
            BY <1>3, <3>3, KindsAreApart, BelowProject
        <3>4. CASE k \in Accounts
            BY <1>3, <3>4, KindsAreApart, BelowAccount
        <3> QED
            BY <3>1, <3>2, <3>3, <3>4, KindsAreApart
    <2> QED
        BY <1>3, <2>1, <2>2, <2>3, KindsAreApart
<1>4. CASE x \in Lectures
    <2>1. x \notin Slides /\ x \notin Projects /\ x \notin Accounts
        BY <1>4, KindsAreApart
    <2>2. k \notin Slides /\ k \notin Lectures
        BY <1>4, KindsAreApart, BelowSlide, BelowLecture
    <2>3. CASE k \in Projects
        <3>1. Project[x] = k /\ Owner[x] # k
            BY <1>4, <2>1, <2>3, KindsAreApart, BelowProject
        <3>2. Via(x, k) = k
            BY <1>4, <2>1, <3>1 DEF Via
        <3> QED
            BY <1>1, <2>1, <2>2, <2>3, <3>1, <3>2, BelowItself
    <2>4. CASE k \in Accounts
        <3>1. Owner[x] = k \/ Owner[Project[x]] = k
            BY <1>4, <2>1, <2>4, KindsAreApart, BelowAccount
        <3>2. CASE Owner[x] = k
            <4>1. Via(x, k) = k
                BY <1>4, <2>1, <3>2 DEF Via
            <4> QED
                BY <1>1, <2>1, <2>2, <2>4, <3>2, <4>1, BelowItself
        <3>3. CASE Owner[x] # k
            <4>1. Via(x, k) = Project[x]
                BY <1>4, <2>1, <3>3 DEF Via
            <4>2. Project[x] \in Projects /\ Project[x] \in Below(k) /\ x \in Below(Project[x])
                BY <1>4, <2>4, <3>1, <3>3, KindsAreApart, BelowAccount, BelowProject
            <4> QED
                BY <1>4, <2>1, <4>1, <4>2, KindsAreApart
        <3> QED
            BY <3>2, <3>3
    <2> QED
        BY <2>2, <2>3, <2>4, KindsAreApart
<1>5. CASE x \in Projects
    <2>1. x \notin Slides /\ x \notin Lectures
        BY <1>5, KindsAreApart
    <2>2. k \in Accounts /\ Owner[x] = k
        BY <1>5, KindsAreApart, BelowSlide, BelowLecture, BelowProject, BelowAccount
    <2>3. Via(x, k) = k
        BY <2>1 DEF Via
    <2> QED
        BY <1>1, <1>5, <2>1, <2>2, <2>3, KindsAreApart, BelowItself
<1> QED
    BY <1>1, <1>2, <1>3, <1>4, <1>5, KindsAreApart

\* What lies above something settled is settled.
LEMMA AboveSettled ==
    ASSUME CascadeShape, MixedInv, DeadInv, NEW x \in Settled, NEW y \in Records, x \in Below(y)
    PROVE  y \in Settled
    BY AliveIs DEF MixedInv, DeadInv

LEMMA AboveSettledNext ==
    ASSUME MixedInv', DeadInv', NEW x \in Settled', NEW y \in Records, x \in Below(y)
    PROVE  y \in Settled'
<1>1. \A z \in mixed' : Below(z) \subseteq mixed' \union gone'
    BY DEF MixedInv, Below, OwnedBy, LecturesIn, SlidesOf
<1>2. \A z \in gone' : Below(z) \subseteq gone'
    BY DEF DeadInv, Below, OwnedBy, LecturesIn, SlidesOf
<1> QED
    BY <1>1, <1>2 DEF Settled, Stored

\* Nothing becomes settled again.
LEMMA SettledBefore ==
    ASSUME NEW r \in Requests, Passes(r)
    PROVE  Settled' \subseteq Settled
    BY DEF Passes, Settled, Stored

\* The steps of one request leave what another deletion or restore works on.
LEMMA Untouched ==
    ASSUME CascadeShape, MixedInv, NEW r \in Requests, Passes(r), NEW q \in Active, q # r,
           ~Does(q, "purge"), NEW x \in Below(About(q)), x \in Settled'
    PROVE  /\ x \in Settled /\ stamp'[x] = stamp[x] /\ killer'[x] = killer[x]
           /\ x \in Alive' <=> x \in Alive
           /\ x \in Dead' <=> x \in Dead
<1>1. x \in Settled
    BY SettledBefore
<1>2. x \in Records /\ x \notin gone /\ x \notin mixed /\ x \notin gone'
    BY <1>1, AliveIs DEF Settled, Stored
<1>3. ~((Does(r, "delete") \/ Does(r, "restore")) /\ x \in Below(About(r)))
    <2> SUFFICES ASSUME Does(r, "delete") \/ Does(r, "restore"), x \in Below(About(r))
                 PROVE  FALSE
        OBVIOUS
    <2>1. r \in Active /\ ~Does(r, "purge")
        BY RequestIs DEF Does
    <2> QED
        BY <1>2, <2>1 DEF MixedInv
<1>4. stamp'[x] = stamp[x] /\ killer'[x] = killer[x]
    BY <1>2, <1>3 DEF Passes
<1> QED
    BY <1>1, <1>2, <1>4 DEF Dead, Alive, Stored

LEMMA StepPasses ==
    ASSUME CascadeShape, [Next]_vars
    PROVE  UNCHANGED vars \/ \E r \in Requests : Passes(r)
<1>1. ASSUME NEW r \in Requests, Works(r) \/ Die(r)
      PROVE  Passes(r)
    BY <1>1, WorkPasses, DiePasses
<1>2. ASSUME NEW r \in Requests, Sweep(r) \/ \E x \in Records : Delete(r, x) \/ Restore(r, x)
      PROVE  Passes(r)
    BY <1>2, BeginsIs, BeginPasses
<1> QED
    BY <1>1, <1>2, NextIs

-----------------------------------------------------------------------------
\* One step of a deletion that stamps x, and goes on with next.
Marks(r, x, next) ==
    /\ r \in Active /\ Does(r, "delete") /\ About(r) \in Records /\ x \in Records
    /\ next \in Seq(CallRecords) /\ Then(r, next)
    /\ Of(r).do \in {"stamp", "save"} /\ Of(r).at \in 1..MaxTime /\ x \in Of(r).on
    /\ Of(r).on \subseteq Below(About(r))
    /\ x \in Settled => x \in Alive
    /\ gone' = gone /\ mixed' = mixed /\ own' = own /\ now' = now
    /\ stamp'[x] = Of(r).at /\ killer'[x] = About(r)
    /\ \A y \in Records : y # x => stamp'[y] = stamp[y] /\ killer'[y] = killer[y]
    /\ \A i \in DOMAIN next : i = 1 /\ next[i].do = Of(r).do /\ next[i].at = Of(r).at
                              /\ next[i].on \subseteq Of(r).on \ {x}
    /\ \A y \in (Of(r).on \intersect Alive) \ {x} : \E i \in DOMAIN next : y \in next[i].on
    /\ Of(r).on = {x} => next = <<>>

\* The end of a call that stamps, with nothing to stamp.
Skips(r) ==
    /\ r \in Active /\ Does(r, "delete") /\ Then(r, <<>>)
    /\ Of(r).do \in {"stamp", "save"} /\ Of(r).on \intersect Alive = {}
    /\ UNCHANGED <<stamp, gone, now, killer, own, mixed>>

LEMMA OrderedEnds ==
    ASSUME CascadeShape, NEW r \in Active, DeletionOrder(r)
    PROVE  /\ Of(r).do = "save" => Len(calls[r]) = 1 /\ Of(r).on = {About(r)}
           /\ Len(calls[r]) = 1 => Of(r).on = {About(r)}
           /\ Of(r).do # "projects" /\ About(r) \in Of(r).on => Len(calls[r]) = 1
           /\ \A j \in 2..Len(calls[r]) : Of(r).do # "projects" /\ calls[r][j].do # "projects" =>
                 Of(r).on \intersect calls[r][j].on = {}
<1>1. /\ calls[r] \in Seq(CallRecords) /\ Of(r) = calls[r][1]
      /\ Len(calls[r]) \in Nat \ {0} /\ DOMAIN calls[r] = 1..Len(calls[r])
    BY RequestIs, HeadIs, LenProperties, EmptySeq
<1> DEFINE s == calls[r]
           n == Len(s)
           k == About(r)
<1>2. Ordered(s, k)
    BY DEF DeletionOrder
<1>3. n \in Nat \ {0} /\ DOMAIN s = 1..n /\ Of(r) = s[1]
    BY <1>1
<1> HIDE DEF s, n, k
<1>4. /\ s[n].on = {k} /\ s[n].do \in {"delete", "stamp", "save"}
      /\ \A i \in 1..(n - 1) : s[i].do \in {"stamp", "delete", "projects"}
      /\ \A i, j \in 1..n : i # j /\ s[i].do # "projects" /\ s[j].do # "projects" =>
            s[i].on \intersect s[j].on = {}
    BY <1>2, <1>3 DEF Ordered, n
<1>5. n = 1 \/ 1 \in 1..(n - 1)
    BY <1>3
<1>6. s[1].do = "save" => n = 1
    BY <1>4, <1>5
<1>7. \A j \in 2..n : s[1].do # "projects" /\ s[j].do # "projects" => s[1].on \intersect s[j].on = {}
    BY <1>3, <1>4
<1>8. s[1].do # "projects" /\ k \in s[1].on => n = 1
    <2> SUFFICES ASSUME s[1].do # "projects", k \in s[1].on, n # 1
                 PROVE  FALSE
        OBVIOUS
    <2>1. n \in 2..n
        BY <1>3
    <2> QED
        BY <1>4, <1>7, <2>1
<1> QED
    BY <1>3, <1>4, <1>6, <1>7, <1>8 DEF s, n, k

LEMMA StampingIs ==
    ASSUME CascadeShape, DeletionInv, NEW r \in Requests, StampMany(r) \/ Save(r)
    PROVE  Skips(r) \/ \E x, next : Marks(r, x, next)
<1>1. ASSUME NEW x \in Records, Stamp(r, x), r \in Active
      PROVE  /\ gone' = gone /\ mixed' = mixed /\ own' = own /\ now' = now
             /\ stamp'[x] = Of(r).at /\ killer'[x] = About(r)
             /\ \A y \in Records : y # x => stamp'[y] = stamp[y] /\ killer'[y] = killer[y]
    BY <1>1 DEF Stamp, CountsUnchanged, CascadeShape
<1>2. CASE StampMany(r)
    <2> DEFINE left == Of(r).on \intersect Alive
    <2>1. /\ r \in Active /\ Does(r, "delete") /\ About(r) \in Records
          /\ Of(r).do = "stamp" /\ Of(r).on \subseteq Below(About(r)) /\ Of(r).on \subseteq Records
          /\ Of(r).at \in 1..MaxTime
        BY <1>2, StampManyWith
    <2>2. ASSUME NEW x \in left, Stamp(r, x), Then(r, Others(r, x, left)),
                 Others(r, x, left) \in Seq(CallRecords)
          PROVE  \E next : Marks(r, x, next)
        <3> DEFINE next == Others(r, x, left)
                   c == [Of(r) EXCEPT !.on = left \ {x}]
        <3>1. /\ left = {x} => next = <<>>
              /\ left # {x} => /\ next = <<c>>
                               /\ c.on = left \ {x} /\ c.do = Of(r).do /\ c.at = Of(r).at
            <4>1. left \subseteq Of(r).on /\ Of(r).do \in {"stamp", "revive"}
                BY <2>1
            <4> HIDE DEF left
            <4> QED
                BY <2>1, <4>1, OthersFit
        <3>2. /\ x \in Of(r).on /\ x \in Alive /\ x \in Records
              /\ next \in Seq(CallRecords) /\ Then(r, next)
              /\ left \subseteq Of(r).on
              /\ Of(r).on = {x} => left = {x}
            BY <2>1, <2>2
        <3> HIDE DEF next, c
        <3>3. \A i \in DOMAIN next : i = 1 /\ next[i].do = Of(r).do /\ next[i].at = Of(r).at
                                     /\ next[i].on \subseteq Of(r).on \ {x}
            <4> HIDE DEF left
            <4> QED
                BY <3>1, <3>2, EmptyCalls
        <3>4. \A y \in left \ {x} : \E i \in DOMAIN next : y \in next[i].on
            <4> HIDE DEF left
            <4> SUFFICES ASSUME NEW y \in left \ {x}
                         PROVE  \E i \in DOMAIN next : y \in next[i].on
                OBVIOUS
            <4>1. next = <<c>> /\ c.on = left \ {x}
                BY <3>1
            <4>2. 1 \in DOMAIN <<c>> /\ <<c>>[1] = c
                OBVIOUS
            <4> QED
                BY <4>1, <4>2
        <3>5. Of(r).on = {x} => next = <<>>
            BY <3>1, <3>2
        <3>6. Marks(r, x, next)
            BY <1>1, <2>1, <2>2, <3>2, <3>3, <3>4, <3>5 DEF Marks
        <3> QED
            BY <3>6
    <2>3. CASE left = {} /\ RecordsUnchanged /\ CountsUnchanged /\ Then(r, <<>>)
        BY <2>1, <2>3 DEF Skips, RecordsUnchanged, CountsUnchanged
    <2> QED
        BY <1>2, <2>2, <2>3, StampManyWith
<1>3. CASE Save(r)
    <2>1. /\ r \in Active /\ Does(r, "delete") /\ About(r) \in Records /\ Target(r) \in Records
          /\ Of(r).do = "save" /\ Of(r).on = {Target(r)} /\ Target(r) \in Below(About(r))
          /\ Of(r).at \in 1..MaxTime /\ Then(r, <<>>)
        BY <1>3, SaveWith
    <2>2. Target(r) = About(r) /\ (Target(r) \in Settled => Target(r) \in Alive)
        <3>1. DeletionOrder(r) /\ DeletionLeads(r)
            BY <2>1 DEF DeletionInv
        <3>2. Of(r).on = {About(r)}
            BY <2>1, <3>1, OrderedEnds
        <3> QED
            BY <2>1, <3>1, <3>2 DEF DeletionLeads
    <2>3. CASE Stamp(r, Target(r))
        <3>1. /\ \A i \in DOMAIN <<>> : FALSE
              /\ (Of(r).on \intersect Alive) \ {Target(r)} = {}
            BY <2>1, EmptyCalls
        <3>2. Marks(r, Target(r), <<>>)
            BY <1>1, <2>1, <2>2, <2>3, <3>1, EmptyCalls DEF Marks
        <3> QED
            BY <3>2
    <2>4. CASE Target(r) \notin Stored /\ RecordsUnchanged /\ CountsUnchanged
        BY <2>1, <2>4 DEF Skips, RecordsUnchanged, CountsUnchanged, Alive
    <2> QED
        BY <1>3, <2>3, <2>4, SaveWith
<1> QED
    BY <1>2, <1>3

\* A call that is to come still comes when the head is done, unless it was the head.
LEMMA WillStampKeeps ==
    ASSUME CascadeShape, NEW r \in Active, NEW next \in Seq(CallRecords), Then(r, next),
           NEW y, NEW at, WillStamp(calls[r], y, 1, at),
           Stamps(Of(r), y) => \E i \in DOMAIN next : Stamps(next[i], y) /\ next[i].at = Of(r).at
    PROVE  WillStamp(calls'[r], y, 1, at) /\ r \in Active'
<1> DEFINE n == Len(next)
           m == Len(calls[r])
           t == calls'[r]
<1>1. /\ m \in Nat \ {0} /\ n \in Nat /\ DOMAIN calls[r] = 1..m /\ DOMAIN next = 1..n
      /\ \A i \in DOMAIN next : i \in DOMAIN t /\ t[i] = next[i]
      /\ \A j \in 2..m : n + j - 1 \in DOMAIN t /\ t[n + j - 1] = calls[r][j]
      /\ DOMAIN t = 1..Len(t)
    BY StackChanges
<1>0. Of(r) = calls[r][1]
    BY DEF Of
<1>2. PICK j \in 1..m : Stamps(calls[r][j], y) /\ calls[r][j].at <= at
    BY DEF WillStamp
<1> HIDE DEF n, m, t
<1>3. \E i \in DOMAIN t : Stamps(t[i], y) /\ t[i].at <= at
    <2>1. CASE j = 1
        BY <1>0, <1>1, <1>2, <2>1
    <2>2. CASE j \in 2..m
        BY <1>1, <1>2, <2>2
    <2> QED
        BY <1>1, <2>1, <2>2
<1>4. WillStamp(t, y, 1, at)
    BY <1>1, <1>3 DEF WillStamp
<1>5. t # <<>>
    BY <1>3, EmptyCalls
<1> QED
    BY <1>4, <1>5, ThenIs DEF t

\* How x is found, in the state and in the next one.
Found(x) ==
    LET k == killer[x]
        y == Via(x, k)
    IN  \/ y \in Dead /\ (y = k \/ killer[y] = k) /\ stamp[y] <= stamp[x]
        \/ /\ y \in Alive
           /\ \E r \in Active : Does(r, "delete") /\ About(r) = k /\ WillStamp(calls[r], y, 1, stamp[x])

LEMMA ChainIs ==
    ASSUME ChainInv, NEW x \in Settled, x \in Dead, killer[x] # x
    PROVE  Found(x)
    BY DEF ChainInv, Found

LEMMA FoundDead ==
    ASSUME NEW x, NEW k, NEW y, killer'[x] = k, y = Via(x, k),
           y \in Dead', y = k \/ killer'[y] = k, stamp'[y] <= stamp'[x]
    PROVE  Found(x)'
    BY DEF Found, Via

LEMMA FoundAlive ==
    ASSUME NEW x, NEW k, NEW y, killer'[x] = k, y = Via(x, k), y \in Alive',
           NEW r \in Active', Does(r, "delete")', About(r)' = k, WillStamp(calls'[r], y, 1, stamp'[x])
    PROVE  Found(x)'
    BY DEF Found, Via, WillStamp, Stamps

LEMMA ChainLater ==
    ASSUME \A x \in Settled' : x \in Dead' /\ killer'[x] # x => Found(x)'
    PROVE  ChainInv'
    BY DEF ChainInv, Found, Via, WillStamp, Stamps

\* No step but a deletion's changes how what it stamped is found.
LEMMA ChainQuiet ==
    ASSUME CascadeShape, ChainInv, NEW r \in Requests, Passes(r), UNCHANGED <<stamp, gone, killer>>,
           \A y, at : Does(r, "delete") /\ y \in Alive /\ WillStamp(calls[r], y, 1, at) =>
                 \/ WillStamp(calls'[r], y, 1, at) /\ r \in Active'
                 \/ Below(About(r)) \subseteq mixed'
    PROVE  ChainInv'
<1>1. Alive' = Alive /\ Dead' = Dead
    BY DEF Alive, Dead, Stored
<1>2. ASSUME NEW x \in Settled', x \in Dead', killer'[x] # x
      PROVE  Found(x)'
    <2>1. x \in Settled /\ x \in Dead /\ killer[x] # x /\ killer'[x] = killer[x] /\ stamp'[x] = stamp[x]
        BY <1>1, <1>2, SettledBefore
    <2> DEFINE k == killer[x]
               y == Via(x, k)
    <2>2. \/ y \in Dead /\ (y = k \/ killer[y] = k) /\ stamp[y] <= stamp[x]
          \/ /\ y \in Alive
             /\ \E q \in Active : Does(q, "delete") /\ About(q) = k /\ WillStamp(calls[q], y, 1, stamp[x])
        BY <2>1, ChainIs DEF Found
    <2>3. killer'[x] = k /\ y = Via(x, k) /\ x \in Below(k) /\ x \notin mixed'
        BY <1>2, <2>1, AliveIs DEF CascadeShape, Settled
    <2> HIDE DEF k, y
    <2>4. CASE y \in Dead /\ (y = k \/ killer[y] = k) /\ stamp[y] <= stamp[x]
        BY <1>1, <2>3, <2>4, FoundDead
    <2>5. ASSUME y \in Alive, NEW q \in Active, Does(q, "delete"), About(q) = k,
                 WillStamp(calls[q], y, 1, stamp[x])
          PROVE  Found(x)'
        <3>1. WillStamp(calls'[q], y, 1, stamp'[x]) /\ q \in Active' /\ root'[q] = root[q]
            <4>1. CASE q = r
                <5>1. WillStamp(calls'[r], y, 1, stamp[x]) /\ r \in Active'
                    BY <2>3, <2>5, <4>1
                <5> QED
                    BY <2>1, <4>1, <5>1 DEF Passes
            <4>2. CASE q # r
                BY <2>1, <2>5, <4>2 DEF Passes, Active
            <4> QED
                BY <4>1, <4>2
        <3>2. Does(q, "delete")' /\ About(q)' = k
            BY <2>5, <3>1, SameRequest
        <3> QED
            BY <1>1, <2>3, <2>5, <3>1, <3>2, FoundAlive
    <2> QED
        BY <2>2, <2>4, <2>5
<1> QED
    BY <1>2, ChainLater

LEMMA ChainMarks ==
    ASSUME CascadeShape, MixedInv, DeadInv, ChainInv, DeletionInv,
           NEW r \in Requests, Passes(r), NEW x0, NEW next, Marks(r, x0, next)
    PROVE  ChainInv'
<1> USE DEF Marks
<1>1. DeletionOrder(r) /\ DeletionLeads(r) /\ 1 \in DOMAIN calls[r] /\ Of(r) = calls[r][1]
    BY HeadIs DEF DeletionInv
<1>2. Stamps(Of(r), x0)
    BY DEF Stamps
<1>3. /\ Of(r).at # Live /\ x0 \in Records /\ gone' = gone
      /\ \A y : y # x0 => (y \in Alive' <=> y \in Alive) /\ (y \in Dead' <=> y \in Dead)
    <2>1. Of(r).at # Live
        BY DEF Live
    <2>2. \A y \in Records : y # x0 => stamp'[y] = stamp[y]
        OBVIOUS
    <2> QED
        BY <2>1, <2>2, AliveIs DEF Dead, Alive, Stored
<1>4. x0 \in Dead'
    BY <1>3 DEF Dead, Alive, Stored
<1>5. ASSUME NEW y, y # x0, NEW at, WillStamp(calls[r], y, 1, at), y \in Alive
      PROVE  WillStamp(calls'[r], y, 1, at) /\ r \in Active'
    <2>1. Stamps(Of(r), y) => \E i \in DOMAIN next : Stamps(next[i], y) /\ next[i].at = Of(r).at
        BY <1>5 DEF Stamps
    <2> QED
        BY <1>5, <2>1, WillStampKeeps
<1>6. ASSUME NEW x \in Settled', x \in Dead', killer'[x] # x
      PROVE  Found(x)'
    <2>1. x \in Settled /\ x \in Records
        BY SettledBefore, AliveIs
    <2>2. CASE x = x0
        <3> DEFINE k == About(r)
                   y == Via(x, k)
        <3>1. k \in Records /\ x \in Below(k) /\ x # k /\ killer'[x] = k /\ x \in Alive
            BY <1>6, <2>1, <2>2
        <3>2. y \in Alive /\ WillStamp(calls[r], y, 2, Of(r).at)
            BY <1>1, <1>2, <2>1, <2>2, <3>1 DEF DeletionLeads
        <3>3. y # x0
            BY <2>2, <3>1, ViaIs
        <3>4. WillStamp(calls[r], y, 1, Of(r).at)
            BY <3>2 DEF WillStamp
        <3>5. killer'[x] = k /\ y = Via(x, k) /\ stamp'[x] = Of(r).at
            BY <2>2
        <3>6. r \in Active' => root'[r] = root[r]
            BY ThenIs
        <3> HIDE DEF y
        <3>7. WillStamp(calls'[r], y, 1, Of(r).at) /\ r \in Active' /\ y \in Alive'
            BY <1>3, <1>5, <3>2, <3>3, <3>4
        <3>8. Does(r, "delete")' /\ About(r)' = k
            BY <3>6, <3>7, SameRequest
        <3> HIDE DEF k
        <3> QED
            BY <3>5, <3>7, <3>8, FoundAlive
    <2>3. CASE x # x0
        <3> DEFINE k == killer[x]
                   y == Via(x, k)
        <3>1. x \in Dead /\ killer'[x] = k /\ stamp'[x] = stamp[x] /\ k # x
            BY <1>3, <1>6, <2>1, <2>3
        <3>2. k \in Records /\ x \in Below(k)
            BY <2>1 DEF CascadeShape
        <3>3. y \in Records /\ x \in Below(y) /\ y \in Below(k)
            BY <3>1, <3>2, ViaIs
        <3>4. y \in Settled
            BY <2>1, <3>3, AboveSettled
        <3>5. \/ y \in Dead /\ (y = k \/ killer[y] = k) /\ stamp[y] <= stamp[x]
              \/ /\ y \in Alive
                 /\ \E q \in Active : Does(q, "delete") /\ About(q) = k /\ WillStamp(calls[q], y, 1, stamp[x])
            BY <2>1, <3>1, ChainIs DEF Found
        <3>6. y = Via(x, k)
            OBVIOUS
        <3> HIDE DEF k, y
        <3>7. CASE y \in Dead /\ (y = k \/ killer[y] = k) /\ stamp[y] <= stamp[x]
            <4>1. y # x0
                BY <3>4, <3>7 DEF Dead
            <4>2. y \in Dead' /\ (y = k \/ killer'[y] = k) /\ stamp'[y] <= stamp'[x]
                BY <1>3, <3>1, <3>3, <3>7, <4>1
            <4> QED
                BY <3>1, <3>6, <4>2, FoundDead
        <3>8. ASSUME y \in Alive, NEW q \in Active, Does(q, "delete"), About(q) = k,
                     WillStamp(calls[q], y, 1, stamp[x])
              PROVE  Found(x)'
            <4>1. CASE y # x0
                <5>1. WillStamp(calls'[q], y, 1, stamp'[x]) /\ q \in Active' /\ root'[q] = root[q]
                    <6>1. CASE q = r
                        BY <1>5, <3>1, <3>8, <4>1, <6>1, ThenIs
                    <6>2. CASE q # r
                        BY <3>1, <3>8, <6>2 DEF Passes, Active
                    <6> QED
                        BY <6>1, <6>2
                <5>2. Does(q, "delete")' /\ About(q)' = k
                    BY <3>8, <5>1, SameRequest
                <5>3. y \in Alive'
                    BY <1>3, <3>8, <4>1
                <5> QED
                    BY <3>1, <3>6, <5>1, <5>2, <5>3, FoundAlive
            <4>2. CASE y = x0
                <5>1. q = r
                    <6> SUFFICES ASSUME q # r
                                 PROVE  FALSE
                        OBVIOUS
                    <6>1. ~Does(q, "purge") /\ ~Does(r, "purge")
                        BY <3>8, RequestIs
                    <6>2. y \in Below(About(r)) /\ y \in Below(About(q))
                        BY <3>3, <3>8, <4>2
                    <6> QED
                        BY <3>4, <3>8, <6>1, <6>2, AliveIs DEF MixedInv
                <5>2. k = About(r) /\ killer'[y] = k /\ stamp'[y] = Of(r).at
                    BY <3>8, <4>2, <5>1
                <5>3. PICK j \in 1..Len(calls[r]) : Stamps(calls[r][j], y) /\ calls[r][j].at <= stamp[x]
                    BY <3>8, <5>1 DEF WillStamp
                <5>4. j = 1
                    <6> SUFFICES ASSUME j # 1
                                 PROVE  FALSE
                        OBVIOUS
                    <6>1. j \in 2..Len(calls[r])
                        BY RequestIs, LenProperties
                    <6>2. Of(r).on \intersect calls[r][j].on = {}
                        BY <1>1, <5>3, <6>1, OrderedEnds DEF Stamps
                    <6> QED
                        BY <4>2, <5>3, <6>2 DEF Stamps
                <5>5. stamp'[y] <= stamp'[x]
                    BY <1>1, <3>1, <5>2, <5>3, <5>4
                <5> QED
                    BY <1>4, <3>1, <3>6, <4>2, <5>2, <5>5, FoundDead
            <4> QED
                BY <4>1, <4>2
        <3> QED
            BY <3>5, <3>7, <3>8
    <2> QED
        BY <2>2, <2>3
<1> QED
    BY <1>6, ChainLater

\* One step of a restore that brings x back, and goes on with next.
Revives(r, x, next) ==
    /\ r \in Active /\ Does(r, "restore") /\ About(r) \in Records /\ x \in Records
    /\ next \in Seq(CallRecords) /\ Then(r, next)
    /\ Of(r).do = "revive" /\ x \in Of(r).on /\ Of(r).on \subseteq Below(About(r))
    /\ x \in Stored /\ x \in Dead /\ Of(r).at <= stamp[x]
    /\ gone' = gone /\ mixed' = mixed /\ own' = own /\ now' = now
    /\ stamp'[x] = Live /\ killer'[x] = x
    /\ \A y \in Records : y # x => stamp'[y] = stamp[y] /\ killer'[y] = killer[y]
    /\ \A i \in DOMAIN next : i = 1 /\ next[i].do = "revive" /\ next[i].at = Of(r).at
                              /\ next[i].on \subseteq Of(r).on \ {x}
    /\ \A y \in Revivable(r) \ {x} : \E i \in DOMAIN next : y \in next[i].on

\* The end of a call that brings back, with nothing to bring back.
RevivesNone(r) ==
    /\ r \in Active /\ Does(r, "restore") /\ Then(r, <<>>)
    /\ Of(r).do = "revive" /\ Revivable(r) = {}
    /\ UNCHANGED <<stamp, gone, now, killer, own, mixed>>

LEMMA RevivingIs ==
    ASSUME CascadeShape, NEW r \in Requests, Revive(r)
    PROVE  RevivesNone(r) \/ \E x, next : Revives(r, x, next)
<1> DEFINE left == Revivable(r)
<1>1. /\ r \in Active /\ Does(r, "restore") /\ About(r) \in Records
      /\ Of(r).do = "revive" /\ Of(r).on \subseteq Below(About(r)) /\ Of(r).on \subseteq Records
      /\ left \subseteq Of(r).on /\ now' = now /\ CountsUnchanged
    BY ReviveWith
<1>2. ASSUME NEW x \in left, stamp' = [stamp EXCEPT ![x] = Live],
             killer' = [killer EXCEPT ![x] = x], gone' = gone, Then(r, Others(r, x, left)),
             Others(r, x, left) \in Seq(CallRecords)
      PROVE  \E next : Revives(r, x, next)
    <2> DEFINE next == Others(r, x, left)
               c == [Of(r) EXCEPT !.on = left \ {x}]
    <2>1. /\ left = {x} => next = <<>>
          /\ left # {x} => /\ next = <<c>>
                           /\ c.on = left \ {x} /\ c.do = Of(r).do /\ c.at = Of(r).at
        <3>1. left \subseteq Of(r).on /\ Of(r).do \in {"stamp", "revive"}
            BY <1>1
        <3> HIDE DEF left
        <3> QED
            BY <1>1, <3>1, OthersFit
    <2>2. x \in Of(r).on /\ x \in Records /\ next \in Seq(CallRecords) /\ Then(r, next)
        BY <1>1, <1>2
    <2>3. x \in Stored /\ stamp[x] # Live /\ stamp[x] >= Of(r).at
        BY <1>2, WithRootIs DEF Revivable
    <2>4. x \in Dead /\ Of(r).at <= stamp[x]
        <3>1. stamp[x] \in Nat /\ Of(r).at \in Nat
            BY SMTT(20), <1>1, <2>2, HeadIs, CascadeAssumption DEF CascadeShape
        <3> QED
            BY <2>2, <2>3, <3>1, AliveIs
    <2>5. /\ stamp'[x] = Live /\ killer'[x] = x
          /\ \A y \in Records : y # x => stamp'[y] = stamp[y] /\ killer'[y] = killer[y]
        BY <1>2, <2>2 DEF CascadeShape
    <2> HIDE DEF next, c, left
    <2>6. \A i \in DOMAIN next : i = 1 /\ next[i].do = "revive" /\ next[i].at = Of(r).at
                                 /\ next[i].on \subseteq Of(r).on \ {x}
        BY <1>1, <2>1, EmptyCalls
    <2>7. \A y \in left \ {x} : \E i \in DOMAIN next : y \in next[i].on
        <3> SUFFICES ASSUME NEW y \in left \ {x}
                     PROVE  \E i \in DOMAIN next : y \in next[i].on
            OBVIOUS
        <3>1. next = <<c>> /\ c.on = left \ {x}
            BY <2>1
        <3>2. 1 \in DOMAIN <<c>> /\ <<c>>[1] = c
            OBVIOUS
        <3> QED
            BY <3>1, <3>2
    <2>8. mixed' = mixed /\ own' = own
        BY <1>1 DEF CountsUnchanged
    <2>9. Revives(r, x, next)
        BY <1>1, <1>2, <2>2, <2>3, <2>4, <2>5, <2>6, <2>7, <2>8 DEF Revives, left
    <2> QED
        BY <2>9
<1>3. CASE left = {} /\ RecordsUnchanged /\ Then(r, <<>>)
    BY <1>1, <1>3 DEF RevivesNone, RecordsUnchanged, CountsUnchanged
<1> QED
    BY <1>2, <1>3, ReviveWith

\* A record that is brought back has nothing below it that is found by way of it.
LEMMA ChainRevives ==
    ASSUME CascadeShape, ChainInv, RestoreInv, NEW r \in Requests, Passes(r),
           NEW x0, NEW next, Revives(r, x0, next)
    PROVE  ChainInv'
<1>1. /\ 1 \in DOMAIN calls[r] /\ Of(r) = calls[r][1] /\ r \in Active /\ Does(r, "restore")
      /\ Of(r).do = "revive" /\ x0 \in Of(r).on /\ x0 \in Records
    BY HeadIs DEF Revives
<1>2. Children(x0) = {}
    <2>1. 1..(1 - 1) = {}
        OBVIOUS
    <2> QED
        BY <1>1, <2>1 DEF RestoreInv, RestoreFinds
<1>3. /\ gone' = gone /\ stamp'[x0] = Live
      /\ \A y \in Records : y # x0 => stamp'[y] = stamp[y] /\ killer'[y] = killer[y]
    BY DEF Revives
<1>4. \A y : y # x0 => (y \in Alive' <=> y \in Alive) /\ (y \in Dead' <=> y \in Dead)
    BY <1>1, <1>3 DEF Dead, Alive, Stored
<1>5. x0 \in Alive'
    BY <1>1, <1>3, AliveIs DEF Revives, Alive, Stored
<1>6. ASSUME NEW x \in Settled', x \in Dead', killer'[x] # x
      PROVE  Found(x)'
    <2> DEFINE k == killer[x]
               y == Via(x, k)
    <2>1. x # x0 /\ x \in Settled /\ x \in Records
        BY <1>5, <1>6, SettledBefore, AliveIs DEF Dead
    <2>2. x \in Dead /\ killer'[x] = k /\ stamp'[x] = stamp[x] /\ k # x
        BY <1>3, <1>4, <1>6, <2>1
    <2>3. y \in Records
        <3>1. k \in Records /\ x \in Below(k)
            BY <2>1 DEF CascadeShape
        <3> QED
            BY <2>2, <3>1, ViaIs
    <2>4. y # x0
        BY <1>2, <2>1, <2>2 DEF Children
    <2>5. \/ y \in Dead /\ (y = k \/ killer[y] = k) /\ stamp[y] <= stamp[x]
          \/ /\ y \in Alive
             /\ \E q \in Active : Does(q, "delete") /\ About(q) = k /\ WillStamp(calls[q], y, 1, stamp[x])
        BY <2>1, <2>2, ChainIs DEF Found
    <2>6. y = Via(x, k)
        OBVIOUS
    <2> HIDE DEF k, y
    <2>7. CASE y \in Dead /\ (y = k \/ killer[y] = k) /\ stamp[y] <= stamp[x]
        <3>1. y \in Dead' /\ (y = k \/ killer'[y] = k) /\ stamp'[y] <= stamp'[x]
            BY <1>3, <1>4, <2>2, <2>3, <2>4, <2>7
        <3> QED
            BY <2>2, <2>6, <3>1, FoundDead
    <2>8. ASSUME y \in Alive, NEW q \in Active, Does(q, "delete"), About(q) = k,
                 WillStamp(calls[q], y, 1, stamp[x])
          PROVE  Found(x)'
        <3>1. q # r
            BY <1>1, <2>8, RequestIs
        <3>2. calls'[q] = calls[q] /\ root'[q] = root[q]
            BY <3>1 DEF Passes, Active
        <3>3. q \in Active' /\ Does(q, "delete")' /\ About(q)' = k
            BY <2>8, <3>2, SameRequest
        <3>4. y \in Alive' /\ WillStamp(calls'[q], y, 1, stamp'[x])
            BY <1>4, <2>2, <2>4, <2>8, <3>2
        <3> QED
            BY <2>2, <2>6, <3>3, <3>4, FoundAlive
    <2> QED
        BY <2>5, <2>7, <2>8
<1> QED
    BY <1>6, ChainLater

\* What is removed takes with it all that would be found by way of it.
LEMMA ChainDrops ==
    ASSUME CascadeShape, ChainInv, DeadInv', NEW r \in Requests, Drop(r)
    PROVE  ChainInv'
<1>1. Passes(r) /\ r \in Active /\ Does(r, "purge")
    BY DropPasses, DropWith
<1>2. gone' = gone \union Of(r).on /\ Of(r).on \subseteq Records
    BY DropWith DEF Drop
<1>3. /\ \A y \in Records \ gone' : stamp'[y] = stamp[y] /\ killer'[y] = killer[y]
      /\ \A y \in Records \ gone' : (y \in Alive' <=> y \in Alive) /\ (y \in Dead' <=> y \in Dead)
    <2>1. \A y \in Records \ gone' : stamp'[y] = stamp[y] /\ killer'[y] = killer[y]
        BY <1>1, RequestIs DEF Passes
    <2> QED
        BY <1>2, <2>1 DEF Dead, Alive, Stored
<1>4. \A z \in gone' : Below(z) \subseteq gone'
    BY DEF DeadInv, Below, OwnedBy, LecturesIn, SlidesOf
<1>5. ASSUME NEW x \in Settled', x \in Dead', killer'[x] # x
      PROVE  Found(x)'
    <2> DEFINE k == killer[x]
               y == Via(x, k)
    <2>1. x \in Settled /\ x \in Records /\ x \notin gone'
        BY <1>1, <1>5, SettledBefore, AliveIs DEF Settled, Stored
    <2>2. x \in Dead /\ killer'[x] = k /\ stamp'[x] = stamp[x] /\ k # x
        BY <1>3, <1>5, <2>1
    <2>3. y \in Records /\ y \notin gone'
        <3>1. k \in Records /\ x \in Below(k)
            BY <2>1 DEF CascadeShape
        <3>2. y \in Records /\ x \in Below(y)
            BY <2>2, <3>1, ViaIs
        <3> QED
            BY <1>4, <2>1, <3>2
    <2>4. \/ y \in Dead /\ (y = k \/ killer[y] = k) /\ stamp[y] <= stamp[x]
          \/ /\ y \in Alive
             /\ \E q \in Active : Does(q, "delete") /\ About(q) = k /\ WillStamp(calls[q], y, 1, stamp[x])
        BY <2>1, <2>2, ChainIs DEF Found
    <2>5. y = Via(x, k)
        OBVIOUS
    <2> HIDE DEF k, y
    <2>6. CASE y \in Dead /\ (y = k \/ killer[y] = k) /\ stamp[y] <= stamp[x]
        <3>1. y \in Dead' /\ (y = k \/ killer'[y] = k) /\ stamp'[y] <= stamp'[x]
            BY <1>3, <2>2, <2>3, <2>6
        <3> QED
            BY <2>2, <2>5, <3>1, FoundDead
    <2>7. ASSUME y \in Alive, NEW q \in Active, Does(q, "delete"), About(q) = k,
                 WillStamp(calls[q], y, 1, stamp[x])
          PROVE  Found(x)'
        <3>1. q # r
            BY <1>1, <2>7, RequestIs
        <3>2. calls'[q] = calls[q] /\ root'[q] = root[q]
            BY <1>1, <3>1 DEF Passes, Active
        <3>3. q \in Active' /\ Does(q, "delete")' /\ About(q)' = k
            BY <2>7, <3>2, SameRequest
        <3>4. y \in Alive' /\ WillStamp(calls'[q], y, 1, stamp'[x])
            BY <1>3, <2>2, <2>3, <2>7, <3>2
        <3> QED
            BY <2>2, <2>5, <3>3, <3>4, FoundAlive
    <2> QED
        BY <2>4, <2>6, <2>7
<1> QED
    BY <1>5, ChainLater

LEMMA ChainStep ==
    ASSUME CascadeShape, MixedInv, DeadInv, ChainInv, DeletionInv, RestoreInv, [Next]_vars, DeadInv'
    PROVE  ChainInv'
<1>1. ASSUME NEW r \in Requests, DeleteStarts(r) \/ DeleteProjects(r)
      PROVE  ChainInv'
    <2>1. UNCHANGED <<stamp, gone, killer>> /\ Of(r).do \in {"delete", "projects"} /\ r \in Active
        BY <1>1 DEF DeleteStarts, DeleteProjects, RecordsUnchanged, At, Of
    <2>2. \E next \in Seq(CallRecords) : Then(r, next)
        BY <1>1, DeleteStartsWith, DeleteProjectsWith
    <2>3. Passes(r)
        BY <1>1, WorkPasses DEF Works
    <2>4. \A y : ~Stamps(Of(r), y)
        BY <2>1 DEF Stamps
    <2>5. \A y, at : WillStamp(calls[r], y, 1, at) => WillStamp(calls'[r], y, 1, at) /\ r \in Active'
        BY <2>1, <2>2, <2>4, WillStampKeeps
    <2> QED
        BY <2>1, <2>3, <2>5, ChainQuiet
<1>2. ASSUME NEW r \in Requests, StampMany(r) \/ Save(r)
      PROVE  ChainInv'
    <2>1. Passes(r)
        BY <1>2, WorkPasses DEF Works
    <2>2. CASE Skips(r)
        <3>1. \A y \in Alive : ~Stamps(Of(r), y)
            BY <2>2 DEF Stamps, Skips
        <3>2. \A y \in Alive : \A at :
                 WillStamp(calls[r], y, 1, at) => WillStamp(calls'[r], y, 1, at) /\ r \in Active'
            BY <2>2, <3>1, EmptyCalls, WillStampKeeps DEF Skips
        <3> QED
            BY <2>1, <2>2, <3>2, ChainQuiet DEF Skips
    <2> QED
        BY <1>2, <2>1, <2>2, StampingIs, ChainMarks
<1>3. ASSUME NEW r \in Requests, Works(r), ~Does(r, "delete"), UNCHANGED <<stamp, gone, killer>>
      PROVE  ChainInv'
    BY <1>3, WorkPasses, ChainQuiet
<1>4. ASSUME NEW r \in Requests,
             RestoreStarts(r) \/ RestoreProjects(r) \/ PurgeLooks(r) \/ PurgeStarts(r) \/ PurgeProjects(r)
      PROVE  ChainInv'
    <2>1. r \in Active /\ (Does(r, "restore") \/ Does(r, "purge"))
        BY <1>4, RestoreStartsWith, RestoreProjectsWith, PurgeLooksWith, PurgeStartsWith, PurgeProjectsWith
    <2>2. ~Does(r, "delete")
        BY <2>1, RequestIs
    <2>3. UNCHANGED <<stamp, gone, killer>>
        BY <1>4 DEF RestoreStarts, RestoreProjects, PurgeLooks, PurgeStarts, PurgeProjects, RecordsUnchanged
    <2> QED
        BY <1>3, <1>4, <2>2, <2>3 DEF Works
<1>5. ASSUME NEW r \in Requests, Revive(r)
      PROVE  ChainInv'
    <2>1. Passes(r)
        BY <1>5, WorkPasses DEF Works
    <2>2. CASE RevivesNone(r)
        <3>1. ~Does(r, "delete")
            BY <2>2, RequestIs DEF RevivesNone
        <3> QED
            BY <1>3, <1>5, <2>2, <3>1 DEF RevivesNone, Works
    <2> QED
        BY <1>5, <2>1, <2>2, RevivingIs, ChainRevives
<1>6. ASSUME NEW r \in Requests, Sweep(r) \/ \E x \in Records : Delete(r, x) \/ Restore(r, x)
      PROVE  ChainInv'
    <2>1. PICK what, x, first : BeginsAs(r, what, x, first)
        BY <1>6, BeginsIs
    <2>2. r \notin Active /\ UNCHANGED <<stamp, gone, killer>> /\ Passes(r)
        BY <2>1, BeginIs, BeginPasses
    <2> QED
        BY <2>2, ChainQuiet DEF Does
<1>7. ASSUME NEW r \in Requests, Die(r)
      PROVE  ChainInv'
    <2>1. /\ r \in Active /\ UNCHANGED <<stamp, gone, killer>> /\ Passes(r)
          /\ mixed' = mixed \union (IF About(r) = Purge THEN {} ELSE Below(About(r)))
        BY <1>7, DieIs, DiePasses
    <2>2. Does(r, "delete") => Below(About(r)) \subseteq mixed'
        BY <2>1, RequestIs, KindsAreApart
    <2> QED
        BY <2>1, <2>2, ChainQuiet
<1>8. CASE UNCHANGED vars
    <2>1. UNCHANGED <<stamp, gone, killer, mixed, calls, root>>
        BY <1>8 DEF vars
    <2>2. /\ Settled' = Settled /\ Dead' = Dead /\ Alive' = Alive /\ Active' = Active
          /\ \A q : (\A w : Does(q, w)' <=> Does(q, w)) /\ About(q)' = About(q)
        BY <2>1 DEF Settled, Dead, Alive, Stored, Active, Does, About
    <2>3. ASSUME NEW x \in Settled', x \in Dead', killer'[x] # x
          PROVE  Found(x)'
        <3>1. Found(x)
            BY <2>1, <2>2, <2>3, ChainIs
        <3> QED
            BY <2>1, <2>2, <3>1, FoundDead, FoundAlive DEF Found
    <2> QED
        BY <2>3, ChainLater
<1> QED
    BY <1>1, <1>2, <1>4, <1>5, <1>6, <1>7, <1>8, ChainDrops, NextIs DEF Works

-----------------------------------------------------------------------------
(* In what order a deletion makes its calls.                               *)

LEMMA OrderLater ==
    ASSUME NEW q, NEW k, About(q)' = k, Ordered(calls'[q], k)
    PROVE  DeletionOrder(q)'
    BY DEF DeletionOrder, Ordered

\* Calls that may come before the last ones of a deletion of k, which has the date t.
ComesBefore(c, k, t) ==
    /\ c.do \in {"stamp", "delete"}
    /\ c.do = "stamp" => k \notin c.on /\ t <= c.at
    /\ c.do = "delete" => \E p \in Projects : c.on = {p} /\ Owner[p] = k

\* Calls that may take the place of the first call of a deletion of k.
Replaces(next, s, k) ==
    /\ \A i \in DOMAIN next : ComesBefore(next[i], k, s[Len(s)].at)
    /\ \A i, j \in DOMAIN next : i # j => next[i].on \intersect next[j].on = {}
    /\ \A i \in DOMAIN next : \A j \in 2..Len(s) :
          s[j].do # "projects" => next[i].on \intersect s[j].on = {}
    /\ \A i \in DOMAIN next : next[i].do = "delete" =>
          /\ \A j \in DOMAIN next : next[j].do = "delete"
          /\ \A j \in 2..(Len(s) - 1) : s[j].do = "delete"

LEMMA OrderKeeps ==
    ASSUME NEW s \in Seq(CallRecords), s # <<>>, Len(s) # 1, NEW k, Ordered(s, k),
           NEW next \in Seq(CallRecords), NEW t, t = GoesOn(s, next),
           Replaces(next, s, k)
    PROVE  Ordered(t, k)
<1> USE DEF Replaces
<1> DEFINE m == Len(s)
           n == Len(next)
           l == n + m - 1
<1>1. /\ m \in Nat \ {0} /\ n \in Nat /\ DOMAIN s = 1..m /\ DOMAIN next = 1..n
      /\ Len(t) = l /\ DOMAIN t = 1..Len(t)
    BY StackIs
<1>2. \A i \in DOMAIN next : t[i] = next[i]
    BY StackIs
<1>3. \A j \in 2..Len(s) : t[Len(next) + j - 1] = s[j]
    BY StackIs
<1>4. /\ m \in Nat \ {0} /\ n \in Nat /\ DOMAIN s = 1..m /\ DOMAIN next = 1..n /\ DOMAIN t = 1..l
      /\ Len(t) = l
      /\ \A i \in 1..n : t[i] = next[i]
      /\ \A j \in 2..m : t[n + j - 1] = s[j]
    BY <1>1, <1>2, <1>3
<1>5. m > 1
    BY <1>4
<1>6. /\ s[m].on = {k} /\ s[m].do \in {"stamp", "save"}
      /\ \A j \in 1..(m - 1) :
            /\ s[j].do \in {"stamp", "delete", "projects"}
            /\ s[j].do = "stamp" => k \notin s[j].on /\ s[m].at <= s[j].at
            /\ s[j].do = "delete" => \E p \in Projects : s[j].on = {p} /\ Owner[p] = k
            /\ s[j].do = "delete" => \A h \in j..(m - 1) : s[h].do = "delete"
            /\ s[j].do = "projects" => s[j].on = {k} /\ j = m - 1
      /\ \A i, j \in 1..m : i # j /\ s[i].do # "projects" /\ s[j].do # "projects" =>
            s[i].on \intersect s[j].on = {}
    BY <1>4, <1>5 DEF Ordered
<1>7. \A i \in 1..l : \/ i \in 1..n /\ t[i] = next[i]
                      \/ \E j \in 2..m : i = n + j - 1 /\ t[i] = s[j]
    <2> SUFFICES ASSUME NEW i \in 1..l, i \notin 1..n
                 PROVE  \E j \in 2..m : i = n + j - 1 /\ t[i] = s[j]
        BY <1>4
    <2> DEFINE j == i - n + 1
    <2>1. j \in 2..m /\ i = n + j - 1
        BY <1>4
    <2> QED
        BY <1>4, <2>1
<1>8. t[l] = s[m] /\ l # 1 => t[l].do # "delete"
    BY <1>4, <1>5, <1>6
<1>9. t[l] = s[m] /\ l \in 1..l /\ l \in Nat
    BY <1>4, <1>5
<1> HIDE DEF m, n, l
<1>10. ASSUME NEW i \in 1..(l - 1)
      PROVE  /\ t[i].do \in {"stamp", "delete", "projects"}
             /\ t[i].do = "stamp" => k \notin t[i].on /\ t[l].at <= t[i].at
             /\ t[i].do = "delete" => \E p \in Projects : t[i].on = {p} /\ Owner[p] = k
             /\ t[i].do = "delete" => \A h \in i..(l - 1) : t[h].do = "delete"
             /\ t[i].do = "projects" => t[i].on = {k} /\ i = l - 1
    <2>1. i \in 1..l
        BY <1>9
    <2>2. CASE i \in 1..n /\ t[i] = next[i]
        <3>1. ComesBefore(t[i], k, t[l].at)
            BY <1>4, <1>9, <2>2 DEF m
        <3>2. ASSUME t[i].do = "delete", NEW h \in i..(l - 1)
              PROVE  t[h].do = "delete"
            <4>1. h \in 1..l /\ h # l
                BY <1>9
            <4>2. CASE h \in 1..n /\ t[h] = next[h]
                BY <1>4, <2>2, <3>2, <4>2
            <4>3. ASSUME NEW j \in 2..m, h = n + j - 1, t[h] = s[j]
                  PROVE  t[h].do = "delete"
                <5>1. j # m
                    BY <4>1, <4>3 DEF l
                <5>2. j \in 2..(m - 1)
                    BY <1>4, <5>1
                <5> QED
                    BY <1>4, <2>2, <3>2, <4>3, <5>2 DEF m
            <4> QED
                BY <1>7, <4>1, <4>2, <4>3
        <3> QED
            BY <3>1, <3>2 DEF ComesBefore
    <2>3. ASSUME NEW j \in 2..m, i = n + j - 1, t[i] = s[j]
          PROVE  /\ t[i].do \in {"stamp", "delete", "projects"}
                 /\ t[i].do = "stamp" => k \notin t[i].on /\ t[l].at <= t[i].at
                 /\ t[i].do = "delete" => \E p \in Projects : t[i].on = {p} /\ Owner[p] = k
                 /\ t[i].do = "delete" => \A h \in i..(l - 1) : t[h].do = "delete"
                 /\ t[i].do = "projects" => t[i].on = {k} /\ i = l - 1
        <3>1. j \in 1..(m - 1)
            BY <1>4, <2>3 DEF l
        <3>2. j = m - 1 => i = l - 1
            BY <1>4, <2>3 DEF l
        <3>3. ASSUME t[i].do = "delete", NEW h \in i..(l - 1)
              PROVE  t[h].do = "delete"
            <4> DEFINE g == h - n + 1
            <4>1. g \in j..(m - 1) /\ g \in 2..m /\ h = n + g - 1
                BY <1>4, <2>3 DEF l
            <4>2. s[g].do = "delete"
                BY <1>6, <2>3, <3>1, <3>3, <4>1
            <4> HIDE DEF g
            <4> QED
                BY <1>4, <4>1, <4>2
        <3> QED
            BY <1>6, <1>9, <2>3, <3>1, <3>2, <3>3
    <2> QED
        BY <1>7, <2>1, <2>2, <2>3
<1>11. ASSUME NEW i \in 1..l, NEW j \in 1..l, i # j, t[i].do # "projects", t[j].do # "projects"
      PROVE  t[i].on \intersect t[j].on = {}
    <2>1. CASE i \in 1..n /\ t[i] = next[i] /\ j \in 1..n /\ t[j] = next[j]
        BY <1>4, <1>11, <2>1
    <2>2. ASSUME NEW a \in 1..n, NEW b \in 1..l, b # a, t[a] = next[a], t[b].do # "projects",
                 NEW g \in 2..m, t[b] = s[g]
          PROVE  t[a].on \intersect t[b].on = {}
        <3>1. a \in DOMAIN next /\ g \in 2..Len(s) /\ s[g].do # "projects"
            BY <1>4, <2>2 DEF m
        <3>2. next[a].on \intersect s[g].on = {}
            BY <3>1
        <3> QED
            BY <2>2, <3>2
    <2>3. ASSUME NEW g \in 2..m, i = n + g - 1, t[i] = s[g], NEW h \in 2..m, j = n + h - 1, t[j] = s[h]
          PROVE  t[i].on \intersect t[j].on = {}
        <3>1. g # h /\ g \in 1..m /\ h \in 1..m
            BY <1>4, <1>11, <2>3
        <3> QED
            BY <1>6, <1>11, <2>3, <3>1
    <2> QED
        BY <1>7, <1>11, <2>1, <2>2, <2>3
<1>12. t[l].do = "delete" => l = 1
    BY <1>8, <1>9
<1>13. t[l].on = {k} /\ t[l].do \in {"delete", "stamp", "save"}
    BY <1>6, <1>9
<1>14. Len(t) = l /\ DOMAIN t = 1..l
    BY <1>4
<1> QED
    BY <1>10, <1>11, <1>12, <1>13, <1>14 DEF Ordered

LEMMA OrderGoesOn ==
    ASSUME CascadeShape, NEW r \in Active, DeletionOrder(r), NEW next \in Seq(CallRecords),
           Then(r, next), r \in Active', Len(calls[r]) # 1, Replaces(next, calls[r], About(r))
    PROVE  DeletionOrder(r)'
<1>1. calls[r] \in Seq(CallRecords) /\ calls[r] # <<>> /\ Ordered(calls[r], About(r))
    BY RequestIs DEF DeletionOrder
<1>2. calls'[r] = GoesOn(calls[r], next) /\ root'[r] = root[r]
    BY ThenIs DEF GoesOn
<1>3. Ordered(calls'[r], About(r))
    BY <1>1, <1>2, OrderKeeps
<1>4. About(r)' = About(r)
    BY <1>2, SameRequest
<1> QED
    BY <1>3, <1>4, OrderLater

\* What is known of the first call and the last of a deletion.
LEMMA OrderedIs ==
    ASSUME CascadeShape, NEW r \in Active, DeletionOrder(r)
    PROVE  LET m == Len(calls[r])
               k == About(r)
           IN  /\ m \in Nat \ {0} /\ DOMAIN calls[r] = 1..m /\ Of(r) = calls[r][1]
               /\ calls[r][m].on = {k} /\ calls[r][m].do \in {"delete", "stamp", "save"}
               /\ m # 1 =>
                     /\ calls[r][m].do # "delete"
                     /\ Of(r).do \in {"stamp", "delete", "projects"}
                     /\ Of(r).do = "stamp" => k \notin Of(r).on /\ calls[r][m].at <= Of(r).at
                     /\ Of(r).do = "delete" =>
                           /\ \E p \in Projects : Of(r).on = {p} /\ Owner[p] = k
                           /\ \A j \in 2..(m - 1) : calls[r][j].do = "delete"
                                 /\ \E p \in Projects : calls[r][j].on = {p} /\ Owner[p] = k
                     /\ Of(r).do = "projects" => m = 2 /\ Of(r).on = {k}
<1> DEFINE s == calls[r]
           m == Len(s)
           k == About(r)
<1>1. m \in Nat \ {0} /\ DOMAIN s = 1..m /\ Of(r) = s[1]
    BY RequestIs, HeadIs, LenProperties, EmptySeq
<1>2. Ordered(s, k)
    BY DEF DeletionOrder
<1> HIDE DEF s, k
<1>3. /\ s[m].on = {k} /\ s[m].do \in {"delete", "stamp", "save"}
      /\ s[m].do = "delete" => m = 1
      /\ \A i \in 1..(m - 1) :
            /\ s[i].do \in {"stamp", "delete", "projects"}
            /\ s[i].do = "stamp" => k \notin s[i].on /\ s[m].at <= s[i].at
            /\ s[i].do = "delete" => \E p \in Projects : s[i].on = {p} /\ Owner[p] = k
            /\ s[i].do = "delete" => \A j \in i..(m - 1) : s[j].do = "delete"
            /\ s[i].do = "projects" => s[i].on = {k} /\ i = m - 1
    BY <1>2 DEF Ordered
<1> HIDE DEF m
<1>4. m # 1 => 1 \in 1..(m - 1)
    BY <1>1
<1>5. m # 1 =>
         /\ s[m].do # "delete" /\ s[1].do \in {"stamp", "delete", "projects"}
         /\ s[1].do = "stamp" => k \notin s[1].on /\ s[m].at <= s[1].at
         /\ s[1].do = "delete" => \E p \in Projects : s[1].on = {p} /\ Owner[p] = k
         /\ s[1].do = "projects" => s[1].on = {k} /\ m = 2
    BY <1>1, <1>3, <1>4
<1>6. ASSUME m # 1, s[1].do = "delete", NEW j \in 2..(m - 1)
      PROVE  s[j].do = "delete" /\ \E p \in Projects : s[j].on = {p} /\ Owner[p] = k
    <2>1. j \in 1..(m - 1)
        BY <1>1
    <2>2. s[j].do = "delete"
        BY <1>3, <1>4, <1>6, <2>1
    <2> QED
        BY <1>3, <2>1, <2>2
<1> QED
    BY <1>1, <1>3, <1>5, <1>6 DEF s, m, k

\* The last call ends the request.
LEMMA LastEnds ==
    ASSUME CascadeShape, NEW r \in Active, Then(r, <<>>), Len(calls[r]) = 1
    PROVE  r \notin Active'
<1>1. <<>> \in Seq(CallRecords) /\ Len(<<>>) = 0
    BY EmptyCalls
<1>2. Len(calls'[r]) = Len(<<>>) + Len(calls[r]) - 1
    BY <1>1, StackChanges
<1>3. calls'[r] \in Seq(CallRecords)
    BY <1>1, ThenIs
<1>4. calls'[r] = <<>>
    BY <1>1, <1>2, <1>3, EmptySeq
<1> QED
    BY <1>1, <1>4, ThenIs

LEMMA OrderMarks ==
    ASSUME CascadeShape, NEW r, DeletionOrder(r), NEW x, NEW next, Marks(r, x, next), r \in Active'
    PROVE  DeletionOrder(r)' /\ Len(calls[r]) # 1
<1> USE DEF Marks
<1> DEFINE s == calls[r]
           m == Len(s)
           k == About(r)
<1>1. m # 1
    <2> SUFFICES ASSUME m = 1
                 PROVE  FALSE
        OBVIOUS
    <2>1. Of(r).on = {k} /\ x = k
        BY OrderedEnds
    <2>2. next = <<>>
        BY <2>1
    <2> QED
        BY <2>2, LastEnds
<1>2. /\ m \in Nat \ {0} /\ Of(r).do = "stamp" /\ k \notin Of(r).on /\ s[m].at <= Of(r).at
    BY <1>1, OrderedIs, OrderedEnds
<1>3. \A j \in 2..m : s[j].do # "projects" => Of(r).on \intersect s[j].on = {}
    BY <1>2, OrderedEnds
<1>4. /\ next \in Seq(CallRecords) /\ Then(r, next) /\ r \in Active
      /\ \A i \in DOMAIN next : i = 1 /\ next[i].do = Of(r).do /\ next[i].at = Of(r).at
                                 /\ next[i].on \subseteq Of(r).on
    OBVIOUS
<1>5. Replaces(next, s, k)
    <2> HIDE DEF Marks, s, m, k
    <2> QED
        BY <1>2, <1>3, <1>4 DEF Replaces, ComesBefore, m
<1> QED
    BY <1>1, <1>4, <1>5, OrderGoesOn

LEMMA EmptyReplaces == \A s, k : Replaces(<<>>, s, k)
    BY EmptyCalls DEF Replaces

LEMMA OrderSkips ==
    ASSUME CascadeShape, NEW r \in Active, DeletionOrder(r), Then(r, <<>>), r \in Active'
    PROVE  DeletionOrder(r)' /\ Len(calls[r]) # 1
<1>1. Len(calls[r]) # 1
    BY LastEnds
<1> QED
    BY <1>1, EmptyCalls, EmptyReplaces, OrderGoesOn

LEMMA DeleteCallsOrdered ==
    ASSUME NEW x \in Records, NEW t \in Nat
    PROVE  Ordered(DeleteCalls(x, t), x)
<1>1. t <= t
    OBVIOUS
<1>2. CASE x \in Slides
    <2> DEFINE a == Call("save", {x}, t)
    <2>1. DeleteCalls(x, t) = <<a>>
        BY <1>2, DeleteCallsAre
    <2>2. a.do = "save" /\ a.on = {x}
        BY CallFields
    <2> HIDE DEF a
    <2> QED
        BY <2>1, <2>2 DEF Ordered
<1>3. CASE x \in Lectures
    <2> DEFINE a == Call("stamp", SlidesOf({x}), t)
               b == Call("save", {x}, t)
    <2>1. DeleteCalls(x, t) = <<a, b>>
        BY <1>3, DeleteCallsAre
    <2>2. a.do = "stamp" /\ a.at = t /\ b.do = "save" /\ b.on = {x} /\ b.at = t
        BY CallFields
    <2>3. x \notin a.on
        BY <1>3, KindsAreApart, CallFields DEF SlidesOf
    <2> HIDE DEF a, b
    <2> QED
        BY <1>1, <2>1, <2>2, <2>3 DEF Ordered
<1>4. CASE x \in Projects
    <2> DEFINE a == Call("stamp", SlidesOf(LecturesIn(x) \intersect Alive), t)
               b == Call("stamp", LecturesIn(x), t)
               c == Call("stamp", {x}, t)
    <2>1. DeleteCalls(x, t) = <<a, b, c>>
        BY <1>4, DeleteCallsAre
    <2>2. /\ a.do = "stamp" /\ a.at = t /\ b.do = "stamp" /\ b.at = t
          /\ c.do = "stamp" /\ c.on = {x} /\ c.at = t
        BY CallFields
    <2>3. a.on \subseteq Slides /\ b.on \subseteq Lectures
        BY CallFields DEF SlidesOf, LecturesIn
    <2>4. x \notin a.on /\ x \notin b.on /\ a.on \intersect b.on = {}
        BY <1>4, <2>3, KindsAreApart
    <2> HIDE DEF a, b, c
    <2> DEFINE s == <<a, b, c>>
    <2>5. Len(s) = 3 /\ DOMAIN s = 1..3 /\ s[1] = a /\ s[2] = b /\ s[3] = c
        OBVIOUS
    <2> HIDE DEF s
    <2>6. Ordered(s, x)
        BY <1>1, <2>2, <2>4, <2>5 DEF Ordered
    <2> QED
        BY <2>1, <2>6 DEF s
<1>5. CASE x \in Accounts
    <2> DEFINE a == Call("stamp", SlidesOf(OwnedBy(x, Lectures) \intersect Alive), t)
               b == Call("stamp", OwnedBy(x, Lectures), t)
               c == Call("projects", {x}, 0)
               d == Call("stamp", {x}, t)
    <2>1. DeleteCalls(x, t) = <<a, b, c, d>>
        BY <1>5, DeleteCallsAre
    <2>2. /\ a.do = "stamp" /\ a.at = t /\ b.do = "stamp" /\ b.at = t
          /\ c.do = "projects" /\ c.on = {x} /\ d.do = "stamp" /\ d.on = {x} /\ d.at = t
        BY CallFields
    <2>3. a.on \subseteq Slides /\ b.on \subseteq Lectures
        BY CallFields DEF SlidesOf, OwnedBy
    <2>4. x \notin a.on /\ x \notin b.on /\ a.on \intersect b.on = {}
        BY <1>5, <2>3, KindsAreApart
    <2> HIDE DEF a, b, c, d
    <2> DEFINE s == <<a, b, c, d>>
    <2>5. Len(s) = 4 /\ DOMAIN s = 1..4 /\ s[1] = a /\ s[2] = b /\ s[3] = c /\ s[4] = d
        OBVIOUS
    <2> HIDE DEF s
    <2>6. Ordered(s, x)
        BY <1>1, <2>2, <2>4, <2>5 DEF Ordered
    <2> QED
        BY <2>1, <2>6 DEF s
<1> QED
    BY <1>2, <1>3, <1>4, <1>5, KindsAreApart

\* A deletion that starts within the deletion of an account is of one of its projects.
LEMMA StartsIs ==
    ASSUME CascadeShape, NEW r \in Active, DeletionOrder(r), NEW x, Of(r).on = {x}, Of(r).do = "delete"
    PROVE  /\ Len(calls[r]) = 1 => x = About(r)
           /\ Len(calls[r]) # 1 => x \in Projects /\ Owner[x] = About(r) /\ About(r) \in Accounts
<1>1. Len(calls[r]) = 1 => Of(r).on = {About(r)}
    BY OrderedEnds
<1>2. Len(calls[r]) # 1 => \E p \in Projects : Of(r).on = {p} /\ Owner[p] = About(r)
    BY OrderedIs
<1> QED
    BY <1>1, <1>2, KindsAreApart

LEMMA OrderStarts ==
    ASSUME CascadeShape, NEW r \in Requests, DeletionOrder(r), DeleteStarts(r), r \in Active'
    PROVE  DeletionOrder(r)'
<1> DEFINE x == Target(r)
           t == now'
           s == calls[r]
           k == About(r)
           m == Len(s)
           next == DeleteCalls(x, t)
<1>1. /\ r \in Active /\ t = now + 1 /\ t \in Nat /\ now \in Nat /\ x \in Records
      /\ Of(r).on = {x} /\ Of(r).do = "delete"
      /\ next \in Seq(CallRecords) /\ Then(r, next)
    BY SMTT(20), DeleteStartsWith, CascadeAssumption DEF CascadeShape
<1>2. CASE m = 1
    <2>1. Ordered(next, x)
        BY <1>1, DeleteCallsOrdered
    <2>2. x = k
        BY <1>1, <1>2, StartsIs
    <2>3. calls'[r] = next
        <3> HIDE DEF next
        <3>1. s \in Seq(CallRecords) /\ s # <<>>
            BY <1>1, RequestIs
        <3>2. Tail(s) \in Seq(CallRecords) /\ Len(Tail(s)) = 0
            BY <1>2, <3>1, HeadTailProperties
        <3>3. Tail(s) = <<>>
            BY <3>2, EmptySeq
        <3>4. next \o <<>> = next
            BY <1>1, ConcatEmptySeq
        <3> QED
            BY <1>1, <3>3, <3>4, ThenIs
    <2>4. About(r)' = k
        BY <1>1, ThenIs, SameRequest
    <2> QED
        BY <2>1, <2>2, <2>3, <2>4, OrderLater
<1>3. CASE m # 1
    <2>1. x \in Projects /\ Owner[x] = k /\ k \in Accounts
        BY <1>1, <1>3, StartsIs
    <2> DEFINE a == Call("stamp", SlidesOf(LecturesIn(x) \intersect Alive), t)
               b == Call("stamp", LecturesIn(x), t)
               c == Call("stamp", {x}, t)
    <2>2. next = <<a, b, c>>
        BY <1>1, <2>1, DeleteCallsAre
    <2>3. /\ a.do = "stamp" /\ a.at = t /\ b.do = "stamp" /\ b.at = t
          /\ c.do = "stamp" /\ c.on = {x} /\ c.at = t
          /\ a.on \subseteq Slides /\ b.on \subseteq Lectures
        BY CallFields DEF SlidesOf, LecturesIn
    <2>4. a.on \intersect b.on = {} /\ a.on \intersect c.on = {} /\ b.on \intersect c.on = {}
        BY <2>1, <2>3, KindsAreApart
    <2>5. k \notin a.on /\ k \notin b.on /\ k \notin c.on
        BY ZenonT(40), <2>1, <2>3, KindsAreApart
    <2>6. s[m].at <= t
        <3>1. m \in DOMAIN s
            BY <1>1, OrderedIs
        <3>2. CallFits(r, s[m], now) /\ s[m].at \in Nat /\ Does(r, "delete")
            BY <1>1, <3>1, CallIs, DeleteStartsWith
        <3>3. s[m].at <= now
            BY <1>1, <3>2, RequestIs DEF CallFits, DeleteCall
        <3> QED
            BY <1>1, <3>2, <3>3
    <2>7. ASSUME NEW j \in 2..m, s[j].do # "projects"
          PROVE  a.on \intersect s[j].on = {} /\ b.on \intersect s[j].on = {} /\ c.on \intersect s[j].on = {}
        <3>1. Of(r).on \intersect s[j].on = {}
            BY <1>1, <2>7, OrderedEnds
        <3>2. s[j].on = {k} \/ \E p \in Projects : s[j].on = {p}
            <4>1. m \in Nat \ {0} /\ s[m].on = {k}
                BY <1>1, OrderedIs
            <4>2. j # m => j \in 2..(m - 1)
                BY <4>1
            <4>3. \A i \in 2..(m - 1) : \E p \in Projects : s[i].on = {p}
                BY SMTT(20), <1>1, <1>3, OrderedIs
            <4> QED
                BY <4>1, <4>2, <4>3
        <3> HIDE DEF a, b, c, s, k, m
        <3> QED
            BY <1>1, <2>1, <2>3, <2>5, <3>1, <3>2, KindsAreApart
    <2>8. Replaces(next, s, k)
        <3> HIDE DEF a, b, c, next, s, k, m, t
        <3>1. DOMAIN next = 1..3 /\ next[1] = a /\ next[2] = b /\ next[3] = c
            BY <2>2
        <3>2. \A i \in DOMAIN next : next[i].do = "stamp" /\ next[i].at = t /\ k \notin next[i].on
            BY <2>3, <2>5, <3>1
        <3>3. \A i \in DOMAIN next : \A j \in 2..m : s[j].do # "projects" => next[i].on \intersect s[j].on = {}
            BY <2>7, <3>1
        <3>4. \A i, j \in DOMAIN next : i # j => next[i].on \intersect next[j].on = {}
            BY <2>4, <3>1
        <3> QED
            BY <2>6, <3>2, <3>3, <3>4 DEF Replaces, ComesBefore, m
    <2> HIDE DEF next, m
    <2> QED
        BY <1>1, <1>3, <2>8, OrderGoesOn DEF m
<1> QED
    BY <1>2, <1>3

LEMMA OrderProjects ==
    ASSUME CascadeShape, NEW r \in Requests, DeletionOrder(r), DeleteProjects(r)
    PROVE  r \in Active' /\ DeletionOrder(r)'
<1> DEFINE x == Target(r)
           s == calls[r]
           k == About(r)
           m == Len(s)
           ps == OwnedBy(x, Projects) \intersect Alive
           next == Each("delete", ps, 0)
<1>1. /\ r \in Active /\ x \in Accounts
      /\ Of(r).on = {x} /\ Of(r).do = "projects" /\ ps \subseteq Records
      /\ next \in Seq(CallRecords) /\ Then(r, next)
    BY DeleteProjectsWith
<1>2. m = 2 /\ x = k /\ s[2].on = {k} /\ DOMAIN s = 1..m
    <2>1. m # 1
        BY <1>1, OrderedIs
    <2> QED
        BY <1>1, <2>1, OrderedIs
<1>3. \A i \in DOMAIN next : next[i].do = "delete" /\ \E p \in ps : next[i].on = {p}
    <2> HIDE DEF ps, next
    <2> SUFFICES ASSUME NEW i \in DOMAIN next
                 PROVE  next[i].do = "delete" /\ \E p \in ps : next[i].on = {p}
        OBVIOUS
    <2>0. ps \in SUBSET Records
        BY <1>1
    <2>1. \A j \in DOMAIN next : \E p \in ps : next[j] = Call("delete", {p}, 0)
        BY <2>0, EachIs DEF next
    <2> QED
        BY <2>1, CallFields
<1>4. \A i, j \in DOMAIN next : i # j => next[i].on \intersect next[j].on = {}
    <2> HIDE DEF ps
    <2> QED
        BY <1>1, EachApart
<1>5. \A p \in ps : p \in Projects /\ Owner[p] = k /\ p # k
    BY <1>1, <1>2, KindsAreApart DEF OwnedBy
<1> HIDE DEF next, ps
<1>6. Replaces(next, s, k)
    <2>1. \A i \in DOMAIN next : ComesBefore(next[i], k, s[Len(s)].at)
        BY <1>3, <1>5 DEF ComesBefore
    <2>2. \A j \in 2..m : j = 2
        BY <1>2
    <2>3. 2..(m - 1) = {}
        BY <1>2
    <2>4. \A i \in DOMAIN next : \A j \in 2..m : next[i].on \intersect s[j].on = {}
        BY <1>2, <1>3, <1>5, <2>2
    <2> QED
        BY <1>3, <1>4, <2>1, <2>3, <2>4 DEF Replaces
<1>7. r \in Active'
    <2>1. calls'[r] # <<>>
        <3>1. Len(next) + 2 - 1 \in DOMAIN calls'[r]
            BY <1>1, <1>2, StackChanges
        <3> QED
            BY <3>1, EmptyCalls
    <2> QED
        BY <1>1, <2>1, ThenIs
<1> QED
    BY <1>1, <1>2, <1>6, <1>7, OrderGoesOn

-----------------------------------------------------------------------------
(* What lies on the way to what a deletion stamps.                         *)

LEMMA LeadsLater ==
    ASSUME NEW q, NEW k, About(q)' = k, k \in Settled' => k \in Alive',
           \A i \in DOMAIN calls'[q] : \A x \in Settled' \intersect Alive' :
               Stamps(calls'[q][i], x) /\ x # k =>
                   Via(x, k) \in Alive' /\ WillStamp(calls'[q], Via(x, k), i + 1, calls'[q][i].at),
           \A i \in DOMAIN calls'[q] : calls'[q][i].do = "delete" =>
               calls'[q][i].on \intersect Settled' \subseteq Alive'
    PROVE  DeletionLeads(q)'
    BY DEF DeletionLeads, Via, WillStamp, Stamps

\* The calls of a deletion are on what lies below the record it is about.
LEMMA DeletesIs ==
    ASSUME CascadeShape, NEW r \in Active, Does(r, "delete")
    PROVE  /\ About(r) \in Records /\ ~Does(r, "purge") /\ ~Does(r, "restore")
           /\ \A i \in DOMAIN calls[r] : calls[r][i].on \subseteq Below(About(r))
           /\ \A i \in DOMAIN calls[r] : DeleteCall(calls[r][i], now)
<1>1. About(r) \in Records /\ ~Does(r, "restore") /\ ~Does(r, "purge")
    BY RequestIs
<1>2. \A i \in DOMAIN calls[r] : CallFits(r, calls[r][i], now)
    BY CallIs
<1> QED
    BY <1>1, <1>2 DEF CallFits

LEMMA LeadsOthers ==
    ASSUME CascadeShape, MixedInv, MixedInv', DeadInv', NEW r \in Requests, Passes(r),
           NEW q \in Active, q # r, Does(q, "delete"), DeletionLeads(q)
    PROVE  DeletionLeads(q)'
<1> DEFINE k == About(q)
           s == calls[q]
<1>1. k \in Records /\ ~Does(q, "purge") /\ \A i \in DOMAIN s : s[i].on \subseteq Below(k)
    BY DeletesIs
<1>2. q \in Requests /\ calls'[q] = s /\ root'[q] = root[q]
    BY DEF Passes, Active
<1>3. About(q)' = k
    BY <1>2, SameRequest
<1>4. \A x \in Below(k) : x \in Settled' =>
         x \in Settled /\ (x \in Alive' <=> x \in Alive)
    BY <1>1, Untouched
<1>5. k \in Below(k)
    BY <1>1, BelowItself
<1>6. /\ k \in Settled => k \in Alive
      /\ \A i \in DOMAIN s : \A x \in Settled \intersect Alive : Stamps(s[i], x) /\ x # k =>
            Via(x, k) \in Alive /\ WillStamp(s, Via(x, k), i + 1, s[i].at)
      /\ \A i \in DOMAIN s : s[i].do = "delete" => s[i].on \intersect Settled \subseteq Alive
    BY DEF DeletionLeads
<1> HIDE DEF k, s
<1>7. ASSUME NEW i \in DOMAIN s, NEW x \in Settled' \intersect Alive', Stamps(s[i], x), x # k
      PROVE  Via(x, k) \in Alive' /\ WillStamp(s, Via(x, k), i + 1, s[i].at)
    <2>1. x \in Below(k)
        BY <1>1, <1>7 DEF Stamps
    <2>2. x \in Settled /\ x \in Alive
        BY <1>4, <1>7, <2>1
    <2>3. Via(x, k) \in Records /\ x \in Below(Via(x, k)) /\ Via(x, k) \in Below(k)
        BY <1>1, <1>7, <2>1, ViaIs
    <2>4. Via(x, k) \in Settled'
        BY <1>7, <2>3, AboveSettledNext
    <2> QED
        BY <1>4, <1>6, <1>7, <2>2, <2>3, <2>4
<1>8. k \in Settled' => k \in Alive'
    BY <1>4, <1>5, <1>6
<1>9. \A i \in DOMAIN s : s[i].do = "delete" => s[i].on \intersect Settled' \subseteq Alive'
    BY <1>1, <1>4, <1>6
<1> QED
    BY <1>2, <1>3, <1>7, <1>8, <1>9, LeadsLater

LEMMA LeadsGoesOn ==
    ASSUME CascadeShape, MixedInv', DeadInv', NEW r \in Active, Does(r, "delete"), DeletionLeads(r),
           NEW next \in Seq(CallRecords), Then(r, next), r \in Active', Settled' \subseteq Settled,
           About(r) \in Settled' => (About(r) \in Alive' <=> About(r) \in Alive),
           \A j \in 2..Len(calls[r]) : calls[r][j].do # "projects" =>
               \A x \in calls[r][j].on \intersect Settled' : x \in Alive' <=> x \in Alive,
           \A i \in DOMAIN next : \A x \in Settled' \intersect Alive' :
               Stamps(next[i], x) /\ x # About(r) =>
                   /\ Via(x, About(r)) \in Alive'
                   /\ WillStamp(calls'[r], Via(x, About(r)), i + 1, next[i].at),
           \A i \in DOMAIN next : next[i].do = "delete" => next[i].on \intersect Settled' \subseteq Alive'
    PROVE  DeletionLeads(r)'
<1> DEFINE k == About(r)
           s == calls[r]
           t == calls'[r]
           m == Len(s)
           n == Len(next)
<1>1. /\ k \in Records /\ ~Does(r, "purge") /\ \A i \in DOMAIN s : s[i].on \subseteq Below(k)
      /\ About(r)' = k
    BY DeletesIs, ThenIs, SameRequest
<1>2. /\ Len(t) = n + m - 1 /\ m \in Nat \ {0} /\ n \in Nat /\ DOMAIN s = 1..m /\ DOMAIN t = 1..Len(t)
      /\ \A j \in 2..m : n + j - 1 \in DOMAIN t /\ t[n + j - 1] = s[j]
      /\ \A i \in DOMAIN t :
            \/ i \in DOMAIN next /\ t[i] = next[i]
            \/ \E j \in 2..m : i = n + j - 1 /\ t[i] = s[j]
    BY StackChanges
<1>3. /\ k \in Settled => k \in Alive
      /\ \A i \in DOMAIN s : \A x \in Settled \intersect Alive : Stamps(s[i], x) /\ x # k =>
            Via(x, k) \in Alive /\ WillStamp(s, Via(x, k), i + 1, s[i].at)
      /\ \A i \in DOMAIN s : s[i].do = "delete" => s[i].on \intersect Settled \subseteq Alive
    BY DEF DeletionLeads
<1>4. \A j \in 2..m : s[j].do # "projects" =>
          \A x \in s[j].on \intersect Settled' : x \in Alive' <=> x \in Alive
    OBVIOUS
<1>5. /\ \A i \in DOMAIN next : \A x \in Settled' \intersect Alive' : Stamps(next[i], x) /\ x # k =>
            Via(x, k) \in Alive' /\ WillStamp(t, Via(x, k), i + 1, next[i].at)
      /\ \A i \in DOMAIN next : next[i].do = "delete" => next[i].on \intersect Settled' \subseteq Alive'
      /\ k \in Settled' => k \in Alive'
    BY <1>3
<1> HIDE DEF k, s, t, m, n
<1>6. ASSUME NEW j \in 2..m, NEW x \in Settled' \intersect Alive', Stamps(s[j], x), x # k
      PROVE  Via(x, k) \in Alive' /\ WillStamp(t, Via(x, k), n + j, s[j].at)
    <2>1. x \in Settled /\ x \in Alive /\ x \in Below(k) /\ j \in DOMAIN s
        BY <1>1, <1>2, <1>4, <1>6 DEF Stamps
    <2> DEFINE y == Via(x, k)
    <2>2. y \in Records /\ x \in Below(y) /\ y \in Below(k)
        BY <1>1, <1>6, <2>1, ViaIs
    <2>3. y \in Settled'
        BY <1>6, <2>2, AboveSettledNext
    <2>4. y \in Alive /\ WillStamp(s, y, j + 1, s[j].at)
        BY <1>3, <1>6, <2>1
    <2> HIDE DEF y
    <2>5. PICK h \in (j + 1)..m : Stamps(s[h], y) /\ s[h].at <= s[j].at
        BY <2>4 DEF WillStamp, m
    <2>6. h \in 2..m
        BY <1>2
    <2>7. y \in Alive'
        BY <1>4, <2>3, <2>4, <2>5, <2>6 DEF Stamps
    <2>8. n + h - 1 \in (n + j)..Len(t) /\ t[n + h - 1] = s[h]
        BY <1>2, <2>6
    <2>9. WillStamp(t, y, n + j, s[j].at)
        BY <2>5, <2>8 DEF WillStamp
    <2> QED
        BY <2>7, <2>9 DEF y
<1>7. ASSUME NEW i \in DOMAIN t, NEW x \in Settled' \intersect Alive', Stamps(t[i], x), x # k
      PROVE  Via(x, k) \in Alive' /\ WillStamp(t, Via(x, k), i + 1, t[i].at)
    <2>1. CASE i \in DOMAIN next /\ t[i] = next[i]
        BY <1>5, <1>7, <2>1
    <2>2. ASSUME NEW j \in 2..m, i = n + j - 1, t[i] = s[j]
          PROVE  Via(x, k) \in Alive' /\ WillStamp(t, Via(x, k), i + 1, t[i].at)
        <3>1. i + 1 = n + j
            BY <1>2, <2>2
        <3> QED
            BY <1>6, <1>7, <2>2, <3>1
    <2> QED
        BY <1>2, <2>1, <2>2
<1>8. ASSUME NEW i \in DOMAIN t, t[i].do = "delete"
      PROVE  t[i].on \intersect Settled' \subseteq Alive'
    <2>1. CASE i \in DOMAIN next /\ t[i] = next[i]
        BY <1>5, <1>8, <2>1
    <2>2. ASSUME NEW j \in 2..m, i = n + j - 1, t[i] = s[j]
          PROVE  t[i].on \intersect Settled' \subseteq Alive'
        <3>1. j \in DOMAIN s
            BY <1>2
        <3> QED
            BY <1>3, <1>4, <1>8, <2>2, <3>1
    <2> QED
        BY <1>2, <2>1, <2>2
<1> QED
    BY <1>1, <1>5, <1>7, <1>8, LeadsLater DEF t

LEMMA LeadsMarks ==
    ASSUME CascadeShape, MixedInv', DeadInv', NEW r \in Requests, Passes(r), DeletionOrder(r),
           DeletionLeads(r), NEW x0, NEW next, Marks(r, x0, next), r \in Active'
    PROVE  DeletionLeads(r)'
<1> DEFINE k == About(r)
           s == calls[r]
           m == Len(s)
<1>1. /\ r \in Active /\ Does(r, "delete") /\ next \in Seq(CallRecords) /\ Then(r, next)
      /\ x0 \in Of(r).on /\ Of(r).do \in {"stamp", "save"} /\ gone' = gone /\ mixed' = mixed
      /\ Settled' \subseteq Settled /\ 1 \in DOMAIN s /\ Of(r) = s[1]
    BY HeadIs, SettledBefore DEF Marks
<1>2. \A x : x # x0 => (x \in Alive' <=> x \in Alive)
    BY AliveIs DEF Marks, Alive, Stored
<1>3. m # 1 /\ k # x0 /\ m \in Nat \ {0}
    BY <1>1, OrderMarks, OrderedEnds, OrderedIs
<1>4. \A j \in 2..m : s[j].do # "projects" => x0 \notin s[j].on
    BY <1>1, OrderedEnds
<1>5. /\ \A i \in DOMAIN s : \A x \in Settled \intersect Alive : Stamps(s[i], x) /\ x # k =>
            Via(x, k) \in Alive /\ WillStamp(s, Via(x, k), i + 1, s[i].at)
    BY DEF DeletionLeads
<1>6. \A i \in DOMAIN next : i = 1 /\ next[i].do = Of(r).do /\ next[i].at = Of(r).at
                              /\ next[i].on \subseteq Of(r).on \ {x0}
    BY DEF Marks
<1>7. /\ Len(next) \in Nat /\ DOMAIN next = 1..Len(next) /\ Len(calls'[r]) = Len(next) + m - 1
      /\ DOMAIN calls'[r] = 1..Len(calls'[r])
      /\ \A j \in 2..m : Len(next) + j - 1 \in DOMAIN calls'[r] /\ calls'[r][Len(next) + j - 1] = s[j]
    BY <1>1, StackChanges
<1>8. ASSUME NEW i \in DOMAIN next, NEW x \in Settled' \intersect Alive', Stamps(next[i], x), x # k
      PROVE  Via(x, k) \in Alive' /\ WillStamp(calls'[r], Via(x, k), i + 1, next[i].at)
    <2> DEFINE y == Via(x, k)
    <2>1. x # x0 /\ Stamps(s[1], x) /\ i = 1 /\ next[i].at = s[1].at
        BY <1>1, <1>6, <1>8 DEF Stamps
    <2>2. x \in Settled /\ x \in Alive
        BY <1>1, <1>2, <1>8, <2>1
    <2>3. y \in Alive /\ WillStamp(s, y, 1 + 1, s[1].at)
        BY <1>1, <1>5, <1>8, <2>1, <2>2
    <2> HIDE DEF y, m
    <2>4. PICK h \in 2..m : Stamps(s[h], y) /\ s[h].at <= s[1].at
        BY <2>3 DEF WillStamp, m
    <2>5. y # x0
        BY <1>4, <2>4 DEF Stamps
    <2>6. Len(next) = 1
        <3>1. \A a \in 1..Len(next) : a = 1
            BY <1>6, <1>7
        <3>2. Len(next) \in 1..Len(next) \/ Len(next) = 0
            BY <1>7
        <3> QED
            BY <1>7, <1>8, <3>1, <3>2
    <2>7. h \in 2..Len(calls'[r]) /\ calls'[r][h] = s[h]
        <3>1. Len(next) + h - 1 = h
            BY <1>3, <2>6
        <3> QED
            BY <1>3, <1>7, <2>4, <2>6, <3>1
    <2>8. WillStamp(calls'[r], y, 2, s[1].at)
        BY <2>4, <2>7 DEF WillStamp
    <2> QED
        BY <1>2, <2>1, <2>3, <2>5, <2>8 DEF y
<1>9. \A i \in DOMAIN next : next[i].do # "delete"
    BY <1>1, <1>6
<1>10. \A j \in 2..m : s[j].do # "projects" =>
           \A x \in s[j].on \intersect Settled' : x \in Alive' <=> x \in Alive
    BY <1>2, <1>4
<1>11. k \in Alive' <=> k \in Alive
    BY <1>2, <1>3
<1> HIDE DEF m, s, k
<1> QED
    BY <1>1, <1>8, <1>9, <1>10, <1>11, LeadsGoesOn DEF m, s, k

\* A call that goes on with other calls, and changes no record.
LEMMA LeadsQuiet ==
    ASSUME CascadeShape, MixedInv', DeadInv', NEW r \in Active, Does(r, "delete"), DeletionLeads(r),
           NEW next \in Seq(CallRecords), Then(r, next), r \in Active',
           UNCHANGED <<stamp, gone, mixed>>,
           \A i \in DOMAIN next : \A x \in Settled \intersect Alive :
               Stamps(next[i], x) /\ x # About(r) =>
                   /\ Via(x, About(r)) \in Alive
                   /\ WillStamp(calls'[r], Via(x, About(r)), i + 1, next[i].at),
           \A i \in DOMAIN next : next[i].do = "delete" => next[i].on \intersect Settled \subseteq Alive
    PROVE  DeletionLeads(r)'
<1>1. Settled' = Settled /\ Alive' = Alive
    BY DEF Settled, Alive, Stored
<1> QED
    BY <1>1, LeadsGoesOn

LEMMA LeadsSkips ==
    ASSUME CascadeShape, MixedInv', DeadInv', NEW r \in Active, DeletionLeads(r), Skips(r), r \in Active'
    PROVE  DeletionLeads(r)'
<1>1. /\ Does(r, "delete") /\ Then(r, <<>>) /\ UNCHANGED <<stamp, gone, mixed>>
      /\ <<>> \in Seq(CallRecords) /\ DOMAIN <<>> = {}
    BY EmptyCalls DEF Skips
<1> QED
    BY <1>1, LeadsQuiet

LEMMA LeadsProjects ==
    ASSUME CascadeShape, MixedInv', DeadInv', NEW r \in Requests, DeletionLeads(r), DeleteProjects(r),
           r \in Active'
    PROVE  DeletionLeads(r)'
<1> DEFINE ps == OwnedBy(Target(r), Projects) \intersect Alive
           next == Each("delete", ps, 0)
<1>1. /\ r \in Active /\ Does(r, "delete") /\ ps \in SUBSET Records
      /\ next \in Seq(CallRecords) /\ Then(r, next) /\ UNCHANGED <<stamp, gone, mixed>>
    BY DeleteProjectsWith DEF DeleteProjects, RecordsUnchanged, CountsUnchanged
<1>2. ps \subseteq Alive
    OBVIOUS
<1> HIDE DEF ps
<1>3. \A i \in DOMAIN next : \E p \in ps : next[i] = Call("delete", {p}, 0)
    BY <1>1, EachIs
<1> HIDE DEF next
<1>4. \A i \in DOMAIN next : next[i].do = "delete" /\ next[i].on \subseteq Alive
    <2> SUFFICES ASSUME NEW i \in DOMAIN next
                 PROVE  next[i].do = "delete" /\ next[i].on \subseteq Alive
        OBVIOUS
    <2>1. PICK p \in ps : next[i] = Call("delete", {p}, 0)
        BY <1>3
    <2> QED
        BY <1>2, <2>1, CallFields
<1>5. \A i \in DOMAIN next : \A x : ~Stamps(next[i], x)
    BY <1>4 DEF Stamps
<1> QED
    BY <1>1, <1>4, <1>5, LeadsQuiet

LEMMA LeadsStarts ==
    ASSUME CascadeShape, MixedInv, DeadInv, MixedInv', DeadInv', NEW r \in Requests, DeletionOrder(r),
           DeletionLeads(r), DeleteStarts(r), r \in Active'
    PROVE  DeletionLeads(r)'
<1> DEFINE z == Target(r)
           t == now'
           s == calls[r]
           c == calls'[r]
           k == About(r)
           m == Len(s)
           next == DeleteCalls(z, t)
           n == Len(next)
           Leads(i) == \A x \in next[i].on \intersect Settled \intersect Alive :
                          x # k => Via(x, k) \in Alive /\ WillStamp(c, Via(x, k), i + 1, t)
<1>1. UNCHANGED <<stamp, gone, mixed>>
    BY DEF DeleteStarts, CountsUnchanged
<1>2. /\ r \in Active /\ Does(r, "delete") /\ t = now + 1 /\ t \in Nat /\ now \in Nat /\ z \in Records
      /\ k \in Records /\ z \in Below(k)
      /\ Of(r).on = {z} /\ Of(r).do = "delete"
      /\ next \in Seq(CallRecords) /\ Then(r, next)
    <2>1. /\ r \in Active /\ Does(r, "delete") /\ t = now + 1 /\ t \in 1..MaxTime /\ z \in Records
          /\ k \in Records /\ z \in Below(k)
          /\ Of(r).on = {z} /\ Of(r).do = "delete"
          /\ next \in Seq(CallRecords) /\ Then(r, next)
        BY DeleteStartsWith
    <2>2. t \in Nat /\ now \in Nat
        BY <2>1, CascadeAssumption DEF CascadeShape
    <2> QED
        BY <2>1, <2>2
<1>3. 1 \in DOMAIN s /\ Of(r) = s[1]
    BY <1>2, HeadIs
<1>4. /\ m = 1 => z = k
      /\ m # 1 => z \in Projects /\ Owner[z] = k /\ k \in Accounts
    BY <1>2, StartsIs
<1>5. /\ k \in Settled => k \in Alive
      /\ z \in Settled => z \in Alive
    BY <1>2, <1>3 DEF DeletionLeads
<1>6. /\ n \in Nat /\ m \in Nat \ {0} /\ DOMAIN next = 1..n /\ Len(c) = n + m - 1
      /\ \A i \in DOMAIN next : i \in DOMAIN c /\ c[i] = next[i]
      /\ \A j \in 2..m : n + j - 1 \in DOMAIN c /\ c[n + j - 1] = s[j]
    BY <1>2, StackChanges
\* The last call stamps k, no later than t.
<1>7. m # 1 => Stamps(c[n + m - 1], k) /\ c[n + m - 1].at <= t
    <2> SUFFICES ASSUME m # 1
                 PROVE  Stamps(c[n + m - 1], k) /\ c[n + m - 1].at <= t
        OBVIOUS
    <2>1. m \in DOMAIN s /\ s[m].on = {k} /\ s[m].do \in {"stamp", "save"}
        BY <1>2, OrderedIs
    <2>2. s[m].at <= now /\ s[m].at \in Nat
        BY <1>2, <2>1, DeletesIs, CallIs DEF DeleteCall
    <2>3. m \in 2..m
        <3>1. m \in Nat \ {0} /\ m # 1
            BY <1>6
        <3> HIDE DEF m
        <3> QED
            BY <3>1
    <2>4. c[n + m - 1] = s[m]
        BY <1>6, <2>3
    <2> QED
        BY <1>2, <2>1, <2>2, <2>4 DEF Stamps
<1>8. \A x \in Settled : \A y \in Records : x \in Below(y) => y \in Settled
    BY AboveSettled
<1>9. \A i \in DOMAIN next : \A j \in (i + 1)..n : \A y \in Records :
         Stamps(next[j], y) /\ next[j].at = t => WillStamp(c, y, i + 1, t)
    <2> HIDE DEF next, n, c, m, t
    <2> SUFFICES ASSUME NEW i \in DOMAIN next, NEW j \in (i + 1)..n, NEW y \in Records,
                        Stamps(next[j], y), next[j].at = t
                 PROVE  WillStamp(c, y, i + 1, t)
        OBVIOUS
    <2>1. j \in DOMAIN next /\ j \in (i + 1)..Len(c)
        BY <1>6
    <2>2. Stamps(c[j], y) /\ c[j].at <= t
        BY <1>2, <1>6, <2>1
    <2> QED
        BY <2>1, <2>2 DEF WillStamp
<1>10. m # 1 => \A i \in DOMAIN next : WillStamp(c, k, i + 1, t)
    <2> SUFFICES ASSUME m # 1, NEW i \in DOMAIN next
                 PROVE  WillStamp(c, k, i + 1, t)
        OBVIOUS
    <2> HIDE DEF next, n, c, m, t, k
    <2>1. n + m - 1 \in (i + 1)..Len(c)
        BY <1>6
    <2> QED
        BY <1>7, <2>1 DEF WillStamp
\* A record that k is directly above of.
<1>11. \A x \in Settled : x \in Below(k) /\ Via(x, k) = k => Via(x, k) \in Alive
    BY <1>2, <1>5, <1>8
<1>12. ASSUME z \in Slides
       PROVE  \A i \in DOMAIN next :
          next[i].do # "delete" /\ (next[i].do = "projects" \/ (next[i].at = t /\ Leads(i)))
    <2>1. z = k
        BY <1>4, <1>12, KindsAreApart
    <2> DEFINE a == Call("save", {z}, t)
    <2>2. next = <<a>>
        BY <1>2, <1>12, DeleteCallsAre
    <2>3. a.do = "save" /\ a.at = t /\ a.on = {k}
        BY <2>1, CallFields
    <2> HIDE DEF a, k, c
    <2>4. n = 1 /\ next[1] = a
        BY <2>2
    <2> HIDE DEF next, n
    <2>5. \A i \in DOMAIN next : next[i].do # "delete" /\ (next[i].do = "projects" \/ (next[i].at = t /\ Leads(i)))
        BY <1>6, <2>3, <2>4
    <2> QED
        BY <2>5
<1>13. ASSUME z \in Lectures
       PROVE  \A i \in DOMAIN next :
          next[i].do # "delete" /\ (next[i].do = "projects" \/ (next[i].at = t /\ Leads(i)))
    <2>1. z = k
        BY <1>4, <1>13, KindsAreApart
    <2> DEFINE a == Call("stamp", SlidesOf({z}), t)
               b == Call("save", {z}, t)
    <2>2. next = <<a, b>>
        BY <1>2, <1>13, DeleteCallsAre
    <2>3. a.do = "stamp" /\ a.at = t /\ b.do = "save" /\ b.on = {k} /\ b.at = t
        BY <2>1, CallFields
    <2>4. \A x \in a.on : x \in Slides /\ Lecture[x] = k
        BY <2>1, CallFields DEF SlidesOf
    <2> HIDE DEF a, b
    <2>5. n = 2 /\ next[1] = a /\ next[2] = b
        BY <2>2
    <2> HIDE DEF next, n, k, c, t
    <2>6. ASSUME NEW x \in a.on, x \in Settled
          PROVE  Via(x, k) \in Alive /\ WillStamp(c, Via(x, k), 2, t)
        <3>1. Via(x, k) = k /\ x \in Below(k)
            BY <1>13, <2>1, <2>4, BelowLecture DEF Via
        <3>2. 1 \in DOMAIN next /\ 2 \in (1 + 1)..n /\ Stamps(next[2], k) /\ next[2].at = t
            BY <1>6, <2>3, <2>5 DEF Stamps
        <3>3. WillStamp(c, k, 1 + 1, t)
            BY <1>2, <1>9, <3>2
        <3> QED
            BY <1>11, <2>6, <3>1, <3>3
    <2>7. \A i \in DOMAIN next : i = 1 \/ i = 2
        BY <1>6, <2>5
    <2>8. Leads(1) /\ Leads(2)
        BY <2>3, <2>5, <2>6
    <2> QED
        BY <2>3, <2>5, <2>7, <2>8
<1>14. ASSUME z \in Projects
       PROVE  \A i \in DOMAIN next :
          next[i].do # "delete" /\ (next[i].do = "projects" \/ (next[i].at = t /\ Leads(i)))
    <2> DEFINE a == Call("stamp", SlidesOf(LecturesIn(z) \intersect Alive), t)
               b == Call("stamp", LecturesIn(z), t)
               d == Call("stamp", {z}, t)
    <2>2. next = <<a, b, d>>
        BY <1>2, <1>14, DeleteCallsAre
    <2>3. /\ a.do = "stamp" /\ a.at = t /\ b.do = "stamp" /\ b.at = t
          /\ d.do = "stamp" /\ d.on = {z} /\ d.at = t
        BY CallFields
    <2>4. /\ \A x \in a.on : x \in Slides /\ Lecture[x] \in b.on /\ Lecture[x] \in Alive
          /\ \A x \in b.on : x \in Lectures /\ Project[x] = z
        BY CallFields DEF SlidesOf, LecturesIn
    <2> HIDE DEF a, b, d
    <2>5. n = 3 /\ next[1] = a /\ next[2] = b /\ next[3] = d
        BY <2>2
    <2> HIDE DEF next, n, k, c, t, z, m
    <2>6. 1 \in DOMAIN next /\ 2 \in DOMAIN next /\ 3 \in DOMAIN next
          /\ 2 \in (1 + 1)..n /\ 3 \in (2 + 1)..n
        BY <1>6, <2>5
    <2>7. ASSUME NEW x \in a.on, x \in Settled
          PROVE  Via(x, k) \in Alive /\ WillStamp(c, Via(x, k), 1 + 1, t)
        <3>1. Via(x, k) = Lecture[x] /\ Lecture[x] \in Records
            BY <2>4, KindsAreApart DEF Via
        <3>2. Stamps(next[2], Lecture[x]) /\ next[2].at = t
            BY <2>3, <2>4, <2>5 DEF Stamps
        <3> QED
            BY <1>9, <2>4, <2>6, <3>1, <3>2
    <2>8. ASSUME NEW x \in b.on, x \in Settled
          PROVE  Via(x, k) \in Alive /\ WillStamp(c, Via(x, k), 2 + 1, t)
        <3>1. x \in Lectures /\ Project[x] = z /\ x \notin Slides
            BY <2>4, KindsAreApart
        <3>2. CASE Owner[x] = k
            <4>1. Via(x, k) = k /\ k \in Accounts
                BY <3>1, <3>2, KindsAreApart DEF Via
            <4>2. m # 1
                BY <1>4, <1>14, <4>1, KindsAreApart
            <4>3. x \in Below(k)
                BY <3>1, <3>2, <4>1, BelowAccount
            <4> QED
                BY <1>10, <1>11, <2>6, <2>8, <4>1, <4>2, <4>3
        <3>3. CASE Owner[x] # k
            <4>1. Via(x, k) = z
                BY <3>1, <3>3 DEF Via
            <4>2. x \in Below(z)
                BY <1>14, <3>1, BelowProject
            <4>3. z \in Alive
                BY <1>2, <1>5, <1>8, <2>8, <4>2
            <4>4. Stamps(next[3], z) /\ next[3].at = t
                BY <2>3, <2>5 DEF Stamps
            <4> QED
                BY <1>2, <1>9, <2>6, <4>1, <4>3, <4>4
        <3> QED
            BY <3>2, <3>3
    <2>9. ASSUME z \in Settled, z # k
          PROVE  Via(z, k) \in Alive /\ WillStamp(c, Via(z, k), 3 + 1, t)
        <3>1. m # 1 /\ Via(z, k) = k
            BY <1>4, <1>14, <2>9, KindsAreApart DEF Via
        <3> QED
            BY <1>2, <1>10, <1>11, <2>6, <2>9, <3>1
    <2>10. \A i \in DOMAIN next : i = 1 \/ i = 2 \/ i = 3
        BY <1>6, <2>5
    <2>11. Leads(1) /\ Leads(2) /\ Leads(3)
        BY <2>3, <2>5, <2>7, <2>8, <2>9
    <2> QED
        BY <2>3, <2>5, <2>10, <2>11
<1>15. ASSUME z \in Accounts
       PROVE  \A i \in DOMAIN next :
          next[i].do # "delete" /\ (next[i].do = "projects" \/ (next[i].at = t /\ Leads(i)))
    <2>1. z = k
        BY <1>4, <1>15, KindsAreApart
    <2> DEFINE a == Call("stamp", SlidesOf(OwnedBy(z, Lectures) \intersect Alive), t)
               b == Call("stamp", OwnedBy(z, Lectures), t)
               d == Call("projects", {z}, 0)
               e == Call("stamp", {z}, t)
    <2>2. next = <<a, b, d, e>>
        BY <1>2, <1>15, DeleteCallsAre
    <2>3. /\ a.do = "stamp" /\ a.at = t /\ b.do = "stamp" /\ b.at = t /\ d.do = "projects"
          /\ e.do = "stamp" /\ e.on = {k} /\ e.at = t
        BY <2>1, CallFields
    <2>4. /\ \A x \in a.on : x \in Slides /\ Lecture[x] \in b.on /\ Lecture[x] \in Alive
          /\ \A x \in b.on : x \in Lectures /\ Owner[x] = k
        BY <2>1, CallFields DEF SlidesOf, OwnedBy
    <2> HIDE DEF a, b, d, e
    <2>5. n = 4 /\ next[1] = a /\ next[2] = b /\ next[3] = d /\ next[4] = e
        BY <2>2
    <2> HIDE DEF next, n, k, c, t, z, m
    <2>6. 1 \in DOMAIN next /\ 2 \in DOMAIN next /\ 2 \in (1 + 1)..n /\ 4 \in (2 + 1)..n
        BY <1>6, <2>5
    <2>7. ASSUME NEW x \in a.on, x \in Settled
          PROVE  Via(x, k) \in Alive /\ WillStamp(c, Via(x, k), 1 + 1, t)
        <3>1. Via(x, k) = Lecture[x] /\ Lecture[x] \in Records
            BY <2>4, KindsAreApart DEF Via
        <3>2. Stamps(next[2], Lecture[x]) /\ next[2].at = t
            BY <2>3, <2>4, <2>5 DEF Stamps
        <3> QED
            BY <1>9, <2>4, <2>6, <3>1, <3>2
    <2>8. ASSUME NEW x \in b.on, x \in Settled
          PROVE  Via(x, k) \in Alive /\ WillStamp(c, Via(x, k), 2 + 1, t)
        <3>1. Via(x, k) = k /\ x \in Below(k)
            BY <1>15, <2>1, <2>4, KindsAreApart, BelowAccount DEF Via
        <3>2. Stamps(next[4], k) /\ next[4].at = t
            BY <2>3, <2>5 DEF Stamps
        <3> QED
            BY <1>2, <1>9, <1>11, <2>6, <2>8, <3>1, <3>2
    <2>10. \A i \in DOMAIN next : i = 1 \/ i = 2 \/ i = 3 \/ i = 4
        BY <1>6, <2>5
    <2>11. Leads(1) /\ Leads(2) /\ Leads(4)
        BY <2>3, <2>5, <2>7, <2>8
    <2> QED
        BY <2>3, <2>5, <2>10, <2>11
<1>16. \A i \in DOMAIN next :
          next[i].do # "delete" /\ (next[i].do = "projects" \/ (next[i].at = t /\ Leads(i)))
    BY <1>2, <1>12, <1>13, <1>14, <1>15, KindsAreApart
<1>17. \A i \in DOMAIN next : \A x \in Settled \intersect Alive : Stamps(next[i], x) /\ x # k =>
          Via(x, k) \in Alive /\ WillStamp(c, Via(x, k), i + 1, next[i].at)
    <2> HIDE DEF next, k, c, t
    <2> QED
        BY <1>16 DEF Stamps
<1>18. \A i \in DOMAIN next : next[i].do = "delete" => next[i].on \intersect Settled \subseteq Alive
    BY <1>16
<1> HIDE DEF next, t, z, m, s
<1> QED
    BY <1>1, <1>2, <1>17, <1>18, LeadsQuiet

LEMMA DeletionOthers ==
    ASSUME CascadeShape, MixedInv, DeletionInv, MixedInv', DeadInv', NEW r \in Requests, Passes(r),
           NEW q \in Active', q # r, Does(q, "delete")'
    PROVE  DeletionOrder(q)' /\ DeletionLeads(q)'
<1>1. q \in Active /\ root'[q] = root[q]
    BY WhoGoesOn
<1>2. Does(q, "delete") /\ About(q)' = About(q)
    BY <1>1, SameRequest
<1>3. DeletionOrder(q) /\ DeletionLeads(q)
    BY <1>1, <1>2 DEF DeletionInv
<1>4. calls'[q] = calls[q]
    BY <1>1 DEF Passes, Active
<1>5. DeletionOrder(q)'
    BY <1>2, <1>3, <1>4, OrderLater DEF DeletionOrder
<1> QED
    BY <1>1, <1>2, <1>3, <1>5, LeadsOthers

LEMMA DeletionWhole ==
    ASSUME CascadeShape, MixedInv, DeletionInv, MixedInv', DeadInv', NEW r \in Requests, Passes(r),
           r \in Active' /\ Does(r, "delete")' => DeletionOrder(r)' /\ DeletionLeads(r)'
    PROVE  DeletionInv'
<1>1. \A q \in Active' : Does(q, "delete")' => DeletionOrder(q)' /\ DeletionLeads(q)'
    BY DeletionOthers
<1> QED
    BY <1>1 DEF DeletionInv

LEMMA DeletionBegins ==
    ASSUME CascadeShape, NEW r \in Requests, NEW x \in Records, Delete(r, x)
    PROVE  DeletionOrder(r)' /\ DeletionLeads(r)'
<1> DEFINE first == Call("delete", {x}, 0)
<1>1. BeginsAs(r, "delete", x, first) /\ first.do = "delete" /\ first.on = {x}
    BY DeleteBegins
<1> HIDE DEF first
<1>2. calls'[r] = <<first>> /\ About(r)' = x /\ UNCHANGED <<stamp, gone>>
    BY <1>1, BeginIs
<1>3. Ordered(<<first>>, x)
    BY <1>1 DEF Ordered
<1>4. x \in Alive'
    BY <1>2 DEF Delete, Alive, Stored
<1>5. \A i \in DOMAIN <<first>> : <<first>>[i].do = "delete" /\ <<first>>[i].on = {x}
    BY <1>1
<1>6. \A i \in DOMAIN calls'[r] : calls'[r][i].do = "delete" /\ calls'[r][i].on = {x}
    BY <1>2, <1>5
<1>7. DeletionOrder(r)'
    BY <1>2, <1>3, OrderLater
<1> QED
    BY <1>2, <1>4, <1>6, <1>7, LeadsLater DEF Stamps

LEMMA DeletionStep ==
    ASSUME CascadeShape, MixedInv, DeadInv, DeletionInv, [Next]_vars, MixedInv', DeadInv'
    PROVE  DeletionInv'
<1>1. ASSUME NEW r \in Requests, Works(r), r \in Active', Does(r, "delete")'
      PROVE  DeletionOrder(r)' /\ DeletionLeads(r)'
    <2>1. r \in Active /\ Passes(r)
        BY <1>1, WorkPasses
    <2>2. root'[r] = root[r]
        BY <1>1, <2>1 DEF Passes
    <2>3. Does(r, "delete") /\ ~Does(r, "restore") /\ ~Does(r, "purge")
        BY <1>1, <2>1, <2>2, SameRequest, RequestIs
    <2>4. DeletionOrder(r) /\ DeletionLeads(r)
        BY <2>1, <2>3 DEF DeletionInv
    <2>5. DeleteStarts(r) \/ DeleteProjects(r) \/ StampMany(r) \/ Save(r)
        BY <1>1, <2>3, RestoreStartsWith, RestoreProjectsWith, ReviveWith, PurgeLooksWith,
           PurgeStartsWith, PurgeProjectsWith, DropWith DEF Works
    <2>6. CASE DeleteStarts(r)
        BY <1>1, <2>4, <2>6, OrderStarts, LeadsStarts
    <2>7. CASE DeleteProjects(r)
        BY <1>1, <2>4, <2>7, OrderProjects, LeadsProjects
    <2>8. CASE StampMany(r) \/ Save(r)
        <3>1. CASE Skips(r)
            <4>1. Then(r, <<>>)
                BY <3>1 DEF Skips
            <4> QED
                BY <1>1, <2>1, <2>4, <3>1, <4>1, OrderSkips, LeadsSkips
        <3>2. ASSUME NEW x, NEW next, Marks(r, x, next)
              PROVE  DeletionOrder(r)' /\ DeletionLeads(r)'
            BY <1>1, <2>1, <2>4, <3>2, OrderMarks, LeadsMarks
        <3> QED
            BY <2>8, <3>1, <3>2, StampingIs
    <2> QED
        BY <2>5, <2>6, <2>7, <2>8
<1>2. ASSUME NEW r \in Requests, Works(r)
      PROVE  DeletionInv'
    BY <1>1, <1>2, WorkPasses, DeletionWhole
<1>3. ASSUME NEW r \in Requests, NEW x \in Records, Delete(r, x)
      PROVE  DeletionInv'
    <2>1. Passes(r)
        BY <1>3, DeleteBegins, BeginPasses
    <2> QED
        BY <1>3, <2>1, DeletionBegins, DeletionWhole
<1>4. ASSUME NEW r \in Requests, NEW what \in {"restore", "purge"}, NEW x, NEW first,
             BeginsAs(r, what, x, first)
      PROVE  DeletionInv'
    <2>1. Passes(r) /\ ~Does(r, "delete")'
        BY <1>4, BeginPasses, BeginIs
    <2> QED
        BY <2>1, DeletionWhole
<1>5. ASSUME NEW r \in Requests, Sweep(r)
      PROVE  DeletionInv'
    BY <1>4, <1>5, SweepBegins
<1>6. ASSUME NEW r \in Requests, NEW x \in Records, Restore(r, x)
      PROVE  DeletionInv'
    BY <1>4, <1>6, RestoreBegins
<1>7. ASSUME NEW r \in Requests, Die(r)
      PROVE  DeletionInv'
    <2>1. Passes(r) /\ r \notin Active'
        BY <1>7, DiePasses, DieIs
    <2> QED
        BY <2>1, DeletionWhole
<1>8. CASE UNCHANGED vars
    <2>1. UNCHANGED <<stamp, gone, mixed, calls, root>>
        BY <1>8 DEF vars
    <2> QED
        BY <2>1 DEF DeletionInv, DeletionOrder, DeletionLeads, Ordered, Settled, Alive, Stored,
                    Active, Does, About, Via, WillStamp, Stamps
<1> QED
    BY <1>2, <1>3, <1>7, <1>8, <1>5, <1>6, NextIs

-----------------------------------------------------------------------------
(* What a restore finds.                                                   *)

LEMMA RestoreLater ==
    ASSUME NEW q,
           \A i \in DOMAIN calls'[q] : calls'[q][i].do = "revive" =>
               \A y \in calls'[q][i].on : \A x \in Settled' \intersect Dead' :
                   killer'[x] # x /\ Via(x, killer'[x]) = y =>
                       \E j \in 1..(i - 1) : Finds(calls'[q][j], x, stamp'[x])
    PROVE  RestoreFinds(q)'
    BY DEF RestoreFinds, Children, Via, Finds

LEMMA KillersNext ==
    ASSUME CascadeShape'
    PROVE  \A x \in Records : killer'[x] \in Records /\ x \in Below(killer'[x])
    BY DEF CascadeShape, Below, OwnedBy, LecturesIn, SlidesOf

\* The calls of a restore are on what lies below the record it is about.
LEMMA RestoresIs ==
    ASSUME CascadeShape, NEW r \in Active, Does(r, "restore")
    PROVE  /\ About(r) \in Records /\ ~Does(r, "purge") /\ ~Does(r, "delete")
           /\ \A i \in DOMAIN calls[r] : calls[r][i].on \subseteq Below(About(r))
           /\ \A i \in DOMAIN calls[r] : RestoreCall(calls[r][i], now)
<1>1. About(r) \in Records /\ ~Does(r, "delete") /\ ~Does(r, "purge")
    BY RequestIs
<1>2. \A i \in DOMAIN calls[r] : CallFits(r, calls[r][i], now)
    BY CallIs
<1> QED
    BY <1>1, <1>2 DEF CallFits

LEMMA RestoreOthers ==
    ASSUME CascadeShape, CascadeShape', MixedInv, NEW r \in Requests, Passes(r),
           NEW q \in Active, q # r, Does(q, "restore"), RestoreFinds(q)
    PROVE  RestoreFinds(q)'
<1> DEFINE k == About(q)
           s == calls[q]
<1>1. k \in Records /\ ~Does(q, "purge") /\ \A i \in DOMAIN s : s[i].on \subseteq Below(k)
    BY RestoresIs
<1>2. calls'[q] = s
    BY DEF Passes, Active
<1>3. ASSUME NEW i \in DOMAIN s, s[i].do = "revive", NEW y \in s[i].on,
             NEW x \in Settled' \intersect Dead', killer'[x] # x, Via(x, killer'[x]) = y
      PROVE  \E j \in 1..(i - 1) : Finds(s[j], x, stamp'[x])
    <2>1. x \in Records
        BY <1>3 DEF Dead
    <2>2. x \in Below(y)
        BY <1>3, <2>1, KillersNext, ViaIs
    <2>3. x \in Below(k)
        BY <1>1, <1>3, <2>2, BelowIsTransitive
    <2>4. x \in Settled /\ stamp'[x] = stamp[x] /\ killer'[x] = killer[x] /\ x \in Dead
        BY <1>1, <1>3, <2>3, Untouched
    <2>5. x \in Children(y)
        BY <1>3, <2>4 DEF Children
    <2> QED
        BY <1>3, <2>4, <2>5 DEF RestoreFinds
<1> QED
    BY <1>2, <1>3, RestoreLater

LEMMA RestoreGoesOn ==
    ASSUME CascadeShape, NEW r \in Active, RestoreFinds(r), NEW next \in Seq(CallRecords), Then(r, next),
           \A x \in Settled' \intersect Dead' : killer'[x] # x =>
               x \in Settled /\ x \in Dead /\ killer'[x] = killer[x] /\ stamp'[x] = stamp[x],
           \A x \in Settled' \intersect Dead' : killer'[x] # x /\ Finds(Of(r), x, stamp'[x]) =>
               \E i \in DOMAIN next : Finds(next[i], x, stamp'[x]),
           \A i \in DOMAIN next : next[i].do = "revive" =>
               \A y \in next[i].on : \A x \in Settled' \intersect Dead' :
                   killer'[x] # x /\ Via(x, killer'[x]) = y =>
                       \E j \in 1..(i - 1) : Finds(next[j], x, stamp'[x])
    PROVE  RestoreFinds(r)'
<1> DEFINE s == calls[r]
           t == calls'[r]
           m == Len(s)
           n == Len(next)
<1>1. /\ Len(t) = n + m - 1 /\ m \in Nat \ {0} /\ n \in Nat /\ DOMAIN s = 1..m
      /\ DOMAIN next = 1..n /\ DOMAIN t = 1..Len(t)
      /\ \A i \in DOMAIN next : i \in DOMAIN t /\ t[i] = next[i]
      /\ \A j \in 2..m : n + j - 1 \in DOMAIN t /\ t[n + j - 1] = s[j]
      /\ \A i \in DOMAIN t :
            \/ i \in DOMAIN next /\ t[i] = next[i]
            \/ \E j \in 2..m : i = n + j - 1 /\ t[i] = s[j]
    BY StackChanges
<1>2. Of(r) = s[1]
    BY DEF Of
<1>3. \A i \in DOMAIN s : s[i].do = "revive" =>
          \A y \in s[i].on : \A x \in Children(y) : \E j \in 1..(i - 1) : Finds(s[j], x, stamp[x])
    BY DEF RestoreFinds
<1> HIDE DEF s, t, m, n
<1>4. ASSUME NEW i \in DOMAIN t, t[i].do = "revive", NEW y \in t[i].on,
             NEW x \in Settled' \intersect Dead', killer'[x] # x, Via(x, killer'[x]) = y
      PROVE  \E j \in 1..(i - 1) : Finds(t[j], x, stamp'[x])
    <2>1. CASE i \in DOMAIN next /\ t[i] = next[i]
        <3>1. PICK j \in 1..(i - 1) : Finds(next[j], x, stamp'[x])
            BY <1>4, <2>1
        <3>2. j \in DOMAIN next
            BY <1>1, <2>1
        <3>3. t[j] = next[j]
            BY <1>1, <3>2
        <3> QED
            BY <3>1, <3>3
    <2>2. ASSUME NEW h \in 2..m, i = n + h - 1, t[i] = s[h]
          PROVE  \E j \in 1..(i - 1) : Finds(t[j], x, stamp'[x])
        <3>1. x \in Settled /\ x \in Dead /\ killer'[x] = killer[x] /\ stamp'[x] = stamp[x]
            BY <1>4
        <3>2. x \in Children(y) /\ h \in DOMAIN s
            BY <1>1, <1>4, <3>1 DEF Children
        <3>3. PICK j \in 1..(h - 1) : Finds(s[j], x, stamp'[x])
            BY <1>3, <1>4, <2>2, <3>1, <3>2
        <3>4. CASE j = 1
            <4>1. PICK g \in DOMAIN next : Finds(next[g], x, stamp'[x])
                BY <1>2, <1>4, <3>3, <3>4
            <4>2. g \in 1..(i - 1) /\ t[g] = next[g]
                BY <1>1, <2>2
            <4> QED
                BY <4>1, <4>2
        <3>5. CASE j # 1
            <4>1. j \in 2..m /\ n + j - 1 \in 1..(i - 1)
                BY <1>1, <2>2, <3>5
            <4>2. t[n + j - 1] = s[j]
                BY <1>1, <4>1
            <4> QED
                BY <3>3, <4>1, <4>2
        <3> QED
            BY <3>4, <3>5
    <2> QED
        BY <1>1, <2>1, <2>2
<1> QED
    BY <1>4, RestoreLater DEF t

\* A call that goes on with other calls, and changes no record.
LEMMA RestoreQuiet ==
    ASSUME CascadeShape, NEW r \in Active, RestoreFinds(r), NEW next \in Seq(CallRecords), Then(r, next),
           UNCHANGED <<stamp, gone, mixed, killer>>,
           \A x \in Settled \intersect Dead : Finds(Of(r), x, stamp[x]) =>
               \E i \in DOMAIN next : Finds(next[i], x, stamp[x]),
           \A i \in DOMAIN next : next[i].do = "revive" =>
               \A y \in next[i].on : \A x \in Children(y) :
                   \E j \in 1..(i - 1) : Finds(next[j], x, stamp[x])
    PROVE  RestoreFinds(r)'
<1>1. Settled' = Settled /\ Dead' = Dead
    BY DEF Settled, Dead, Alive, Stored
<1>2. \A y : \A x \in Settled \intersect Dead :
          killer[x] # x /\ Via(x, killer[x]) = y => x \in Children(y)
    BY DEF Children
<1> QED
    BY <1>1, <1>2, RestoreGoesOn

LEMMA ChildrenIs ==
    ASSUME CascadeShape, NEW y, NEW x \in Children(y)
    PROVE  /\ x \in Settled /\ x \in Dead /\ x \in Stored /\ x \in Records /\ stamp[x] # Live
           /\ killer[x] \in Records /\ x \in Below(killer[x]) /\ killer[x] # x /\ y = Via(x, killer[x])
           /\ y \in Records \ Slides /\ x \in Below(y)
           /\ y \in Lectures => x \in Slides /\ Lecture[x] = y
           /\ y \in Projects => x \in Lectures /\ Project[x] = y
           /\ y \in Accounts => \/ x \in Lectures /\ Owner[x] = y
                                \/ x \in Projects /\ Owner[x] = y
<1>1. x \in Settled /\ x \in Dead /\ killer[x] # x /\ y = Via(x, killer[x])
    BY DEF Children
<1>2. x \in Records /\ x \in Stored /\ stamp[x] # Live
    BY <1>1, AliveIs DEF Settled, Dead, Alive
<1>3. killer[x] \in Records /\ x \in Below(killer[x])
    BY <1>2 DEF CascadeShape
<1> DEFINE k == killer[x]
<1>4. /\ Via(x, k) \in Records \ Slides /\ x \in Below(Via(x, k))
      /\ x \in Slides => Via(x, k) \in Lectures /\ Via(x, k) = Lecture[x]
      /\ x \in Lectures => \/ Via(x, k) = k /\ k \in Accounts /\ Owner[x] = k
                           \/ Via(x, k) = Project[x] /\ Via(x, k) \in Projects
      /\ x \in Projects => Via(x, k) = k /\ k \in Accounts /\ Owner[x] = k
      /\ x \notin Accounts
    BY <1>1, <1>3, ViaIs
<1> HIDE DEF k
<1>5. /\ y \in Lectures => x \in Slides /\ Lecture[x] = y
      /\ y \in Projects => x \in Lectures /\ Project[x] = y
      /\ y \in Accounts => \/ x \in Lectures /\ Owner[x] = y
                           \/ x \in Projects /\ Owner[x] = y
    <2>1. y = Via(x, k)
        BY <1>1 DEF k
    <2> QED
        BY <1>2, <1>4, <2>1, KindsAreApart
<1> QED
    BY <1>1, <1>2, <1>3, <1>4, <1>5 DEF k

\* A restore of z finds what was deleted by way of z.
LEMMA RestoreCallsFind ==
    ASSUME CascadeShape, ChainInv, NEW z \in Records, z \in Dead, NEW x \in Children(z)
    PROVE  \E j \in DOMAIN RestoreCalls(z, stamp[z]) :
               Finds(RestoreCalls(z, stamp[z])[j], x, stamp[x])
<1> DEFINE t == stamp[z]
           n == RestoreCalls(z, t)
<1>1. /\ x \in Settled /\ x \in Dead /\ x \in Stored /\ stamp[x] # Live /\ x \in Records
      /\ killer[x] # x /\ z = Via(x, killer[x]) /\ z \in Records \ Slides
      /\ z \in Lectures => x \in Slides /\ Lecture[x] = z
      /\ z \in Projects => x \in Lectures /\ Project[x] = z
      /\ z \in Accounts => \/ x \in Lectures /\ Owner[x] = z
                           \/ x \in Projects /\ Owner[x] = z
    BY ChildrenIs
<1>2. t <= stamp[x]
    BY <1>1, ChainIs DEF Found, Dead
<1>3. \A xs : x \in xs => x \in WithRoot(xs, t)
    <2>1. stamp[x] \in Nat /\ t \in Nat
        BY <1>1, CascadeAssumption DEF CascadeShape
    <2>2. stamp[x] >= t
        BY <1>2, <2>1
    <2> QED
        BY <1>1, <2>2, WithRootIs
<1>4. CASE z \in Lectures
    <2> DEFINE c == Call("revive", SlidesOf({z}), t)
    <2>1. n = <<c>>
        BY <1>4, RestoreCallsAre
    <2>2. c.do = "revive" /\ c.on = SlidesOf({z}) /\ c.at = t
        BY CallFields
    <2>3. x \in SlidesOf({z})
        BY <1>1, <1>4 DEF SlidesOf
    <2> HIDE DEF c, t, n
    <2>4. Finds(c, x, stamp[x])
        BY <1>2, <2>2, <2>3 DEF Finds
    <2>5. 1 \in DOMAIN <<c>> /\ <<c>>[1] = c
        OBVIOUS
    <2> QED
        BY <2>1, <2>4, <2>5 DEF n, t
<1>5. ASSUME NEW xs \in SUBSET Records, x \in xs
      PROVE  \E j \in DOMAIN Each("restore", xs, 0) : Finds(Each("restore", xs, 0)[j], x, stamp[x])
    <2> DEFINE e == Each("restore", xs, 0)
    <2>1. \A w \in xs : \E j \in DOMAIN e : e[j] = Call("restore", {w}, 0)
        BY EachIs
    <2>2. Finds(Call("restore", {x}, 0), x, stamp[x])
        BY CallFields DEF Finds
    <2> HIDE DEF e
    <2>3. \E j \in DOMAIN e : Finds(e[j], x, stamp[x])
        BY <1>5, <2>1, <2>2
    <2> QED
        BY <2>3 DEF e
<1>6. CASE z \in Projects
    <2> DEFINE xs == WithRoot(LecturesIn(z), t)
    <2>1. n = Each("restore", xs, 0)
        BY <1>6, RestoreCallsAre
    <2>2. x \in xs
        BY <1>1, <1>3, <1>6 DEF LecturesIn
    <2>3. xs \in SUBSET Records
        BY WithRootIs, KindsAreApart DEF LecturesIn
    <2> HIDE DEF xs, n
    <2>4. \E j \in DOMAIN n : Finds(n[j], x, stamp[x])
        BY <1>5, <2>1, <2>2, <2>3
    <2> QED
        BY <2>4 DEF n
<1>7. CASE z \in Accounts
    <2> DEFINE xs == WithRoot(OwnedBy(z, Lectures), t)
               e == Each("restore", xs, 0)
               c == Call("restoreProjects", {z}, t)
    <2>1. n = Append(e, c)
        BY <1>7, RestoreCallsAre
    <2>2. xs \in SUBSET Records
        BY WithRootIs, KindsAreApart DEF OwnedBy
    <2>3. c.do = "restoreProjects" /\ c.on = {z} /\ c.at = t
        BY CallFields
    <2>5. e \in Seq(CallRecords)
        <3>1. \A w \in xs : Call("restore", {w}, 0) \in CallRecords
            <4>1. 0 \in 0..MaxTime + 1 /\ "restore" \in RestoreDo
                BY CascadeAssumption DEF RestoreDo
            <4> HIDE DEF xs
            <4> QED
                BY <2>2, <4>1, CallTyped
        <3> HIDE DEF xs
        <3> QED
            BY <2>2, <3>1, EachIs
    <2>6. x \in OwnedBy(z, Lectures) => x \in xs
        BY <1>3
    <2>7. x \in Lectures /\ Owner[x] = z => x \in xs
        BY <2>6 DEF OwnedBy
    <2> HIDE DEF n, xs, c, e, t
    <2>8. \E j \in DOMAIN n : Finds(n[j], x, stamp[x])
        <3>1. CASE x \in Lectures /\ Owner[x] = z
            <4>1. PICK j \in DOMAIN e : Finds(e[j], x, stamp[x])
                BY <1>5, <2>2, <2>7, <3>1 DEF e
            <4>2. j \in DOMAIN n /\ n[j] = e[j]
                BY <2>1, <2>5, AppendIs
            <4> QED
                BY <4>1, <4>2
        <3>2. CASE x \in Projects /\ Owner[x] = z
            <4>1. Finds(c, x, stamp[x])
                BY <1>2, <2>3, <3>2 DEF Finds
            <4>2. Len(e) + 1 \in DOMAIN n /\ n[Len(e) + 1] = c
                BY <2>1, <2>5, AppendIs
            <4> QED
                BY <4>1, <4>2
        <3> QED
            BY <1>1, <1>7, <3>1, <3>2
    <2> QED
        BY <2>8 DEF n, t
<1> QED
    BY <1>1, <1>4, <1>6, <1>7, KindsAreApart

\* The calls with which a restore goes down bring back nothing that has anything below it.
LEMMA RestoreCallsRevive ==
    ASSUME CascadeShape, NEW z \in Records \ Slides, NEW i \in DOMAIN RestoreCalls(z, stamp[z]),
           RestoreCalls(z, stamp[z])[i].do = "revive"
    PROVE  RestoreCalls(z, stamp[z])[i].on \subseteq Slides
<1> DEFINE t == stamp[z]
           n == RestoreCalls(z, t)
<1>1. ASSUME NEW xs \in SUBSET Records
      PROVE  \A j \in DOMAIN Each("restore", xs, 0) : Each("restore", xs, 0)[j].do = "restore"
    <2>1. \A j \in DOMAIN Each("restore", xs, 0) :
              \E x \in xs : Each("restore", xs, 0)[j] = Call("restore", {x}, 0)
        BY <1>1, EachIs
    <2>2. \A x : Call("restore", {x}, 0).do = "restore"
        BY CallFields
    <2> QED
        BY <2>1, <2>2
<1>2. CASE z \in Lectures
    <2> DEFINE c == Call("revive", SlidesOf({z}), t)
    <2>1. n = <<c>>
        BY <1>2, RestoreCallsAre
    <2>2. c.on = SlidesOf({z})
        BY CallFields
    <2>3. c.on \subseteq Slides
        BY <2>2 DEF SlidesOf
    <2> HIDE DEF c, n
    <2>4. \A j \in DOMAIN n : n[j].on \subseteq Slides
        BY <2>1, <2>3
    <2> QED
        BY <2>4 DEF n
<1>3. CASE z \in Projects
    <2> DEFINE xs == WithRoot(LecturesIn(z), t)
    <2>1. n = Each("restore", xs, 0)
        BY <1>3, RestoreCallsAre
    <2>2. xs \in SUBSET Records
        BY WithRootIs, KindsAreApart DEF LecturesIn
    <2> HIDE DEF xs, n
    <2>3. \A j \in DOMAIN n : n[j].do = "restore"
        BY <1>1, <2>1, <2>2
    <2> QED
        BY <2>3 DEF n
<1>4. CASE z \in Accounts
    <2> DEFINE xs == WithRoot(OwnedBy(z, Lectures), t)
               e == Each("restore", xs, 0)
               c == Call("restoreProjects", {z}, t)
    <2>1. n = Append(e, c)
        BY <1>4, RestoreCallsAre
    <2>2. xs \in SUBSET Records
        BY WithRootIs, KindsAreApart DEF OwnedBy
    <2>3. c.do = "restoreProjects"
        BY CallFields
    <2>4. e \in Seq(CallRecords) /\ c \in CallRecords
        <3>1. 0 \in 0..MaxTime + 1 /\ "restore" \in RestoreDo /\ "restoreProjects" \in RestoreDo
              /\ t \in 0..MaxTime + 1
            BY CascadeAssumption DEF RestoreDo, CascadeShape
        <3>2. \A w \in Records : Call("restore", {w}, 0) \in CallRecords
            BY <3>1, CallTyped
        <3>3. c \in CallRecords
            BY <1>4, <3>1, CallTyped
        <3> HIDE DEF xs, c
        <3> QED
            BY <2>2, <3>2, <3>3, EachIs
    <2>5. \A j \in DOMAIN e : e[j].do = "restore"
        BY <1>1, <2>2
    <2> HIDE DEF n, xs, c, e, t
    <2>6. \A j \in DOMAIN n : n[j].do # "revive"
        BY <2>1, <2>3, <2>4, <2>5, AppendIs
    <2> QED
        BY <2>6 DEF n, t
<1> QED
    BY <1>2, <1>3, <1>4, KindsAreApart

LEMMA RestoreStartsFind ==
    ASSUME CascadeShape, ChainInv, NEW r \in Requests, RestoreStarts(r), RestoreFinds(r)
    PROVE  RestoreFinds(r)'
<1> DEFINE z == Target(r)
           t == stamp[z]
           inner == RestoreCalls(z, t)
           last == Call("revive", {z}, 0)
           next == Append(inner, last)
<1>1. /\ r \in Active /\ z \in Records \ Slides /\ Of(r).on = {z} /\ Of(r).do = "restore"
      /\ \/ z \in Alive \union gone /\ Then(r, <<>>)
         \/ /\ z \notin Alive \union gone
            /\ inner \in Seq(CallRecords) /\ last \in CallRecords
            /\ next \in Seq(CallRecords) /\ Then(r, next)
    BY RestoreStartsWith
<1>2. UNCHANGED <<stamp, gone, mixed, killer>>
    BY DEF RestoreStarts, RecordsUnchanged, CountsUnchanged
<1>3. \A x, u : Finds(Of(r), x, u) => x = z
    BY <1>1 DEF Finds
<1>4. CASE z \in Alive \union gone /\ Then(r, <<>>)
    <2>1. \A x \in Settled \intersect Dead : ~Finds(Of(r), x, stamp[x])
        BY <1>3, <1>4, AliveIs DEF Settled, Dead, Stored
    <2>2. \A i \in DOMAIN <<>> : FALSE
        BY EmptyCalls
    <2> QED
        BY <1>1, <1>2, <1>4, <2>1, <2>2, EmptyCalls, RestoreQuiet
<1>5. CASE z \notin Alive \union gone /\ inner \in Seq(CallRecords) /\ last \in CallRecords
           /\ next \in Seq(CallRecords) /\ Then(r, next)
    <2>1. /\ Len(inner) \in Nat /\ DOMAIN inner = 1..Len(inner)
          /\ \A i \in DOMAIN inner : i \in DOMAIN next /\ next[i] = inner[i]
          /\ Len(inner) + 1 \in DOMAIN next
          /\ next[Len(inner) + 1] = last
          /\ \A i \in DOMAIN next :
                \/ i \in DOMAIN inner /\ next[i] = inner[i]
                \/ i = Len(inner) + 1 /\ next[i] = last
        <3> HIDE DEF inner, last
        <3> QED
            BY <1>5, AppendIs
    <2>2. last.do = "revive" /\ last.on = {z} /\ last.at = 0
        BY CallFields
    <2>3. \A j \in DOMAIN inner : inner[j].do = "revive" => inner[j].on \subseteq Slides
        BY <1>1, RestoreCallsRevive
    <2>4. z \in Dead
        BY <1>1, <1>5 DEF Dead
    <2>5. \A x \in Children(z) : \E j \in DOMAIN inner : Finds(inner[j], x, stamp[x])
        BY <1>1, <2>4, RestoreCallsFind
    <2>6. \A y \in Slides : Children(y) = {}
        BY ChildrenIs
    <2>7. \A x \in Settled \intersect Dead : Finds(Of(r), x, stamp[x]) =>
              \E i \in DOMAIN next : Finds(next[i], x, stamp[x])
        <3> SUFFICES ASSUME NEW x \in Settled \intersect Dead, Finds(Of(r), x, stamp[x])
                     PROVE  \E i \in DOMAIN next : Finds(next[i], x, stamp[x])
            OBVIOUS
        <3>1. x = z /\ stamp[x] \in Nat /\ 0 <= stamp[x]
            BY <1>1, <1>3, CascadeAssumption DEF CascadeShape
        <3> HIDE DEF last, next, inner, z
        <3>2. Finds(last, x, stamp[x])
            BY <2>2, <3>1 DEF Finds
        <3> QED
            BY <2>1, <3>2
    <2> HIDE DEF inner, last, z
    <2>8. ASSUME NEW i \in DOMAIN next, next[i].do = "revive", NEW y \in next[i].on,
                 NEW x \in Children(y)
          PROVE  \E j \in 1..(i - 1) : Finds(next[j], x, stamp[x])
        <3>1. CASE i \in DOMAIN inner /\ next[i] = inner[i]
            BY <2>3, <2>6, <2>8, <3>1
        <3>2. CASE i = Len(inner) + 1 /\ next[i] = last
            <4>1. y = z
                BY <2>2, <2>8, <3>2
            <4>2. PICK j \in DOMAIN inner : Finds(inner[j], x, stamp[x])
                BY <2>5, <2>8, <4>1
            <4>3. j \in 1..(i - 1) /\ next[j] = inner[j]
                BY <2>1, <3>2
            <4> QED
                BY <4>2, <4>3
        <3> QED
            BY <2>1, <3>1, <3>2
    <2> HIDE DEF next
    <2> QED
        BY <1>1, <1>2, <1>5, <2>7, <2>8, RestoreQuiet
<1> QED
    BY <1>1, <1>4, <1>5

LEMMA RestoreProjectsFind ==
    ASSUME CascadeShape, NEW r \in Requests, RestoreProjects(r), RestoreFinds(r)
    PROVE  RestoreFinds(r)'
<1> DEFINE z == Target(r)
           ps == WithRoot(OwnedBy(z, Projects), Of(r).at)
           next == Each("restore", ps, 0)
<1>1. /\ r \in Active /\ Of(r).on = {z} /\ Of(r).do = "restoreProjects" /\ Of(r).at \in Nat
      /\ ps \subseteq Records /\ next \in Seq(CallRecords) /\ Then(r, next)
    BY RestoreProjectsWith
<1>2. UNCHANGED <<stamp, gone, mixed, killer>>
    BY DEF RestoreProjects, RecordsUnchanged, CountsUnchanged
<1>3. \A x \in Settled \intersect Dead : Finds(Of(r), x, stamp[x]) => x \in ps
    <2> SUFFICES ASSUME NEW x \in Settled \intersect Dead, Finds(Of(r), x, stamp[x])
                 PROVE  x \in ps
        OBVIOUS
    <2>1. x \in Projects /\ Owner[x] = z /\ Of(r).at <= stamp[x]
        BY <1>1 DEF Finds
    <2>2. x \in Stored /\ stamp[x] # Live /\ stamp[x] \in Nat
        BY AliveIs, CascadeAssumption DEF Settled, Dead, Alive, Stored, CascadeShape
    <2>3. x \in OwnedBy(z, Projects) /\ stamp[x] >= Of(r).at
        BY <1>1, <2>1, <2>2 DEF OwnedBy
    <2> QED
        BY <2>2, <2>3, WithRootIs
<1> HIDE DEF ps, z
<1>4. ps \in SUBSET Records
    BY <1>1
<1>5. \A x \in ps : \E i \in DOMAIN next : next[i] = Call("restore", {x}, 0)
    BY <1>4, EachIs
<1>6. \A i \in DOMAIN next : \E x \in ps : next[i] = Call("restore", {x}, 0)
    BY <1>4, EachIs
<1>7. \A x : Call("restore", {x}, 0).do = "restore" /\ Call("restore", {x}, 0).on = {x}
    BY CallFields
<1> HIDE DEF next
<1>8. \A i \in DOMAIN next : next[i].do # "revive"
    BY <1>6, <1>7
<1>9. \A x \in Settled \intersect Dead : Finds(Of(r), x, stamp[x]) =>
          \E i \in DOMAIN next : Finds(next[i], x, stamp[x])
    <2> SUFFICES ASSUME NEW x \in Settled \intersect Dead, Finds(Of(r), x, stamp[x])
                 PROVE  \E i \in DOMAIN next : Finds(next[i], x, stamp[x])
        OBVIOUS
    <2>1. PICK i \in DOMAIN next : next[i] = Call("restore", {x}, 0)
        BY <1>3, <1>5
    <2>2. next[i].do = "restore" /\ x \in next[i].on
        BY <1>7, <2>1
    <2>3. Finds(next[i], x, stamp[x])
        BY <2>2 DEF Finds
    <2> QED
        BY <2>3
<1> QED
    BY <1>1, <1>2, <1>8, <1>9, RestoreQuiet

LEMMA RevivesFind ==
    ASSUME CascadeShape, NEW r \in Requests, Passes(r), RestoreFinds(r),
           NEW x0, NEW next, Revives(r, x0, next)
    PROVE  RestoreFinds(r)'
<1>1. /\ 1 \in DOMAIN calls[r] /\ Of(r) = calls[r][1] /\ r \in Active /\ Of(r).at \in Nat
      /\ Of(r).do = "revive" /\ x0 \in Of(r).on /\ x0 \in Records /\ next \in Seq(CallRecords)
      /\ Then(r, next) /\ gone' = gone /\ stamp'[x0] = Live /\ Settled' \subseteq Settled
    BY HeadIs, SettledBefore DEF Revives
<1>2. \A y \in Records : y # x0 => stamp'[y] = stamp[y] /\ killer'[y] = killer[y]
    BY DEF Revives
<1>3. \A y \in Of(r).on : Children(y) = {}
    <2>1. 1..(1 - 1) = {}
        OBVIOUS
    <2> QED
        BY <1>1, <2>1 DEF RestoreFinds
<1>4. x0 \in Alive'
    BY <1>1, AliveIs DEF Revives, Alive, Stored
<1>5. \A i \in DOMAIN next : i = 1 /\ next[i].do = "revive" /\ next[i].at = Of(r).at
                              /\ next[i].on \subseteq Of(r).on \ {x0}
    BY DEF Revives
<1>6. \A y \in Revivable(r) \ {x0} : \E i \in DOMAIN next : y \in next[i].on
    BY DEF Revives
<1>7. ASSUME NEW x \in Settled' \intersect Dead'
      PROVE  /\ x # x0 /\ x \in Settled /\ x \in Dead /\ x \in Records
             /\ stamp'[x] = stamp[x] /\ killer'[x] = killer[x]
    <2>1. x # x0 /\ x \in Settled /\ x \in Records
        BY <1>1, <1>4, <1>7 DEF Dead
    <2>2. stamp'[x] = stamp[x] /\ killer'[x] = killer[x]
        BY <1>2, <2>1
    <2> QED
        BY <1>1, <1>7, <2>1, <2>2 DEF Dead, Alive, Stored
<1>8. ASSUME NEW x \in Settled' \intersect Dead', Finds(Of(r), x, stamp'[x])
      PROVE  \E i \in DOMAIN next : Finds(next[i], x, stamp'[x])
    <2>1. x \in Of(r).on /\ Of(r).at <= stamp[x] /\ x # x0
        BY <1>1, <1>7, <1>8 DEF Finds
    <2>2. x \in Stored /\ stamp[x] # Live /\ stamp[x] \in Nat
        BY <1>7, AliveIs, CascadeAssumption DEF Settled, Dead, Alive, Stored, CascadeShape
    <2>3. x \in Revivable(r)
        BY <1>1, <2>1, <2>2, WithRootIs DEF Revivable
    <2>4. PICK i \in DOMAIN next : x \in next[i].on
        BY <1>6, <2>1, <2>3
    <2> QED
        BY <1>5, <1>7, <1>8, <2>1, <2>4 DEF Finds
<1>9. ASSUME NEW i \in DOMAIN next, NEW y \in next[i].on,
             NEW x \in Settled' \intersect Dead', killer'[x] # x, Via(x, killer'[x]) = y
      PROVE  FALSE
    <2>1. x \in Children(y)
        BY <1>7, <1>9 DEF Children
    <2> QED
        BY <1>3, <1>5, <1>9, <2>1
<1> QED
    BY <1>1, <1>7, <1>8, <1>9, RestoreGoesOn

LEMMA RevivesNoneFind ==
    ASSUME CascadeShape, NEW r \in Requests, RestoreFinds(r), RevivesNone(r)
    PROVE  RestoreFinds(r)'
<1>1. /\ r \in Active /\ Then(r, <<>>) /\ Of(r).do = "revive" /\ Revivable(r) = {}
      /\ UNCHANGED <<stamp, gone, mixed, killer>>
    BY DEF RevivesNone
<1>2. Of(r).at \in Nat
    BY <1>1, HeadIs
<1>3. \A x \in Settled \intersect Dead : ~Finds(Of(r), x, stamp[x])
    <2> SUFFICES ASSUME NEW x \in Settled \intersect Dead, Finds(Of(r), x, stamp[x])
                 PROVE  FALSE
        OBVIOUS
    <2>1. x \in Of(r).on /\ Of(r).at <= stamp[x]
        BY <1>1 DEF Finds
    <2>2. x \in Stored /\ stamp[x] # Live /\ stamp[x] \in Nat
        BY AliveIs, CascadeAssumption DEF Settled, Dead, Alive, Stored, CascadeShape
    <2>3. x \in Revivable(r)
        BY <1>2, <2>1, <2>2, WithRootIs DEF Revivable
    <2> QED
        BY <1>1, <2>3
<1>4. \A i \in DOMAIN <<>> : FALSE
    BY EmptyCalls
<1> QED
    BY <1>1, <1>3, <1>4, EmptyCalls, RestoreQuiet

LEMMA RestoreOthersNext ==
    ASSUME CascadeShape, CascadeShape', MixedInv, RestoreInv, NEW r \in Requests, Passes(r),
           NEW q \in Active', q # r, Does(q, "restore")'
    PROVE  RestoreFinds(q)'
<1>1. q \in Active /\ root'[q] = root[q]
    BY WhoGoesOn
<1>2. Does(q, "restore")
    BY <1>1, SameRequest
<1>3. RestoreFinds(q)
    BY <1>1, <1>2 DEF RestoreInv
<1> QED
    BY <1>1, <1>2, <1>3, RestoreOthers

LEMMA RestoreWhole ==
    ASSUME CascadeShape, CascadeShape', MixedInv, RestoreInv, NEW r \in Requests, Passes(r),
           r \in Active' /\ Does(r, "restore")' => RestoreFinds(r)'
    PROVE  RestoreInv'
<1>1. \A q \in Active' : Does(q, "restore")' => RestoreFinds(q)'
    BY RestoreOthersNext
<1> QED
    BY <1>1 DEF RestoreInv

LEMMA RestoreStep ==
    ASSUME CascadeShape, CascadeShape', MixedInv, ChainInv, RestoreInv, [Next]_vars
    PROVE  RestoreInv'
<1>1. ASSUME NEW r \in Requests, Works(r), r \in Active', Does(r, "restore")'
      PROVE  RestoreFinds(r)'
    <2>1. r \in Active /\ Passes(r)
        BY <1>1, WorkPasses
    <2>2. root'[r] = root[r]
        BY <1>1, <2>1 DEF Passes
    <2>3. Does(r, "restore") /\ ~Does(r, "delete") /\ ~Does(r, "purge")
        BY <1>1, <2>1, <2>2, SameRequest, RequestIs
    <2>4. RestoreFinds(r)
        BY <2>1, <2>3 DEF RestoreInv
    <2>5. RestoreStarts(r) \/ RestoreProjects(r) \/ Revive(r)
        BY <1>1, <2>3, DeleteStartsWith, DeleteProjectsWith, StampManyWith, SaveWith, PurgeLooksWith,
           PurgeStartsWith, PurgeProjectsWith, DropWith DEF Works
    <2>6. CASE RestoreStarts(r)
        BY <2>4, <2>6, RestoreStartsFind
    <2>7. CASE RestoreProjects(r)
        BY <2>4, <2>7, RestoreProjectsFind
    <2>8. CASE Revive(r)
        BY <2>1, <2>4, <2>8, RevivingIs, RevivesFind, RevivesNoneFind
    <2> QED
        BY <2>5, <2>6, <2>7, <2>8
<1>2. ASSUME NEW r \in Requests, Works(r)
      PROVE  RestoreInv'
    BY <1>1, <1>2, WorkPasses, RestoreWhole
<1>3. ASSUME NEW r \in Requests, NEW x \in Records, Restore(r, x)
      PROVE  RestoreInv'
    <2> DEFINE first == Call("restore", {x}, 0)
    <2>1. BeginsAs(r, "restore", x, first) /\ first.do = "restore"
        BY <1>3, RestoreBegins, CallFields
    <2> HIDE DEF first
    <2>2. Passes(r) /\ calls'[r] = <<first>>
        BY <2>1, BeginIs, BeginPasses
    <2>3. \A i \in DOMAIN <<first>> : <<first>>[i].do # "revive"
        BY <2>1
    <2>4. RestoreFinds(r)'
        BY <2>2, <2>3, RestoreLater
    <2> QED
        BY <2>2, <2>4, RestoreWhole
<1>4. ASSUME NEW r \in Requests, NEW what \in {"delete", "purge"}, NEW x, NEW first,
             BeginsAs(r, what, x, first)
      PROVE  RestoreInv'
    <2>1. Passes(r) /\ ~Does(r, "restore")'
        BY <1>4, BeginPasses, BeginIs
    <2> QED
        BY <2>1, RestoreWhole
<1>5. ASSUME NEW r \in Requests, Sweep(r)
      PROVE  RestoreInv'
    BY <1>4, <1>5, SweepBegins
<1>6. ASSUME NEW r \in Requests, NEW x \in Records, Delete(r, x)
      PROVE  RestoreInv'
    BY <1>4, <1>6, DeleteBegins
<1>7. ASSUME NEW r \in Requests, Die(r)
      PROVE  RestoreInv'
    <2>1. Passes(r) /\ r \notin Active'
        BY <1>7, DiePasses, DieIs
    <2> QED
        BY <2>1, RestoreWhole
<1>8. CASE UNCHANGED vars
    <2>1. UNCHANGED <<stamp, gone, mixed, killer, calls, root>>
        BY <1>8 DEF vars
    <2> QED
        BY <2>1 DEF RestoreInv, RestoreFinds, Finds, Children, Settled, Dead, Alive, Stored,
                    Active, Does, About, Via
<1> QED
    BY <1>2, <1>3, <1>5, <1>6, <1>7, <1>8, NextIs

-----------------------------------------------------------------------------
(* What was deleted on its own.                                            *)

LEMMA SparesLater ==
    ASSUME NEW q, NEW x,
           \A i \in DOMAIN calls'[q] :
              /\ Does(q, "delete")' /\ x \in Below(About(q)') /\ calls'[q][i].at # 0 =>
                    stamp'[x] < calls'[q][i].at
              /\ Does(q, "restore")' => ~Finds(calls'[q][i], x, stamp'[x])
    PROVE  Spares(q, x)'
    BY DEF Spares, Finds, Below, OwnedBy, LecturesIn, SlidesOf

LEMMA OwnLater ==
    ASSUME NEW x,
           x \in Alive' => /\ \E r \in Active' : Does(r, "delete")' /\ About(r)' = x
                           /\ Above(x) \subseteq Alive',
           x \in Dead' => /\ \A y \in Above(x) \intersect Dead' : stamp'[x] < stamp'[y]
                          /\ \A r \in Active' : Spares(r, x)'
    PROVE  OwnHolds(x)'
    BY DEF OwnHolds, Above, Below, OwnedBy, LecturesIn, SlidesOf, Spares, Finds

LEMMA AboveIs == \A x, y : y \in Above(x) <=> y \in Records /\ y # x /\ x \in Below(y)
    BY DEF Above

\* A call finds what lies below the records it is on.
LEMMA FindsBelow ==
    ASSUME CascadeShape, NEW q \in Active, Does(q, "restore"), NEW i \in DOMAIN calls[q],
           NEW x, NEW t, Finds(calls[q][i], x, t)
    PROVE  x \in Below(About(q))
<1>1. /\ About(q) \in Records /\ calls[q][i].on \subseteq Below(About(q))
      /\ RestoreCall(calls[q][i], now)
    BY RestoresIs
<1>2. CASE x \in calls[q][i].on
    BY <1>1, <1>2
<1>3. CASE /\ calls[q][i].do = "restoreProjects" /\ x \in Projects
           /\ Owner[x] \in calls[q][i].on
    <2>1. Owner[x] \in Accounts /\ Owner[x] \in Below(About(q))
        BY <1>1, <1>3 DEF RestoreCall, Names
    <2>2. x \in Below(Owner[x])
        BY <1>3, <2>1, BelowParts DEF OwnedBy
    <2> QED
        BY <1>1, <2>1, <2>2, BelowIsTransitive
<1> QED
    BY <1>2, <1>3 DEF Finds

\* The steps of one request leave how another spares x.
LEMMA SparesOthers ==
    ASSUME NEW r \in Requests, Passes(r), NEW q \in Active', q # r, NEW x,
           stamp'[x] = stamp[x], \A p \in Active : Spares(p, x)
    PROVE  Spares(q, x)'
<1>1. q \in Active /\ root'[q] = root[q]
    BY WhoGoesOn
<1>2. calls'[q] = calls[q]
    BY <1>1 DEF Passes, Active
<1>3. About(q)' = About(q) /\ \A w : Does(q, w)' <=> Does(q, w)
    BY <1>1, SameRequest
<1>4. Spares(q, x)
    BY <1>1
<1>5. \A i \in DOMAIN calls[q] :
          /\ Does(q, "delete") /\ x \in Below(About(q)) /\ calls[q][i].at # 0 =>
                stamp[x] < calls[q][i].at
          /\ Does(q, "restore") => ~Finds(calls[q][i], x, stamp[x])
    BY <1>4 DEF Spares
<1> QED
    BY <1>2, <1>3, <1>5, SparesLater

\* So do the calls that come in the place of one that is over.
LEMMA SparesGoesOn ==
    ASSUME CascadeShape, NEW r \in Active, NEW next \in Seq(CallRecords), Then(r, next), r \in Active',
           NEW x, stamp'[x] = stamp[x], Spares(r, x),
           \A i \in DOMAIN next :
              /\ Does(r, "delete") /\ x \in Below(About(r)) /\ next[i].at # 0 =>
                    stamp[x] < next[i].at
              /\ Does(r, "restore") => ~Finds(next[i], x, stamp[x])
    PROVE  Spares(r, x)'
<1> DEFINE s == calls[r]
           t == calls'[r]
<1>1. /\ Len(s) \in Nat \ {0} /\ DOMAIN s = 1..Len(s)
      /\ \A i \in DOMAIN t :
            \/ i \in DOMAIN next /\ t[i] = next[i]
            \/ \E j \in 2..Len(s) : i = Len(next) + j - 1 /\ t[i] = s[j]
    BY StackChanges
<1>2. root'[r] = root[r]
    BY ThenIs
<1>3. About(r)' = About(r) /\ \A w : Does(r, w)' <=> Does(r, w)
    BY <1>2, SameRequest
<1>4. \A i \in DOMAIN s :
          /\ Does(r, "delete") /\ x \in Below(About(r)) /\ s[i].at # 0 => stamp[x] < s[i].at
          /\ Does(r, "restore") => ~Finds(s[i], x, stamp[x])
    BY DEF Spares
<1>5. ASSUME NEW i \in DOMAIN t
      PROVE  /\ Does(r, "delete") /\ x \in Below(About(r)) /\ t[i].at # 0 => stamp[x] < t[i].at
             /\ Does(r, "restore") => ~Finds(t[i], x, stamp[x])
    <2>1. CASE i \in DOMAIN next /\ t[i] = next[i]
        BY <2>1
    <2>2. ASSUME NEW j \in 2..Len(s), t[i] = s[j]
          PROVE  /\ Does(r, "delete") /\ x \in Below(About(r)) /\ t[i].at # 0 => stamp[x] < t[i].at
                 /\ Does(r, "restore") => ~Finds(t[i], x, stamp[x])
        <3>1. j \in DOMAIN s
            BY <1>1
        <3> HIDE DEF s, t
        <3> QED
            BY <1>4, <2>2, <3>1
    <2> HIDE DEF s, t
    <2> QED
        BY <1>1, <2>1, <2>2
<1> QED
    BY <1>3, <1>5, SparesLater

\* Two deletions do not meet at a settled record, nor does a restore.
LEMMA WorksAlone ==
    ASSUME CascadeShape, MixedInv, NEW r \in Active, ~Does(r, "purge"), NEW q \in Active,
           ~Does(q, "purge"), NEW x \in Settled, x \in Below(About(r)), x \in Below(About(q))
    PROVE  q = r
    BY DEF MixedInv, Settled, Stored

\* What is to be shown of a step for what was deleted on its own before it.
LEMMA OwnKeeps ==
    ASSUME CascadeShape, NEW r \in Requests, Passes(r), NEW x \in own \intersect Settled', OwnInv,
           stamp'[x] = stamp[x],
           x \in Alive => \A y \in Above(x) \intersect Alive : y \in Alive',
           x \in Dead => \A y \in Above(x) \intersect Dead' :
               (y \in Dead /\ stamp'[y] = stamp[y]) \/ stamp[x] < stamp'[y],
           x \in Alive /\ Does(r, "delete") /\ About(r) = x => r \in Active',
           x \in Dead /\ Spares(r, x) /\ r \in Active /\ r \in Active' => Spares(r, x)',
           r \notin Active /\ r \in Active' => Spares(r, x)'
    PROVE  OwnHolds(x)'
<1>1. x \in Settled /\ OwnHolds(x)
    BY SettledBefore DEF OwnInv
<1>2. (x \in Alive' <=> x \in Alive) /\ (x \in Dead' <=> x \in Dead)
    BY <1>1 DEF Settled, Dead, Alive, Stored
<1>3. ASSUME x \in Alive
      PROVE  /\ \E q \in Active' : Does(q, "delete")' /\ About(q)' = x
             /\ Above(x) \subseteq Alive'
    <2>1. PICK q \in Active : Does(q, "delete") /\ About(q) = x
        BY <1>1, <1>3 DEF OwnHolds
    <2>2. Above(x) \subseteq Alive'
        BY <1>1, <1>3 DEF OwnHolds
    <2>3. q \in Active'
        BY <1>3, <2>1 DEF Passes
    <2>4. root'[q] = root[q]
        BY <2>3, <2>1, WhoGoesOn
    <2>5. Does(q, "delete")' /\ About(q)' = x
        BY <2>1, <2>4, SameRequest
    <2> QED
        BY <2>2, <2>3, <2>5
<1>4. ASSUME x \in Dead
      PROVE  /\ \A y \in Above(x) \intersect Dead' : stamp'[x] < stamp'[y]
             /\ \A q \in Active' : Spares(q, x)'
    <2>1. (\A y \in Above(x) \intersect Dead : stamp[x] < stamp[y]) /\ \A q \in Active : Spares(q, x)
        BY <1>1, <1>4 DEF OwnHolds
    <2>2. \A y \in Above(x) \intersect Dead' : stamp'[x] < stamp'[y]
        BY <1>4, <2>1
    <2>3. ASSUME NEW q \in Active'
          PROVE  Spares(q, x)'
        <3>1. CASE q # r
            BY <2>1, <3>1, SparesOthers
        <3>2. CASE q = r
            BY <1>4, <2>1, <3>2
        <3> QED
            BY <3>1, <3>2
    <2> QED
        BY <2>2, <2>3
<1> QED
    BY <1>2, <1>3, <1>4, OwnLater

\* A step that changes no record.
LEMMA OwnQuiet ==
    ASSUME CascadeShape, NEW r \in Requests, Passes(r), OwnInv, UNCHANGED <<stamp, gone>>, own' \subseteq own,
           \A x \in Settled' \intersect Alive :
               Does(r, "delete") /\ About(r) = x => r \in Active',
           \A x \in own \intersect own' : x \in Settled' /\ x \in Dead /\ Spares(r, x)
                                /\ r \in Active /\ r \in Active' => Spares(r, x)',
           r \notin Active /\ r \in Active' => \A x \in own' : Spares(r, x)'
    PROVE  OwnInv'
<1>1. Alive' = Alive /\ Dead' = Dead
    BY DEF Dead, Alive, Stored
<1>2. ASSUME NEW x \in own' \intersect Settled'
      PROVE  OwnHolds(x)'
    BY <1>1, <1>2, OwnKeeps
<1> QED
    BY <1>2 DEF OwnInv

LEMMA DeleteStartsLater ==
    ASSUME NEW x \in Records, NEW t \in Nat
    PROVE  /\ \A i \in DOMAIN DeleteCalls(x, t) : DeleteCalls(x, t)[i].at \in {0, t}
           /\ DeleteCalls(x, t) # <<>>
<1>1. \A do, on, at : Call(do, on, at).at = at
    BY CallFields
<1>2. CASE x \in Slides
    <2> DEFINE a == Call("save", {x}, t)
    <2>1. DeleteCalls(x, t) = <<a>>
        BY <1>2, DeleteCallsAre
    <2>2. a.at = t
        BY <1>1
    <2> HIDE DEF a
    <2> QED
        BY <2>1, <2>2
<1>3. CASE x \in Lectures
    <2> DEFINE a == Call("stamp", SlidesOf({x}), t)
               b == Call("save", {x}, t)
    <2>1. DeleteCalls(x, t) = <<a, b>>
        BY <1>3, DeleteCallsAre
    <2>2. a.at = t /\ b.at = t
        BY <1>1
    <2> HIDE DEF a, b
    <2> QED
        BY <2>1, <2>2
<1>4. CASE x \in Projects
    <2> DEFINE a == Call("stamp", SlidesOf(LecturesIn(x) \intersect Alive), t)
               b == Call("stamp", LecturesIn(x), t)
               c == Call("stamp", {x}, t)
    <2>1. DeleteCalls(x, t) = <<a, b, c>>
        BY <1>4, DeleteCallsAre
    <2>2. a.at = t /\ b.at = t /\ c.at = t
        BY <1>1
    <2> HIDE DEF a, b, c
    <2> QED
        BY <2>1, <2>2
<1>5. CASE x \in Accounts
    <2> DEFINE a == Call("stamp", SlidesOf(OwnedBy(x, Lectures) \intersect Alive), t)
               b == Call("stamp", OwnedBy(x, Lectures), t)
               c == Call("projects", {x}, 0)
               d == Call("stamp", {x}, t)
    <2>1. DeleteCalls(x, t) = <<a, b, c, d>>
        BY <1>5, DeleteCallsAre
    <2>2. a.at = t /\ b.at = t /\ c.at = 0 /\ d.at = t
        BY <1>1
    <2> HIDE DEF a, b, c, d
    <2> QED
        BY <2>1, <2>2
<1> QED
    BY <1>2, <1>3, <1>4, <1>5, KindsAreApart

LEMMA NotOverYet ==
    ASSUME CascadeShape, NEW r \in Active, NEW next \in Seq(CallRecords), Then(r, next), next # <<>>
    PROVE  r \in Active'
<1>1. Len(next) \in Nat \ {0} /\ Len(calls[r]) \in Nat \ {0}
    BY LenProperties, EmptySeq, RequestIs
<1>2. Len(calls'[r]) = Len(next) + Len(calls[r]) - 1
    BY StackChanges
<1>3. Len(<<>>) = 0
    BY EmptyCalls
<1>4. calls'[r] # <<>>
    BY <1>1, <1>2, <1>3
<1> QED
    BY <1>4, ThenIs

LEMMA OwnStarts ==
    ASSUME CascadeShape, NEW r \in Requests, Passes(r), OwnInv, DeleteStarts(r)
    PROVE  OwnInv'
<1> DEFINE z == Target(r)
           t == now'
           next == DeleteCalls(z, t)
<1>1. /\ r \in Active /\ Does(r, "delete") /\ t = now + 1 /\ t \in 1..MaxTime /\ z \in Records
      /\ next \in Seq(CallRecords) /\ Then(r, next)
    BY DeleteStartsWith
<1>2. UNCHANGED <<stamp, gone, own>>
    BY DEF DeleteStarts, CountsUnchanged
<1>3. t \in Nat /\ now \in Nat /\ ~Does(r, "restore")
    BY SMTT(20), <1>1, RequestIs, CascadeAssumption DEF CascadeShape
<1>4. (\A i \in DOMAIN next : next[i].at \in {0, t}) /\ next # <<>>
    BY <1>1, <1>3, DeleteStartsLater
<1>5. \A x \in Records : stamp[x] <= now /\ stamp[x] \in Nat
    BY CascadeAssumption DEF CascadeShape
<1>6. \A x \in Records : \A i \in DOMAIN next : next[i].at # 0 => stamp[x] < next[i].at
    BY <1>1, <1>3, <1>4, <1>5
<1> HIDE DEF next
<1>7. r \in Active'
    BY <1>1, <1>4, NotOverYet
<1>8. \A x \in Records : Spares(r, x) => Spares(r, x)'
    BY <1>1, <1>2, <1>3, <1>6, <1>7, SparesGoesOn
<1> QED
    BY <1>1, <1>2, <1>7, <1>8, OwnQuiet DEF Dead

LEMMA OwnProjects ==
    ASSUME CascadeShape, NEW r \in Requests, Passes(r), OwnInv, DeletionInv, DeleteProjects(r)
    PROVE  OwnInv'
<1> DEFINE z == Target(r)
           ps == OwnedBy(z, Projects) \intersect Alive
           next == Each("delete", ps, 0)
<1>1. /\ r \in Active /\ Does(r, "delete")
      /\ ps \subseteq Records /\ next \in Seq(CallRecords) /\ Then(r, next)
    BY DeleteProjectsWith
<1>2. UNCHANGED <<stamp, gone, own>>
    BY DEF DeleteProjects, RecordsUnchanged, CountsUnchanged
<1>3. ~Does(r, "restore") /\ r \in Active'
    BY <1>1, RequestIs, OrderProjects DEF DeletionInv
<1> HIDE DEF ps
<1>4. ps \in SUBSET Records
    BY <1>1
<1>5. \A i \in DOMAIN next : \E x \in ps : next[i] = Call("delete", {x}, 0)
    BY <1>4, EachIs
<1>6. \A x : Call("delete", {x}, 0).at = 0
    BY CallFields
<1> HIDE DEF next
<1>7. \A i \in DOMAIN next : next[i].at = 0
    BY <1>5, <1>6
<1>8. \A x \in Records : Spares(r, x) => Spares(r, x)'
    BY <1>1, <1>2, <1>3, <1>7, SparesGoesOn
<1> QED
    BY <1>1, <1>2, <1>3, <1>8, OwnQuiet DEF Dead

LEMMA OwnSkips ==
    ASSUME CascadeShape, NEW r \in Requests, Passes(r), OwnInv, DeletionInv, Skips(r)
    PROVE  OwnInv'
<1>1. /\ r \in Active /\ Does(r, "delete") /\ Then(r, <<>>) /\ UNCHANGED <<stamp, gone, own>>
      /\ Of(r).on \intersect Alive = {}
    BY DEF Skips
<1>2. DeletionOrder(r)
    BY <1>1 DEF DeletionInv
<1>3. ASSUME About(r) \in Alive
      PROVE  r \in Active'
    <2>1. Len(calls[r]) # 1
        BY <1>1, <1>2, <1>3, OrderedEnds
    <2>2. Len(calls[r]) \in Nat \ {0} /\ Len(calls'[r]) = Len(<<>>) + Len(calls[r]) - 1
        BY <1>1, EmptyCalls, StackChanges
    <2>3. Len(<<>>) = 0
        BY EmptyCalls
    <2>4. Len(calls'[r]) # Len(<<>>)
        <3> DEFINE m == Len(calls[r])
                   n == Len(calls'[r])
                   e == Len(<<>>)
        <3>1. m # 1 /\ m \in Nat \ {0} /\ n = e + m - 1 /\ e = 0
            BY <2>1, <2>2, <2>3
        <3> HIDE DEF m, n, e
        <3>2. n # e
            BY <3>1
        <3> QED
            BY <3>2 DEF n, e
    <2>5. calls'[r] # <<>>
        BY <2>4
    <2> QED
        BY <1>1, <2>5, EmptyCalls, ThenIs
<1>4. \A i \in DOMAIN <<>> : FALSE
    BY EmptyCalls
<1>5. r \in Active' => \A x \in Records : Spares(r, x) => Spares(r, x)'
    BY <1>1, <1>4, EmptyCalls, SparesGoesOn
<1> QED
    BY <1>1, <1>3, <1>5, OwnQuiet DEF Dead

LEMMA OwnOther ==
    ASSUME CascadeShape, NEW r \in Requests, Passes(r), OwnInv, UNCHANGED <<stamp, gone>>, own' \subseteq own,
           ~Does(r, "delete"), r \in Active' => ~Does(r, "delete")' /\ ~Does(r, "restore")'
    PROVE  OwnInv'
<1>1. r \in Active' => \A x : Spares(r, x)'
    BY SparesLater
<1> QED
    BY <1>1, OwnQuiet

\* What a restore of z finds lies below it and was not stamped before it.
LEMMA RestoreCallsFound ==
    ASSUME CascadeShape, NEW z \in Records \ Slides, NEW j \in DOMAIN RestoreCalls(z, stamp[z]), NEW x,
           Finds(RestoreCalls(z, stamp[z])[j], x, stamp[x])
    PROVE  x \in Below(z) /\ x # z /\ stamp[z] <= stamp[x]
<1> DEFINE t == stamp[z]
           n == RestoreCalls(z, t)
<1>1. t \in 0..MaxTime /\ t \in Nat
    BY CascadeAssumption DEF CascadeShape
<1>2. ASSUME NEW xs \in SUBSET Records, NEW i \in DOMAIN Each("restore", WithRoot(xs, t), 0),
             Finds(Each("restore", WithRoot(xs, t), 0)[i], x, stamp[x])
      PROVE  x \in xs /\ t <= stamp[x]
    <2> DEFINE ys == WithRoot(xs, t)
    <2>1. ys \in SUBSET Records
        BY WithRootIs
    <2>2. \A w \in ys : w \in xs /\ stamp[w] >= t
        BY WithRootIs
    <2> HIDE DEF ys
    <2>3. \E w \in ys : Each("restore", ys, 0)[i] = Call("restore", {w}, 0)
        <3>1. \A h \in DOMAIN Each("restore", ys, 0) :
                  \E w \in ys : Each("restore", ys, 0)[h] = Call("restore", {w}, 0)
            BY <2>1, EachIs
        <3> QED
            BY <1>2, <3>1 DEF ys
    <2>4. PICK w \in ys : Each("restore", ys, 0)[i] = Call("restore", {w}, 0)
        BY <2>3
    <2>5. Call("restore", {w}, 0).do = "restore" /\ Call("restore", {w}, 0).on = {w}
        BY CallFields
    <2>6. x = w
        BY <1>2, <2>4, <2>5 DEF Finds, ys
    <2>7. stamp[w] \in Nat
        BY <2>1, CascadeAssumption DEF CascadeShape
    <2> QED
        BY <1>1, <2>2, <2>6, <2>7
<1>3. CASE z \in Lectures
    <2> DEFINE c == Call("revive", SlidesOf({z}), t)
    <2>1. n = <<c>>
        BY <1>3, RestoreCallsAre
    <2>2. c.do = "revive" /\ c.on = SlidesOf({z}) /\ c.at = t
        BY CallFields
    <2> HIDE DEF c
    <2>3. \A i \in DOMAIN <<c>> : <<c>>[i] = c
        OBVIOUS
    <2>4. Finds(c, x, stamp[x])
        BY <2>1, <2>3
    <2>5. x \in SlidesOf({z}) /\ t <= stamp[x]
        BY <2>2, <2>4 DEF Finds
    <2>6. x \in Slides
        BY <2>5 DEF SlidesOf
    <2> QED
        BY <1>3, <2>5, <2>6, BelowParts, KindsAreApart
<1>4. CASE z \in Projects
    <2>1. n = Each("restore", WithRoot(LecturesIn(z), t), 0)
        BY <1>4, RestoreCallsAre
    <2>2. LecturesIn(z) \in SUBSET Records /\ LecturesIn(z) \subseteq Lectures
        BY KindsAreApart DEF LecturesIn
    <2>3. x \in LecturesIn(z) /\ t <= stamp[x]
        BY <1>2, <2>1, <2>2
    <2> QED
        BY <1>4, <2>2, <2>3, BelowParts, KindsAreApart
<1>5. CASE z \in Accounts
    <2> DEFINE xs == WithRoot(OwnedBy(z, Lectures), t)
               e == Each("restore", xs, 0)
               c == Call("restoreProjects", {z}, t)
    <2>1. n = Append(e, c)
        BY <1>5, RestoreCallsAre
    <2>2. xs \in SUBSET Records /\ OwnedBy(z, Lectures) \in SUBSET Records
          /\ OwnedBy(z, Lectures) \subseteq Lectures
        BY WithRootIs, KindsAreApart DEF OwnedBy
    <2>3. c.do = "restoreProjects" /\ c.on = {z} /\ c.at = t
        BY CallFields
    <2>4. e \in Seq(CallRecords) /\ c \in CallRecords
        <3>1. 0 \in 0..MaxTime + 1 /\ "restore" \in RestoreDo /\ "restoreProjects" \in RestoreDo
              /\ t \in 0..MaxTime + 1
            BY CascadeAssumption DEF RestoreDo, CascadeShape
        <3>2. \A w \in Records : Call("restore", {w}, 0) \in CallRecords
            BY <3>1, CallTyped
        <3>3. c \in CallRecords
            BY <1>5, <3>1, CallTyped
        <3> HIDE DEF xs, c
        <3> QED
            BY <2>2, <3>2, <3>3, EachIs
    <2>5. ASSUME NEW i \in DOMAIN e, Finds(e[i], x, stamp[x])
          PROVE  x \in Below(z) /\ x # z /\ t <= stamp[x]
        <3>1. x \in OwnedBy(z, Lectures) /\ t <= stamp[x]
            BY <1>2, <2>2, <2>5
        <3> QED
            BY <1>5, <2>2, <3>1, BelowParts, KindsAreApart
    <2> HIDE DEF n, xs, c, e, t
    <2>6. ASSUME Finds(c, x, stamp[x])
          PROVE  x \in Below(z) /\ x # z /\ t <= stamp[x]
        <3>1. x \in Projects /\ Owner[x] = z /\ t <= stamp[x]
            BY <2>3, <2>6 DEF Finds
        <3>2. x \in OwnedBy(z, Projects)
            BY <3>1 DEF OwnedBy
        <3> QED
            BY <1>5, <3>1, <3>2, BelowParts, KindsAreApart
    <2>7. j \in DOMAIN n /\ Finds(n[j], x, stamp[x])
        BY DEF n, t
    <2>8. \/ j \in DOMAIN e /\ n[j] = e[j]
          \/ n[j] = c
        BY <2>1, <2>4, <2>7, AppendIs
    <2> QED
        BY <2>5, <2>6, <2>7, <2>8 DEF t
<1> QED
    BY <1>3, <1>4, <1>5, KindsAreApart

LEMMA OwnRestoreStarts ==
    ASSUME CascadeShape, MixedInv, DeadInv, NEW r \in Requests, Passes(r), OwnInv, RestoreStarts(r)
    PROVE  OwnInv'
<1> DEFINE z == Target(r)
           t == stamp[z]
           inner == RestoreCalls(z, t)
           last == Call("revive", {z}, 0)
           next == Append(inner, last)
<1>1. /\ r \in Active /\ Does(r, "restore")
      /\ z \in Records \ Slides /\ Of(r).on = {z} /\ Of(r).do = "restore"
      /\ \/ z \in Alive \union gone /\ Then(r, <<>>)
         \/ /\ z \notin Alive \union gone
            /\ inner \in Seq(CallRecords) /\ last \in CallRecords
            /\ next \in Seq(CallRecords) /\ Then(r, next)
    BY RestoreStartsWith
<1>2. UNCHANGED <<stamp, gone, own>>
    BY DEF RestoreStarts, RecordsUnchanged, CountsUnchanged
<1>3. ~Does(r, "delete") /\ 1 \in DOMAIN calls[r] /\ Of(r) = calls[r][1]
    BY <1>1, RequestIs, HeadIs
<1>4. \A x : x # z \/ ~Spares(r, x)
    BY <1>1, <1>3 DEF Spares, Finds
<1>5. CASE Then(r, <<>>)
    <2>1. \A i \in DOMAIN <<>> : FALSE
        BY EmptyCalls
    <2>2. r \in Active' => \A x \in Records : Spares(r, x) => Spares(r, x)'
        BY <1>1, <1>2, <1>5, <2>1, EmptyCalls, SparesGoesOn
    <2> QED
        BY <1>1, <1>2, <1>3, <2>2, OwnQuiet DEF Dead
<1>6. CASE z \notin Alive \union gone /\ inner \in Seq(CallRecords) /\ last \in CallRecords
           /\ next \in Seq(CallRecords) /\ Then(r, next)
    <2>1. \A i \in DOMAIN next :
                \/ i \in DOMAIN inner /\ next[i] = inner[i]
                \/ next[i] = last
        <3> HIDE DEF inner, last
        <3> QED
            BY <1>6, AppendIs
    <2>2. last.do = "revive" /\ last.on = {z}
        BY CallFields
    <2>3. z \in Dead
        BY <1>1, <1>6 DEF Dead
    <2>4. \A j \in DOMAIN inner : \A x : Finds(inner[j], x, stamp[x]) =>
              x \in Below(z) /\ x # z /\ t <= stamp[x]
        BY <1>1, RestoreCallsFound
    <2> HIDE DEF inner, last
    <2>5. ASSUME NEW x \in own \intersect Settled, x \in Dead, x # z, NEW i \in DOMAIN next
          PROVE  ~Finds(next[i], x, stamp[x])
        <3>1. \A y \in Above(x) \intersect Dead : stamp[x] < stamp[y]
            BY <2>5 DEF OwnInv, OwnHolds
        <3>2. x \in Records /\ stamp[x] \in Nat /\ stamp[z] \in Nat
            BY <1>1, <2>5, CascadeAssumption DEF Dead, CascadeShape
        <3>3. z \in Above(x) => stamp[x] < stamp[z]
            BY <2>3, <3>1
        <3>4. ~(x \in Below(z) /\ x # z /\ t <= stamp[x])
            BY <1>1, <3>2, <3>3, AboveIs
        <3>5. ~Finds(last, x, stamp[x])
            BY <2>2, <2>5 DEF Finds
        <3> HIDE DEF next, z, t
        <3> QED
            BY <2>1, <2>4, <2>5, <3>4, <3>5
    <2>6. Settled' \subseteq Settled
        BY SettledBefore
    <2> HIDE DEF next, z
    <2>7. \A x \in own : x \in Settled' /\ x \in Dead /\ Spares(r, x) /\ r \in Active' => Spares(r, x)'
        BY <1>1, <1>2, <1>3, <1>4, <1>6, <2>5, <2>6, SparesGoesOn
    <2> QED
        BY <1>1, <1>2, <1>3, <2>7, OwnQuiet
<1> QED
    BY <1>1, <1>5, <1>6

LEMMA OwnRestoreProjects ==
    ASSUME CascadeShape, NEW r \in Requests, Passes(r), OwnInv, RestoreProjects(r)
    PROVE  OwnInv'
<1> DEFINE z == Target(r)
           ps == WithRoot(OwnedBy(z, Projects), Of(r).at)
           next == Each("restore", ps, 0)
<1>1. /\ r \in Active /\ Does(r, "restore")
      /\ Of(r).on = {z} /\ Of(r).do = "restoreProjects" /\ Of(r).at \in Nat
      /\ ps \subseteq Records /\ next \in Seq(CallRecords) /\ Then(r, next)
    BY RestoreProjectsWith
<1>2. UNCHANGED <<stamp, gone, own>>
    BY DEF RestoreProjects, RecordsUnchanged, CountsUnchanged
<1>3. ~Does(r, "delete") /\ 1 \in DOMAIN calls[r] /\ Of(r) = calls[r][1]
    BY <1>1, RequestIs, HeadIs
<1>4. \A x \in ps : x \in Projects /\ Owner[x] = z /\ stamp[x] >= Of(r).at /\ x \in Records
    BY <1>1, WithRootIs DEF OwnedBy
<1>5. \A x \in ps : ~Spares(r, x)
    <2> SUFFICES ASSUME NEW x \in ps, Spares(r, x)
                 PROVE  FALSE
        OBVIOUS
    <2>1. stamp[x] \in Nat
        BY <1>4, CascadeAssumption DEF CascadeShape
    <2>2. Finds(Of(r), x, stamp[x])
        BY <1>1, <1>4, <2>1 DEF Finds
    <2> QED
        BY <1>1, <1>3, <2>2 DEF Spares
<1> HIDE DEF ps, z
<1>6. ps \in SUBSET Records
    BY <1>1
<1>7. \A i \in DOMAIN next : \E x \in ps : next[i] = Call("restore", {x}, 0)
    BY <1>6, EachIs
<1>8. \A x : Call("restore", {x}, 0).do = "restore" /\ Call("restore", {x}, 0).on = {x}
    BY CallFields
<1> HIDE DEF next
<1>9. \A i \in DOMAIN next : \A x : x \notin ps => ~Finds(next[i], x, stamp[x])
    BY ZenonT(40), <1>7, <1>8 DEF Finds
<1>10. \A x \in Records : r \in Active' /\ Spares(r, x) => Spares(r, x)'
    BY <1>1, <1>2, <1>3, <1>5, <1>9, SparesGoesOn
<1> QED
    BY <1>1, <1>2, <1>3, <1>10, OwnQuiet DEF Dead

LEMMA OwnRevivesNone ==
    ASSUME CascadeShape, NEW r \in Requests, Passes(r), OwnInv, RevivesNone(r)
    PROVE  OwnInv'
<1>1. /\ r \in Active /\ Does(r, "restore") /\ Then(r, <<>>) /\ UNCHANGED <<stamp, gone, own>>
    BY DEF RevivesNone
<1>2. ~Does(r, "delete")
    BY <1>1, RequestIs
<1>3. \A i \in DOMAIN <<>> : FALSE
    BY EmptyCalls
<1>4. \A x \in Records : r \in Active' /\ Spares(r, x) => Spares(r, x)'
    BY <1>1, <1>3, EmptyCalls, SparesGoesOn
<1> QED
    BY <1>1, <1>2, <1>4, OwnQuiet DEF Dead

LEMMA OwnMarks ==
    ASSUME CascadeShape, MixedInv, DeadInv, NEW r \in Requests, Passes(r), OwnInv, DeletionInv,
           NEW x0, NEW next, Marks(r, x0, next)
    PROVE  OwnInv'
<1> DEFINE k == About(r)
<1>1. /\ r \in Active /\ Does(r, "delete") /\ k \in Records /\ x0 \in Records
      /\ next \in Seq(CallRecords) /\ Then(r, next)
      /\ Of(r).do \in {"stamp", "save"} /\ Of(r).at \in 1..MaxTime /\ x0 \in Of(r).on
      /\ x0 \in Below(k)
      /\ x0 \in Settled => x0 \in Alive
      /\ gone' = gone /\ mixed' = mixed /\ own' = own /\ stamp'[x0] = Of(r).at
      /\ 1 \in DOMAIN calls[r] /\ Of(r) = calls[r][1] /\ ~Does(r, "restore") /\ ~Does(r, "purge")
    BY HeadIs, RequestIs DEF Marks
<1>2. \A y \in Records : y # x0 => stamp'[y] = stamp[y]
    BY DEF Marks
<1>3. \A y : y # x0 => (y \in Alive' <=> y \in Alive) /\ (y \in Dead' <=> y \in Dead)
    BY <1>1, <1>2, AliveIs DEF Dead, Alive, Stored
<1>4. x0 \notin Alive' /\ x0 \in Dead'
    <2>1. stamp'[x0] # Live
        BY <1>1, CascadeAssumption DEF Live
    <2> QED
        BY <1>1, <2>1 DEF Dead, Alive
<1>5. k = x0 => r \notin Active'
    <2>1. DeletionOrder(r)
        BY <1>1 DEF DeletionInv
    <2> QED
        BY <1>1, <2>1, OrderMarks, OrderedEnds
<1>6. k # x0 => r \in Active'
    <2> SUFFICES ASSUME k # x0, r \notin Active'
                 PROVE  FALSE
        OBVIOUS
    <2>1. DeletionOrder(r)
        BY <1>1 DEF DeletionInv
    <2>2. Len(calls'[r]) = Len(next) + Len(calls[r]) - 1 /\ Len(next) \in Nat
          /\ Len(calls[r]) \in Nat \ {0}
        BY <1>1, StackChanges
    <2>3. calls'[r] = <<>>
        BY <1>1, <2>2, ThenIs
    <2>4. Len(calls'[r]) = 0
        BY <2>3, EmptyCalls
    <2>5. Len(calls[r]) = 1
        <3> DEFINE m == Len(calls[r])
                   n == Len(next)
        <3>1. n + m - 1 = 0 /\ n \in Nat /\ m \in Nat \ {0}
            BY <2>2, <2>4
        <3> HIDE DEF m, n
        <3>2. m = 1
            BY <3>1
        <3> QED
            BY <3>2 DEF m
    <2>6. Of(r).on = {k}
        BY <1>1, <2>1, <2>5, OrderedEnds
    <2> QED
        BY <1>1, <2>6
<1>7. Settled' = Settled
    BY <1>1 DEF Settled, Stored
<1> HIDE DEF k
<1>8. ASSUME x0 \in own, x0 \in Settled
      PROVE  OwnHolds(x0)'
    <2>1. x0 \in Alive /\ OwnHolds(x0)
        BY <1>1, <1>8 DEF OwnInv
    <2>2. PICK q \in Active : Does(q, "delete") /\ About(q) = x0
        BY <2>1 DEF OwnHolds
    <2>3. Above(x0) \subseteq Alive
        BY <2>1 DEF OwnHolds
    <2>4. q = r
        BY <1>1, <1>8, <2>2, RequestIs, BelowItself, WorksAlone DEF k
    <2>5. r \notin Active'
        BY <1>5, <2>2, <2>4 DEF k
    <2>6. Above(x0) \intersect Dead' = {}
        <3>1. \A y \in Above(x0) : y # x0 /\ y \in Alive
            BY <2>3, AboveIs
        <3> QED
            BY <1>3, <3>1 DEF Dead
    <2>7. ASSUME NEW p \in Active'
          PROVE  Spares(p, x0)'
        <3>1. p # r /\ p \in Active /\ root'[p] = root[p]
            BY <2>5, <2>7, WhoGoesOn
        <3>2. About(p)' = About(p) /\ \A w : Does(p, w)' <=> Does(p, w)
            BY <3>1, SameRequest
        <3>3. calls'[p] = calls[p]
            BY <3>1 DEF Passes, Active
        <3>4. ~(~Does(p, "purge") /\ x0 \in Below(About(p)))
            BY <1>1, <1>8, <3>1, WorksAlone DEF k
        <3>5. Does(p, "delete") \/ Does(p, "restore") => ~Does(p, "purge")
            BY <3>1, RequestIs
        <3>6. ~(Does(p, "delete") /\ x0 \in Below(About(p)))
            BY <3>4, <3>5
        <3>7. \A i \in DOMAIN calls[p] : Does(p, "restore") => ~Finds(calls[p][i], x0, stamp'[x0])
            BY <3>1, <3>4, <3>5, FindsBelow
        <3> QED
            BY <3>2, <3>3, <3>6, <3>7, SparesLater
    <2> QED
        BY <1>4, <2>6, <2>7, OwnLater
<1>9. ASSUME NEW x \in own \intersect Settled, x # x0
      PROVE  OwnHolds(x)'
    <2>1. stamp'[x] = stamp[x] /\ x \in Records
        BY <1>2, <1>9 DEF Settled, Stored
    <2>2. x0 \in Above(x) => x \in Below(k) /\ x \in Below(x0)
        <3>1. x0 \in Above(x) => x \in Below(x0)
            BY AboveIs
        <3> QED
            BY <1>1, <3>1, BelowIsTransitive
    <2>3. OwnHolds(x)
        BY <1>9 DEF OwnInv
    <2>4. x \in Alive => x0 \notin Above(x)
        <3> SUFFICES ASSUME x \in Alive, x0 \in Above(x)
                     PROVE  FALSE
            OBVIOUS
        <3>1. PICK q \in Active : Does(q, "delete") /\ About(q) = x
            BY <2>3 DEF OwnHolds
        <3>2. q = r
            BY <1>1, <1>9, <2>1, <2>2, <3>1, RequestIs, BelowItself, WorksAlone DEF k
        <3>3. x = k
            BY <3>1, <3>2 DEF k
        <3> QED
            BY <1>1, <1>9, <2>1, <2>2, <3>3, BelowIsAntisymmetric
    <2>5. x \in Dead /\ x0 \in Above(x) => stamp[x] < stamp'[x0]
        <3> SUFFICES ASSUME x \in Dead, x0 \in Above(x)
                     PROVE  stamp[x] < stamp'[x0]
            OBVIOUS
        <3>1. Spares(r, x)
            BY <1>1, <2>3 DEF OwnHolds
        <3>2. Of(r).at # 0
            BY <1>1
        <3> QED
            BY <1>1, <2>2, <3>1, <3>2 DEF Spares, k
    <2>6. \A i \in DOMAIN next : next[i].at = Of(r).at
        BY DEF Marks
    <2>7. r \in Active' /\ Spares(r, x) => Spares(r, x)'
        <3> SUFFICES ASSUME r \in Active', Spares(r, x)
                     PROVE  Spares(r, x)'
            OBVIOUS
        <3>1. x \in Below(About(r)) /\ Of(r).at # 0 => stamp[x] < Of(r).at
            BY <1>1 DEF Spares
        <3> QED
            BY <1>1, <2>1, <2>6, <3>1, SparesGoesOn
    <2>8. x \in Alive => \A y \in Above(x) \intersect Alive : y \in Alive'
        BY <1>3, <2>4
    <2>9. x \in Dead => \A y \in Above(x) \intersect Dead' :
               (y \in Dead /\ stamp'[y] = stamp[y]) \/ stamp[x] < stamp'[y]
        <3> SUFFICES ASSUME x \in Dead, NEW y \in Above(x) \intersect Dead', y # x0
                     PROVE  y \in Dead /\ stamp'[y] = stamp[y]
            BY <2>5
        <3>1. y \in Records
            BY AboveIs
        <3> QED
            BY <1>2, <1>3, <3>1
    <2>10. About(r) = x => r \in Active'
        BY <1>6, <1>9 DEF k
    <2> QED
        BY <1>1, <1>7, <1>9, <2>1, <2>7, <2>8, <2>9, <2>10, OwnKeeps
<1> QED
    BY <1>1, <1>7, <1>8, <1>9 DEF OwnInv

LEMMA OwnRevives ==
    ASSUME CascadeShape, NEW r \in Requests, Passes(r), OwnInv,
           NEW x0, NEW next, Revives(r, x0, next)
    PROVE  OwnInv'
<1>1. /\ r \in Active /\ Does(r, "restore") /\ x0 \in Records
      /\ next \in Seq(CallRecords) /\ Then(r, next)
      /\ Of(r).do = "revive" /\ x0 \in Of(r).on /\ x0 \in Dead /\ Of(r).at <= stamp[x0]
      /\ gone' = gone /\ mixed' = mixed /\ own' = own /\ stamp'[x0] = Live
      /\ 1 \in DOMAIN calls[r] /\ Of(r) = calls[r][1] /\ ~Does(r, "delete") /\ ~Does(r, "purge")
    BY HeadIs, RequestIs DEF Revives
<1>2. \A y \in Records : y # x0 => stamp'[y] = stamp[y]
    BY DEF Revives
<1>3. \A y : y # x0 => (y \in Alive' <=> y \in Alive) /\ (y \in Dead' <=> y \in Dead)
    BY <1>1, <1>2, AliveIs DEF Dead, Alive, Stored
<1>4. x0 \in Alive' /\ x0 \notin Dead'
    BY <1>1 DEF Revives, Dead, Alive, Stored
<1>5. Settled' = Settled
    BY <1>1 DEF Settled, Stored
<1>6. x0 \notin own \intersect Settled
    <2> SUFFICES ASSUME x0 \in own \intersect Settled
                 PROVE  FALSE
        OBVIOUS
    <2>1. Spares(r, x0)
        BY <1>1 DEF OwnInv, OwnHolds
    <2>2. Finds(Of(r), x0, stamp[x0])
        BY <1>1 DEF Finds
    <2> QED
        BY <1>1, <2>1, <2>2 DEF Spares
<1>7. \A i \in DOMAIN next : next[i].do = "revive" /\ next[i].at = Of(r).at
                              /\ next[i].on \subseteq Of(r).on \ {x0}
    BY DEF Revives
<1>8. ASSUME NEW x \in own \intersect Settled
      PROVE  OwnHolds(x)'
    <2>1. x # x0 /\ x \in Records /\ stamp'[x] = stamp[x]
        BY <1>2, <1>6, <1>8 DEF Settled, Stored
    <2>2. \A y \in Above(x) \intersect Dead' : y \in Dead /\ stamp'[y] = stamp[y]
        BY <1>2, <1>3, <1>4 DEF Dead
    <2>3. r \in Active' /\ Spares(r, x) => Spares(r, x)'
        <3> SUFFICES ASSUME r \in Active', Spares(r, x)
                     PROVE  Spares(r, x)'
            OBVIOUS
        <3>1. ~Finds(Of(r), x, stamp[x])
            BY <1>1 DEF Spares
        <3>2. \A i \in DOMAIN next : ~Finds(next[i], x, stamp[x])
            BY <1>1, <1>7, <3>1 DEF Finds
        <3> QED
            BY <1>1, <2>1, <3>2, SparesGoesOn
    <2>4. \A y \in Above(x) \intersect Alive : y \in Alive'
        BY <1>3, <1>4
    <2> QED
        BY <1>1, <1>5, <1>8, <2>1, <2>2, <2>3, <2>4, OwnKeeps
<1> QED
    BY <1>1, <1>5, <1>8 DEF OwnInv

LEMMA OwnDrops ==
    ASSUME CascadeShape, DeadInv', NEW r \in Requests, OwnInv, Drop(r)
    PROVE  OwnInv'
<1>1. Passes(r) /\ r \in Active /\ Does(r, "purge") /\ ~Does(r, "delete") /\ ~Does(r, "restore")
    BY DropPasses, DropWith, RequestIs
<1>2. /\ gone' = gone \union Of(r).on /\ own' = own \ Of(r).on
      /\ stamp' = [x \in Records |-> IF x \in Of(r).on THEN Live ELSE stamp[x]]
    BY DEF Drop
<1>3. \A x \in Records \ gone' : stamp'[x] = stamp[x]
    BY <1>2
<1>4. \A x \in Records \ gone' : (x \in Alive' <=> x \in Alive) /\ (x \in Dead' <=> x \in Dead)
    BY <1>2, <1>3 DEF Dead, Alive, Stored
<1>5. ASSUME NEW x \in own' \intersect Settled'
      PROVE  OwnHolds(x)'
    <2>1. x \in own \intersect Settled' /\ x \in Records \ gone'
        BY <1>2, <1>5 DEF Settled, Stored
    <2>2. \A y \in Above(x) : y \in Records \ gone'
        <3>1. \A y \in gone' : Below(y) \subseteq gone'
            <4>1. \A y \in gone' : Below(y)' \subseteq gone'
                BY DEF DeadInv
            <4> QED
                BY <4>1 DEF Below, OwnedBy, LecturesIn, SlidesOf
        <3> QED
            BY <2>1, <3>1, AboveIs
    <2>3. \A y \in Above(x) \intersect Dead' : y \in Dead /\ stamp'[y] = stamp[y]
        BY <1>3, <1>4, <2>2
    <2>4. \A y \in Above(x) \intersect Alive : y \in Alive'
        BY <1>4, <2>2
    <2>5. r \in Active' => Spares(r, x)'
        <3> SUFFICES ASSUME r \in Active'
                     PROVE  Spares(r, x)'
            OBVIOUS
        <3>1. root'[r] = root[r]
            BY <1>1 DEF Passes
        <3>2. ~Does(r, "delete")' /\ ~Does(r, "restore")'
            BY <1>1, <3>1, SameRequest
        <3> QED
            BY <3>2, SparesLater
    <2> QED
        BY <1>1, <1>3, <2>1, <2>3, <2>4, <2>5, OwnKeeps
<1> QED
    BY <1>5 DEF OwnInv

LEMMA OwnDeletes ==
    ASSUME CascadeShape, NEW r \in Requests, OwnInv, NEW z \in Records, Delete(r, z)
    PROVE  OwnInv'
<1> DEFINE first == Call("delete", {z}, 0)
<1>1. BeginsAs(r, "delete", z, first) /\ first.at = 0
    BY DeleteBegins
<1> HIDE DEF first
<1>2. Passes(r)
    BY <1>1, BeginPasses
<1>3. /\ calls'[r] = <<first>> /\ UNCHANGED <<stamp, gone>> /\ r \notin Active /\ r \in Active'
      /\ Does(r, "delete")' /\ ~Does(r, "restore")' /\ About(r)' = z
    BY <1>1, BeginIs
<1>4. z \in Alive /\ own' = IF Above(z) \subseteq Alive THEN own \union {z} ELSE own
    BY DEF Delete
<1>5. \A i \in DOMAIN <<first>> : <<first>>[i].at = 0
    BY <1>1
<1>6. \A x : Spares(r, x)'
    BY <1>3, <1>5, SparesLater
<1>7. Alive' = Alive /\ Dead' = Dead
    BY <1>3 DEF Dead, Alive, Stored
<1>8. ASSUME NEW x \in own \intersect Settled'
      PROVE  OwnHolds(x)'
    <2>1. ~Does(r, "delete")
        BY <1>3 DEF Does
    <2> QED
        BY <1>2, <1>3, <1>6, <1>7, <1>8, <2>1, OwnKeeps
<1>9. Above(z) \subseteq Alive => OwnHolds(z)'
    BY <1>3, <1>4, <1>7, OwnLater DEF Dead
<1> QED
    BY <1>4, <1>8, <1>9 DEF OwnInv

LEMMA OwnRestores ==
    ASSUME CascadeShape, NEW r \in Requests, OwnInv, NEW z \in Records, Restore(r, z)
    PROVE  OwnInv'
<1> DEFINE first == Call("restore", {z}, 0)
<1>1. BeginsAs(r, "restore", z, first) /\ first.do = "restore" /\ first.on = {z}
    BY RestoreBegins
<1> HIDE DEF first
<1>2. Passes(r)
    BY <1>1, BeginPasses
<1>3. /\ calls'[r] = <<first>> /\ UNCHANGED <<stamp, gone>> /\ r \notin Active /\ r \in Active'
      /\ ~Does(r, "delete")'
    BY <1>1, BeginIs
<1>4. own' = own \ {z}
    BY DEF Restore
<1>5. \A i \in DOMAIN <<first>> : <<first>>[i].do = "restore" /\ <<first>>[i].on = {z}
    BY <1>1
<1>6. \A i \in DOMAIN calls'[r] : \A x \in own' : ~Finds(calls'[r][i], x, stamp'[x])
    BY <1>3, <1>4, <1>5 DEF Finds
<1>7. \A x \in own' : Spares(r, x)'
    BY <1>3, <1>6, SparesLater
<1>8. ~Does(r, "delete")
    BY <1>3 DEF Does
<1> QED
    BY <1>2, <1>3, <1>4, <1>7, <1>8, OwnQuiet

LEMMA OwnDies ==
    ASSUME CascadeShape, NEW r \in Requests, OwnInv, Die(r)
    PROVE  OwnInv'
<1>1. /\ r \in Active /\ r \notin Active' /\ UNCHANGED <<stamp, gone, own>> /\ Passes(r)
      /\ mixed' = mixed \union (IF About(r) = Purge THEN {} ELSE Below(About(r)))
    BY DieIs, DiePasses
<1>2. Does(r, "delete") => About(r) \in mixed'
    <2> SUFFICES ASSUME Does(r, "delete")
                 PROVE  About(r) \in mixed'
        OBVIOUS
    <2>1. About(r) \in Records
        BY <1>1, RequestIs
    <2>2. About(r) # Purge
        BY <2>1, CascadeAssumption
    <2> QED
        BY <1>1, <2>1, <2>2, BelowItself
<1>3. \A x \in Settled' \intersect Alive : ~(Does(r, "delete") /\ About(r) = x)
    BY <1>2 DEF Settled
<1> QED
    BY <1>1, <1>3, OwnQuiet

LEMMA OwnStep ==
    ASSUME CascadeShape, MixedInv, DeadInv, DeletionInv, OwnInv, [Next]_vars, DeadInv'
    PROVE  OwnInv'
<1>1. ASSUME NEW r \in Requests, StampMany(r) \/ Save(r)
      PROVE  OwnInv'
    <2>1. Passes(r)
        BY <1>1, WorkPasses DEF Works
    <2> QED
        BY <1>1, <2>1, StampingIs, OwnMarks, OwnSkips
<1>2. ASSUME NEW r \in Requests, Revive(r)
      PROVE  OwnInv'
    <2>1. Passes(r)
        BY <1>2, WorkPasses DEF Works
    <2> QED
        BY <1>2, <2>1, RevivingIs, OwnRevives, OwnRevivesNone
<1>3. ASSUME NEW r \in Requests, PurgeLooks(r) \/ PurgeStarts(r) \/ PurgeProjects(r)
      PROVE  OwnInv'
    <2>1. Passes(r) /\ r \in Active
        BY <1>3, WorkPasses DEF Works
    <2>2. Does(r, "purge")
        BY <1>3, PurgeLooksWith, PurgeStartsWith, PurgeProjectsWith
    <2>3. ~Does(r, "delete") /\ ~Does(r, "restore")
        BY <2>1, <2>2, RequestIs
    <2>4. UNCHANGED <<stamp, gone, own>>
        BY <1>3 DEF PurgeLooks, PurgeStarts, PurgeProjects, RecordsUnchanged, CountsUnchanged
    <2>5. r \in Active' => ~Does(r, "delete")' /\ ~Does(r, "restore")'
        <3>1. r \in Active' => root'[r] = root[r]
            BY <2>1 DEF Passes
        <3> QED
            BY <2>3, <3>1, SameRequest
    <2> QED
        BY <2>1, <2>3, <2>4, <2>5, OwnOther
<1>4. ASSUME NEW r \in Requests, Works(r)
      PROVE  OwnInv'
    <2>1. Passes(r)
        BY <1>4, WorkPasses
    <2>2. CASE DeleteStarts(r)
        BY <2>1, <2>2, OwnStarts
    <2>3. CASE DeleteProjects(r)
        BY <2>1, <2>3, OwnProjects
    <2>4. CASE RestoreStarts(r)
        BY <2>1, <2>4, OwnRestoreStarts
    <2>5. CASE RestoreProjects(r)
        BY <2>1, <2>5, OwnRestoreProjects
    <2> QED
        BY <1>1, <1>2, <1>3, <1>4, <2>2, <2>3, <2>4, <2>5, OwnDrops DEF Works
<1>5. ASSUME NEW r \in Requests, Sweep(r)
      PROVE  OwnInv'
    <2>1. PICK first : BeginsAs(r, "purge", Purge, first)
        BY <1>5, SweepBegins
    <2>2. Passes(r) /\ r \notin Active /\ UNCHANGED <<stamp, gone>>
          /\ ~Does(r, "delete")' /\ ~Does(r, "restore")'
        BY <2>1, BeginPasses, BeginIs
    <2>3. own' = own
        BY <1>5 DEF Sweep
    <2>4. ~Does(r, "delete")
        BY <2>2 DEF Does
    <2> QED
        BY <2>2, <2>3, <2>4, OwnOther
<1>6. CASE UNCHANGED vars
    <2>1. UNCHANGED <<stamp, gone, own, mixed, calls, root>>
        BY <1>6 DEF vars
    <2>2. /\ own' \intersect Settled' = own \intersect Settled
          /\ Dead' = Dead /\ Alive' = Alive /\ Active' = Active
          /\ \A q : (\A w : Does(q, w)' <=> Does(q, w)) /\ About(q)' = About(q)
        BY <2>1 DEF Settled, Dead, Alive, Stored, Active, Does, About
    <2>3. ASSUME NEW x \in own \intersect Settled
          PROVE  OwnHolds(x)'
        <3>1. OwnHolds(x)
            BY <2>3 DEF OwnInv
        <3>2. ASSUME NEW q, Spares(q, x)
              PROVE  Spares(q, x)'
            <4>1. \A i \in DOMAIN calls[q] :
                      /\ Does(q, "delete") /\ x \in Below(About(q)) /\ calls[q][i].at # 0 =>
                            stamp[x] < calls[q][i].at
                      /\ Does(q, "restore") => ~Finds(calls[q][i], x, stamp[x])
                BY <3>2 DEF Spares
            <4> QED
                BY <2>1, <2>2, <4>1, SparesLater
        <3> QED
            BY <2>1, <2>2, <3>1, <3>2, OwnLater DEF OwnHolds
    <2> QED
        BY <2>2, <2>3 DEF OwnInv
<1> QED
    BY <1>4, <1>5, <1>6, OwnDeletes, OwnRestores, OwnDies, NextIs

-----------------------------------------------------------------------------
(* What a restore brings back.                                             *)

LEMMA CascadeInit == Init => CascadeIInv
<1> SUFFICES ASSUME Init
             PROVE  CascadeIInv
    OBVIOUS
<1>1. CascadeShape /\ MixedInv /\ DeadInv
    BY BottomInit
<1>2. Active = {} /\ own = {} /\ \A x \in Records : killer[x] = x
    BY DEF Init, Active
<1>3. Settled \subseteq Records
    BY DEF Settled, Stored
<1>4. ChainInv
    BY <1>2, <1>3 DEF ChainInv
<1>5. DeletionInv /\ RestoreInv
    BY <1>2 DEF DeletionInv, RestoreInv
<1>6. OwnInv
    BY <1>2 DEF OwnInv
<1> QED
    BY <1>1, <1>4, <1>5, <1>6 DEF CascadeIInv

\* Every state of the cascades satisfies the inductive invariant: it says of the calls a request
\* has still to make what they will have stamped, brought back or removed.
THEOREM CascadeInvariance == Spec => []CascadeIInv
<1>1. Init => CascadeIInv
    BY CascadeInit
<1>2. CascadeIInv /\ [Next]_vars => CascadeIInv'
    <2> SUFFICES ASSUME CascadeIInv, [Next]_vars
                 PROVE  CascadeIInv'
        OBVIOUS
    <2>1. CascadeShape /\ MixedInv /\ DeadInv /\ ChainInv /\ DeletionInv /\ RestoreInv /\ OwnInv
        BY DEF CascadeIInv
    <2>2. CascadeShape' /\ MixedInv' /\ DeadInv'
        BY <2>1, ShapeStep, MixedStep, DeadStep
    <2>3. ChainInv'
        BY <2>1, <2>2, ChainStep
    <2>4. DeletionInv'
        BY <2>1, <2>2, DeletionStep
    <2>5. RestoreInv'
        BY <2>1, <2>2, RestoreStep
    <2>6. OwnInv'
        BY <2>1, <2>2, OwnStep
    <2> QED
        BY <2>2, <2>3, <2>4, <2>5, <2>6 DEF CascadeIInv
<1> QED
    BY <1>1, <1>2, PTL DEF Spec

LEMMA ShapeTypes == CascadeShape => TypeOK
<1> SUFFICES ASSUME CascadeShape
             PROVE  TypeOK
    OBVIOUS
<1>1. /\ stamp \in [Records -> 0..MaxTime] /\ gone \subseteq Records
      /\ now \in 0..MaxTime /\ sweeps \in 0..MaxSweeps
      /\ disturbances \in 0..MaxDisturbances
      /\ killer \in [Records -> Records]
      /\ UNION {own, mixed, adrift} \subseteq Records
    BY DEF CascadeShape
<1>2. ASSUME NEW r \in Requests
      PROVE  /\ r \in Active => root[r] \in {"delete", "restore", "purge"} \X (Records \union {Purge})
             /\ r \notin Active => calls[r] = <<>>
             /\ \A i \in DOMAIN calls[r] :
                   calls[r][i].on \subseteq Records /\ calls[r][i].at \in 0..MaxTime + 1
    <2>1. r \in Active => root[r] \in {"delete", "restore", "purge"} \X (Records \union {Purge})
        <3>1. r \in Active => \E w \in {"delete", "restore", "purge"}, x \in Records \union {Purge} :
                  root[r] = <<w, x>>
            BY RequestIs
        <3> QED
            BY <3>1
    <2>2. r \notin Active => calls[r] = <<>>
        BY DEF CascadeShape, RequestShape
    <2>3. r \in Active => \A i \in DOMAIN calls[r] :
              calls[r][i].on \subseteq Records /\ calls[r][i].at \in 0..MaxTime + 1
        BY CallIs
    <2> QED
        BY <2>1, <2>2, <2>3, EmptyCalls
<1> QED
    BY <1>1, <1>2 DEF TypeOK

\* Between cascades, what a deletion stamped leads to the record the deletion was about.
LEMMA LeadsToKiller ==
    ASSUME CascadeIInv, Active = {}, NEW x \in Settled, x \in Dead
    PROVE  killer[x] \in Dead
<1> USE DEF CascadeIInv
<1>1. ASSUME NEW w \in Settled, w \in Dead, killer[w] # w
      PROVE  LET k == killer[w]
                 y == Via(w, k)
             IN  /\ k \in Records /\ w \in Below(k)
                 /\ y \in Settled /\ y \in Dead /\ (y = k \/ killer[y] = k)
    <2>1. w \in Records /\ killer[w] \in Records /\ w \in Below(killer[w])
        BY <1>1 DEF CascadeShape, Dead
    <2>2. Found(w)
        BY <1>1, ChainIs
    <2>3. Via(w, killer[w]) \in Records /\ w \in Below(Via(w, killer[w]))
        BY <1>1, <2>1, ViaIs
    <2>4. Via(w, killer[w]) \in Settled
        BY <1>1, <2>3, AboveSettled
    <2> QED
        BY <2>1, <2>2, <2>4 DEF Found
<1>2. ASSUME NEW w \in Settled, w \in Dead, w \in Projects
      PROVE  killer[w] \in Dead
    <2>1. CASE killer[w] = w
        BY <1>2, <2>1
    <2>2. CASE killer[w] # w
        <3>1. Via(w, killer[w]) = killer[w]
            BY <1>1, <1>2, <2>2, ViaIs
        <3> QED
            BY <1>1, <1>2, <2>2, <3>1
    <2> QED
        BY <2>1, <2>2
<1>3. ASSUME NEW w \in Settled, w \in Dead, w \in Lectures
      PROVE  killer[w] \in Dead
    <2>1. CASE killer[w] = w
        BY <1>3, <2>1
    <2>2. CASE killer[w] # w
        <3>1. Via(w, killer[w]) = killer[w] \/ Via(w, killer[w]) \in Projects
            BY <1>1, <1>3, <2>2, ViaIs
        <3> QED
            BY <1>1, <1>2, <1>3, <2>2, <3>1
    <2> QED
        BY <2>1, <2>2
<1>4. CASE killer[x] = x
    BY <1>4
<1>5. CASE killer[x] # x
    <2>1. x \notin Accounts /\ (x \in Slides => Via(x, killer[x]) \in Lectures)
        BY <1>1, <1>5, ViaIs
    <2>2. x \in Records
        BY DEF Dead
    <2>3. CASE x \in Slides
        BY <1>1, <1>3, <1>5, <2>1, <2>3
    <2> QED
        BY <1>2, <1>3, <2>1, <2>2, <2>3, KindsAreApart
<1> QED
    BY <1>4, <1>5

\* Between cascades whatever is deleted was deleted by something that is still deleted, so
\* that the restore of that brings it back; and what was deleted on its own before stays
\* deleted (restoreProject, restoreLecture and restoreAccount of lib/cascade.ts, for what no
\* two cascades worked on at once).
THEOREM RestoresAreExact == Spec => []RestoreIsExact
<1>1. CascadeIInv => RestoreIsExact
    <2> SUFFICES ASSUME CascadeIInv
                 PROVE  RestoreIsExact
        OBVIOUS
    <2>1. TypeOK
        BY ShapeTypes DEF CascadeIInv
    <2>2. ASSUME Active = {}, NEW x \in Stored \ mixed
          PROVE  (x \in Dead => killer[x] \in Dead) /\ (x \in own => x \in Dead)
        <3>1. x \in Settled /\ x \in Records
            BY <2>2 DEF Settled, Stored
        <3>2. x \in Dead => killer[x] \in Dead
            BY <2>2, <3>1, LeadsToKiller
        <3>3. x \in own => x \in Dead
            BY <2>2, <3>1 DEF CascadeIInv, OwnInv, OwnHolds, Dead
        <3> QED
            BY <3>2, <3>3
    <2> QED
        BY <2>1, <2>2 DEF RestoreIsExact
<1> QED
    BY <1>1, CascadeInvariance, PTL
=============================================================================
