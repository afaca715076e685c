----------------------------- MODULE SlideOrder -----------------------------
(***************************************************************************)
(* The order of a lecture's slides.  It is kept twice: deck.slideOrder is   *)
(* the authority, and every slide has an `index` that readers sort by.      *)
(* The actions that change it (actions/slide.ts, actions/deck.ts,           *)
(* actions/reconcile.ts) load the lecture, change the copy in memory and    *)
(* save it, each await ending a step; the refine job keeps one copy for     *)
(* minutes and splits slide after slide from it.  Mongoose versions a saved *)
(* array: a push is added to whatever is stored, an assigned or spliced     *)
(* array is refused when the stored version is not the one loaded.          *)
(***************************************************************************)
EXTENDS Integers, Sequences, FiniteSets, Functions, SequencesExt

CONSTANTS Requests,     \* calls that may be in progress at once, one action each
          Initial,      \* how many slides the lecture starts with
          MaxSlides,    \* bound: slides ever created
          MaxSplits,    \* bound: splits of one refine job
          MaxDeaths     \* bound: calls that fail or die half-way

ASSUME SlideOrderAssumption == /\ Initial \in Nat /\ MaxSlides \in Nat
                               /\ Initial <= MaxSlides
                               /\ MaxSplits \in Nat /\ MaxDeaths \in Nat

Slides == 1..MaxSlides
NoSlide == 0
Kinds == {"slide.add", "slide.delete", "slide.duplicate", "deck.reorderSlides",
          "deck.splitSlide", "deck.refine"}

VARIABLES
    order,      \* deck.slideOrder as stored
    version,    \* the version stored with it
    slide,      \* "none" (not created yet), "live" or "deleted"
    index,      \* the index stored with each slide
    req,        \* the requests, see NoRequest
    deaths,
    alone       \* auxiliary: nobody else wrote since the request loaded

orderVars == <<order, version, slide, index, req, deaths, alone>>

NoRequest == [at |-> "idle", kind |-> "none", target |-> NoSlide,
              copy |-> <<>>, seen |-> 0,    \* the lecture as loaded
              made |-> <<>>,                \* slides created, not listed yet
              todo |-> {},                  \* <<slide, index>> still to write
              pending |-> {},               \* slides a refine job may still split
              splits |-> 0,
              kept |-> {},                  \* slides it listed
              gone |-> {}]                  \* slides it took off the list

At(r, at) == req[r].at = at
Live == {s \in Slides : slide[s] = "live"}
Listed == Range(order)

OrderTypeOK ==
    /\ order \in Seq(Slides) /\ version \in Nat
    /\ slide \in [Slides -> {"none", "live", "deleted"}]
    /\ index \in [Slides -> Nat]
    /\ \A r \in Requests :
        /\ req[r].at \in {"idle", "load", "read", "create", "tombstone", "save",
                          "renumber", "next", "done", "refused", "dead"}
        /\ req[r].kind \in Kinds \cup {"none"}
        /\ req[r].target \in Slides \cup {NoSlide}
        /\ req[r].copy \in Seq(Slides) /\ req[r].made \in Seq(Slides)
        /\ req[r].seen \in 0..version
        /\ UNION {req[r].pending, req[r].kept, req[r].gone} \subseteq Slides
        /\ req[r].splits \in 0..MaxSplits
        /\ \A w \in req[r].todo : w \in Slides \X Nat
    /\ deaths \in 0..MaxDeaths
    /\ alone \in [Requests -> BOOLEAN]

OrderInit ==
    /\ order = [i \in 1..Initial |-> i] /\ version = 0
    /\ slide = [s \in Slides |-> IF s <= Initial THEN "live" ELSE "none"]
    /\ index = [s \in Slides |-> IF s <= Initial THEN s - 1 ELSE 0]
    /\ req = [r \in Requests |-> NoRequest]
    /\ deaths = 0
    /\ alone = [r \in Requests |-> FALSE]

-----------------------------------------------------------------------------
To(r, at) == req' = [req EXCEPT ![r].at = at]
(* The request is over, and its copy of the lecture with it. *)
End(r, at) == req' = [req EXCEPT ![r] = [NoRequest EXCEPT !.at = at, !.kind = req[r].kind,
                                                          !.kept = req[r].kept, !.gone = req[r].gone]]

(* r writes to the lecture or to one of its slides. *)
Writes(r) == alone' = [x \in Requests |-> alone[x] /\ x = r]

(* slideEditor reads the slide before it loads the lecture; the other       *)
(* actions name the lecture.                                                *)
Start(r, kind) ==
    /\ At(r, "idle")
    /\ \E s \in IF kind \in {"slide.delete", "slide.duplicate"} THEN Live ELSE {NoSlide} :
         req' = [req EXCEPT ![r] = [NoRequest EXCEPT !.at = "load", !.kind = kind, !.target = s]]
    /\ UNCHANGED <<order, version, slide, index, deaths, alone>>

AfterLoad(kind) ==
    CASE kind \in {"slide.add", "slide.duplicate"} -> "create"
      [] kind = "slide.delete" -> "tombstone"
      [] kind = "deck.reorderSlides" -> "save"
      [] kind \in {"deck.splitSlide", "deck.refine"} -> "read"

Load(r) ==
    /\ At(r, "load")
    /\ req' = [req EXCEPT ![r].at = AfterLoad(req[r].kind), ![r].copy = order, ![r].seen = version]
    /\ alone' = [alone EXCEPT ![r] = TRUE]
    /\ UNCHANGED <<order, version, slide, index, deaths>>

(* deck.splitSlide reads the one slide; the refine job lists them once.     *)
ReadSlide(r) ==
    /\ At(r, "read") /\ req[r].kind = "deck.splitSlide"
    /\ \E s \in Live : req' = [req EXCEPT ![r].at = "create", ![r].target = s]
    /\ UNCHANGED <<order, version, slide, index, deaths, alone>>
ReadSlides(r) ==
    /\ At(r, "read") /\ req[r].kind = "deck.refine"
    /\ req' = [req EXCEPT ![r].at = "next", ![r].pending = Live]
    /\ UNCHANGED <<order, version, slide, index, deaths, alone>>

(* The model asks for a split of some slides of the list, in any order. *)
RefineSlide(r) ==
    /\ At(r, "next") /\ req[r].splits < MaxSplits
    /\ \E s \in req[r].pending :
         req' = [req EXCEPT ![r].at = "create", ![r].target = s, ![r].made = <<>>,
                            ![r].pending = @ \ {s}, ![r].splits = @ + 1]
    /\ UNCHANGED <<order, version, slide, index, deaths, alone>>
RefineDone(r) ==
    /\ At(r, "next")
    /\ End(r, "done")
    /\ UNCHANGED <<order, version, slide, index, deaths, alone>>

(* SlideModel.create, with a provisional index taken from the copy. A split *)
(* creates its further parts one after the other.                           *)
Create(r) ==
    /\ At(r, "create")
    /\ \E s \in Slides :
        /\ slide[s] = "none" /\ \A t \in Slides : t < s => slide[t] # "none"
        /\ slide' = [slide EXCEPT ![s] = "live"]
        /\ index' = [index EXCEPT ![s] = Len(req[r].copy)]
        /\ \E at \in {"save"} \cup (IF req[r].kind \in {"deck.splitSlide", "deck.refine"} THEN {"create"} ELSE {}) :
             req' = [req EXCEPT ![r].made = Append(@, s), ![r].at = at]
    /\ Writes(r)
    /\ UNCHANGED <<order, version, deaths>>

Tombstone(r) ==
    /\ At(r, "tombstone")
    /\ slide' = [slide EXCEPT ![req[r].target] = "deleted"]
    /\ To(r, "save")
    /\ Writes(r)
    /\ UNCHANGED <<order, version, index, deaths>>

-----------------------------------------------------------------------------
(* The save *)

(* Array.indexOf, counted from one *)
IndexOf(copy, target) == SelectInSeq(copy, LAMBDA s : s = target)

(* The new slides directly after the target, or at the end without one. *)
InsertedOffByOne(copy, target, new) ==
    LET at == IF Contains(copy, target) THEN IndexOf(copy, target) ELSE Len(copy)
    IN SubSeq(copy, 1, at) \o new \o SubSeq(copy, at, Len(copy))
Inserted(copy, target, new) ==
    LET at == IF Contains(copy, target) THEN IndexOf(copy, target) ELSE Len(copy)
    IN SubSeq(copy, 1, at) \o new \o SubSeq(copy, at + 1, Len(copy))

(* A request to reorder must name exactly the slides of the copy; a deletion *)
(* takes out every occurrence, and there is one.                            *)
Reorderings(copy) == {p \in [1..Len(copy) -> Range(copy)] : Range(p) = Range(copy)}

Arranged(q) ==
    CASE q.kind = "slide.delete" -> {RemoveFirst(q.copy, q.target)}
      [] q.kind = "deck.reorderSlides" -> Reorderings(q.copy)
      [] q.kind \in {"slide.duplicate", "deck.splitSlide", "deck.refine"} ->
            {Inserted(q.copy, q.target, q.made)}

(* $push with the version raised: no condition on what is stored. *)
Push(r) ==
    /\ At(r, "save") /\ req[r].kind = "slide.add"
    /\ order' = order \o req[r].made
    /\ version' = version + 1
    /\ req' = [req EXCEPT ![r] = [NoRequest EXCEPT !.at = "done", !.kind = "slide.add",
                                                   !.kept = Range(req[r].made)]]
    /\ Writes(r)
    /\ UNCHANGED <<slide, index, deaths>>

UnchangedOrNot(q) == q.seen \in Nat
Unchanged(q) == version = q.seen
PositionsFromOne(seq) == {<<seq[i], i>> : i \in DOMAIN seq}
Positions(seq) == {<<seq[i], i - 1>> : i \in DOMAIN seq}
Saved(r, new) ==
    req' = [req EXCEPT ![r].at = "renumber", ![r].copy = new, ![r].seen = version',
                       ![r].kept = @ \cup (Range(new) \ Listed), ![r].made = <<>>,
                       ![r].gone = Listed \ Range(new),
                       ![r].todo = Positions(new)]

(* The array is written where the version is the one loaded. *)
Save(r) ==
    /\ At(r, "save") /\ req[r].kind # "slide.add"
    /\ Unchanged(req[r])
    /\ \E new \in Arranged(req[r]) :
        /\ new # req[r].copy
        /\ order' = new /\ version' = version + 1
        /\ Saved(r, new)
    /\ Writes(r)
    /\ UNCHANGED <<slide, index, deaths>>

(* The array is as it was loaded: save() has nothing to send. *)
NothingToSave(r) ==
    /\ At(r, "save") /\ req[r].kind # "slide.add"
    /\ req[r].copy \in Arranged(req[r])
    /\ req' = [req EXCEPT ![r].at = "renumber", ![r].todo = Positions(req[r].copy)]
    /\ UNCHANGED <<order, version, slide, index, deaths, alone>>

(* VersionError.  An action fails; the refine job logs it and goes on with  *)
(* the copy it changed.                                                     *)
Refused(r) ==
    /\ At(r, "save") /\ req[r].kind # "slide.add"
    /\ ~Unchanged(req[r])
    /\ \E new \in Arranged(req[r]) :
        /\ new # req[r].copy
        /\ IF req[r].kind = "deck.refine"
             THEN req' = [req EXCEPT ![r].at = "next", ![r].copy = new]
             ELSE End(r, "refused")
    /\ UNCHANGED <<order, version, slide, index, deaths, alone>>

(* One of the updates that Promise.all runs; those of deleted slides match  *)
(* nothing.                                                                 *)
Renumber(r) ==
    /\ At(r, "renumber")
    /\ \E w \in req[r].todo :
        /\ index' = IF slide[w[1]] = "live" THEN [index EXCEPT ![w[1]] = w[2]] ELSE index
        /\ req' = [req EXCEPT ![r].todo = @ \ {w}]
    /\ Writes(r)
    /\ UNCHANGED <<order, version, slide, deaths>>

Renumbered(r) ==
    /\ At(r, "renumber") /\ req[r].todo = {}
    /\ IF req[r].kind = "deck.refine" THEN To(r, "next") ELSE End(r, "done")
    /\ UNCHANGED <<order, version, slide, index, deaths, alone>>

(* runRefine catches what a call of one slide throws, logs it, and goes on  *)
(* with the copy it has: a save that failed has changed the copy, and the   *)
(* next one sends the whole array again.                                    *)
SlideFailed(r) ==
    /\ req[r].kind = "deck.refine" /\ req[r].at \in {"create", "save", "renumber"}
    /\ deaths < MaxDeaths /\ deaths' = deaths + 1
    /\ \E new \in IF At(r, "save") THEN Arranged(req[r]) ELSE {req[r].copy} :
         req' = [req EXCEPT ![r].at = "next", ![r].copy = new]
    /\ UNCHANGED <<order, version, slide, index, alone>>

(* A call fails that nothing catches, or the process stops. *)
Die(r) ==
    /\ req[r].at \notin {"idle", "done", "refused", "dead"}
    /\ deaths < MaxDeaths /\ deaths' = deaths + 1
    /\ End(r, "dead")
    /\ UNCHANGED <<order, version, slide, index, alone>>

OrderNext == \E r \in Requests :
    \/ \E kind \in Kinds : Start(r, kind)
    \/ Load(r) \/ ReadSlide(r) \/ ReadSlides(r) \/ RefineSlide(r) \/ RefineDone(r)
    \/ Create(r) \/ Tombstone(r)
    \/ Push(r) \/ Save(r) \/ NothingToSave(r) \/ Refused(r)
    \/ Renumber(r) \/ Renumbered(r)
    \/ SlideFailed(r) \/ Die(r)

OrderSpec == OrderInit /\ [][OrderNext]_orderVars

-----------------------------------------------------------------------------
(* No action writes back an order it read before another action changed it: *)
(* a slide leaves the order only when it has been deleted.                  *)
NothingListedIsLost ==
    [][\A s \in Listed \ Range(order') : slide[s] = "deleted"]_orderVars

(* What an action saved stays true: the slides it listed are listed, once,  *)
(* for as long as they live, and the one it took off the list is not listed *)
(* again, whatever copies other actions still hold and save.                *)
AnswersStayTrue ==
    /\ OrderTypeOK
    /\ IsInjective(order)
    /\ \A r \in Requests :
        /\ \A s \in req[r].kept : slide[s] = "live" => s \in Listed
        /\ req[r].gone \cap Listed = {}

IndexAgrees == \A i \in DOMAIN order : slide[order[i]] = "live" => index[order[i]] = i - 1

(* "Keep index consistent with slideOrder position": however the indexes    *)
(* stood, an action that renumbers while nobody else writes leaves readers  *)
(* the slides in the order of the authority.                                *)
RenumberingRestoresOrder ==
    \A r \in Requests :
        (At(r, "done") /\ alone[r] /\ req[r].kind \notin {"slide.add", "deck.refine"}) => IndexAgrees
=============================================================================
