-------------------------- MODULE NarrationObjects --------------------------
(***************************************************************************)
(* The narration cache: one synthesized object (its audio and its sidecar  *)
(* of marks, named by a hash of what was said), the row that lists the     *)
(* lectures which have played it, playbacks (routes/tts.ts) and purges of  *)
(* deleted lectures (lib/cascade.ts, models/tts-object.ts).  Every await   *)
(* of a playback or of a purge ends a step.  Objects are independent, so   *)
(* one stands for all.                                                     *)
(***************************************************************************)
EXTENDS Integers, FiniteSets

CONSTANTS Decks,        \* lectures whose slides say the same words
          Players,      \* playback requests that may be in progress at once
          Purgers,      \* purges that may be in progress at once (one per server)
          MaxFailures   \* bound: failed calls and crashes of a behaviour

ASSUME NarrationAssumption == /\ MaxFailures \in Nat
                              /\ IsFiniteSet(Purgers)
                              /\ "none" \notin Decks

Files == {"audio", "marks"}
RowIds == 1..(Cardinality(Purgers) + 1)
NoRow == 0

VARIABLES
    deck,      \* "live", "deleted" (a tombstone) or "gone"
    stored,    \* the files that storage holds
    row,       \* the id of the object's row, or NoRow
    refs,      \* its deckIds
    play,      \* playbacks in progress: where each is, and for which lecture
    purge,     \* purges in progress: where each is, its lectures, the id of
               \* the row it found and the files it has yet to delete
    failures,
    holders,   \* auxiliary: for a purge, the lectures that kept a reference
               \* from the moment it looked the row up
    leaked,    \* auxiliary: a reference or a file was lost sight of
    claimed    \* auxiliary: lectures whose reference was recorded since the
               \* audio was last deleted, and not dropped by a purge of their own

vars == <<deck, stored, row, refs, play, purge, failures, holders, leaked, claimed>>

NoPlay == [at |-> "idle", deck |-> "none"]
NoPurge == [at |-> "idle", decks |-> {}, id |-> NoRow, files |-> {}]

TypeOK ==
    /\ deck \in [Decks -> {"live", "deleted", "gone"}]
    /\ stored \subseteq Files
    /\ row \in RowIds \cup {NoRow}
    /\ refs \subseteq Decks
    /\ row = NoRow => refs = {}
    /\ play \in [Players -> [at : {"idle", "get", "putAudio", "putMarks", "retain"},
                             deck : Decks \cup {"none"}]]
    /\ purge \in [Purgers -> [at : {"idle", "find", "pull", "orphans", "deleteRow",
                                    "files", "remove"},
                              decks : SUBSET Decks, id : RowIds \cup {NoRow},
                              files : SUBSET Files]]
    /\ failures \in 0..MaxFailures
    /\ holders \in [Purgers -> SUBSET Decks]
    /\ leaked \in BOOLEAN /\ claimed \subseteq Decks

Init ==
    /\ deck = [d \in Decks |-> "live"]
    /\ stored = {} /\ row = NoRow /\ refs = {}
    /\ play = [p \in Players |-> NoPlay]
    /\ purge = [w \in Purgers |-> NoPurge]
    /\ failures = 0
    /\ holders = [w \in Purgers |-> {}]
    /\ leaked = FALSE /\ claimed = {}

-----------------------------------------------------------------------------
PlayAt(p, at) == play[p].at = at
PlayTo(p, at) == play' = [play EXCEPT ![p].at = at]
PurgeAt(w, at) == purge[w].at = at
PurgeTo(w, at) == purge' = [purge EXCEPT ![w].at = at]

(* The lecture's reference was dropped, or is not on the row that the purge *)
(* found: one added now stays for ever.                                     *)
Released(d) == \/ deck[d] = "gone"
               \/ \E w \in Purgers : /\ d \in purge[w].decks
                                     /\ ~PurgeAt(w, "find")
                                     /\ PurgeAt(w, "pull") => purge[w].id # row

-----------------------------------------------------------------------------
(* Playback *)

(* A viewer of a live lecture, or an administrator who opens a deleted one. *)
StartPlay(p, d) ==
    /\ PlayAt(p, "idle")
    /\ deck[d] \in {"live", "deleted"}
    /\ play' = [play EXCEPT ![p] = [at |-> "get", deck |-> d]]
    /\ UNCHANGED <<deck, stored, row, refs, purge, failures, holders, leaked, claimed>>

(* storage.get(storageKey) decides between the hit and the miss. *)
GetAudio(p) ==
    /\ PlayAt(p, "get")
    /\ PlayTo(p, IF "audio" \in stored THEN "retain" ELSE "putAudio")
    /\ UNCHANGED <<deck, stored, row, refs, purge, failures, holders, leaked, claimed>>

Put(p, file, next) ==
    /\ stored' = stored \cup {file}
    /\ PlayTo(p, next)
    /\ UNCHANGED <<deck, row, refs, purge, failures, holders, leaked, claimed>>

PutAudio(p) == PlayAt(p, "putAudio") /\ Put(p, "audio", "putMarks")
PutMarks(p) == PlayAt(p, "putMarks") /\ Put(p, "marks", "retain")

(* An inserted row is a new one: no purge remembers its id. *)
FreshId == CHOOSE i \in RowIds : \A w \in Purgers : purge[w].id # i

(* Mutant: the upsert sets the lectures instead of adding one. *)
RetainOverwriting(d) ==
    /\ row' = IF row = NoRow THEN FreshId ELSE row
    /\ refs' = {d}

(* One upsert: the row is created on first use, the lecture added to it. *)
RetainTtsObject(d) ==
    /\ row' = IF row = NoRow THEN FreshId ELSE row
    /\ refs' = refs \cup {d}

Retain(p) ==
    /\ PlayAt(p, "retain")
    /\ RetainTtsObject(play[p].deck)
    /\ leaked' = (leaked \/ Released(play[p].deck))
    /\ claimed' = claimed \cup {play[p].deck}
    /\ play' = [play EXCEPT ![p] = NoPlay]
    /\ UNCHANGED <<deck, stored, purge, failures, holders>>

Fail == failures < MaxFailures /\ failures' = failures + 1

(* "TTS reference not recorded": the playback goes on without it. *)
RetainFailed(p) ==
    /\ PlayAt(p, "retain") /\ Fail
    /\ play' = [play EXCEPT ![p] = NoPlay]
    /\ leaked' = TRUE
    /\ UNCHANGED <<deck, stored, row, refs, purge, holders, claimed>>

(* The synthesis, a write or the process fails before the audio, or before *)
(* its sidecar, is written.                                                *)
PlayFailed(p) ==
    /\ play[p].at \in {"putAudio", "putMarks"} /\ Fail
    /\ play' = [play EXCEPT ![p] = NoPlay]
    /\ leaked' = (leaked \/ PlayAt(p, "putMarks"))
    /\ UNCHANGED <<deck, stored, row, refs, purge, holders, claimed>>

-----------------------------------------------------------------------------
(* Deletion and purge *)

DeleteDeck(d) ==
    /\ deck[d] = "live"
    /\ deck' = [deck EXCEPT ![d] = "deleted"]
    /\ UNCHANGED <<stored, row, refs, play, purge, failures, holders, leaked, claimed>>

(* One lecture, or all those of a project or an account. *)
StartPurge(w, ids) ==
    /\ PurgeAt(w, "idle")
    /\ ids # {} /\ \A d \in ids : deck[d] = "deleted"
    /\ purge' = [purge EXCEPT ![w] = [NoPurge EXCEPT !.at = "find", !.decks = ids]]
    /\ UNCHANGED <<deck, stored, row, refs, play, failures, holders, leaked, claimed>>

(* find({ deckIds: { $in: ids } }) *)
TouchedAlone(w) == row # NoRow /\ refs # {} /\ refs \subseteq purge[w].decks
Touched(w) == row # NoRow /\ refs \cap purge[w].decks # {}
FindTouched(w) ==
    /\ PurgeAt(w, "find")
    /\ purge' = [purge EXCEPT ![w].at = IF Touched(w) THEN "pull" ELSE "remove",
                              ![w].id = IF Touched(w) THEN row ELSE NoRow]
    /\ holders' = [holders EXCEPT ![w] = IF Touched(w) THEN refs \ purge[w].decks ELSE {}]
    /\ UNCHANGED <<deck, stored, row, refs, play, failures, leaked, claimed>>

(* updateMany by id: a row that went meanwhile matches nothing. *)
Pull(w) ==
    /\ PurgeAt(w, "pull")
    /\ refs' = IF row = purge[w].id THEN refs \ purge[w].decks ELSE refs
    /\ holders' = [x \in Purgers |-> IF row = purge[w].id THEN holders[x] \ purge[w].decks ELSE holders[x]]
    /\ claimed' = IF row = purge[w].id THEN claimed \ purge[w].decks ELSE claimed
    /\ PurgeTo(w, "orphans")
    /\ UNCHANGED <<deck, stored, row, play, failures, leaked>>

(* find({ _id: { $in: touched }, deckIds: { $size: 0 } }) *)
OrphanedWhoeverRefers(w) == row = purge[w].id
Orphaned(w) == row = purge[w].id /\ refs = {}
FindOrphans(w) ==
    /\ PurgeAt(w, "orphans")
    /\ IF Orphaned(w)
        THEN PurgeTo(w, "deleteRow") /\ UNCHANGED holders
        ELSE /\ purge' = [purge EXCEPT ![w].at = "remove", ![w].id = NoRow]
             /\ holders' = [holders EXCEPT ![w] = {}]
    /\ UNCHANGED <<deck, stored, row, refs, play, failures, leaked, claimed>>

(* deleteMany by id alone: a reference added since the lookup goes with it. *)
DeleteRow(w) ==
    /\ PurgeAt(w, "deleteRow")
    /\ IF row = purge[w].id THEN row' = NoRow /\ refs' = {} ELSE UNCHANGED <<row, refs>>
    /\ purge' = [purge EXCEPT ![w].at = "files", ![w].id = NoRow, ![w].files = Files]
    /\ UNCHANGED <<deck, stored, play, failures, holders, leaked, claimed>>

FilesLeft(w, f) == purge[w].files \ {f}
AfterFile(w, f) ==
    purge' = [purge EXCEPT ![w].files = FilesLeft(w, f),
                           ![w].at = IF FilesLeft(w, f) = {} THEN "remove" ELSE "files"]

(* The deletions run side by side, in any order. *)
DeleteFile(w, f) ==
    /\ PurgeAt(w, "files") /\ f \in purge[w].files
    /\ stored' = stored \ {f}
    /\ claimed' = IF f = "audio" THEN {} ELSE claimed
    /\ AfterFile(w, f)
    /\ UNCHANGED <<deck, row, refs, play, failures, holders, leaked>>

(* Swallowed: "a dangling file is preferable to a failed cascade". *)
DeleteFileFailed(w, f) ==
    /\ PurgeAt(w, "files") /\ f \in purge[w].files /\ Fail
    /\ AfterFile(w, f)
    /\ leaked' = TRUE
    /\ UNCHANGED <<deck, stored, row, refs, play, holders, claimed>>

(* The slides and at last the lecture. *)
RemoveDecks(w) ==
    /\ PurgeAt(w, "remove")
    /\ deck' = [d \in Decks |-> IF d \in purge[w].decks THEN "gone" ELSE deck[d]]
    /\ purge' = [purge EXCEPT ![w] = NoPurge]
    /\ holders' = [holders EXCEPT ![w] = {}]
    /\ UNCHANGED <<stored, row, refs, play, failures, leaked, claimed>>

(* A call fails or the process stops: the lecture is still a tombstone and *)
(* a later purge starts over.                                              *)
PurgeFailed(w) ==
    /\ purge[w].at \in {"find", "pull", "orphans", "deleteRow", "files", "remove"} /\ Fail
    /\ leaked' = (leaked \/ purge[w].at \in {"orphans", "deleteRow", "files"})
    /\ purge' = [purge EXCEPT ![w] = NoPurge]
    /\ holders' = [holders EXCEPT ![w] = {}]
    /\ UNCHANGED <<deck, stored, row, refs, play, claimed>>

-----------------------------------------------------------------------------
Next ==
    \/ \E p \in Players :
        \/ \E d \in Decks : StartPlay(p, d)
        \/ GetAudio(p) \/ PutAudio(p) \/ PutMarks(p)
        \/ Retain(p) \/ RetainFailed(p) \/ PlayFailed(p)
    \/ \E d \in Decks : DeleteDeck(d)
    \/ \E w \in Purgers :
        \/ \E ids \in SUBSET Decks : StartPurge(w, ids)
        \/ FindTouched(w) \/ Pull(w) \/ FindOrphans(w) \/ DeleteRow(w)
        \/ \E f \in Files : DeleteFile(w, f) \/ DeleteFileFailed(w, f)
        \/ RemoveDecks(w) \/ PurgeFailed(w)

Spec == Init /\ [][Next]_vars

-----------------------------------------------------------------------------
(* "A deleted lecture takes its narration with it": once every lecture is   *)
(* removed and nothing is in progress, no file, row or reference is left,   *)
(* unless one was lost by a failure between the release's own calls, or a   *)
(* playback claimed the object after its lecture had released it.           *)
NarrationGoesWithItsLecture ==
    /\ TypeOK
    /\ /\ \A d \in Decks : deck[d] = "gone"
       /\ \A p \in Players : PlayAt(p, "idle")
       /\ \A w \in Purgers : PurgeAt(w, "idle")
       /\ ~leaked
       => stored = {} /\ row = NoRow

(* "Without pulling audio out from under anyone else": a purge that comes   *)
(* to delete the row or the files leaves behind no lecture that held its    *)
(* reference from the purge's first lookup on, whatever other purges and    *)
(* playbacks did in between.                                                *)
HoldersKeepTheirAudio ==
    \A w \in Purgers : purge[w].at \in {"deleteRow", "files"} => holders[w] = {}

(* A lecture that claims the object while a purge is under way keeps its    *)
(* claim, or loses it together with the audio: as long as the cache serves  *)
(* what it played, the row lists it, or a purge is about to delete the      *)
(* audio, and the next playback synthesizes and claims anew.  Without this  *)
(* a purge of the lectures that are listed takes the audio of one that is   *)
(* not.  Nothing was lost sight of by a failure (leaked).                   *)
ClaimsAreNotForgotten ==
    ~leaked =>
        \/ claimed \subseteq refs
        \/ \E w \in Purgers : PurgeAt(w, "files") /\ "audio" \in purge[w].files

=============================================================================
