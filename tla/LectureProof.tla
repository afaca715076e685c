---------------------------- MODULE LectureProof ----------------------------
(***************************************************************************)
(* Proofs about what a lecture is made of.  NarrationObjects: a purge does   *)
(* not delete what another lecture held throughout nor forget what it        *)
(* claimed, and the last lecture takes the object with it.  SlideOrder:      *)
(* what an action saved of the order stays true, whatever copies the others  *)
(* still hold, and the indexes follow the order.                            *)
(***************************************************************************)
EXTENDS NarrationObjects, SlideOrder, FiniteSetTheorems, SequenceTheorems, TLAPS

\* A playback in progress plays for a lecture.
PlayInv == \A p \in Players : play[p].at # "idle" => play[p].deck \in Decks

\* A purge remembers a row while it works on it, and has a file left to delete
\* while it deletes files.
PurgeInv ==
    \A w \in Purgers :
        /\ purge[w].at \in {"pull", "orphans", "deleteRow"} => purge[w].id # NoRow
        /\ purge[w].at = "files" => purge[w].files # {}

\* As long as the row a purge found is there, the lectures that held it then and
\* since refer to it.
HoldersInv ==
    \A w \in Purgers :
        purge[w].at \in {"pull", "orphans"} /\ row = purge[w].id => holders[w] \subseteq refs

\* The lectures that a row refers to are there: a purge that is past its pull, or
\* found another row than the present one, has no lecture on it.
Dropped(w) == \/ purge[w].at \in {"orphans", "deleteRow", "files", "remove"}
              \/ PurgeAt(w, "pull") /\ row # purge[w].id
RefsAreLectures ==
    /\ \A d \in refs : deck[d] # "gone"
    /\ \A w \in Purgers : Dropped(w) => refs \cap purge[w].decks = {}

\* A row that no lecture refers to is one that a purge is about to delete.
EmptyRowIsSeen ==
    row # NoRow /\ refs = {} =>
        \E w \in Purgers : purge[w].at \in {"orphans", "deleteRow"} /\ row = purge[w].id

\* A file without a row has a playback about to make one, or a purge that deletes it.
FileIsSeen ==
    \A f \in stored :
        \/ row # NoRow
        \/ \E p \in Players : play[p].at \in {"putMarks", "retain"}
        \/ \E w \in Purgers : PurgeAt(w, "files") /\ f \in purge[w].files

Seen == RefsAreLectures /\ EmptyRowIsSeen /\ FileIsSeen
SeenInv == ~leaked => Seen

\* The inductive invariant.
IInv ==
    /\ TypeOK /\ PlayInv /\ PurgeInv
    /\ HoldersInv /\ HoldersKeepTheirAudio
    /\ ClaimsAreNotForgotten
    /\ SeenInv

-----------------------------------------------------------------------------
(* Types.                                                                  *)

PurgeSteps == {"idle", "find", "pull", "orphans", "deleteRow", "files", "remove"}
PurgeRecords == [at : PurgeSteps, decks : SUBSET Decks, id : RowIds \cup {NoRow},
                 files : SUBSET Files]

\* What a purge's step may write into its record (FindTouched to DeleteFile).
LEMMA PurgeMoves ==
    ASSUME purge \in [Purgers -> PurgeRecords], NEW w \in Purgers,
           NEW at \in PurgeSteps, NEW id \in RowIds \cup {NoRow}, NEW files \in SUBSET Files
    PROVE  /\ [purge EXCEPT ![w].at = at] \in [Purgers -> PurgeRecords]
           /\ [purge EXCEPT ![w].at = at, ![w].id = id] \in [Purgers -> PurgeRecords]
           /\ [purge EXCEPT ![w].files = files, ![w].at = at] \in [Purgers -> PurgeRecords]
           /\ [purge EXCEPT ![w].at = at, ![w].id = id, ![w].files = files]
                  \in [Purgers -> PurgeRecords]
<1>1. [purge EXCEPT ![w].at = at] \in [Purgers -> PurgeRecords]
    BY DEF PurgeRecords
<1>2. [purge EXCEPT ![w].at = at, ![w].id = id] \in [Purgers -> PurgeRecords]
    BY DEF PurgeRecords
<1>3. [purge EXCEPT ![w].files = files, ![w].at = at] \in [Purgers -> PurgeRecords]
    BY DEF PurgeRecords
<1>4. [purge EXCEPT ![w].at = at, ![w].id = id, ![w].files = files]
          \in [Purgers -> PurgeRecords]
    BY ZenonT(60) DEF PurgeRecords
<1> QED
    BY <1>1, <1>2, <1>3, <1>4

\* There is always an id that no purge remembers: there are more ids than purges.
LEMMA FreshIdIsFresh ==
    FreshId \in RowIds /\ \A w \in Purgers : purge[w].id # FreshId
<1>1. \E i \in RowIds : \A w \in Purgers : purge[w].id # i
    <2> SUFFICES ASSUME \A i \in RowIds : \E w \in Purgers : purge[w].id = i PROVE FALSE
        OBVIOUS
    <2> DEFINE owner == [i \in RowIds |-> CHOOSE w \in Purgers : purge[w].id = i]
    <2>1. Cardinality(Purgers) \in Nat
        BY NarrationAssumption, FS_CardinalityType
    <2>2. IsFiniteSet(RowIds) /\ Cardinality(Purgers) < Cardinality(RowIds)
        BY <2>1, FS_Interval DEF RowIds
    <2>3. \A i \in RowIds : owner[i] \in Purgers /\ purge[owner[i]].id = i
        OBVIOUS
    <2>4. owner \in [RowIds -> Purgers]
        BY <2>3
    <2> HIDE DEF owner
    <2>5. \E i, j \in RowIds : i # j /\ owner[i] = owner[j]
        BY <2>2, <2>4, NarrationAssumption, FS_PigeonHole
    <2> QED
        BY <2>3, <2>5
<1> QED
    BY <1>1 DEF FreshId

LEMMA RowIdsArePositive == NoRow \notin RowIds
BY NarrationAssumption, FS_CardinalityType DEF NoRow, RowIds

LEMMA InitIInv == Init => IInv
<1> SUFFICES ASSUME Init PROVE IInv
    OBVIOUS
<1>1. TypeOK
    <2>1. play \in [Players -> [at : {"idle", "get", "putAudio", "putMarks", "retain"},
                                deck : Decks \cup {"none"}]]
        BY DEF Init, NoPlay
    <2>2. purge \in [Purgers -> PurgeRecords]
        BY DEF Init, NoPurge, PurgeRecords, PurgeSteps
    <2>3. failures \in 0..MaxFailures
        BY NarrationAssumption DEF Init
    <2> QED
        BY <2>1, <2>2, <2>3 DEF Init, TypeOK, PurgeRecords, PurgeSteps
<1>2. PlayInv /\ PurgeInv /\ HoldersInv /\ HoldersKeepTheirAudio
    BY DEF Init, PlayInv, PurgeInv, HoldersInv, HoldersKeepTheirAudio, NoPlay, NoPurge
<1>3. ClaimsAreNotForgotten
    BY DEF Init, ClaimsAreNotForgotten
<1>4. Seen
    BY DEF Init, Seen, RefsAreLectures, EmptyRowIsSeen, FileIsSeen
<1> QED
    BY <1>1, <1>2, <1>3, <1>4 DEF IInv, SeenInv

LEMMA TypeStep == TypeOK /\ PlayInv /\ [Next]_vars => TypeOK'
<1> SUFFICES ASSUME TypeOK, PlayInv, [Next]_vars PROVE TypeOK'
    OBVIOUS
<1>0. purge \in [Purgers -> PurgeRecords]
    BY DEF TypeOK, PurgeRecords, PurgeSteps
<1>t. ASSUME purge' \in [Purgers -> PurgeRecords], row' \in RowIds \cup {NoRow},
             refs' \subseteq refs, row' = NoRow => refs' = {}, stored' \subseteq Files,
             holders' \in [Purgers -> SUBSET Decks], failures' \in 0..MaxFailures,
             leaked' \in BOOLEAN, claimed' \subseteq Decks, UNCHANGED <<deck, play>>
      PROVE  TypeOK'
    BY <1>t DEF TypeOK, PurgeRecords, PurgeSteps
<1> USE DEF TypeOK
<1>1. ASSUME NEW p \in Players, NEW d \in Decks, StartPlay(p, d) PROVE TypeOK'
    BY <1>1 DEF StartPlay
<1>2. ASSUME NEW p \in Players, GetAudio(p) PROVE TypeOK'
    BY <1>2 DEF GetAudio, PlayTo
<1>3. ASSUME NEW p \in Players, PutAudio(p) \/ PutMarks(p) PROVE TypeOK'
    <2>2. stored' \subseteq Files
        BY <1>3 DEF PutAudio, PutMarks, Put, Files
    <2>3. play' \in [Players -> [at : {"idle", "get", "putAudio", "putMarks", "retain"},
                                 deck : Decks \cup {"none"}]]
        BY <1>3 DEF PutAudio, PutMarks, Put, PlayTo
    <2> QED
        BY <1>3, <2>2, <2>3 DEF PutAudio, PutMarks, Put
<1>4. ASSUME NEW p \in Players, Retain(p) PROVE TypeOK'
    <2>1. play[p].deck \in Decks
        BY <1>4 DEF PlayInv, Retain, PlayAt
    <2>2. leaked' \in BOOLEAN
        BY <1>4, Zenon DEF Retain
    <2>3. row' \in RowIds
        BY <1>4, FreshIdIsFresh DEF Retain, RetainTtsObject
    <2>4. refs' \subseteq Decks /\ claimed' \subseteq Decks
        BY <1>4, <2>1 DEF Retain, RetainTtsObject
    <2>5. play' \in [Players -> [at : {"idle", "get", "putAudio", "putMarks", "retain"},
                                 deck : Decks \cup {"none"}]]
        BY <1>4 DEF Retain, NoPlay
    <2> QED
        BY <1>4, <2>2, <2>3, <2>4, <2>5, RowIdsArePositive DEF Retain
<1>5. ASSUME NEW p \in Players, RetainFailed(p) PROVE TypeOK'
    BY <1>5, NarrationAssumption DEF RetainFailed, Fail, NoPlay
<1>6. ASSUME NEW p \in Players, PlayFailed(p) PROVE TypeOK'
    <2>1. leaked' \in BOOLEAN
        BY <1>6, Zenon DEF PlayFailed
    <2> QED
        BY <1>6, <2>1, NarrationAssumption DEF PlayFailed, Fail, NoPlay
<1>7. ASSUME NEW d \in Decks, DeleteDeck(d) PROVE TypeOK'
    BY <1>7 DEF DeleteDeck
<1>8. ASSUME NEW w \in Purgers, NEW ids \in SUBSET Decks, StartPurge(w, ids) PROVE TypeOK'
    BY <1>8 DEF StartPurge, NoPurge
<1>9. ASSUME NEW w \in Purgers, FindTouched(w) PROVE TypeOK'
    <2>1. purge' \in [Purgers -> PurgeRecords]
        <3>1. CASE Touched(w)
            <4>1. purge' = [purge EXCEPT ![w].at = "pull", ![w].id = row]
                BY <1>9, <3>1 DEF FindTouched
            <4> QED
                BY <1>0, <4>1, PurgeMoves, ZenonT(60) DEF PurgeSteps
        <3>2. CASE ~Touched(w)
            <4>1. purge' = [purge EXCEPT ![w].at = "remove", ![w].id = NoRow]
                BY <1>9, <3>2 DEF FindTouched
            <4> QED
                BY <1>0, <4>1, PurgeMoves, ZenonT(60) DEF PurgeSteps
        <3> QED
            BY <3>1, <3>2
    <2>2. holders' \in [Purgers -> SUBSET Decks]
        BY <1>9 DEF FindTouched
    <2> QED
        BY <1>9, <1>t, <2>1, <2>2 DEF FindTouched
<1>10. ASSUME NEW w \in Purgers, Pull(w) PROVE TypeOK'
    <2>1. holders' \in [Purgers -> SUBSET Decks]
        BY <1>10 DEF Pull
    <2>2. refs' \subseteq refs /\ claimed' \subseteq Decks
        BY <1>10 DEF Pull
    <2> QED
        BY <1>10, <2>1, <2>2, SMTT(30) DEF Pull, PurgeTo
<1>11. ASSUME NEW w \in Purgers, FindOrphans(w) PROVE TypeOK'
    <2>1. purge' \in [Purgers -> PurgeRecords]
        <3>1. CASE purge' = [purge EXCEPT ![w].at = "deleteRow"]
            BY <1>0, <3>1, SMTT(30) DEF PurgeRecords, PurgeSteps
        <3>2. CASE purge' = [purge EXCEPT ![w].at = "remove", ![w].id = NoRow]
            BY <1>0, <3>2, PurgeMoves, ZenonT(60) DEF PurgeSteps
        <3> QED
            BY <1>11, <3>1, <3>2 DEF FindOrphans, PurgeTo
    <2>2. holders' \in [Purgers -> SUBSET Decks]
        BY <1>11 DEF FindOrphans
    <2> QED
        BY <1>11, <1>t, <2>1, <2>2 DEF FindOrphans
<1>12. ASSUME NEW w \in Purgers, DeleteRow(w) PROVE TypeOK'
    <2>1. purge' \in [Purgers -> PurgeRecords]
        BY <1>0, <1>12, PurgeMoves, ZenonT(60) DEF DeleteRow, PurgeSteps
    <2> QED
        BY <1>12, <1>t, <2>1 DEF DeleteRow
<1>13. ASSUME NEW w \in Purgers, NEW f \in Files, DeleteFile(w, f) \/ DeleteFileFailed(w, f)
       PROVE TypeOK'
    <2>1. AfterFile(w, f)
        BY <1>13 DEF DeleteFile, DeleteFileFailed
    <2>2. FilesLeft(w, f) \in SUBSET Files
        BY DEF FilesLeft
    <2>3. purge' \in [Purgers -> PurgeRecords]
        <3>1. PICK at \in PurgeSteps :
                  purge' = [purge EXCEPT ![w].files = FilesLeft(w, f), ![w].at = at]
            BY <2>1 DEF AfterFile, PurgeSteps
        <3> QED
            BY <1>0, <2>2, <3>1, PurgeMoves
    <2>4. stored' \subseteq Files /\ leaked' \in BOOLEAN /\ claimed' \subseteq Decks
        BY <1>13 DEF DeleteFile, DeleteFileFailed
    <2>5. failures' \in 0..MaxFailures /\ UNCHANGED <<deck, row, refs, play, holders>>
        BY <1>13, NarrationAssumption DEF DeleteFile, DeleteFileFailed, Fail
    <2> QED
        BY <1>t, <2>3, <2>4, <2>5
<1>14. ASSUME NEW w \in Purgers, RemoveDecks(w) PROVE TypeOK'
    BY <1>14 DEF RemoveDecks, NoPurge
<1>15. ASSUME NEW w \in Purgers, PurgeFailed(w) PROVE TypeOK'
    <2>1. leaked' \in BOOLEAN
        BY <1>15, Zenon DEF PurgeFailed
    <2> QED
        BY <1>15, <2>1, NarrationAssumption DEF PurgeFailed, Fail, NoPurge
<1>16. ASSUME UNCHANGED vars PROVE TypeOK'
    BY <1>16 DEF vars
<1> QED
    BY <1>1, <1>2, <1>3, <1>4, <1>5, <1>6, <1>7, <1>8, <1>9, <1>10, <1>11, <1>12, <1>13,
       <1>14, <1>15, <1>16 DEF Next

LEMMA PlayStep == TypeOK /\ PlayInv /\ [Next]_vars => PlayInv'
<1> SUFFICES ASSUME TypeOK, PlayInv, [Next]_vars PROVE PlayInv'
    OBVIOUS
<1> USE DEF TypeOK, PlayInv
<1>1. ASSUME NEW p \in Players, NEW d \in Decks, StartPlay(p, d) PROVE PlayInv'
    BY <1>1 DEF StartPlay
<1>2. ASSUME NEW p \in Players, GetAudio(p) PROVE PlayInv'
    BY <1>2 DEF GetAudio, PlayTo, PlayAt
<1>3. ASSUME NEW p \in Players, PutAudio(p) \/ PutMarks(p) PROVE PlayInv'
    BY <1>3 DEF PutAudio, PutMarks, Put, PlayTo, PlayAt
<1>4. ASSUME NEW p \in Players, Retain(p) \/ RetainFailed(p) \/ PlayFailed(p) PROVE PlayInv'
    BY <1>4, SMTT(30) DEF Retain, RetainFailed, PlayFailed, NoPlay
<1>5. ASSUME UNCHANGED play PROVE PlayInv'
    BY <1>5
<1> QED
    BY <1>1, <1>2, <1>3, <1>4, <1>5 DEF Next, vars, DeleteDeck, StartPurge, FindTouched, Pull,
       FindOrphans, DeleteRow, DeleteFile, DeleteFileFailed, RemoveDecks, PurgeFailed

-----------------------------------------------------------------------------
(* The purge's own steps.                                                  *)

\* What FindTouched to DeleteFile leave in the purge's record, and that they leave
\* the other purges alone.
LEMMA PurgeStep == TypeOK /\ PurgeInv /\ [Next]_vars => PurgeInv'
<1> SUFFICES ASSUME TypeOK, PurgeInv, [Next]_vars PROVE PurgeInv'
    OBVIOUS
<1> USE DEF TypeOK, PurgeInv
<1>1. ASSUME NEW w \in Purgers, NEW ids \in SUBSET Decks, StartPurge(w, ids) PROVE PurgeInv'
    BY <1>1 DEF StartPurge, NoPurge
<1>2. ASSUME NEW w \in Purgers, FindTouched(w) PROVE PurgeInv'
    BY <1>2, ZenonT(60) DEF FindTouched, Touched
<1>3. ASSUME NEW w \in Purgers, Pull(w) PROVE PurgeInv'
    BY <1>3 DEF Pull, PurgeAt, PurgeTo
<1>4. ASSUME NEW w \in Purgers, FindOrphans(w) PROVE PurgeInv'
    <2>1. /\ purge[w].at = "orphans" /\ \A x \in Purgers \ {w} : purge'[x] = purge[x]
          /\ \/ purge'[w].at = "deleteRow" /\ purge'[w].id = purge[w].id
             \/ purge'[w].at = "remove"
        BY <1>4 DEF FindOrphans, PurgeAt, PurgeTo
    <2> QED
        BY <2>1
<1>5. ASSUME NEW w \in Purgers, DeleteRow(w) PROVE PurgeInv'
    BY <1>5 DEF DeleteRow, Files
<1>6. ASSUME NEW w \in Purgers, NEW f \in Files, AfterFile(w, f) PROVE PurgeInv'
    BY <1>6 DEF AfterFile
<1>7. ASSUME NEW w \in Purgers, RemoveDecks(w) \/ PurgeFailed(w) PROVE PurgeInv'
    BY <1>7 DEF RemoveDecks, PurgeFailed, NoPurge
<1>8. ASSUME UNCHANGED purge PROVE PurgeInv'
    BY <1>8
<1> QED
    BY <1>1, <1>2, <1>3, <1>4, <1>5, <1>6, <1>7, <1>8
    DEF Next, vars, StartPlay, GetAudio, PutAudio, PutMarks, Put, Retain, RetainFailed,
        PlayFailed, DeleteDeck, DeleteFile, DeleteFileFailed

-----------------------------------------------------------------------------
(* The lectures that hold the object while it is purged.                   *)

LEMMA HoldersStep ==
    TypeOK /\ PurgeInv /\ HoldersInv /\ HoldersKeepTheirAudio /\ [Next]_vars
        => HoldersInv' /\ HoldersKeepTheirAudio'
<1> SUFFICES ASSUME TypeOK, PurgeInv, HoldersInv, HoldersKeepTheirAudio, [Next]_vars
             PROVE  HoldersInv' /\ HoldersKeepTheirAudio'
    OBVIOUS
<1> USE DEF TypeOK, HoldersInv, HoldersKeepTheirAudio
<1>1. ASSUME NEW p \in Players, Retain(p) PROVE HoldersInv' /\ HoldersKeepTheirAudio'
    <2>1. UNCHANGED <<purge, holders>> /\ refs \subseteq refs'
        BY <1>1 DEF Retain, RetainTtsObject
    <2>2. \A w \in Purgers : purge[w].at \in {"pull", "orphans"} /\ row' = purge[w].id
              => row = purge[w].id
        BY <1>1, FreshIdIsFresh DEF Retain, RetainTtsObject
    <2> QED
        BY <2>1, <2>2
<1>2. ASSUME NEW w \in Purgers, NEW ids \in SUBSET Decks, StartPurge(w, ids)
      PROVE  HoldersInv' /\ HoldersKeepTheirAudio'
    BY <1>2 DEF StartPurge, NoPurge
<1>3. ASSUME NEW w \in Purgers, FindTouched(w) PROVE HoldersInv' /\ HoldersKeepTheirAudio'
    <2>1. /\ purge'[w].at \in {"pull", "remove"}
          /\ purge'[w].at = "pull" => holders'[w] \subseteq refs
        BY <1>3 DEF FindTouched
    <2>2. /\ \A x \in Purgers \ {w} : purge'[x] = purge[x] /\ holders'[x] = holders[x]
          /\ UNCHANGED <<row, refs>>
        BY <1>3 DEF FindTouched
    <2> QED
        BY <2>1, <2>2
<1>4. ASSUME NEW w \in Purgers, Pull(w) PROVE HoldersInv' /\ HoldersKeepTheirAudio'
    <2>1. /\ purge[w].at = "pull" /\ purge'[w].at = "orphans" /\ purge'[w].id = purge[w].id
          /\ \A x \in Purgers \ {w} : purge'[x] = purge[x]
          /\ UNCHANGED row
        BY <1>4 DEF Pull, PurgeAt, PurgeTo
    <2>2. CASE row = purge[w].id
        <3>1. refs' = refs \ purge[w].decks
              /\ \A x \in Purgers : holders'[x] = holders[x] \ purge[w].decks
            BY <1>4, <2>2 DEF Pull
        <3> QED
            BY <2>1, <3>1
    <2>3. CASE row # purge[w].id
        <3>1. refs' = refs /\ \A x \in Purgers : holders'[x] = holders[x]
            BY <1>4, <2>3 DEF Pull
        <3> QED
            BY <2>1, <3>1
    <2> QED
        BY <2>2, <2>3
<1>5. ASSUME NEW w \in Purgers, FindOrphans(w) PROVE HoldersInv' /\ HoldersKeepTheirAudio'
    <2>1. /\ \A x \in Purgers \ {w} : purge'[x] = purge[x] /\ holders'[x] = holders[x]
          /\ UNCHANGED <<row, refs>>
        BY <1>5 DEF FindOrphans, PurgeTo
    <2>2. purge'[w].at \in {"deleteRow", "remove"}
        BY <1>5 DEF FindOrphans, PurgeTo
    <2>3. purge'[w].at = "deleteRow" => holders'[w] = {}
        BY <1>5 DEF FindOrphans, PurgeTo, PurgeAt, Orphaned
    <2> QED
        BY <2>1, <2>2, <2>3
<1>6. ASSUME NEW w \in Purgers, DeleteRow(w) PROVE HoldersInv' /\ HoldersKeepTheirAudio'
    <2>1. /\ purge[w].at = "deleteRow" /\ purge'[w].at = "files" /\ UNCHANGED holders
          /\ \A x \in Purgers \ {w} : purge'[x] = purge[x]
        BY <1>6 DEF DeleteRow, PurgeAt
    <2>2. \/ row' = NoRow
          \/ row' = row /\ refs' = refs
        BY <1>6 DEF DeleteRow
    <2> QED
        BY <2>1, <2>2 DEF PurgeInv
<1>7. ASSUME NEW w \in Purgers, NEW f \in Files, DeleteFile(w, f) \/ DeleteFileFailed(w, f)
      PROVE  HoldersInv' /\ HoldersKeepTheirAudio'
    <2>1. /\ purge[w].at = "files" /\ purge'[w].at \in {"files", "remove"}
          /\ \A x \in Purgers \ {w} : purge'[x] = purge[x]
          /\ UNCHANGED <<row, refs, holders>>
        BY <1>7 DEF DeleteFile, DeleteFileFailed, AfterFile, PurgeAt
    <2> QED
        BY <2>1
<1>8. ASSUME NEW w \in Purgers, RemoveDecks(w) \/ PurgeFailed(w)
      PROVE  HoldersInv' /\ HoldersKeepTheirAudio'
    <2>1. /\ purge'[w].at = "idle" /\ UNCHANGED <<row, refs>>
          /\ \A x \in Purgers \ {w} : purge'[x] = purge[x] /\ holders'[x] = holders[x]
        BY <1>8 DEF RemoveDecks, PurgeFailed, NoPurge
    <2> QED
        BY <2>1
<1>9. ASSUME UNCHANGED <<row, refs, purge, holders>> PROVE HoldersInv' /\ HoldersKeepTheirAudio'
    BY <1>9
<1> QED
    BY <1>1, <1>2, <1>3, <1>4, <1>5, <1>6, <1>7, <1>8, <1>9
    DEF Next, vars, StartPlay, GetAudio, PutAudio, PutMarks, Put, RetainFailed, PlayFailed,
        DeleteDeck

-----------------------------------------------------------------------------
(* Claims.                                                                 *)

LEMMA ClaimsStep ==
    TypeOK /\ ClaimsAreNotForgotten /\ [Next]_vars => ClaimsAreNotForgotten'
<1> DEFINE Taking(w) == purge[w].at = "files" /\ "audio" \in purge[w].files
<1> SUFFICES ASSUME TypeOK, ClaimsAreNotForgotten, [Next]_vars, ~leaked'
             PROVE  claimed' \subseteq refs' \/ \E w \in Purgers : Taking(w)'
    BY DEF ClaimsAreNotForgotten, PurgeAt
<1>0. ~leaked => claimed \subseteq refs \/ \E w \in Purgers : Taking(w)
    BY DEF ClaimsAreNotForgotten, PurgeAt
<1> DEFINE Goal == claimed' \subseteq refs' \/ \E w \in Purgers : Taking(w)'
<1> USE DEF TypeOK, PlayAt, PurgeAt
<1>1. ASSUME leaked' = leaked, claimed \subseteq refs => claimed' \subseteq refs',
             \A w \in Purgers : Taking(w) => Taking(w)'
      PROVE  Goal
    BY <1>0, <1>1
<1>2. ASSUME NEW p \in Players, Retain(p) PROVE Goal
    <2>1. ~leaked
        BY <1>2, Zenon DEF Retain
    <2>2. claimed' = claimed \cup {play[p].deck} /\ refs' = refs \cup {play[p].deck}
          /\ purge' = purge
        BY <1>2 DEF Retain, RetainTtsObject
    <2> QED
        BY <1>0, <2>1, <2>2
<1>3. ASSUME NEW p \in Players, PutAudio(p) \/ PutMarks(p) \/ GetAudio(p) PROVE Goal
    BY <1>1, <1>3 DEF PutAudio, PutMarks, Put, GetAudio
<1>4. ASSUME NEW p \in Players, RetainFailed(p) \/ PlayFailed(p) PROVE Goal
    <2>1. ~leaked \/ leaked'
        BY <1>4, Zenon DEF RetainFailed, PlayFailed
    <2>2. UNCHANGED <<refs, claimed, purge>>
        BY <1>4 DEF RetainFailed, PlayFailed
    <2> QED
        BY <1>0, <2>1, <2>2
<1>5. ASSUME NEW w \in Purgers, NEW ids \in SUBSET Decks, StartPurge(w, ids) PROVE Goal
    BY <1>1, <1>5 DEF StartPurge
<1>6. ASSUME NEW w \in Purgers, FindTouched(w) PROVE Goal
    BY <1>1, <1>6 DEF FindTouched
<1>7. ASSUME NEW w \in Purgers, Pull(w) PROVE Goal
    <2>1. /\ leaked' = leaked /\ purge[w].at = "pull"
          /\ \A x \in Purgers \ {w} : purge'[x] = purge[x]
        BY <1>7 DEF Pull, PurgeTo
    <2>2. claimed \subseteq refs => claimed' \subseteq refs'
        BY <1>7 DEF Pull
    <2> QED
        BY <1>1, <2>1, <2>2
<1>8. ASSUME NEW w \in Purgers, FindOrphans(w) PROVE Goal
    BY <1>1, <1>8 DEF FindOrphans, PurgeTo
<1>9. ASSUME NEW w \in Purgers, DeleteRow(w) PROVE Goal
    <2>1. Taking(w)'
        BY <1>9 DEF DeleteRow, Files
    <2> QED
        BY <2>1
<1>10. ASSUME NEW w \in Purgers, NEW f \in Files, DeleteFile(w, f) PROVE Goal
    <2>1. CASE f = "audio"
        BY <1>10, <2>1 DEF DeleteFile
    <2>2. CASE f # "audio"
        <3>1. UNCHANGED <<refs, claimed, leaked>>
            BY <1>10, <2>2 DEF DeleteFile
        <3>2. /\ purge'[w].files = purge[w].files \ {f}
              /\ purge'[w].at = IF purge'[w].files = {} THEN "remove" ELSE "files"
              /\ \A x \in Purgers \ {w} : purge'[x] = purge[x]
            BY <1>10 DEF DeleteFile, AfterFile, FilesLeft
        <3> QED
            BY <1>1, <2>2, <3>1, <3>2
    <2> QED
        BY <2>1, <2>2
<1>11. ASSUME NEW w \in Purgers, NEW f \in Files, DeleteFileFailed(w, f) PROVE FALSE
    BY <1>11 DEF DeleteFileFailed
<1>12. ASSUME NEW w \in Purgers, RemoveDecks(w) PROVE Goal
    BY <1>1, <1>12 DEF RemoveDecks
<1>13. ASSUME NEW w \in Purgers, PurgeFailed(w) PROVE Goal
    <2>1. ~leaked /\ purge[w].at # "files"
        BY <1>13, Zenon DEF PurgeFailed
    <2>2. UNCHANGED <<refs, claimed>> /\ \A x \in Purgers \ {w} : purge'[x] = purge[x]
        BY <1>13 DEF PurgeFailed
    <2> QED
        BY <1>0, <2>1, <2>2
<1>14. ASSUME UNCHANGED <<refs, claimed, leaked, purge>> PROVE Goal
    BY <1>1, <1>14
<1> QED
    BY <1>2, <1>3, <1>4, <1>5, <1>6, <1>7, <1>8, <1>9, <1>10, <1>11, <1>12, <1>13, <1>14
    DEF Next, vars, StartPlay, DeleteDeck

-----------------------------------------------------------------------------
(* Nothing is lost sight of.                                               *)

\* A playback's step keeps the rows' side: it touches neither row nor purges.
LEMMA SeenByPlay ==
    ASSUME TypeOK, Seen, UNCHANGED <<deck, row, refs, purge>>,
           NEW p \in Players, \A q \in Players \ {p} : play'[q] = play[q],
           play[p].at \in {"putMarks", "retain"} => play'[p].at \in {"putMarks", "retain"},
           stored' = stored \/ play'[p].at \in {"putMarks", "retain"}
    PROVE  Seen'
<1>1. RefsAreLectures' /\ EmptyRowIsSeen'
    BY DEF Seen, RefsAreLectures, EmptyRowIsSeen, Dropped, PurgeAt
<1>2. FileIsSeen'
    BY DEF Seen, FileIsSeen, PurgeAt
<1> QED
    BY <1>1, <1>2 DEF Seen

\* A purge's step that deletes no file and no row and adds no reference.
LEMMA SeenByPurge ==
    ASSUME TypeOK, Seen, UNCHANGED <<deck, stored, row, play>>, refs' \subseteq refs,
           NEW w \in Purgers, \A x \in Purgers \ {w} : purge'[x] = purge[x],
           purge[w].at # "files", purge'[w].at # "files",
           Dropped(w)' => refs' \cap purge'[w].decks = {},
           row # NoRow /\ refs' = {} =>
               \/ purge'[w].at \in {"orphans", "deleteRow"} /\ row = purge'[w].id
               \/ /\ refs = {}
                  /\ ~(purge[w].at \in {"orphans", "deleteRow"} /\ row = purge[w].id)
    PROVE  Seen'
<1>1. RefsAreLectures'
    BY DEF Seen, RefsAreLectures, Dropped, PurgeAt
<1>2. EmptyRowIsSeen'
    BY DEF Seen, EmptyRowIsSeen
<1>3. FileIsSeen'
    BY DEF Seen, FileIsSeen, PurgeAt
<1> QED
    BY <1>1, <1>2, <1>3 DEF Seen

LEMMA SeenStep == TypeOK /\ PlayInv /\ PurgeInv /\ SeenInv /\ [Next]_vars => SeenInv'
<1> SUFFICES ASSUME TypeOK, PlayInv, PurgeInv, SeenInv, [Next]_vars, ~leaked' PROVE Seen'
    BY DEF SeenInv
<1> USE DEF PlayAt, PurgeAt
<1>0. ~leaked => Seen
    BY DEF SeenInv
<1>1. ASSUME NEW p \in Players, NEW d \in Decks, StartPlay(p, d) PROVE Seen'
    <2>1. ~leaked /\ play[p].at = "idle" /\ UNCHANGED <<deck, stored, row, refs, purge>>
        BY <1>1 DEF StartPlay
    <2>2. \A q \in Players \ {p} : play'[q] = play[q]
        BY <1>1 DEF StartPlay, TypeOK
    <2> QED
        BY <1>0, <2>1, <2>2, SeenByPlay
<1>2. ASSUME NEW p \in Players, GetAudio(p) PROVE Seen'
    <2>1. ~leaked /\ play[p].at = "get" /\ UNCHANGED <<deck, stored, row, refs, purge>>
        BY <1>2 DEF GetAudio
    <2>2. \A q \in Players \ {p} : play'[q] = play[q]
        BY <1>2 DEF GetAudio, PlayTo, TypeOK
    <2> QED
        BY <1>0, <2>1, <2>2, SeenByPlay
<1>3. ASSUME NEW p \in Players, PutAudio(p) \/ PutMarks(p) PROVE Seen'
    <2>1. ~leaked /\ UNCHANGED <<deck, row, refs, purge>>
        BY <1>3 DEF PutAudio, PutMarks, Put
    <2>2. play'[p].at \in {"putMarks", "retain"} /\ \A q \in Players \ {p} : play'[q] = play[q]
        BY <1>3 DEF PutAudio, PutMarks, Put, PlayTo, TypeOK
    <2> QED
        BY <1>0, <2>1, <2>2, SeenByPlay
<1>4. ASSUME NEW p \in Players, Retain(p) PROVE Seen'
    <2> DEFINE d == play[p].deck
    <2>1. ~leaked /\ ~Released(d)
        BY <1>4, Zenon DEF Retain
    <2>2. Seen
        BY <1>0, <2>1
    <2>3. refs' = refs \cup {d} /\ UNCHANGED <<deck, stored, purge>>
        BY <1>4 DEF Retain, RetainTtsObject
    <2>4. row' # NoRow /\ (row = NoRow \/ row' = row)
        BY <1>4, FreshIdIsFresh, RowIdsArePositive DEF Retain, RetainTtsObject
    <2>5. deck[d] # "gone"
        BY <2>1 DEF Released
    <2>6. ASSUME NEW w \in Purgers, Dropped(w)' PROVE Dropped(w) /\ d \notin purge[w].decks
        <3>1. Dropped(w)
            BY <2>3, <2>4, <2>6 DEF Dropped, PurgeInv
        <3> QED
            BY <2>1, <3>1 DEF Released, Dropped
    <2>7. RefsAreLectures'
        BY <2>2, <2>3, <2>5, <2>6 DEF Seen, RefsAreLectures
    <2>8. EmptyRowIsSeen' /\ FileIsSeen'
        BY <2>3, <2>4 DEF EmptyRowIsSeen, FileIsSeen
    <2> QED
        BY <2>7, <2>8 DEF Seen
<1>5. ASSUME NEW p \in Players, RetainFailed(p) PROVE Seen'
    BY <1>5 DEF RetainFailed
<1>6. ASSUME NEW p \in Players, PlayFailed(p) PROVE Seen'
    <2>1. ~leaked /\ play[p].at # "putMarks"
        BY <1>6, Zenon DEF PlayFailed
    <2>2. play[p].at = "putAudio" /\ UNCHANGED <<deck, stored, row, refs, purge>>
        BY <1>6, <2>1 DEF PlayFailed
    <2>3. \A q \in Players \ {p} : play'[q] = play[q]
        BY <1>6 DEF PlayFailed, TypeOK
    <2> QED
        BY <1>0, <2>1, <2>2, <2>3, SeenByPlay
<1>7. ASSUME NEW d \in Decks, DeleteDeck(d) PROVE Seen'
    <2>1. ~leaked /\ UNCHANGED <<stored, row, refs, play, purge>>
        BY <1>7 DEF DeleteDeck
    <2>2. \A e \in Decks : deck'[e] = "gone" => deck[e] = "gone"
        BY <1>7 DEF DeleteDeck, TypeOK
    <2>3. refs \subseteq Decks
        BY DEF TypeOK
    <2> QED
        BY <1>0, <2>1, <2>2, <2>3
        DEF Seen, RefsAreLectures, Dropped, EmptyRowIsSeen, FileIsSeen
<1>8. ASSUME NEW w \in Purgers, NEW ids \in SUBSET Decks, StartPurge(w, ids) PROVE Seen'
    <2>1. ~leaked /\ UNCHANGED <<deck, stored, row, refs, play>> /\ purge[w].at = "idle"
        BY <1>8 DEF StartPurge
    <2>2. purge'[w].at = "find" /\ \A x \in Purgers \ {w} : purge'[x] = purge[x]
        BY <1>8 DEF StartPurge, NoPurge, TypeOK
    <2>3. ~Dropped(w)'
        BY <2>2 DEF Dropped
    <2> QED
        BY <1>0, <2>1, <2>2, <2>3, SeenByPurge
<1>9. ASSUME NEW w \in Purgers, FindTouched(w) PROVE Seen'
    <2>1. ~leaked /\ UNCHANGED <<deck, stored, row, refs, play>> /\ purge[w].at = "find"
        BY <1>9 DEF FindTouched
    <2>2. \A x \in Purgers \ {w} : purge'[x] = purge[x]
        BY <1>9 DEF FindTouched, TypeOK
    <2>3. CASE Touched(w)
        <3>1. purge'[w].at = "pull" /\ purge'[w].id = row
            BY <1>9, <2>3 DEF FindTouched, TypeOK
        <3>2. ~Dropped(w)'
            BY <2>1, <3>1 DEF Dropped
        <3> QED
            BY <1>0, <2>1, <2>2, <3>1, <3>2, SeenByPurge
    <2>4. CASE ~Touched(w)
        <3>1. purge'[w].at = "remove" /\ purge'[w].decks = purge[w].decks
            BY <1>9, <2>4 DEF FindTouched, TypeOK
        <3>2. refs \cap purge[w].decks = {}
            BY <2>4 DEF Touched, TypeOK
        <3> QED
            BY <1>0, <2>1, <2>2, <3>1, <3>2, SeenByPurge
    <2> QED
        BY <2>3, <2>4
<1>10. ASSUME NEW w \in Purgers, Pull(w) PROVE Seen'
    <2>1. ~leaked /\ UNCHANGED <<deck, stored, row, play>> /\ purge[w].at = "pull"
        BY <1>10 DEF Pull
    <2>2. /\ purge'[w].at = "orphans" /\ purge'[w].id = purge[w].id
          /\ purge'[w].decks = purge[w].decks
          /\ \A x \in Purgers \ {w} : purge'[x] = purge[x]
        BY <1>10 DEF Pull, PurgeTo, TypeOK
    <2>3. refs' \subseteq refs /\ (row # purge[w].id => refs' = refs)
        BY <1>10 DEF Pull
    <2>4. refs' \cap purge'[w].decks = {}
        <3>1. CASE row = purge[w].id
            BY <1>10, <2>2, <3>1 DEF Pull
        <3>2. CASE row # purge[w].id
            BY <1>0, <2>1, <2>2, <2>3, <3>2 DEF Seen, RefsAreLectures, Dropped
        <3> QED
            BY <3>1, <3>2
    <2> QED
        BY <1>0, <2>1, <2>2, <2>3, <2>4, SeenByPurge
<1>11. ASSUME NEW w \in Purgers, FindOrphans(w) PROVE Seen'
    <2>1. ~leaked /\ UNCHANGED <<deck, stored, row, refs, play>> /\ purge[w].at = "orphans"
        BY <1>11 DEF FindOrphans
    <2>2. /\ purge'[w].at \in {"deleteRow", "remove"} /\ purge'[w].decks = purge[w].decks
          /\ \A x \in Purgers \ {w} : purge'[x] = purge[x]
        BY <1>11 DEF FindOrphans, PurgeTo, TypeOK
    <2>3. refs \cap purge[w].decks = {}
        BY <1>0, <2>1 DEF Seen, RefsAreLectures, Dropped
    <2>4. CASE Orphaned(w)
        <3>1. purge'[w].at = "deleteRow" /\ purge'[w].id = purge[w].id
            BY <1>11, <2>4 DEF FindOrphans, PurgeTo, TypeOK
        <3>2. row = purge[w].id
            BY <2>4 DEF Orphaned
        <3> QED
            BY <1>0, <2>1, <2>2, <2>3, <3>1, <3>2, SeenByPurge
    <2>5. CASE ~Orphaned(w)
        <3>1. refs = {} => row # purge[w].id
            BY <2>5 DEF Orphaned
        <3> QED
            BY <1>0, <2>1, <2>2, <2>3, <3>1, SeenByPurge
    <2> QED
        BY <2>4, <2>5
<1>12. ASSUME NEW w \in Purgers, DeleteRow(w) PROVE Seen'
    <2>1. ~leaked /\ UNCHANGED <<deck, stored, play>> /\ purge[w].at = "deleteRow"
        BY <1>12 DEF DeleteRow
    <2>2. /\ purge'[w].at = "files" /\ purge'[w].files = Files
          /\ purge'[w].decks = purge[w].decks
          /\ \A x \in Purgers \ {w} : purge'[x] = purge[x]
        BY <1>12 DEF DeleteRow, TypeOK
    <2>3. FileIsSeen'
        BY <2>1, <2>2 DEF FileIsSeen, TypeOK
    <2>4. CASE row = purge[w].id
        <3>1. row' = NoRow /\ refs' = {}
            BY <1>12, <2>4 DEF DeleteRow
        <3> QED
            BY <2>3, <3>1 DEF Seen, RefsAreLectures, EmptyRowIsSeen
    <2>5. CASE row # purge[w].id
        <3>1. UNCHANGED <<row, refs>>
            BY <1>12, <2>5 DEF DeleteRow
        <3>2. RefsAreLectures'
            BY <1>0, <2>1, <2>2, <3>1 DEF Seen, RefsAreLectures, Dropped
        <3>3. EmptyRowIsSeen'
            BY <1>0, <2>1, <2>2, <2>5, <3>1 DEF Seen, EmptyRowIsSeen
        <3> QED
            BY <2>3, <3>2, <3>3 DEF Seen
    <2> QED
        BY <2>4, <2>5
<1>13. ASSUME NEW w \in Purgers, NEW f \in Files, DeleteFile(w, f) PROVE Seen'
    <2>1. ~leaked /\ UNCHANGED <<deck, row, refs, play>> /\ purge[w].at = "files"
        BY <1>13 DEF DeleteFile
    <2>2. stored' = stored \ {f}
        BY <1>13 DEF DeleteFile
    <2>3. /\ purge'[w].files = purge[w].files \ {f} /\ purge'[w].decks = purge[w].decks
          /\ purge'[w].at = IF purge'[w].files = {} THEN "remove" ELSE "files"
          /\ \A x \in Purgers \ {w} : purge'[x] = purge[x]
        BY <1>13 DEF DeleteFile, AfterFile, FilesLeft, TypeOK
    <2>4. RefsAreLectures'
        BY <1>0, <2>1, <2>3 DEF Seen, RefsAreLectures, Dropped
    <2>5. EmptyRowIsSeen'
        BY <1>0, <2>1, <2>3 DEF Seen, EmptyRowIsSeen
    <2>6. FileIsSeen'
        BY <1>0, <2>1, <2>2, <2>3 DEF Seen, FileIsSeen
    <2> QED
        BY <2>4, <2>5, <2>6 DEF Seen
<1>14. ASSUME NEW w \in Purgers, NEW f \in Files, DeleteFileFailed(w, f) PROVE Seen'
    BY <1>14 DEF DeleteFileFailed
<1>15. ASSUME NEW w \in Purgers, RemoveDecks(w) PROVE Seen'
    <2>1. ~leaked /\ UNCHANGED <<stored, row, refs, play>> /\ purge[w].at = "remove"
        BY <1>15 DEF RemoveDecks
    <2>2. purge'[w].at = "idle" /\ \A x \in Purgers \ {w} : purge'[x] = purge[x]
        BY <1>15 DEF RemoveDecks, NoPurge, TypeOK
    <2>3. \A d \in Decks : deck'[d] = "gone" => deck[d] = "gone" \/ d \in purge[w].decks
        BY <1>15 DEF RemoveDecks
    <2>4. refs \cap purge[w].decks = {} /\ refs \subseteq Decks
        BY <1>0, <2>1 DEF Seen, RefsAreLectures, Dropped, TypeOK
    <2>5. RefsAreLectures'
        BY <1>0, <2>1, <2>2, <2>3, <2>4 DEF Seen, RefsAreLectures, Dropped
    <2>6. EmptyRowIsSeen' /\ FileIsSeen'
        BY <1>0, <2>1, <2>2 DEF Seen, EmptyRowIsSeen, FileIsSeen
    <2> QED
        BY <2>5, <2>6 DEF Seen
<1>16. ASSUME NEW w \in Purgers, PurgeFailed(w) PROVE Seen'
    <2>1. ~leaked /\ purge[w].at \notin {"orphans", "deleteRow", "files"}
        BY <1>16, Zenon DEF PurgeFailed
    <2>2. purge'[w].at = "idle" /\ \A x \in Purgers \ {w} : purge'[x] = purge[x]
        BY <1>16 DEF PurgeFailed, NoPurge, TypeOK
    <2>3. UNCHANGED <<deck, stored, row, refs, play>> /\ ~Dropped(w)'
        BY <1>16, <2>2 DEF PurgeFailed, Dropped
    <2> QED
        BY <1>0, <2>1, <2>2, <2>3, SeenByPurge
<1>17. ASSUME UNCHANGED vars PROVE Seen'
    BY <1>0, <1>17 DEF vars, Seen, RefsAreLectures, Dropped, EmptyRowIsSeen, FileIsSeen
<1> QED
    BY <1>1, <1>2, <1>3, <1>4, <1>5, <1>6, <1>7, <1>8, <1>9, <1>10, <1>11, <1>12, <1>13,
       <1>14, <1>15, <1>16, <1>17 DEF Next

-----------------------------------------------------------------------------
(* The theorems.                                                           *)

\* Every state of the narration cache satisfies the inductive invariant.
THEOREM Invariance == Spec => []IInv
<1>1. IInv /\ [Next]_vars => IInv'
    BY TypeStep, PlayStep, PurgeStep, HoldersStep, ClaimsStep, SeenStep DEF IInv
<1> QED
    BY InitIInv, <1>1, PTL DEF Spec

\* "A deleted lecture takes its narration with it": with every lecture removed and
\* nothing in progress, no row and no file is left (releaseTtsObjects).
THEOREM NarrationGoes == Spec => []NarrationGoesWithItsLecture
<1>1. IInv => NarrationGoesWithItsLecture
    <2> SUFFICES ASSUME IInv, ~leaked,
                        \A d \in Decks : deck[d] = "gone",
                        \A p \in Players : play[p].at = "idle",
                        \A w \in Purgers : purge[w].at = "idle"
                 PROVE  stored = {} /\ row = NoRow
        BY DEF IInv, NarrationGoesWithItsLecture, PlayAt, PurgeAt
    <2>1. Seen /\ refs \subseteq Decks
        BY DEF IInv, SeenInv, TypeOK
    <2>2. refs = {}
        BY <2>1 DEF Seen, RefsAreLectures
    <2>3. row = NoRow
        BY <2>1, <2>2 DEF Seen, EmptyRowIsSeen
    <2> QED
        BY <2>1, <2>3 DEF Seen, FileIsSeen, PurgeAt
<1> QED
    BY <1>1, Invariance, PTL

\* A purge that comes to delete the row or its files leaves no lecture behind that
\* held the object from the purge's lookup on (releaseTtsObjects).
THEOREM HoldersKeep == Spec => []HoldersKeepTheirAudio
<1>1. IInv => HoldersKeepTheirAudio
    BY DEF IInv
<1> QED
    BY <1>1, Invariance, PTL

\* A claim made while a purge is under way is kept or goes with the audio: the
\* row is deleted before the files, and by the same purge (releaseTtsObjects).
THEOREM ClaimsStand == Spec => []ClaimsAreNotForgotten
<1>1. IInv => ClaimsAreNotForgotten
    BY DEF IInv
<1> QED
    BY <1>1, Invariance, PTL

-----------------------------------------------------------------------------
(*                              SlideOrder                                 *)

-----------------------------------------------------------------------------
(* The inductive invariant.                                                *)

Places == {"idle", "load", "read", "create", "tombstone", "save", "renumber",
           "next", "done", "refused", "dead"}
RequestRecords ==
    [at : Places, kind : Kinds \union {"none"}, target : Slides \union {NoSlide},
     copy : Seq(Slides), seen : Nat, made : Seq(Slides),
     todo : SUBSET (Slides \X Nat), pending : SUBSET Slides, splits : 0..MaxSplits,
     kept : SUBSET Slides, gone : SUBSET Slides]

OrderShape ==
    /\ order \in Seq(Slides) /\ version \in Nat
    /\ slide \in [Slides -> {"none", "live", "deleted"}]
    /\ index \in [Slides -> Nat]
    /\ req \in [Requests -> RequestRecords]
    /\ \A r \in Requests : req[r].seen <= version
    /\ deaths \in 0..MaxDeaths
    /\ alone \in [Requests -> BOOLEAN]

\* Which action is where, and what it has done before it comes there.
Inserting == {"slide.add", "slide.duplicate", "deck.splitSlide", "deck.refine"}
PlaceInv(r) ==
    /\ At(r, "load") \/ At(r, "save") => req[r].kind \in Kinds
    /\ At(r, "read") => req[r].kind \in {"deck.splitSlide", "deck.refine"}
    /\ At(r, "create") => req[r].kind \in Inserting
    /\ At(r, "tombstone") => req[r].kind = "slide.delete"
    /\ At(r, "next") => req[r].kind = "deck.refine"
    /\ req[r].kind = "slide.delete" /\ (At(r, "load") \/ At(r, "tombstone")) =>
          req[r].target \in Slides
    /\ req[r].kind = "slide.delete" /\ At(r, "save") =>
          /\ req[r].target \in Slides
          /\ slide[req[r].target] = "deleted"

\* A copy is what is stored for as long as its version is, but for what the failed saves of
\* a refine job left in it; stale or not, it has each slide once.
Loaded(r) == req[r].at \in {"read", "create", "tombstone", "save", "renumber", "next"}
CopyInv(r) ==
    Loaded(r) =>
        /\ req[r].seen = version =>
              /\ Listed \subseteq Range(req[r].copy)
              /\ req[r].kind # "deck.refine" => req[r].copy = order
        /\ IsInjective(req[r].copy)
        /\ \A s \in Range(req[r].copy) : slide[s] # "none"

\* A slide that was created to be listed is on nobody's list yet.
Making(r) == req[r].at \in {"create", "save"}
Made(r) == Range(req[r].made)
MadeInv(r) ==
    /\ At(r, "load") \/ At(r, "read") => req[r].made = <<>>
    /\ req[r].kind \in {"slide.delete", "deck.reorderSlides"} => req[r].made = <<>>
    /\ Making(r) =>
          /\ IsInjective(req[r].made)
          /\ \A s \in Made(r) : /\ slide[s] # "none" /\ s \notin Listed
                                /\ s \notin Range(req[r].copy)

\* What an action saved stays true.
KeptInv(r) ==
    /\ \A s \in req[r].kept : /\ slide[s] # "none"
                              /\ slide[s] = "live" => s \in Listed
    /\ \A s \in req[r].gone : slide[s] # "none" /\ s \notin Listed

\* As long as nobody else writes, a request's copy is what is stored, and every index
\* it has not written yet is to do (a refine job's renumbering may have failed).
AloneInv(r) ==
    alone[r] =>
        /\ Loaded(r) => req[r].seen = version
        /\ At(r, "renumber") /\ req[r].kind # "deck.refine" =>
              /\ req[r].todo \subseteq Positions(order)
              /\ \A i \in DOMAIN order : slide[order[i]] = "live" =>
                    index[order[i]] = i - 1 \/ <<order[i], i - 1>> \in req[r].todo

\* What an action that renumbered by itself left behind.
RestoredInv(r) ==
    At(r, "done") /\ alone[r] /\ req[r].kind \notin {"slide.add", "deck.refine"} => IndexAgrees

RequestInv(r) ==
    /\ PlaceInv(r) /\ CopyInv(r) /\ MadeInv(r) /\ KeptInv(r)
    /\ AloneInv(r) /\ RestoredInv(r)

\* What a request may still list: the slides it made, and those of a copy it may save.
Held(r) ==
    {s \in Made(r) : Making(r)} \union
    {s \in Range(req[r].copy) \ Listed : Loaded(r) /\ req[r].seen = version}

\* It is one request's, and was on no list before.
HeldByOne(q, r) ==
    /\ q # r => Held(q) \intersect Held(r) = {}
    /\ Held(q) \intersect req[r].gone = {}

ListInv == IsInjective(order) /\ \A s \in Listed : slide[s] # "none"

OrderIInv ==
    /\ OrderShape
    /\ \A r \in Requests : RequestInv(r)
    /\ \A q, r \in Requests : HeldByOne(q, r)
    /\ ListInv

-----------------------------------------------------------------------------
(* Lists of slides.                                                        *)

LEMMA ConcatIs ==
    ASSUME NEW T, NEW s \in Seq(T), NEW new \in Seq(T)
    PROVE  /\ s \o new \in Seq(T)
           /\ Len(s \o new) = Len(s) + Len(new)
           /\ Len(s) \in Nat /\ Len(new) \in Nat
           /\ \A i \in 1..Len(s) : (s \o new)[i] = s[i]
           /\ \A i \in 1..Len(new) : (s \o new)[Len(s) + i] = new[i]
OBVIOUS

LEMMA RangeIs ==
    ASSUME NEW T, NEW s \in Seq(T)
    PROVE  DOMAIN s = 1..Len(s) /\ Range(s) = {s[i] : i \in 1..Len(s)}
BY DEF Range

\* A slide that a list has once is where indexOf finds it.
LEMMA IndexOfFinds ==
    ASSUME NEW T, NEW s \in Seq(T), IsInjective(s), NEW e, Contains(s, e)
    PROVE  IndexOf(s, e) \in 1..Len(s) /\ s[IndexOf(s, e)] = e
<1>1. PICK i \in 1..Len(s) : s[i] = e
    BY DEF Contains
<1>2. {j \in 1..Len(s) : s[j] = e} = {i}
    BY <1>1 DEF IsInjective
<1>3. IndexOf(s, e) = Min({i})
    BY <1>2 DEF IndexOf, SelectInSeq
<1>4. Min({i}) = i
    BY <1>1 DEF Min
<1> QED
    BY <1>1, <1>3, <1>4

\* New slides put into a list: its slides and theirs, each once.
LEMMA SpliceKeeps ==
    ASSUME NEW T, NEW s \in Seq(T), NEW new \in Seq(T), NEW at \in 0..Len(s)
    PROVE  LET t == SubSeq(s, 1, at) \o new \o SubSeq(s, at + 1, Len(s))
           IN  /\ t \in Seq(T)
               /\ Range(t) = Range(s) \union Range(new)
               /\ IsInjective(s) /\ IsInjective(new) /\ Range(s) \intersect Range(new) = {} =>
                    IsInjective(t)
<1> DEFINE a == SubSeq(s, 1, at)
           b == SubSeq(s, at + 1, Len(s))
           c == a \o new
           t == c \o b
<1>1. /\ a \in Seq(T) /\ Len(a) = at
      /\ \A i \in 1..at : a[i] = s[i]
    OBVIOUS
<1>2. /\ b \in Seq(T) /\ Len(b) = Len(s) - at
      /\ \A i \in 1..Len(s) - at : b[i] = s[at + i]
    OBVIOUS
<1> HIDE DEF a, b
<1>3. /\ t \in Seq(T) /\ Len(t) = Len(s) + Len(new)
      /\ \A i \in 1..at : t[i] = s[i]
      /\ \A i \in 1..Len(new) : t[at + i] = new[i]
      /\ \A i \in (at + 1)..Len(s) : t[i + Len(new)] = s[i]
    <2>1. /\ c \in Seq(T) /\ Len(c) = at + Len(new)
          /\ \A i \in 1..at : c[i] = s[i]
          /\ \A i \in 1..Len(new) : c[at + i] = new[i]
        BY <1>1
    <2> HIDE DEF c
    <2>2. t \in Seq(T) /\ Len(t) = Len(s) + Len(new)
        <3>1. t \in Seq(T) /\ Len(t) = Len(c) + Len(b)
            BY <2>1, <1>2, ConcatIs
        <3>2. Len(c) = at + Len(new) /\ Len(b) = Len(s) - at /\ Len(s) \in Nat /\ Len(new) \in Nat
            BY <2>1, <1>2
        <3> HIDE DEF t
        <3> QED
            BY <3>1, <3>2
    <2>3. \A i \in 1..(at + Len(new)) : t[i] = c[i]
        BY <2>1, <1>2
    <2>4. \A i \in 1..(Len(s) - at) : t[at + Len(new) + i] = b[i]
        BY <2>1, <1>2
    <2>5. ASSUME NEW i \in (at + 1)..Len(s) PROVE t[i + Len(new)] = s[i]
        <3>1. i - at \in 1..(Len(s) - at) /\ at + Len(new) + (i - at) = i + Len(new) /\ at + (i - at) = i
            OBVIOUS
        <3> QED
            BY <3>1, <2>4, <1>2
    <2> QED
        BY <2>1, <2>2, <2>3, <2>5
<1> HIDE DEF t
<1>4. \A i \in 1..Len(t) : \/ i \in 1..at
                           \/ \E j \in 1..Len(new) : i = at + j
                           \/ \E j \in (at + 1)..Len(s) : i = j + Len(new)
    <2> SUFFICES ASSUME NEW i \in 1..Len(t), i > at
                 PROVE  \/ \E j \in 1..Len(new) : i = at + j
                        \/ \E j \in (at + 1)..Len(s) : i = j + Len(new)
        BY <1>3
    <2>1. CASE i <= at + Len(new)
        <3>1. i - at \in 1..Len(new) /\ i = at + (i - at)
            BY <2>1
        <3> QED
            BY <3>1
    <2>2. CASE i > at + Len(new)
        <3>1. i - Len(new) \in (at + 1)..Len(s) /\ i = (i - Len(new)) + Len(new)
            BY <2>2, <1>3
        <3> QED
            BY <3>1
    <2> QED
        BY <2>1, <2>2, <1>3
<1>5. Range(t) = Range(s) \union Range(new)
    <2>1. /\ Range(t) = {t[i] : i \in 1..Len(t)}
          /\ Range(s) = {s[i] : i \in 1..Len(s)}
          /\ Range(new) = {new[i] : i \in 1..Len(new)}
        <3>1. Range(t) = {t[i] : i \in 1..Len(t)}
            BY <1>3, RangeIs
        <3>2. Range(s) = {s[i] : i \in 1..Len(s)}
            BY RangeIs
        <3>3. Range(new) = {new[i] : i \in 1..Len(new)}
            BY RangeIs
        <3> QED
            BY <3>1, <3>2, <3>3
    <2>2. ASSUME NEW i \in 1..Len(t) PROVE t[i] \in Range(s) \union Range(new)
        <3>1. CASE i \in 1..at
            BY <1>3, <2>1, <3>1
        <3>2. CASE \E j \in 1..Len(new) : i = at + j
            BY <1>3, <2>1, <3>2
        <3>3. CASE \E j \in (at + 1)..Len(s) : i = j + Len(new)
            BY <1>3, <2>1, <3>3
        <3> QED
            BY <1>4, <3>1, <3>2, <3>3
    <2>3. ASSUME NEW i \in 1..Len(s) PROVE \E j \in 1..Len(t) : s[i] = t[j]
        <3>1. CASE i <= at
            BY <3>1, <1>3
        <3>2. CASE i > at
            <4>1. i + Len(new) \in 1..Len(t) /\ t[i + Len(new)] = s[i]
                BY <3>2, <1>3
            <4> QED
                BY <4>1
        <3> QED
            BY <3>1, <3>2
    <2>4. ASSUME NEW i \in 1..Len(new) PROVE \E j \in 1..Len(t) : new[i] = t[j]
        <3>1. at + i \in 1..Len(t) /\ t[at + i] = new[i]
            BY <1>3
        <3> QED
            BY <3>1
    <2> QED
        BY <2>1, <2>2, <2>3, <2>4
<1>6. ASSUME IsInjective(s), IsInjective(new), Range(s) \intersect Range(new) = {}
      PROVE  IsInjective(t)
    <2>1. \A i \in 1..Len(s), j \in 1..Len(new) : s[i] # new[j]
        BY <1>6 DEF Range
    <2>2. \A i, j \in 1..Len(s) : s[i] = s[j] => i = j
        BY <1>6 DEF IsInjective
    <2>3. \A i, j \in 1..Len(new) : new[i] = new[j] => i = j
        BY <1>6 DEF IsInjective
    <2> DEFINE Old(i) == (i \in 1..at /\ t[i] = s[i])
                           \/ \E k \in (at + 1)..Len(s) : i = k + Len(new) /\ t[i] = s[k]
               New(i) == \E k \in 1..Len(new) : i = at + k /\ t[i] = new[k]
    <2>5. /\ Len(s) \in Nat /\ Len(new) \in Nat
          /\ \A i \in 1..Len(t) : Old(i) \/ New(i)
        BY <1>3, <1>4
    <2>6. ASSUME NEW i \in 1..Len(t), NEW j \in 1..Len(t), t[i] = t[j], Old(i), Old(j) PROVE i = j
        BY <2>2, <2>5, <2>6
    <2>7. ASSUME NEW i \in 1..Len(t), NEW j \in 1..Len(t), t[i] = t[j], New(i), New(j) PROVE i = j
        BY <2>3, <2>5, <2>7
    <2>8. ASSUME NEW i \in 1..Len(t), NEW j \in 1..Len(t), t[i] = t[j], Old(i), New(j) PROVE FALSE
        <3>1. PICK k \in 1..Len(s) : t[i] = s[k]
            BY <2>5, <2>8
        <3>2. PICK l \in 1..Len(new) : t[j] = new[l]
            BY <2>8
        <3> QED
            BY <2>1, <2>8, <3>1, <3>2
    <2> HIDE DEF Old, New
    <2>4. ASSUME NEW i \in 1..Len(t), NEW j \in 1..Len(t), t[i] = t[j] PROVE i = j
        BY <2>4, <2>5, <2>6, <2>7, <2>8
    <2> QED
        BY <1>3, <2>4 DEF IsInjective
<1> QED
    BY <1>3, <1>5, <1>6 DEF t, c, a, b

\* Several slides at the end of a list.
LEMMA AppendKeeps ==
    ASSUME NEW T, NEW s \in Seq(T), NEW new \in Seq(T)
    PROVE  /\ s \o new \in Seq(T)
           /\ Range(s \o new) = Range(s) \union Range(new)
           /\ IsInjective(s) /\ IsInjective(new) /\ Range(s) \intersect Range(new) = {} =>
                IsInjective(s \o new)
<1>1. SubSeq(s, 1, Len(s)) = s /\ SubSeq(s, Len(s) + 1, Len(s)) = <<>>
    OBVIOUS
<1>2. (s \o new) \o <<>> = s \o new
    OBVIOUS
<1>3. Len(s) \in 0..Len(s)
    OBVIOUS
<1>4. LET t == SubSeq(s, 1, Len(s)) \o new \o SubSeq(s, Len(s) + 1, Len(s))
      IN  /\ t \in Seq(T)
          /\ Range(t) = Range(s) \union Range(new)
          /\ IsInjective(s) /\ IsInjective(new) /\ Range(s) \intersect Range(new) = {} =>
               IsInjective(t)
    BY <1>3, SpliceKeeps
<1> QED
    BY <1>1, <1>2, <1>4

\* A slide taken out of a list that has each once.
LEMMA RemoveFirstKeeps ==
    ASSUME NEW T, NEW s \in Seq(T), IsInjective(s), NEW e
    PROVE  /\ RemoveFirst(s, e) \in Seq(T)
           /\ IsInjective(RemoveFirst(s, e))
           /\ Range(RemoveFirst(s, e)) = Range(s) \ {e}
<1> DEFINE t == RemoveFirst(s, e)
<1>1. CASE ~Contains(s, e)
    <2>1. t = s
        BY <1>1 DEF Contains, RemoveFirst
    <2>2. e \notin Range(s)
        BY <1>1 DEF Contains, Range
    <2> QED
        BY <2>1, <2>2
<1>2. CASE Contains(s, e)
    <2> DEFINE i == IndexOf(s, e)
               a == SubSeq(s, 1, i - 1)
               b == SubSeq(s, i + 1, Len(s))
    <2>1. i \in 1..Len(s) /\ s[i] = e
        BY <1>2, IndexOfFinds
    <2>l. Len(s) \in Nat
        OBVIOUS
    <2>t. t = a \o b
        BY <1>2 DEF Contains, RemoveFirst, RemoveAt, IndexOf
    <2> HIDE DEF i, t
    <2>a. a \in Seq(T) /\ Len(a) = i - 1 /\ \A j \in 1..(i - 1) : a[j] = s[j]
        BY <2>1
    <2>b. b \in Seq(T) /\ Len(b) = Len(s) - i /\ \A j \in 1..(Len(s) - i) : b[j] = s[i + j]
        BY <2>1
    <2> HIDE DEF a, b
    <2>c. /\ t \in Seq(T) /\ Len(t) = Len(a) + Len(b)
          /\ \A j \in 1..Len(a) : t[j] = a[j]
          /\ \A j \in 1..Len(b) : t[Len(a) + j] = b[j]
        <3>1. a \in Seq(T) /\ b \in Seq(T)
            BY <2>a, <2>b
        <3>2. /\ a \o b \in Seq(T) /\ Len(a \o b) = Len(a) + Len(b)
              /\ \A j \in 1..Len(a) : (a \o b)[j] = a[j]
              /\ \A j \in 1..Len(b) : (a \o b)[Len(a) + j] = b[j]
            BY <3>1, ConcatIs
        <3> QED
            BY <3>2, <2>t
    <2>2. /\ t \in Seq(T) /\ Len(t) = Len(s) - 1
          /\ \A j \in 1..Len(t) : t[j] = IF j < i THEN s[j] ELSE s[j + 1]
        <3>1. Len(t) = Len(s) - 1 /\ Len(s) \in Nat
            BY <2>1, <2>a, <2>b, <2>c
        <3>2. ASSUME NEW j \in 1..Len(t), j < i PROVE t[j] = s[j]
            BY <2>1, <2>a, <2>c, <3>2
        <3>3. ASSUME NEW j \in 1..Len(t), ~(j < i) PROVE t[j] = s[j + 1]
            <4>1. j - (i - 1) \in 1..Len(b) /\ i - 1 + (j - (i - 1)) = j /\ i + (j - (i - 1)) = j + 1
                BY <2>1, <2>b, <2>l, <3>1, <3>3
            <4> QED
                BY <4>1, <2>a, <2>b, <2>c
        <3> QED
            BY <2>c, <3>1, <3>2, <3>3
    <2>3. \A j, k \in 1..Len(s) : s[j] = s[k] => j = k
        BY DEF IsInjective
    <2>4. IsInjective(t)
        <3>1. DOMAIN t = 1..Len(t) /\ Len(s) \in Nat
            BY <2>2
        <3>2. ASSUME NEW j \in 1..Len(t), NEW k \in 1..Len(t), t[j] = t[k] PROVE j = k
            <4> DEFINE old(l) == IF l < i THEN l ELSE l + 1
            <4>1. old(j) \in 1..Len(s) /\ old(k) \in 1..Len(s)
                BY <2>1, <2>2, <3>1
            <4>2. t[j] = s[old(j)] /\ t[k] = s[old(k)]
                BY <2>2
            <4>3. old(j) = old(k)
                BY <4>1, <4>2, <3>2, <2>3
            <4> QED
                BY <4>3, <2>1
        <3> QED
            BY <3>1, <3>2 DEF IsInjective
    <2>5. /\ Range(t) = {t[j] : j \in 1..Len(t)}
          /\ Range(s) = {s[j] : j \in 1..Len(s)}
        <3>1. Range(t) = {t[j] : j \in 1..Len(t)}
            BY <2>2, RangeIs
        <3>2. Range(s) = {s[j] : j \in 1..Len(s)}
            BY RangeIs
        <3> QED
            BY <3>1, <3>2
    <2>6. ASSUME NEW j \in 1..Len(t) PROVE t[j] \in Range(s) \ {e}
        <3>1. CASE j < i
            <4>1. j \in 1..Len(s) /\ j # i /\ t[j] = s[j]
                BY <2>1, <2>2, <2>l, <3>1
            <4> QED
                BY <2>1, <2>3, <2>5, <4>1
        <3>2. CASE ~(j < i)
            <4>1. j + 1 \in 1..Len(s) /\ j + 1 # i /\ t[j] = s[j + 1]
                BY <2>1, <2>2, <2>l, <3>2
            <4> QED
                BY <2>1, <2>3, <2>5, <4>1
        <3> QED
            BY <3>1, <3>2
    <2>7. ASSUME NEW j \in 1..Len(s), j # i PROVE s[j] \in Range(t)
        <3>1. CASE j < i
            <4>1. j \in 1..Len(t) /\ t[j] = s[j]
                BY <3>1, <2>1, <2>2, <2>l
            <4> QED
                BY <4>1, <2>5
        <3>2. CASE j > i
            <4>1. j - 1 \in 1..Len(t) /\ t[j - 1] = s[(j - 1) + 1] /\ (j - 1) + 1 = j
                BY <3>2, <2>1, <2>2, <2>l
            <4> QED
                BY <4>1, <2>5
        <3> QED
            BY <2>1, <2>7, <3>1, <3>2
    <2>8. Range(t) = Range(s) \ {e}
        <3>1. Range(t) \subseteq Range(s) \ {e}
            BY <2>5, <2>6
        <3>2. ASSUME NEW x \in Range(s) \ {e} PROVE x \in Range(t)
            <4>1. PICK j \in 1..Len(s) : x = s[j]
                BY <2>5
            <4>2. j # i
                BY <2>1, <4>1
            <4> QED
                BY <2>7, <4>1, <4>2
        <3> QED
            BY <3>1, <3>2
    <2> QED
        BY <2>2, <2>4, <2>8 DEF t
<1> QED
    BY <1>1, <1>2

\* A rearrangement of a list that has each slide once.
LEMMA ReorderingKeeps ==
    ASSUME NEW T, NEW s \in Seq(T), IsInjective(s), NEW p \in Reorderings(s)
    PROVE  p \in Seq(T) /\ IsInjective(p) /\ Range(p) = Range(s)
<1>1. p \in [1..Len(s) -> Range(s)] /\ Range(p) = Range(s)
    BY DEF Reorderings
<1>2. Range(s) \subseteq T /\ Len(s) \in Nat
    BY DEF Range
<1>3. p \in Seq(T)
    BY <1>1, <1>2
<1>4. s \in Bijection(1..Len(s), Range(s))
    BY DEF Range, IsInjective, Bijection, Injection, Surjection
<1>5. IsFiniteSet(Range(s)) /\ Cardinality(Range(s)) = Cardinality(1..Len(s)) /\ IsFiniteSet(1..Len(s))
    <2>1. ExistsBijection(1..Len(s), Range(s))
        BY <1>4 DEF ExistsBijection
    <2>2. IsFiniteSet(1..Len(s))
        BY <1>2, FS_Interval
    <2> QED
        BY <2>1, <2>2, FS_Bijection
<1>6. p \in Surjection(1..Len(s), Range(s))
    BY <1>1 DEF Surjection, Range
<1>7. p \in Injection(1..Len(s), Range(s))
    BY <1>5, <1>6, FS_Surjection
<1> QED
    BY <1>1, <1>3, <1>7 DEF Injection
-----------------------------------------------------------------------------
(* What a save makes of the list.                                          *)

Removed(r) == IF req[r].kind = "slide.delete" THEN {req[r].target} ELSE {}

\* The list an action saves has each slide once: those of its copy without the one it
\* deletes, and those it made.
LEMMA ArrangedIs ==
    ASSUME NEW r \in Requests, OrderShape, PlaceInv(r), CopyInv(r), MadeInv(r),
           At(r, "save"), req[r].kind # "slide.add",
           NEW new \in Arranged(req[r])
    PROVE  /\ new \in Seq(Slides) /\ IsInjective(new)
           /\ Range(new) = (Range(req[r].copy) \ Removed(r)) \union Made(r)
<1> DEFINE copy == req[r].copy
           made == req[r].made
<1>1. /\ req[r].kind \in Kinds
      /\ copy \in Seq(Slides) /\ IsInjective(copy)
      /\ made \in Seq(Slides) /\ IsInjective(made)
      /\ Range(copy) \intersect Range(made) = {}
    BY DEF OrderShape, RequestRecords, PlaceInv, CopyInv, MadeInv, At, Loaded, Making, Made
<1>2. CASE req[r].kind \in {"slide.delete", "deck.reorderSlides"}
    <2>1. Made(r) = {}
        BY <1>2 DEF MadeInv, Made, Range
    <2>2. CASE req[r].kind = "slide.delete"
        <3>1. new = RemoveFirst(copy, req[r].target)
            BY <2>2 DEF Arranged
        <3> QED
            BY <3>1, <1>1, <2>1, <2>2, RemoveFirstKeeps DEF Removed
    <2>3. CASE req[r].kind = "deck.reorderSlides"
        <3>1. new \in Reorderings(copy)
            BY <2>3 DEF Arranged
        <3> QED
            BY <3>1, <1>1, <2>1, <2>3, ReorderingKeeps DEF Removed
    <2> QED
        BY <1>2, <2>2, <2>3
<1>3. CASE req[r].kind \in {"slide.duplicate", "deck.splitSlide", "deck.refine"}
    <2> DEFINE at == IF Contains(copy, req[r].target) THEN IndexOf(copy, req[r].target) ELSE Len(copy)
               spliced == SubSeq(copy, 1, at) \o made \o SubSeq(copy, at + 1, Len(copy))
    <2>1. new = spliced
        BY <1>3 DEF Arranged, Inserted
    <2>2. Len(copy) \in Nat
        BY <1>1
    <2>3. at \in 0..Len(copy)
        <3>1. CASE Contains(copy, req[r].target)
            <4>1. IndexOf(copy, req[r].target) \in 1..Len(copy)
                BY <1>1, <3>1, IndexOfFinds
            <4> QED
                BY <4>1, <3>1, <2>2
        <3> QED
            BY <3>1, <2>2
    <2> HIDE DEF at
    <2>4. /\ spliced \in Seq(Slides)
          /\ Range(spliced) = Range(copy) \union Range(made)
          /\ IsInjective(spliced)
        BY <1>1, <2>3, SpliceKeeps
    <2>5. Removed(r) = {}
        BY <1>3 DEF Removed
    <2> QED
        BY <2>1, <2>4, <2>5 DEF Made
<1> QED
    BY <1>1, <1>2, <1>3 DEF Kinds

-----------------------------------------------------------------------------
(* What every step of a request leaves true for the others.                *)

\* Slides are created, and deleted for good; the stored list changes with its version,
\* gains what r holds and loses what is deleted; r makes slides nobody has seen, and
\* takes listed slides off the list.
Passes(r) ==
    /\ \A q \in Requests \ {r} : req'[q] = req[q]
    /\ \A s \in Slides : slide[s] # "none" =>
          slide'[s] # "none" /\ (slide'[s] = "live" => slide[s] = "live")
    /\ (order' = order /\ version' = version) \/ (version' > version /\ slide' = slide)
    /\ IsInjective(order')
    /\ \A s \in Listed' : s \in Listed \/ s \in Held(r)
    /\ \A s \in Listed : slide'[s] = "live" => s \in Listed'
    /\ \A q \in Requests \ {r} :
          alone'[q] => alone[q] /\ UNCHANGED <<order, version, slide, index>>
    /\ \A s \in Held(r)' : s \in Held(r) \/ slide[s] = "none"
    /\ req'[r].gone \subseteq req[r].gone \union Listed

\* Before r makes its step.
Before(r) == OrderShape /\ RequestInv(r) /\ ListInv

LEMMA StartKeeps ==
    ASSUME NEW r \in Requests, Before(r), NEW kind \in Kinds, Start(r, kind)
    PROVE  OrderShape' /\ Passes(r) /\ RequestInv(r)'
<1>1. PICK s \in IF kind \in {"slide.delete", "slide.duplicate"} THEN Live ELSE {NoSlide} :
         req' = [req EXCEPT ![r] = [NoRequest EXCEPT !.at = "load", !.kind = kind, !.target = s]]
    BY DEF Start
<1>2. s \in Slides \union {NoSlide} /\ (kind = "slide.delete" => s \in Slides)
    BY <1>1 DEF Live
<1>3. req'[r] = [NoRequest EXCEPT !.at = "load", !.kind = kind, !.target = s]
    BY <1>1 DEF Before, OrderShape
<1>4. OrderShape'
    <2>1. req'[r] \in RequestRecords
        <3>1. /\ NoRequest \in RequestRecords /\ "load" \in Places
              /\ kind \in Kinds \union {"none"}
            BY SlideOrderAssumption DEF RequestRecords, NoRequest, Places
        <3> HIDE DEF NoRequest
        <3> QED
            BY <1>2, <1>3, <3>1 DEF RequestRecords
    <2>2. req'[r].seen <= version
        BY <1>3 DEF NoRequest, Before, OrderShape
    <2> QED
        BY <1>1, <2>1, <2>2 DEF Start, Before, OrderShape
<1>5. Passes(r)
    BY <1>1, <1>3 DEF Start, Before, OrderShape, ListInv, Passes, Making, Loaded, Held,
                        NoRequest, Listed
<1>6. RequestInv(r)'
    <2>1. PlaceInv(r)'
        BY <1>2, <1>3 DEF PlaceInv, At, NoRequest
    <2>2. CopyInv(r)' /\ MadeInv(r)' /\ KeptInv(r)'
        BY <1>3 DEF CopyInv, Loaded, MadeInv, Making, KeptInv, At, NoRequest
    <2>3. AloneInv(r)' /\ RestoredInv(r)'
        BY <1>3 DEF AloneInv, RestoredInv, Loaded, At, NoRequest
    <2> QED
        BY <2>1, <2>2, <2>3 DEF RequestInv
<1> QED
    BY <1>4, <1>5, <1>6

LEMMA LoadKeeps ==
    ASSUME NEW r \in Requests, Before(r), Load(r)
    PROVE  OrderShape' /\ Passes(r) /\ RequestInv(r)'
<1>1. /\ req[r].at = "load" /\ req[r].kind \in Kinds /\ req[r].made = <<>>
      /\ req[r].kind = "slide.delete" => req[r].target \in Slides
    BY DEF Load, Before, RequestInv, PlaceInv, MadeInv, At
<1>2. /\ AfterLoad(req[r].kind) \in {"create", "tombstone", "save", "read"}
      /\ AfterLoad(req[r].kind) = "create" => req[r].kind \in {"slide.add", "slide.duplicate"}
      /\ AfterLoad(req[r].kind) = "tombstone" => req[r].kind = "slide.delete"
      /\ AfterLoad(req[r].kind) = "save" => req[r].kind = "deck.reorderSlides"
      /\ AfterLoad(req[r].kind) = "read" => req[r].kind \in {"deck.splitSlide", "deck.refine"}
    BY <1>1 DEF AfterLoad, Kinds
<1>3. req'[r] = [req[r] EXCEPT !.at = AfterLoad(req[r].kind), !.copy = order, !.seen = version]
    BY DEF Load, Before, OrderShape
<1>4. OrderShape'
    <2>1. req'[r] \in RequestRecords
        <3>1. /\ req[r] \in RequestRecords /\ AfterLoad(req[r].kind) \in Places
              /\ order \in Seq(Slides) /\ version \in Nat
            BY <1>2 DEF Places, Before, OrderShape
        <3> HIDE DEF AfterLoad
        <3> QED
            BY <1>3, <3>1 DEF RequestRecords
    <2>2. req'[r].seen <= version
        BY <1>3 DEF Before, OrderShape, RequestRecords
    <2> QED
        BY <2>1, <2>2 DEF Load, Before, OrderShape
<1>f. /\ req'[r].at = AfterLoad(req[r].kind) /\ req'[r].copy = order /\ req'[r].seen = version
      /\ req'[r].kind = req[r].kind /\ req'[r].target = req[r].target
      /\ req'[r].made = <<>> /\ req'[r].kept = req[r].kept /\ req'[r].gone = req[r].gone
    BY <1>1, <1>3 DEF Before, OrderShape, RequestRecords
<1> HIDE DEF AfterLoad
<1>h. Held(r)' = {}
    <2>1. Made(r)' = {}
        BY <1>f DEF Made, Range
    <2>2. Range(req'[r].copy) = Listed'
        BY <1>f DEF Load, Listed
    <2> QED
        BY <2>1, <2>2 DEF Held
<1>5. Passes(r)
    BY <1>f, <1>h DEF Load, Before, OrderShape, ListInv, Passes, Listed
<1>6. RequestInv(r)'
    <2>1. PlaceInv(r)'
        BY <1>1, <1>2, <1>f DEF PlaceInv, At, Inserting, Load
    <2>2. CopyInv(r)'
        BY <1>f DEF CopyInv, Load, Before, ListInv, Listed
    <2>3. MadeInv(r)'
        BY <1>f DEF MadeInv, Made, Range, IsInjective
    <2>4. KeptInv(r)'
        BY <1>f DEF Load, KeptInv, Before, RequestInv, Listed
    <2>5. AloneInv(r)' /\ RestoredInv(r)'
        BY <1>2, <1>f DEF AloneInv, RestoredInv, Loaded, At, Load
    <2> QED
        BY <2>1, <2>2, <2>3, <2>4, <2>5 DEF RequestInv
<1> QED
    BY <1>4, <1>5, <1>6
\* A step that writes nothing to the lecture.
LEMMA QuietPasses ==
    ASSUME NEW r \in Requests, Before(r),
           UNCHANGED <<order, version, slide, index, alone>>, deaths' \in 0..MaxDeaths,
           NEW rec \in RequestRecords, req' = [req EXCEPT ![r] = rec],
           rec.seen <= version, rec.gone = req[r].gone,
           Making(r)' => rec.made = <<>>,
           Loaded(r)' /\ rec.seen = version => Range(rec.copy) \ Listed \subseteq Held(r)
    PROVE  OrderShape' /\ Passes(r) /\ req'[r] = rec
<1>1. req'[r] = rec /\ \A q \in Requests \ {r} : req'[q] = req[q]
    BY DEF Before, OrderShape
<1>2. OrderShape'
    BY <1>1 DEF Before, OrderShape
<1>3. Making(r)' => Made(r)' = {}
    BY <1>1 DEF Made, Range
<1>4. Held(r)' \subseteq Held(r)
    <2>1. ASSUME NEW x \in Held(r)' PROVE x \in Held(r)
        <3>1. Loaded(r)' /\ rec.seen = version /\ x \in Range(rec.copy) \ Listed
            BY <1>1, <1>3 DEF Held, Listed
        <3> QED
            BY <3>1
    <2> QED
        BY <2>1
<1> QED
    BY <1>1, <1>2, <1>4 DEF Before, OrderShape, ListInv, Passes, Listed

LEMMA NoRequestIs == NoRequest \in RequestRecords
BY SlideOrderAssumption DEF RequestRecords, NoRequest, Places

\* The end of a request, whichever way it ends.
LEMMA OverKeeps ==
    ASSUME NEW r \in Requests, Before(r), NEW at \in {"done", "refused", "dead"}, End(r, at),
           UNCHANGED <<order, version, slide, index, alone>>, deaths' \in 0..MaxDeaths,
           at = "done" /\ alone[r] /\ req[r].kind \notin {"slide.add", "deck.refine"} => IndexAgrees
    PROVE  OrderShape' /\ Passes(r) /\ RequestInv(r)'
<1> DEFINE rec == [NoRequest EXCEPT !.at = at, !.kind = req[r].kind,
                                    !.kept = req[r].kept, !.gone = req[r].gone]
<1>1. req[r] \in RequestRecords /\ version \in Nat
    BY DEF Before, OrderShape
<1>2. rec \in RequestRecords
    BY <1>1, NoRequestIs DEF RequestRecords, Places
<1>3. /\ rec.at = at /\ rec.seen = 0 /\ rec.made = <<>> /\ rec.kind = req[r].kind
      /\ rec.kept = req[r].kept /\ rec.gone = req[r].gone
    BY <1>1, NoRequestIs DEF RequestRecords, NoRequest
<1>4. req' = [req EXCEPT ![r] = rec]
    BY DEF End
<1> HIDE DEF rec
<1>a. rec.seen <= version
    BY <1>1, <1>3
<1>b. ~Making(r)' /\ ~Loaded(r)'
    BY <1>3, <1>4 DEF Making, Loaded, Before, OrderShape
<1>5. OrderShape' /\ Passes(r) /\ req'[r] = rec
    BY <1>2, <1>3, <1>4, <1>a, <1>b, QuietPasses
<1>6. PlaceInv(r)' /\ CopyInv(r)' /\ MadeInv(r)'
    BY <1>3, <1>5 DEF PlaceInv, CopyInv, MadeInv, At, Loaded, Making
<1>7. KeptInv(r)'
    BY <1>3, <1>5 DEF KeptInv, Before, RequestInv, Listed
<1>8. AloneInv(r)' /\ RestoredInv(r)'
    BY <1>3, <1>5 DEF AloneInv, RestoredInv, At, Loaded, IndexAgrees
<1> QED
    BY <1>5, <1>6, <1>7, <1>8 DEF RequestInv

LEMMA RefineDoneKeeps ==
    ASSUME NEW r \in Requests, Before(r), RefineDone(r)
    PROVE  OrderShape' /\ Passes(r) /\ RequestInv(r)'
<1>1. req[r].at = "next"
    BY DEF RefineDone, At
<1>2. req[r].kind = "deck.refine"
    BY <1>1 DEF Before, RequestInv, PlaceInv, At
<1>3. End(r, "done") /\ UNCHANGED <<order, version, slide, index, alone>> /\ deaths' \in 0..MaxDeaths
    BY DEF RefineDone, Before, OrderShape
<1> QED
    BY <1>2, <1>3, OverKeeps

LEMMA DieKeeps ==
    ASSUME NEW r \in Requests, Before(r), Die(r)
    PROVE  OrderShape' /\ Passes(r) /\ RequestInv(r)'
<1>1. deaths' \in 0..MaxDeaths
    BY SlideOrderAssumption DEF Die, Before, OrderShape
<1>2. End(r, "dead") /\ UNCHANGED <<order, version, slide, index, alone>>
    BY DEF Die
<1> QED
    BY <1>1, <1>2, OverKeeps

LEMMA RenumberedKeeps ==
    ASSUME NEW r \in Requests, Before(r), Renumbered(r)
    PROVE  OrderShape' /\ Passes(r) /\ RequestInv(r)'
<1>1. /\ UNCHANGED <<order, version, slide, index, alone>> /\ deaths' \in 0..MaxDeaths
      /\ req[r].at = "renumber" /\ req[r].todo = {}
    BY DEF Renumbered, At, Before, OrderShape
<1>2. CASE req[r].kind # "deck.refine"
    <2>1. End(r, "done")
        BY <1>2 DEF Renumbered
    <2>2. alone[r] => IndexAgrees
        BY <1>1, <1>2 DEF Before, RequestInv, AloneInv, At, IndexAgrees
    <2> QED
        BY <1>1, <2>1, <2>2, OverKeeps
<1>3. CASE req[r].kind = "deck.refine"
    <2> DEFINE rec == [req[r] EXCEPT !.at = "next"]
    <2>1. req[r] \in RequestRecords /\ version \in Nat /\ req[r].seen <= version
        BY DEF Before, OrderShape
    <2>2. rec \in RequestRecords
        BY <2>1 DEF RequestRecords, Places
    <2>3. /\ rec.at = "next" /\ rec.seen = req[r].seen /\ rec.made = req[r].made
          /\ rec.kind = req[r].kind /\ rec.copy = req[r].copy
          /\ rec.kept = req[r].kept /\ rec.gone = req[r].gone
        BY <2>1 DEF RequestRecords
    <2>4. req' = [req EXCEPT ![r] = rec]
        BY <1>3 DEF Renumbered, To
    <2> HIDE DEF rec
    <2>a. req'[r] = rec
        BY <2>4 DEF Before, OrderShape
    <2>b. ~Making(r)'
        BY <2>3, <2>a DEF Making
    <2>h. rec.seen = version => Range(rec.copy) \ Listed \subseteq Held(r)
        BY <1>1, <2>3 DEF Held, Loaded
    <2>5. OrderShape' /\ Passes(r)
        BY <1>1, <2>1, <2>2, <2>3, <2>4, <2>b, <2>h, QuietPasses
    <2>6. PlaceInv(r)' /\ MadeInv(r)'
        BY <1>3, <2>3, <2>a DEF PlaceInv, MadeInv, At, Making
    <2>7. CopyInv(r)' /\ KeptInv(r)'
        BY <1>1, <2>3, <2>a DEF CopyInv, KeptInv, Before, RequestInv, Listed, Loaded
    <2>8. AloneInv(r)' /\ RestoredInv(r)'
        BY <1>1, <2>3, <2>a DEF AloneInv, RestoredInv, Before, RequestInv, At, Loaded
    <2> QED
        BY <2>5, <2>6, <2>7, <2>8 DEF RequestInv
<1> QED
    BY <1>2, <1>3
LEMMA ReadSlideKeeps ==
    ASSUME NEW r \in Requests, Before(r), ReadSlide(r)
    PROVE  OrderShape' /\ Passes(r) /\ RequestInv(r)'
<1>1. PICK s \in Live : req' = [req EXCEPT ![r].at = "create", ![r].target = s]
    BY DEF ReadSlide
<1> DEFINE rec == [req[r] EXCEPT !.at = "create", !.target = s]
<1>2. /\ UNCHANGED <<order, version, slide, index, alone>> /\ deaths' \in 0..MaxDeaths
      /\ req[r].at = "read" /\ req[r].kind = "deck.splitSlide"
      /\ req[r] \in RequestRecords /\ req[r].seen <= version /\ req[r].made = <<>>
    BY DEF ReadSlide, At, Before, OrderShape, RequestInv, MadeInv
<1>3. rec \in RequestRecords
    BY <1>1, <1>2 DEF RequestRecords, Places, Live
<1>4. /\ rec.at = "create" /\ rec.seen = req[r].seen /\ rec.made = req[r].made
      /\ rec.kind = req[r].kind /\ rec.copy = req[r].copy
      /\ rec.kept = req[r].kept /\ rec.gone = req[r].gone
    BY <1>2 DEF RequestRecords
<1>5. req' = [req EXCEPT ![r] = rec]
    BY <1>1
<1> HIDE DEF rec
<1>h. rec.seen = version => Range(rec.copy) \ Listed \subseteq Held(r)
    BY <1>2, <1>4 DEF Held, Loaded
<1>6. OrderShape' /\ Passes(r) /\ req'[r] = rec
    BY <1>2, <1>3, <1>4, <1>5, <1>h, QuietPasses
<1>7. PlaceInv(r)'
    BY <1>2, <1>4, <1>6 DEF PlaceInv, At, Inserting
<1>8. MadeInv(r)'
    BY <1>2, <1>4, <1>6 DEF MadeInv, Made, Range, IsInjective
<1>9. CopyInv(r)' /\ KeptInv(r)'
    BY <1>2, <1>4, <1>6 DEF CopyInv, KeptInv, Before, RequestInv, Listed, Loaded
<1>10. AloneInv(r)' /\ RestoredInv(r)'
    BY <1>2, <1>4, <1>6 DEF AloneInv, RestoredInv, Before, RequestInv, At, Loaded
<1> QED
    BY <1>6, <1>7, <1>8, <1>9, <1>10 DEF RequestInv

LEMMA ReadSlidesKeeps ==
    ASSUME NEW r \in Requests, Before(r), ReadSlides(r)
    PROVE  OrderShape' /\ Passes(r) /\ RequestInv(r)'
<1> DEFINE rec == [req[r] EXCEPT !.at = "next", !.pending = Live]
<1>2. /\ UNCHANGED <<order, version, slide, index, alone>> /\ deaths' \in 0..MaxDeaths
      /\ req[r].at = "read" /\ req[r].kind = "deck.refine"
      /\ req[r] \in RequestRecords /\ req[r].seen <= version
    BY DEF ReadSlides, At, Before, OrderShape
<1>3. rec \in RequestRecords
    BY <1>2 DEF RequestRecords, Places, Live
<1>4. /\ rec.at = "next" /\ rec.seen = req[r].seen /\ rec.made = req[r].made
      /\ rec.kind = req[r].kind /\ rec.copy = req[r].copy
      /\ rec.kept = req[r].kept /\ rec.gone = req[r].gone
    BY <1>2 DEF RequestRecords
<1>5. req' = [req EXCEPT ![r] = rec]
    BY DEF ReadSlides
<1> HIDE DEF rec
<1>a. req'[r] = rec
    BY <1>5 DEF Before, OrderShape
<1>b. ~Making(r)'
    BY <1>4, <1>a DEF Making
<1>h. rec.seen = version => Range(rec.copy) \ Listed \subseteq Held(r)
    BY <1>2, <1>4 DEF Held, Loaded
<1>6. OrderShape' /\ Passes(r)
    BY <1>2, <1>3, <1>4, <1>5, <1>b, <1>h, QuietPasses
<1>7. PlaceInv(r)' /\ MadeInv(r)'
    BY <1>2, <1>4, <1>a DEF PlaceInv, MadeInv, At, Making
<1>9. CopyInv(r)' /\ KeptInv(r)'
    BY <1>2, <1>4, <1>a DEF CopyInv, KeptInv, Before, RequestInv, Listed, Loaded
<1>10. AloneInv(r)' /\ RestoredInv(r)'
    BY <1>2, <1>4, <1>a DEF AloneInv, RestoredInv, Before, RequestInv, At, Loaded
<1> QED
    BY <1>6, <1>7, <1>9, <1>10 DEF RequestInv

LEMMA RefineSlideKeeps ==
    ASSUME NEW r \in Requests, Before(r), RefineSlide(r)
    PROVE  OrderShape' /\ Passes(r) /\ RequestInv(r)'
<1>1. PICK s \in req[r].pending :
         req' = [req EXCEPT ![r].at = "create", ![r].target = s, ![r].made = <<>>,
                            ![r].pending = @ \ {s}, ![r].splits = @ + 1]
    BY DEF RefineSlide
<1> DEFINE rec == [req[r] EXCEPT !.at = "create", !.target = s, !.made = <<>>,
                                 !.pending = @ \ {s}, !.splits = @ + 1]
<1>2. /\ UNCHANGED <<order, version, slide, index, alone>> /\ deaths' \in 0..MaxDeaths
      /\ req[r].at = "next" /\ req[r].kind = "deck.refine"
      /\ req[r] \in RequestRecords /\ req[r].seen <= version
      /\ req[r].splits < MaxSplits
    BY DEF RefineSlide, At, Before, OrderShape, RequestInv, PlaceInv
<1>3. rec \in RequestRecords
    <2>1. /\ s \in Slides /\ req[r].pending \ {s} \in SUBSET Slides
          /\ req[r].splits + 1 \in 0..MaxSplits
          /\ "create" \in Places /\ <<>> \in Seq(Slides)
        BY <1>2, SlideOrderAssumption DEF RequestRecords, Places
    <2> QED
        BY <1>2, <2>1 DEF RequestRecords
<1>4. /\ rec.at = "create" /\ rec.seen = req[r].seen /\ rec.made = <<>>
      /\ rec.kind = req[r].kind /\ rec.copy = req[r].copy
      /\ rec.kept = req[r].kept /\ rec.gone = req[r].gone
    BY <1>2 DEF RequestRecords
<1>5. req' = [req EXCEPT ![r] = rec]
    BY <1>1
<1> HIDE DEF rec
<1>h. rec.seen = version => Range(rec.copy) \ Listed \subseteq Held(r)
    BY <1>2, <1>4 DEF Held, Loaded
<1>6. OrderShape' /\ Passes(r) /\ req'[r] = rec
    BY <1>2, <1>3, <1>4, <1>5, <1>h, QuietPasses
<1>7. PlaceInv(r)'
    BY <1>2, <1>4, <1>6 DEF PlaceInv, At, Inserting
<1>8. MadeInv(r)'
    BY <1>2, <1>4, <1>6 DEF MadeInv, Made, Range, IsInjective
<1>9. CopyInv(r)' /\ KeptInv(r)'
    BY <1>2, <1>4, <1>6 DEF CopyInv, KeptInv, Before, RequestInv, Listed, Loaded
<1>10. AloneInv(r)' /\ RestoredInv(r)'
    BY <1>2, <1>4, <1>6 DEF AloneInv, RestoredInv, Before, RequestInv, At, Loaded
<1> QED
    BY <1>6, <1>7, <1>8, <1>9, <1>10 DEF RequestInv

LEMMA PositionsIs ==
    ASSUME NEW s \in Seq(Slides) PROVE Positions(s) \in SUBSET (Slides \X Nat)
BY DEF Positions

LEMMA SlideFailedKeeps ==
    ASSUME NEW r \in Requests, Before(r), SlideFailed(r)
    PROVE  OrderShape' /\ Passes(r) /\ RequestInv(r)'
<1>1. PICK new \in IF At(r, "save") THEN Arranged(req[r]) ELSE {req[r].copy} :
         req' = [req EXCEPT ![r].at = "next", ![r].copy = new]
    BY DEF SlideFailed
<1> DEFINE rec == [req[r] EXCEPT !.at = "next", !.copy = new]
<1>2. /\ UNCHANGED <<order, version, slide, index, alone>> /\ deaths' \in 0..MaxDeaths
      /\ req[r].at \in {"create", "save", "renumber"} /\ req[r].kind = "deck.refine"
      /\ req[r] \in RequestRecords /\ req[r].seen <= version
    BY SlideOrderAssumption DEF SlideFailed, Before, OrderShape
<1>3. /\ new \in Seq(Slides) /\ IsInjective(new)
      /\ Range(req[r].copy) \subseteq Range(new)
      /\ \A s \in Range(new) : s \in Range(req[r].copy) \/ (Making(r) /\ s \in Made(r))
    <2>1. CASE At(r, "save")
        <3>1. /\ new \in Seq(Slides) /\ IsInjective(new)
              /\ Range(new) = (Range(req[r].copy) \ Removed(r)) \union Made(r)
            BY <1>1, <1>2, <2>1, ArrangedIs DEF Before, RequestInv
        <3>2. Removed(r) = {} /\ Making(r)
            BY <1>2, <2>1 DEF Removed, Making, At
        <3> QED
            BY <3>1, <3>2
    <2>2. CASE ~At(r, "save")
        <3>1. new = req[r].copy /\ new \in Seq(Slides)
            BY <1>1, <1>2, <2>2 DEF RequestRecords
        <3>2. IsInjective(new)
            BY <1>2, <3>1 DEF Before, RequestInv, CopyInv, Loaded
        <3> QED
            BY <3>1, <3>2
    <2> QED
        BY <2>1, <2>2
<1>4. rec \in RequestRecords
    BY <1>2, <1>3 DEF RequestRecords, Places
<1>5. /\ rec.at = "next" /\ rec.seen = req[r].seen /\ rec.made = req[r].made
      /\ rec.kind = req[r].kind /\ rec.copy = new
      /\ rec.kept = req[r].kept /\ rec.gone = req[r].gone
    BY <1>2 DEF RequestRecords
<1>6. req' = [req EXCEPT ![r] = rec]
    BY <1>1
<1> HIDE DEF rec
<1>a. req'[r] = rec
    BY <1>6 DEF Before, OrderShape
<1>b. ~Making(r)'
    BY <1>5, <1>a DEF Making
<1>h. rec.seen = version => Range(rec.copy) \ Listed \subseteq Held(r)
    BY <1>2, <1>3, <1>5 DEF Held, Loaded
<1>7. OrderShape' /\ Passes(r)
    BY <1>2, <1>4, <1>5, <1>6, <1>b, <1>h, QuietPasses
<1>8. PlaceInv(r)' /\ MadeInv(r)'
    BY <1>2, <1>5, <1>a DEF PlaceInv, MadeInv, At, Making
<1>9. CopyInv(r)'
    <2>1. \A s \in Range(new) : slide[s] # "none"
        BY <1>2, <1>3 DEF Before, RequestInv, CopyInv, MadeInv, Loaded
    <2>2. req[r].seen = version => Listed \subseteq Range(new)
        BY <1>2, <1>3 DEF Before, RequestInv, CopyInv, Loaded
    <2> QED
        BY <1>2, <1>3, <1>5, <1>a, <2>1, <2>2 DEF CopyInv, Listed
<1>10. KeptInv(r)'
    BY <1>2, <1>5, <1>a DEF KeptInv, Before, RequestInv, Listed
<1>11. AloneInv(r)' /\ RestoredInv(r)'
    BY <1>2, <1>5, <1>a DEF AloneInv, RestoredInv, Before, RequestInv, At, Loaded
<1> QED
    BY <1>7, <1>8, <1>9, <1>10, <1>11 DEF RequestInv

LEMMA NothingToSaveKeeps ==
    ASSUME NEW r \in Requests, Before(r), NothingToSave(r)
    PROVE  OrderShape' /\ Passes(r) /\ RequestInv(r)'
<1> DEFINE rec == [req[r] EXCEPT !.at = "renumber", !.todo = Positions(req[r].copy)]
<1>2. /\ UNCHANGED <<order, version, slide, index, alone>> /\ deaths' \in 0..MaxDeaths
      /\ req[r].at = "save" /\ req[r].kind # "slide.add"
      /\ req[r] \in RequestRecords /\ req[r].seen <= version
    BY DEF NothingToSave, At, Before, OrderShape
<1>3. rec \in RequestRecords
    <2>1. /\ Positions(req[r].copy) \in SUBSET (Slides \X Nat)
          /\ "renumber" \in Places
        BY <1>2, PositionsIs DEF RequestRecords, Places
    <2> QED
        BY <1>2, <2>1 DEF RequestRecords
<1>4. /\ rec.at = "renumber" /\ rec.seen = req[r].seen /\ rec.made = req[r].made
      /\ rec.kind = req[r].kind /\ rec.copy = req[r].copy
      /\ rec.kept = req[r].kept /\ rec.gone = req[r].gone
      /\ rec.todo = Positions(req[r].copy)
    BY <1>2 DEF RequestRecords
<1>5. req' = [req EXCEPT ![r] = rec]
    BY DEF NothingToSave
<1> HIDE DEF rec
<1>a. req'[r] = rec
    BY <1>5 DEF Before, OrderShape
<1>b. ~Making(r)'
    BY <1>4, <1>a DEF Making
<1>h. rec.seen = version => Range(rec.copy) \ Listed \subseteq Held(r)
    BY <1>2, <1>4 DEF Held, Loaded
<1>6. OrderShape' /\ Passes(r)
    BY <1>2, <1>3, <1>4, <1>5, <1>b, <1>h, QuietPasses
<1>7. PlaceInv(r)' /\ MadeInv(r)'
    BY <1>2, <1>4, <1>a DEF PlaceInv, MadeInv, At, Making, Before, RequestInv
<1>9. CopyInv(r)' /\ KeptInv(r)'
    BY <1>2, <1>4, <1>a DEF CopyInv, KeptInv, Before, RequestInv, Listed, Loaded
<1>10. AloneInv(r)'
    <2>1. alone[r] => /\ req[r].seen = version
                      /\ req[r].kind # "deck.refine" => req[r].copy = order
        BY <1>2 DEF Before, RequestInv, AloneInv, CopyInv, Loaded
    <2>2. \A i \in DOMAIN order : <<order[i], i - 1>> \in Positions(order)
        BY DEF Positions
    <2> QED
        BY <1>2, <1>4, <1>a, <2>1, <2>2 DEF AloneInv, At, Loaded, Positions
<1>11. RestoredInv(r)'
    BY <1>4, <1>a DEF RestoredInv, At
<1> QED
    BY <1>6, <1>7, <1>9, <1>10, <1>11 DEF RequestInv

LEMMA RefusedKeeps ==
    ASSUME NEW r \in Requests, Before(r), Refused(r)
    PROVE  OrderShape' /\ Passes(r) /\ RequestInv(r)'
<1>2. /\ UNCHANGED <<order, version, slide, index, alone>> /\ deaths' \in 0..MaxDeaths
      /\ req[r].at = "save" /\ req[r].kind # "slide.add"
      /\ req[r] \in RequestRecords /\ req[r].seen <= version
      /\ req[r].seen # version
    BY DEF Refused, At, Before, OrderShape, Unchanged
<1>1. PICK new \in Arranged(req[r]) :
         IF req[r].kind = "deck.refine"
             THEN req' = [req EXCEPT ![r].at = "next", ![r].copy = new]
             ELSE End(r, "refused")
    BY DEF Refused
<1>c. CASE req[r].kind # "deck.refine"
    <2>1. End(r, "refused")
        BY <1>1, <1>c
    <2> QED
        BY <1>2, <2>1, OverKeeps
<1>d. CASE req[r].kind = "deck.refine"
    <2> DEFINE rec == [req[r] EXCEPT !.at = "next", !.copy = new]
    <2>1. /\ new \in Seq(Slides) /\ IsInjective(new)
          /\ Range(new) = (Range(req[r].copy) \ Removed(r)) \union Made(r)
        BY <1>1, <1>2, ArrangedIs DEF Before, RequestInv, At
    <2>3. rec \in RequestRecords
        BY <1>2, <2>1 DEF RequestRecords, Places
    <2>4. /\ rec.at = "next" /\ rec.seen = req[r].seen /\ rec.made = req[r].made
          /\ rec.kind = req[r].kind /\ rec.copy = new
          /\ rec.kept = req[r].kept /\ rec.gone = req[r].gone
        BY <1>2 DEF RequestRecords
    <2>5. req' = [req EXCEPT ![r] = rec]
        BY <1>1, <1>d
    <2> HIDE DEF rec
    <2>a. req'[r] = rec
        BY <2>5 DEF Before, OrderShape
    <2>b. ~Making(r)'
        BY <2>4, <2>a DEF Making
    <2>6. OrderShape' /\ Passes(r)
        BY <1>2, <2>3, <2>4, <2>5, <2>b, QuietPasses
    <2>7. PlaceInv(r)' /\ MadeInv(r)'
        BY <1>2, <1>d, <2>4, <2>a DEF PlaceInv, MadeInv, At, Making
    <2>8. CopyInv(r)'
        <3>1. \A s \in Range(new) : slide[s] # "none"
            BY <1>2, <2>1 DEF Before, RequestInv, CopyInv, MadeInv, Loaded, Making
        <3> QED
            BY <1>2, <2>1, <2>4, <2>a, <3>1 DEF CopyInv
    <2>9. KeptInv(r)'
        BY <1>2, <2>4, <2>a DEF KeptInv, Before, RequestInv, Listed
    <2>10. AloneInv(r)' /\ RestoredInv(r)'
        BY <1>2, <2>4, <2>a DEF AloneInv, RestoredInv, Before, RequestInv, At, Loaded
    <2> QED
        BY <2>6, <2>7, <2>8, <2>9, <2>10 DEF RequestInv
<1> QED
    BY <1>c, <1>d
LEMMA WritesAlone ==
    ASSUME NEW r \in Requests, alone \in [Requests -> BOOLEAN], Writes(r)
    PROVE  /\ alone' \in [Requests -> BOOLEAN]
           /\ \A q \in Requests \ {r} : ~alone'[q]
           /\ alone'[r] <=> alone[r]
<1>1. /\ alone' = [x \in Requests |-> alone[x] /\ x = r]
      /\ \A x \in Requests : alone[x] \in BOOLEAN
    BY DEF Writes
<1>2. /\ \A x \in Requests : alone'[x] <=> (alone[x] /\ x = r)
      /\ alone' \in [Requests -> BOOLEAN]
    BY <1>1, Zenon
<1> QED
    BY <1>2

LEMMA CreateKeeps ==
    ASSUME NEW r \in Requests, Before(r), Create(r)
    PROVE  OrderShape' /\ Passes(r) /\ RequestInv(r)'
<1>1. PICK s \in Slides, at \in {"save", "create"} :
        /\ slide[s] = "none"
        /\ slide' = [slide EXCEPT ![s] = "live"]
        /\ index' = [index EXCEPT ![s] = Len(req[r].copy)]
        /\ req' = [req EXCEPT ![r].made = Append(@, s), ![r].at = at]
        /\ at = "create" => req[r].kind \in {"deck.splitSlide", "deck.refine"}
    BY DEF Create
<1> DEFINE made == Append(req[r].made, s)
           rec == [req[r] EXCEPT !.made = made, !.at = at]
<1>2. /\ UNCHANGED <<order, version>> /\ deaths' \in 0..MaxDeaths /\ Writes(r)
      /\ req[r].at = "create" /\ req[r].kind \in Inserting
      /\ req[r] \in RequestRecords /\ req[r].seen <= version
      /\ slide \in [Slides -> {"none", "live", "deleted"}] /\ index \in [Slides -> Nat]
    BY DEF Create, At, Before, OrderShape, RequestInv, PlaceInv
<1>3. /\ req[r].made \in Seq(Slides) /\ IsInjective(req[r].made)
      /\ \A x \in Made(r) : slide[x] # "none" /\ x \notin Listed /\ x \notin Range(req[r].copy)
      /\ s \notin Made(r)
    BY <1>1, <1>2 DEF Before, RequestInv, MadeInv, Making, RequestRecords
<1>4. /\ made \in Seq(Slides) /\ IsInjective(made) /\ Range(made) = Made(r) \union {s}
    <2> DEFINE one == <<s>>
    <2>1. one \in Seq(Slides) /\ Range(one) = {s} /\ IsInjective(one)
        BY DEF Range, IsInjective
    <2>2. made = req[r].made \o one
        BY <1>3
    <2>3. Range(req[r].made) \intersect Range(one) = {}
        BY <1>3, <2>1 DEF Made
    <2> HIDE DEF made, one
    <2> DEFINE t == req[r].made \o one
    <2>4. /\ t \in Seq(Slides)
          /\ Range(t) = Range(req[r].made) \union Range(one)
          /\ IsInjective(t)
        BY <1>3, <2>1, <2>3, AppendKeeps
    <2> HIDE DEF t
    <2>5. made = t
        BY <2>2 DEF t
    <2> QED
        BY <2>1, <2>4, <2>5 DEF Made
<1> HIDE DEF made
<1>5. rec \in RequestRecords
    BY <1>2, <1>4 DEF RequestRecords, Places
<1>6. /\ rec.at = at /\ rec.seen = req[r].seen /\ rec.made = made
      /\ rec.kind = req[r].kind /\ rec.copy = req[r].copy
      /\ rec.kept = req[r].kept /\ rec.gone = req[r].gone /\ rec.todo = req[r].todo
    BY <1>2 DEF RequestRecords
<1>7. req' = [req EXCEPT ![r] = rec]
    BY <1>1 DEF made
<1> HIDE DEF rec
<1>8. req'[r] = rec /\ \A q \in Requests \ {r} : req'[q] = req[q]
    BY <1>7 DEF Before, OrderShape
<1>9. /\ alone' \in [Requests -> BOOLEAN]
      /\ \A q \in Requests \ {r} : ~alone'[q]
      /\ alone'[r] <=> alone[r]
    BY <1>2, WritesAlone DEF Before, OrderShape
<1>10. OrderShape'
    <2>1. Len(req[r].copy) \in Nat
        BY <1>2 DEF RequestRecords
    <2>2. slide' \in [Slides -> {"none", "live", "deleted"}] /\ index' \in [Slides -> Nat]
        BY <1>1, <1>2, <2>1
    <2>3. /\ req' \in [Requests -> RequestRecords]
          /\ \A q \in Requests : req'[q].seen <= version'
        BY <1>2, <1>5, <1>6, <1>7, <1>8 DEF Before, OrderShape
    <2>4. order' \in Seq(Slides) /\ version' \in Nat
        BY <1>2 DEF Before, OrderShape
    <2> QED
        BY <1>2, <1>9, <2>2, <2>3, <2>4 DEF OrderShape
<1>11. \A x \in Slides : slide[x] # "none" => slide'[x] = slide[x]
    BY <1>1, <1>2
<1>12. slide'[s] = "live"
    BY <1>1, <1>2
<1>13. Made(r)' = Made(r) \union {s}
    BY <1>4, <1>6, <1>8 DEF Made
<1>14. Listed' = Listed /\ Listed \subseteq Slides /\ s \notin Listed
    BY <1>1, <1>2 DEF Listed, Before, ListInv, OrderShape, Range
<1>15. Passes(r)
    <2>1. \A x \in Held(r)' : x \in Held(r) \/ slide[x] = "none"
        BY <1>1, <1>2, <1>6, <1>8, <1>13, <1>14 DEF Held, Making, Loaded
    <2>2. IsInjective(order')
        BY <1>2 DEF Before, ListInv
    <2> QED
        BY <1>2, <1>6, <1>8, <1>9, <1>11, <1>14, <2>1, <2>2 DEF Passes
<1>16. PlaceInv(r)'
    BY <1>1, <1>2, <1>6, <1>8 DEF PlaceInv, At, Inserting, Kinds
<1>17. /\ req[r].seen = version =>
             /\ Listed \subseteq Range(req[r].copy)
             /\ req[r].kind # "deck.refine" => req[r].copy = order
       /\ IsInjective(req[r].copy)
       /\ \A x \in Range(req[r].copy) : x \in Slides /\ slide[x] # "none"
    BY <1>2 DEF Before, RequestInv, CopyInv, Loaded, RequestRecords, Range
<1>18. CopyInv(r)'
    BY <1>2, <1>6, <1>8, <1>11, <1>14, <1>17 DEF CopyInv
<1>19. MadeInv(r)'
    <2>1. \A x \in Made(r) : x \in Slides
        BY <1>3 DEF Made, Range
    <2>2. \A x \in Made(r)' : slide'[x] # "none" /\ x \notin Listed' /\ x \notin Range(req'[r].copy)
        BY <1>1, <1>3, <1>6, <1>8, <1>11, <1>12, <1>13, <1>14, <1>17, <2>1
    <2>3. IsInjective(req'[r].made)
        BY <1>4, <1>6, <1>8
    <2>4. ~At(r, "load")' /\ ~At(r, "read")'
        BY <1>6, <1>8 DEF At
    <2>5. req'[r].kind \notin {"slide.delete", "deck.reorderSlides"}
        BY <1>2, <1>6, <1>8 DEF Inserting
    <2> QED
        BY <2>2, <2>3, <2>4, <2>5 DEF MadeInv
<1>20. KeptInv(r)'
    <2>1. rec.kept \subseteq Slides /\ rec.gone \subseteq Slides
        BY <1>5 DEF RequestRecords
    <2> QED
        BY <1>6, <1>8, <1>11, <1>14, <2>1 DEF KeptInv, Before, RequestInv
<1>21. AloneInv(r)' /\ RestoredInv(r)'
    BY <1>2, <1>6, <1>8, <1>9 DEF AloneInv, RestoredInv, Before, RequestInv, At, Loaded
<1> QED
    BY <1>10, <1>15, <1>16, <1>18, <1>19, <1>20, <1>21 DEF RequestInv

LEMMA TombstoneKeeps ==
    ASSUME NEW r \in Requests, Before(r), Tombstone(r)
    PROVE  OrderShape' /\ Passes(r) /\ RequestInv(r)'
<1> DEFINE s == req[r].target
           rec == [req[r] EXCEPT !.at = "save"]
<1>2. /\ UNCHANGED <<order, version, index>> /\ deaths' \in 0..MaxDeaths /\ Writes(r)
      /\ slide' = [slide EXCEPT ![s] = "deleted"]
      /\ req[r].at = "tombstone" /\ req[r].kind = "slide.delete" /\ s \in Slides
      /\ req[r] \in RequestRecords /\ req[r].seen <= version
      /\ req[r].made = <<>>
      /\ slide \in [Slides -> {"none", "live", "deleted"}] /\ index \in [Slides -> Nat]
    BY DEF Tombstone, At, Before, OrderShape, RequestInv, PlaceInv, MadeInv
<1>5. rec \in RequestRecords
    BY <1>2 DEF RequestRecords, Places
<1>6. /\ rec.at = "save" /\ rec.seen = req[r].seen /\ rec.made = <<>>
      /\ rec.kind = req[r].kind /\ rec.copy = req[r].copy /\ rec.target = s
      /\ rec.kept = req[r].kept /\ rec.gone = req[r].gone /\ rec.todo = req[r].todo
    BY <1>2 DEF RequestRecords
<1>7. req' = [req EXCEPT ![r] = rec]
    BY DEF Tombstone, To
<1> HIDE DEF rec, s
<1>8. req'[r] = rec /\ \A q \in Requests \ {r} : req'[q] = req[q]
    BY <1>7 DEF Before, OrderShape
<1>9. /\ alone' \in [Requests -> BOOLEAN]
      /\ \A q \in Requests \ {r} : ~alone'[q]
      /\ alone'[r] <=> alone[r]
    BY <1>2, WritesAlone DEF Before, OrderShape
<1>10. OrderShape'
    <2>2. slide' \in [Slides -> {"none", "live", "deleted"}] /\ index' \in [Slides -> Nat]
        BY <1>2
    <2>3. /\ req' \in [Requests -> RequestRecords]
          /\ \A q \in Requests : req'[q].seen <= version'
        BY <1>2, <1>5, <1>6, <1>7, <1>8 DEF Before, OrderShape
    <2>4. order' \in Seq(Slides) /\ version' \in Nat
        BY <1>2 DEF Before, OrderShape
    <2> QED
        BY <1>2, <1>9, <2>2, <2>3, <2>4 DEF OrderShape
<1>11. /\ \A x \in Slides : slide[x] # "none" => slide'[x] # "none"
       /\ \A x \in Slides : slide'[x] = "live" => slide[x] = "live"
       /\ slide'[s] = "deleted"
    BY <1>2
<1>13. Made(r)' = {}
    BY <1>6, <1>8 DEF Made, Range
<1>14. Listed' = Listed /\ Listed \subseteq Slides
    BY <1>2 DEF Listed, Before, OrderShape, Range
<1>15. Passes(r)
    <2>2. IsInjective(order')
        BY <1>2 DEF Before, ListInv
    <2>1. \A x \in Held(r)' : x \in Held(r) \/ slide[x] = "none"
        BY <1>2, <1>6, <1>8, <1>13, <1>14 DEF Held, Loaded
    <2> QED
        BY <1>2, <1>6, <1>8, <1>9, <1>11, <1>14, <2>1, <2>2 DEF Passes
<1>16. PlaceInv(r)'
    BY <1>2, <1>6, <1>8, <1>11 DEF PlaceInv, At, Kinds
<1>17. /\ req[r].seen = version =>
             /\ Listed \subseteq Range(req[r].copy)
             /\ req[r].kind # "deck.refine" => req[r].copy = order
       /\ IsInjective(req[r].copy)
       /\ \A x \in Range(req[r].copy) : x \in Slides /\ slide[x] # "none"
    BY <1>2 DEF Before, RequestInv, CopyInv, Loaded, RequestRecords, Range
<1>18. CopyInv(r)'
    BY <1>2, <1>6, <1>8, <1>11, <1>14, <1>17 DEF CopyInv
<1>19. MadeInv(r)'
    BY <1>6, <1>8, <1>13 DEF MadeInv, IsInjective
<1>20. KeptInv(r)'
    <2>1. rec.kept \subseteq Slides /\ rec.gone \subseteq Slides
        BY <1>5 DEF RequestRecords
    <2> QED
        BY <1>6, <1>8, <1>11, <1>14, <2>1 DEF KeptInv, Before, RequestInv
<1>21. AloneInv(r)' /\ RestoredInv(r)'
    BY <1>2, <1>6, <1>8, <1>9 DEF AloneInv, RestoredInv, Before, RequestInv, At, Loaded
<1> QED
    BY <1>10, <1>15, <1>16, <1>18, <1>19, <1>20, <1>21 DEF RequestInv
LEMMA PushKeeps ==
    ASSUME NEW r \in Requests, Before(r), Push(r)
    PROVE  OrderShape' /\ Passes(r) /\ RequestInv(r)'
<1> DEFINE rec == [NoRequest EXCEPT !.at = "done", !.kind = "slide.add",
                                    !.kept = Range(req[r].made)]
<1>1. /\ UNCHANGED <<slide, index>> /\ deaths' \in 0..MaxDeaths /\ Writes(r)
      /\ order' = order \o req[r].made /\ version' = version + 1
      /\ req[r].at = "save" /\ req[r].kind = "slide.add"
      /\ req[r] \in RequestRecords /\ version \in Nat /\ order \in Seq(Slides)
    BY DEF Push, At, Before, OrderShape
<1>2. /\ req[r].made \in Seq(Slides) /\ IsInjective(req[r].made) /\ IsInjective(order)
      /\ \A x \in Made(r) : slide[x] # "none" /\ x \notin Listed
      /\ Range(req[r].made) = Made(r) /\ Made(r) \subseteq Slides
      /\ Making(r)
    BY <1>1 DEF Before, RequestInv, MadeInv, Making, RequestRecords, ListInv, Made, Range
<1>3. order' \in Seq(Slides) /\ IsInjective(order') /\ Listed' = Listed \union Made(r)
    <2> DEFINE t == order \o req[r].made
    <2>1. Range(order) \intersect Range(req[r].made) = {}
        BY <1>2 DEF Listed
    <2>2. /\ t \in Seq(Slides)
          /\ Range(t) = Range(order) \union Range(req[r].made)
          /\ IsInjective(t)
        BY <1>1, <1>2, <2>1, AppendKeeps
    <2> HIDE DEF t
    <2>3. order' = t
        BY <1>1 DEF t
    <2> QED
        BY <1>2, <2>2, <2>3 DEF Listed
<1>4. rec \in RequestRecords
    BY <1>1, <1>2, NoRequestIs DEF RequestRecords, Places, Kinds
<1>5. /\ rec.at = "done" /\ rec.seen = 0 /\ rec.made = <<>> /\ rec.kind = "slide.add"
      /\ rec.kept = Made(r) /\ rec.gone = {}
    BY <1>2 DEF NoRequest
<1>6. req' = [req EXCEPT ![r] = rec]
    BY DEF Push
<1> HIDE DEF rec
<1>7. req'[r] = rec /\ \A q \in Requests \ {r} : req'[q] = req[q]
    BY <1>6 DEF Before, OrderShape
<1>8. /\ alone' \in [Requests -> BOOLEAN]
      /\ \A q \in Requests \ {r} : ~alone'[q]
    BY <1>1, WritesAlone DEF Before, OrderShape
<1>9. version' \in Nat /\ version' > version
    BY <1>1
<1>10. OrderShape'
    <2>1. req' \in [Requests -> RequestRecords]
        BY <1>4, <1>6 DEF Before, OrderShape
    <2>2. ASSUME NEW q \in Requests PROVE req'[q].seen <= version'
        <3>1. CASE q = r
            BY <1>5, <1>7, <1>9, <3>1
        <3>2. CASE q # r
            <4>1. req'[q].seen = req[q].seen /\ req[q].seen <= version /\ req[q].seen \in Nat
                BY <1>7, <3>2 DEF Before, OrderShape, RequestRecords
            <4> QED
                BY <4>1, <1>1, <1>9
        <3> QED
            BY <3>1, <3>2
    <2>3. slide' \in [Slides -> {"none", "live", "deleted"}] /\ index' \in [Slides -> Nat]
        BY <1>1 DEF Before, OrderShape
    <2> QED
        BY <1>1, <1>3, <1>8, <1>9, <2>1, <2>2, <2>3 DEF OrderShape
<1>11. Passes(r)
    <2>1. Held(r)' = {}
        BY <1>5, <1>7 DEF Held, Making, Loaded
    <2>2. \A x \in Listed' : x \in Listed \/ x \in Held(r)
        BY <1>2, <1>3 DEF Held
    <2> QED
        BY <1>1, <1>3, <1>5, <1>7, <1>8, <1>9, <2>1, <2>2 DEF Passes
<1>12. PlaceInv(r)' /\ CopyInv(r)' /\ MadeInv(r)'
    BY <1>5, <1>7 DEF PlaceInv, CopyInv, MadeInv, At, Loaded, Making
<1>13. KeptInv(r)'
    BY <1>1, <1>2, <1>3, <1>5, <1>7 DEF KeptInv
<1>14. AloneInv(r)' /\ RestoredInv(r)'
    BY <1>5, <1>7 DEF AloneInv, RestoredInv, At, Loaded
<1> QED
    BY <1>10, <1>11, <1>12, <1>13, <1>14 DEF RequestInv

LEMMA SaveKeeps ==
    ASSUME NEW r \in Requests, Before(r), Save(r)
    PROVE  OrderShape' /\ Passes(r) /\ RequestInv(r)'
<1>1. PICK new \in Arranged(req[r]) : order' = new /\ Saved(r, new)
    BY DEF Save
<1> DEFINE rec == [req[r] EXCEPT !.at = "renumber", !.copy = new, !.seen = version',
                                 !.kept = @ \union (Range(new) \ Listed), !.made = <<>>,
                                 !.gone = Listed \ Range(new),
                                 !.todo = Positions(new)]
<1>2. /\ UNCHANGED <<slide, index>> /\ deaths' \in 0..MaxDeaths /\ Writes(r)
      /\ version' = version + 1
      /\ req[r].at = "save" /\ req[r].kind # "slide.add" /\ req[r].seen = version
      /\ req[r] \in RequestRecords /\ version \in Nat /\ order \in Seq(Slides)
    BY DEF Save, Unchanged, At, Before, OrderShape
<1>3. /\ new \in Seq(Slides) /\ IsInjective(new)
      /\ Range(new) = (Range(req[r].copy) \ Removed(r)) \union Made(r)
    BY <1>2, ArrangedIs DEF Before, RequestInv, At
<1>4. /\ Listed \subseteq Range(req[r].copy)
      /\ \A x \in Range(req[r].copy) \ Listed : x \in Held(r)
      /\ \A x \in Range(req[r].copy) : slide[x] # "none"
    BY <1>2 DEF Before, RequestInv, CopyInv, Loaded, Held
<1>5. /\ \A x \in Made(r) : slide[x] # "none" /\ x \notin Listed
      /\ Range(req[r].made) = Made(r) /\ Made(r) \subseteq Slides /\ Listed \subseteq Slides
      /\ Made(r) \subseteq Held(r)
    <2>1. Making(r) /\ req[r].made \in Seq(Slides)
        BY <1>2 DEF Making, RequestRecords
    <2>2. \A x \in Made(r) : slide[x] # "none" /\ x \notin Listed
        BY <2>1 DEF Before, RequestInv, MadeInv
    <2>3. Made(r) \subseteq Slides
        BY <2>1 DEF Made, Range
    <2>4. Listed \subseteq Slides
        BY <1>2 DEF Listed, Range
    <2> QED
        BY <2>1, <2>2, <2>3, <2>4 DEF Made, Held
<1>6. \A x \in Removed(r) : slide[x] = "deleted"
    BY <1>2 DEF Before, RequestInv, PlaceInv, At, Removed
<1>7. Listed' = (Range(req[r].copy) \ Removed(r)) \union Made(r) /\ Listed' = Range(new)
    BY <1>1, <1>3 DEF Listed
<1>8. rec \in RequestRecords
    <2>1. Positions(new) \in SUBSET (Slides \X Nat)
        BY <1>3, PositionsIs
    <2>2. /\ version' \in Nat /\ "renumber" \in Places /\ <<>> \in Seq(Slides)
          /\ req[r].kept \union (Range(new) \ Listed) \in SUBSET Slides
          /\ Listed \ Range(new) \in SUBSET Slides
        <3>1. Range(new) \subseteq Slides /\ req[r].kept \subseteq Slides
            BY <1>2, <1>3 DEF RequestRecords, Range
        <3> QED
            BY <1>2, <1>5, <3>1 DEF Places
    <2> QED
        BY <1>2, <1>3, <2>1, <2>2 DEF RequestRecords
<1>9. /\ rec.at = "renumber" /\ rec.seen = version' /\ rec.made = <<>>
      /\ rec.kind = req[r].kind /\ rec.copy = new /\ rec.todo = Positions(new)
      /\ rec.kept = req[r].kept \union (Range(new) \ Listed) /\ rec.gone = Listed \ Range(new)
    BY <1>2 DEF RequestRecords
<1>10. req' = [req EXCEPT ![r] = rec]
    BY <1>1 DEF Saved
<1> HIDE DEF rec
<1>11. req'[r] = rec /\ \A q \in Requests \ {r} : req'[q] = req[q]
    BY <1>10 DEF Before, OrderShape
<1>12. /\ alone' \in [Requests -> BOOLEAN]
       /\ \A q \in Requests \ {r} : ~alone'[q]
    BY <1>2, WritesAlone DEF Before, OrderShape
<1>13. version' \in Nat /\ version' > version
    BY <1>2
<1>14. OrderShape'
    <2>1. req' \in [Requests -> RequestRecords]
        BY <1>8, <1>10 DEF Before, OrderShape
    <2>2. ASSUME NEW q \in Requests PROVE req'[q].seen <= version'
        <3>1. CASE q = r
            BY <1>9, <1>11, <1>13, <3>1
        <3>2. CASE q # r
            <4>1. req'[q].seen = req[q].seen /\ req[q].seen <= version /\ req[q].seen \in Nat
                BY <1>11, <3>2 DEF Before, OrderShape, RequestRecords
            <4> QED
                BY <4>1, <1>2, <1>13
        <3> QED
            BY <3>1, <3>2
    <2>3. slide' \in [Slides -> {"none", "live", "deleted"}] /\ index' \in [Slides -> Nat]
        BY <1>2 DEF Before, OrderShape
    <2> QED
        BY <1>1, <1>2, <1>3, <1>12, <1>13, <2>1, <2>2, <2>3 DEF OrderShape
<1>15. \A x \in Range(req[r].copy) \union Made(r) : slide[x] # "none"
    BY <1>4, <1>5
<1>16. Passes(r)
    <2>1. Held(r)' = {}
        BY <1>1, <1>9, <1>11 DEF Held, Making, Listed
    <2>2. \A x \in Listed : slide'[x] = "live" => x \in Listed'
        BY <1>2, <1>4, <1>6, <1>7
    <2>3. \A x \in Listed' : x \in Listed \/ x \in Held(r)
        BY <1>4, <1>5, <1>7
    <2>4. IsInjective(order')
        BY <1>1, <1>3
    <2>5. req'[r].gone \subseteq req[r].gone \union Listed
        BY <1>9, <1>11
    <2> QED
        BY <1>2, <1>11, <1>12, <1>13, <2>1, <2>2, <2>3, <2>4, <2>5 DEF Passes
<1>17. PlaceInv(r)'
    BY <1>9, <1>11 DEF PlaceInv, At
<1>18. CopyInv(r)' /\ MadeInv(r)'
    <2>1. \A x \in Range(new) : slide'[x] # "none"
        BY <1>2, <1>3, <1>15
    <2>2. order' = new
        BY <1>1
    <2> QED
        BY <1>3, <1>7, <1>9, <1>11, <2>1, <2>2 DEF CopyInv, MadeInv, At, Loaded, Making
<1>19. KeptInv(r)'
    <2>1. \A x \in req[r].kept : slide[x] # "none" /\ (slide[x] = "live" => x \in Listed)
        BY DEF Before, RequestInv, KeptInv
    <2>2. \A x \in rec.kept : slide'[x] # "none" /\ (slide'[x] = "live" => x \in Listed')
        BY <1>2, <1>3, <1>4, <1>6, <1>7, <1>9, <1>15, <2>1
    <2>3. \A x \in rec.gone : slide'[x] # "none" /\ x \notin Listed'
        BY <1>2, <1>4, <1>7, <1>9, <1>15
    <2> QED
        BY <1>11, <2>2, <2>3 DEF KeptInv
<1>20. AloneInv(r)'
    <2>1. \A i \in DOMAIN new : <<new[i], i - 1>> \in Positions(new)
        BY DEF Positions
    <2>2. rec.todo = Positions(order') /\ order' = new
        BY <1>1, <1>9
    <2>3. req'[r].seen = version'
        BY <1>9, <1>11
    <2> QED
        BY <1>11, <2>1, <2>2, <2>3 DEF AloneInv, Positions
<1>21. RestoredInv(r)'
    BY <1>9, <1>11 DEF RestoredInv, At
<1> QED
    BY <1>14, <1>16, <1>17, <1>18, <1>19, <1>20, <1>21 DEF RequestInv

LEMMA RenumberKeeps ==
    ASSUME NEW r \in Requests, Before(r), Renumber(r)
    PROVE  OrderShape' /\ Passes(r) /\ RequestInv(r)'
<1>1. PICK w \in req[r].todo :
        /\ index' = IF slide[w[1]] = "live" THEN [index EXCEPT ![w[1]] = w[2]] ELSE index
        /\ req' = [req EXCEPT ![r].todo = @ \ {w}]
    BY DEF Renumber
<1> DEFINE rec == [req[r] EXCEPT !.todo = @ \ {w}]
<1>2. /\ UNCHANGED <<order, version, slide>> /\ deaths' \in 0..MaxDeaths /\ Writes(r)
      /\ req[r].at = "renumber" /\ req[r] \in RequestRecords /\ req[r].seen <= version
      /\ order \in Seq(Slides) /\ version \in Nat
      /\ slide \in [Slides -> {"none", "live", "deleted"}] /\ index \in [Slides -> Nat]
    BY DEF Renumber, At, Before, OrderShape
<1>3. w[1] \in Slides /\ w[2] \in Nat /\ w = <<w[1], w[2]>>
    BY <1>2 DEF RequestRecords
<1>4. rec \in RequestRecords
    <2>1. req[r].todo \ {w} \in SUBSET (Slides \X Nat)
        BY <1>2 DEF RequestRecords
    <2> QED
        BY <1>2, <2>1 DEF RequestRecords
<1>5. /\ rec.at = "renumber" /\ rec.seen = req[r].seen /\ rec.made = req[r].made
      /\ rec.kind = req[r].kind /\ rec.copy = req[r].copy /\ rec.target = req[r].target
      /\ rec.kept = req[r].kept /\ rec.gone = req[r].gone /\ rec.todo = req[r].todo \ {w}
    BY <1>2 DEF RequestRecords
<1>6. req' = [req EXCEPT ![r] = rec]
    BY <1>1
<1> HIDE DEF rec
<1>7. req'[r] = rec /\ \A q \in Requests \ {r} : req'[q] = req[q]
    BY <1>6 DEF Before, OrderShape
<1>8. /\ alone' \in [Requests -> BOOLEAN]
      /\ \A q \in Requests \ {r} : ~alone'[q]
      /\ alone'[r] <=> alone[r]
    BY <1>2, WritesAlone DEF Before, OrderShape
<1>9. index' \in [Slides -> Nat]
    BY <1>1, <1>2, <1>3
<1>10. OrderShape'
    <2>1. /\ req' \in [Requests -> RequestRecords]
          /\ \A q \in Requests : req'[q].seen <= version'
        BY <1>2, <1>4, <1>5, <1>6, <1>7 DEF Before, OrderShape
    <2> QED
        BY <1>2, <1>8, <1>9, <2>1 DEF OrderShape
<1>11. ~Making(r)'
    BY <1>5, <1>7 DEF Making
<1>12. Listed' = Listed
    BY <1>2 DEF Listed
<1>13. Passes(r)
    <2>2. Held(r)' \subseteq Held(r)
        BY <1>2, <1>5, <1>7, <1>11, <1>12 DEF Held, Loaded
    <2>1. IsInjective(order')
        BY <1>2 DEF Before, ListInv
    <2> QED
        BY <1>2, <1>5, <1>7, <1>8, <1>12, <2>1, <2>2 DEF Passes
<1>14. PlaceInv(r)' /\ MadeInv(r)'
    BY <1>2, <1>5, <1>7 DEF PlaceInv, MadeInv, At, Making, Before, RequestInv
<1>15. CopyInv(r)' /\ KeptInv(r)'
    BY <1>2, <1>5, <1>7, <1>12 DEF CopyInv, KeptInv, Before, RequestInv, Loaded
<1>16. AloneInv(r)'
    <2>a. alone[r] => req'[r].seen = version'
        BY <1>2, <1>5, <1>7 DEF Before, RequestInv, AloneInv, At, Loaded
    <2> SUFFICES ASSUME alone[r], req[r].kind # "deck.refine" PROVE AloneInv(r)'
        BY <1>5, <1>7, <1>8, <2>a DEF AloneInv
    <2>1. /\ req[r].seen = version /\ req[r].todo \subseteq Positions(order)
          /\ \A i \in DOMAIN order : slide[order[i]] = "live" =>
                index[order[i]] = i - 1 \/ <<order[i], i - 1>> \in req[r].todo
        BY <1>2 DEF Before, RequestInv, AloneInv, At, Loaded
    <2>2. \A i, j \in DOMAIN order : order[i] = order[j] => i = j
        BY DEF Before, ListInv, IsInjective
    <2>3. PICK j \in DOMAIN order : w = <<order[j], j - 1>>
        BY <2>1 DEF Positions
    <2>4. ASSUME NEW i \in DOMAIN order, slide[order[i]] = "live"
          PROVE  index'[order[i]] = i - 1 \/ <<order[i], i - 1>> \in req[r].todo \ {w}
        <3>1. CASE i = j
            <4>1. index' = [index EXCEPT ![order[i]] = i - 1] /\ order[i] \in Slides
                BY <1>1, <1>3, <2>3, <2>4, <3>1
            <4> QED
                BY <4>1, <1>2
        <3>2. CASE i # j
            <4>1. order[i] # order[j] /\ order[i] \in Slides
                BY <1>2, <2>2, <3>2
            <4>2. index'[order[i]] = index[order[i]]
                BY <1>1, <1>2, <1>3, <2>3, <4>1
            <4>3. <<order[i], i - 1>> # w
                BY <2>3, <4>1
            <4> QED
                BY <2>1, <2>4, <4>2, <4>3
        <3> QED
            BY <3>1, <3>2
    <2>5. req'[r].seen = version' /\ req'[r].todo = req[r].todo \ {w}
        BY <1>2, <1>5, <1>7, <2>1
    <2>6. order' = order /\ slide' = slide /\ Positions(order') = Positions(order)
        BY <1>2
    <2> QED
        BY <2>1, <2>4, <2>5, <2>6 DEF AloneInv
<1>17. RestoredInv(r)'
    BY <1>5, <1>7 DEF RestoredInv, At
<1> QED
    BY <1>10, <1>13, <1>14, <1>15, <1>16, <1>17 DEF RequestInv
-----------------------------------------------------------------------------
(* The invariant.                                                          *)

\* A step of r leaves the other requests as they were.
LEMMA OthersKeep ==
    ASSUME NEW r \in Requests, NEW q \in Requests, q # r,
           OrderIInv, OrderShape', Passes(r)
    PROVE  RequestInv(q)'
<1>1. /\ req'[q] = req[q] /\ req[q] \in RequestRecords
      /\ RequestInv(q) /\ HeldByOne(q, r) /\ HeldByOne(r, q)
      /\ version \in Nat /\ req[q].seen <= version /\ req[q].seen \in Nat
      /\ version' \in Nat
      /\ slide' \in [Slides -> {"none", "live", "deleted"}]
    BY DEF Passes, OrderIInv, OrderShape, RequestRecords
<1>2. \A s \in Slides : slide[s] # "none" =>
          slide'[s] # "none" /\ (slide'[s] = "live" => slide[s] = "live")
    BY DEF Passes
<1>3. /\ \A s \in Listed' : s \in Listed \/ s \in Held(r)
      /\ \A s \in Listed : slide'[s] = "live" => s \in Listed'
    BY DEF Passes
<1>4. PlaceInv(q)'
    <2>1. ASSUME NEW s \in Slides, slide[s] = "deleted" PROVE slide'[s] = "deleted"
        <3>1. slide'[s] \in {"none", "live", "deleted"}
            BY <1>1
        <3> QED
            BY <1>2, <2>1, <3>1
    <2> QED
        BY <1>1, <2>1 DEF PlaceInv, RequestInv, At
<1>5. CopyInv(q)'
    <2>1. req[q].seen = version' => order' = order /\ version' = version
        BY <1>1 DEF Passes
    <2>2. Range(req[q].copy) \subseteq Slides
        BY <1>1 DEF RequestRecords, Range
    <2> QED
        BY <1>1, <1>2, <2>1, <2>2 DEF CopyInv, RequestInv, Loaded, Listed
<1>6. MadeInv(q)'
    <2>1. Made(q) \subseteq Slides /\ Made(q)' = Made(q)
        BY <1>1 DEF RequestRecords, Made, Range
    <2>2. ASSUME Making(q), NEW s \in Made(q)
          PROVE  slide'[s] # "none" /\ s \notin Listed' /\ s \notin Range(req[q].copy)
        <3>1. slide[s] # "none" /\ s \notin Listed /\ s \notin Range(req[q].copy)
            BY <1>1, <2>2 DEF RequestInv, MadeInv
        <3>2. s \notin Held(r)
            BY <1>1, <2>2 DEF HeldByOne, Held
        <3> QED
            BY <1>2, <1>3, <2>1, <3>1, <3>2
    <2>3. /\ At(q, "load") \/ At(q, "read") => req[q].made = <<>>
          /\ req[q].kind \in {"slide.delete", "deck.reorderSlides"} => req[q].made = <<>>
          /\ Making(q) => IsInjective(req[q].made)
        BY <1>1 DEF RequestInv, MadeInv
    <2>4. (Making(q)' <=> Making(q)) /\ (At(q, "load")' <=> At(q, "load"))
          /\ (At(q, "read")' <=> At(q, "read"))
        BY <1>1 DEF Making, At
    <2> QED
        BY <1>1, <2>1, <2>2, <2>3, <2>4 DEF MadeInv
<1>7. KeptInv(q)'
    <2>1. req[q].kept \subseteq Slides /\ req[q].gone \subseteq Slides
        BY <1>1 DEF RequestRecords
    <2>2. ASSUME NEW s \in req[q].kept
          PROVE  slide'[s] # "none" /\ (slide'[s] = "live" => s \in Listed')
        BY <1>1, <1>2, <1>3, <2>1 DEF RequestInv, KeptInv
    <2>3. ASSUME NEW s \in req[q].gone
          PROVE  slide'[s] # "none" /\ s \notin Listed'
        <3>1. slide[s] # "none" /\ s \notin Listed
            BY <1>1 DEF RequestInv, KeptInv
        <3>2. s \notin Held(r)
            BY <1>1 DEF HeldByOne
        <3> QED
            BY <1>2, <1>3, <2>1, <3>1, <3>2
    <2> QED
        BY <1>1, <2>2, <2>3 DEF KeptInv
<1>8. AloneInv(q)' /\ RestoredInv(q)'
    <2>1. alone'[q] => alone[q] /\ UNCHANGED <<order, version, slide, index>>
        BY DEF Passes
    <2> QED
        BY <1>1, <2>1 DEF AloneInv, RestoredInv, RequestInv, Loaded, At, Positions, IndexAgrees
<1> QED
    BY <1>4, <1>5, <1>6, <1>7, <1>8 DEF RequestInv

\* What is held is held by one request, and new to every list.
LEMMA HeldByOneKeeps ==
    ASSUME NEW r \in Requests, OrderIInv, OrderShape', Passes(r),
           NEW p \in Requests, NEW q \in Requests
    PROVE  HeldByOne(p, q)'
<1> SUFFICES ASSUME NEW s \in Held(p)'
             PROVE  /\ p # q => s \notin Held(q)'
                    /\ s \notin req'[q].gone
    BY DEF HeldByOne
\* It was held before, or does not exist yet.
<1>1. ASSUME NEW x \in Requests, NEW t \in Held(x)'
      PROVE  t \in Held(x) \/ (x = r /\ slide[t] = "none")
    <2>1. CASE x = r
        BY <1>1, <2>1 DEF Passes
    <2>2. CASE x # r
        <3>1. req'[x] = req[x] /\ req[x].seen <= version /\ req[x].seen \in Nat /\ version \in Nat
            BY <2>2 DEF Passes, OrderIInv, OrderShape, RequestRecords
        <3>2. req[x].seen = version' => order' = order /\ version' = version
            <4>1. version' \in Nat
                BY DEF OrderShape
            <4> QED
                BY <3>1, <4>1 DEF Passes
        <3> QED
            BY <1>1, <3>1, <3>2 DEF Held, Making, Made, Loaded, Listed
    <2> QED
        BY <2>1, <2>2
<1>2. req'[q].gone \subseteq req[q].gone \union Listed
    <2>1. CASE q # r
        BY <2>1 DEF Passes
    <2>2. CASE q = r
        BY <2>2 DEF Passes
    <2> QED
        BY <2>1, <2>2
<1>3. \A x \in Requests : \A t \in Held(x) : slide[t] # "none" /\ t \notin Listed
    BY DEF OrderIInv, RequestInv, MadeInv, CopyInv, Held
<1>4. \A x \in Requests : \A t \in req[x].gone : slide[t] # "none"
    BY DEF OrderIInv, RequestInv, KeptInv
<1>5. \A x, y \in Requests : HeldByOne(x, y)
    BY DEF OrderIInv
<1>6. s \notin req'[q].gone
    <2>1. CASE s \in Held(p)
        BY <1>2, <1>3, <1>5, <2>1 DEF HeldByOne
    <2>2. CASE slide[s] = "none"
        BY <1>2, <1>4, <2>2 DEF OrderIInv, ListInv
    <2> QED
        BY <1>1, <2>1, <2>2
<1>7. ASSUME p # q, s \in Held(q)' PROVE FALSE
    <2>1. s \in Held(p) \/ (p = r /\ slide[s] = "none")
        BY <1>1
    <2>2. s \in Held(q) \/ (q = r /\ slide[s] = "none")
        BY <1>1, <1>7
    <2> QED
        BY <1>3, <1>5, <1>7, <2>1, <2>2 DEF HeldByOne
<1> QED
    BY <1>6, <1>7

LEMMA ListKeeps ==
    ASSUME NEW r \in Requests, OrderIInv, Passes(r)
    PROVE  ListInv'
<1>1. ASSUME NEW s \in Listed' PROVE slide'[s] # "none"
    <2>1. s \in Slides /\ slide[s] # "none"
        <3>1. CASE s \in Listed
            BY <3>1 DEF OrderIInv, OrderShape, ListInv, Listed, Range
        <3>2. CASE s \in Held(r)
            BY <3>2 DEF OrderIInv, OrderShape, RequestRecords, RequestInv, MadeInv, CopyInv, Made,
                        Held, Range
        <3> QED
            BY <3>1, <3>2 DEF Passes
    <2> QED
        BY <2>1 DEF Passes
<1> QED
    BY <1>1 DEF ListInv, Passes

LEMMA StepPasses ==
    ASSUME OrderIInv, OrderNext
    PROVE  \E r \in Requests : OrderShape' /\ Passes(r) /\ RequestInv(r)'
<1>1. PICK r \in Requests :
        \/ \E kind \in Kinds : Start(r, kind)
        \/ Load(r) \/ ReadSlide(r) \/ ReadSlides(r) \/ RefineSlide(r) \/ RefineDone(r)
        \/ Create(r) \/ Tombstone(r)
        \/ Push(r) \/ Save(r) \/ NothingToSave(r) \/ Refused(r)
        \/ Renumber(r) \/ Renumbered(r)
        \/ SlideFailed(r) \/ Die(r)
    BY DEF OrderNext
<1>2. Before(r)
    BY DEF OrderIInv, Before
<1> QED
    BY <1>1, <1>2, StartKeeps, LoadKeeps, ReadSlideKeeps, ReadSlidesKeeps, RefineSlideKeeps,
       RefineDoneKeeps, CreateKeeps, TombstoneKeeps, PushKeeps, SaveKeeps, NothingToSaveKeeps,
       RefusedKeeps, RenumberKeeps, RenumberedKeeps, SlideFailedKeeps, DieKeeps

LEMMA OrderStep == OrderIInv /\ [OrderNext]_orderVars => OrderIInv'
<1> SUFFICES ASSUME OrderIInv, [OrderNext]_orderVars PROVE OrderIInv'
    OBVIOUS
<1>1. CASE UNCHANGED orderVars
    BY <1>1 DEF orderVars, OrderIInv, OrderShape, RequestInv, PlaceInv, CopyInv, MadeInv, KeptInv,
                AloneInv, RestoredInv, HeldByOne, Held, ListInv, At, Loaded, Making, Made, Listed,
                IndexAgrees
<1>2. CASE OrderNext
    <2>3. PICK r \in Requests : OrderShape' /\ Passes(r) /\ RequestInv(r)'
        BY <1>2, StepPasses
    <2>4. \A q \in Requests : RequestInv(q)'
        BY <2>3, OthersKeep
    <2>5. \A p, q \in Requests : HeldByOne(p, q)'
        BY <2>3, HeldByOneKeeps
    <2>6. ListInv'
        BY <2>3, ListKeeps
    <2> QED
        BY <2>3, <2>4, <2>5, <2>6 DEF OrderIInv
<1> QED
    BY <1>1, <1>2

LEMMA OrderStart == OrderInit => OrderIInv
<1> SUFFICES ASSUME OrderInit PROVE OrderIInv
    OBVIOUS
<1>1. /\ order = [i \in 1..Initial |-> i] /\ version = 0
      /\ slide = [s \in Slides |-> IF s <= Initial THEN "live" ELSE "none"]
      /\ index = [s \in Slides |-> IF s <= Initial THEN s - 1 ELSE 0]
      /\ req = [r \in Requests |-> NoRequest]
      /\ deaths = 0
      /\ alone = [r \in Requests |-> FALSE]
    BY DEF OrderInit
<1>2. OrderShape
    <2>1. order \in Seq(Slides)
        BY <1>1, SlideOrderAssumption DEF Slides
    <2>2. index \in [Slides -> Nat]
        BY <1>1, SlideOrderAssumption DEF Slides
    <2>3. req \in [Requests -> RequestRecords] /\ \A r \in Requests : req[r].seen <= version
        BY <1>1, NoRequestIs DEF NoRequest
    <2> QED
        BY <1>1, <2>1, <2>2, <2>3, SlideOrderAssumption DEF OrderShape
<1>3. ASSUME NEW r \in Requests PROVE RequestInv(r)
    <2>1. req[r].at = "idle" /\ req[r].kind = "none" /\ req[r].kept = {} /\ req[r].gone = {}
        BY <1>1 DEF NoRequest
    <2> QED
        BY <1>1, <2>1 DEF RequestInv, PlaceInv, CopyInv, MadeInv, KeptInv, AloneInv, RestoredInv,
                          At, Loaded, Making
<1>4. ASSUME NEW q \in Requests, NEW r \in Requests PROVE HeldByOne(q, r)
    <2>1. ~Making(q) /\ ~Loaded(q)
        BY <1>1 DEF NoRequest, Making, Loaded
    <2> QED
        BY <2>1 DEF HeldByOne, Held
<1>5. ListInv
    <2>1. DOMAIN order = 1..Initial /\ \A i \in 1..Initial : order[i] = i /\ i \in Slides
        BY <1>1, SlideOrderAssumption DEF Slides
    <2>2. ASSUME NEW s \in Listed PROVE slide[s] # "none"
        <3>1. s \in 1..Initial /\ s \in Slides
            BY <2>1 DEF Listed, Range
        <3> QED
            BY <1>1, <3>1, SlideOrderAssumption
    <2> QED
        BY <2>1, <2>2 DEF ListInv, IsInjective
<1> QED
    BY <1>2, <1>3, <1>4, <1>5 DEF OrderIInv

\* The inductive invariant of the lists: it says of every request which of its fields mean
\* something where it stands.
THEOREM OrderInvariance == OrderSpec => []OrderIInv
<1>1. OrderInit => OrderIInv
    BY OrderStart
<1>2. OrderIInv /\ [OrderNext]_orderVars => OrderIInv'
    BY OrderStep
<1> QED
    BY <1>1, <1>2, PTL DEF OrderSpec

-----------------------------------------------------------------------------
(* The properties.                                                         *)

\* Every variable has its type, and a request has loaded no version that was not stored
\* (the saves of SlideOrder).
THEOREM OrderTypeCorrectness == OrderSpec => []OrderTypeOK
<1>1. OrderIInv => OrderTypeOK
    <2> SUFFICES ASSUME OrderIInv PROVE OrderTypeOK
        OBVIOUS
    <2>1. ASSUME NEW r \in Requests
          PROVE  /\ req[r].at \in {"idle", "load", "read", "create", "tombstone", "save",
                                   "renumber", "next", "done", "refused", "dead"}
                 /\ req[r].kind \in Kinds \cup {"none"}
                 /\ req[r].target \in Slides \cup {NoSlide}
                 /\ req[r].copy \in Seq(Slides) /\ req[r].made \in Seq(Slides)
                 /\ req[r].seen \in 0..version
                 /\ UNION {req[r].pending, req[r].kept, req[r].gone} \subseteq Slides
                 /\ req[r].splits \in 0..MaxSplits
                 /\ \A w \in req[r].todo : w \in Slides \X Nat
        BY DEF OrderIInv, OrderShape, RequestRecords, Places
    <2> QED
        BY <2>1 DEF OrderIInv, OrderShape, OrderTypeOK
<1> QED
    BY <1>1, OrderInvariance, PTL

\* AnswersStayTrue: what an action saved stays true, whatever copies the others still hold
\* and save (the saves of actions/slide.ts, actions/deck.ts and actions/reconcile.ts).
THEOREM SavedAnswersStayTrue == OrderSpec => []AnswersStayTrue
<1>1. OrderIInv /\ OrderTypeOK => AnswersStayTrue
    BY DEF OrderIInv, RequestInv, KeptInv, ListInv, AnswersStayTrue
<1> QED
    BY <1>1, OrderInvariance, OrderTypeCorrectness, PTL

\* RenumberingRestoresOrder: an action that renumbers while nobody else writes leaves the
\* indexes in the order of the list (renumber and the loops like it).
THEOREM RenumberingRestores == OrderSpec => []RenumberingRestoresOrder
<1>1. OrderIInv => RenumberingRestoresOrder
    BY DEF OrderIInv, RequestInv, RestoredInv, RenumberingRestoresOrder
<1> QED
    BY <1>1, OrderInvariance, PTL

\* NothingListedIsLost: no step takes a slide off the list that has not been deleted, so no
\* stale copy overwrites what another action saved.
THEOREM StaleCopiesLoseNothing == OrderSpec => NothingListedIsLost
<1>1. OrderIInv /\ OrderIInv' /\ [OrderNext]_orderVars =>
        [\A s \in Listed \ Range(order') : slide[s] = "deleted"]_orderVars
    <2> SUFFICES ASSUME OrderIInv, OrderNext
                 PROVE  \A s \in Listed \ Range(order') : slide[s] = "deleted"
        OBVIOUS
    <2>1. PICK r \in Requests : Passes(r)
        BY StepPasses
    <2>2. ASSUME NEW s \in Listed, s \notin Range(order') PROVE slide[s] = "deleted"
        <3>1. s \in Slides /\ slide[s] # "none" /\ slide[s] \in {"none", "live", "deleted"}
            BY DEF OrderIInv, OrderShape, ListInv, Listed, Range
        <3>2. order' # order
            BY <2>2 DEF Listed
        <3>3. slide' = slide /\ slide'[s] # "live"
            BY <2>1, <2>2, <3>2 DEF Passes, Listed
        <3> QED
            BY <3>1, <3>3
    <2> QED
        BY <2>2
<1> QED
    BY <1>1, OrderInvariance, PTL DEF OrderSpec, NothingListedIsLost
=============================================================================
