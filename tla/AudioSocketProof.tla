-------------------------- MODULE AudioSocketProof --------------------------
(***************************************************************************)
(* Theorems about AudioSocket, for any number of connections, start         *)
(* messages and frames and any budget.                                     *)
(***************************************************************************)
EXTENDS AudioSocket, FiniteSetTheorems, TLAPS

(* How far the parts of one recording agree with each other.               *)

\* Before its begin() has run, nothing of a recording exists.
Unborn(r) ==
    begins[r] # "over" =>
        /\ r \notin reserved
        /\ ~Retained(r)
        /\ flush[r] = "none"
        /\ task[r] = "none"

\* A flush is entered from `retain` alone and holds the reservation throughout.
FlushOrder(r) ==
    /\ Retained(r) => r \in reserved /\ flush[r] = "none"
    /\ flush[r] \notin {"none", "over"} => r \in reserved /\ upload[r] # "null"
    /\ flush[r] \in {"recording", "charging"} => upload[r] = "done"

\* The upload opens last, after every check, and never without a reservation.
UploadOrder(r) ==
    /\ task[r] # "over" => upload[r] = "null" /\ ~discard[r]
    /\ discard[r] => upload[r] = "null"
    /\ upload[r] = "open" => r \in reserved
    /\ upload[r] = "null" => bytes[r] = 0

HeldFrames(r) ==
    /\ capped[r] => pending[r] = 0
    /\ pending[r] <= MaxPending

RecInv(r) == Unborn(r) /\ FlushOrder(r) /\ UploadOrder(r) /\ HeldFrames(r)

Counted ==
    /\ IsFiniteSet(reserved)
    /\ HeldMatchesReservations
    /\ BudgetHonoured

IInv == TypeOK /\ Counted /\ \A r \in Rec : RecInv(r)

-----------------------------------------------------------------------------

\* A recording is the pair it is written as.
LEMMA RecParts ==
    /\ \A r \in Rec : r[1] \in Conns /\ r[2] \in 1..MaxStarts
                      /\ r = <<r[1], r[2]>>
    /\ \A c \in Conns, b \in 0..MaxStarts :
          <<c, b>> \in Rec <=> b # 0
    /\ \A r \in Rec, c \in Conns, b \in 0..MaxStarts :
          r = <<c, b>> <=> r[1] = c /\ r[2] = b
  BY BoundsAssumption DEF Rec, Starts

\* Every variable starts in its type.
LEMMA InitTyped == Init => TypeOK
  BY BoundsAssumption DEF Init, TypeOK

\* Every step keeps every variable in its type: the part of finish() that takes
\* the recording.
LEMMA TakeTyped ==
  ASSUME TypeOK, NEW r \in Rec, TakeRetained(r)
  PROVE  /\ flush' \in [Rec -> {"none", "aborting", "completing", "recording",
                                "charging", "over"}]
         /\ retain' \in [Conns -> 0..MaxStarts]
         /\ heldBytes' \in Nat
         /\ reserved' \subseteq Rec
<1>1. retain' \in [Conns -> 0..MaxStarts]
  BY RecParts, BoundsAssumption DEF TypeOK, TakeRetained
<1>2. CASE upload[r] = "null"
  BY <1>1, <1>2, BoundsAssumption DEF TypeOK, TakeRetained, Release
<1>3. CASE upload[r] # "null"
  BY <1>1, <1>3 DEF TypeOK, TakeRetained, FlushOf, BudgetUnchanged
<1> QED  BY <1>2, <1>3

\* Every step keeps every variable in its type.
LEMMA TypeStep ==
  ASSUME TypeOK, [Next]_vars
  PROVE  TypeOK'
<1>1. ASSUME NEW r \in Rec, Start(r)
       PROVE  TypeOK'
  BY <1>1, RecParts, BoundsAssumption, SizesAssumption DEF TypeOK, Start,
     recVars, BudgetUnchanged
<1>2. ASSUME NEW r \in Rec, BeginRefused(r)
       PROVE  TypeOK'
  BY <1>2, RecParts, BoundsAssumption, SizesAssumption DEF TypeOK,
     BeginRefused, ServerClose, recVars, BudgetUnchanged
<1>3. ASSUME NEW r \in Rec, BeginRetaining(r)
       PROVE  TypeOK'
  BY <1>3, RecParts, BoundsAssumption, SizesAssumption DEF TypeOK,
     BeginRetaining, OpenStream, Reserve
<1>4. ASSUME NEW r \in Rec, BeginWithoutRetaining(r)
       PROVE  TypeOK'
  BY <1>4, RecParts, BoundsAssumption, SizesAssumption DEF TypeOK,
     BeginWithoutRetaining, OpenStream, BudgetUnchanged
<1>5. ASSUME NEW r \in Rec, OwnerDenied(r)
       PROVE  TypeOK'
  BY <1>5, RecParts, BoundsAssumption, SizesAssumption DEF TypeOK,
     OwnerDenied, TaskEnds, Deny, CapRetention, connVars, BudgetUnchanged
<1>6. ASSUME NEW r \in Rec, OwnerAllowed(r)
       PROVE  TypeOK'
  BY <1>6, RecParts, BoundsAssumption, SizesAssumption DEF TypeOK,
     OwnerAllowed, connVars, BudgetUnchanged
<1>7. ASSUME NEW r \in Rec, StorageFull(r)
       PROVE  TypeOK'
  BY <1>7, RecParts, BoundsAssumption, SizesAssumption DEF TypeOK,
     StorageFull, TaskEnds, Deny, CapRetention, connVars, BudgetUnchanged
<1>8. ASSUME NEW r \in Rec, StorageFree(r)
       PROVE  TypeOK'
  BY <1>8, RecParts, BoundsAssumption, SizesAssumption DEF TypeOK,
     StorageFree, connVars, BudgetUnchanged
<1>9. ASSUME NEW r \in Rec, OpenFailed(r)
       PROVE  TypeOK'
  BY <1>9, RecParts, BoundsAssumption, SizesAssumption DEF TypeOK,
     OpenFailed, TaskEnds, Deny, CapRetention, connVars, BudgetUnchanged
<1>10. ASSUME NEW r \in Rec, Opened(r)
       PROVE  TypeOK'
  BY <1>10, RecParts, BoundsAssumption, SizesAssumption DEF TypeOK, Opened,
     TaskEnds, Replayed, connVars, BudgetUnchanged
<1>11. ASSUME NEW r \in Rec, SessionOver(r)
       PROVE  TypeOK'
  BY <1>11, RecParts, BoundsAssumption, SizesAssumption DEF TypeOK,
     SessionOver, TaskEnds, connVars, BudgetUnchanged
<1>12. ASSUME NEW r \in Rec, UploadDone(r)
       PROVE  TypeOK'
  BY <1>12, RecParts, BoundsAssumption, SizesAssumption DEF TypeOK,
     UploadDone, FlushTo, connVars, BudgetUnchanged
<1>13. ASSUME NEW r \in Rec, DeckUpdated(r)
       PROVE  TypeOK'
  BY <1>13, RecParts, BoundsAssumption, SizesAssumption DEF TypeOK,
     DeckUpdated, FlushTo, connVars, BudgetUnchanged
<1>14. ASSUME NEW r \in Rec, FlushFailed(r)
       PROVE  TypeOK'
  BY <1>14, RecParts, BoundsAssumption, SizesAssumption DEF TypeOK,
     FlushFailed, FlushTo, connVars, BudgetUnchanged
<1>15. ASSUME NEW r \in Rec, GaugeCharged(r)
       PROVE  TypeOK'
  BY <1>15, RecParts, BoundsAssumption, SizesAssumption DEF TypeOK,
     GaugeCharged, FlushTo, connVars, Release
<1>16. ASSUME NEW r \in Rec, Aborted(r)
       PROVE  TypeOK'
  BY <1>16, RecParts, BoundsAssumption, SizesAssumption DEF TypeOK, Aborted,
     FlushTo, connVars, Release
<1>17. ASSUME NEW r \in Rec, ProviderEnds(r)
       PROVE  TypeOK'
  BY <1>17, RecParts, BoundsAssumption, SizesAssumption DEF TypeOK,
     ProviderEnds, ServerClose, recVars, BudgetUnchanged
<1>18. ASSUME NEW c \in Conns, Frame(c)
       PROVE  TypeOK'
  <2>1. CASE UNCHANGED <<capped, pending, bytes>>
    BY <1>18, <2>1, BoundsAssumption DEF TypeOK, Frame, BudgetUnchanged
  <2>2. ASSUME NEW r \in Rec, WriteFrame(r) PROVE TypeOK'
    <3>1. /\ capped' \in [Rec -> BOOLEAN]
          /\ pending' \in [Rec -> Nat]
          /\ bytes' \in [Rec -> Nat]
      <4>1. CASE CapRetention(r) /\ UNCHANGED bytes
        BY <4>1 DEF TypeOK, CapRetention
      <4>2. CASE CapRetention(r) /\ bytes' = [bytes EXCEPT ![r] = @ + 1]
        BY <4>2 DEF TypeOK, CapRetention
      <4>3. CASE /\ UNCHANGED <<capped, pending>>
                 /\ bytes' = [bytes EXCEPT ![r] = @ + 1]
        BY <4>3 DEF TypeOK
      <4> QED  BY <2>2, <4>1, <4>2, <4>3 DEF WriteFrame
    <3> QED  BY <1>18, <3>1, BoundsAssumption DEF TypeOK, Frame, BudgetUnchanged
  <2>3. ASSUME NEW r \in Rec, HoldFrame(r) PROVE TypeOK'
    <3>1. /\ capped' \in [Rec -> BOOLEAN]
          /\ pending' \in [Rec -> Nat]
          /\ bytes' \in [Rec -> Nat]
      <4>1. CASE CapRetention(r)
        BY <2>3, <4>1 DEF TypeOK, HoldFrame, CapRetention
      <4>2. CASE ~CapRetention(r)
        BY <2>3, <4>2 DEF TypeOK, HoldFrame
      <4> QED  BY <4>1, <4>2
    <3> QED  BY <1>18, <3>1, BoundsAssumption DEF TypeOK, Frame, BudgetUnchanged
  <2> QED  BY <1>18, <2>1, <2>2, <2>3 DEF Frame
<1>19. ASSUME NEW c \in Conns, Stop(c)
       PROVE  TypeOK'
  <2>1. /\ flush' \in [Rec -> {"none", "aborting", "completing", "recording",
                               "charging", "over"}]
        /\ retain' \in [Conns -> 0..MaxStarts]
        /\ heldBytes' \in Nat
        /\ reserved' \subseteq Rec
    <3>1. CASE NothingRetained(c)
      BY <3>1 DEF TypeOK, NothingRetained, BudgetUnchanged
    <3>2. ASSUME NEW r \in Rec, TakeRetained(r)
          PROVE  /\ flush' \in [Rec -> {"none", "aborting", "completing",
                                        "recording", "charging", "over"}]
                 /\ retain' \in [Conns -> 0..MaxStarts]
                 /\ heldBytes' \in Nat
                 /\ reserved' \subseteq Rec
      BY <3>2, TakeTyped
    <3> QED  BY <1>19, <3>1, <3>2 DEF Stop, Finish, BeginFlush
  <2> QED  BY <1>19, <2>1, RecParts DEF TypeOK, Stop, Finish, EndStream
<1>20. ASSUME NEW c \in Conns, Close(c)
       PROVE  TypeOK'
  <2>1. /\ flush' \in [Rec -> {"none", "aborting", "completing", "recording",
                               "charging", "over"}]
        /\ retain' \in [Conns -> 0..MaxStarts]
        /\ heldBytes' \in Nat
        /\ reserved' \subseteq Rec
    <3>1. CASE NothingRetained(c)
      BY <3>1 DEF TypeOK, NothingRetained, BudgetUnchanged
    <3>2. ASSUME NEW r \in Rec, TakeRetained(r)
          PROVE  /\ flush' \in [Rec -> {"none", "aborting", "completing",
                                        "recording", "charging", "over"}]
                 /\ retain' \in [Conns -> 0..MaxStarts]
                 /\ heldBytes' \in Nat
                 /\ reserved' \subseteq Rec
      BY <3>2, TakeTyped
    <3> QED  BY <1>20, <3>1, <3>2 DEF Close, Finish, BeginFlush
  <2> QED  BY <1>20, <2>1, RecParts DEF TypeOK, Close, Finish, EndStream
<1>21. ASSUME NEW c \in Conns, AllowanceSpent(c)
       PROVE  TypeOK'
  BY <1>21, RecParts, BoundsAssumption, SizesAssumption DEF TypeOK,
     AllowanceSpent, EndStream, ServerClose, recVars, BudgetUnchanged
<1>22. ASSUME UNCHANGED vars
       PROVE  TypeOK'
  BY <1>22 DEF TypeOK, vars
<1> QED
  BY <1>1, <1>2, <1>3, <1>4, <1>5, <1>6, <1>7, <1>8, <1>9, <1>10, <1>11,
     <1>12, <1>13, <1>14, <1>15, <1>16, <1>17, <1>18, <1>19, <1>20, <1>21,
     <1>22 DEF Next, BeginStep, TaskStep, FlushStep

\* Every step keeps the parts of every recording in agreement.
LEMMA RecStep ==
  ASSUME TypeOK, \A r \in Rec : RecInv(r), [Next]_vars, NEW q \in Rec
  PROVE  RecInv(q)'
<1>1. ASSUME NEW r \in Rec, Start(r)
       PROVE  RecInv(q)'
  BY <1>1, RecParts, SizesAssumption DEF TypeOK, RecInv, Unborn, FlushOrder,
     UploadOrder, HeldFrames, Retained, Start, recVars, BudgetUnchanged
<1>2. ASSUME NEW r \in Rec, BeginRefused(r)
       PROVE  RecInv(q)'
  BY <1>2, RecParts, SizesAssumption DEF TypeOK, RecInv, Unborn, FlushOrder,
     UploadOrder, HeldFrames, Retained, BeginRefused, ServerClose, recVars,
     BudgetUnchanged
<1>3. ASSUME NEW r \in Rec, BeginRetaining(r)
       PROVE  RecInv(q)'
  <2> USE DEF BeginRetaining, OpenStream, Reserve
  <2>1. CASE q = r
    BY <1>3, <2>1, RecParts, ZenonT(60)
       DEF TypeOK, RecInv, Unborn, FlushOrder, UploadOrder, HeldFrames, Retained
  <2>2. CASE q # r
    <3>1. q[1] = r[1] => ~Retained(q)'
      <4> SUFFICES ASSUME q[1] = r[1] PROVE retain'[q[1]] # q[2]
        BY DEF Retained
      <4>1. retain'[q[1]] = r[2]  BY <1>3, RecParts DEF TypeOK
      <4>2. q[2] # r[2]  BY <2>2, RecParts
      <4> QED  BY <4>1, <4>2
    <3>2. q[1] # r[1] => (Retained(q)' <=> Retained(q))
      BY <1>3, <2>2, RecParts DEF TypeOK, Retained
    <3>3. /\ (q \in reserved)' <=> q \in reserved
          /\ begins'[q] = begins[q] /\ task'[q] = task[q]
          /\ UNCHANGED <<upload, capped, discard, pending, bytes, flush>>
      BY <1>3, <2>2 DEF TypeOK
    <3> QED
      BY <3>1, <3>2, <3>3
         DEF RecInv, Unborn, FlushOrder, UploadOrder, HeldFrames
  <2> QED  BY <2>1, <2>2
<1>4. ASSUME NEW r \in Rec, BeginWithoutRetaining(r)
       PROVE  RecInv(q)'
  BY <1>4, RecParts, SizesAssumption DEF TypeOK, RecInv, Unborn, FlushOrder,
     UploadOrder, HeldFrames, Retained, BeginWithoutRetaining, OpenStream,
     BudgetUnchanged
<1>5. ASSUME NEW r \in Rec, OwnerDenied(r)
       PROVE  RecInv(q)'
  BY <1>5, RecParts, SizesAssumption DEF TypeOK, RecInv, Unborn, FlushOrder,
     UploadOrder, HeldFrames, Retained, OwnerDenied, TaskEnds, Deny,
     CapRetention, connVars, BudgetUnchanged
<1>6. ASSUME NEW r \in Rec, OwnerAllowed(r)
       PROVE  RecInv(q)'
  BY <1>6, RecParts, SizesAssumption DEF TypeOK, RecInv, Unborn, FlushOrder,
     UploadOrder, HeldFrames, Retained, OwnerAllowed, connVars,
     BudgetUnchanged
<1>7. ASSUME NEW r \in Rec, StorageFull(r)
       PROVE  RecInv(q)'
  BY <1>7, RecParts, SizesAssumption DEF TypeOK, RecInv, Unborn, FlushOrder,
     UploadOrder, HeldFrames, Retained, StorageFull, TaskEnds, Deny,
     CapRetention, connVars, BudgetUnchanged
<1>8. ASSUME NEW r \in Rec, StorageFree(r)
       PROVE  RecInv(q)'
  BY <1>8, RecParts, SizesAssumption DEF TypeOK, RecInv, Unborn, FlushOrder,
     UploadOrder, HeldFrames, Retained, StorageFree, connVars,
     BudgetUnchanged
<1>9. ASSUME NEW r \in Rec, OpenFailed(r)
       PROVE  RecInv(q)'
  BY <1>9, RecParts, SizesAssumption DEF TypeOK, RecInv, Unborn, FlushOrder,
     UploadOrder, HeldFrames, Retained, OpenFailed, TaskEnds, Deny,
     CapRetention, connVars, BudgetUnchanged
<1>10. ASSUME NEW r \in Rec, Opened(r)
       PROVE  RecInv(q)'
  BY <1>10, RecParts, SizesAssumption DEF TypeOK, RecInv, Unborn,
     FlushOrder, UploadOrder, HeldFrames, Retained, Opened, TaskEnds,
     Replayed, connVars, BudgetUnchanged
<1>11. ASSUME NEW r \in Rec, SessionOver(r)
       PROVE  RecInv(q)'
  BY <1>11, RecParts, SizesAssumption DEF TypeOK, RecInv, Unborn,
     FlushOrder, UploadOrder, HeldFrames, Retained, SessionOver, TaskEnds,
     connVars, BudgetUnchanged
<1>12. ASSUME NEW r \in Rec, UploadDone(r)
       PROVE  RecInv(q)'
  BY <1>12, RecParts, SizesAssumption DEF TypeOK, RecInv, Unborn,
     FlushOrder, UploadOrder, HeldFrames, Retained, UploadDone, FlushTo,
     connVars, BudgetUnchanged
<1>13. ASSUME NEW r \in Rec, DeckUpdated(r)
       PROVE  RecInv(q)'
  BY <1>13, RecParts, SizesAssumption DEF TypeOK, RecInv, Unborn,
     FlushOrder, UploadOrder, HeldFrames, Retained, DeckUpdated, FlushTo,
     connVars, BudgetUnchanged
<1>14. ASSUME NEW r \in Rec, FlushFailed(r)
       PROVE  RecInv(q)'
  BY <1>14, RecParts, SizesAssumption DEF TypeOK, RecInv, Unborn,
     FlushOrder, UploadOrder, HeldFrames, Retained, FlushFailed, FlushTo,
     connVars, BudgetUnchanged
<1>15. ASSUME NEW r \in Rec, GaugeCharged(r)
       PROVE  RecInv(q)'
  BY <1>15, RecParts, SizesAssumption DEF TypeOK, RecInv, Unborn,
     FlushOrder, UploadOrder, HeldFrames, Retained, GaugeCharged, FlushTo,
     connVars, Release
<1>16. ASSUME NEW r \in Rec, Aborted(r)
       PROVE  RecInv(q)'
  BY <1>16, RecParts, SizesAssumption DEF TypeOK, RecInv, Unborn,
     FlushOrder, UploadOrder, HeldFrames, Retained, Aborted, FlushTo,
     connVars, Release
<1>17. ASSUME NEW r \in Rec, ProviderEnds(r)
       PROVE  RecInv(q)'
  BY <1>17, RecParts, SizesAssumption DEF TypeOK, RecInv, Unborn,
     FlushOrder, UploadOrder, HeldFrames, Retained, ProviderEnds,
     ServerClose, recVars, BudgetUnchanged
<1>18. ASSUME NEW c \in Conns, Frame(c)
       PROVE  RecInv(q)'
  <2>1. /\ UNCHANGED <<begins, flush, task, upload, discard, reserved, retain>>
        /\ Retained(q)' <=> Retained(q)
    BY <1>18 DEF Frame, BudgetUnchanged, Retained
  <2>2. CASE UNCHANGED <<capped, pending, bytes>>
    BY <2>1, <2>2 DEF RecInv, Unborn, FlushOrder, UploadOrder, HeldFrames
  <2>3. ASSUME NEW r \in Rec, ~capped[r], WriteFrame(r) PROVE RecInv(q)'
    <3>1. /\ upload[q] = "null" => bytes'[q] = bytes[q]
          /\ capped'[q] => pending'[q] = 0
          /\ pending'[q] <= MaxPending
      BY <2>3, SizesAssumption
         DEF TypeOK, WriteFrame, CapRetention, RecInv, HeldFrames
    <3> QED
      BY <2>1, <3>1 DEF RecInv, Unborn, FlushOrder, UploadOrder, HeldFrames
  <2>4. ASSUME NEW r \in Rec, ~capped[r], HoldFrame(r) PROVE RecInv(q)'
    <3>1. /\ bytes' = bytes
          /\ capped'[q] => pending'[q] = 0
          /\ pending'[q] <= MaxPending
      BY <2>4, SizesAssumption
         DEF TypeOK, HoldFrame, CapRetention, RecInv, HeldFrames
    <3> QED
      BY <2>1, <3>1 DEF RecInv, Unborn, FlushOrder, UploadOrder, HeldFrames
  <2> QED  BY <1>18, <2>2, <2>3, <2>4 DEF Frame, Teed
<1>19. ASSUME NEW c \in Conns, Stop(c)
       PROVE  RecInv(q)'
  BY <1>19, RecParts, SizesAssumption DEF TypeOK, RecInv, Unborn,
     FlushOrder, UploadOrder, HeldFrames, Retained, Stop, Finish, EndStream,
     BeginFlush, NothingRetained, TakeRetained, FlushOf, BudgetUnchanged,
     Release
<1>20. ASSUME NEW c \in Conns, Close(c)
       PROVE  RecInv(q)'
  BY <1>20, RecParts, SizesAssumption DEF TypeOK, RecInv, Unborn,
     FlushOrder, UploadOrder, HeldFrames, Retained, Close, Finish,
     EndStream, BeginFlush, NothingRetained, TakeRetained, FlushOf,
     BudgetUnchanged, Release
<1>21. ASSUME NEW c \in Conns, AllowanceSpent(c)
       PROVE  RecInv(q)'
  BY <1>21, RecParts, SizesAssumption DEF TypeOK, RecInv, Unborn,
     FlushOrder, UploadOrder, HeldFrames, Retained, AllowanceSpent,
     EndStream, ServerClose, recVars, BudgetUnchanged
<1>22. ASSUME UNCHANGED vars
       PROVE  RecInv(q)'
  BY <1>22 DEF TypeOK, RecInv, Unborn, FlushOrder, UploadOrder, HeldFrames,
     Retained, vars
<1> QED
  BY <1>1, <1>2, <1>3, <1>4, <1>5, <1>6, <1>7, <1>8, <1>9, <1>10, <1>11,
     <1>12, <1>13, <1>14, <1>15, <1>16, <1>17, <1>18, <1>19, <1>20, <1>21,
     <1>22 DEF Next, BeginStep, TaskStep, FlushStep


\* What CapIsFinal asks of one recording.
CapKept(r) == capped[r] => capped'[r] /\ bytes'[r] = bytes[r]

\* Every step leaves a recording that was stopped as it is.
LEMMA CapStep ==
  ASSUME TypeOK, \A r \in Rec : RecInv(r), [Next]_vars, NEW q \in Rec
  PROVE  CapKept(q)
<1>1. ASSUME NEW r \in Rec, Start(r)
       PROVE  CapKept(q)
  BY <1>1 DEF CapKept, TypeOK, Start, recVars, BudgetUnchanged
<1>2. ASSUME NEW r \in Rec, BeginRefused(r)
       PROVE  CapKept(q)
  BY <1>2 DEF CapKept, TypeOK, BeginRefused, ServerClose, recVars,
     BudgetUnchanged
<1>3. ASSUME NEW r \in Rec, BeginRetaining(r)
       PROVE  CapKept(q)
  BY <1>3 DEF CapKept, TypeOK, BeginRetaining, OpenStream, Reserve
<1>4. ASSUME NEW r \in Rec, BeginWithoutRetaining(r)
       PROVE  CapKept(q)
  BY <1>4 DEF CapKept, TypeOK, BeginWithoutRetaining, OpenStream,
     BudgetUnchanged
<1>5. ASSUME NEW r \in Rec, OwnerDenied(r)
       PROVE  CapKept(q)
  BY <1>5 DEF CapKept, TypeOK, OwnerDenied, TaskEnds, Deny, CapRetention,
     connVars, BudgetUnchanged
<1>6. ASSUME NEW r \in Rec, OwnerAllowed(r)
       PROVE  CapKept(q)
  BY <1>6 DEF CapKept, TypeOK, OwnerAllowed, connVars, BudgetUnchanged
<1>7. ASSUME NEW r \in Rec, StorageFull(r)
       PROVE  CapKept(q)
  BY <1>7 DEF CapKept, TypeOK, StorageFull, TaskEnds, Deny, CapRetention,
     connVars, BudgetUnchanged
<1>8. ASSUME NEW r \in Rec, StorageFree(r)
       PROVE  CapKept(q)
  BY <1>8 DEF CapKept, TypeOK, StorageFree, connVars, BudgetUnchanged
<1>9. ASSUME NEW r \in Rec, OpenFailed(r)
       PROVE  CapKept(q)
  BY <1>9 DEF CapKept, TypeOK, OpenFailed, TaskEnds, Deny, CapRetention,
     connVars, BudgetUnchanged
<1>10. ASSUME NEW r \in Rec, Opened(r)
       PROVE  CapKept(q)
  <2>1. CASE q = r
    <3>1. capped[q] => Replayed(pending[r]) = 0 /\ bytes[q] = 0
      BY <1>10, <2>1, SizesAssumption
         DEF Opened, Replayed, RecInv, UploadOrder, HeldFrames
    <3>2. bytes'[q] = Replayed(pending[r])
      BY <1>10, <2>1 DEF Opened, TypeOK
    <3>3. capped[q] => capped'[q]
      BY <1>10, <2>1 DEF Opened, TypeOK
    <3> QED  BY <3>1, <3>2, <3>3 DEF CapKept
  <2>2. CASE q # r
    BY <1>10, <2>2 DEF CapKept, TypeOK, Opened
  <2> QED  BY <2>1, <2>2
<1>11. ASSUME NEW r \in Rec, SessionOver(r)
       PROVE  CapKept(q)
  BY <1>11 DEF CapKept, TypeOK, SessionOver, TaskEnds, connVars,
     BudgetUnchanged
<1>12. ASSUME NEW r \in Rec, UploadDone(r)
       PROVE  CapKept(q)
  BY <1>12 DEF CapKept, TypeOK, UploadDone, FlushTo, connVars,
     BudgetUnchanged
<1>13. ASSUME NEW r \in Rec, DeckUpdated(r)
       PROVE  CapKept(q)
  BY <1>13 DEF CapKept, TypeOK, DeckUpdated, FlushTo, connVars,
     BudgetUnchanged
<1>14. ASSUME NEW r \in Rec, FlushFailed(r)
       PROVE  CapKept(q)
  BY <1>14 DEF CapKept, TypeOK, FlushFailed, FlushTo, connVars,
     BudgetUnchanged
<1>15. ASSUME NEW r \in Rec, GaugeCharged(r)
       PROVE  CapKept(q)
  BY <1>15 DEF CapKept, TypeOK, GaugeCharged, FlushTo, connVars, Release
<1>16. ASSUME NEW r \in Rec, Aborted(r)
       PROVE  CapKept(q)
  BY <1>16 DEF CapKept, TypeOK, Aborted, FlushTo, connVars, Release
<1>17. ASSUME NEW r \in Rec, ProviderEnds(r)
       PROVE  CapKept(q)
  BY <1>17 DEF CapKept, TypeOK, ProviderEnds, ServerClose, recVars,
     BudgetUnchanged
<1>18. ASSUME NEW c \in Conns, Frame(c)
       PROVE  CapKept(q)
  <2>1. CASE UNCHANGED <<capped, pending, bytes>>
    BY <2>1 DEF CapKept
  <2>2. ASSUME NEW r \in Rec, ~capped[r], WriteFrame(r) \/ HoldFrame(r)
        PROVE  CapKept(q)
    <3>1. CASE q = r
      BY <2>2, <3>1 DEF CapKept
    <3>2. CASE q # r
      BY <2>2, <3>2 DEF CapKept, TypeOK, WriteFrame, HoldFrame, CapRetention
    <3> QED  BY <3>1, <3>2
  <2> QED  BY <1>18, <2>1, <2>2 DEF Frame, Teed
<1>19. ASSUME NEW c \in Conns, Stop(c)
       PROVE  CapKept(q)
  BY <1>19 DEF CapKept, TypeOK, Stop, Finish, EndStream, BeginFlush,
     NothingRetained, TakeRetained, FlushOf, BudgetUnchanged, Release
<1>20. ASSUME NEW c \in Conns, Close(c)
       PROVE  CapKept(q)
  BY <1>20 DEF CapKept, TypeOK, Close, Finish, EndStream, BeginFlush,
     NothingRetained, TakeRetained, FlushOf, BudgetUnchanged, Release
<1>21. ASSUME NEW c \in Conns, AllowanceSpent(c)
       PROVE  CapKept(q)
  BY <1>21 DEF CapKept, TypeOK, AllowanceSpent, EndStream, ServerClose,
     recVars, BudgetUnchanged
<1>22. ASSUME UNCHANGED vars
       PROVE  CapKept(q)
  BY <1>22 DEF CapKept, TypeOK, vars
<1> QED
  BY <1>1, <1>2, <1>3, <1>4, <1>5, <1>6, <1>7, <1>8, <1>9, <1>10, <1>11,
     <1>12, <1>13, <1>14, <1>15, <1>16, <1>17, <1>18, <1>19, <1>20, <1>21,
     <1>22 DEF Next, BeginStep, TaskStep, FlushStep


BudgetMoves ==
    \/ BudgetUnchanged
    \/ \E r \in Rec : r \notin reserved /\ Reservable /\ Reserve(r)
    \/ \E r \in reserved : Release(r)

\* The only moves the budget knows: one new reservation that fits, or one
\* outstanding reservation given back.
LEMMA BudgetStep ==
  ASSUME TypeOK, \A r \in Rec : RecInv(r), [Next]_vars
  PROVE  BudgetMoves
<1>1. ASSUME NEW r \in Rec, Start(r)
       PROVE  BudgetMoves
  BY <1>1 DEF Start, BudgetMoves
<1>2. ASSUME NEW r \in Rec, BeginRefused(r)
       PROVE  BudgetMoves
  BY <1>2 DEF BeginRefused, BudgetMoves
<1>3. ASSUME NEW r \in Rec, BeginRetaining(r)
       PROVE  BudgetMoves
  BY <1>3 DEF BeginRetaining, OpenStream, BudgetMoves, RecInv, Unborn
<1>4. ASSUME NEW r \in Rec, BeginWithoutRetaining(r)
       PROVE  BudgetMoves
  BY <1>4 DEF BeginWithoutRetaining, BudgetMoves
<1>5. ASSUME NEW r \in Rec, OwnerDenied(r)
       PROVE  BudgetMoves
  BY <1>5 DEF OwnerDenied, BudgetMoves
<1>6. ASSUME NEW r \in Rec, OwnerAllowed(r)
       PROVE  BudgetMoves
  BY <1>6 DEF OwnerAllowed, BudgetMoves
<1>7. ASSUME NEW r \in Rec, StorageFull(r)
       PROVE  BudgetMoves
  BY <1>7 DEF StorageFull, BudgetMoves
<1>8. ASSUME NEW r \in Rec, StorageFree(r)
       PROVE  BudgetMoves
  BY <1>8 DEF StorageFree, BudgetMoves
<1>9. ASSUME NEW r \in Rec, OpenFailed(r)
       PROVE  BudgetMoves
  BY <1>9 DEF OpenFailed, BudgetMoves
<1>10. ASSUME NEW r \in Rec, Opened(r)
       PROVE  BudgetMoves
  BY <1>10 DEF Opened, BudgetMoves
<1>11. ASSUME NEW r \in Rec, SessionOver(r)
       PROVE  BudgetMoves
  BY <1>11 DEF SessionOver, BudgetMoves
<1>12. ASSUME NEW r \in Rec, UploadDone(r)
       PROVE  BudgetMoves
  BY <1>12 DEF UploadDone, BudgetMoves
<1>13. ASSUME NEW r \in Rec, DeckUpdated(r)
       PROVE  BudgetMoves
  BY <1>13 DEF DeckUpdated, BudgetMoves
<1>14. ASSUME NEW r \in Rec, FlushFailed(r)
       PROVE  BudgetMoves
  BY <1>14 DEF FlushFailed, BudgetMoves
<1>15. ASSUME NEW r \in Rec, GaugeCharged(r)
       PROVE  BudgetMoves
  BY <1>15 DEF GaugeCharged, FlushTo, BudgetMoves, RecInv, FlushOrder
<1>16. ASSUME NEW r \in Rec, Aborted(r)
       PROVE  BudgetMoves
  BY <1>16 DEF Aborted, FlushTo, BudgetMoves, RecInv, FlushOrder
<1>17. ASSUME NEW r \in Rec, ProviderEnds(r)
       PROVE  BudgetMoves
  BY <1>17 DEF ProviderEnds, BudgetMoves
<1>18. ASSUME NEW c \in Conns, Frame(c)
       PROVE  BudgetMoves
  BY <1>18 DEF Frame, BudgetMoves
<1>19. ASSUME NEW c \in Conns, Stop(c)
       PROVE  BudgetMoves
  BY <1>19 DEF Stop, Finish, BeginFlush, NothingRetained, TakeRetained,
             BudgetMoves, RecInv, FlushOrder
<1>20. ASSUME NEW c \in Conns, Close(c)
       PROVE  BudgetMoves
  BY <1>20 DEF Close, Finish, BeginFlush, NothingRetained, TakeRetained,
             BudgetMoves, RecInv, FlushOrder
<1>21. ASSUME NEW c \in Conns, AllowanceSpent(c)
       PROVE  BudgetMoves
  BY <1>21 DEF AllowanceSpent, BudgetMoves
<1>22. ASSUME UNCHANGED vars
       PROVE  BudgetMoves
  BY <1>22 DEF BudgetMoves, BudgetUnchanged, vars
<1> QED
  BY <1>1, <1>2, <1>3, <1>4, <1>5, <1>6, <1>7, <1>8, <1>9, <1>10, <1>11,
     <1>12, <1>13, <1>14, <1>15, <1>16, <1>17, <1>18, <1>19, <1>20, <1>21,
     <1>22 DEF Next, BeginStep, TaskStep, FlushStep


\* The counter stays one window per reservation and within the budget.
LEMMA CountedStep ==
  ASSUME TypeOK, Counted, BudgetMoves
  PROVE  Counted'
<1>1. CASE BudgetUnchanged
  BY <1>1 DEF BudgetUnchanged, Counted, HeldMatchesReservations, BudgetHonoured
<1>2. ASSUME NEW r \in Rec, r \notin reserved, Reservable, Reserve(r)
      PROVE  Counted'
  <2> DEFINE n == Cardinality(reserved)
  <2>1. n \in Nat /\ IsFiniteSet(reserved')
        /\ Cardinality(reserved') = n + 1
    BY <1>2, FS_CardinalityType, FS_AddElement DEF Counted, Reserve
  <2>2. Window * (n + 1) = Window * n + Window
    BY <2>1, BoundsAssumption
  <2> QED
    BY <1>2, <2>1, <2>2, BoundsAssumption
       DEF Counted, HeldMatchesReservations, BudgetHonoured, Reserve, Reservable
<1>3. ASSUME NEW r \in reserved, Release(r)
      PROVE  Counted'
  <2> DEFINE n == Cardinality(reserved)
  <2>1. n \in Nat /\ IsFiniteSet(reserved') /\ n # 0
        /\ Cardinality(reserved') = n - 1
    BY <1>3, FS_CardinalityType, FS_RemoveElement, FS_EmptySet
       DEF Counted, Release
  <2>2. /\ Window * (n - 1) = Window * n - Window
        /\ n - 1 \in Nat
        /\ Window * (n - 1) \in Nat
    BY <2>1, BoundsAssumption
  <2> QED
    BY <1>3, <2>1, <2>2, BoundsAssumption
       DEF Counted, HeldMatchesReservations, BudgetHonoured, Release
<1> QED  BY <1>1, <1>2, <1>3 DEF BudgetMoves

-----------------------------------------------------------------------------

\* A process that has just started satisfies the inductive invariant.
LEMMA InitInvariant == Init => IInv
<1> SUFFICES ASSUME Init PROVE IInv
  OBVIOUS
<1>1. TypeOK
  BY InitTyped
<1>2. Counted
  BY FS_EmptySet, BoundsAssumption
     DEF Init, Counted, HeldMatchesReservations, BudgetHonoured
<1>3. ASSUME NEW r \in Rec PROVE RecInv(r)
  BY RecParts, SizesAssumption
     DEF Init, RecInv, Unborn, FlushOrder, UploadOrder, HeldFrames, Retained
<1> QED  BY <1>1, <1>2, <1>3 DEF IInv

\* Every step of the sockets, their handlers and the storage keeps it.
LEMMA StepInvariant == IInv /\ [Next]_vars => IInv'
<1> SUFFICES ASSUME IInv, [Next]_vars PROVE IInv'
  OBVIOUS
<1>1. TypeOK'
  BY TypeStep DEF IInv
<1>2. Counted'
  BY BudgetStep, CountedStep DEF IInv
<1>3. (\A r \in Rec : RecInv(r))'
  <2> SUFFICES ASSUME NEW q \in Rec PROVE RecInv(q)'
    BY DEF Rec, Starts
  <2> QED  BY RecStep DEF IInv
<1> QED  BY <1>1, <1>2, <1>3 DEF IInv

\* The inductive invariant: the type of every variable, the counter against the
\* reservations outstanding, and the agreement of each recording's parts.
THEOREM Invariant == Spec => []IInv
  BY InitInvariant, StepInvariant, PTL DEF Spec

\* The memory the process commits to recordings never exceeds the configured
\* total, however sessions begin, fail, overlap and end.
THEOREM BudgetIsHonoured == Spec => []BudgetHonoured
<1>1. IInv => BudgetHonoured
  BY DEF IInv, Counted
<1> QED  BY Invariant, <1>1, PTL

\* The counter is the number of outstanding reservations: nothing is released
\* twice, and releaseRetentionBytes never clamps.
THEOREM CounterIsExact == Spec => []HeldMatchesReservations
<1>1. IInv => HeldMatchesReservations
  BY DEF IInv, Counted
<1> QED  BY Invariant, <1>1, PTL

\* A recording that was denied never opens an upload.
THEOREM DenialIsFinal == Spec => []DeniedNeverUploads
<1>1. IInv => DeniedNeverUploads
  BY DEF IInv, RecInv, UploadOrder, DeniedNeverUploads
<1> QED  BY Invariant, <1>1, PTL

\* Audio on its way to the bucket is always backed by a reservation.
THEOREM MemoryIsBacked == Spec => []AudioInFlightIsReserved
<1>1. IInv => AudioInFlightIsReserved
  BY DEF IInv, RecInv, UploadOrder, FlushOrder, AudioInFlightIsReserved
<1> QED  BY Invariant, <1>1, PTL

\* A recording that stopped copying audio never gains another frame.
THEOREM TruncationIsFinal == Spec => CapIsFinal
<1>1. IInv /\ [Next]_vars =>
        [\A r \in Rec : capped[r] => capped'[r] /\ bytes'[r] = bytes[r]]_vars
  BY CapStep DEF IInv, CapKept
<1> QED  BY Invariant, <1>1, PTL DEF Spec, CapIsFinal

\* The counter implements the leases: every step of the audio socket takes one
\* lease that fits, gives one back, or leaves them alone.
THEOREM BudgetImplementsLeases == Spec => ImplementsLeases
<1>1. Init => Leases!Init
  BY DEF Init, Leases!Init
<1>2. IInv /\ [Next]_vars => [Leases!Next]_reserved
  <2> SUFFICES ASSUME IInv, [Next]_vars PROVE [Leases!Next]_reserved
    OBVIOUS
  <2>1. BudgetMoves
    BY BudgetStep DEF IInv
  <2>2. ASSUME NEW r \in Rec, r \notin reserved, Reservable, Reserve(r)
        PROVE  Leases!Acquire(r)
    <3> DEFINE n == Cardinality(reserved)
    <3>1. n \in Nat
      BY FS_CardinalityType DEF IInv, Counted
    <3>2. Window * (n + 1) = Window * n + Window
      BY <3>1, BoundsAssumption
    <3>3. heldBytes = Window * n
      BY DEF IInv, Counted, HeldMatchesReservations
    <3>4. Budget = 0 \/ Window * (n + 1) <= Budget
      BY <2>2, <3>2, <3>3 DEF Reservable
    <3> HIDE DEF n
    <3>5. Leases!Fits(n + 1)
      BY <3>4 DEF Leases!Fits
    <3>6. r \notin reserved /\ reserved' = reserved \union {r}
      BY <2>2 DEF Reserve
    <3>7. Leases!Cardinality(reserved) = Cardinality(reserved)
      BY DEF Leases!Cardinality, Cardinality
    <3> QED  BY <3>5, <3>6, <3>7 DEF Leases!Acquire, n
  <2>3. ASSUME NEW r \in reserved, Release(r) PROVE Leases!Release(r)
    BY <2>3 DEF Leases!Release, Release
  <2> QED
    BY <2>1, <2>2, <2>3 DEF BudgetMoves, BudgetUnchanged, Leases!Next, IInv, TypeOK
<1> QED  BY Invariant, <1>1, <1>2, PTL DEF Spec, ImplementsLeases, Leases!Spec

\* Every variable stays in its type.
THEOREM TypeCorrect == Spec => []TypeOK
<1>1. IInv => TypeOK
  BY DEF IInv
<1> QED  BY Invariant, <1>1, PTL

\* The frames held during the edit check always fit the upload they go to.
THEOREM ReplayNeverCaps == Spec => HeldFramesAlwaysFit
<1> DEFINE Fit(q) == upload[q] = "null" /\ upload'[q] = "open" =>
                        capped'[q] = capped[q] /\ bytes'[q] = pending[q]
<1>1. ASSUME IInv, Next, NEW q \in Rec PROVE Fit(q)
  <2> SUFFICES ASSUME upload[q] = "null", upload'[q] = "open"
               PROVE  capped'[q] = capped[q] /\ bytes'[q] = pending[q]
    OBVIOUS
  <2> USE <1>1 DEF IInv, TypeOK
  <2>1. Opened(q)
    <3>1. ASSUME NEW r \in Rec, BeginStep(r) \/ Start(r) \/ ProviderEnds(r)
          PROVE  upload' = upload
      BY <3>1 DEF BeginStep, Start, BeginRefused, BeginRetaining,
                  BeginWithoutRetaining, OpenStream, ProviderEnds, recVars
    <3>2. ASSUME NEW c \in Conns,
                 Frame(c) \/ Stop(c) \/ Close(c) \/ AllowanceSpent(c)
          PROVE  upload' = upload
      BY <3>2 DEF Frame, Stop, Close, Finish, AllowanceSpent, recVars
    <3>3. ASSUME NEW r \in Rec, TaskStep(r), ~Opened(r)
          PROVE  upload' = upload
      BY <3>3 DEF TaskStep, OwnerDenied, OwnerAllowed, StorageFull,
                  StorageFree, OpenFailed, SessionOver
    <3>4. ASSUME NEW r \in Rec, FlushStep(r) PROVE upload'[q] # "open"
      BY <3>4 DEF FlushStep, UploadDone, DeckUpdated, FlushFailed,
                  GaugeCharged, Aborted
    <3>5. ASSUME NEW r \in Rec, Opened(r) PROVE r = q
      BY <3>5 DEF Opened
    <3> QED  BY <3>1, <3>2, <3>3, <3>4, <3>5 DEF Next
  <2>2. pending[q] \in Nat /\ pending[q] <= MaxPending
    BY DEF RecInv, HeldFrames
  <2>3. Replayed(pending[q]) = pending[q]
    BY <2>2, SizesAssumption DEF Replayed
  <2>4. bytes'[q] = pending[q]
    BY <2>1, <2>3 DEF Opened
  <2>5. bytes'[q] < HighWater
    BY <2>2, <2>4, SizesAssumption
  <2>6. capped'[q] = (capped[q] \/ bytes'[q] < pending[q])
    BY <2>1, <2>5 DEF Opened
  <2> QED  BY <2>2, <2>4, <2>6
<1>2. IInv /\ [Next]_vars => [\A r \in Rec : Fit(r)]_vars
  BY <1>1
<1> QED  BY Invariant, <1>2, PTL DEF Spec, HeldFramesAlwaysFit

\* An open upload is finished or aborted by the session that holds it.
Owned(q) == upload[q] = "open" => Retained(q) \/ flush[q] \in {"aborting", "completing"}

\* With one start message a connection, a connection has one recording.
LEMMA OneRecording ==
  ASSUME MaxStarts = 1, NEW q \in Rec, NEW r \in Rec, q[1] = r[1]
  PROVE  q = r
<1>1. q = <<q[1], q[2]>> /\ r = <<r[1], r[2]>> /\ q[2] \in 1..1 /\ r[2] \in 1..1
  BY DEF Rec, Starts
<1>2. q[2] = 1 /\ r[2] = 1
  BY <1>1
<1> QED  BY <1>1, <1>2

\* With one start message a connection, nothing takes `retain` from a session but
\* the flush that ends its upload.
LEMMA OwnedStep ==
  ASSUME MaxStarts = 1, IInv, [Next]_vars, NEW q \in Rec, Owned(q)
  PROVE  Owned(q)'
<1> USE DEF IInv, TypeOK
<1>1. CASE UNCHANGED <<upload, retain, flush>>
  BY <1>1 DEF Owned, Retained
<1>2. ASSUME NEW r \in Rec, BeginStep(r) \/ Start(r) \/ ProviderEnds(r)
      PROVE  Owned(q)'
  <2>1. CASE BeginRetaining(r)
    <3>1. UNCHANGED <<upload, flush>> /\ begins[r] = "checking"
          /\ retain' = [retain EXCEPT ![r[1]] = r[2]]
      BY <2>1 DEF BeginRetaining, OpenStream
    <3>2. q[1] = r[1] => q = r
      BY OneRecording
    <3>3. upload[r] # "open"
      BY <3>1 DEF RecInv, Unborn, UploadOrder
    <3>4. q # r => retain'[q[1]] = retain[q[1]]
      BY <3>1, <3>2, RecParts
    <3> QED  BY <3>1, <3>3, <3>4 DEF Owned, Retained
  <2> QED
    BY <1>1, <1>2, <2>1 DEF BeginStep, Start, BeginRefused, BeginWithoutRetaining,
       OpenStream, ProviderEnds, recVars
<1>3. ASSUME NEW r \in Rec, TaskStep(r) PROVE Owned(q)'
  <2>1. CASE Opened(r)
    <3>1. UNCHANGED <<retain, flush>> /\ Retained(r)
          /\ upload' = [upload EXCEPT ![r] = "open"]
      BY <2>1 DEF Opened
    <3> QED  BY <3>1 DEF Owned, Retained
  <2> QED
    BY <1>1, <1>3, <2>1 DEF TaskStep, OwnerDenied, OwnerAllowed, StorageFull, StorageFree,
       OpenFailed, SessionOver
<1>4. ASSUME NEW r \in Rec, FlushStep(r) PROVE Owned(q)'
  <2>1. RecInv(r) /\ retain' = retain
    BY <1>4 DEF FlushStep, UploadDone, DeckUpdated, FlushFailed, GaugeCharged, Aborted,
       FlushTo
  <2>2. CASE UploadDone(r)
    BY <2>1, <2>2 DEF UploadDone, FlushTo, Owned, Retained
  <2>3. CASE DeckUpdated(r)
    BY <2>1, <2>3 DEF DeckUpdated, FlushTo, Owned, Retained, RecInv, FlushOrder
  <2>4. CASE FlushFailed(r)
    BY <2>1, <2>4 DEF FlushFailed, FlushTo, Owned, Retained
  <2>5. CASE GaugeCharged(r)
    BY <2>1, <2>5 DEF GaugeCharged, FlushTo, Owned, Retained, RecInv, FlushOrder
  <2>6. CASE Aborted(r)
    BY <2>1, <2>6 DEF Aborted, FlushTo, Owned, Retained
  <2> QED  BY <1>4, <2>2, <2>3, <2>4, <2>5, <2>6 DEF FlushStep
<1>5. ASSUME NEW c \in Conns, Stop(c) \/ Close(c) PROVE Owned(q)'
  <2>1. upload' = upload /\ BeginFlush(c)
    BY <1>5 DEF Stop, Close, Finish
  <2>2. ASSUME NEW r \in Rec, Retained(r), TakeRetained(r) PROVE Owned(q)'
    <3>1. retain' = [retain EXCEPT ![r[1]] = 0]
          /\ (upload[r] # "null" => flush' = [flush EXCEPT ![r] = FlushOf(r)])
          /\ (upload[r] = "null" => flush' = [flush EXCEPT ![r] = "over"])
      BY <2>2 DEF TakeRetained
    <3>2. CASE q = r
      BY <2>1, <3>1, <3>2 DEF Owned, FlushOf
    <3>3. CASE q # r
      <4>1. q[1] # r[1]
        BY <3>3, OneRecording
      <4>2. retain'[q[1]] = retain[q[1]] /\ flush'[q] = flush[q]
        BY <3>1, <3>3, <4>1, RecParts
      <4> QED  BY <2>1, <4>2 DEF Owned, Retained
    <3> QED  BY <3>2, <3>3
  <2> QED  BY <1>1, <2>1, <2>2 DEF BeginFlush, NothingRetained
<1>6. ASSUME NEW c \in Conns, Frame(c) \/ AllowanceSpent(c) PROVE Owned(q)'
  BY <1>1, <1>6 DEF Frame, AllowanceSpent, recVars
<1>7. CASE UNCHANGED vars
  BY <1>1, <1>7 DEF vars
<1> QED  BY <1>2, <1>3, <1>4, <1>5, <1>6, <1>7 DEF Next

\* Where a connection sends one start message, no upload is left dangling: its session
\* still holds it, or a flush is about to complete or abort it.
THEOREM UploadsAreOwned ==
  ASSUME MaxStarts = 1
  PROVE  Spec => []NoDanglingUpload
<1>1. Init => NoDanglingUpload
  BY RecParts DEF Init, NoDanglingUpload
<1>2. IInv /\ NoDanglingUpload /\ [Next]_vars => NoDanglingUpload'
  <2> SUFFICES ASSUME IInv, NoDanglingUpload, [Next]_vars, NEW q \in Rec
               PROVE  Owned(q)'
    BY DEF NoDanglingUpload, Owned, Rec, Starts
  <2> QED  BY OwnedStep DEF NoDanglingUpload, Owned
<1> QED  BY Invariant, <1>1, <1>2, PTL DEF Spec
=============================================================================
