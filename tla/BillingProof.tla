---------------------------- MODULE BillingProof ----------------------------
(***************************************************************************)
(* Proofs about billing.  BillingEvents: any number of deliveries are        *)
(* handled at once; until one of them does one of the Mishaps to another, the *)
(* account and its row agree, the row only moves forward through the         *)
(* provider's history, and the account settles on its last word.             *)
(* CapNotifications: one e-mail goes out for each crossing, and what was      *)
(* claimed is true of the counter.                                         *)
(***************************************************************************)
EXTENDS BillingEvents, CapNotifications, SequenceTheorems, FiniteSetTheorems, TLAPS

-----------------------------------------------------------------------------
(* BillingEvents: the inductive invariant.                                 *)

Row == [version : Nat \ {0}, sub : Subscriptions, status : Statuses, tier : PaidTiers,
        lastEventId : Int, lastEventAt : Nat]
Read == [at : {"read", "written"}, version : Nat \ {0}, id : Int, occurredAt : Nat,
         existing : Row \union {NoRow}]
Asked == [at : {"asked"}, version : Nat \ {0}]

Shape ==
    /\ history \in Seq(State) /\ Len(history) <= MaxEvents
    /\ now \in Nat
    /\ acked \subseteq Events
    /\ row \in Row \union {NoRow}
    /\ planTier \in Tiers
    /\ work \in [Handlers \union {Local} -> {Resting} \union Asked \union Read]
    /\ local \in 0..MaxLocal /\ failures \in 0..MaxFailures
    /\ amiss \subseteq Mishaps
    /\ row # NoRow => row.version \in Events
    /\ \A h \in Handlers \union {Local} : work[h] # Resting => work[h].version \in Events

\* The row holds what the provider said in the version it was written from.
RowInv ==
    row # NoRow => /\ row.sub = history[row.version].sub
                   /\ row.status = history[row.version].status
                   /\ row.tier = history[row.version].tier

\* A delivery is identified and dated by its event, and so is the row until the
\* application itself changes the plan.
DeliveryInv ==
    /\ \A h \in Handlers : work[h] # Resting =>
          /\ work[h].at \in {"read", "written"}
          /\ work[h].id = work[h].version
          /\ work[h].occurredAt = history[work[h].version].at
    /\ local = 0 =>
          /\ work[Local] = Resting
          /\ row # NoRow => /\ row.lastEventId = row.version
                            /\ row.lastEventAt = history[row.version].at

\* The provider dates its changes in their order.
ClockInv ==
    \A i \in Events :
        /\ history[i].at <= Second(now)
        /\ \A j \in Events : i <= j => history[i].at <= history[j].at

\* Each subscription that was bought has a last state.
LatestInv ==
    \A s \in Bought : \E i \in StatesOf(s) : \A j \in StatesOf(s) : j <= i

\* Until one handler wrote between the two writes of another: the row is that of
\* the only handler between them, and the account that of the row.
WrittenInv ==
    "crossed" \notin amiss =>
        \A h \in Handlers \union {Local} : work[h].at = "written" =>
            /\ row # NoRow /\ row.version = work[h].version
            /\ \A g \in Handlers \union {Local} : work[g].at = "written" => g = h

TierInv ==
    /\ "crossed" \notin amiss /\ failures = 0
    /\ \A h \in Handlers \union {Local} : work[h].at # "written"
    /\ row # NoRow
    => planTier = EntitledBy(row.version)

\* As long as the row has only moved forward it is past whatever a handler has
\* read of it or written.
InOrder == local = 0 /\ "overwrote" \notin amiss /\ "tied" \notin amiss

Past(w) ==
    /\ w.at = "read" /\ w.existing # NoRow =>
          /\ row # NoRow
          /\ w.existing.version \in Events
          /\ w.existing.version <= row.version
          /\ w.existing.lastEventId = w.existing.version
          /\ w.existing.lastEventAt = history[w.existing.version].at
          /\ w.existing.sub = history[w.existing.version].sub
    /\ w.at = "written" => row # NoRow /\ w.version <= row.version

PastInv == InOrder => \A h \in Handlers : Past(work[h])

\* With one subscription, an answered event is no later than the row.
OneSubscription == \A i, j \in Events : history[i].sub = history[j].sub

AckedInv ==
    InOrder /\ OneSubscription => \A i \in acked : row # NoRow /\ i <= row.version

IInv ==
    /\ Shape /\ RowInv /\ DeliveryInv /\ ClockInv /\ LatestInv /\ WrittenInv /\ TierInv
    /\ PastInv /\ AckedInv

-----------------------------------------------------------------------------
(* The provider's history.                                                 *)

LEMMA InitIInv == Init => IInv
<1> SUFFICES ASSUME Init PROVE IInv
    OBVIOUS
<1>1. Events = {} /\ history \in Seq(State) /\ Len(history) = 0
    BY DEF Init, Events
<1>2. MaxEvents \in Nat /\ MaxLocal \in Nat /\ MaxFailures \in Nat
    BY BillingAssumption
<1>3. Shape
    BY <1>1, <1>2 DEF Init, Shape, Tiers
<1>4. RowInv /\ TierInv /\ WrittenInv /\ PastInv /\ AckedInv
    BY DEF Init, RowInv, TierInv, WrittenInv, PastInv, Past, AckedInv, Resting
<1>5. DeliveryInv
    BY DEF Init, DeliveryInv
<1>6. ClockInv /\ LatestInv
    BY <1>1 DEF ClockInv, LatestInv, Bought, StatesOf
<1> QED
    BY <1>3, <1>4, <1>5, <1>6 DEF IInv

LEMMA SecondType == ASSUME NEW t \in Nat PROVE Second(t) \in Nat
<1>1. PerSecond \in Nat /\ PerSecond > 0
    BY BillingAssumption
<1>2. t \div PerSecond \in Nat
    BY <1>1
<1> HIDE DEF Second
<1>3. \A a, b \in Nat : a * b \in Nat
    OBVIOUS
<1> QED
    BY <1>1, <1>2, <1>3 DEF Second

LEMMA SecondGrows ==
    ASSUME NEW t \in Nat
    PROVE  Second(t) <= Second(t + 1) /\ Second(t) <= t
<1> DEFINE p == PerSecond
           q == t \div p
           r == (t + 1) \div p
<1>1. p \in Nat /\ p > 0
    BY BillingAssumption
<1>2. q \in Nat /\ r \in Nat
    BY <1>1
<1>3. q * p <= t /\ t + 1 < (r + 1) * p
    BY <1>1
<1> HIDE DEF q, r, p
<1>4. \A a, b, c \in Nat : a <= b => a * c <= b * c
    OBVIOUS
<1>5. q <= r
    <2> SUFFICES ASSUME r + 1 <= q PROVE FALSE
        BY <1>2
    <2>1. (r + 1) * p <= q * p
        BY <1>1, <1>2, <1>4
    <2>2. (r + 1) * p \in Nat /\ q * p \in Nat
        BY <1>1, <1>2
    <2> QED
        BY <1>3, <2>1, <2>2
<1>6. q * p <= r * p
    BY <1>1, <1>2, <1>4, <1>5
<1> QED
    BY <1>3, <1>6 DEF Second, q, r, p

\* The same, of the clock itself.
LEMMA SecondTicks ==
    ASSUME now \in Nat, now' = now + 1
    PROVE  Second(now) \in Nat /\ Second(now') \in Nat /\ Second(now) <= Second(now')
<1>1. now + 1 \in Nat
    OBVIOUS
<1>2. Second(now) \in Nat /\ Second(now + 1) \in Nat
    BY <1>1, SecondType
<1>3. Second(now) <= Second(now + 1)
    BY SecondGrows
<1>4. Second(now') = Second(now + 1)
    OBVIOUS
<1> QED
    BY <1>2, <1>3, <1>4

\* What a change of the provider's does to its history, and to nothing else.
Grown(s, status, tier) ==
    /\ history' \in Seq(State) /\ Len(history') = Len(history) + 1
    /\ Len(history') <= MaxEvents
    /\ now' = now + 1
    /\ Events' = Events \union {Len(history) + 1}
    /\ \A i \in Events : history'[i] = history[i]
    /\ history'[Len(history) + 1] = [sub |-> s, status |-> status, tier |-> tier,
                                     at |-> Second(now')]

LEMMA ChangesGrow ==
    ASSUME Shape, NEW s \in Subscriptions, NEW status \in Statuses, NEW tier \in PaidTiers,
           Changes(s, status, tier)
    PROVE  Grown(s, status, tier)
<1> DEFINE e == [sub |-> s, status |-> status, tier |-> tier, at |-> Second(now')]
<1>1. history' = Append(history, e) /\ now' = now + 1 /\ Len(history) < MaxEvents
      /\ history \in Seq(State) /\ Len(history) \in Nat /\ MaxEvents \in Nat
    BY BillingAssumption DEF Changes, Shape
<1>2. e \in State
    BY <1>1, SecondType DEF Shape, State
<1>3. e = [sub |-> s, status |-> status, tier |-> tier, at |-> Second(now')]
    OBVIOUS
<1> HIDE DEF e
<1>4. /\ history' \in Seq(State) /\ Len(history') = Len(history) + 1
      /\ \A i \in 1..Len(history) : history'[i] = history[i]
      /\ history'[Len(history) + 1] = e
    BY <1>1, <1>2, AppendProperties
<1>5. Events' = Events \union {Len(history) + 1}
    BY <1>1, <1>4 DEF Events
<1> QED
    BY <1>1, <1>3, <1>4, <1>5 DEF Grown, Events

\* The last state of a subscription is one of its states.
LEMMA LatestIs ==
    ASSUME LatestInv, NEW s \in Bought
    PROVE  \E i \in StatesOf(s) : Latest(s) = history[i] /\ \A j \in StatesOf(s) : j <= i
BY DEF LatestInv, Latest

LEMMA LatestType ==
    ASSUME Shape, LatestInv, NEW s \in Bought
    PROVE  Latest(s).status \in Statuses /\ Latest(s).tier \in PaidTiers
<1>1. PICK i \in Events : Latest(s) = history[i]
    BY LatestIs DEF StatesOf
<1>2. history[i] \in State
    BY DEF Shape, Events
<1> QED
    BY <1>1, <1>2 DEF State

\* What a longer history leaves true.
LEMMA HistoryKeeps ==
    ASSUME IInv, NEW s \in Subscriptions, NEW status \in Statuses, NEW tier \in PaidTiers,
           Grown(s, status, tier), UNCHANGED <<row, acked, amiss>>, local' = 0 => local = 0
    PROVE  RowInv' /\ ClockInv' /\ LatestInv' /\ AckedInv' /\ acked' \subseteq Events'
<1> DEFINE n == Len(history) + 1
<1>0. /\ Shape /\ Len(history) \in Nat /\ now \in Nat /\ now' = now + 1
      /\ Events = 1..Len(history) /\ Events' = Events \union {n}
      /\ \A i \in Events : history'[i] = history[i] /\ history[i] \in State
      /\ history'[n].sub = s /\ history'[n].at = Second(now')
    BY DEF IInv, Shape, Grown, Events
<1>1. n \notin Events /\ \A i \in Events : i < n
    BY <1>0
<1> HIDE DEF n
<1>2. RowInv'
    BY <1>0 DEF IInv, Shape, RowInv
<1>3. ClockInv'
    <2>1. Second(now) \in Nat /\ Second(now') \in Nat /\ Second(now) <= Second(now')
        BY <1>0, SecondTicks
    <2>2. \A i \in Events : history[i].at \in Nat /\ history[i].at <= Second(now)
        BY <1>0 DEF IInv, ClockInv, State
    <2>3. \A i, j \in Events : i <= j => history[i].at <= history[j].at
        BY DEF IInv, ClockInv
    <2>4. \A i \in Events' : history'[i].at <= Second(now')
        BY <1>0, <2>1, <2>2
    <2>5. \A i \in Events : i \in Nat /\ n \in Nat /\ ~(n <= i)
        BY <1>0, <1>1 DEF n
    <2>6. ASSUME NEW i \in Events', NEW j \in Events', i <= j
          PROVE  history'[i].at <= history'[j].at
        <3>1. CASE j = n
            BY <1>0, <2>4, <3>1
        <3>2. CASE j # n
            BY <1>0, <2>3, <2>5, <2>6, <3>2
        <3> QED
            BY <3>1, <3>2
    <2> QED
        BY <2>4, <2>6 DEF ClockInv
<1>4. LatestInv'
    <2> SUFFICES ASSUME NEW t \in Subscriptions, StatesOf(t)' # {}
                 PROVE  \E i \in StatesOf(t)' : \A j \in StatesOf(t)' : j <= i
        BY DEF LatestInv, Bought
    <2>1. StatesOf(t)' = StatesOf(t) \union (IF t = s THEN {n} ELSE {})
        BY <1>0, <1>1 DEF StatesOf
    <2>2. StatesOf(t) \subseteq Events
        BY DEF StatesOf
    <2>3. CASE t = s
        <3>1. n \in StatesOf(t)' /\ \A j \in StatesOf(t)' : j <= n
            BY <1>0, <1>1, <2>1, <2>2, <2>3 DEF n
        <3> QED
            BY <3>1
    <2>4. CASE t # s
        BY <2>1, <2>4 DEF IInv, LatestInv, Bought
    <2> QED
        BY <2>3, <2>4
<1>5. acked' \subseteq Events'
    BY <1>0 DEF Shape
<1>6. AckedInv'
    <2> SUFFICES ASSUME InOrder, OneSubscription', NEW i \in acked
                 PROVE  row # NoRow /\ i <= row.version
        BY DEF AckedInv, InOrder
    <2>1. OneSubscription
        BY <1>0 DEF OneSubscription
    <2> QED
        BY <2>1 DEF IInv, AckedInv
<1> QED
    BY <1>2, <1>3, <1>4, <1>5, <1>6

-----------------------------------------------------------------------------
(* One lemma for each kind of step.                                        *)

\* The provider changes something, with or without the application's asking.
LEMMA ProviderStepKeeps ==
    ASSUME IInv, NEW s \in Subscriptions, NEW status \in Statuses, NEW tier \in PaidTiers,
           Changes(s, status, tier),
           UNCHANGED <<acked, row, planTier, work, local, failures, amiss>>
    PROVE  IInv'
<1>0. /\ Shape /\ Grown(s, status, tier) /\ Len(history) \in Nat /\ now' \in Nat
      /\ Events \subseteq Events' /\ \A i \in Events : history'[i] = history[i]
    BY ChangesGrow DEF IInv, Shape, Grown
<1>1. RowInv' /\ ClockInv' /\ LatestInv' /\ AckedInv' /\ acked' \subseteq Events'
    BY <1>0, HistoryKeeps
<1>2. Shape'
    BY <1>0, <1>1 DEF Shape, Grown
<1>3. DeliveryInv'
    BY <1>0 DEF IInv, Shape, DeliveryInv
<1>4. WrittenInv'
    BY DEF IInv, WrittenInv
<1>5. TierInv'
    BY <1>0 DEF IInv, Shape, TierInv, EntitledBy
<1>6. PastInv'
    <2> SUFFICES ASSUME InOrder, NEW h \in Handlers PROVE Past(work[h])'
        BY DEF PastInv, InOrder
    <2>1. Past(work[h])
        BY DEF IInv, PastInv
    <2> QED
        BY <1>0, <2>1 DEF Past
<1> QED
    BY <1>1, <1>2, <1>3, <1>4, <1>5, <1>6 DEF IInv

LEMMA ChangeTierKeeps == IInv /\ ChangeTier => IInv'
<1> SUFFICES ASSUME IInv, ChangeTier PROVE IInv'
    OBVIOUS
<1>1. row.sub \in Bought /\ row.sub \in Subscriptions
    BY DEF ChangeTier, Running, Bought
<1>2. Latest(row.sub).status \in Statuses /\ Latest(row.sub).tier \in PaidTiers
    BY <1>1, LatestType DEF IInv
<1>3. PICK status \in Statuses, tier \in PaidTiers : Changes(row.sub, status, tier)
    BY <1>2 DEF ChangeTier, Tiers
<1>0. /\ Shape /\ Grown(row.sub, status, tier) /\ Len(history) \in Nat /\ now' \in Nat
      /\ Events \subseteq Events' /\ \A i \in Events : history'[i] = history[i]
      /\ Len(history') \in Events'
    BY <1>1, <1>3, ChangesGrow DEF IInv, Shape, Grown
<1>4. /\ local' = local + 1 /\ local \in Nat /\ local' \in 0..MaxLocal /\ local' # 0
      /\ UNCHANGED <<acked, row, planTier, failures, amiss>>
      /\ work' = [work EXCEPT ![Local] = [at |-> "asked", version |-> Len(history')]]
    BY <1>0, BillingAssumption DEF ChangeTier, Shape
<1>5. RowInv' /\ ClockInv' /\ LatestInv' /\ AckedInv' /\ acked' \subseteq Events'
    BY <1>0, <1>1, <1>4, HistoryKeeps
<1>6. Shape'
    <2>1. [at |-> "asked", version |-> Len(history')] \in Asked
        BY <1>0 DEF Asked, Events, Grown
    <2>2. work' \in [Handlers \union {Local} -> {Resting} \union Asked \union Read]
        BY <1>0, <1>4, <2>1 DEF Shape
    <2>3. \A h \in Handlers \union {Local} : work'[h] # Resting => work'[h].version \in Events'
        BY <1>0, <1>4 DEF Shape
    <2> QED
        BY <1>0, <1>4, <1>5, <2>2, <2>3 DEF Shape, Grown
<1>7. \A h \in Handlers : work'[h] = work[h]
    BY <1>0, <1>4, BillingAssumption DEF Shape
<1>8. DeliveryInv'
    BY <1>0, <1>4, <1>7 DEF IInv, Shape, DeliveryInv
<1>9. PastInv'
    BY <1>4 DEF PastInv, InOrder
<1>10. work'[Local].at = "asked" /\ work[Local] = Resting
       /\ \A h \in Handlers \union {Local} : h # Local => work'[h] = work[h]
    BY <1>0, <1>4 DEF ChangeTier, Shape
<1>11. WrittenInv' /\ TierInv'
    <2>1. \A h \in Handlers \union {Local} :
              work'[h].at = "written" => work[h].at = "written" /\ work'[h] = work[h]
        BY <1>10
    <2>2. WrittenInv'
        BY <1>4, <2>1 DEF IInv, WrittenInv
    <2>3. \A h \in Handlers \union {Local} :
              work[h].at = "written" => work'[h].at = "written"
        BY <1>10 DEF Resting
    <2>4. TierInv'
        BY <1>0, <1>4, <2>3 DEF IInv, Shape, TierInv, EntitledBy
    <2> QED
        BY <2>2, <2>4
<1> QED
    BY <1>5, <1>6, <1>8, <1>9, <1>11 DEF IInv

LEMMA SnapshotKeeps == IInv /\ ApplySnapshot => IInv'
<1> SUFFICES ASSUME IInv, ApplySnapshot PROVE IInv'
    OBVIOUS
<1>0. /\ Shape /\ now' = now + 1 /\ now \in Nat
      /\ work' = [work EXCEPT ![Local] = Reading(work[Local].version, -now', now')]
      /\ UNCHANGED <<history, acked, row, planTier, local, failures, amiss>>
      /\ work[Local] \in Asked /\ work[Local] # Resting
    BY DEF ApplySnapshot, IInv, Shape, Resting, Read
<1>1. local # 0
    BY <1>0 DEF IInv, DeliveryInv
<1>2. Shape'
    <2>1. Reading(work[Local].version, -now', now') \in Read
        BY <1>0 DEF Asked, Reading, Read, Shape
    <2>2. work' \in [Handlers \union {Local} -> {Resting} \union Asked \union Read]
        BY <1>0, <2>1 DEF Shape
    <2>3. \A h \in Handlers \union {Local} : work'[h] # Resting => work'[h].version \in Events
        BY <1>0 DEF Shape, Reading
    <2> QED
        BY <1>0, <2>2, <2>3 DEF Shape, Events
<1>3. \A h \in Handlers : work'[h] = work[h]
    BY <1>0, BillingAssumption DEF Shape
<1>4. DeliveryInv' /\ RowInv'
    BY <1>0, <1>1, <1>3 DEF IInv, DeliveryInv, RowInv
<1>5. ClockInv'
    <2>1. Second(now) \in Nat /\ Second(now') \in Nat /\ Second(now) <= Second(now')
        BY <1>0, SecondTicks
    <2>2. \A i \in Events : history[i].at \in Nat
        <3>1. \A i \in Events : history[i] \in State
            BY <1>0 DEF Shape, Events
        <3> QED
            BY <3>1 DEF State
    <2>3. \A i \in Events : history[i].at <= Second(now')
        BY <2>1, <2>2 DEF IInv, ClockInv
    <2> QED
        BY <1>0, <2>3 DEF IInv, ClockInv, Events
<1>6. LatestInv' /\ PastInv' /\ AckedInv'
    BY <1>0, <1>1 DEF IInv, LatestInv, Bought, StatesOf, Events, PastInv, InOrder, AckedInv
<1>7. work'[Local].at = "read" /\ work[Local].at = "asked"
      /\ \A h \in Handlers \union {Local} : h # Local => work'[h] = work[h]
    BY <1>0 DEF Shape, Reading, Asked
<1>8. WrittenInv' /\ TierInv'
    <2>1. \A h \in Handlers \union {Local} :
              /\ work'[h].at = "written" <=> work[h].at = "written"
              /\ work'[h].at = "written" => work'[h] = work[h]
        BY <1>7
    <2> QED
        BY <1>0, <2>1 DEF IInv, WrittenInv, TierInv, EntitledBy
<1> QED
    BY <1>2, <1>4, <1>5, <1>6, <1>8 DEF IInv

\* What a handler does to the provider: nothing.
LEMMA HandlersKeep ==
    ASSUME IInv, UNCHANGED <<history, now>>
    PROVE  Events' = Events /\ ClockInv' /\ LatestInv' /\ (OneSubscription' <=> OneSubscription)
<1>1. Events' = Events /\ LatestInv' /\ (OneSubscription' <=> OneSubscription)
    BY DEF IInv, Events, LatestInv, Bought, StatesOf, OneSubscription
<1>2. Second(now') = Second(now)
    BY DEF Second
<1>3. ClockInv'
    BY <1>1, <1>2 DEF IInv, ClockInv
<1> QED
    BY <1>1, <1>3

\* A delivery reaches a handler at rest.
LEMMA DeliverKeeps ==
    ASSUME IInv, NEW h \in Handlers, NEW i \in Events, work[h] = Resting,
           work' = [work EXCEPT ![h] = Reading(i, i, history[i].at)],
           UNCHANGED <<history, now, acked, row, planTier, local, failures, amiss>>
    PROVE  IInv'
<1>0. Shape /\ i \in Nat \ {0} /\ h # Local /\ history[i].at \in Nat
    <2>1. Shape /\ i \in 1..Len(history) /\ Len(history) \in Nat
        BY DEF IInv, Shape, Events
    <2>2. history[i] \in State
        BY <2>1 DEF Shape
    <2> QED
        BY <2>1, <2>2, BillingAssumption DEF State
<1>1. Events' = Events /\ ClockInv' /\ LatestInv' /\ (OneSubscription' <=> OneSubscription)
    BY HandlersKeep
<1>2. work'[h] = Reading(i, i, history[i].at)
      /\ \A g \in Handlers \union {Local} : g # h => work'[g] = work[g]
    BY <1>0 DEF Shape
<1>3. Shape'
    <2>1. Reading(i, i, history[i].at) \in Read
        BY <1>0 DEF Reading, Read, Shape
    <2>2. work' \in [Handlers \union {Local} -> {Resting} \union Asked \union Read]
        BY <1>0, <2>1 DEF Shape
    <2>3. \A g \in Handlers \union {Local} : work'[g] # Resting => work'[g].version \in Events
        BY <1>0, <1>2 DEF Shape, Reading
    <2> QED
        BY <1>0, <1>1, <2>2, <2>3 DEF Shape
<1>4. DeliveryInv' /\ RowInv'
    BY <1>0, <1>2 DEF IInv, DeliveryInv, RowInv, Reading
<1>5. /\ work[h].at # "written" /\ work'[h].at = "read" /\ work'[h].existing = row
      /\ \A g \in Handlers \union {Local} :
            /\ work'[g].at = "written" <=> work[g].at = "written"
            /\ work'[g].at = "written" => work'[g] = work[g]
    BY <1>2 DEF Resting, Reading
<1>6. WrittenInv' /\ TierInv'
    BY <1>5 DEF IInv, WrittenInv, TierInv, EntitledBy
<1>7. AckedInv'
    BY <1>1 DEF IInv, AckedInv, InOrder
<1>8. PastInv'
    <2> SUFFICES ASSUME InOrder, NEW g \in Handlers PROVE Past(work[g])'
        BY DEF PastInv, InOrder
    <2>1. CASE g # h
        BY <1>1, <1>2, <2>1 DEF IInv, PastInv, Past
    <2>2. CASE g = h
        <3>1. row # NoRow => /\ row.version \in Events /\ row.version \in Nat
                             /\ row.lastEventId = row.version
                             /\ row.lastEventAt = history[row.version].at
                             /\ row.sub = history[row.version].sub
            BY <1>0 DEF Shape, Events, IInv, InOrder, DeliveryInv, RowInv
        <3> QED
            BY <1>1, <1>5, <2>2, <3>1 DEF Past
    <2> QED
        BY <2>1, <2>2
<1> QED
    BY <1>1, <1>3, <1>4, <1>6, <1>7, <1>8 DEF IInv

\* What a handler at work holds.
LEMMA AtWork ==
    ASSUME IInv, NEW h \in Handlers \union {Local}, work[h].at \in {"read", "written"}
    PROVE  /\ work[h] \in Read /\ work[h].version \in Events
           /\ history[work[h].version] \in State
           /\ local = 0 => /\ h \in Handlers
                           /\ work[h].id = work[h].version
                           /\ work[h].occurredAt = history[work[h].version].at
           /\ h \in Handlers => work[h].id = work[h].version
           /\ InOrder => Past(work[h])
<1>0. Shape
    BY DEF IInv
<1>1. work[h] # Resting /\ work[h] \in Read
    BY <1>0 DEF Shape, Resting, Asked
<1>2. work[h].version \in Events
    BY <1>0, <1>1 DEF Shape
<1>3. history[work[h].version] \in State
    BY <1>0, <1>2 DEF Shape, Events
<1> QED
    BY <1>1, <1>2, <1>3 DEF IInv, DeliveryInv, PastInv, InOrder

LEMMA RestKeeps ==
    ASSUME Shape, NEW h \in Handlers \union {Local}, work' = [work EXCEPT ![h] = Resting]
    PROVE  /\ work' \in [Handlers \union {Local} -> {Resting} \union Asked \union Read]
           /\ work'[h] = Resting
           /\ \A g \in Handlers \union {Local} : g # h => work'[g] = work[g]
BY DEF Shape

\* A handler that comes to rest without a write takes nothing from what is known.
LEMMA RestKnows ==
    ASSUME IInv, NEW h \in Handlers \union {Local}, work' = [work EXCEPT ![h] = Resting],
           UNCHANGED <<history, row, local, amiss>>
    PROVE  /\ WrittenInv' /\ PastInv'
           /\ \A g \in Handlers \union {Local} :
                 work'[g].at = "written" <=> g # h /\ work[g].at = "written"
<1>1. /\ work'[h] = Resting
      /\ \A g \in Handlers \union {Local} : g # h => work'[g] = work[g]
    BY RestKeeps DEF IInv
<1>2. Events' = Events
    BY DEF Events
<1>3. \A g \in Handlers \union {Local} :
          /\ work'[g].at = "written" <=> g # h /\ work[g].at = "written"
          /\ work'[g].at = "written" => work'[g] = work[g]
    BY <1>1 DEF Resting
<1>4. WrittenInv'
    BY <1>3 DEF IInv, WrittenInv
<1>5. PastInv'
    <2> SUFFICES ASSUME InOrder, NEW g \in Handlers PROVE Past(work[g])'
        BY DEF PastInv, InOrder
    <2>1. CASE g = h
        BY <1>1, <2>1 DEF Past, Resting
    <2>2. CASE g # h
        BY <1>1, <1>2, <2>2 DEF IInv, PastInv, Past
    <2> QED
        BY <2>1, <2>2
<1> QED
    BY <1>3, <1>4, <1>5

\* Of two versions the later has the later time.
LEMMA LaterVersion ==
    ASSUME IInv, NEW i \in Events, NEW j \in Events,
           history[i].at < history[j].at
    PROVE  i < j
<1>1. /\ i \in Nat /\ j \in Nat /\ history[i] \in State /\ history[j] \in State
    BY DEF IInv, Shape, Events
<1>2. history[i].at \in Nat /\ history[j].at \in Nat
    BY <1>1 DEF State
<1>3. j <= i => history[j].at <= history[i].at
    BY DEF IInv, ClockInv
<1> QED
    BY <1>1, <1>2, <1>3

LEMMA SkipKeeps ==
    ASSUME IInv, NEW h \in Handlers \union {Local}, Skip(h)
    PROVE  IInv'
<1> DEFINE v == work[h].version
<1>0. /\ Shape /\ work[h].at = "read" /\ Skipped(work[h]) /\ acked' = Answered(h)
      /\ work' = [work EXCEPT ![h] = Resting]
      /\ UNCHANGED <<history, now, row, planTier, local, failures, amiss>>
    BY DEF IInv, Skip
<1>1. Events' = Events /\ ClockInv' /\ LatestInv' /\ (OneSubscription' <=> OneSubscription)
    BY <1>0, HandlersKeep
<1>2. /\ work' \in [Handlers \union {Local} -> {Resting} \union Asked \union Read]
      /\ work'[h] = Resting
      /\ \A g \in Handlers \union {Local} : g # h => work'[g] = work[g]
    BY <1>0, RestKeeps
<1>3. acked' \subseteq acked \union {v} /\ v \in Events
    BY <1>0, AtWork DEF Answered
<1>4. Shape'
    BY <1>0, <1>1, <1>2, <1>3 DEF Shape
<1>5. DeliveryInv' /\ RowInv'
    BY <1>0, <1>2 DEF IInv, DeliveryInv, RowInv
<1>6. WrittenInv' /\ PastInv'
      /\ \A g \in Handlers \union {Local} : work'[g].at = "written" <=> work[g].at = "written"
    BY <1>0, RestKnows
<1>7. TierInv'
    BY <1>0, <1>6 DEF IInv, TierInv, EntitledBy
<1>8. AckedInv'
    <2> SUFFICES ASSUME InOrder, OneSubscription, NEW i \in acked'
                 PROVE  row # NoRow /\ i <= row.version
        BY <1>0, <1>1 DEF AckedInv, InOrder
    <2>1. CASE i \in acked
        BY <2>1 DEF IInv, AckedInv
    <2>2. CASE i = v
        <3> DEFINE e == work[h].existing
        <3>1. /\ Past(work[h]) /\ work[h].id = v
              /\ work[h].occurredAt = history[v].at /\ v \in Nat
            BY <1>0, <1>3, AtWork DEF InOrder, Events
        <3>2. e # NoRow
            BY <1>0 DEF Skipped, Duplicate, Stale, Superseded
        <3>3. /\ row # NoRow /\ e.version \in Events /\ e.version \in Nat
              /\ e.version <= row.version
              /\ e.lastEventId = e.version
              /\ e.lastEventAt = history[e.version].at
              /\ e.sub = history[e.version].sub
            BY <1>0, <3>1, <3>2 DEF Past, Events
        <3>4. row.version \in Nat
            BY <1>0, <3>3 DEF Shape, Events
        <3>5. CASE Duplicate(work[h])
            BY <2>2, <3>1, <3>3, <3>5 DEF Duplicate
        <3>6. CASE Stale(work[h])
            <4>1. v < e.version
                BY <1>3, <3>1, <3>3, <3>6, LaterVersion DEF Stale
            <4> QED
                BY <2>2, <3>1, <3>3, <3>4, <4>1
        <3>7. ~Superseded(work[h])
            BY <1>3, <3>3 DEF Superseded, OneSubscription
        <3> QED
            BY <1>0, <3>5, <3>6, <3>7 DEF Skipped
    <2> QED
        BY <1>3, <2>1, <2>2
<1> QED
    BY <1>1, <1>4, <1>5, <1>6, <1>7, <1>8 DEF IInv

\* A version that is written over the row it was compared with, and that is not of the
\* same second, is later than the row's: neither stale nor a duplicate.
LEMMA Forward ==
    ASSUME IInv, NEW h \in Handlers \union {Local}, WriteRow(h), InOrder', row # NoRow
    PROVE  row.version < work[h].version
<1> DEFINE v == work[h].version
<1>1. /\ Shape /\ work[h].at = "read" /\ ~Skipped(work[h]) /\ local = 0
    BY DEF IInv, WriteRow, InOrder
<1>2. /\ v \in Events /\ v \in Nat /\ work[h].id = v
      /\ work[h].occurredAt = history[v].at /\ history[v] \in State
    BY <1>1, AtWork DEF Events
<1>3. "overwrote" \notin Mishap(h) /\ "tied" \notin Mishap(h)
    BY DEF WriteRow, InOrder
<1>4. work[h].existing = row /\ work[h].occurredAt # row.lastEventAt
    BY <1>3 DEF Mishap, Mishaps
<1>5. /\ row.version \in Events /\ row.version \in Nat
      /\ row.lastEventAt = history[row.version].at /\ history[row.version] \in State
    BY <1>1 DEF Shape, Events, IInv, DeliveryInv
<1>6. history[v].at # history[row.version].at /\ ~(history[v].at < history[row.version].at)
    BY <1>1, <1>2, <1>4, <1>5 DEF Skipped, Stale
<1>7. history[row.version].at < history[v].at
    BY <1>2, <1>5, <1>6 DEF State
<1> QED
    BY <1>2, <1>5, <1>7, LaterVersion

LEMMA WriteRowKeeps ==
    ASSUME IInv, NEW h \in Handlers \union {Local}, WriteRow(h)
    PROVE  IInv'
<1> DEFINE w == work[h]
           v == work[h].version
<1>0. /\ Shape /\ work[h].at = "read"
      /\ row' = [version |-> v, sub |-> history[v].sub, status |-> history[v].status,
                 tier |-> history[v].tier, lastEventId |-> w.id, lastEventAt |-> w.occurredAt]
      /\ work' = [work EXCEPT ![h].at = "written"]
      /\ amiss' = amiss \union Mishap(h)
      /\ UNCHANGED <<history, now, acked, planTier, local, failures>>
    BY DEF IInv, WriteRow
<1>1. Events' = Events /\ ClockInv' /\ LatestInv' /\ (OneSubscription' <=> OneSubscription)
    BY <1>0, HandlersKeep
<1>2. w \in Read /\ v \in Events /\ history[v] \in State
    BY <1>0, AtWork
<1>3. /\ row' \in Row /\ row' # NoRow /\ row'.version = v
    <2>1. row' \in Row
        BY <1>0, <1>2 DEF Row, Read, State
    <2>2. row'.version = v /\ v # 0
        BY <1>0, <1>2 DEF Read
    <2> QED
        BY <2>1, <2>2 DEF NoRow
<1>4. /\ work'[h] \in Read /\ work'[h].at = "written" /\ work'[h].version = v
      /\ work'[h].id = w.id /\ work'[h].occurredAt = w.occurredAt
      /\ \A g \in Handlers \union {Local} : g # h => work'[g] = work[g]
      /\ work' \in [Handlers \union {Local} -> {Resting} \union Asked \union Read]
    <2>1. work'[h] = [w EXCEPT !.at = "written"]
          /\ \A g \in Handlers \union {Local} : g # h => work'[g] = work[g]
        BY <1>0 DEF Shape
    <2>2. [w EXCEPT !.at = "written"] \in Read
        BY <1>2 DEF Read
    <2>3. /\ [w EXCEPT !.at = "written"].at = "written"
          /\ [w EXCEPT !.at = "written"].version = v
          /\ [w EXCEPT !.at = "written"].id = w.id
          /\ [w EXCEPT !.at = "written"].occurredAt = w.occurredAt
        BY <1>2 DEF Read
    <2> QED
        BY <1>0, <2>1, <2>2, <2>3 DEF Shape
<1>5. Shape'
    <2>1. \A g \in Handlers \union {Local} : work'[g] # Resting => work'[g].version \in Events
        BY <1>0, <1>2, <1>4 DEF Shape
    <2>2. amiss' \subseteq Mishaps
        BY <1>0 DEF Shape, Mishap
    <2> QED
        BY <1>0, <1>1, <1>2, <1>3, <1>4, <2>1, <2>2 DEF Shape
<1>6. RowInv'
    BY <1>0, <1>3 DEF RowInv
<1>7. DeliveryInv'
    <2>1. /\ h \in Handlers => w.id = v /\ w.occurredAt = history[v].at
          /\ local = 0 => h \in Handlers /\ h # Local
        BY <1>0, AtWork, BillingAssumption DEF IInv, DeliveryInv, Resting
    <2> QED
        BY <1>0, <1>3, <1>4, <2>1 DEF IInv, DeliveryInv
<1>8. WrittenInv'
    <2> SUFFICES ASSUME "crossed" \notin amiss', NEW f \in Handlers \union {Local},
                        work'[f].at = "written"
                 PROVE  f = h
        BY <1>3, <1>4 DEF WrittenInv
    <2>1. ~ \E g \in (DOMAIN work) \ {h} : work[g].at = "written"
        BY <1>0 DEF Mishap, Mishaps
    <2>2. DOMAIN work = Handlers \union {Local}
        BY <1>0 DEF Shape
    <2> QED
        BY <1>4, <2>1, <2>2
<1>9. TierInv'
    BY <1>4 DEF TierInv
<1>10. InOrder' => InOrder /\ (row # NoRow => row.version < v)
    <2>1. InOrder' => InOrder
        BY <1>0 DEF InOrder
    <2> QED
        BY <2>1, Forward
<1>11. PastInv'
    <2> SUFFICES ASSUME InOrder', NEW g \in Handlers PROVE Past(work[g])'
        BY DEF PastInv
    <2>1. InOrder /\ (row # NoRow => row.version < v)
        BY <1>10
    <2>2. v \in Nat /\ (row # NoRow => row.version \in Nat)
        BY <1>0, <1>2 DEF Shape, Events
    <2>3. CASE g = h
        BY <1>3, <1>4, <2>2, <2>3 DEF Past
    <2>4. CASE g # h
        <3>1. Past(work[g]) /\ work'[g] = work[g]
            BY <1>4, <2>1, <2>4 DEF IInv, PastInv
        <3>2. work[g].at = "written" => work[g].version \in Nat
            BY <1>0 DEF Shape, Events, Resting
        <3>3. \A i \in Events : i \in Nat
            BY <1>0 DEF Shape, Events
        <3> QED
            BY <1>0, <1>1, <1>3, <2>1, <2>2, <3>1, <3>2, <3>3 DEF Past
    <2> QED
        BY <2>3, <2>4
<1>12. AckedInv'
    <2> SUFFICES ASSUME InOrder', OneSubscription, NEW i \in acked
                 PROVE  i <= v
        BY <1>0, <1>1, <1>3 DEF AckedInv
    <2>1. row # NoRow /\ i <= row.version
        BY <1>10 DEF IInv, AckedInv
    <2>2. row.version < v
        BY <1>10, <2>1
    <2>3. i \in Nat /\ v \in Nat /\ row.version \in Nat
        BY <1>0, <1>2, <2>1 DEF Shape, Events
    <2> QED
        BY <2>1, <2>2, <2>3
<1> QED
    BY <1>1, <1>5, <1>6, <1>7, <1>8, <1>9, <1>11, <1>12 DEF IInv

LEMMA WriteTierKeeps ==
    ASSUME IInv, NEW h \in Handlers \union {Local}, WriteTier(h)
    PROVE  IInv'
<1> DEFINE v == work[h].version
<1>0. /\ Shape /\ work[h].at = "written" /\ acked' = Answered(h)
      /\ planTier' = EntitledBy(v)
      /\ work' = [work EXCEPT ![h] = Resting]
      /\ UNCHANGED <<history, now, row, local, failures, amiss>>
    BY DEF IInv, WriteTier
<1>1. Events' = Events /\ ClockInv' /\ LatestInv' /\ (OneSubscription' <=> OneSubscription)
    BY <1>0, HandlersKeep
<1>2. /\ work' \in [Handlers \union {Local} -> {Resting} \union Asked \union Read]
      /\ work'[h] = Resting
      /\ \A g \in Handlers \union {Local} : g # h => work'[g] = work[g]
    BY <1>0, RestKeeps
<1>3. acked' \subseteq acked \union {v} /\ v \in Events /\ history[v] \in State
    BY <1>0, AtWork DEF Answered
<1>4. planTier' \in Tiers
    BY <1>0, <1>3 DEF EntitledBy, tierForStatus, Tiers, State
<1>5. Shape'
    BY <1>0, <1>1, <1>2, <1>3, <1>4 DEF Shape
<1>6. DeliveryInv' /\ RowInv'
    BY <1>0, <1>2 DEF IInv, DeliveryInv, RowInv
<1>7. WrittenInv' /\ PastInv'
    BY <1>0, RestKnows
<1>8. "crossed" \notin amiss => row # NoRow /\ row.version = v
    BY <1>0 DEF IInv, WrittenInv
<1>9. TierInv'
    BY <1>0, <1>8 DEF TierInv, EntitledBy
<1>10. AckedInv'
    <2> SUFFICES ASSUME InOrder, OneSubscription, NEW i \in acked'
                 PROVE  row # NoRow /\ i <= row.version
        BY <1>0, <1>1 DEF AckedInv, InOrder
    <2>1. CASE i \in acked
        BY <2>1 DEF IInv, AckedInv
    <2>2. CASE i = v
        BY <1>0, <2>2, AtWork DEF Past
    <2> QED
        BY <1>3, <2>1, <2>2
<1> QED
    BY <1>1, <1>5, <1>6, <1>7, <1>9, <1>10 DEF IInv

LEMMA FailKeeps ==
    ASSUME IInv, NEW h \in Handlers \union {Local}, Fail(h)
    PROVE  IInv'
<1>0. /\ Shape /\ failures < MaxFailures /\ failures' = failures + 1
      /\ work' = [work EXCEPT ![h] = Resting]
      /\ UNCHANGED <<history, now, acked, row, planTier, local, amiss>>
    BY DEF IInv, Fail
<1>1. Events' = Events /\ ClockInv' /\ LatestInv' /\ (OneSubscription' <=> OneSubscription)
    BY <1>0, HandlersKeep
<1>2. /\ work' \in [Handlers \union {Local} -> {Resting} \union Asked \union Read]
      /\ work'[h] = Resting
      /\ \A g \in Handlers \union {Local} : g # h => work'[g] = work[g]
    BY <1>0, RestKeeps
<1>3. failures' \in 0..MaxFailures /\ failures' # 0
    BY <1>0, BillingAssumption DEF Shape
<1>4. Shape'
    BY <1>0, <1>1, <1>2, <1>3 DEF Shape
<1>5. DeliveryInv' /\ RowInv'
    BY <1>0, <1>2 DEF IInv, DeliveryInv, RowInv
<1>6. WrittenInv' /\ PastInv'
    BY <1>0, RestKnows
<1>7. TierInv'
    BY <1>3 DEF TierInv
<1>8. AckedInv'
    BY <1>0, <1>1 DEF IInv, AckedInv, InOrder
<1> QED
    BY <1>1, <1>4, <1>5, <1>6, <1>7, <1>8 DEF IInv

LEMMA StepKeeps == IInv /\ [Next]_vars => IInv'
<1> SUFFICES ASSUME IInv, [Next]_vars PROVE IInv'
    OBVIOUS
<1>1. CASE UNCHANGED vars
    <2>0. UNCHANGED <<history, now, acked, row, planTier, work, local, failures, amiss>>
        BY <1>1 DEF vars
    <2>1. Events' = Events /\ ClockInv' /\ LatestInv' /\ (OneSubscription' <=> OneSubscription)
        BY <2>0, HandlersKeep
    <2>2. Shape' /\ RowInv' /\ DeliveryInv'
        BY <2>0, <2>1 DEF IInv, Shape, RowInv, DeliveryInv
    <2>3. WrittenInv' /\ PastInv' /\ AckedInv'
        BY <2>0, <2>1 DEF IInv, WrittenInv, PastInv, Past, AckedInv, InOrder
    <2>4. TierInv'
        BY <2>0 DEF IInv, TierInv, EntitledBy
    <2> QED
        BY <2>1, <2>2, <2>3, <2>4 DEF IInv
<1>2. ASSUME NEW s \in Subscriptions, Subscribe(s) PROVE IInv'
    <2>1. PICK tier \in PaidTiers : Changes(s, "active", tier)
        BY <1>2 DEF Subscribe
    <2> QED
        BY <1>2, <2>1, ProviderStepKeeps DEF Subscribe, Statuses
<1>3. ASSUME NEW s \in Subscriptions, Update(s) PROVE IInv'
    <2>1. PICK status \in Statuses, tier \in PaidTiers : Changes(s, status, tier)
        BY <1>3 DEF Update, Statuses
    <2> QED
        BY <1>3, <2>1, ProviderStepKeeps DEF Update
<1>4. ASSUME NEW s \in Subscriptions, Cancel(s) PROVE IInv'
    <2>1. Latest(s).tier \in PaidTiers
        BY <1>4, LatestType DEF Cancel, Running, IInv
    <2> QED
        BY <1>4, <2>1, ProviderStepKeeps DEF Cancel, Statuses
<1>5. ASSUME NEW h \in Handlers, Deliver(h) \/ Redeliver(h) PROVE IInv'
    <2>1. acked \subseteq Events
        BY DEF IInv, Shape
    <2>2. PICK i \in Events : work' = [work EXCEPT ![h] = Reading(i, i, history[i].at)]
        BY <1>5, <2>1 DEF Deliver, Redeliver
    <2> QED
        BY <1>5, <2>2, DeliverKeeps DEF Deliver, Redeliver
<1> QED
    BY <1>1, <1>2, <1>3, <1>4, <1>5, ChangeTierKeeps, SnapshotKeeps, SkipKeeps, WriteRowKeeps,
       WriteTierKeeps, FailKeeps DEF Next, ProviderStep, Finish

-----------------------------------------------------------------------------
(* The theorems.                                                           *)

\* Every state satisfies the inductive invariant.
THEOREM Invariance == Spec => []IInv
BY InitIInv, StepKeeps, PTL DEF Spec

\* With no handler at work the account is on what its row entitles it to.
LEMMA TierOfRow ==
    ASSUME IInv, "crossed" \notin amiss, failures = 0, row # NoRow,
           \A h \in DOMAIN work : work[h] = Resting
    PROVE  planTier = tierForStatus(row.status, row.tier)
<1>1. DOMAIN work = Handlers \union {Local}
    BY DEF IInv, Shape
<1>2. \A h \in Handlers \union {Local} : work[h].at # "written"
    BY <1>1 DEF Resting
<1>3. planTier = EntitledBy(row.version)
    BY <1>2 DEF IInv, TierInv
<1> QED
    BY <1>3 DEF IInv, RowInv, EntitledBy

\* Any number of handlers that run to their end leave the account and its row in
\* agreement, in any order and with any repetition, until one writes the row between
\* the two writes of another (applyBillingEvent, applySubscriptionSnapshot).
THEOREM TiersAgree == Spec => []TierMatchesRowIfServed
<1>1. IInv => TypeOK
    <2> SUFFICES ASSUME IInv PROVE TypeOK
        OBVIOUS
    <2>1. Shape
        BY DEF IInv
    <2>2. \A h \in DOMAIN work : work[h].at \in {"rest", "asked", "read", "written"}
        BY <2>1 DEF Shape, Resting, Asked, Read
    <2>3. row = NoRow \/ (/\ row.version \in Events /\ row.status \in Statuses
                          /\ row.sub \in Subscriptions /\ row.tier \in PaidTiers
                          /\ row.lastEventAt \in Nat)
        BY <2>1 DEF Shape, Row
    <2> QED
        BY <2>1, <2>2, <2>3 DEF Shape, TypeOK
<1>2. IInv => TierMatchesRowIfServed
    BY <1>1, TierOfRow DEF TierMatchesRowIfServed, TierMatchesRow, Quiet
<1> QED
    BY <1>2, Invariance, PTL

\* Once everything has been delivered, an account with a single subscription is on
\* what the provider's last word about it entitles it to, whatever was repeated, came
\* late or was handled at once, as long as nothing went amiss (applyBillingEvent,
\* tierForStatus).
THEOREM AccountSettles == Spec => []SettlesOnTheTruth
<1>1. IInv => SettlesOnTheTruth
    <2> SUFFICES ASSUME IInv, Quiet, Cardinality(Bought) = 1, failures = 0, local = 0,
                        amiss = {}
                 PROVE  planTier = tierForStatus(Latest(Current).status, Latest(Current).tier)
        BY DEF SettlesOnTheTruth
    <2>0. Shape /\ Len(history) \in Nat /\ Events = 1..Len(history)
          /\ \A i \in Events : history[i].sub \in Subscriptions
        <3>1. Shape /\ Len(history) \in Nat /\ Events = 1..Len(history)
            BY DEF IInv, Shape, Events
        <3>2. \A i \in Events : history[i] \in State
            BY <3>1 DEF Shape
        <3> QED
            BY <3>1, <3>2 DEF State
    <2>1. PICK s : Bought = {s}
        <3>1. IsFiniteSet(Events)
            BY <2>0, FS_Interval
        <3>2. [i \in Events |-> history[i].sub]
                  \in Surjection(Events, {history[i].sub : i \in Events})
            BY DEF Surjection
        <3>4. IsFiniteSet({history[i].sub : i \in Events})
            BY <3>1, <3>2, FS_Surjection
        <3>3. Bought \subseteq {history[i].sub : i \in Events}
            BY DEF Bought, StatesOf
        <3> QED
            BY <3>3, <3>4, FS_Subset, FS_Singleton
    <2>2. \A i \in Events : history[i].sub = s
        BY <2>0, <2>1 DEF Bought, StatesOf
    <2>3. s \in Subscriptions /\ s \in Nat
        BY <2>1, BillingAssumption DEF Bought
    <2>4. Current = s
        BY <2>1, <2>3 DEF Current
    <2>5. StatesOf(s) = Events /\ Events # {}
        BY <2>1, <2>2 DEF StatesOf, Bought
    <2>6. PICK n \in Events : Latest(s) = history[n] /\ \A j \in Events : j <= n
        BY <2>1, <2>5, LatestIs DEF IInv
    <2>7. row # NoRow /\ n <= row.version
        BY <2>2, <2>6 DEF IInv, AckedInv, OneSubscription, InOrder, Quiet
    <2>8. row.version = n
        BY <2>0, <2>6, <2>7 DEF Shape
    <2>9. row.status = history[n].status /\ row.tier = history[n].tier
        BY <2>7, <2>8 DEF IInv, RowInv
    <2>10. planTier = tierForStatus(row.status, row.tier)
        BY <2>7, TierOfRow DEF Quiet
    <2> QED
        BY <2>4, <2>6, <2>9, <2>10
<1> QED
    BY <1>1, Invariance, PTL

\* The account follows the provider's history, with any number of deliveries handled at
\* once: a step of BillingEvents moves it to a later version, or leaves it where it is
\* ("discarded rather than applied twice or backwards").
THEOREM Follows == Spec => FollowsHistory
<1>1. Init => History!Init
    BY DEF Init, Followed, NoRow, History!Init
<1>2. IInv /\ [Next]_vars => [History!Follow]_Followed
    <2> SUFFICES ASSUME IInv, [Next]_vars, Followed' # Followed
                 PROVE  Followed' \in Nat /\ Followed' > Followed
        BY DEF History!Follow
    <2>0. Shape /\ MaxEvents \in Nat /\ local \in Nat
        BY BillingAssumption DEF IInv, Shape
    <2>1. /\ row # NoRow => row.version \in Nat /\ row.version <= MaxEvents
          /\ row = NoRow => row.version = 0
        BY <2>0 DEF Shape, Events, NoRow
    <2>2. (row' = row /\ local' = local /\ amiss' = amiss) \/ ChangeTier
          \/ \E h \in Handlers \union {Local} : WriteRow(h)
        BY DEF Next, ProviderStep, Subscribe, Update, Cancel, Finish, Skip, WriteTier, Fail,
               Deliver, Redeliver, ApplySnapshot, vars
    <2>3. Followed = IF InOrder THEN row.version ELSE MaxEvents + 1
        BY DEF Followed, InOrder
    <2>4. Followed' = IF InOrder' THEN row'.version ELSE MaxEvents + 1
        BY DEF Followed, InOrder
    <2>5. InOrder' => InOrder
        <3>1. CASE ChangeTier
            BY <2>0, <3>1 DEF ChangeTier, InOrder
        <3>2. ASSUME NEW h \in Handlers \union {Local}, WriteRow(h) PROVE InOrder' => InOrder
            BY <3>2 DEF WriteRow, InOrder
        <3> QED
            BY <2>2, <3>1, <3>2 DEF InOrder
    <2>6. CASE ~InOrder'
        BY <2>0, <2>1, <2>3, <2>4, <2>6
    <2>7. CASE InOrder'
        <3>1. PICK h \in Handlers \union {Local} : WriteRow(h)
            <4>1. ~ChangeTier
                BY <2>0, <2>7 DEF ChangeTier, InOrder
            <4> QED
                BY <2>2, <2>3, <2>4, <2>5, <2>7, <4>1
        <3>2. row'.version = work[h].version /\ work[h].at = "read"
            BY <3>1 DEF WriteRow
        <3>3. work[h].version \in Nat /\ work[h].version > 0
            BY <2>0, <3>2, AtWork DEF Shape, Events
        <3>4. row # NoRow => row.version < work[h].version
            BY <2>7, <3>1, Forward
        <3> QED
            BY <2>1, <2>3, <2>4, <2>5, <2>7, <3>2, <3>3, <3>4
    <2> QED
        BY <2>6, <2>7
<1> QED
    BY <1>1, <1>2, Invariance, PTL DEF Spec, FollowsHistory, History!Spec

-----------------------------------------------------------------------------
(* CapNotifications: the inductive invariant, in parts.                    *)

Working == {q \in Requests : request[q].at = "working"}
Mailing(t) == {f \in Flushes : flush[f].at = "mail" /\ flush[f].signal = t}
Unclaimed(t) == IF t \in claims THEN 0 ELSE 1

\* What is spent beyond the allowance is spent by calls that were let through.
SpendInv == used + Cardinality(Working) <= Cap + Cardinality(Requests)

\* What is under way knows where it runs and what it is about.
StageInv ==
    /\ \A q \in Requests : request[q].at # "idle" => request[q].server \in Servers
    /\ \A f \in Flushes :
          /\ flush[f].at # "idle" => flush[f].server \in Servers
          /\ flush[f].at = "judge" => flush[f].signal \in Signals
          /\ flush[f].at \in {"claim", "mail"} => flush[f].signal \in Thresholds
    /\ reset = "zeroed" => resets < MaxResets

\* A mail sent, a mail about to be sent and a row not yet claimed are one thing
\* in three places: a claim moves it, and only a reset makes another.
MailInv ==
    \A t \in Thresholds :
        /\ IsFiniteSet(Mailing(t))
        /\ mailed[t] + Cardinality(Mailing(t)) + Unclaimed(t) <= 1 + resets

\* Whatever says that a threshold was reached is right about the counter.
Truthful ==
    /\ \A q \in Requests : request[q].at = "refusing" => used >= Cap
    /\ \A s \in Servers : entry[s].signal = "reached" => used >= Cap
    /\ \A f \in Flushes : flush[f].at \in {"judge", "claim"} =>
          /\ flush[f].signal = "reached" => used >= Cap
          /\ flush[f].signal = "approaching" => used >= Warn
    /\ reset = "idle" =>
          /\ "reached" \in claims => used >= Cap
          /\ "approaching" \in claims => used >= Warn

CurrentInv == ~stale => Truthful

\* What is queued has a timer, and one that has fired has its flush.
QueueInv ==
    \A s \in Servers :
        /\ entry[s].signal # "none" => entry[s].timer # "none"
        /\ entry[s].timer = "fired" =>
              \E f \in Flushes : flush[f].at = "take" /\ flush[f].server = s

CapIInv == CapTypeOK /\ SpendInv /\ StageInv /\ MailInv /\ CurrentInv /\ QueueInv

\* A signal that is queued will be looked at: its timer is armed, or a flush of
\* its server is about to take it (noteCapCrossing, runFlush).
QueuedIsTimed ==
    \A s \in Servers : entry[s].signal # "none" =>
        \/ entry[s].timer = "armed"
        \/ \E f \in Flushes : flush[f].at = "take" /\ flush[f].server = s

-----------------------------------------------------------------------------

LEMMA RequestsCount ==
    /\ Cardinality(Requests) \in Nat
    /\ \A S \in SUBSET Requests :
          IsFiniteSet(S) /\ Cardinality(S) \in Nat /\ Cardinality(S) <= Cardinality(Requests)
BY CapAssumption, FS_CardinalityType, FS_Subset

LEMMA CapInitIInv == CapInit => CapIInv
<1> SUFFICES ASSUME CapInit PROVE CapIInv
    OBVIOUS
<1>1. CapTypeOK
    <2>1. used \in 0..(Cap + Cardinality(Requests))
        BY CapAssumption, RequestsCount DEF CapInit
    <2>2. resets \in 0..MaxResets /\ failed \in 0..MaxFailed
        BY CapAssumption DEF CapInit
    <2>3. entry \in [Servers -> [signal : Signals, timer : {"none", "armed", "fired"}]]
        BY DEF CapInit, NoEntry, Signals
    <2>4. mailed \in [Thresholds -> Nat] /\ {lost, stale} \subseteq BOOLEAN
        BY DEF CapInit
    <2> QED
        BY <2>1, <2>2, <2>3, <2>4 DEF CapInit, CapTypeOK, NoCall, NoFlush, Signals
<1>2. SpendInv
    <2>1. Working = {}
        BY DEF CapInit, Working, NoCall
    <2> QED
        BY <2>1, FS_EmptySet, RequestsCount, CapAssumption DEF CapInit, SpendInv
<1>3. StageInv
    BY DEF CapInit, StageInv, NoCall, NoFlush
<1>4. MailInv
    <2>1. \A t \in Thresholds : Mailing(t) = {}
        BY DEF CapInit, Mailing, NoFlush
    <2> QED
        BY <2>1, FS_EmptySet DEF CapInit, MailInv, Unclaimed
<1>5. CurrentInv
    BY DEF CapInit, CurrentInv, Truthful, NoCall, NoEntry, NoFlush
<1>6. QueueInv
    BY DEF CapInit, QueueInv, NoEntry
<1> QED
    BY <1>1, <1>2, <1>3, <1>4, <1>5, <1>6 DEF CapIInv

-----------------------------------------------------------------------------
(* Types.                                                                  *)

Entry == [signal : Signals, timer : {"none", "armed", "fired"}]

LEMMA NoteType ==
    ASSUME CapTypeOK, NEW s \in Servers, NEW signal \in Signals, NoteCapCrossing(s, signal)
    PROVE  entry' \in [Servers -> Entry]
BY DEF CapTypeOK, Entry, NoteCapCrossing, Superseding, Armed

LEMMA TypeStep == CapTypeOK /\ SpendInv /\ StageInv /\ [CapNext]_capVars => CapTypeOK'
<1> SUFFICES ASSUME CapTypeOK, SpendInv, StageInv, [CapNext]_capVars PROVE CapTypeOK'
    OBVIOUS
<1> USE CapAssumption, RequestsCount
<1>1. ASSUME NEW q \in Requests, NEW s \in Servers, AssertWithinCap(q, s) PROVE CapTypeOK'
    BY <1>1 DEF CapTypeOK, AssertWithinCap
<1>2. ASSUME NEW q \in Requests, Refuse(q) \/ NoteRecorded(q) PROVE CapTypeOK'
    <2>1. request[q].server \in Servers
        BY <1>2 DEF StageInv, Refuse, NoteRecorded
    <2>2. entry' \in [Servers -> Entry]
        BY <1>2, <2>1, NoteType DEF Refuse, NoteRecorded, Signals
    <2>3. request' \in [Requests -> [at : {"idle", "refusing", "working", "recorded"},
                                     server : Servers \cup {"none"}]]
        BY <1>2 DEF CapTypeOK, Refuse, NoteRecorded, NoCall
    <2>4. UNCHANGED <<used, claims, muted, flush, reset, resets, failed, mailed, lost, stale>>
        BY <1>2 DEF Refuse, NoteRecorded
    <2> QED
        BY <2>2, <2>3, <2>4 DEF CapTypeOK, Entry
<1>3. ASSUME NEW q \in Requests, RecordUsage(q) PROVE CapTypeOK'
    <2>1. q \in Working /\ Working \in SUBSET Requests
        BY <1>3 DEF Working, RecordUsage
    <2>2. Cardinality(Working) # 0
        BY <2>1, FS_EmptySet
    <2>3. Cardinality(Working) \in Nat
        BY <2>1
    <2>4. used \in Nat /\ used' = used + 1
        BY <1>3 DEF CapTypeOK, RecordUsage
    <2>5. used' \in 0..(Cap + Cardinality(Requests))
        BY <2>2, <2>3, <2>4 DEF SpendInv
    <2> QED
        BY <1>3, <2>5 DEF CapTypeOK, RecordUsage
<1>4. ASSUME NEW q \in Requests, RecordFailed(q) PROVE CapTypeOK'
    BY <1>4 DEF CapTypeOK, RecordFailed, Fails, NoCall
<1>5. ASSUME NEW f \in Flushes, NEW s \in Servers, Fire(s, f) PROVE CapTypeOK'
    <2>1. entry' \in [Servers -> Entry]
        BY <1>5 DEF CapTypeOK, Fire, Entry
    <2> QED
        BY <1>5, <2>1 DEF CapTypeOK, Fire, NoFlush, Signals, Entry
<1>6. ASSUME NEW f \in Flushes, Take(f) PROVE CapTypeOK'
    <2>1. flush[f].server \in Servers
        BY <1>6 DEF StageInv, Take
    <2>2. entry' \in [Servers -> Entry]
        BY <1>6, <2>1 DEF CapTypeOK, Take, TakePending, NoEntry, Entry, Signals
    <2>3. entry[flush[f].server].signal \in Signals
        BY <2>1 DEF CapTypeOK
    <2>4. flush' \in [Flushes -> [at : {"idle", "take", "judge", "claim", "mail"},
                                  server : Servers \cup {"none"},
                                  signal : Signals \cup Thresholds]]
        BY <1>6, <2>3, ZenonT(60) DEF CapTypeOK, Take
    <2> QED
        BY <1>6, <2>2, <2>4 DEF CapTypeOK, Take, Entry
<1>7. ASSUME NEW f \in Flushes, Judge(f) PROVE CapTypeOK'
    <2>1. ThresholdFor(flush[f].signal) \in Thresholds \cup {"none"}
        BY DEF CapTypeOK, ThresholdFor, Thresholds
    <2> QED
        BY <1>7, <2>1, ZenonT(60) DEF CapTypeOK, Judge, NoFlush, Signals
<1>8. ASSUME NEW f \in Flushes, Claim(f) PROVE CapTypeOK'
    <2>1. flush[f].signal \in Thresholds
        BY <1>8 DEF StageInv, Claim
    <2> QED
        BY <1>8, <2>1, SMTT(30) DEF CapTypeOK, Claim, NoFlush, Signals
<1>9. ASSUME NEW f \in Flushes, LookupFailed(f) PROVE CapTypeOK'
    <2>1. {lost', stale'} \subseteq BOOLEAN
        BY <1>9, Zenon DEF CapTypeOK, LookupFailed
    <2> QED
        BY <1>9, <2>1 DEF CapTypeOK, LookupFailed, Fails, NoFlush, Signals
<1>15. ASSUME NEW f \in Flushes, ClaimFailed(f) PROVE CapTypeOK'
    BY <1>15 DEF CapTypeOK, ClaimFailed, Fails, NoFlush, Signals
<1>10. ASSUME NEW f \in Flushes, SendMail(f) \/ SendFailed(f) PROVE CapTypeOK'
    BY <1>10 DEF CapTypeOK, SendMail, SendFailed, Fails, NoFlush, Signals
<1>11. ASSUME NEW s \in Servers, Stop(s) PROVE CapTypeOK'
    BY <1>11 DEF CapTypeOK, Stop, Fails, NoEntry, NoCall, NoFlush, Signals
<1>12. ASSUME ZeroCounters PROVE CapTypeOK'
    <2>1. {lost', stale'} \subseteq BOOLEAN
        BY <1>12, Zenon DEF CapTypeOK, ZeroCounters
    <2>2. used' \in 0..(Cap + Cardinality(Requests))
        BY <1>12 DEF ZeroCounters
    <2> QED
        BY <1>12, <2>1, <2>2 DEF CapTypeOK, ZeroCounters
<1>13. ASSUME ReleaseClaims PROVE CapTypeOK'
    BY <1>13 DEF CapTypeOK, StageInv, ReleaseClaims, ReleasedClaims
<1>14. ASSUME UNCHANGED capVars PROVE CapTypeOK'
    BY <1>14 DEF CapTypeOK, capVars
<1> QED
    BY <1>1, <1>2, <1>3, <1>4, <1>5, <1>6, <1>7, <1>8, <1>9, <1>10, <1>11, <1>12, <1>13, <1>14, <1>15
    DEF CapNext

-----------------------------------------------------------------------------
(* What is spent.                                                          *)

LEMMA SpendStep == CapTypeOK /\ SpendInv /\ [CapNext]_capVars => SpendInv'
<1> SUFFICES ASSUME CapTypeOK, SpendInv, [CapNext]_capVars PROVE SpendInv'
    OBVIOUS
<1>0. /\ Cap \in Nat /\ Cap > 0 /\ used \in Nat
      /\ Working \in SUBSET Requests /\ Working' \in SUBSET Requests
    BY CapAssumption DEF CapTypeOK, Working
<1>1. ASSUME used' = used, Working' \subseteq Working PROVE SpendInv'
    <2>1. Cardinality(Working') <= Cardinality(Working)
        BY <1>0, <1>1, RequestsCount, FS_Subset
    <2> QED
        BY <1>0, <1>1, <2>1, RequestsCount DEF SpendInv
<1>2. ASSUME NEW q \in Requests, NEW s \in Servers, AssertWithinCap(q, s) PROVE SpendInv'
    <2>1. CASE used >= Cap
        BY <1>1, <1>2, <2>1 DEF AssertWithinCap, Working, CapTypeOK
    <2>2. CASE used < Cap
        <3>1. used' < Cap /\ used' \in Nat
            BY <1>0, <1>2, <2>2 DEF AssertWithinCap
        <3> QED
            BY <1>0, <3>1, RequestsCount DEF SpendInv
    <2> QED
        BY <1>0, <2>1, <2>2
<1>3. ASSUME NEW q \in Requests, RecordUsage(q) PROVE SpendInv'
    <2>1. q \in Working /\ Working' = Working \ {q} /\ used' = used + 1
        BY <1>3 DEF RecordUsage, Working, CapTypeOK
    <2>2. Cardinality(Working') = Cardinality(Working) - 1
        BY <1>0, <2>1, RequestsCount, FS_RemoveElement
    <2> QED
        BY <1>0, <2>1, <2>2, RequestsCount DEF SpendInv
<1>4. ASSUME NEW q \in Requests, Refuse(q) \/ NoteRecorded(q) \/ RecordFailed(q) PROVE SpendInv'
    BY <1>1, <1>4 DEF Refuse, NoteRecorded, RecordFailed, Working, NoCall, CapTypeOK
<1>5. ASSUME NEW f \in Flushes,
             \/ \E s \in Servers : Fire(s, f)
             \/ Take(f) \/ Judge(f) \/ Claim(f) \/ LookupFailed(f) \/ ClaimFailed(f) \/ SendMail(f) \/ SendFailed(f)
      PROVE  SpendInv'
    BY <1>1, <1>5 DEF Fire, Take, Judge, Claim, LookupFailed, ClaimFailed, SendMail, SendFailed, Working
<1>6. ASSUME NEW s \in Servers, Stop(s) PROVE SpendInv'
    BY <1>1, <1>6 DEF Stop, Working, NoCall
<1>7. ASSUME ZeroCounters PROVE SpendInv'
    BY <1>0, <1>7, RequestsCount DEF ZeroCounters, SpendInv
<1>8. ASSUME ReleaseClaims \/ UNCHANGED capVars PROVE SpendInv'
    BY <1>1, <1>8 DEF ReleaseClaims, capVars, Working
<1> QED
    BY <1>2, <1>3, <1>4, <1>5, <1>6, <1>7, <1>8 DEF CapNext

-----------------------------------------------------------------------------
(* What is under way.                                                      *)

LEMMA StageStep == CapTypeOK /\ StageInv /\ [CapNext]_capVars => StageInv'
<1> SUFFICES ASSUME CapTypeOK, StageInv, [CapNext]_capVars PROVE StageInv'
    OBVIOUS
<1>1. ASSUME NEW q \in Requests,
             \/ \E s \in Servers : AssertWithinCap(q, s)
             \/ Refuse(q) \/ RecordUsage(q) \/ NoteRecorded(q) \/ RecordFailed(q)
      PROVE  StageInv'
    BY <1>1 DEF CapTypeOK, StageInv, AssertWithinCap, Refuse, RecordUsage, NoteRecorded,
                RecordFailed, NoCall
<1>2. ASSUME NEW f \in Flushes, NEW s \in Servers, Fire(s, f) PROVE StageInv'
    BY <1>2 DEF CapTypeOK, StageInv, Fire, NoFlush
<1>3. ASSUME NEW f \in Flushes, Take(f) PROVE StageInv'
    <2>1. entry[flush[f].server].signal \in Signals
        BY <1>3 DEF CapTypeOK, StageInv, Take
    <2> QED
        BY <1>3, <2>1 DEF CapTypeOK, StageInv, Take
<1>4. ASSUME NEW f \in Flushes, Judge(f) PROVE StageInv'
    <2>1. ThresholdFor(flush[f].signal) \in Thresholds \cup {"none"}
        BY DEF CapTypeOK, ThresholdFor, Thresholds
    <2> QED
        BY <1>4, <2>1 DEF CapTypeOK, StageInv, Judge, NoFlush
<1>5. ASSUME NEW f \in Flushes, Claim(f) \/ LookupFailed(f) \/ ClaimFailed(f) \/ SendMail(f) \/ SendFailed(f)
      PROVE  StageInv'
    BY <1>5 DEF CapTypeOK, StageInv, Claim, LookupFailed, ClaimFailed, SendMail, SendFailed, NoFlush
<1>6. ASSUME NEW s \in Servers, Stop(s) PROVE StageInv'
    BY <1>6 DEF CapTypeOK, StageInv, Stop, NoCall, NoFlush
<1>7. ASSUME ZeroCounters \/ ReleaseClaims \/ UNCHANGED capVars PROVE StageInv'
    BY <1>7 DEF StageInv, ZeroCounters, ReleaseClaims, capVars
<1> QED
    BY <1>1, <1>2, <1>3, <1>4, <1>5, <1>6, <1>7 DEF CapNext

-----------------------------------------------------------------------------
(* Mails.                                                                  *)

\* No mail is sent or begun, no claim is given back.
LEMMA MailsFewer ==
    ASSUME CapTypeOK, MailInv, CapTypeOK', mailed' = mailed, resets' = resets, claims \subseteq claims',
           \A t \in Thresholds : Mailing(t)' \subseteq Mailing(t)
    PROVE  MailInv'
<1> SUFFICES ASSUME NEW t \in Thresholds
             PROVE  /\ IsFiniteSet(Mailing(t)')
                    /\ mailed'[t] + Cardinality(Mailing(t)') + Unclaimed(t)' <= 1 + resets'
    BY DEF MailInv
<1>1. /\ IsFiniteSet(Mailing(t)') /\ Cardinality(Mailing(t)') <= Cardinality(Mailing(t))
      /\ Cardinality(Mailing(t)) \in Nat /\ Cardinality(Mailing(t)') \in Nat
    BY FS_Subset, FS_CardinalityType DEF MailInv
<1>2. Unclaimed(t)' <= Unclaimed(t) /\ Unclaimed(t) \in Nat /\ Unclaimed(t)' \in Nat
    BY DEF Unclaimed
<1>3. mailed[t] \in Nat /\ resets \in Nat
    BY CapAssumption DEF CapTypeOK
<1> QED
    BY <1>1, <1>2, <1>3 DEF MailInv

LEMMA MailStep == CapTypeOK /\ StageInv /\ MailInv /\ [CapNext]_capVars /\ CapTypeOK' => MailInv'
<1> SUFFICES ASSUME CapTypeOK, StageInv, MailInv, [CapNext]_capVars, CapTypeOK' PROVE MailInv'
    OBVIOUS
<1>0. /\ resets \in Nat
      /\ \A t \in Thresholds : /\ mailed[t] \in Nat /\ IsFiniteSet(Mailing(t))
                               /\ Cardinality(Mailing(t)) \in Nat
    BY CapAssumption, FS_CardinalityType DEF CapTypeOK, MailInv
<1>1. ASSUME NEW q \in Requests,
             \/ \E s \in Servers : AssertWithinCap(q, s)
             \/ Refuse(q) \/ RecordUsage(q) \/ NoteRecorded(q) \/ RecordFailed(q)
      PROVE  MailInv'
    BY <1>1, MailsFewer
    DEF AssertWithinCap, Refuse, RecordUsage, NoteRecorded, RecordFailed, Mailing
<1>2. ASSUME NEW f \in Flushes,
             \/ \E s \in Servers : Fire(s, f)
             \/ Take(f) \/ Judge(f) \/ LookupFailed(f) \/ ClaimFailed(f) \/ SendFailed(f)
      PROVE  MailInv'
    <2>1. mailed' = mailed /\ resets' = resets /\ claims' = claims
        BY <1>2 DEF Fire, Take, Judge, LookupFailed, ClaimFailed, SendFailed
    <2>2. flush'[f].at # "mail" /\ \A g \in Flushes \ {f} : flush'[g] = flush[g]
        <3>1. CASE \E s \in Servers : Fire(s, f)
            BY <3>1 DEF CapTypeOK, Fire, NoFlush
        <3>2. CASE Take(f)
            BY <3>2 DEF CapTypeOK, Take
        <3>3. CASE Judge(f)
            BY <3>3 DEF CapTypeOK, Judge, NoFlush
        <3>4. CASE LookupFailed(f) \/ ClaimFailed(f) \/ SendFailed(f)
            BY <3>4 DEF CapTypeOK, LookupFailed, ClaimFailed, SendFailed, NoFlush
        <3> QED
            BY <1>2, <3>1, <3>2, <3>3, <3>4
    <2>3. \A t \in Thresholds : Mailing(t)' \subseteq Mailing(t)
        BY <2>2 DEF Mailing
    <2> QED
        BY <2>1, <2>3, MailsFewer
<1>3. ASSUME NEW f \in Flushes, Claim(f) PROVE MailInv'
    <2>1. PICK t \in Thresholds : t = flush[f].signal
        BY <1>3 DEF StageInv, Claim
    <2>2. CASE t \in claims
        BY <1>3, <2>1, <2>2, MailsFewer DEF CapTypeOK, Claim, Claimable, Mailing, NoFlush
    <2>3. CASE t \notin claims
        <3>1. Mailing(t)' = Mailing(t) \cup {f} /\ f \notin Mailing(t)
            BY <1>3, <2>1, <2>3 DEF CapTypeOK, Claim, Claimable, Mailing
        <3>2. IsFiniteSet(Mailing(t)') /\ Cardinality(Mailing(t)') = Cardinality(Mailing(t)) + 1
            BY <1>0, <3>1, FS_AddElement
        <3>3. claims' = claims \cup {t} /\ mailed' = mailed /\ resets' = resets
            BY <1>3, <2>1 DEF Claim
        <3>4. ASSUME NEW u \in Thresholds, u # t
              PROVE  Mailing(u)' = Mailing(u) /\ Unclaimed(u)' = Unclaimed(u)
            BY <1>3, <2>1, <3>3, <3>4 DEF CapTypeOK, Claim, Mailing, Unclaimed, NoFlush
        <3>5. Unclaimed(t) = 1 /\ Unclaimed(t)' = 0
            BY <2>3, <3>3 DEF Unclaimed
        <3>6. mailed'[t] + Cardinality(Mailing(t)') + Unclaimed(t)' <= 1 + resets'
            BY <1>0, <3>2, <3>3, <3>5 DEF MailInv
        <3> QED
            BY <3>2, <3>3, <3>4, <3>6 DEF MailInv
    <2> QED
        BY <2>2, <2>3
<1>4. ASSUME NEW f \in Flushes, SendMail(f) PROVE MailInv'
    <2>1. PICK t \in Thresholds : t = flush[f].signal
        BY <1>4 DEF StageInv, SendMail
    <2>2. /\ mailed' = [mailed EXCEPT ![t] = @ + 1] /\ flush' = [flush EXCEPT ![f] = NoFlush]
          /\ claims' = claims /\ resets' = resets /\ flush[f].at = "mail"
        BY <1>4, <2>1 DEF SendMail
    <2>3. Mailing(t)' = Mailing(t) \ {f} /\ f \in Mailing(t)
        BY <2>1, <2>2 DEF CapTypeOK, Mailing, NoFlush
    <2>4. IsFiniteSet(Mailing(t)') /\ Cardinality(Mailing(t)') = Cardinality(Mailing(t)) - 1
        BY <1>0, <2>3, FS_RemoveElement
    <2>5. ASSUME NEW u \in Thresholds, u # t
          PROVE  Mailing(u)' = Mailing(u) /\ mailed'[u] = mailed[u]
        BY <2>1, <2>2, <2>5 DEF CapTypeOK, Mailing, NoFlush
    <2>6. mailed'[t] = mailed[t] + 1
        BY <2>2 DEF CapTypeOK
    <2>7. \A u \in Thresholds : Unclaimed(u)' = Unclaimed(u) /\ Unclaimed(u) \in Nat
        BY <2>2 DEF Unclaimed
    <2>8. mailed'[t] + Cardinality(Mailing(t)') + Unclaimed(t)' <= 1 + resets'
        BY <1>0, <2>2, <2>4, <2>6, <2>7 DEF MailInv
    <2> QED
        BY <2>2, <2>4, <2>5, <2>7, <2>8 DEF MailInv
<1>5. ASSUME NEW s \in Servers, Stop(s) PROVE MailInv'
    BY <1>5, MailsFewer DEF Stop, Mailing, NoFlush
<1>6. ASSUME ReleaseClaims PROVE MailInv'
    <2>1. \A t \in Thresholds : /\ Mailing(t)' = Mailing(t)
                                /\ Unclaimed(t)' <= 1 + Unclaimed(t)
                                /\ Unclaimed(t) \in Nat /\ Unclaimed(t)' \in Nat
        BY <1>6 DEF ReleaseClaims, Mailing, Unclaimed
    <2>2. mailed' = mailed /\ resets' = resets + 1
        BY <1>6 DEF ReleaseClaims
    <2> QED
        BY <1>0, <2>1, <2>2 DEF MailInv
<1>7. ASSUME ZeroCounters \/ UNCHANGED capVars PROVE MailInv'
    BY <1>7, MailsFewer DEF ZeroCounters, capVars, Mailing
<1> QED
    BY <1>1, <1>2, <1>3, <1>4, <1>5, <1>6, <1>7 DEF CapNext

-----------------------------------------------------------------------------
(* Claims.                                                                 *)

LEMMA CurrentStep == CapTypeOK /\ StageInv /\ CurrentInv /\ [CapNext]_capVars => CurrentInv'
<1> SUFFICES ASSUME CapTypeOK, StageInv, CurrentInv, [CapNext]_capVars, ~stale' PROVE Truthful'
    BY DEF CurrentInv
<1> USE DEF CapTypeOK, Truthful
<1>0. Cap \in Nat /\ Warn \in 1..Cap /\ used \in Nat
    BY CapAssumption
<1>1. ASSUME ~stale PROVE Truthful
    BY <1>1 DEF CurrentInv
<1>2. ASSUME NEW q \in Requests, NEW s \in Servers, AssertWithinCap(q, s) PROVE Truthful'
    BY <1>0, <1>1, <1>2 DEF AssertWithinCap
<1>3. ASSUME NEW q \in Requests, Refuse(q) \/ NoteRecorded(q) PROVE Truthful'
    <2>1. PICK s \in Servers : s = request[q].server
        BY <1>3 DEF StageInv, Refuse, NoteRecorded
    <2>2. Truthful
        BY <1>1, <1>3 DEF Refuse, NoteRecorded
    <2>3. entry'[s].signal = "reached" => used >= Cap
        BY <1>3, <2>1, <2>2 DEF Refuse, NoteRecorded, NoteCapCrossing, Superseding
    <2>4. \A x \in Servers \ {s} : entry'[x] = entry[x]
        BY <1>3, <2>1 DEF Refuse, NoteRecorded, NoteCapCrossing
    <2>5. \A x \in Requests : request'[x].at = "refusing" => request[x].at = "refusing"
        BY <1>3 DEF Refuse, NoteRecorded, NoCall
    <2>6. UNCHANGED <<used, claims, flush, reset>>
        BY <1>3 DEF Refuse, NoteRecorded
    <2> QED
        BY <2>2, <2>3, <2>4, <2>5, <2>6
<1>4. ASSUME NEW q \in Requests, RecordUsage(q) PROVE Truthful'
    <2>1. Truthful
        BY <1>1, <1>4 DEF RecordUsage
    <2>2. used' = used + 1 /\ UNCHANGED <<claims, entry, flush, reset>>
        BY <1>4 DEF RecordUsage
    <2>3. \A x \in Requests : request'[x].at = "refusing" => request[x].at = "refusing"
        BY <1>4 DEF RecordUsage
    <2> QED
        BY <1>0, <2>1, <2>2, <2>3
<1>5. ASSUME NEW q \in Requests, RecordFailed(q) PROVE Truthful'
    BY <1>1, <1>5 DEF RecordFailed, NoCall
<1>6. ASSUME NEW f \in Flushes, NEW s \in Servers, Fire(s, f) PROVE Truthful'
    BY <1>1, <1>6 DEF Fire, NoFlush
<1>7. ASSUME NEW f \in Flushes, Take(f) PROVE Truthful'
    <2>1. PICK s \in Servers : s = flush[f].server
        BY <1>7 DEF StageInv, Take
    <2>2. Truthful
        BY <1>1, <1>7 DEF Take
    <2>3. entry' = [entry EXCEPT ![s] = NoEntry]
        BY <1>7, <2>1 DEF Take, TakePending
    <2>4. flush' = [flush EXCEPT ![f].at = "judge", ![f].signal = entry[s].signal]
        BY <1>7, <2>1 DEF Take
    <2>5. entry[s].signal # "approaching"
        BY DEF Signals
    <2>6. UNCHANGED <<used, claims, request, reset>>
        BY <1>7 DEF Take
    <2> QED
        BY <2>2, <2>3, <2>4, <2>5, <2>6 DEF NoEntry
<1>8. ASSUME NEW f \in Flushes, Judge(f) PROVE Truthful'
    <2>1. PICK t : t = ThresholdFor(flush[f].signal)
        OBVIOUS
    <2>2. Truthful /\ flush[f].at = "judge" /\ UNCHANGED <<used, claims, entry, request, reset>>
        BY <1>1, <1>8 DEF Judge
    <2>3. (t = "reached" => used >= Cap) /\ (t = "approaching" => used >= Warn)
        BY <1>0, <2>1, <2>2 DEF ThresholdFor
    <2>4. flush' = [flush EXCEPT ![f] = IF t = "none" \/ (t = "approaching" /\ muted) THEN NoFlush
                                        ELSE [@ EXCEPT !.at = "claim", !.signal = t]]
        BY <1>8, <2>1 DEF Judge
    <2>5. flush'[f].at \in {"judge", "claim"} => flush'[f].signal = t
        BY <2>4 DEF NoFlush
    <2>6. \A g \in Flushes \ {f} : flush'[g] = flush[g]
        BY <2>4
    <2> QED
        BY <2>2, <2>3, <2>5, <2>6
<1>9. ASSUME NEW f \in Flushes, Claim(f) PROVE Truthful'
    <2>1. Truthful /\ flush[f].at = "claim"
        BY <1>1, <1>9 DEF Claim
    <2>2. \A g \in Flushes : flush'[g].at \in {"judge", "claim"} => flush'[g] = flush[g]
        BY <1>9 DEF Claim, NoFlush
    <2>3. claims' = claims \cup {flush[f].signal}
        BY <1>9 DEF Claim
    <2>4. UNCHANGED <<used, entry, request, reset>>
        BY <1>9 DEF Claim
    <2> QED
        BY <2>1, <2>2, <2>3, <2>4
<1>10. ASSUME NEW f \in Flushes, LookupFailed(f) \/ ClaimFailed(f) \/ SendMail(f) \/ SendFailed(f) PROVE Truthful'
    <2>1. Truthful /\ UNCHANGED <<used, claims, entry, request, reset>>
        BY <1>1, <1>10 DEF LookupFailed, ClaimFailed, SendMail, SendFailed
    <2>2. \A g \in Flushes : flush'[g].at \in {"judge", "claim"} => flush'[g] = flush[g]
        BY <1>10 DEF LookupFailed, ClaimFailed, SendMail, SendFailed, NoFlush
    <2> QED
        BY <2>1, <2>2
<1>11. ASSUME NEW s \in Servers, Stop(s) PROVE Truthful'
    BY <1>1, <1>11 DEF Stop, NoEntry, NoCall, NoFlush
<1>12. ASSUME ZeroCounters PROVE Truthful'
    <2>1. ~Busy
        BY <1>12, Zenon DEF ZeroCounters
    <2>2. UNCHANGED <<entry, request, flush>> /\ reset' = "zeroed"
        BY <1>12 DEF ZeroCounters
    <2>3. /\ \A q \in Requests : request[q].at = "idle"
          /\ \A f \in Flushes : flush[f].at = "idle"
          /\ \A s \in Servers : entry[s].signal = "none"
        BY <2>1 DEF Busy, NoEntry
    <2> QED
        BY <2>2, <2>3
<1>13. ASSUME ReleaseClaims PROVE Truthful'
    BY <1>1, <1>13 DEF ReleaseClaims, ReleasedClaims
<1>14. ASSUME UNCHANGED capVars PROVE Truthful'
    BY <1>1, <1>14 DEF capVars
<1> QED
    BY <1>2, <1>3, <1>4, <1>5, <1>6, <1>7, <1>8, <1>9, <1>10, <1>11, <1>12, <1>13, <1>14
    DEF CapNext

-----------------------------------------------------------------------------
(* The queue.                                                              *)

\* A flush about to take its server's entry goes on being that, or the entry went.
LEMMA QueueKept ==
    ASSUME QueueInv, CapTypeOK,
           \A s \in Servers :
             \/ entry'[s] = entry[s] /\ \A f \in Flushes :
                    flush[f].at = "take" /\ flush[f].server = s => flush'[f] = flush[f]
             \/ entry'[s] = NoEntry
    PROVE  QueueInv'
BY DEF QueueInv, NoEntry

LEMMA QueueStep == CapTypeOK /\ StageInv /\ QueueInv /\ [CapNext]_capVars => QueueInv'
<1> SUFFICES ASSUME CapTypeOK, StageInv, QueueInv, [CapNext]_capVars PROVE QueueInv'
    OBVIOUS
<1>1. ASSUME NEW q \in Requests,
             (\E s \in Servers : AssertWithinCap(q, s)) \/ RecordUsage(q) \/ RecordFailed(q)
      PROVE  QueueInv'
    BY <1>1, QueueKept DEF AssertWithinCap, RecordUsage, RecordFailed
<1>2. ASSUME NEW q \in Requests, Refuse(q) \/ NoteRecorded(q) PROVE QueueInv'
    <2>1. PICK s \in Servers : s = request[q].server
        BY <1>2 DEF StageInv, Refuse, NoteRecorded
    <2>2. flush' = flush /\ \A x \in Servers \ {s} : entry'[x] = entry[x]
        BY <1>2, <2>1 DEF CapTypeOK, Refuse, NoteRecorded, NoteCapCrossing
    <2>3. entry'[s].timer = Armed(entry[s].timer)
        BY <1>2, <2>1 DEF CapTypeOK, Refuse, NoteRecorded, NoteCapCrossing
    <2> QED
        BY <2>2, <2>3 DEF QueueInv, Armed
<1>3. ASSUME NEW f \in Flushes, NEW s \in Servers, Fire(s, f) PROVE QueueInv'
    <2>1. flush'[f].at = "take" /\ flush'[f].server = s
        BY <1>3 DEF CapTypeOK, Fire, NoFlush
    <2>2. \A g \in Flushes \ {f} : flush'[g] = flush[g]
        BY <1>3 DEF CapTypeOK, Fire
    <2>3. flush[f].at = "idle" /\ entry'[s].timer = "fired"
        BY <1>3 DEF CapTypeOK, Fire
    <2>4. \A x \in Servers \ {s} : entry'[x] = entry[x]
        BY <1>3 DEF CapTypeOK, Fire
    <2> QED
        BY <2>1, <2>2, <2>3, <2>4 DEF QueueInv
<1>4. ASSUME NEW f \in Flushes, Take(f) PROVE QueueInv'
    <2>1. \A g \in Flushes \ {f} : flush'[g] = flush[g]
        BY <1>4 DEF CapTypeOK, Take
    <2>2. /\ entry'[flush[f].server] = NoEntry
          /\ \A x \in Servers \ {flush[f].server} : entry'[x] = entry[x]
        BY <1>4 DEF CapTypeOK, StageInv, Take, TakePending
    <2> QED
        BY <2>1, <2>2, QueueKept
<1>5. ASSUME NEW f \in Flushes,
             Judge(f) \/ Claim(f) \/ LookupFailed(f) \/ ClaimFailed(f) \/ SendMail(f) \/ SendFailed(f)
      PROVE  QueueInv'
    <2>1. entry' = entry /\ flush[f].at # "take"
        BY <1>5 DEF Judge, Claim, LookupFailed, ClaimFailed, SendMail, SendFailed
    <2>2. \A g \in Flushes \ {f} : flush'[g] = flush[g]
        BY <1>5 DEF CapTypeOK, Judge, Claim, LookupFailed, ClaimFailed, SendMail, SendFailed
    <2> QED
        BY <2>1, <2>2, QueueKept
<1>6. ASSUME NEW s \in Servers, Stop(s) PROVE QueueInv'
    BY <1>6, QueueKept DEF CapTypeOK, Stop
<1>7. ASSUME ZeroCounters \/ ReleaseClaims \/ UNCHANGED capVars PROVE QueueInv'
    BY <1>7, QueueKept DEF ZeroCounters, ReleaseClaims, capVars
<1> QED
    BY <1>1, <1>2, <1>3, <1>4, <1>5, <1>6, <1>7 DEF CapNext

-----------------------------------------------------------------------------
(* Theorems.                                                               *)

\* Every reachable state of the queues, calls and claims satisfies the invariant.
THEOREM CapInvariance == CapSpec => []CapIInv
<1>1. CapIInv /\ [CapNext]_capVars => CapIInv'
    BY TypeStep, SpendStep, StageStep, MailStep, CurrentStep, QueueStep DEF CapIInv
<1> QED
    BY CapInitIInv, <1>1, PTL DEF CapSpec

\* However many calls cross a threshold at once, one mail goes out for it, and one
\* more for each reset (claimNotification).
THEOREM MailsAreOnePerCrossing == CapSpec => []OneMailPerCrossing
<1>1. CapIInv => OneMailPerCrossing
    <2> SUFFICES ASSUME CapIInv, NEW t \in Thresholds PROVE mailed[t] <= 1 + resets
        BY DEF CapIInv, OneMailPerCrossing
    <2>1. Cardinality(Mailing(t)) \in Nat /\ Unclaimed(t) \in Nat
        BY FS_CardinalityType DEF CapIInv, MailInv, Unclaimed
    <2> QED
        BY <2>1, CapAssumption DEF CapIInv, CapTypeOK, MailInv
<1> QED
    BY <1>1, CapInvariance, PTL

\* A claim stands for an allowance that is spent now, unless a reset met a signal
\* in progress (resetPeriodUsage).
THEOREM ClaimsStayCurrent == CapSpec => []ClaimsAreCurrent
<1>1. CapIInv => ClaimsAreCurrent
    BY DEF CapIInv, CurrentInv, Truthful, ClaimsAreCurrent
<1> QED
    BY <1>1, CapInvariance, PTL

\* What is queued has an armed timer or a flush about to take it (noteCapCrossing).
THEOREM QueuedSignalsAreTimed == CapSpec => []QueuedIsTimed
<1>1. CapIInv => QueuedIsTimed
    BY DEF CapIInv, CapTypeOK, QueueInv, QueuedIsTimed
<1> QED
    BY <1>1, CapInvariance, PTL
=============================================================================
