----------------------------- MODULE BillingEvents -----------------------------
(***************************************************************************)
(* The webhooks of the billing provider and what one account makes of them   *)
(* (routes/billing.ts, billing/subscription.ts), together with a change of   *)
(* plan made from the application (actions/billing.ts).                     *)
(*                                                                         *)
(* The provider keeps a history of subscription states.  Each is an event   *)
(* that is delivered until it is acknowledged: any number of times, in any  *)
(* order, to handlers that run concurrently.  A handler reads the account's *)
(* row, decides, writes the row and then writes the account, each with an    *)
(* await of its own.                                                       *)
(*                                                                         *)
(* Checkout puts the account's id in the subscription's metadata, so an      *)
(* event always names the account; attribution by reference is left out.    *)
(***************************************************************************)
EXTENDS Integers, Sequences, FiniteSets

CONSTANTS
    Handlers,      \* deliveries that can be in progress at once
    Subscriptions, \* subscriptions the account buys, one after the other: 1..n
    PaidTiers,     \* the tiers a subscription can be on, cheapest first
    PerSecond,     \* clock ticks in a second, the provider's resolution
    OldChanges,    \* whether a replaced subscription still changes before it ends
    MaxEvents,     \* bound: length of the provider's history
    MaxLocal,      \* bound: changes of plan made in the application
    MaxFailures,   \* bound: handlers that fail half-way (error or restart)
    MaxTogether    \* bound: all of these together

Statuses == {"active", "past_due", "canceled"}
Free == 0
Tiers == PaidTiers \union {Free}
Local == 0   \* the handler that is the application's own change of plan

ASSUME TiersAssumption == PaidTiers \subseteq Nat \ {Free}
ASSUME BillingAssumption ==
    /\ Local \notin Handlers
    /\ Subscriptions \subseteq Nat
    /\ PerSecond \in Nat \ {0}
    /\ OldChanges \in BOOLEAN
    /\ {MaxEvents, MaxLocal, MaxFailures, MaxTogether} \subseteq Nat

VARIABLES
    history,  \* the provider's states: what each event's snapshot says
    now,      \* the clock, in ticks
    acked,    \* events answered 2xx
    row,      \* the Subscription row, or NoRow
    planTier, \* user.planTier
    work,     \* [Handlers \union {Local} -> ...] what each is doing
    local,    \* changes of plan made so far
    failures, \* handlers that failed so far
    amiss     \* history: what two events or two handlers have done to each other

vars == <<history, now, acked, row, planTier, work, local, failures, amiss>>

Events == 1..Len(history)
NoRow == [version |-> 0]
Resting == [at |-> "rest"]

\* A row that was not the one read is overwritten; the row is written while
\* another handler is between its two writes; an event replaces one of the
\* same second.
Mishaps == {"overwrote", "crossed", "tied"}

State == [sub : Subscriptions, status : Statuses, tier : PaidTiers, at : Nat]

TypeOK ==
    /\ history \in Seq(State)
    /\ now \in Nat
    /\ acked \subseteq Events
    /\ row = NoRow \/ (/\ row.version \in Events /\ row.status \in Statuses
                       /\ row.sub \in Subscriptions /\ row.tier \in PaidTiers
                       /\ row.lastEventAt \in Nat)
    /\ planTier \in Tiers
    /\ \A h \in DOMAIN work : work[h].at \in {"rest", "asked", "read", "written"}
    /\ local \in 0..MaxLocal /\ failures \in 0..MaxFailures
    /\ amiss \subseteq Mishaps

Init ==
    /\ history = <<>>
    /\ now = 0
    /\ acked = {}
    /\ row = NoRow
    /\ planTier = Free
    /\ work = [h \in Handlers \union {Local} |-> Resting]
    /\ local = 0
    /\ failures = 0
    /\ amiss = {}

\* The bound on all of them.
MoreToCome == Len(history) + local + failures < MaxTogether

-----------------------------------------------------------------------------
(* The provider.                                                           *)

StatesOf(s) == {i \in Events : history[i].sub = s}
Bought == {s \in Subscriptions : StatesOf(s) # {}}
Latest(s) == history[CHOOSE i \in StatesOf(s) : \A j \in StatesOf(s) : j <= i]
Current == CHOOSE s \in Bought : \A t \in Bought : t <= s
Running(s) == s \in Bought /\ Latest(s).status # "canceled"

\* `created` is in whole seconds.
Second(tick) == (tick \div PerSecond) * PerSecond

\* Time passes with every change.
Changes(s, status, tier) ==
    /\ Len(history) < MaxEvents /\ MoreToCome
    /\ now' = now + 1
    /\ history' = Append(history, [sub |-> s, status |-> status, tier |-> tier,
                                   at |-> Second(now')])

\* Checkout: nothing prevents it while an earlier subscription runs.
Subscribe(s) ==
    /\ s \notin Bought
    /\ \A t \in Subscriptions : t < s => t \in Bought
    /\ \E tier \in PaidTiers : Changes(s, "active", tier)
    /\ UNCHANGED <<acked, row, planTier, work, local, failures, amiss>>

\* A payment fails or succeeds again, the price or the renewal is changed.
Update(s) ==
    /\ Running(s)
    /\ s = Current \/ OldChanges
    /\ \E status \in {"active", "past_due"}, tier \in PaidTiers :
          Changes(s, status, tier)
    /\ UNCHANGED <<acked, row, planTier, work, local, failures, amiss>>

Cancel(s) ==
    /\ Running(s)
    /\ Changes(s, "canceled", Latest(s).tier)
    /\ UNCHANGED <<acked, row, planTier, work, local, failures, amiss>>

-----------------------------------------------------------------------------
(* applyBillingEvent.                                                      *)

tierForStatus(status, tier) == IF status = "canceled" THEN Free ELSE tier

EntitledBy(i) == tierForStatus(history[i].status, history[i].tier)

\* A handler at work: the event, its identity and time, and the row it read.
Reading(v, id, at) ==
    [at |-> "read", version |-> v, id |-> id, occurredAt |-> at, existing |-> row]

\* findOne: the route has parsed and verified the delivery.
Deliver(h) ==
    /\ work[h] = Resting /\ h # Local
    /\ \E i \in Events \ acked :
          work' = [work EXCEPT ![h] = Reading(i, i, history[i].at)]
    /\ UNCHANGED <<history, now, acked, row, planTier, local, failures, amiss>>

\* Already acknowledged deliveries may still be repeated.
Redeliver(h) ==
    /\ work[h] = Resting /\ h # Local
    /\ \E i \in acked :
          work' = [work EXCEPT ![h] = Reading(i, i, history[i].at)]
    /\ UNCHANGED <<history, now, acked, row, planTier, local, failures, amiss>>

Duplicate(w) == w.existing # NoRow /\ w.existing.lastEventId = w.id

\* Mutant: the time of the event is not compared.
StaleNever(w) == FALSE

Stale(w) == w.existing # NoRow /\ w.occurredAt < w.existing.lastEventAt

Superseded(w) ==
    /\ w.existing # NoRow
    /\ w.existing.sub # history[w.version].sub
    /\ history[w.version].status = "canceled"

Skipped(w) == Duplicate(w) \/ Stale(w) \/ Superseded(w)

Answered(h) == IF h = Local THEN acked ELSE acked \union {work[h].id}

\* Mutant: an event that is not applied is answered with an error.
SkipUnanswered(h) ==
    /\ work[h].at = "read"
    /\ Skipped(work[h])
    /\ work' = [work EXCEPT ![h] = Resting]
    /\ UNCHANGED <<history, now, acked, row, planTier, local, failures, amiss>>

\* Answered 2xx and not applied.
Skip(h) ==
    /\ work[h].at = "read"
    /\ Skipped(work[h])
    /\ work' = [work EXCEPT ![h] = Resting]
    /\ acked' = Answered(h)
    /\ UNCHANGED <<history, now, row, planTier, local, failures, amiss>>

\* What comes of it that nothing made the read and the two writes one step.
Mishap(h) ==
    {k \in Mishaps :
        \/ k = "overwrote" /\ work[h].existing # row
        \/ k = "crossed" /\ \E g \in DOMAIN work \ {h} : work[g].at = "written"
        \/ k = "tied" /\ work[h].existing # NoRow
                      /\ work[h].occurredAt = work[h].existing.lastEventAt}

\* The upsert keyed on the user; what was read is not asked again.
WriteRow(h) ==
    /\ work[h].at = "read"
    /\ ~Skipped(work[h])
    /\ LET w == work[h]
           s == history[w.version]
       IN  row' = [version |-> w.version, sub |-> s.sub, status |-> s.status,
                   tier |-> s.tier, lastEventId |-> w.id,
                   lastEventAt |-> w.occurredAt]
    /\ work' = [work EXCEPT ![h].at = "written"]
    /\ amiss' = amiss \union Mishap(h)
    /\ UNCHANGED <<history, now, acked, planTier, local, failures>>

\* Mutant: the snapshot's tier is written whatever its status.
WriteTierUngated(h) ==
    /\ work[h].at = "written"
    /\ planTier' = history[work[h].version].tier
    /\ work' = [work EXCEPT ![h] = Resting]
    /\ acked' = Answered(h)
    /\ UNCHANGED <<history, now, row, local, failures, amiss>>

WriteTier(h) ==
    /\ work[h].at = "written"
    /\ planTier' = EntitledBy(work[h].version)
    /\ work' = [work EXCEPT ![h] = Resting]
    /\ acked' = Answered(h)
    /\ UNCHANGED <<history, now, row, local, failures, amiss>>

\* The database or the process fails: no answer, so the provider retries.
Fail(h) ==
    /\ work[h] # Resting
    /\ failures < MaxFailures /\ MoreToCome
    /\ failures' = failures + 1
    /\ work' = [work EXCEPT ![h] = Resting]
    /\ UNCHANGED <<history, now, acked, row, planTier, local, amiss>>

-----------------------------------------------------------------------------
(* billing.change: the provider changes the plan, its answer is applied.    *)
(* Only downwards; moving to free leaves the plan as it is until the paid   *)
(* period ends, which is a change of the subscription all the same.         *)

ChangeTier ==
    /\ work[Local] = Resting
    /\ local < MaxLocal
    /\ row # NoRow /\ row.status # "canceled" /\ Running(row.sub)
    /\ \E tier \in Tiers :
          /\ tier < planTier
          /\ Changes(row.sub, Latest(row.sub).status,
                     IF tier = Free THEN Latest(row.sub).tier ELSE tier)
    /\ work' = [work EXCEPT ![Local] = [at |-> "asked", version |-> Len(history')]]
    /\ local' = local + 1
    /\ UNCHANGED <<acked, row, planTier, failures, amiss>>

\* applySubscriptionSnapshot: the event is identified and dated here.
ApplySnapshot ==
    /\ work[Local].at = "asked"
    /\ now' = now + 1
    /\ work' = [work EXCEPT ![Local] = Reading(work[Local].version, -now', now')]
    /\ UNCHANGED <<history, acked, row, planTier, local, failures, amiss>>

-----------------------------------------------------------------------------

ProviderStep ==
    \E s \in Subscriptions : Subscribe(s) \/ Update(s) \/ Cancel(s)

Finish(h) == Skip(h) \/ WriteRow(h) \/ WriteTier(h)

Next ==
    \/ ProviderStep
    \/ \E h \in Handlers \union {Local} : Finish(h) \/ Fail(h)
    \/ \E h \in Handlers : Deliver(h) \/ Redeliver(h)
    \/ ChangeTier \/ ApplySnapshot

Spec == Init /\ [][Next]_vars

\* The provider delivers each event until it is answered, and a promise settles.
Fairness ==
    /\ \A h \in Handlers \union {Local} : WF_vars(Finish(h))
    /\ \A i \in 1..MaxEvents :
          SF_vars(\E h \in Handlers : Deliver(h) /\ work'[h].id = i)

FairSpec == Spec /\ Fairness

-----------------------------------------------------------------------------
(* Properties.                                                             *)

\* Nothing left to deliver and no handler at work.
Quiet == acked = Events /\ \A h \in DOMAIN work : work[h] = Resting

\* The account and its row agree once everything has been answered: "a tier
\* that disagrees with what the user is paying for is either free service or
\* a false refusal" (applyBillingEvent, which writes the two one after the
\* other).
TierMatchesRow ==
    Quiet /\ row # NoRow => planTier = tierForStatus(row.status, row.tier)

\* The same as long as every handler runs to its end and none wrote the row
\* while another was between its two writes: no order, repetition or
\* replacement of a subscription, no change of plan made in the application
\* and no row read before another handler wrote it leaves the two apart.
TierMatchesRowIfServed ==
    failures = 0 /\ "crossed" \notin amiss => TypeOK /\ TierMatchesRow

\* The row moves only forward through the provider's history, whatever is
\* repeated or arrives out of order ("discarded rather than applied twice or
\* backwards").  Until a handler overwrites a row it had not read, two events
\* of one second are both applied, or the application itself changes the plan:
\* from then on the account is past every version.
Followed ==
    IF local = 0 /\ amiss \intersect {"overwrote", "tied"} = {}
      THEN row.version ELSE MaxEvents + 1
History == INSTANCE EntitlementHistory WITH version <- Followed
FollowsHistory == History!Spec

\* When everything has been delivered the account is on what the provider's
\* last word about its subscription entitles it to, however deliveries were
\* repeated, reordered and handled at once.  One subscription, no failed
\* handler, no change of plan made in the application, and nothing amiss.
SettlesOnTheTruth ==
    Quiet /\ Cardinality(Bought) = 1 /\ failures = 0 /\ local = 0 /\ amiss = {} =>
        planTier = tierForStatus(Latest(Current).status, Latest(Current).tier)

\* Every event is answered at last: nothing is retried for ever, not even what
\* is never applied ("must not be retried forever", routes/billing.ts).
EveryEventAnswered == \A i \in 1..MaxEvents : i \in Events ~> i \in acked

=============================================================================
