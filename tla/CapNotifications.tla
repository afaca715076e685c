-------------------------- MODULE CapNotifications --------------------------
(***************************************************************************)
(* Telling an account that it is nearly out of an allowance, or out of it   *)
(* (billing/cap-queue.ts, billing/cap-notifications.ts,                     *)
(* models/notification-log.ts, and the metering of billing/usage.ts).       *)
(* Metered calls queue signals in the memory of their server; a timer       *)
(* flushes them; a row with a unique index is claimed before the mail is    *)
(* sent; an administrator's reset gives the allowance back and deletes the  *)
(* claims.  One account, one metric and one billing period.                 *)
(***************************************************************************)
EXTENDS Integers, FiniteSets

CONSTANTS Servers,      \* processes, each with a queue of its own
          Requests,     \* metered calls that may be in progress at once
          Flushes,      \* flushes that may be in progress at once
          Cap,          \* the allowance, in units of one call
          Warn,         \* where "approaching" begins (USAGE_WARN_THRESHOLD of Cap)
          MaxResets,    \* bound: resets of a behaviour
          MaxFailed     \* bound: failed calls and stopped processes

ASSUME CapAssumption == /\ Cap \in Nat /\ Warn \in 1..Cap
                        /\ MaxResets \in Nat /\ MaxFailed \in Nat
                        /\ IsFiniteSet(Requests)

Thresholds == {"approaching", "reached"}
Signals == {"none", "check", "reached"}

VARIABLES
    used,       \* the account's counter
    claims,     \* the NotificationLog rows, by threshold
    muted,      \* notifyCapWarnings is off
    entry,      \* pending, per server: the metric's signal and its timer
    request,    \* metered calls
    flush,      \* flushes in progress (deliverPending)
    reset,      \* "idle", or "zeroed" between the reset's two writes
    resets, failed,
    mailed,     \* auxiliary: mails sent, by threshold
    lost,       \* auxiliary: a signal was lost with its server, its lookup or its claim
    stale       \* auxiliary: a reset met a call or a signal in progress

capVars == <<used, claims, muted, entry, request, flush, reset, resets, failed,
          mailed, lost, stale>>

NoEntry == [signal |-> "none", timer |-> "none"]
NoCall == [at |-> "idle", server |-> "none"]
NoFlush == [at |-> "idle", server |-> "none", signal |-> "none"]

CapTypeOK ==
    /\ used \in 0..(Cap + Cardinality(Requests))
    /\ claims \subseteq Thresholds
    /\ muted \in BOOLEAN
    /\ entry \in [Servers -> [signal : Signals, timer : {"none", "armed", "fired"}]]
    /\ request \in [Requests -> [at : {"idle", "refusing", "working", "recorded"},
                                 server : Servers \cup {"none"}]]
    /\ flush \in [Flushes -> [at : {"idle", "take", "judge", "claim", "mail"},
                              server : Servers \cup {"none"},
                              signal : Signals \cup Thresholds]]
    /\ reset \in {"idle", "zeroed"}
    /\ resets \in 0..MaxResets /\ failed \in 0..MaxFailed
    /\ mailed \in [Thresholds -> Nat]
    /\ {lost, stale} \subseteq BOOLEAN

CapInit ==
    /\ used = 0 /\ claims = {} /\ muted \in BOOLEAN
    /\ entry = [s \in Servers |-> NoEntry]
    /\ request = [q \in Requests |-> NoCall]
    /\ flush = [f \in Flushes |-> NoFlush]
    /\ reset = "idle" /\ resets = 0 /\ failed = 0
    /\ mailed = [t \in Thresholds |-> 0]
    /\ lost = FALSE /\ stale = FALSE

-----------------------------------------------------------------------------
Fails == failed < MaxFailed /\ failed' = failed + 1

(* noteCapCrossing: "reached" supersedes, and one timer runs per entry. *)
Superseding(old, signal) == IF old = "reached" THEN old ELSE signal
Armed(timer) == IF timer = "none" THEN "armed" ELSE timer
NoteCapCrossing(s, signal) ==
    entry' = [entry EXCEPT ![s] = [signal |-> Superseding(entry[s].signal, signal),
                                   timer |-> Armed(entry[s].timer)]]

(* assertWithinCap reads the counter; what it read decides. *)
AssertWithinCap(q, s) ==
    /\ request[q].at = "idle"
    /\ request' = [request EXCEPT ![q] = [at |-> IF used >= Cap THEN "refusing" ELSE "working",
                                          server |-> s]]
    /\ UNCHANGED <<used, claims, muted, entry, flush, reset, resets, failed, mailed, lost, stale>>

Refuse(q) ==
    /\ request[q].at = "refusing"
    /\ NoteCapCrossing(request[q].server, "reached")
    /\ request' = [request EXCEPT ![q] = NoCall]
    /\ UNCHANGED <<used, claims, muted, flush, reset, resets, failed, mailed, lost, stale>>

(* recordUsage: the counter moves, then the signal is queued. *)
RecordUsage(q) ==
    /\ request[q].at = "working"
    /\ used' = used + 1
    /\ request' = [request EXCEPT ![q].at = "recorded"]
    /\ UNCHANGED <<claims, muted, entry, flush, reset, resets, failed, mailed, lost, stale>>

NoteRecorded(q) ==
    /\ request[q].at = "recorded"
    /\ NoteCapCrossing(request[q].server, "check")
    /\ request' = [request EXCEPT ![q] = NoCall]
    /\ UNCHANGED <<used, claims, muted, flush, reset, resets, failed, mailed, lost, stale>>

(* The work fails, or the count does: it is logged and nothing is queued. *)
RecordFailed(q) ==
    /\ request[q].at = "working" /\ Fails
    /\ request' = [request EXCEPT ![q] = NoCall]
    /\ UNCHANGED <<used, claims, muted, entry, flush, reset, resets, mailed, lost, stale>>

-----------------------------------------------------------------------------
(* The timer fires; the sender's module is loaded before it takes the entry. *)
Fire(s, f) ==
    /\ entry[s].timer = "armed" /\ flush[f].at = "idle"
    /\ entry' = [entry EXCEPT ![s].timer = "fired"]
    /\ flush' = [flush EXCEPT ![f] = [NoFlush EXCEPT !.at = "take", !.server = s]]
    /\ UNCHANGED <<used, claims, muted, request, reset, resets, failed, mailed, lost, stale>>

(* takePending: the entry goes before anything is awaited. *)
TakeSignalsOnly(s) == entry' = [entry EXCEPT ![s].signal = "none"]
TakePending(s) == entry' = [entry EXCEPT ![s] = NoEntry]
Take(f) ==
    /\ flush[f].at = "take"
    /\ LET s == flush[f].server IN
        /\ TakePending(s)
        /\ flush' = [flush EXCEPT ![f].at = "judge", ![f].signal = entry[s].signal]
    /\ UNCHANGED <<used, claims, muted, request, reset, resets, failed, mailed, lost, stale>>

(* thresholdFor, and the account's choice not to hear of "approaching". *)
ThresholdFor(signal) ==
    CASE signal = "reached" \/ used >= Cap -> "reached"
      [] signal # "reached" /\ used < Cap /\ used >= Warn -> "approaching"
      [] OTHER -> "none"
Judge(f) ==
    /\ flush[f].at = "judge"
    /\ LET t == ThresholdFor(flush[f].signal) IN
        flush' = [flush EXCEPT ![f] =
            IF t = "none" \/ (t = "approaching" /\ muted) THEN NoFlush
            ELSE [@ EXCEPT !.at = "claim", !.signal = t]]
    /\ UNCHANGED <<used, claims, muted, entry, request, reset, resets, failed, mailed, lost, stale>>

(* The account or its counter cannot be read: the flush ends, and what it    *)
(* took is no longer queued.                                               *)
LookupFailed(f) ==
    /\ flush[f].at = "judge" /\ Fails
    /\ flush' = [flush EXCEPT ![f] = NoFlush]
    /\ lost' = (lost \/ flush[f].signal = "reached")
    /\ UNCHANGED <<used, claims, muted, entry, request, reset, resets, mailed, stale>>

(* claimNotification: the insert of the row is refused where it exists. *)
ClaimableByAll(t) == t \in Thresholds
Claimable(t) == t \notin claims
Claim(f) ==
    /\ flush[f].at = "claim"
    /\ claims' = claims \cup {flush[f].signal}
    /\ flush' = [flush EXCEPT ![f] = IF Claimable(flush[f].signal) THEN [@ EXCEPT !.at = "mail"]
                                                                     ELSE NoFlush]
    /\ UNCHANGED <<used, muted, entry, request, reset, resets, failed, mailed, lost, stale>>
(* "A claim that errors is treated as lost." *)
ClaimFailed(f) ==
    /\ flush[f].at = "claim" /\ Fails
    /\ flush' = [flush EXCEPT ![f] = NoFlush]
    /\ lost' = TRUE
    /\ UNCHANGED <<used, claims, muted, entry, request, reset, resets, mailed, stale>>

SendMail(f) ==
    /\ flush[f].at = "mail"
    /\ mailed' = [mailed EXCEPT ![flush[f].signal] = @ + 1]
    /\ flush' = [flush EXCEPT ![f] = NoFlush]
    /\ UNCHANGED <<used, claims, muted, entry, request, reset, resets, failed, lost, stale>>
(* "The claim row stays, so this is not retried." *)
SendFailed(f) ==
    /\ flush[f].at = "mail" /\ Fails
    /\ flush' = [flush EXCEPT ![f] = NoFlush]
    /\ UNCHANGED <<used, claims, muted, entry, request, reset, resets, mailed, lost, stale>>

(* "A process that stops inside the window sends nothing." *)
Stop(s) ==
    /\ Fails
    /\ entry' = [entry EXCEPT ![s] = NoEntry]
    /\ request' = [q \in Requests |-> IF request[q].server = s THEN NoCall ELSE request[q]]
    /\ flush' = [f \in Flushes |-> IF flush[f].server = s THEN NoFlush ELSE flush[f]]
    /\ lost' = TRUE
    /\ UNCHANGED <<used, claims, muted, reset, resets, mailed, stale>>

-----------------------------------------------------------------------------
(* resetPeriodUsage, by an administrator: the counters, then the claims. *)
Busy == \/ \E q \in Requests : request[q].at # "idle"
        \/ \E f \in Flushes : flush[f].at # "idle"
        \/ \E s \in Servers : entry[s] # NoEntry

ZeroCounters ==
    /\ reset = "idle" /\ resets < MaxResets
    /\ used' = 0
    /\ reset' = "zeroed"
    /\ stale' = (stale \/ Busy)
    /\ UNCHANGED <<claims, muted, entry, request, flush, resets, failed, mailed, lost>>

ClaimsKept == claims
ReleasedClaims == {}
ReleaseClaims ==
    /\ reset = "zeroed"
    /\ claims' = ReleasedClaims
    /\ reset' = "idle" /\ resets' = resets + 1
    /\ UNCHANGED <<used, muted, entry, request, flush, failed, mailed, lost, stale>>

CapNext ==
    \/ \E q \in Requests :
        \/ \E s \in Servers : AssertWithinCap(q, s)
        \/ Refuse(q) \/ RecordUsage(q) \/ NoteRecorded(q) \/ RecordFailed(q)
    \/ \E f \in Flushes :
        \/ \E s \in Servers : Fire(s, f)
        \/ Take(f) \/ Judge(f) \/ LookupFailed(f) \/ Claim(f) \/ ClaimFailed(f)
        \/ SendMail(f) \/ SendFailed(f)
    \/ \E s \in Servers : Stop(s)
    \/ ZeroCounters \/ ReleaseClaims

CapSpec == CapInit /\ [][CapNext]_capVars

(* Timers fire, and every await of a flush is answered. *)
CapFairness == /\ \A f \in Flushes : WF_capVars(Take(f) \/ Judge(f) \/ Claim(f) \/ SendMail(f))
            /\ \A s \in Servers : WF_capVars(\E f \in Flushes : Fire(s, f))
CapFairSpec == CapSpec /\ CapFairness

-----------------------------------------------------------------------------
(* "Thirty students hitting one cap produce one email": however many calls  *)
(* on however many servers cross a threshold at once, one mail goes out for *)
(* it, and one more for each reset that gave the allowance back.            *)
OneMailPerCrossing ==
    /\ CapTypeOK
    /\ \A t \in Thresholds : mailed[t] <= 1 + resets

(* A refusal that was queued ends in a claimed notification, unless a       *)
(* server stopped, or the flush that took it could not read the account or  *)
(* write the claim (it is not queued again): nothing queued while a flush   *)
(* is under way is left without a timer.                                    *)
RefusalIsClaimed ==
    \A s \in Servers : entry[s].signal = "reached" ~> ("reached" \in claims \/ lost)

(* "Leaving it would let an account spend a restored allowance all the way  *)
(* to the cap and be refused without ever being warned": a claim stands for *)
(* an allowance that is spent now.  A reset that meets a call or a queued   *)
(* signal in progress is excepted: the code lets that signal claim.         *)
ClaimsAreCurrent ==
    (reset = "idle" /\ ~stale) =>
        /\ "reached" \in claims => used >= Cap
        /\ "approaching" \in claims => used >= Warn
=============================================================================
