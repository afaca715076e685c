--------------------------- MODULE RetentionLeases ---------------------------
(***************************************************************************)
(* What the process-wide retention budget promises, without the counter    *)
(* that implements it: at most Budget bytes worth of upload windows are    *)
(* leased at a time, a lecture takes its lease whole or not at all, and    *)
(* nobody loses a lease to somebody else's arrival.  AudioSocket is shown   *)
(* to implement this specification.                                        *)
(***************************************************************************)
EXTENDS Naturals, FiniteSets

CONSTANTS
    Recorder,   \* everything that may ever ask for a lease
    Window,     \* bytes one lease stands for
    Budget      \* the ceiling in bytes; 0 removes it

VARIABLE leases

Fits(n) == Budget = 0 \/ Window * n <= Budget

Init == leases = {}

Acquire(r) ==
    /\ r \notin leases
    /\ Fits(Cardinality(leases) + 1)
    /\ leases' = leases \union {r}

Release(r) ==
    /\ r \in leases
    /\ leases' = leases \ {r}

Next == \E r \in Recorder : Acquire(r) \/ Release(r)

Spec == Init /\ [][Next]_leases
=============================================================================
