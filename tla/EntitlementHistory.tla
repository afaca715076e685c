-------------------------- MODULE EntitlementHistory --------------------------
(***************************************************************************)
(* What following the billing provider promises: the account is on some     *)
(* state of the provider's history and only ever moves to a later one.       *)
(* Version 0 is the account before its first subscription.                  *)
(***************************************************************************)
EXTENDS Naturals

VARIABLE version

Init == version = 0

Follow == version' \in Nat /\ version' > version

Spec == Init /\ [][Follow]_version
=============================================================================
