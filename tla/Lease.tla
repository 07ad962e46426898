------------------------------- MODULE Lease -------------------------------
(***************************************************************************)
(* What a Redis lock key is meant to give: an exclusive lease.  A party    *)
(* gets it only when nobody has it, and gives it up before another one     *)
(* gets it.  Keys without fencing cannot keep this up for ever: the lease  *)
(* may be broken, and from then on promises nothing.                       *)
(***************************************************************************)
CONSTANT Owners

VARIABLES
    holders,      \* who works under the lease
    broken        \* the lease was taken from a holder

Init == holders = {} /\ broken = FALSE

Acquire(p) == ~ broken /\ holders = {} /\ holders' = {p} /\ UNCHANGED broken
Release(p) == ~ broken /\ holders = {p} /\ holders' = {} /\ UNCHANGED broken
Break      == ~ broken /\ broken' = TRUE /\ holders' = {}

Next == (\E p \in Owners : Acquire(p) \/ Release(p)) \/ Break

vars == <<holders, broken>>

Spec == Init /\ [][Next]_vars
=============================================================================
