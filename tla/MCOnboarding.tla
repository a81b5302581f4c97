--------------------------- MODULE MCOnboarding ---------------------------
(* A small instance of Onboarding: three concurrent requests. *)
EXTENDS Onboarding, TLC

CONSTANTS r1, r2, r3

MCRequests == {r1, r2, r3}

Interchangeable == Permutations(MCRequests)
===========================================================================
