-------------------------- MODULE MCInstallation --------------------------
(* Small instances of Installation. *)
EXTENDS Installation, TLC

CONSTANTS t1, t2, k1, k2, f1

MCTenants == {t1, t2}
MCKeys == {k1, k2}
MCFiles == {f1}

Interchangeable == Permutations(MCTenants) \cup Permutations(MCKeys)
===========================================================================
