----------------------------- MODULE MCGkCache -----------------------------
(* Model-checking instance of GkCache: two devices, two keys, the hostname *)
(* tree (where the request aliases and the redirect live), and TTLs 0 and *)
(* 1 so that a record can expire at once or one tick later.               *)
EXTENDS GkCache, TLC

CONSTANTS d1, d2, k1, k2

MCDevices == {d1, d2}
MCKeys == {k1, k2}
MCTreeSet == {"hostname"}
MCTTLs == {0, 1}
MCMaxTime == 1

(* The refinement run: one key per device keeps the liveness check small. *)
MCKeysOne == {k1}

MCSymmetry == Permutations(MCDevices) \cup Permutations(MCKeys)
=============================================================================
