----------------------------- MODULE MCGkCurl -----------------------------
(* Two sessions, two requests, one request type with a case and one      *)
(* without, and two handles per session.                                 *)
EXTENDS GkCurl, TLC

CONSTANTS s1, s2, r1, r2

MCSessions == {s1, s2}
MCRequests == {r1, r2}
MCReqTypes == {"FQDN"}
MCBadType == "INVALID"
MCMaxHandles == 2

MCSymmetry == Permutations(MCSessions) \cup Permutations(MCRequests)
=============================================================================
