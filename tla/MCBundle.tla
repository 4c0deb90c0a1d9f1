------------------------------- MODULE MCBundle -------------------------------
(***************************************************************************)
(* An instance of Bundle for TLC.                                          *)
(***************************************************************************)
EXTENDS Bundle, TLC

CONSTANTS t1, t2, p1, p2, k1, k2, c1

MCCandidates == <<"pnpm-lock.yaml">>

MCSymmetry ==
  UNION {Permutations(s) : s \in {{t1, t2}, {p1, p2}, {k1, k2}}}
=============================================================================
