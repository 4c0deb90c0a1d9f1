------------------------------ MODULE MCRecords ------------------------------
(***************************************************************************)
(* What runs leave on disk: the lock (DecisionLock) and the audit log      *)
(* (AuditLog), explored by one run of TLC.  The two share no state, so     *)
(* each is explored with the other at rest; their product has no behaviour *)
(* of the one that is not among these.                                     *)
(***************************************************************************)
EXTENDS MCDecisionLock, AuditLog

LogAtRest == LogInit /\ records = [p \in Runs |-> Min(Sizes)]

MCInit == Init /\ LogInit

MCNext ==
  \/ LogAtRest /\ Next /\ UNCHANGED logVars
  \/ Init /\ LogNext /\ UNCHANGED vars

MCSpec == MCInit /\ [][MCNext]_<<vars, logVars>>
=============================================================================
