---------------------------- MODULE MCDecisionLock ----------------------------
(***************************************************************************)
(* Instances of DecisionLock for TLC.                                      *)
(***************************************************************************)
EXTENDS DecisionLock, TLC

\* Two published packages, the second brand new, and a workspace member.
MCPublished == "old" :> -5 @@ "new" :> 0 @@ "app" :> 0
MCTrees == {{"app", "old"}, {"app", "old", "new"}}
MCRules == {[age |-> 2, advisory |-> "warn"], [age |-> 0, advisory |-> "block"]}
=============================================================================
