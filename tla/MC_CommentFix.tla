---------------------------- MODULE MC_CommentFix ----------------------------
(* Instances of CommentFix for TLC.                                       *)
EXTENDS CommentFix

(* The exploration stops at the modtime bound, and at a third Fixer edit *)
(* of one user version (reached only when NoRefix already fails).        *)
Bounds == clock < MaxTime /\ \A i \in Items : nedit[i] <= 2
=============================================================================
