----------------------------- MODULE MC_Pipeline -----------------------------
(* Instances of Pipeline for TLC.                                         *)
EXTENDS Pipeline

(* Every issue is similar to every other one.                            *)
MCSimilarAll == [i \in Issues |-> Issues \ {i}]

(* The exploration stops at the modtime bound and the post bound; states *)
(* past them are not expanded.                                           *)
Bounds == clock < MaxTime /\ \A i \in Issues : gh[i].posts < MaxPosts
=============================================================================
