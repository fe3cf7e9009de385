------------------------ MODULE MCSessionPersistence ------------------------
(* Tasks are interchangeable: the tracker hands them out in any order. *)
EXTENDS SessionPersistence, TLC

TaskSymmetry == Permutations(Task)
=============================================================================
