---------------------------- MODULE MCJsonTracker ----------------------------
(* Two tasks of which one is set back as well. *)
EXTENDS JsonTracker

CONSTANTS t1, t2

MCAsked == [kind : {"complete"}, task : {t1, t2}] \cup {[kind |-> "reopen", task |-> t1]}
=============================================================================
