------------------------------ MODULE MCJobQueue ------------------------------
(* Small instances of JobQueue and its view: every row has the same dedupe key. *)
EXTENDS JobQueueView

CONSTANT key

SharedKey == [j \in Jobs |-> key]

NoPoison == {}

================================================================================
