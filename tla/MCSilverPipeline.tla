-------------------------- MODULE MCSilverPipeline --------------------------
(***************************************************************************)
(* One Run: the two bodies that complete it, and two that contradict.      *)
(***************************************************************************)
EXTENDS SilverPipeline

Body(canonical, id, name, sequence) ==
  [canonical |-> canonical, event_id |-> id, run_id |-> "r1",
   event_name |-> name, event_sequence |-> sequence,
   correlation |-> "v1", conforms |-> TRUE,
   measures |-> [run_elapsed_seconds |-> 0],
   choice_id |-> "none", choice_sequence |-> 1,
   choice_source |-> "none", options |-> {}, selected_option |-> "none",
   checkpoint_number |-> 1]

Start1 == Body(1, "e1", "run_started", 1)
End1   == Body(2, "e2", "run_ended", 2)
End2   == [Body(3, "e2", "run_ended", 2) EXCEPT !.correlation = "v2"]

OneRun == {Start1, End1}
ConflictingEnds == {End1, End2}

DagOnly == {"dag"}
DagAndCommandLine == {"dag", "cli"}
=============================================================================
