-------------------------- MODULE MCBronzeArrival --------------------------
(***************************************************************************)
(* Small universes of bodies for BronzeArrival.                            *)
(***************************************************************************)
EXTENDS BronzeArrival

Body(canonical, id, run, name, sequence) ==
  [canonical |-> canonical, event_id |-> id, run_id |-> run,
   event_name |-> name, event_sequence |-> sequence,
   correlation |-> "v1", conforms |-> TRUE,
   measures |-> [run_elapsed_seconds |-> 0],
   choice_id |-> "none", choice_sequence |-> 1,
   choice_source |-> "none", options |-> {}, selected_option |-> "none",
   checkpoint_number |-> 1]

Start(canonical, id, run, sequence) ==
  Body(canonical, id, run, "run_started", sequence)

End(canonical, id, run, sequence, elapsed, kills) ==
  [Body(canonical, id, run, "run_ended", sequence) EXCEPT
     !.measures = [run_elapsed_seconds |-> elapsed, total_kills |-> kills]]

Checkpoint(canonical, id, run, sequence, number, elapsed, kills) ==
  [Body(canonical, id, run, "run_checkpoint", sequence) EXCEPT
     !.measures = [run_elapsed_seconds |-> elapsed, total_kills |-> kills],
     !.checkpoint_number = number]

Show(canonical, id, sequence, choice, number, elapsed) ==
  [Body(canonical, id, "r1", "upgrade_options_shown", sequence) EXCEPT
     !.measures = [run_elapsed_seconds |-> elapsed],
     !.choice_id = choice, !.choice_sequence = number,
     !.choice_source = "level_up_weapon", !.options = {"axe", "bow"}]

Select(canonical, id, sequence, choice, number, option) ==
  [Body(canonical, id, "r1", "upgrade_selected", sequence) EXCEPT
     !.choice_id = choice, !.choice_sequence = number,
     !.choice_source = "level_up_weapon", !.selected_option = option]

\* One Run with upgrade choices: starts, ends, shown and selected choices in
\* good and bad places, a reused event_id and a foreign correlation.
ChoiceBodies ==
  {Start(1, "e1", "r1", 1),
   Start(2, "e2", "r1", 2),
   Show(3, "e3", 2, "c1", 1, 0),
   Show(4, "e4", 1, "c1", 1, 0),
   Show(5, "e5", 3, "c2", 2, 0),
   Show(6, "e6", 4, "c1", 3, 0),
   Show(7, "e7", 1, "c2", 1, 9),
   Select(8, "e8", 3, "c1", 1, "axe"),
   Select(9, "e8", 3, "c1", 1, "bow"),
   Select(10, "e9", 4, "c2", 2, "pike"),
   End(11, "e10", "r1", 4, 0, 0),
   [End(12, "e11", "r1", 5, 0, 0) EXCEPT !.correlation = "v2"]}

\* More of that Run: checkpoints, cumulative counters that may fall, a
\* checkpoint off the minute and a body outside the contract.
CounterBodies ==
  {Checkpoint(13, "f2", "r1", 2, 1, 60, 5),
   Checkpoint(14, "f3", "r1", 3, 2, 120, 7),
   Checkpoint(15, "f4", "r1", 3, 1, 60, 5),
   Checkpoint(16, "f5", "r1", 4, 2, 120, 7),
   Checkpoint(17, "f6", "r1", 4, 3, 120, 7),
   Show(18, "f7", 3, "c1", 1, 60),
   End(19, "f8", "r1", 5, 180, 6),
   End(20, "f9", "r1", 4, 120, 4),
   End(21, "f10", "r1", 3, 61, 4),
   End(22, "f11", "r1", 2, 30, 0),
   [Body(23, "f12", "r1", "run_checkpoint", 2) EXCEPT !.conforms = FALSE]}

OneRunBodies == ChoiceBodies \cup CounterBodies

\* Three Runs that share event_ids, and a conflicting copy inside one Run.
SharedBodies ==
  {Start(1, "e1", "r1", 1),
   End(2, "e2", "r1", 2, 9, 1),
   End(3, "e2", "r1", 2, 9, 2),
   Start(4, "e1", "r2", 1),
   End(5, "e3", "r2", 2, 9, 1),
   End(6, "e3", "r3", 1, 9, 1)}
=============================================================================
