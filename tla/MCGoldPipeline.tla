--------------------------- MODULE MCGoldPipeline ---------------------------
(***************************************************************************)
(* Published Runs for GoldPipeline.  Each is what Silver may publish: its  *)
(* status is the contract's verdict on its bodies.                         *)
(***************************************************************************)
EXTENDS GoldPipeline

Bone == 1
Ball == 2
Axe  == 3       \* no row in the catalog
Heart == 4
Shield == 5

Catalog ==
  {[game_version |-> 1, choice_source |-> "level_up_weapon", item |-> Bone, weapon |-> TRUE],
   [game_version |-> 1, choice_source |-> "level_up_weapon", item |-> Ball, weapon |-> TRUE],
   [game_version |-> 1, choice_source |-> "level_up_upgrade", item |-> Heart, weapon |-> FALSE],
   [game_version |-> 1, choice_source |-> "level_up_upgrade", item |-> Shield, weapon |-> FALSE]}

Prod == [game_version |-> 1, source_type |-> ConsentedProdPlay]
Test == [game_version |-> 1, source_type |-> 2]

Option(slot, item, rarity) == [slot |-> slot, item |-> item, rarity |-> rarity]

\* The body at a sequence of a Run; no two of one Run in one table share both.
Body(run, variant, name, sequence, elapsed, correlation) ==
  [canonical |-> 1000 * run + 100 * variant + sequence,
   event_id |-> <<run, variant, sequence>>, run_id |-> run,
   event_name |-> name, event_sequence |-> sequence, correlation |-> correlation,
   conforms |-> TRUE, measures |-> [run_elapsed_seconds |-> elapsed],
   choice_id |-> 0, choice_sequence |-> 1, choice_source |-> "none",
   options |-> {}, selected_option |-> Option(1, Bone, 1),
   checkpoint_number |-> 1, xp_to_next_level |-> 7, starting_weapon |-> NULL,
   end_reason |-> NULL, death_cause |-> NULL]

Start(run, correlation, weapon) ==
  [Body(run, 0, "run_started", 1, 0, correlation) EXCEPT !.starting_weapon = weapon]

Show(run, sequence, elapsed, correlation, choice, source, options) ==
  [Body(run, 0, "upgrade_options_shown", sequence, elapsed, correlation) EXCEPT
     !.choice_id = choice, !.choice_sequence = choice, !.choice_source = source,
     !.options = options]

Select(run, sequence, elapsed, correlation, choice, source, option) ==
  [Body(run, 0, "upgrade_selected", sequence, elapsed, correlation) EXCEPT
     !.choice_id = choice, !.choice_sequence = choice, !.choice_source = source,
     !.selected_option = option]

Checkpoint(run, sequence, correlation, number) ==
  [Body(run, 0, "run_checkpoint", sequence, 60 * number, correlation) EXCEPT
     !.checkpoint_number = number]

End(run, sequence, elapsed, correlation, reason) ==
  [Body(run, 0, "run_ended", sequence, elapsed, correlation) EXCEPT
     !.end_reason = reason, !.death_cause = IF reason = PlayerDeath THEN 1 ELSE NULL]

Published(run, status, events, retries) ==
  [run_id |-> run, status |-> status, events |-> events,
   counts |-> [input |-> Cardinality(events) + retries, unique |-> Cardinality(events),
               retries |-> retries, conflicts |-> 0], insert |-> 1]

Weapons == {Option(1, Bone, 1), Option(2, Ball, 1)}
Hearts  == {Option(1, Heart, 1), Option(2, Heart, 2)}
Charms  == {Option(1, Heart, 1), Option(2, Shield, 2)}

\* A whole Run that dies within a minute of its second selection.
Whole ==
  Published(1, "VALID",
    {Start(1, Prod, Bone),
     Show(1, 2, 5, Prod, 1, "level_up_weapon", Weapons),
     Select(1, 3, 6, Prod, 1, "level_up_weapon", Option(1, Bone, 1)),
     Checkpoint(1, 4, Prod, 1),
     Show(1, 5, 70, Prod, 2, "level_up_upgrade", Hearts),
     Select(1, 6, 71, Prod, 2, "level_up_upgrade", Option(2, Heart, 2)),
     End(1, 7, 90, Prod, PlayerDeath)}, 1)

\* The same Run as published before its later bodies came.
Earlier ==
  Published(1, "INCOMPLETE",
    {x \in Whole.events : x.event_sequence <= 3}, 0)

\* A Run that never ended, with two checkpoints and a choice not answered.
Unended ==
  Published(2, "INCOMPLETE",
    {Start(2, Prod, Ball), Checkpoint(2, 2, Prod, 1), Checkpoint(2, 3, Prod, 2),
     Show(2, 4, 130, Prod, 1, "level_up_weapon", Weapons)}, 0)

\* An end was received, one body before it was not.
Gap ==
  Published(3, "INCOMPLETE",
    {Start(3, Prod, NULL), End(3, 3, 9, Prod, 1)}, 0)

\* An item without a row in the catalog.
Unlisted ==
  Published(4, "VALID",
    {Start(4, Prod, Ball),
     Show(4, 2, 5, Prod, 1, "level_up_weapon", {Option(1, Axe, 1), Option(2, Ball, 1)}),
     Select(4, 3, 6, Prod, 1, "level_up_weapon", Option(1, Axe, 1)),
     End(4, 4, 9, Prod, 1)}, 0)

\* A test Run that starts, selects, passes checkpoints and dies.
Controlled ==
  Published(5, "VALID",
    {Start(5, Test, Bone),
     Show(5, 2, 5, Test, 1, "level_up_weapon", Weapons),
     Select(5, 3, 6, Test, 1, "level_up_weapon", Option(2, Ball, 1)),
     Checkpoint(5, 4, Test, 1), Checkpoint(5, 5, Test, 2),
     End(5, 6, 130, Test, PlayerDeath)}, 0)

\* The same item selected twice, the second time in another minute.
Twice ==
  Published(6, "VALID",
    {Start(6, Prod, Bone),
     Show(6, 2, 5, Prod, 1, "level_up_upgrade", Charms),
     Select(6, 3, 6, Prod, 1, "level_up_upgrade", Option(1, Heart, 1)),
     Show(6, 4, 65, Prod, 2, "level_up_upgrade", Charms),
     Select(6, 5, 66, Prod, 2, "level_up_upgrade", Option(1, Heart, 1)),
     End(6, 6, 300, Prod, PlayerDeath)}, 0)

\* A checkpoint less than 0.005 below the next level: alone its average rounds
\* to 0.00, next to that of another Run it does not.
Near ==
  Published(9, "INCOMPLETE",
    {Start(9, Prod, Bone), [Checkpoint(9, 2, Prod, 1) EXCEPT !.xp_to_next_level = 4]}, 0)

\* A whole Run that a second INSERT wrote again.
Doubled == [Whole EXCEPT !.insert = 2]

Candidates ==
  {Whole, Doubled, Earlier, Unended, Gap, Unlisted, Controlled, Twice, Near}

\* Tables of two dates with up to three Runs of the candidates.  Of one INSERT a
\* date has one copy of a Run.
Legal(table) ==
  /\ Cardinality(table[1]) + Cardinality(table[2]) <= 3
  /\ \A date \in 1 .. 2 : \A x, y \in table[date] :
       x.run_id = y.run_id /\ x.insert = y.insert => x = y

SmallSets == {runs \in SUBSET Candidates : Cardinality(runs) <= 3}
AllTables == {table \in [1 .. 2 -> SmallSets] : Legal(table)}

On(d1, d2) == [d \in 1 .. 2 |-> IF d = 1 THEN d1 ELSE d2]

\* A short whole Run and one with two checkpoints, more than a report takes.
Brief ==
  Published(7, "VALID",
    {Start(7, Prod, Bone), Checkpoint(7, 2, Prod, 1),
     Show(7, 3, 65, Prod, 1, "level_up_upgrade", {Option(1, Heart, 1)}),
     Select(7, 4, 66, Prod, 1, "level_up_upgrade", Option(1, Heart, 1)),
     End(7, 5, 70, Prod, PlayerDeath)}, 0)

Begun ==
  Published(8, "INCOMPLETE", {Start(8, Prod, NULL), Checkpoint(8, 2, Prod, 1),
                              Checkpoint(8, 3, Prod, 2)}, 0)

\* Two tables that pass the gate, one of them of a date inserted twice, and one
\* the gate stops.
PipelineTables ==
  {On({Brief}, {}), On({}, {Begun, [Begun EXCEPT !.insert = 2]}), On({Unlisted}, {})}

Bodies == UNION {run.events : run \in Candidates \cup {Brief, Begun}}

\* What ControlledRunsAreInvisibleHolds assumes of the tables.
ASSUME OneSourceTypes == \A table \in SilverTable : OneSourceType(table)

Limits ==
  [section \in Range(Section) |-> IF section = "checkpoint_metrics" THEN 1 ELSE 4]
=============================================================================
