----------------------------- MODULE GoldViews -----------------------------
(***************************************************************************)
(* create_gold_views.sql: the Gold views over SILVER_EVENTS and the checks *)
(* that gate their loading.                                                *)
(*                                                                         *)
(* A Run that moved to another date stands under two dates until both are  *)
(* rebuilt, and twice under a date inserted twice; each copy is rows of    *)
(* its own.  A text column is its rank in string order, NULL is 0, and an  *)
(* aggregate MAX or MIN ignores it.  Percentages and averages are left     *)
(* out, each defined when the count it divides by is not zero, except the  *)
(* one average whose check a published row can fail.                       *)
(***************************************************************************)
EXTENDS PublishedTable, FiniteSetsExt

CONSTANTS ItemCatalog,    \* [game_version, choice_source, item, weapon]
          HalfHundredth   \* 0.005 in the unit of xp_to_next_level

\* An amount of xp is a whole number of units, whatever the unit is.
ASSUME UnitAssumption == HalfHundredth \in Nat \ {0}

\* create_item_catalog.sql: one row per version, source and item.
CatalogKey(c) == <<c.game_version, c.choice_source, c.item>>

ASSUME CatalogAssumption ==
  \A c, d \in ItemCatalog : CatalogKey(c) = CatalogKey(d) => c = d

NULL == 0

\* CONSENTED_PROD_PLAY < CONTROLLED_SCENARIO < LOAD_TEST
ConsentedProdPlay == 1

\* The rank of "player_death" among the end reasons.
PlayerDeath == 2

\* telemetry-event-v2.schema.json: which columns of a row are never NULL, and
\* what goes with them.
ASSUME ColumnAssumption ==
  \A e \in Event : e.conforms =>
    /\ e.correlation.source_type \in Nat \ {NULL}
    /\ e.correlation.game_version \in Nat \ {NULL}
    /\ e.event_name = "run_started" => e.starting_weapon \in Nat
    /\ e.event_name = "run_ended" =>
         /\ e.end_reason \in Nat \ {NULL} /\ e.death_cause \in Nat
         /\ e.death_cause # NULL => e.end_reason = PlayerDeath
    /\ e.event_name = "run_checkpoint" => e.xp_to_next_level \in Nat \ {0}
    /\ e.event_name = "upgrade_options_shown" => IsFiniteSet(e.options)

-----------------------------------------------------------------------------
(* Rows and grouping.                                                      *)

Copies(table) == UNION {table[date] : date \in DOMAIN table}

\* One row per published event, with the columns its Run repeats.
SilverEvents(table) ==
  UNION {UNION {{[date |-> date, run |-> run, event |-> event] : event \in run.events} :
                  run \in table[date]} : date \in DOMAIN table}

GameVersion(row) == row.event.correlation.game_version
SourceType(row)  == row.event.correlation.source_type

RowsNamed(rows, name) == {row \in rows : row.event.event_name = name}

ProductRows(table, name) ==
  {row \in RowsNamed(SilverEvents(table), name) : SourceType(row) = ConsentedProdPlay}

GroupBy(rows, Key(_)) ==
  {{row \in rows : Key(row) = key} : key \in {Key(row) : row \in rows}}

Any(group) == CHOOSE row \in group : TRUE

\* The columns a group shares are those of any of its rows.
MaxOf(values) == Max(values \cup {NULL})

SumOf(group, Column(_)) == SumFunction([x \in group |-> Column(x)])

-----------------------------------------------------------------------------
(* RUN_SUMMARY: one row per run_id, over all dates.                        *)

\* MAX(run_status): "valid" sorts after "incomplete".
MaxStatus(rows) ==
  IF \E row \in rows : row.run.status = "VALID" THEN "VALID" ELSE "INCOMPLETE"

MaxCount(rows, count) == Max({row.run.counts[count] : row \in rows})

Summary(rows) ==
  LET starts      == RowsNamed(rows, "run_started")
      ends        == RowsNamed(rows, "run_ended")
      checkpoints == RowsNamed(rows, "run_checkpoint")
  IN  [run_id            |-> Any(rows).run.run_id,
       received_date     |-> Min({row.date : row \in rows}),
       source_type       |-> Max({SourceType(row) : row \in rows}),
       game_version      |-> Max({GameVersion(row) : row \in rows}),
       run_status        |-> MaxStatus(rows),
       is_started        |-> starts # {},
       is_ended          |-> ends # {},
       run_duration_seconds      |-> MaxOf({Elapsed(row.event) : row \in ends}),
       starting_weapon_id        |-> MaxOf({row.event.starting_weapon : row \in starts}),
       end_reason                |-> MaxOf({row.event.end_reason : row \in ends}),
       death_cause               |-> MaxOf({row.event.death_cause : row \in ends}),
       checkpoint_count          |-> Cardinality(checkpoints),
       highest_checkpoint_number |-> MaxOf({row.event.checkpoint_number : row \in checkpoints}),
       upgrade_shown_count       |-> Cardinality(RowsNamed(rows, "upgrade_options_shown")),
       upgrade_selected_count    |-> Cardinality(RowsNamed(rows, "upgrade_selected")),
       input_event_count           |-> MaxCount(rows, "input"),
       unique_event_count          |-> MaxCount(rows, "unique"),
       exact_retry_count           |-> MaxCount(rows, "retries"),
       conflicting_duplicate_count |-> MaxCount(rows, "conflicts")]

RunSummary(table) ==
  {Summary(rows) : rows \in GroupBy(SilverEvents(table), LAMBDA row : row.run.run_id)}

\* Mutant: test traffic is not filtered out.
RunSummaryUnfiltered(table) == RunSummary(table)

ProductRunSummary(table) ==
  {summary \in RunSummary(table) : summary.source_type = ConsentedProdPlay}

-----------------------------------------------------------------------------
(* RUN_QUALITY_SUMMARY, PRODUCT_RUN_OUTCOME, PRODUCT_CHECKPOINT_METRICS and *)
(* PRODUCT_RUN_PROGRESSION.                                                *)

\* ROW_NUMBER() ... ORDER BY event_sequence DESC: any of the rows with the
\* highest sequence, which differ only for a Run under two dates.
LastCopies(table, id) ==
  LET rows == {row \in SilverEvents(table) : row.run.run_id = id}
  IN  {row.run : row \in {row \in rows :
         \A other \in rows : other.event.event_sequence <= row.event.event_sequence}}

RunIds(table) == {run.run_id : run \in Copies(table)}

LastCopyChoices(table) ==
  {last \in [RunIds(table) -> Copies(table)] :
     \A id \in RunIds(table) : last[id] \in LastCopies(table, id)}

QualityRow(group) ==
  [run_status         |-> Any(group).status,
   run_count          |-> Cardinality(group),
   input_event_count  |-> SumOf(group, LAMBDA run : run.counts["input"]),
   unique_event_count |-> SumOf(group, LAMBDA run : run.counts["unique"]),
   exact_retry_count  |-> SumOf(group, LAMBDA run : run.counts["retries"]),
   conflicting_duplicate_count |-> SumOf(group, LAMBDA run : run.counts["conflicts"])]

RunQuality(table, last) ==
  {QualityRow(group) : group \in
     GroupBy({last[id] : id \in RunIds(table)}, LAMBDA run : run.status)}

OutcomeRow(group) ==
  [end_reason |-> Any(group).event.end_reason, ended_run_count |-> Cardinality(group)]

RunOutcome(table) ==
  {OutcomeRow(group) : group \in
     GroupBy(ProductRows(table, "run_ended"), LAMBDA row : row.event.end_reason)}

\* ROUND(AVG(column), 2), in hundredths: a half is rounded up.
RoundedAverage(group, Column(_)) ==
  (SumOf(group, Column) + Cardinality(group) * HalfHundredth)
    \div (2 * Cardinality(group) * HalfHundredth)

CheckpointRow(group) ==
  [checkpoint_number        |-> Any(group).event.checkpoint_number,
   checkpoint_event_count   |-> Cardinality(group),
   average_xp_to_next_level |-> RoundedAverage(group, LAMBDA row : row.event.xp_to_next_level)]

CheckpointMetrics(table) ==
  {CheckpointRow(group) : group \in
     GroupBy(ProductRows(table, "run_checkpoint"), LAMBDA row : row.event.checkpoint_number)}

ReachedRuns(runs, number) ==
  Cardinality({run \in runs : run.highest_checkpoint_number >= number})

\* REACH_COUNTS with LAG: how many Runs of a version reached each checkpoint.
ProgressionRow(runs, number) ==
  [game_version       |-> Any(runs).game_version,
   checkpoint_number  |-> number,
   started_run_count  |-> Cardinality(runs),
   reached_run_count  |-> ReachedRuns(runs, number),
   previous_reached_run_count |->
     IF number = 1 THEN Cardinality(runs) ELSE ReachedRuns(runs, number - 1)]

RunProgression(table) ==
  LET started == {run \in ProductRunSummary(table) : run.is_started}
  IN  UNION {{ProgressionRow(runs, number) :
                number \in 1 .. Max({run.highest_checkpoint_number : run \in runs})} :
             runs \in GroupBy(started, LAMBDA run : run.game_version)}

-----------------------------------------------------------------------------
(* PRODUCT_UPGRADE_POST_SELECTION and PRODUCT_ITEM_PERFORMANCE_SUMMARY.     *)

SelectedItem(row) == row.event.selected_option.item

Precedes(row, other) ==
  \/ Elapsed(row.event) < Elapsed(other.event)
  \/ /\ Elapsed(row.event) = Elapsed(other.event)
     /\ row.event.event_sequence <= other.event.event_sequence

FirstSelection(rows) == CHOOSE row \in rows : \A other \in rows : Precedes(row, other)

\* RUN_ITEM_SELECTIONS: a Run counts once per item, from its first selection.
RunItemSelection(rows) ==
  LET first == FirstSelection(rows)
  IN  [run_id        |-> first.run.run_id,
       item_id       |-> SelectedItem(first),
       game_version  |-> Max({GameVersion(row) : row \in rows}),
       choice_source |-> first.event.choice_source,
       rarity        |-> first.event.selected_option.rarity,
       first_selected_at_seconds |-> Elapsed(first.event),
       selection_count_in_run    |-> Cardinality(rows)]

RunItem(row) == <<row.run.run_id, SelectedItem(row)>>

RunItemSelections(table) ==
  {RunItemSelection(rows) :
     rows \in GroupBy(ProductRows(table, "upgrade_selected"), RunItem)}

\* SELECTION_OUTCOMES: joined with the product summary of the Run.
SelectionOutcomes(table) ==
  {x \in [selection : RunItemSelections(table), run : ProductRunSummary(table)] :
     x.selection.run_id = x.run.run_id}

DiedWithinAMinute(x) ==
  /\ x.run.is_ended
  /\ x.run.end_reason = PlayerDeath
  /\ x.run.run_duration_seconds - x.selection.first_selected_at_seconds <= 60

SelectionMinute(x) == x.selection.first_selected_at_seconds \div 60

PostSelectionKey(x) ==
  <<x.selection.game_version, x.selection.choice_source, x.selection.item_id,
    x.selection.rarity, SelectionMinute(x)>>

PostSelectionRow(group) ==
  LET of == Any(group).selection
  IN  [game_version |-> of.game_version, choice_source |-> of.choice_source,
       item_id |-> of.item_id, rarity |-> of.rarity,
       selection_minute    |-> SelectionMinute(Any(group)),
       selection_count     |-> SumOf(group, LAMBDA x : x.selection.selection_count_in_run),
       selected_run_count  |-> Cardinality(group),
       outcome_observed_run_count    |-> Cardinality({x \in group : x.run.is_ended}),
       death_within_60_seconds_count |-> Cardinality({x \in group : DiedWithinAMinute(x)})]

UpgradePostSelection(table) ==
  {PostSelectionRow(group) : group \in GroupBy(SelectionOutcomes(table), PostSelectionKey)}

\* LEFT JOIN ITEM_CATALOG: without a row there, its columns are NULL.
Listed(version, source, item) ==
  \E c \in ItemCatalog : CatalogKey(c) = <<version, source, item>>

ItemKey(x) == <<x.game_version, x.choice_source, x.item_id>>

ItemPerformanceRow(group) ==
  LET of == Any(group)
  IN  [game_version |-> of.game_version, choice_source |-> of.choice_source,
       item_id |-> of.item_id,
       named |-> Listed(of.game_version, of.choice_source, of.item_id),
       selection_count    |-> SumOf(group, LAMBDA x : x.selection_count),
       selected_run_count |-> SumOf(group, LAMBDA x : x.selected_run_count),
       outcome_observed_run_count |->
         SumOf(group, LAMBDA x : x.outcome_observed_run_count),
       death_within_60_seconds_count |->
         SumOf(group, LAMBDA x : x.death_within_60_seconds_count)]

ItemPerformance(table) ==
  {ItemPerformanceRow(group) : group \in GroupBy(UpgradePostSelection(table), ItemKey)}

-----------------------------------------------------------------------------
(* PRODUCT_WEAPON_POPULARITY and PRODUCT_WEAPON_PERFORMANCE.                *)

WeaponRows(table, name) ==
  {row \in ProductRows(table, name) : row.event.choice_source = "level_up_weapon"}

\* LATERAL FLATTEN(options): one row per option shown.
ShownOptions(rows) ==
  UNION {{[row |-> row, option |-> option] : option \in row.event.options} : row \in rows}

\* weapon_selection_number = 1
FirstOfRun(row, rows) ==
  \A other \in rows : other.run.run_id = row.run.run_id =>
    row.event.event_sequence <= other.event.event_sequence

StartedWith(runs, weapon) ==
  {run \in runs : /\ run.is_started
                  /\ run.game_version = weapon.game_version
                  /\ run.starting_weapon_id = weapon.item}

PopularityRow(weapon, runs, selections, shown) ==
  LET exposures == {x \in shown : /\ GameVersion(x.row) = weapon.game_version
                                  /\ x.option.item = weapon.item}
      chosen    == {row \in selections : /\ GameVersion(row) = weapon.game_version
                                         /\ SelectedItem(row) = weapon.item}
  IN  [game_version |-> weapon.game_version, weapon_id |-> weapon.item,
       starting_run_count |-> Cardinality(StartedWith(runs, weapon)),
       exposure_count     |-> Cardinality(exposures),
       exposed_run_count  |-> Cardinality({x.row.run.run_id : x \in exposures}),
       selection_count    |-> Cardinality(chosen),
       selected_run_count |-> Cardinality({row.run.run_id : row \in chosen}),
       first_selected_run_count |->
         Cardinality({row.run.run_id : row \in {row \in chosen :
                                                  FirstOfRun(row, selections)}})]

WeaponPopularity(table) ==
  LET runs       == ProductRunSummary(table)
      selections == WeaponRows(table, "upgrade_selected")
      shown      == ShownOptions(WeaponRows(table, "upgrade_options_shown"))
  IN  {PopularityRow(weapon, runs, selections, shown) :
         weapon \in {c \in ItemCatalog : c.weapon}}

WeaponPerformanceRow(runs) ==
  LET of == Any(runs)
  IN  [game_version |-> of.game_version, weapon_id |-> of.starting_weapon_id,
       named |-> Listed(of.game_version, "level_up_weapon", of.starting_weapon_id),
       run_count |-> Cardinality(runs),
       outcome_observed_run_count |-> Cardinality({run \in runs : run.is_ended}),
       death_count |-> Cardinality({run \in runs :
                         run.is_ended /\ run.end_reason = PlayerDeath})]

WeaponPerformance(table) ==
  {WeaponPerformanceRow(runs) :
     runs \in GroupBy({run \in ProductRunSummary(table) :
                         run.is_started /\ run.starting_weapon_id # NULL},
                      LAMBDA run : <<run.game_version, run.starting_weapon_id>>)}

-----------------------------------------------------------------------------
(* PRODUCT_OPTION_OUTCOME_COMPARISON and PRODUCT_UPGRADE_FUNNEL.            *)

\* OFFERED_OPTIONS: SELECT DISTINCT, joined with the product summary.
OfferedItems(table) ==
  LET Offer(x) == [run_id |-> x.row.run.run_id, game_version |-> GameVersion(x.row),
                   choice_source |-> x.row.event.choice_source, item_id |-> x.option.item]
  IN  {x \in {Offer(y) : y \in ShownOptions(ProductRows(table, "upgrade_options_shown"))} :
         \E run \in ProductRunSummary(table) : run.run_id = x.run_id}

WasSelected(x, selections) ==
  \E row \in selections : /\ row.run.run_id = x.run_id
                          /\ row.event.choice_source = x.choice_source
                          /\ SelectedItem(row) = x.item_id

OptionOutcomeRow(group, runs, selections) ==
  LET of         == Any(group)
      chosen     == {x \in group : WasSelected(x, selections)}
      ended      == {run.run_id : run \in {run \in runs : run.is_ended}}
      EndedIn(g) == Cardinality({x \in g : x.run_id \in ended})
  IN  [game_version |-> of.game_version, choice_source |-> of.choice_source,
       item_id |-> of.item_id,
       named |-> Listed(of.game_version, of.choice_source, of.item_id),
       offered_run_count      |-> Cardinality(group),
       selected_run_count     |-> Cardinality(chosen),
       not_selected_run_count |-> Cardinality(group \ chosen),
       selected_outcome_run_count     |-> EndedIn(chosen),
       not_selected_outcome_run_count |-> EndedIn(group \ chosen)]

OptionOutcome(table) ==
  LET runs       == ProductRunSummary(table)
      selections == ProductRows(table, "upgrade_selected")
  IN  {OptionOutcomeRow(group, runs, selections) :
         group \in GroupBy(OfferedItems(table), ItemKey)}

\* Mutant: the choice is not part of the join.
SelectionsOfItem(x, selections) ==
  {row \in selections : /\ row.run.run_id = x.row.run.run_id
                        /\ SelectedItem(row) = x.option.item}

\* The selections joined to an exposed option: same Run, choice and item, of
\* whatever slot and rarity.
SelectionsOf(x, selections) ==
  {row \in selections : /\ row.run.run_id = x.row.run.run_id
                        /\ row.event.choice_id = x.row.event.choice_id
                        /\ SelectedItem(row) = x.option.item}

FunnelRow(group, selections) ==
  LET Joined(x) == Cardinality(SelectionsOf(x, selections))
  IN  [choice_source |-> Any(group).row.event.choice_source,
       item_id |-> Any(group).option.item, rarity |-> Any(group).option.rarity,
       exposure_count  |-> SumOf(group, LAMBDA x : Max({1, Joined(x)})),
       selection_count |-> SumOf(group, Joined)]

FunnelKey(x) == <<x.row.event.choice_source, x.option.item, x.option.rarity>>

UpgradeFunnel(table) ==
  LET selections == ProductRows(table, "upgrade_selected")
      exposed    == ShownOptions(ProductRows(table, "upgrade_options_shown"))
  IN  {FunnelRow(group, selections) : group \in GroupBy(exposed, FunnelKey)}

-----------------------------------------------------------------------------
(* QUALITY_CHECKS.  The range checks that no published row can fail, being *)
(* true of any counts, or of any percentage or average of what the schema  *)
(* bounds, are left out.                                                   *)

\* Mutant: a Run that answered every choice is inconsistent.
InconsistentWhenAllAnswered(run) ==
  \/ run.is_ended /\ run.run_status # "VALID"
  \/ run.upgrade_selected_count >= run.upgrade_shown_count

InconsistentRun(run) ==
  \/ run.is_ended /\ run.run_status # "VALID"
  \/ ~run.is_ended /\ run.run_status # "INCOMPLETE"
  \/ run.is_ended /\ run.end_reason = NULL
  \/ run.death_cause # NULL /\ run.end_reason \notin {NULL, PlayerDeath}
  \/ run.upgrade_selected_count > run.upgrade_shown_count
  \/ run.input_event_count # run.unique_event_count + run.exact_retry_count
                               + run.conflicting_duplicate_count

SelectionListed(row) ==
  Listed(GameVersion(row), row.event.choice_source, SelectedItem(row))

FailedChecks(table) ==
  {check \in {"run_summary_consistency", "checkpoint_value_ranges",
              "item_performance_summary_ranges",
              "weapon_popularity_ranges", "weapon_performance_ranges",
              "option_outcome_comparison_ranges", "item_catalog_coverage"} :
     \/ /\ check = "run_summary_consistency"
        /\ \E run \in RunSummary(table) : InconsistentRun(run)
     \/ /\ check = "checkpoint_value_ranges"
        /\ \E x \in CheckpointMetrics(table) : x.average_xp_to_next_level <= 0
     \/ /\ check = "item_performance_summary_ranges"
        /\ \E x \in ItemPerformance(table) : ~x.named
     \/ /\ check = "weapon_popularity_ranges"
        /\ \E x \in WeaponPopularity(table) : x.selection_count > x.exposure_count
     \/ /\ check = "weapon_performance_ranges"
        /\ \E x \in WeaponPerformance(table) : ~x.named
     \/ /\ check = "option_outcome_comparison_ranges"
        /\ \E x \in OptionOutcome(table) : ~x.named
     \/ /\ check = "item_catalog_coverage"
        /\ \E row \in ProductRows(table, "upgrade_selected") : ~SelectionListed(row)}
=============================================================================
