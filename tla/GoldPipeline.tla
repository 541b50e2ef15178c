---------------------------- MODULE GoldPipeline ----------------------------
(***************************************************************************)
(* The DAG after refresh_silver_iceberg: Snowflake's copy of the table, the *)
(* quality gate, the table-by-table load, the two engines' answers and the *)
(* report; and the report's command line, which starts by itself.          *)
(*                                                                         *)
(* Every statement is a step that may be the last (retries: 0); nothing is *)
(* undone.  Which tables SilverPipeline can publish is the constant        *)
(* SilverTable.  Snowflake sees one only when it is told to REFRESH.       *)
(***************************************************************************)
EXTENDS GoldViews, Sequences

CONSTANTS SilverTable,   \* tables that may be found at a REFRESH
          ReportDate,    \* received_date parameters of a DAG run
          RowLimit,      \* _SECTION_ROW_LIMITS
          MaxRuns,       \* bound: DAG runs
          MaxReports     \* bound: report command lines

ASSUME GoldAssumption ==
  /\ MaxRuns \in Nat /\ MaxReports \in Nat /\ ReportDate # {}
  /\ \A table \in SilverTable : \A run \in Copies(table) :
       run.status \in {"VALID", "INCOMPLETE"} /\ run.events \subseteq Event

\* SilverPipeline's PublishedTableIsTrusted, of the tables it can publish.
ASSUME PublishedAssumption == \A table \in SilverTable : TrustedTable(table)

\* load_gold_iceberg.sql: the order of its DELETE and INSERT pairs.
Dataset == <<"run_summary", "run_quality", "run_outcome", "checkpoint_metrics",
             "run_progression", "upgrade_post_selection",
             "item_performance_summary", "weapon_popularity",
             "weapon_performance", "option_outcome_comparison", "upgrade_funnel">>

\* _SECTION_QUERIES: the Gold tables the report reads, in order.
Section == <<"run_quality", "run_outcome", "checkpoint_metrics",
             "upgrade_funnel", "run_progression", "item_performance_summary">>

ViewRows(dataset, table, last) ==
  CASE dataset = "run_summary"               -> ProductRunSummary(table)
    [] dataset = "run_quality"               -> RunQuality(table, last)
    [] dataset = "run_outcome"               -> RunOutcome(table)
    [] dataset = "checkpoint_metrics"        -> CheckpointMetrics(table)
    [] dataset = "run_progression"           -> RunProgression(table)
    [] dataset = "upgrade_post_selection"    -> UpgradePostSelection(table)
    [] dataset = "item_performance_summary"  -> ItemPerformance(table)
    [] dataset = "weapon_popularity"         -> WeaponPopularity(table)
    [] dataset = "weapon_performance"        -> WeaponPerformance(table)
    [] dataset = "option_outcome_comparison" -> OptionOutcome(table)
    [] dataset = "upgrade_funnel"            -> UpgradeFunnel(table)

\* What a SELECT from the view can return.
ViewResults(dataset, table) ==
  {ViewRows(dataset, table, last) : last \in LastCopyChoices(table)}

VARIABLES
  snapshot,   \* the SILVER_EVENTS table Snowflake sees
  gold,       \* dataset -> the row sets INSERTed since its last DELETE
  job,        \* program -> what it is doing
  answers,    \* engine -> its totals, once it has answered this DAG run
  reports,    \* date -> the sections the stored report was written from
  calls,      \* how often Bedrock was called
  blocked,    \* history: the last quality gate found a failure
  started     \* program -> how often it was started

vars == <<snapshot, gold, job, answers, reports, calls, blocked, started>>

Program == {"dag", "cli"}
Stage == {"idle", "refresh", "quality", "load", "query", "reconcile", "report", "put"}

Idle == [stage |-> "idle", date |-> CHOOSE d \in ReportDate : TRUE,
         enable_bedrock_report |-> FALSE, statements |-> 0, sections |-> <<>>]

Init ==
  /\ snapshot = [d \in {} |-> {}]
  /\ gold = [dataset \in Range(Dataset) |-> <<>>]
  /\ job = [w \in Program |-> Idle]
  /\ answers = [engine \in {} |-> {}]
  /\ reports = [d \in ReportDate |-> <<>>]
  /\ calls = 0
  /\ blocked = FALSE
  /\ started = [w \in Program |-> 0]

At(w, stage) == job[w].stage = stage

Goto(w, stage) == job' = [job EXCEPT ![w].stage = stage]

-----------------------------------------------------------------------------
(* The DAG.                                                                *)

\* max_active_runs = 1.  rebuild_silver and refresh_silver_iceberg are
\* SilverPipeline's.
StartDag(date, enabled) ==
  /\ At("dag", "idle") /\ started["dag"] < MaxRuns
  /\ started' = [started EXCEPT !["dag"] = @ + 1]
  /\ answers' = [engine \in {} |-> {}]
  /\ job' = [job EXCEPT !["dag"] = [Idle EXCEPT !.stage = "refresh", !.date = date,
                                              !.enable_bedrock_report = enabled]]
  /\ UNCHANGED <<snapshot, gold, reports, calls, blocked>>

\* refresh_snowflake_silver; create_gold_views then defines the views again.
RefreshSnowflake(table) ==
  /\ At("dag", "refresh")
  /\ snapshot' = table
  /\ Goto("dag", "quality")
  /\ UNCHANGED <<gold, answers, reports, calls, blocked, started>>

\* Mutant: the failed checks are reported and the run goes on.
ReportGoldQuality ==
  /\ At("dag", "quality")
  /\ blocked' = (FailedChecks(snapshot) # {})
  /\ Goto("dag", "load")
  /\ UNCHANGED <<snapshot, gold, answers, reports, calls, started>>

CheckGoldQuality ==
  /\ At("dag", "quality")
  /\ \/ /\ FailedChecks(snapshot) = {}
        /\ blocked' = FALSE
        /\ Goto("dag", "load")
     \/ /\ FailedChecks(snapshot) # {}
        /\ blocked' = TRUE
        /\ job' = [job EXCEPT !["dag"] = Idle]
  /\ UNCHANGED <<snapshot, gold, answers, reports, calls, started>>

\* The next statement of the load: DELETE for even, INSERT for odd counts.
Loading == Dataset[(job["dag"].statements \div 2) + 1]

\* Mutant: the last INSERT is never sent.
StatementDoneEarly ==
  job' = [job EXCEPT !["dag"].statements = @ + 1,
                     !["dag"].stage = IF job["dag"].statements + 2 = 2 * Len(Dataset)
                                      THEN "query" ELSE "load"]

StatementDone ==
  job' = [job EXCEPT !["dag"].statements = @ + 1,
                     !["dag"].stage = IF job["dag"].statements + 1 = 2 * Len(Dataset)
                                      THEN "query" ELSE "load"]

\* Mutant: a table that holds rows is not emptied.
DeleteGoldOnce ==
  /\ At("dag", "load") /\ job["dag"].statements % 2 = 0
  /\ StatementDone
  /\ UNCHANGED <<snapshot, gold, answers, reports, calls, blocked, started>>

DeleteGold ==
  /\ At("dag", "load") /\ job["dag"].statements % 2 = 0
  /\ gold' = [gold EXCEPT ![Loading] = <<>>]
  /\ StatementDone
  /\ UNCHANGED <<snapshot, answers, reports, calls, blocked, started>>

InsertGold ==
  /\ At("dag", "load") /\ job["dag"].statements % 2 = 1
  /\ \E rows \in ViewResults(Loading, snapshot) :
       gold' = [gold EXCEPT ![Loading] = Append(@, rows)]
  /\ StatementDone
  /\ UNCHANGED <<snapshot, answers, reports, calls, blocked, started>>

\* The rows a reader of a Gold table finds.
GoldRows(dataset) == UNION Range(gold[dataset])

\* reconcile_gold_metrics.sql, one row per dataset_key.  Counts of a status or
\* a percentage, and a sum of averages, are left out with these.
Totals(key, rows, metrics) ==
  [dataset_key |-> key, row_count |-> Cardinality(rows), metrics |-> metrics]

AsCount(holds) == IF holds THEN 1 ELSE 0

QualityTotal(x) ==
  Totals(<<"run_quality", x.run_status>>, {x},
         <<x.run_count, x.input_event_count, x.unique_event_count,
           x.exact_retry_count, x.conflicting_duplicate_count>>)

ProgressionTotal(rows) ==
  Totals(<<"run_progression">>, rows,
         <<SumOf(rows, LAMBDA x : x.started_run_count),
           SumOf(rows, LAMBDA x : x.reached_run_count),
           SumOf(rows, LAMBDA x : x.previous_reached_run_count),
           SumOf(rows, LAMBDA x : AsCount(x.reached_run_count < x.previous_reached_run_count))>>)

ItemTotal(rows) ==
  Totals(<<"item_performance_summary">>, rows,
         <<SumOf(rows, LAMBDA x : x.selection_count),
           SumOf(rows, LAMBDA x : x.selected_run_count),
           SumOf(rows, LAMBDA x : x.outcome_observed_run_count),
           SumOf(rows, LAMBDA x : x.death_within_60_seconds_count)>>)

PopularityTotal(rows) ==
  Totals(<<"weapon_popularity">>, rows,
         <<SumOf(rows, LAMBDA x : x.starting_run_count),
           SumOf(rows, LAMBDA x : x.exposure_count),
           SumOf(rows, LAMBDA x : x.selection_count),
           SumOf(rows, LAMBDA x : x.first_selected_run_count)>>)

PerformanceTotal(rows) ==
  Totals(<<"weapon_performance">>, rows,
         <<SumOf(rows, LAMBDA x : x.run_count),
           SumOf(rows, LAMBDA x : x.outcome_observed_run_count),
           SumOf(rows, LAMBDA x : AsCount(x.death_count > 0))>>)

OptionTotal(rows) ==
  Totals(<<"option_outcome_comparison">>, rows,
         <<SumOf(rows, LAMBDA x : x.offered_run_count),
           SumOf(rows, LAMBDA x : x.selected_run_count),
           SumOf(rows, LAMBDA x : x.not_selected_run_count),
           SumOf(rows, LAMBDA x : x.selected_outcome_run_count),
           SumOf(rows, LAMBDA x : x.not_selected_outcome_run_count)>>)

\* UNION ALL of the six.
GoldTotals ==
  {QualityTotal(x) : x \in GoldRows("run_quality")}
  \cup {ProgressionTotal(GoldRows("run_progression")),
        ItemTotal(GoldRows("item_performance_summary")),
        PopularityTotal(GoldRows("weapon_popularity")),
        PerformanceTotal(GoldRows("weapon_performance")),
        OptionTotal(GoldRows("option_outcome_comparison"))}

\* Mutant: a query does not wait for the load.
QueryGoldDuringLoad(engine) ==
  /\ At("dag", "load") \/ At("dag", "query")
  /\ engine \notin DOMAIN answers
  /\ answers' = [e \in DOMAIN answers \cup {engine} |->
                   IF e = engine THEN GoldTotals ELSE answers[e]]
  /\ IF At("dag", "query") /\ DOMAIN answers' = {"snowflake", "athena"}
     THEN Goto("dag", "reconcile") ELSE UNCHANGED job
  /\ UNCHANGED <<snapshot, gold, reports, calls, blocked, started>>

\* query_snowflake_gold and query_athena_gold run side by side.
QueryGold(engine) ==
  /\ At("dag", "query") /\ engine \notin DOMAIN answers
  /\ answers' = [e \in DOMAIN answers \cup {engine} |->
                   IF e = engine THEN GoldTotals ELSE answers[e]]
  /\ IF DOMAIN answers' = {"snowflake", "athena"} THEN Goto("dag", "reconcile")
     ELSE UNCHANGED job
  /\ UNCHANGED <<snapshot, gold, reports, calls, blocked, started>>

\* reconcile_metric_rows: the same keys, and metrics within 0.01, which for
\* counts is equality.
Matched(snowflake, athena) ==
  LET Key(x) == x.dataset_key
  IN  /\ {Key(x) : x \in snowflake} = {Key(x) : x \in athena}
      /\ \A x \in snowflake, y \in athena : Key(x) = Key(y) =>
           x.row_count = y.row_count /\ x.metrics = y.metrics

ReconcileGold ==
  /\ At("dag", "reconcile")
  /\ Matched(answers["snowflake"], answers["athena"])
  /\ job' = [job EXCEPT !["dag"] =
               IF job["dag"].enable_bedrock_report THEN [@ EXCEPT !.stage = "report"] ELSE Idle]
  /\ UNCHANGED <<snapshot, gold, answers, reports, calls, blocked, started>>

-----------------------------------------------------------------------------
(* The report, from the DAG or from the command line.                      *)

StartCli ==
  /\ At("cli", "idle") /\ started["cli"] < MaxReports
  /\ started' = [started EXCEPT !["cli"] = @ + 1]
  /\ Goto("cli", "report")
  /\ UNCHANGED <<snapshot, gold, answers, reports, calls, blocked>>

\* Two sections are cut to the limit; of the others one row more is read, to
\* be refused.  Only items with an outcome are read.
Cut == {"run_progression", "item_performance_summary"}

SectionReads(section, rows) ==
  LET wanted == IF section = "item_performance_summary"
                THEN {x \in rows : x.outcome_observed_run_count > 0} ELSE rows
      limit  == IF section \in Cut THEN RowLimit[section] ELSE RowLimit[section] + 1
  IN  {read \in SUBSET wanted : Cardinality(read) = Min({limit, Cardinality(wanted)})}

ReadSection(w) ==
  /\ At(w, "report") /\ Len(job[w].sections) < Len(Section)
  /\ LET section == Section[Len(job[w].sections) + 1]
     IN  \E read \in SectionReads(section, GoldRows(section)) :
           job' = [job EXCEPT ![w].sections = Append(@, read)]
  /\ UNCHANGED <<snapshot, gold, answers, reports, calls, blocked, started>>

\* build_gold_report_input: no NULL, and no section over its limit.
NoNull(sections) == \A x \in sections[Len(Section)] : x.named

WithinLimits(sections) ==
  \A k \in 1 .. Len(Section) : Cardinality(sections[k]) <= RowLimit[Section[k]]

\* generate_gold_report: one call; the DAG stores the answer, the command line
\* prints it.
CallBedrock(w) ==
  /\ At(w, "report") /\ Len(job[w].sections) = Len(Section)
  /\ NoNull(job[w].sections) /\ WithinLimits(job[w].sections)
  /\ calls' = calls + 1
  /\ job' = [job EXCEPT ![w] = IF w = "dag" THEN [@ EXCEPT !.stage = "put"] ELSE Idle]
  /\ UNCHANGED <<snapshot, gold, answers, reports, blocked, started>>

\* put_ai_report: the key of the date is overwritten.
PutReport ==
  /\ At("dag", "put")
  /\ reports' = [reports EXCEPT ![job["dag"].date] = job["dag"].sections]
  /\ job' = [job EXCEPT !["dag"] = Idle]
  /\ UNCHANGED <<snapshot, gold, answers, calls, blocked, started>>

\* Any step raises, a refused report input among them.
Fail(w) ==
  /\ ~At(w, "idle")
  /\ job' = [job EXCEPT ![w] = Idle]
  /\ UNCHANGED <<snapshot, gold, answers, reports, calls, blocked, started>>

Next ==
  \/ \E date \in ReportDate, enabled \in BOOLEAN : StartDag(date, enabled)
  \/ \E table \in SilverTable : RefreshSnowflake(table)
  \/ CheckGoldQuality
  \/ DeleteGold \/ InsertGold
  \/ \E engine \in {"snowflake", "athena"} : QueryGold(engine)
  \/ ReconcileGold \/ PutReport
  \/ StartCli
  \/ \E w \in Program : ReadSection(w) \/ CallBedrock(w) \/ Fail(w)

Spec == Init /\ [][Next]_vars
-----------------------------------------------------------------------------
(* What must hold.                                                         *)

TypeOK ==
  /\ snapshot \in SilverTable \cup {[d \in {} |-> {}]}
  /\ DOMAIN gold = Range(Dataset)
  /\ \A dataset \in Range(Dataset) : Len(gold[dataset]) <= 1
  /\ \A w \in Program :
       /\ job[w].stage \in Stage /\ job[w].date \in ReportDate
       /\ job[w].enable_bedrock_report \in BOOLEAN
       /\ job[w].statements \in 0 .. 2 * Len(Dataset)
       /\ Len(job[w].sections) <= Len(Section)
       /\ started[w] \in Nat
  /\ DOMAIN answers \subseteq {"snowflake", "athena"}
  /\ DOMAIN reports = ReportDate
  /\ calls <= started["dag"] + started["cli"]
  /\ blocked \in BOOLEAN

\* check_gold_quality: "stops before the external Iceberg load".  However runs
\* fail in between, rows enter a Gold table only from a view over a snapshot
\* whose checks all pass, and never next to rows that are there already.
GoldIsLoadedFromGatedViews ==
  [][\A dataset \in Range(Dataset) :
       gold'[dataset] \in {gold[dataset], <<>>}
       \/ /\ FailedChecks(snapshot) = {}
          /\ gold'[dataset] \in {<<rows>> : rows \in ViewResults(dataset, snapshot)}]_vars

\* The load is not a transaction, but once it is over every Gold table is of
\* the snapshot this run refreshed, until the next run (or a failure) ends it.
LoadedGoldIsOfOneSnapshot ==
  job["dag"].stage \in {"query", "reconcile", "report", "put"} =>
    \A dataset \in Range(Dataset) :
      gold[dataset] \in {<<rows>> : rows \in ViewResults(dataset, snapshot)}

\* reconcile_gold raises no false alarm: the two answers of a run, given in any
\* order, agree.
EnginesAgree ==
  DOMAIN answers = {"snowflake", "athena"} =>
    Matched(answers["snowflake"], answers["athena"])

\* A stored report is written from what its own run loaded, whatever the
\* runs before it left half done.
StoredReportIsOfItsRun ==
  [][\A date \in ReportDate : reports'[date] # reports[date] =>
       \E last \in LastCopyChoices(snapshot) : \A k \in 1 .. Len(Section) :
         reports'[date][k] \in
           SectionReads(Section[k], ViewRows(Section[k], snapshot, last))]_vars

\* Past the gate no NULL is left for build_gold_report_input to refuse
\* (payload.py): a DAG report fails at its limits or at Bedrock only.
NoNullReachesTheDagReport ==
  Len(job["dag"].sections) = Len(Section) => NoNull(job["dag"].sections)

\* docs/architecture.md: "Bedrock is blocked when Snowflake/Athena
\* reconciliation or Gold quality checks fail."
BedrockIsGated == [][blocked => calls' = calls]_vars

-----------------------------------------------------------------------------
(* What the views promise of the snapshot the gate looks at.               *)

Gating == At("dag", "quality")

ProductOnly(table) ==
  [date \in DOMAIN table |->
     {run \in table[date] :
        \A event \in run.events : event.correlation.source_type = ConsentedProdPlay}]

\* The copies of a Run, where it has two, are of one source_type.  (Bodies with
\* another one make a Run INVALID while Bronze holds both.)
OneSourceType(table) ==
  \A row, other \in SilverEvents(table) :
    row.run.run_id = other.run.run_id => SourceType(row) = SourceType(other)

ProductDataset == Range(Dataset) \ {"run_quality"}

\* docs/architecture.md: "Product Gold filters to CONSENTED_PROD_PLAY."  Test
\* traffic changes no product dataset, neither its rows nor its counts.
ControlledRunsAreInvisible ==
  Gating => \A dataset \in ProductDataset :
    ViewResults(dataset, snapshot) = ViewResults(dataset, ProductOnly(snapshot))

\* Runs the gate has no reason to stop: listed items, every selection the only
\* answer to a choice that is there, no end without a whole Run, and at every
\* checkpoint a distance to the next level that does not round to 0.00.  (The
\* schema asks for more than 0 only; the gate stops a load over less than 0.005.)
Sound(run) ==
  /\ Endings(run.events) # {} => run.status = "VALID"
  /\ \A e \in Shown(run.events) : \A option \in e.options :
       Listed(e.correlation.game_version, e.choice_source, option.item)
  /\ \A e \in Starts(run.events) :
       e.starting_weapon = NULL
       \/ Listed(e.correlation.game_version, "level_up_weapon", e.starting_weapon)
  /\ \A e \in Selected(run.events) :
       /\ \E f \in Shown(run.events) : f.choice_id = e.choice_id
       /\ \A f \in Selected(run.events) : f.choice_id = e.choice_id => f = e
  /\ \A e \in Checkpoints(run.events) : e.xp_to_next_level >= HalfHundredth

\* The funnel joins on the item alone: it counts selections once only where no
\* choice offers one item in two slots.
OffersDiffer(run) ==
  \A e \in Shown(run.events) : \A x, y \in e.options : x.item = y.item => x = y

\* create_item_catalog.sql lists each item under one choice_source.  A Run that
\* selected an item from two would count in two rows of the one view and in a
\* single row, of the first source, of the other.
ItemsHaveOneSource(table) ==
  \A row, other \in ProductRows(table, "upgrade_selected") :
    SelectedItem(row) = SelectedItem(other)
    => row.event.choice_source = other.event.choice_source

EndedProductRuns(table) == {run \in ProductRunSummary(table) : run.is_ended}

\* Views that count the same thing in different ways agree: ended Runs,
\* selections, and the Runs that selected an item they were offered.
ViewsAgree ==
  Gating /\ OneCopyPerRun(snapshot) =>
    /\ SumOf(RunOutcome(snapshot), LAMBDA x : x.ended_run_count)
         = Cardinality(EndedProductRuns(snapshot))
    /\ SumOf(ItemPerformance(snapshot), LAMBDA x : x.selection_count)
         = SumOf(ProductRunSummary(snapshot), LAMBDA run : run.upgrade_selected_count)
    /\ SumOf(CheckpointMetrics(snapshot), LAMBDA x : x.checkpoint_event_count)
         = SumOf(ProductRunSummary(snapshot), LAMBDA run : run.checkpoint_count)
    /\ \A x \in ItemPerformance(snapshot), y \in OptionOutcome(snapshot) :
         /\ ItemsHaveOneSource(snapshot)
         /\ x.game_version = y.game_version
         /\ x.choice_source = y.choice_source /\ x.item_id = y.item_id
         => /\ y.selected_run_count <= x.selected_run_count
            /\ y.selected_outcome_run_count <= x.outcome_observed_run_count
    /\ \A x \in RunProgression(snapshot) :
         x.reached_run_count <= x.previous_reached_run_count
    /\ (\A run \in Copies(snapshot) : Sound(run) /\ OffersDiffer(run)) =>
         SumOf(UpgradeFunnel(snapshot), LAMBDA x : x.selection_count)
           = SumOf(ProductRunSummary(snapshot), LAMBDA run : run.upgrade_selected_count)

\* QUALITY_CHECKS stops no load of sound Runs, whatever their checkpoints average
\* to and whichever Runs share a group, as long as each stands there once.
GateRaisesNoFalseAlarm ==
  Gating /\ OneCopyPerRun(snapshot) /\ (\A run \in Copies(snapshot) : Sound(run)) =>
    FailedChecks(snapshot) = {}

\* create_gold_views.sql, run_summary_consistency: an ended Run is valid.
EndedRunsAreValid ==
  Gating => \A run \in RunSummary(snapshot) : run.is_ended => run.run_status = "VALID"
=============================================================================
