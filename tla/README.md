# Verification of PANDOK in TLA+

PANDOK collects anonymous game telemetry: a gateway posts events to a Lambda, the
events travel through Kinesis and Firehose into S3 ("Bronze"), a rebuild groups
them into Runs and keeps the trustworthy ones ("Silver", S3 Parquet and an
Iceberg table), and Snowflake views turn those into metrics ("Gold").
Beside it an exporter of the gateway writes daily aggregates that an importer
takes into SQLite. This directory models what decides what is stored, trusted
and reported, from the gateway's POST to the stored report and from the
gateway's tables to the import, checks it with TLC on small instances, and
proves its main properties with TLAPS for every value of the constants.

Paths below are relative to the repository root.

## 1. Inventory

| Component | State | Operations | Interacts with |
|---|---|---|---|
| Run contract validator, `src/pandok_contracts/validator.py` | none (pure) | `validate_anonymous_event`, `validate_anonymous_sequence` | called by ingestion (single events) and by reconstruction (whole Runs) |
| Run reconstruction and received-date batch, `src/pandok_silver/run_reconstruction.py`, `batch.py` | none (pure, over all of Bronze) | `reconstruct_runs`, `reconstruct_received_date_batch` | called by both rebuild programs |
| Silver rebuild and Iceberg refresh, `airflow/dags/pandok_pipeline.py`, `src/pandok_silver/s3_runner.py`, `s3_writer.py`, two SQL files | Silver and quarantine objects per date, Iceberg rows per date, the batch a task holds | list Bronze, put Silver, put quarantine, DELETE, INSERT | reads Bronze; read by Gold |
| Silver Parquet encoding, `src/pandok_silver/parquet.py` | none | encode | called by the writer |
| Ingestion Lambda and Bronze record, `src/pandok_ingestion/` | per invocation: the request, the wrapped record | authorize, decode, validate, wrap, `put_record`, answer 202/400/401/503, or raise (500) | gateway in front, Kinesis behind |
| Streaming and storage, `infra/` | stream, Firehose, the Lambda's environment, buckets with lifecycle rules, Glue tables | create and destroy by `enable_streaming`, deliver, expire, project | between ingestion, rebuild and Athena |
| Gold views, quality gate and load, `sql/snowflake/`, later DAG tasks | Snowflake's copy of Silver, eleven Gold tables | refresh, define views, check, 11 DELETE and INSERT pairs in autocommit | reads Iceberg Silver; read by the engines, the report, the dashboard |
| Gold reconciliation, `src/pandok_gold/reconciliation.py` | the two engines' answers | query Snowflake and Athena side by side, compare | last gate of the DAG |
| AI report, `src/pandok_reports/` | report object per date | query, call Bedrock, store | after reconciliation, or from its own command line |
| Dashboard, `dashboard/` | none | poll an Athena query, format | reads Gold |
| Gateway export and reference import, `kingcharles_turkiye_gateway/` | the gateway's count tables, export files, the importer's SQLite tables | five SELECTs and a write; validate, insert, commit | files go from the one to the other; a second, aggregate contract |
| Event producer, contract command line, Snowflake semantic view | none | generate, print, describe | tests and people |

Where it is hard:

* **An answer before the effect is known.** A put may take effect and its answer
  be lost; a 202 promises that something else will deliver. Streaming is turned on
  and off in several steps while invocations run.
* **Unreliable, unordered delivery.** The gateway retries, Kinesis and Firehose
  deliver at least once, and a new object's key may sort anywhere in the listing.
  The validator reads a list, but its verdict must be a property of a set.
* **Two deduplications of one Run.** The validator keeps the copy *read* first,
  Silver stores the copy *received* first. They must agree on accepted Runs.
* **Identities across Runs.** One `event_id` in several Runs must discredit all
  of them; the code remembers only the first owner.
* **Recomputed ownership.** A Run belongs to the date of its earliest event, and
  that is computed anew from whatever Bronze holds at each rebuild.
* **No transaction.** Two S3 puts and two Athena statements replace a date; each
  may fail, time out after taking effect, or run on after its caller died. The
  DAG runs one at a time, but the command line overwrites the same keys.
* **Twenty-two statements without a transaction.** The Gold load may stop after
  any of them and leave eleven tables of two loads, one of them empty. The
  report's command line reads them whenever it is started.
* **Importers side by side.** Files are imported again, corrected, or at the same
  time, and an import may stop at any statement.
* **The same thing counted twice.** Eleven views count Runs, selections and
  endings by different joins. The gate compares only some of them.

What correctness means, per component: ingestion stores contract events only,
loses none it accepted unless streaming is being turned on or off, and never makes a sender
give up a good one; the validator computes the contract
verdict of the set of bodies; reconstruction stores exactly what was validated,
puts every Run that shares an identity at fault and never forgives a
contradiction; the batch gives a Run one date and ignores retries; the rebuild
publishes only Runs that the contract accepts from their own rows, and repairs a
date by being run again; the views agree with each other and leave test traffic
out; the gate stops what is inconsistent and nothing else; after a load all Gold
tables are of one snapshot, and a stored report is of its own run's load; the
import database holds whole files, the first of each key for good.

## 2. Modules

| Module | Stands for |
|---|---|
| `EventContract` | `validate_anonymous_event`, over what its rules read of a value |
| `Ingestion` | state machine: invocations of the Lambda, stream, Firehose, `terraform apply`; composes the contract |
| `BronzeFeed` | abstract: how records reach and leave Bronze |
| `TelemetryEvent` | the fields of an event v2 that some Run rule reads |
| `RunContract` | `validate_anonymous_sequence`, computed as the code does |
| `RunVerdict` | abstract: what the contract promises, without an algorithm |
| `RunReconstruction` | `reconstruct_runs`, `reconstruct_received_date_batch`, the split by status |
| `BronzeArrival` | state machine: one more record at any reading position; composes the three above |
| `SilverPipeline` | state machine: DAG, command line, S3, Athena, over the actions of `BronzeFeed` |
| `TrustedStore` | abstract: a table to which only whole results of one read are added |
| `PublishedTable` | the interface of Silver and Gold: what the one promises of the table and the other assumes |
| `GoldViews` | the views of `create_gold_views.sql` and `QUALITY_CHECKS`, operators over a Silver table; extends `PublishedTable` |
| `GoldPipeline` | state machine: the DAG after `refresh_silver_iceberg` and the report's command line; composes the views |
| `AggregateExchange` | state machine: the gateway's counts, the exporter, concurrent importers |
| `AggregateLedger` | abstract: what the importer promises its readers |
| `MCIngestion`, `MCBronzeArrival`, `MCSilverPipeline`, `MCGoldPipeline`, `MCAggregateExchange` | requests, bodies, programs, published Runs and files for TLC |
| `IngestionProofs`, `RunContractProofs`, `RunReconstructionProofs`, `BronzeArrivalProofs`, `SilverPipelineProofs`, `GoldPipelineProofs`, `GoldViewsProofs`, `ExchangeProofs` | theorems |

**From the POST to Bronze.** `Refusal` is the chain of checks of
`lambda_handler` with the answer each gives, 500 where nothing catches what it
raises. An invocation then goes through `Wrap` (the time of receipt is stamped
here, before the put), `Put`, and `Acknowledge` or `Raise`. `Put` may happen any
number of times, as the client library retries, and `Raise` is possible whether
or not it happened. `CreateStream` ... `DestroyStream` are the steps of an apply in any order that
Terraform's dependencies admit: the Lambda's environment names the stream, so
`Enable` needs the stream, and nothing makes it wait for Firehose. `exposed` is a
history variable, the records that were in the stream while it had no Firehose;
no guard reads it.

**The feed between the two halves.** `BronzeFeed` says that any event may appear
in Bronze at any reading position, any number of times, not before it was
received nor more than `MaxDelay` after, and may go when it is old enough. `Ingestion` implements it
(`ImplementsBronzeFeed`: the positions are the stored records themselves and the
delay is `LambdaTimeout + StreamRetention`), and `SilverPipeline` takes its
`Deliver`, `Expire` and `Tick` for its environment. What is
checked of the rebuild therefore holds behind the ingestion.

**The table between Silver and Gold.** `TrustedStore` is what the
rebuild promises whoever reads the Iceberg table: what is added to a date is the
whole result that one read of Bronze gave that date (`Result`), or nothing. Nothing
is merged, split, made up or moved to another date. `SilverPipeline` implements it
(`ImplementsTrustedStore`): between the read and the table a result is held in a
batch, in the Silver object, which two programs overwrite, or in an INSERT that runs
on (`Held`); `ReadBronze` is the store's `Read`, a DELETE its `Clear`, an INSERT that
took effect its `Add`, whether the program saw it, timed out or was gone. `GoldTable` is
the same table as a SELECT of Gold sees it: the bodies of each Run without their times, and a copy
of the Run for every INSERT that wrote it, because rows inserted twice are returned and
counted twice. The rows themselves carry no such number; `insert` is what keeps equal copies
apart in a set. `OneCopyPerRun` says that a table holds no Run twice, under two
dates or from two INSERTs of one.

**The aggregates.** The gateway counts; `SelectTable` is one of the exporter's five SELECTs,
of what is there when it runs, and `WriteFile` writes the complete payload. An
importer reads a file (`Load`), validates it (`Reject`), inserts its key
(`InsertExport`, `IgnoreDuplicate`, `Busy`), then list after list
(`InsertList`, or `RollBack` on a repeated row) and commits. Nobody sees its rows
before `Commit`; `Crash` is possible at every stage. `AggregateLedger`
says what a reader may rely on: entries are added whole and stay. Under the
refinement a row without its export is an entry that no file offered, so leaving
one breaks the refinement.

**Lists.** A list is a function from positions to elements, gaps allowed, so the
events of a Run are read in place out of Bronze (`InputEvents`). `Deduplicated`
is `_deduplicate`, `SequenceHolders` is `events_by_sequence`, `Ordered` is
`sorted_events`. A loop that remembers the previous value becomes a statement
about an element and the one just before it (`JustBefore`): `MeasureDecreased`
compares an event with the last one that carried the same field, as
`previous_values` does. The loop remembers the previous value even after it has
fallen, so this is the same.

**Issues.** `OrderedIssues` is the set of reason codes the scan reports. The
result keeps the status (`SequenceResult`), which is all the pipeline acts on.
`conforms` stands for `validate_anonymous_event` finding nothing;
`"SCHEMA_INVALID"` for whichever code it reported, since none of them is in
`_INCOMPLETE_SEQUENCE_CODES`; `EventContract` models the check itself. Counters are naturals: the schema admits
non-negative numbers and the code compares them as floats (section 5 says what
that leaves out).

**Abstract contract.** `RunVerdict` says: a set of bodies is contradictory when
one of them is broken or two of them clash, and complete when nothing is
missing. No order, no deduplication, no scan. That `ValidateSequence` equals
`Verdict` on every list is the central refinement here.

**Pipeline.** Each remote call is an action: `ReadBronze`, `PutSilver`,
`PutQuarantine`, `DeleteRows`, `InsertRows`. `Fail` is an exception at any of
them (`retries: 0`, nothing is undone), `TimeOut` a statement that took effect
although 300 polls did not see it, `Abandon` an INSERT whose poll raised, so
that no `stop_query_execution` was sent, and `Land` its later commit. `Deliver`
and `Expire` are those of `BronzeFeed`, `Start(w, date)` a person triggering
the DAG or the command line for any past date. `iceberg[date]` keeps the sets
the INSERTs since the last DELETE added, so a doubled insert is visible.

`fresh` and `job[w].current` are history variables: a date is fresh while its
last rebuild saw the Bronze of today and nothing has written over it since. No
guard reads them.

**Gold.** A view is an operator on the table Snowflake saw at its last REFRESH
(`snapshot`). The only view that is not a function of it is the quality summary:
it takes the row with the highest sequence of each Run, and a Run that stands
under two dates may have two such rows, so `RunQuality` takes a choice `last`
and a SELECT returns any of `ViewResults`. The actions follow the tasks:
`StartDag`, `RefreshSnowflake`, `CheckGoldQuality`, twenty-two steps of
`DeleteGold` and `InsertGold` counted by `statements`, `QueryGold` once per
engine in either order, `ReconcileGold`, then `ReadSection` six times,
`CallBedrock` and `PutReport`. `StartCli` starts the report from the command
line, which runs the same section reads and call, at any moment, and prints.
`Fail(w)` ends a program at any of its steps and undoes nothing. `blocked` is a
history variable for Finding 3; no guard reads it.

A view is a set of groups (`GroupBy` on the columns of its GROUP BY) and a row
made of each group, an operator of its own where a theorem speaks of it
(`OutcomeRow`, `CheckpointRow`, `ProgressionRow`, `PostSelectionRow`,
`ItemPerformanceRow`, `WeaponPerformanceRow`, `FunnelRow`; `PostSelectionKey`,
`ItemKey`, `FunnelKey` are the columns).

The table a REFRESH finds is any of the constant `SilverTable`. What such a
table may hold is what the rebuild publishes (`TrustedTable`, assumed of every
table by `PublishedAssumption`): finitely many copies of Runs, each `Accepted`, that is,
with bodies of its own whose `Verdict` is its status and is not INVALID, a row for each
event it counts as unique, and counts that add up. `SilverPipeline` promises just that, of every moment at which the
table can be read (`PublishedTableIsTrusted`). `ColumnAssumption`
names the columns that the schema requires of an event that conforms. TLC
evaluates all of these on the tables of `MCGoldPipeline`.

Some modules contain an operator marked `Mutant:`, a plausible wrong version of
the definition after it. Nothing uses these; substituting one for its neighbour
must break the property it is listed with in `PROJECT.json`, which shows that
the property constrains the code.

Abstractions that matter:

* A request is what the checks of the Lambda tell apart: the kind of its key, how its
  body is encoded and how long it is, whether the text parses, and the event. A
  JSON value is the paths to its keys and the set of schema definitions it
  satisfies; the JSON schema itself is data.
* Firehose is never behind by the stream's retention while it exists (`InTime`).
  An outage of S3 for longer than Firehose retries is not modelled.
* The rows of an aggregate table with one date are taken together by the event they count;
  what the export schema says of a file is one bit. A file that no exporter
  wrote may say anything (`Sample`).
* The listing and reading of Bronze is one step, at the end of the listing. The
  code reads objects one by one while others appear and expire; a record that
  appears during the listing and is missed is one delivered after the step. A
  mixture that no single moment had (an object expired behind the reader while
  another appears ahead of it) is not modelled.
* A record is an object of its own; in S3 an object holds up to five minutes of
  records. Expiry of single records covers expiry of objects in several steps.
* An abandoned DELETE needs no state: it removes the rows it found, or fails when
  another commit touched them, so it acts as `TimeOut` or `Fail`.
* A malformed wrapper (`SilverInputError`) or an unreadable object is a `Fail`.
* Parquet encoding and the issue texts stored with a Run are left out.
* In the views a text column is its rank in string order (`MAX` of a text is the
  maximum of ranks) and NULL is 0, below every value. Percentages and averages
  are left out: the divisor is a count that is modelled, and the code
  guards it with `NULLIF` or averages within a group. So are the range checks of `QUALITY_CHECKS` that hold of any
  counts, or of any percentage or average of what the schema bounds. The one average that a published row can
  fail is modelled: `average_xp_to_next_level` must be above 0, the schema only asks a
  distance above 0, and the view rounds to two decimals. `RoundedAverage` counts distances in
  units of which `HalfHundredth` make 0.005.
* The two sections the report cuts (`ORDER BY ... LIMIT`) are any part of the
  limit's size; the order is of percentages.
* The size limit of the report input, an answer without text, and a refused
  request are a `Fail`.
* A statement of the load ends with its task. A Snowflake statement that runs on
  after its task died, as an abandoned INSERT of Athena does, is not modelled.

## 3. Runs

| Run | Bounds | Question |
|---|---|---|
| `arrival_one_run` | 23 bodies of one Run, 4 records, any reading order | Does the validator compute the contract verdict, with upgrade choices, misplaced starts and ends, conflicting copies, foreign correlation, checkpoints and counters? Can a later event part two neighbours and hide a fall? |
| `arrival_shared` | 6 bodies of 3 Runs, 4 records, 3 ticks, 2 per date, lateness 1 | Shared `event_id`s and conflicting copies: is what is stored what was validated, are all sharers at fault, and what can a retry or a late record change in the batches of the dates? |
| `pipeline_dag` | 2 bodies, 2 records, 2 dates, DAG and command line | Failures and timeouts at every call, and two programs racing for the same objects, while Bronze grows and shrinks and the older date leaves the projected range. |
| `pipeline_abandoned` | 2 contradicting bodies, 2 records, 2 dates, DAG, 1 abandoned INSERT | Is the table a store of whole results that Gold may trust at any moment? Does a rebuild repair a date after a statement nobody waits for, and rebuilding both dates the table? (Both stay in the projected range here; in `pipeline_dag` the older leaves it.) |
| `pipeline_duplicates` | 2 bodies, 2 records, 2 dates | Finding 1. |
| `pipeline_backfill` | 2 bodies, 1 record, 1 abandoned INSERT | Finding 2. |
| `ingestion` | 4 kinds of request, 2 posts, 2 invocations, 3 ticks | With streaming turned on and off between any two steps, lost answers, repeated puts and deliveries: does a 202 hide a loss, does a good request get an answer on which a sender gives up, is every request answered and every safe record stored, does Bronze see what the rebuild is modelled on? |
| `exchange` | 4 given files and 1 built one, 3 imports by 2 importers, 2 dates, 1 build, 2 tables the database may lack | Is the database a ledger of whole files whatever crashes, collides or runs side by side; does an export lie between the counts at its start and now? |
| `gold_views` | every table of up to 3 of 9 copies of Runs over 2 dates, 1 DAG run | Does test traffic leave product Gold alone, do views that count the same thing agree, does the gate let sound Runs pass? |
| `gold_dag` | 3 tables, 2 DAG runs, 1 command line | With a failure possible at each of the 22 statements and every call after: are loaded tables of one snapshot, do the engines agree, is a stored report of its own run? |
| `gold_bedrock` | as `gold_dag` | Finding 3. |
| `gold_ended` | as `gold_views` | Finding 4. |

Four records are enough for the arrival runs because every rule of the scan
relates at most two events once deduplication is done, and a third and fourth
record supply a conflicting copy and an event standing between the two. The
universes hold, for each rule, bodies that break it and bodies that satisfy it.
Reading positions are a bounded range that records may fill in any order, so
every reading order occurs. Two records and two dates are enough for the pipeline
because its steps treat a batch as a value: what matters is that two rebuilds
can see two different Bronze contents, that a Run can change its date, and that
it can change its status. The theorems remove these bounds for most properties.

Two invocations and two posts are enough for `ingestion` because invocations
share only the stream and the toggle: one may put, be unsure and leave, the other put
the same event again or be caught by the toggle. Three ticks let an invocation time
out and a record leave the stream. `MCIngestion` also lists a request for every
way to be refused and has TLC evaluate that each is. In `exchange` one importer can hold the
lock while another reads the same or the corrected file, and a third import can
come after both. `Optional` names the tables that the gateway's database may lack: the exporter
looks for four of the five with `table_exists` and takes a missing one for empty. The run lets the
third and the last of the five be missing, each alone and both, so that a missing table stands between two that
are read and at the end; the theorems allow any of the four. The files are a first and a corrected one of a key, one with a row twice, one that
the contract refuses, and what the exporter adds. The two importers are
symmetric.

The nine copies of `gold_views` are those the views can tell apart: a whole Run
that answers two choices and dies within a minute, the same Run as a second INSERT wrote
it again, an earlier edition of it (so that one Run stands under two dates), a Run without an end, an
ended Run with a gap, an item the catalog does not know, a test Run, a Run
that selects one item twice, and a Run whose checkpoint is 0.004 below the next level
(`HalfHundredth` is 5): alone in its group it fails the gate, averaged with another it
does not. Sums over three Runs show a double count. `gold_dag`
needs two DAG runs, so that a load can start from what a failed one left, and
two tables that pass the gate, one of them of a date inserted twice, so that the halves of two loads differ, besides
one that the gate stops; one of the tables is also over a report limit
(`RowLimit` is 1 for checkpoints and 4 elsewhere; the code has 4 to 100, and
only the comparison matters).

The arrival runs set `CHECK_DEADLOCK FALSE`: their environment stops when all
positions are filled. So do the Gold runs, where `MaxRuns` and `MaxReports` bound
how often a program starts, and `exchange`, where `MaxImports` and `MaxBuilds` do.
The Silver pipeline and the ingestion never stop (a program can always start,
streaming can always be turned on or off), and their runs check deadlock.

**Fairness and liveness.** `FairSpec` of `Ingestion` assumes weak fairness of
`Refuse \/ Wrap` and of `Acknowledge \/ Raise` for each invocation: code without
a loop or a lock, which the Lambda runtime ends at its timeout in any case; `Put`
owes nothing. It assumes weak fairness of the delivery of each record while
there is a Firehose, which is what Firehose is for. Nothing is assumed of the
gateway, the clock or the toggle. From this every request is answered
(`EveryRequestIsAnswered`) and every accepted record is stored unless it was
exposed (`AcceptedIsStored`).

No other fairness is assumed. The DAG has no
schedule and no retries; a person starts it, and the export and import too.
Nothing in the code makes a rebuild happen or finish, so what can be said is
conditional, and is said as safety: *if* a date was rebuilt after the last
change of Bronze, *then* it is exact (`FreshDateIsExact`), and *if* all were,
*then* no event is counted twice (`EveryDateFreshMeansNoDuplicate`).

## 4. Theorems

The theorems about arrival and pipeline hold for every set of bodies that satisfies `EventAssumption` (the
minima of the schema, canonical text identifying a body), every number of
records, every horizon, every day length and lateness, any delay, retention and
projected range, and for the command line present or absent.

* `ValidatorComputesVerdict`: on every list `ValidateSequence(s) = Verdict(...)`.
  If a body does not conform, both say INVALID. If two bodies share an identity,
  the earliest position among them is a kept copy, so the duplicate or sequence
  check speaks. Otherwise the kept events are exactly the bodies of the list, and
  all have different sequence numbers. Then each rule of the scan is compared
  with its pairwise form. For rules about neighbours this needs that a fall
  between two distant events implies a fall between two neighbours (lemma
  `NeighboursShowIt`: of all pairs that fall take a closest one; an event between
  its two would give a closer pair), and the rules against a chosen event (the
  earliest start, the first shown choice) need that such an event exists
  (`EarliestExists`).
* `MoreBodiesKeepContradiction`, and from it `ContradictionIsPermanentHolds`: the
  verdict is a statement about pairs, so adding records keeps a contradiction.
* `AcceptedRunIsStoredWhole`: of an accepted Run, any two records with the same
  `event_id` have the same body, so the copy received first and the copy read
  first are the same event.
* `RetryIsInvisibleHolds` (in a batch only the counts of received records and of
  retries see it): what a Run stores of an `event_id` is its earliest copy
  (`IsEarliestCopy`: received first, then smallest canonical body), a notion that no
  shift of reading positions changes, so a batch is a function of the Runs, their
  verdicts and their earliest copies (`BatchIsOfItsParts`). A later retry
  is the earliest copy of nothing, adds no body and no Run
  (`LaterRetryChangesNoBatch`).
* `OwningDateMovesBackOnlyHolds`: a Run is dated by its record received first,
  which only a record received before it replaces.
* `SharedIdentityHolds`, from `CrossRunIssueIsSharing`: whichever record owns the
  id, a Run that shares it either is the owner's, and then the other Run's record
  names it, or is not, and then its own record does. (Records of different Runs
  never have equal bodies.)
* `PipelineImplementsStore`: each step of the pipeline is a step of `TrustedStore` or
  leaves bronze, held and table alone (`StoreStep`, one step per action). Only
  `ReadBronze` brings in something new, and it is the result for its date
  (`NothingNewIsHeld` for all the others, since a date holds afterwards what it held, what
  was put from a batch of it, or less).
* `PublishedRunsRevalidateHolds`, by `OriginInv`, an invariant of the *abstract* store: whatever
  is held for a date or in its table is nothing or the `Result` of some well-formed Bronze. It is
  needed because the property speaks only of the table, and a Run reaches it through
  the places `Held` lists. That a Run of a result revalidates is then a
  lemma about one batch (`AcceptedBatchRunRevalidates`), with no state machine in it.
* `PublishedTableIsTrustedHolds`, from the same invariant: a result is finite
  (`ResultIsFinite`), its Runs carry the verdict of their stored bodies, no two stored
  events have one body, so that the unique count is the number of bodies (`UniqueCountIsOfBodies`), and of their records each is
  the one stored, a retry of it or in conflict with it (`CountsAddUp` of
  `RunReconstructionProofs`). It speaks of every copy: a date inserted twice holds two of
  each Run, and what Gold makes of them is what the Gold theorems say of such tables. With it the assumption
  `PublishedAssumption` of the Gold theorems is what the pipeline guarantees of
  `GoldTable`, not one more thing to trust.
* `FreshDateIsExactHolds`, by `FreshInv`: besides the property, what `current`
  means at each stage (the batch is that of today's Bronze, after the put the
  Silver object is too, after the DELETE the date has no rows), that only the DAG
  deletes and inserts, and that the date it is rebuilding is not fresh. The
  property alone is not inductive: nothing in it says what an INSERT is about to
  add, or that a DELETE never hits a fresh date.
* `InsertedOnceHolds`, by `OnceInv`, under `MaxAbandoned = 0`: at the stage
  `insert` the date has no rows. The assumption is necessary, see Finding 2.
* `EveryDateFreshHolds`: from `FreshInv`, since a fresh date has the rows of one INSERT, a Run has one owning date, an
  accepted Run stores an `event_id` once, and two Runs with a common one are
  not accepted.
* `EveryDateFreshMeansOneCopy`: then each Run also has one copy in `GoldTable`
  (`OneDateOwnsARun`), which is the hypothesis `OneCopyPerRun` of the Gold properties.
* `TypeCorrect`, `PipelineTypeCorrect`: the type invariants.

The Gold theorems hold for every catalog with one row per key
(`CatalogAssumption`, the VALUES of `create_item_catalog.sql`), every set of
Silver tables whose Runs are VALID or INCOMPLETE, all limits and any number of
DAG runs and command lines (`GoldAssumption`). They share one inductive
invariant, `GoldInv`:

* `LoadedGoldHolds` and `GatedLoadHolds`, by `TypeInv` and `LoadInv`. The
  property speaks only of the stages after the load, so it says nothing that
  the last INSERT could rely on. `LoadInv` says what each statement count means:
  the snapshot passed every check, the tables before the current pair hold one
  result of their view over it, and at an odd count the current table is empty.
  The last INSERT then completes all eleven (`AfterTheLoad`). That no data set is
  named twice in `Dataset` is what keeps a pair from undoing an earlier one.
* `EnginesAgreeHolds`, by `AnswerInv`: while the queries are running every answer
  equals the totals of the tables as they are now, which no step then changes.
  That two equal answers match is not immediate, since a repeated key would make
  rows of one answer differ: `LoadedTotalsHaveOneKey` shows that the quality
  summary has a row per status.
* `StoredReportHolds` and `NoNullHolds`, by `ReportInv`: the sections the DAG has
  read so far are reads of the loaded tables. The report reads only items that
  have a name after the gate (`item_performance_summary_ranges`).
* `ControlledRunsAreInvisibleHolds`, when the copies of a Run are of one
  `source_type` (`OneSourceType`) in every published table. They are wherever each Run
  stands once (`OneCopyMeansOneSource`: `source_type` is part of the correlation all
  events of a Run share); two copies of a Run with different source types could only lie
  side by side after the Bronze of the first has expired. Each product view
  reads the table through `ProductRows` and
  `ProductRunSummary` alone (`ProductViewsAreOfProduct`), and both are the same
  with and without the test Runs (`SameProductRows`, `SameProductSummaries`: a
  Run's summary takes the greatest `source_type` of its rows, which is the
  only one). So counts and sums are equal with no argument about either. The choice
  of last rows is any of `LastCopyChoices`, and there is one
  (`TrustedChoicesExist`). TLC evaluates the hypothesis on the published Runs
  (`OneSourceTypes`).
* `NoFalseAlarmHolds`: check by check, from `SummariesAreConsistent` to
  `SelectedWeaponsWereShown`, nothing a sound Run can do fails it
  (`NoCheckFails`). A sound checkpoint is at least 0.005 below the next level, so the sum
  of a group is at least as many halves of a hundredth as it has rows (`SumAtLeast`) and no average rounds to
  0.00 (`CheckpointsAreInRange`, for groups of any size). The core of the rest is `SelectionIsAnswer`: in a sound Run a selection has
  the choice it answers beside it, in the same Run and from the same source, and
  no other selection has that choice. So every selected item was offered and is
  listed, and mapping a selection to the option it took merges no two of them:
  there are no more selections of a weapon than exposures.
* `ViewsAgreeHolds`: every equation between two views is brought down to one set
  of rows that both count. `OutcomesAddUp`, `CheckpointsAddUp`,
  `PerformancesAddUp`, `FunnelAddsUp` and `CountsAddUp` each say that a column,
  summed over its view, is the number of product rows of one event name: each
  row is counted by one group (a summary by `SiblingFacts`: the rows of a `run_id`
  are of one copy; the funnel by `JoinedOnce`: a selection is joined to exactly
  one exposed option, because a Run that shows one `choice_id` twice clashes).
  `OptionsAreWithinItems` maps an offer that was taken to the outcome of its Run
  for that item, `ReachedFallsOff` follows from a Run that reached a checkpoint
  being counted for the one before.
* `GoldTypeCorrect`: no Gold table holds two loads, and Bedrock is called at most
  once per started program.

The ingestion theorems hold for any requests, any number of invocations, posts
and ticks, and any timeout and retention (`IngestionAssumption`). Their invariant
adds four facts to the properties:

* `AcceptedIsSafeHolds`: the property speaks of answers, so the step from the put
  to the answer needs `TakenIsSafe` (what the stream took of a running invocation
  is in the stream, in Bronze or exposed), and the step that loses records needs
  `UnreadIsExposed` (without a Firehose whatever waits in the stream is stored or
  exposed already, so that dropping it takes nothing from the right-hand side).
* `GoodRequestHolds` needs only that 400 and 401 come from `Refuse`.
* `IngestionImplementsFeed`: a step of the ingestion is a step of the feed or leaves now and Bronze
  alone. `WrappedInTime` (a running invocation is within its timeout) and
  `PutInTime` (a record waits no longer than the retention) give the bound on the
  delay, their sum.
* `IngestionTypeCorrect` also says that only contract events get past the checks.

The exchange theorems hold for any dates, files, counts and number of importers.
`AnswersAreTrueHolds` needs that one importer writes at a time and only under a
key that is not there (`OneWriter`), that rows lie under keys of `kc_exports`,
one per key (`Keyed`), and that the rows are there already at `committed`, before
anything is printed (`AnswersHold`). `ExchangeImplementsLedger` maps `Commit` to
`Record` and all other steps to `Offer` or a stutter; `ReadsAFile` supplies that
what is recorded was offered.
`ExchangeTypeCorrect` is the type invariant. `ExportIsBracketedHolds` needs that
counts never fall below `since` while a file is being built (`SinceHolds`) and what
one SELECT returns: a list with one row for each event counted by then
(`SelectedRows`, from what `SetToSeq` lists).

**Sums.** The views add up columns, and the library has no theorem about the sum
of a function. The section on sums of `GoldViewsProofs` supplies them.
`SumFunction` is defined by a recursion over subsets, so nothing is known of it
until the recursion is shown to have a solution: `SumIsDefined` shows it, by
induction on the size of the subsets. From it come the laws: `SumFacts` (any element can be
taken out), `SumSame`, `SumByGroups` and `CountByGroups` (summing group by group
sums everything). The library's induction theorems take the induction hypothesis
as an operator parameter, which the provers cannot instantiate; `SubsetInduction`
and `ElementInduction` take it as a *set* of subsets instead and need no such
parameter.

Beyond the prover's reach: liveness under
fairness and `ENABLED` (`EveryRequestIsAnswered`, `AcceptedIsStored`), and induction over data where the hypothesis cannot be put
as a set. Every safety and action property of a passing run is proved. No module uses
`RECURSIVE`.

## 5. Findings

1. **Duplicates can be trusted twice** (`pipeline_duplicates`).
   `docs/project-scope.md:73` lists "Duplicate events do not duplicate trusted
   metrics." A Run is published under the date of its earliest record. If that
   record reaches Bronze after the Run was published (received before midnight,
   delivered after its retry), a rebuild of the earlier date publishes the Run
   there, and the DELETE clears only the date being rebuilt. Both dates hold the
   events until the later one is rebuilt too. `EveryDateFreshHolds` shows that
   rebuilding all dates repairs it.
2. **A backfill can hold two results** (`pipeline_backfill`). The comment of
   `sql/delete_silver_iceberg_date.sql:2` says the DELETE keeps the old and new
   result of a same-date backfill from being duplicated. `_run_athena_query`
   stops its statement after the last poll only; if a poll raises, the INSERT
   goes on and may commit after the next run's DELETE. Gold does not notice: sound Runs inserted twice pass
   `QUALITY_CHECKS` as they would once, and the reconciliation, whose engines read the same doubled rows
   (a table of `gold_dag` is one), and every `COUNT(*)` over its rows is doubled.
3. **The command line calls Bedrock behind a closed gate** (`gold_bedrock`).
   `docs/architecture.md:168` says "Bedrock is blocked when Snowflake/Athena
   reconciliation or Gold quality checks fail." In the DAG it is. `main` of
   `src/pandok_reports/runner.py` reads the Gold tables and calls Bedrock
   whatever the last gate said.
4. **The gate stops Runs that Silver may publish** (`gold_ended`).
   `docs/event-data-model.md:38` says a missing sequence value makes a Run
   `INCOMPLETE`. A Run whose end arrived and one earlier event did not is
   INCOMPLETE and published; `run_summary_consistency`
   (`create_gold_views.sql:699`) takes every ended Run that is not valid for an
   inconsistency. One lost event then stops the Gold load of all dates, because
   the views read all of Silver. `GateRaisesNoFalseAlarm` shows that without such
   Runs, unlisted items, choices answered more than once and distances to the next level
   that round to 0.00 it stops nothing, as long as each Run stands in the table once.

Worth knowing, but contradicting nothing in the repository:

* A record accepted with 202 is lost when there is no Firehose to read it:
  between the stream's creation and Firehose's (the Lambda may be enabled
  first), and when streaming is turned off before Firehose has read what waits. `AcceptedIsSafe` and `AcceptedIsStored`
  name this exception and show that it is the only one.
* `data_class` is not part of the import key, and the exporter's `--revision`
  defaults to 1: a corrected export under the same key, or a production one after
  a synthetic one, is answered `DUPLICATE_IGNORED` and changes nothing.
* An export's tables are of different moments: `upgrade_option_counts` is read
  before `upgrade_selected_counts`, so it may show more selections than offers.
* `json.loads` accepts `NaN`, which passes every minimum of the schema and makes
  a fall of the counter that carries it invisible; integers beyond the range of a
  float stop every rebuild that reads them. The models compare naturals.
* A key that is not ASCII, or JSON nested too deeply, is answered by an exception (500), not by 401
  or 400.
* `PRODUCT_ITEM_PERFORMANCE_SUMMARY` counts a Run's selections of an item under
  the source of the first, `PRODUCT_OPTION_OUTCOME_COMPARISON` under each source
  they had. The catalog lists every item under one source; with an item under two
  the views would disagree (`ItemsHaveOneSource` in `ViewsAgree`).
* The upgrade funnel joins a selection on the item alone, so a choice that offers
  one item in two slots counts it for both.
* The schema asks of `xp_to_next_level` that it be above 0, `checkpoint_value_ranges`
  (`create_gold_views.sql:734`) that its average rounded to two decimals be. A checkpoint less than
  0.005 below the next level that stands alone under its number fails the Gold load of all dates.
* A report from the command line may read a half-loaded Gold, in which every
  check and the reconciliation have passed for another snapshot.
* Rerunning a date older than the projected range of `silver_events` (30 days)
  deletes its rows and inserts none; rerunning a date whose Bronze has partly
  expired replaces complete Runs by what is left of them.
* The quarantine object of a date may come from another read of Bronze than the
  Silver object when the command line overlaps the DAG.

## 6. Not modelled, and the plan

Worth doing next, in this order:

1. `OneSourceType` of every table the pipeline can publish, not only when each Run has one
   copy: for that the record that two copies of a Run have in common, or the expiry of
   all of them, must be followed through the rebuilds.
2. Snowflake statements of the load that outlive their task, once the account's
   setting for them is part of the repository.

Left out for good: the Parquet encoding and the SQL wording of metrics (data
conversions), percentages and averages but one, NULLs and the tolerance of the
reconciliation (they need fractions), the event producer and the contract
command line (no state), the dashboard's formatting, the Snowflake semantic view,
and Terraform other than the streaming toggle and the values the models use. The
JSON schemas are data: which definitions a value satisfies is an input of
`EventContract`, and whether a file conforms one of `AggregateExchange`.
