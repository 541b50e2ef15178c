--------------------------- MODULE SilverPipeline ---------------------------
(***************************************************************************)
(* From Bronze to the trusted Iceberg table, one received_date at a time.  *)
(*                                                                         *)
(* Bronze grows behind the pipeline's back (Firehose) and shrinks (the S3  *)
(* lifecycle rule).  Two programs rebuild a date: the Airflow DAG, one run *)
(* at a time, which goes on to replace the date's Iceberg rows, and the    *)
(* command line of s3_runner, which stops at the S3 objects.  Every remote *)
(* call is a step of its own, may fail, and ends the program when it does  *)
(* (retries: 0); an Athena statement may also have taken effect when its   *)
(* caller gives up on it, or go on running with nobody waiting for it.     *)
(***************************************************************************)
EXTENDS RunReconstruction, PublishedTable, Sequences

CONSTANTS Rebuilder,        \* the programs that run: "dag", "cli"
          BronzeRetention,  \* age at which a Bronze object may expire
          MaxDelay,         \* longest time between receipt and Bronze
          ProjectionDays,   \* dates back that the silver_events table shows
          MaxAbandoned,     \* bound: INSERTs left running when polling raises
          MaxRecords,       \* bound: records Bronze can hold
          Horizon           \* bound: last clock tick

ASSUME PipelineAssumption ==
  /\ Rebuilder \subseteq {"dag", "cli"}
  /\ BronzeRetention \in Nat /\ MaxDelay \in Nat /\ ProjectionDays \in Nat
  /\ MaxAbandoned \in Nat /\ MaxRecords \in Nat /\ Horizon \in Nat

VARIABLES
  now,         \* the clock
  bronze,      \* reading position -> [event, received_at, stored_at]
  silver,      \* date -> the Runs in silver/received_date=.../events.parquet
  quarantine,  \* date -> the Runs in quarantine/received_date=.../events.parquet
  iceberg,     \* date -> the Run sets the INSERTs since its last DELETE added
  running,     \* INSERTs whose caller is gone: [date, rows]
  job,         \* program -> what it is doing
  fresh        \* history: dates whose last rebuild saw today's Bronze

vars == <<now, bronze, silver, quarantine, iceberg, running, job, fresh>>

Time == 0 .. Horizon
Date == DateOf(0) .. DateOf(Horizon)
Position == 1 .. MaxRecords

\* batch is the list the task holds from the read on; current is history:
\* nothing has changed the Bronze read, the Silver object put or the rows
\* deleted since.
Stage == {"idle", "read", "put_silver", "put_quarantine", "delete", "insert"}
Idle == [stage |-> "idle", date |-> DateOf(0), batch |-> {}, current |-> FALSE]

Init ==
  /\ now = 0
  /\ bronze = [i \in {} |-> {}]
  /\ silver = [d \in Date |-> {}]
  /\ quarantine = [d \in Date |-> {}]
  /\ iceberg = [d \in Date |-> <<>>]
  /\ running = {}
  /\ job = [w \in Rebuilder |-> Idle]
  /\ fresh = {}

-----------------------------------------------------------------------------
(* The world outside: BronzeFeed, and what it does to the history.         *)

Feed == INSTANCE BronzeFeed

Tick ==
  /\ Feed!Tick
  /\ UNCHANGED <<silver, quarantine, iceberg, running, job, fresh>>

\* Whatever was rebuilt or is being rebuilt has not seen the new Bronze.
BronzeChanged ==
  /\ fresh' = {}
  /\ job' = [w \in Rebuilder |-> [job[w] EXCEPT !.current = FALSE]]
  /\ UNCHANGED <<silver, quarantine, iceberg, running>>

Deliver(position, event, time) == Feed!Deliver(position, event, time) /\ BronzeChanged

Expire(position) == Feed!Expire(position) /\ BronzeChanged

-----------------------------------------------------------------------------
(* A rebuild of one date, by the DAG or by the command line.               *)

At(w, stage) == job[w].stage = stage

Goto(w, stage) == job' = [job EXCEPT ![w].stage = stage]

\* max_active_runs = 1: the DAG starts when it is idle, for any past date.
Start(w, date) ==
  /\ At(w, "idle")
  /\ date <= DateOf(now)
  /\ job' = [job EXCEPT ![w] = [Idle EXCEPT !.stage = "read", !.date = date]]
  /\ UNCHANGED <<now, bronze, silver, quarantine, iceberg, running, fresh>>

\* Mutant: only the Bronze of the date is read.
ReadBronzeOfDate(w) ==
  /\ At(w, "read")
  /\ DOMAIN bronze # {}
  /\ LET ofDate == {i \in DOMAIN bronze : DateOf(bronze[i].received_at) = job[w].date}
     IN  job' = [job EXCEPT
                   ![w].stage = "put_silver",
                   ![w].batch = ReceivedDateBatch([i \in ofDate |-> bronze[i]], job[w].date),
                   ![w].current = TRUE]
  /\ UNCHANGED <<now, bronze, silver, quarantine, iceberg, running, fresh>>

\* The whole of Bronze is listed; no record at all stops the rebuild.
ReadBronze(w) ==
  /\ At(w, "read")
  /\ DOMAIN bronze # {}
  /\ job' = [job EXCEPT ![w].stage = "put_silver",
                        ![w].batch = ReceivedDateBatch(bronze, job[w].date),
                        ![w].current = TRUE]
  /\ UNCHANGED <<now, bronze, silver, quarantine, iceberg, running, fresh>>

\* The fixed key is overwritten, under any other rebuild of the date as well.
PutSilver(w) ==
  /\ At(w, "put_silver")
  /\ silver' = [silver EXCEPT ![job[w].date] = SilverRuns(job[w].batch)]
  /\ fresh' = fresh \ {job[w].date}
  /\ job' = [v \in Rebuilder |->
               IF v = w THEN [job[w] EXCEPT !.stage = "put_quarantine"]
               ELSE IF job[v].date = job[w].date THEN [job[v] EXCEPT !.current = FALSE]
               ELSE job[v]]
  /\ UNCHANGED <<now, bronze, quarantine, iceberg, running>>

\* Mutant: both objects of a date have the same key.
PutQuarantineOverSilver(w) ==
  /\ At(w, "put_quarantine")
  /\ silver' = [silver EXCEPT ![job[w].date] = QuarantineRuns(job[w].batch)]
  /\ job' = [job EXCEPT ![w] = IF w = "dag" THEN [@ EXCEPT !.stage = "delete"] ELSE Idle]
  /\ UNCHANGED <<now, bronze, quarantine, iceberg, running, fresh>>

\* The command line ends here, the DAG goes on to refresh_silver_iceberg.
PutQuarantine(w) ==
  /\ At(w, "put_quarantine")
  /\ quarantine' = [quarantine EXCEPT ![job[w].date] = QuarantineRuns(job[w].batch)]
  /\ job' = [job EXCEPT ![w] = IF w = "dag" THEN [@ EXCEPT !.stage = "delete"] ELSE Idle]
  /\ UNCHANGED <<now, bronze, silver, iceberg, running, fresh>>

\* delete_silver_iceberg_date.sql
DeleteEffect(date) == iceberg' = [iceberg EXCEPT ![date] = <<>>]

\* insert_silver_iceberg_date.sql: selects from the Silver object of the date,
\* which the table shows only while the date is within its projected range.
Projected(date) == date + ProjectionDays >= DateOf(now)

RowsToInsert(date) == IF Projected(date) THEN silver[date] ELSE {}

InsertEffect(date, rows) == iceberg' = [iceberg EXCEPT ![date] = Append(@, rows)]

DeleteRows(w) ==
  /\ At(w, "delete")
  /\ DeleteEffect(job[w].date)
  /\ Goto(w, "insert")
  /\ UNCHANGED <<now, bronze, silver, quarantine, running, fresh>>

InsertRows(w) ==
  /\ At(w, "insert")
  /\ InsertEffect(job[w].date, RowsToInsert(job[w].date))
  /\ job' = [job EXCEPT ![w] = Idle]
  /\ fresh' = IF job[w].current /\ Projected(job[w].date)
              THEN fresh \cup {job[w].date}
              ELSE fresh
  /\ UNCHANGED <<now, bronze, silver, quarantine, running>>

\* A step raises: the program ends and nothing is undone.
Fail(w) ==
  /\ ~At(w, "idle")
  /\ job' = [job EXCEPT ![w] = Idle]
  /\ UNCHANGED <<now, bronze, silver, quarantine, iceberg, running, fresh>>

\* Mutant: a statement that timed out is sent again.
TimeOutAndRetry(w) ==
  /\ \/ At(w, "delete") /\ DeleteEffect(job[w].date)
     \/ At(w, "insert") /\ InsertEffect(job[w].date, RowsToInsert(job[w].date))
  /\ UNCHANGED <<now, bronze, silver, quarantine, running, job, fresh>>

\* The 300 polls are used up, and the statement took effect before the stop
\* request reached it.
TimeOut(w) ==
  /\ \/ At(w, "delete") /\ DeleteEffect(job[w].date)
     \/ At(w, "insert") /\ InsertEffect(job[w].date, RowsToInsert(job[w].date))
  /\ job' = [job EXCEPT ![w] = Idle]
  /\ UNCHANGED <<now, bronze, silver, quarantine, running, fresh>>

\* Only the last poll is followed by stop_query_execution: when a poll raises,
\* the program ends and its INSERT runs on.  (A DELETE that runs on removes
\* the rows it found, if any commit on the date since did not make it fail:
\* to every reader it is a TimeOut or a Fail.)
Abandon(w) ==
  /\ At(w, "insert")
  /\ Cardinality(running) < MaxAbandoned
  /\ running' = running \cup {[date |-> job[w].date, rows |-> RowsToInsert(job[w].date)]}
  /\ job' = [job EXCEPT ![w] = Idle]
  /\ UNCHANGED <<now, bronze, silver, quarantine, iceberg, fresh>>

\* An append to an Iceberg table conflicts with no other commit.
Land(statement) ==
  /\ InsertEffect(statement.date, statement.rows)
  /\ running' = running \ {statement}
  /\ fresh' = fresh \ {statement.date}
  /\ job' = [w \in Rebuilder |->
               IF job[w].date = statement.date /\ At(w, "insert")
               THEN [job[w] EXCEPT !.current = FALSE]
               ELSE job[w]]
  /\ UNCHANGED <<now, bronze, silver, quarantine>>

Rebuild(w) ==
  \/ \E date \in Date : Start(w, date)
  \/ ReadBronze(w) \/ PutSilver(w) \/ PutQuarantine(w)
  \/ DeleteRows(w) \/ InsertRows(w)
  \/ Fail(w) \/ TimeOut(w) \/ Abandon(w)

Next ==
  \/ Tick
  \/ \E position \in Position, event \in Event, time \in Time :
       Deliver(position, event, time)
  \/ \E position \in DOMAIN bronze : Expire(position)
  \/ \E w \in Rebuilder : Rebuild(w)
  \/ \E statement \in running : Land(statement)

Spec == Init /\ [][Next]_vars

-----------------------------------------------------------------------------
(* What must hold.                                                         *)

StoredRow == [event : Event, first_received_at : Time]

StoredRun == [run_id : {e.run_id : e \in Event}, status : SequenceStatus,
              events : SUBSET StoredRow, counts : [CountName -> Nat]]

TypeOK ==
  /\ now \in Time
  /\ DOMAIN bronze \subseteq Position
  /\ bronze \in [DOMAIN bronze -> [event : Event, received_at : Time, stored_at : Time]]
  /\ silver \in [Date -> SUBSET StoredRun]
  /\ quarantine \in [Date -> SUBSET StoredRun]
  /\ iceberg \in [Date -> Seq(SUBSET StoredRun)]
  /\ running \subseteq [date : Date, rows : SUBSET StoredRun]
  /\ job \in [Rebuilder -> [stage : Stage, date : Date,
                            batch : SUBSET StoredRun, current : BOOLEAN]]
  /\ fresh \subseteq Date

\* The Runs a reader of the Iceberg table finds for a date, however often each
\* was inserted.
Published(date) == UNION {iceberg[date][k] : k \in DOMAIN iceberg[date]}

\* Running a date again, after any failure or timeout, never doubles its rows:
\* no INSERT adds to what an earlier one left (refresh_silver_iceberg and
\* sql/delete_silver_iceberg_date.sql).  An INSERT left running breaks it.
ADateIsInsertedOnce == \A date \in Date : Len(iceberg[date]) <= 1

\* What a stored Run must look like, judged by its own rows alone: the contract
\* accepts its bodies with the status stored, they are all of that Run, the
\* earliest was received on the date, and none too long after it.
Revalidates(x, date) ==
  /\ x.status # "INVALID"
  /\ x.status = Verdict({y.event : y \in x.events})
  /\ \A y \in x.events : y.event.run_id = x.run_id
  /\ \E first \in x.events :
       /\ DateOf(first.first_received_at) = date
       /\ \A y \in x.events :
            /\ first.first_received_at <= y.first_received_at
            /\ y.first_received_at <= first.first_received_at + AllowedLateness

\* Whatever fails, expires, arrives late or runs twice, every published Run
\* still revalidates from its own rows on the date that shows it: no step
\* mixes two reads of Bronze, and no quarantined Run is published.
PublishedRunsRevalidate ==
  \A date \in Date : \A x \in Published(date) : Revalidates(x, date)

\* The table as a SELECT of Gold sees it: the bodies of each published Run, once
\* for every INSERT that wrote it.
GoldCopy(x, k) ==
  [run_id |-> x.run_id, status |-> x.status, events |-> {y.event : y \in x.events},
   counts |-> x.counts, insert |-> k]

GoldTable ==
  [date \in Date |->
     UNION {{GoldCopy(x, k) : x \in iceberg[date][k]} : k \in DOMAIN iceberg[date]}]

\* What Gold takes for granted of the table holds at every moment it can be read,
\* halfway through a rebuild and after a doubled INSERT included: every copy of a
\* Run is one the contract accepts, with a row for each unique event, and its
\* four counts account for each of its records (insert_silver_iceberg_date,
\* runs_to_silver_rows; assumed by GoldPipeline's PublishedAssumption).  That no
\* Run has two copies is not promised: EveryDateFreshMeansNoDuplicate.
PublishedTableIsTrusted == TrustedTable(GoldTable)

\* Whatever the table holds of a date is what one read of Bronze gave it, as a
\* whole: TrustedStore.  Between the read and the table a result is in a batch,
\* in the Silver object, which two programs may write, or in an INSERT that runs
\* on (rebuild_silver, refresh_silver_iceberg).
Result(b, date) == SilverRuns(ReceivedDateBatch(b, date))

Held(date) ==
  {{}, silver[date]} \cup {SilverRuns(job[w].batch) : w \in {v \in Rebuilder : job[v].date = date}}
  \cup {statement.rows : statement \in {s \in running : s.date = date}}

Store == INSTANCE TrustedStore WITH held <- [date \in Date |-> Held(date)], table <- iceberg

ImplementsTrustedStore == Store!Spec

\* A date rebuilt since Bronze last changed is exact (rebuild_silver,
\* refresh_silver_iceberg): its Silver object and its table rows are the Runs
\* today's Bronze gives it, whatever an overtaken command line was doing and
\* whichever INSERT landed before the DELETE.
\* The quarantine object is not promised: that command line may write last.
FreshDateIsExact ==
  \A date \in fresh :
    LET batch == ReceivedDateBatch(bronze, date) IN
    /\ silver[date] = SilverRuns(batch)
    /\ iceberg[date] = <<SilverRuns(batch)>>

\* The rows of the table, one for every INSERT that wrote it.
IcebergRows ==
  UNION {UNION {UNION {{[date |-> date, insert |-> k, run |-> x, row |-> y] : y \in x.events} :
                        x \in iceberg[date][k]} :
                 k \in DOMAIN iceberg[date]} : date \in Date}

\* Rebuilding every date repairs whatever earlier runs left behind, doubled rows
\* included: the table then holds every event_id in one row, over all dates.
EveryDateFreshMeansNoDuplicate ==
  fresh = Date =>
    \A r, s \in IcebergRows : r.row.event.event_id = s.row.event.event_id => r = s

\* docs/project-scope.md: "Duplicate events do not duplicate trusted metrics."
\* The trusted table holds no event_id under two dates.
DuplicatesAreNotTrustedTwice ==
  \A d1, d2 \in Date : \A x \in Published(d1), y \in Published(d2) :
    \A r1 \in x.events, r2 \in y.events :
      r1.event.event_id = r2.event.event_id => d1 = d2
=============================================================================
