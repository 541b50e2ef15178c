------------------------ MODULE SilverPipelineProofs ------------------------
(***************************************************************************)
(* SilverPipeline keeps its promises for every set of bodies, every pair   *)
(* of programs and every bound.                                            *)
(***************************************************************************)
EXTENDS SilverPipeline, RunReconstructionProofs

-----------------------------------------------------------------------------
(* What a rebuild computes from a well-formed Bronze.                      *)

PipelineBronze(b) ==
  /\ DOMAIN b \subseteq Position
  /\ b \in [DOMAIN b -> [event : Event, received_at : Time, stored_at : Time]]

\* The pipeline's Bronze is one the lemmas about reconstruct_runs apply to.
LEMMA PipelineBronzeIsBronze ==
  ASSUME NEW b, PipelineBronze(b)
  PROVE  IsBronze(b)
BY PipelineAssumption DEF PipelineBronze, IsBronze, Position, Time

\* It has a record per position.
LEMMA PipelineBronzeIsFinite ==
  ASSUME NEW b, PipelineBronze(b)
  PROVE  IsFiniteSet(DOMAIN b)
<1>1. IsFiniteSet(Position)
  BY PipelineAssumption, FS_Interval DEF Position
<1> QED BY <1>1, FS_Subset DEF PipelineBronze

\* A date in the range of the clock.
LEMMA DatesAreDates ==
  ASSUME NEW time \in Time
  PROVE  DateOf(time) \in Date /\ DateOf(0) \in Date
<1>1. /\ Horizon \in Nat /\ time \in Nat /\ time <= Horizon
      /\ DayLength \in Nat \ {0}
  BY PipelineAssumption, ClockAssumption DEF Time
<1>2. 0 \div DayLength = 0 /\ time \div DayLength \in Nat
  BY <1>1, Z3
<1>3. time \div DayLength <= Horizon \div DayLength
  BY <1>1, Z3
<1>4. Horizon \div DayLength \in Nat
  BY <1>1, Z3
<1> QED BY <1>2, <1>3, <1>4 DEF Date, DateOf

\* The status of a Run is one of the three.
LEMMA StatusIsTyped ==
  ASSUME NEW b, NEW run
  PROVE  BatchStatus(b, run) \in SequenceStatus
BY DEF BatchStatus, RunStatus, ValidateSequence, SequenceResult, SequenceStatus

\* The batch of a date is a set of stored Runs.
LEMMA BatchIsTyped ==
  ASSUME NEW b, PipelineBronze(b), NEW date
  PROVE  ReceivedDateBatch(b, date) \subseteq StoredRun
<1> SUFFICES ASSUME NEW run \in TargetRuns(b, date)
             PROVE  BatchRun(b, run) \in StoredRun
  BY DEF ReceivedDateBatch
<1>1. run \in {e.run_id : e \in Event}
  BY DEF TargetRuns, GroupedRuns, RunAt, PipelineBronze
<1>2. StoredEvents(b, run) \subseteq StoredRow
  BY DEF StoredEvents, StoredRow, SelectedPositions, Positions, PipelineBronze
<1>3. Counts(b, run) \in [CountName -> Nat]
  BY PipelineBronzeIsFinite, CountsAddUp DEF Counts, CountName
<1> QED BY <1>1, <1>2, <1>3, StatusIsTyped DEF BatchRun, StoredRun

\* A Run the batch accepts revalidates from the rows stored for it.
LEMMA AcceptedBatchRunRevalidates ==
  ASSUME NEW b, PipelineBronze(b), NEW date,
         NEW x \in ReceivedDateBatch(b, date), x.status # "INVALID"
  PROVE  Revalidates(x, date)
<1>1. PICK run \in TargetRuns(b, date) : x = BatchRun(b, run)
  BY DEF ReceivedDateBatch
<1>2. x.events = StoredEvents(b, run) /\ x.run_id = run /\ x.status = BatchStatus(b, run)
  BY <1>1 DEF BatchRun
<1>3. IsBronze(b)
  BY PipelineBronzeIsBronze
<1>4. ~ArrivedTooLate(b, run) /\ RunStatus(b, run) = x.status
  BY <1>2 DEF BatchStatus
<1>5. x.status = Verdict(Contents(b, run))
  BY <1>2, <1>3, <1>4, StatusIsVerdict DEF RunStatus
<1>6. {y.event : y \in x.events} = Contents(b, run)
  BY <1>2, <1>3, <1>4, AcceptedRunIsStoredWhole DEF StoredBodies
<1>7. \A y \in x.events : y.event.run_id = x.run_id
  BY <1>2 DEF StoredEvents, SelectedPositions, Positions, RunAt
<1>8. PICK first \in x.events :
         \A y \in x.events : first.first_received_at <= y.first_received_at
  <2> DEFINE T == {y.first_received_at : y \in x.events}
  <2>1. T \in SUBSET Nat
    BY <1>2, <1>3 DEF StoredEvents, SelectedPositions, Positions, IsBronze
  <2>2. x.events # {}
    <3>1. PICK i \in Positions(b, run) : TRUE
      BY DEF TargetRuns, GroupedRuns, Positions
    <3>2. PICK j \in SelectedPositions(b, run) : TRUE
      BY <1>3, <3>1, SelectedCopyExists
    <3> QED BY <1>2, <3>2 DEF StoredEvents
  <2>3. T # {}
    BY <2>2
  <2>4. PICK t \in T : \A u \in T : t <= u
    <3> HIDE DEF T
    <3> QED BY <2>1, <2>3, LeastNatural
  <2> QED BY <2>4
<1>9. FirstReceivedAt(b, run) = first.first_received_at
  <2> DEFINE T == {y.first_received_at : y \in StoredEvents(b, run)}
             Least(t) == \A y \in StoredEvents(b, run) : t <= y.first_received_at
  <2>1. first.first_received_at \in T /\ Least(first.first_received_at)
    BY <1>2, <1>8
  <2>2. T \subseteq Nat
    BY <1>2, <1>3 DEF StoredEvents, SelectedPositions, Positions, IsBronze
  <2>3. FirstReceivedAt(b, run) \in T /\ Least(FirstReceivedAt(b, run))
    BY <2>1 DEF FirstReceivedAt
  <2> QED BY <1>2, <1>8, <2>1, <2>2, <2>3
<1>10. DateOf(first.first_received_at) = date
  BY <1>9 DEF TargetRuns, OwningDate
<1>11. \A y \in x.events :
         y.first_received_at <= first.first_received_at + AllowedLateness
  <2> SUFFICES ASSUME NEW y \in x.events
               PROVE  y.first_received_at <= first.first_received_at + AllowedLateness
    OBVIOUS
  <2>1. ~(y.first_received_at > first.first_received_at + AllowedLateness)
    BY <1>2, <1>4, <1>9 DEF ArrivedTooLate
  <2>2. y.first_received_at \in Nat /\ first.first_received_at \in Nat
    BY <1>2, <1>3 DEF StoredEvents, SelectedPositions, Positions, IsBronze
  <2> QED BY <2>1, <2>2, ClockAssumption
<1> QED BY <1>5, <1>6, <1>7, <1>8, <1>10, <1>11 DEF Revalidates

-----------------------------------------------------------------------------
(* Type correctness.                                                       *)

\* What TypeOK says of Bronze.
LEMMA TypedPipelineBronze ==
  ASSUME TypeOK
  PROVE  PipelineBronze(bronze)
BY DEF TypeOK, PipelineBronze

\* The INSERT adds rows of the date's Silver object, or none.
LEMMA RowsToInsertAreTyped ==
  ASSUME TypeOK, NEW date \in Date
  PROVE  RowsToInsert(date) \subseteq StoredRun
BY DEF TypeOK, RowsToInsert

\* An INSERT keeps the type of the table.
LEMMA InsertIsTyped ==
  ASSUME TypeOK, NEW date \in Date, NEW rows \in SUBSET StoredRun, InsertEffect(date, rows)
  PROVE  iceberg' \in [Date -> Seq(SUBSET StoredRun)]
<1> DEFINE Rows == SUBSET StoredRun
<1>1. iceberg \in [Date -> Seq(Rows)] /\ iceberg[date] \in Seq(Rows)
  BY DEF TypeOK
<1> HIDE DEF Rows
<1>2. ASSUME NEW r \in Rows PROVE Append(iceberg[date], r) \in Seq(Rows)
  BY <1>1
<1>3. rows \in Rows
  BY DEF Rows
<1>4. iceberg' = [iceberg EXCEPT ![date] = Append(iceberg[date], rows)]
  BY DEF InsertEffect
<1>5. iceberg' \in [Date -> Seq(Rows)]
  BY <1>1, <1>2, <1>3, <1>4
<1> QED BY <1>5 DEF Rows

\* A DELETE keeps the type of the table.
LEMMA DeleteIsTyped ==
  ASSUME TypeOK, NEW date \in Date, DeleteEffect(date)
  PROVE  iceberg' \in [Date -> Seq(SUBSET StoredRun)]
BY DEF TypeOK, DeleteEffect

\* The type holds at the start.
LEMMA PipelineTypeCorrectInit == Init => TypeOK
<1> SUFFICES ASSUME Init PROVE TypeOK
  OBVIOUS
<1>1. 0 \in Time /\ DateOf(0) \in Date
  BY DatesAreDates, PipelineAssumption DEF Time
<1>2. iceberg \in [Date -> Seq(SUBSET StoredRun)]
  BY DEF Init
<1>3. job \in [Rebuilder -> [stage : Stage, date : Date,
                             batch : SUBSET StoredRun, current : BOOLEAN]]
  BY <1>1 DEF Init, Idle, Stage
<1>4. bronze \in [DOMAIN bronze -> [event : Event, received_at : Time, stored_at : Time]]
      /\ DOMAIN bronze \subseteq Position
  BY DEF Init
<1> QED BY <1>1, <1>2, <1>3, <1>4 DEF Init, TypeOK

\* Every store, statement and program state keeps its type (all actions).
THEOREM PipelineTypeCorrect == Spec => []TypeOK
<1> USE DEF Stage
<1>1. Init => TypeOK
  BY PipelineTypeCorrectInit
<1>2. ASSUME TypeOK, [Next]_vars
      PROVE  TypeOK'
  <2> DEFINE Jobs == [stage : Stage, date : Date, batch : SUBSET StoredRun, current : BOOLEAN]
  <2>a. Idle \in Jobs
    BY DatesAreDates, PipelineAssumption DEF Idle, Time
  <2>b. \A w \in Rebuilder : job[w] \in Jobs /\ job[w].date \in Date
    BY <1>2 DEF TypeOK
  <2>c. job \in [Rebuilder -> Jobs]
    BY <1>2 DEF TypeOK
  <2>1. CASE Tick
    BY <1>2, <2>1, PipelineAssumption DEF TypeOK, Tick, Feed!Tick, Time
  <2>2. ASSUME BronzeChanged
        PROVE  /\ job' \in [Rebuilder -> Jobs] /\ fresh' = {}
               /\ UNCHANGED <<silver, quarantine, iceberg, running>>
    BY <2>2, <2>c DEF BronzeChanged
  <2>3. ASSUME NEW position \in Position, NEW event \in Event, NEW time \in Time,
               Deliver(position, event, time)
        PROVE  TypeOK'
    <3>1. DOMAIN bronze' \subseteq Position
          /\ bronze' \in [DOMAIN bronze' -> [event : Event, received_at : Time, stored_at : Time]]
      BY <1>2, <2>3 DEF TypeOK, Deliver, Feed!Deliver
    <3>2. BronzeChanged /\ UNCHANGED now
      BY <2>3 DEF Deliver, Feed!Deliver
    <3> QED BY <1>2, <2>2, <3>1, <3>2 DEF TypeOK
  <2>4. ASSUME NEW position \in DOMAIN bronze, Expire(position)
        PROVE  TypeOK'
    <3>1. DOMAIN bronze' \subseteq Position
          /\ bronze' \in [DOMAIN bronze' -> [event : Event, received_at : Time, stored_at : Time]]
      BY <1>2, <2>4 DEF TypeOK, Expire, Feed!Expire
    <3>2. BronzeChanged /\ UNCHANGED now
      BY <2>4 DEF Expire, Feed!Expire
    <3> QED BY <1>2, <2>2, <3>1, <3>2 DEF TypeOK
  <2>5. ASSUME NEW w \in Rebuilder, NEW date \in Date, Start(w, date)
        PROVE  TypeOK'
    <3>1. job' \in [Rebuilder -> Jobs]
      BY <2>5, <2>a, <2>c DEF Start
    <3> QED BY <1>2, <2>5, <3>1 DEF Start, TypeOK
  <2>6. ASSUME NEW w \in Rebuilder, ReadBronze(w)
        PROVE  TypeOK'
    <3>1. ReceivedDateBatch(bronze, job[w].date) \in SUBSET StoredRun
      BY <1>2, TypedPipelineBronze, BatchIsTyped
    <3> DEFINE read == [job[w] EXCEPT !.stage = "put_silver",
                                      !.batch = ReceivedDateBatch(bronze, job[w].date),
                                      !.current = TRUE]
    <3>2. read \in Jobs
      BY <2>b, <3>1
    <3>3. job' = [job EXCEPT ![w] = read]
      BY <2>6, <2>c DEF ReadBronze
    <3>4. job' \in [Rebuilder -> Jobs]
      <4> HIDE DEF read, Jobs
      <4> QED BY <2>c, <3>2, <3>3
    <3> QED BY <1>2, <2>6, <3>4 DEF ReadBronze, TypeOK
  <2>7. ASSUME NEW w \in Rebuilder, PutSilver(w)
        PROVE  TypeOK'
    <3>1. job' \in [Rebuilder -> Jobs]
      BY <2>7, <2>c DEF PutSilver
    <3>2. SilverRuns(job[w].batch) \subseteq StoredRun
      BY <2>b DEF SilverRuns
    <3>3. silver' \in [Date -> SUBSET StoredRun]
      BY <1>2, <2>7, <3>2 DEF PutSilver, TypeOK
    <3> QED BY <1>2, <2>7, <3>1, <3>3 DEF PutSilver, TypeOK
  <2>8. ASSUME NEW w \in Rebuilder, PutQuarantine(w)
        PROVE  TypeOK'
    <3>1. job' \in [Rebuilder -> Jobs]
      BY <2>8, <2>a, <2>c DEF PutQuarantine
    <3>2. QuarantineRuns(job[w].batch) \subseteq StoredRun
      BY <2>b DEF QuarantineRuns
    <3>3. quarantine' \in [Date -> SUBSET StoredRun]
      BY <1>2, <2>8, <3>2 DEF PutQuarantine, TypeOK
    <3> QED BY <1>2, <2>8, <3>1, <3>3 DEF PutQuarantine, TypeOK
  <2>9. ASSUME NEW w \in Rebuilder, DeleteRows(w)
        PROVE  TypeOK'
    <3>1. job' \in [Rebuilder -> Jobs]
      BY <2>9, <2>c DEF DeleteRows, Goto
    <3>2. iceberg' \in [Date -> Seq(SUBSET StoredRun)]
      BY <1>2, <2>9, <2>b, DeleteIsTyped DEF DeleteRows
    <3> QED BY <1>2, <2>9, <3>1, <3>2 DEF DeleteRows, TypeOK
  <2>10. ASSUME NEW w \in Rebuilder, InsertRows(w)
         PROVE  TypeOK'
    <3>1. job' \in [Rebuilder -> Jobs]
      BY <2>10, <2>a, <2>c DEF InsertRows
    <3>2. iceberg' \in [Date -> Seq(SUBSET StoredRun)]
      BY <1>2, <2>10, <2>b, InsertIsTyped, RowsToInsertAreTyped DEF InsertRows
    <3>3. fresh' \subseteq Date
      BY <1>2, <2>10, <2>b DEF InsertRows, TypeOK
    <3> QED BY <1>2, <2>10, <3>1, <3>2, <3>3 DEF InsertRows, TypeOK
  <2>11. ASSUME NEW w \in Rebuilder, Fail(w)
         PROVE  TypeOK'
    <3>1. job' \in [Rebuilder -> Jobs]
      BY <2>11, <2>a, <2>c DEF Fail
    <3> QED BY <1>2, <2>11, <3>1 DEF Fail, TypeOK
  <2>12. ASSUME NEW w \in Rebuilder, TimeOut(w)
         PROVE  TypeOK'
    <3>1. job' \in [Rebuilder -> Jobs]
      BY <2>12, <2>a, <2>c DEF TimeOut
    <3>2. iceberg' \in [Date -> Seq(SUBSET StoredRun)]
      BY <1>2, <2>12, <2>b, DeleteIsTyped, InsertIsTyped, RowsToInsertAreTyped DEF TimeOut
    <3> QED BY <1>2, <2>12, <3>1, <3>2 DEF TimeOut, TypeOK
  <2>13. ASSUME NEW w \in Rebuilder, Abandon(w)
         PROVE  TypeOK'
    <3>1. job' \in [Rebuilder -> Jobs]
      BY <2>13, <2>a, <2>c DEF Abandon
    <3>2. running' \subseteq [date : Date, rows : SUBSET StoredRun]
      BY <1>2, <2>13, <2>b, RowsToInsertAreTyped DEF Abandon, TypeOK
    <3> QED BY <1>2, <2>13, <3>1, <3>2 DEF Abandon, TypeOK
  <2>14. ASSUME NEW statement \in running, Land(statement)
         PROVE  TypeOK'
    <3>1. statement.date \in Date /\ statement.rows \in SUBSET StoredRun
      BY <1>2 DEF TypeOK
    <3>2. job' \in [Rebuilder -> Jobs]
      BY <2>14, <2>c DEF Land
    <3>3. iceberg' \in [Date -> Seq(SUBSET StoredRun)]
      BY <1>2, <2>14, <3>1, InsertIsTyped DEF Land
    <3> QED BY <1>2, <2>14, <3>2, <3>3 DEF Land, TypeOK
  <2>15. CASE UNCHANGED vars
    BY <1>2, <2>15 DEF vars, TypeOK
  <2> QED BY <1>2, <2>1, <2>3, <2>4, <2>5, <2>6, <2>7, <2>8, <2>9, <2>10, <2>11,
             <2>12, <2>13, <2>14, <2>15 DEF Next, Rebuild
<1> QED BY <1>1, <1>2, PTL DEF Spec

-----------------------------------------------------------------------------
(* The pipeline is a TrustedStore: a result is read once, and goes from    *)
(* the batch to the Silver object, to an INSERT that is left running, to   *)
(* the table, always as a whole and under its date.                        *)

\* What is held of a date.
LEMMA HeldFacts ==
  ASSUME NEW d
  PROVE  /\ {} \in Held(d) /\ silver[d] \in Held(d) /\ RowsToInsert(d) \in Held(d)
         /\ \A w \in Rebuilder : job[w].date = d => SilverRuns(job[w].batch) \in Held(d)
         /\ \A statement \in running : statement.date = d => statement.rows \in Held(d)
BY DEF Held, RowsToInsert

\* Nothing more is held after a step than what each place then holds.
LEMMA HeldAfter ==
  ASSUME NEW d, NEW results,
         {} \in results, silver'[d] \in results,
         \A w \in Rebuilder : job'[w].date = d => SilverRuns(job'[w].batch) \in results,
         \A statement \in running' : statement.date = d => statement.rows \in results
  PROVE  Held(d)' \subseteq results
BY DEF Held

\* A step that keeps the Silver objects and the INSERTs left running, and whose
\* programs keep their batch or drop it, holds nothing new.
LEMMA NothingNewIsHeld ==
  ASSUME UNCHANGED silver, running' \subseteq running,
         \A w \in Rebuilder : \/ job'[w].batch = {}
                              \/ job'[w].batch = job[w].batch /\ job'[w].date = job[w].date
  PROVE  \A d \in Date : Held(d)' \subseteq Held(d)
<1> SUFFICES ASSUME NEW d \in Date PROVE Held(d)' \subseteq Held(d)
  OBVIOUS
<1>1. SilverRuns({}) = {}
  BY DEF SilverRuns
<1>2. \A w \in Rebuilder : job'[w].date = d => SilverRuns(job'[w].batch) \in Held(d)
  BY <1>1, HeldFacts
<1>3. silver'[d] \in Held(d) /\ {} \in Held(d)
  BY HeldFacts
<1>4. \A statement \in running' : statement.date = d => statement.rows \in Held(d)
  BY HeldFacts
<1> QED BY <1>2, <1>3, <1>4, HeldAfter

\* Nothing is held and nothing added at the start.
LEMMA StoreInit == Init => Store!Init
<1> SUFFICES ASSUME Init PROVE Store!Init
  OBVIOUS
<1>1. SilverRuns({}) = {}
  BY DEF SilverRuns
<1>2. \A date \in Date : Held(date) = {{}}
  BY <1>1 DEF Init, Idle, Held
<1> QED BY <1>2 DEF Init, Store!Init, Store!Nothing

\* Each step is one of the store's.
LEMMA StoreStep ==
  ASSUME TypeOK, [Next]_vars
  PROVE  Store!Next
<1>a. \A w \in Rebuilder : job[w].date \in Date
  BY DEF TypeOK
<1>b. ASSUME NEW w \in Rebuilder, job' = [job EXCEPT ![w] = Idle]
      PROVE  \A v \in Rebuilder : \/ job'[v].batch = {}
                                  \/ job'[v].batch = job[v].batch /\ job'[v].date = job[v].date
  BY <1>b DEF TypeOK, Idle
\* The three kinds of step that read nothing.
<1>c. ASSUME UNCHANGED iceberg, \A d \in Date : Held(d)' \subseteq Held(d)
      PROVE  Store!Next
  BY <1>c DEF Store!Next, Store!Change, Store!Forget
<1>d. ASSUME NEW date \in Date, DeleteEffect(date), UNCHANGED bronze,
             \A d \in Date : Held(d)' \subseteq Held(d)
      PROVE  Store!Next
  BY <1>d DEF Store!Next, Store!Clear, Store!Forget, DeleteEffect
<1>e. ASSUME NEW date \in Date, NEW rows \in Held(date), InsertEffect(date, rows),
             UNCHANGED bronze, \A d \in Date : Held(d)' \subseteq Held(d)
      PROVE  Store!Next
  <2>1. Store!Add(date)
    BY <1>e DEF Store!Add, Store!Forget, InsertEffect
  <2> QED BY <2>1 DEF Store!Next
<1>1. CASE Tick
  BY <1>c, <1>1, NothingNewIsHeld DEF Tick, Feed!Tick
<1>2. ASSUME BronzeChanged
      PROVE  Store!Next
  <2>1. \A w \in Rebuilder : job'[w].batch = job[w].batch /\ job'[w].date = job[w].date
    BY <1>2 DEF BronzeChanged, TypeOK
  <2> QED BY <1>2, <1>c, <2>1, NothingNewIsHeld DEF BronzeChanged
<1>3. ASSUME NEW w \in Rebuilder, NEW date \in Date, Start(w, date)
      PROVE  Store!Next
  <2>1. \A v \in Rebuilder : \/ job'[v].batch = {}
                             \/ job'[v].batch = job[v].batch /\ job'[v].date = job[v].date
    BY <1>3 DEF Start, Idle, TypeOK
  <2> QED BY <1>3, <1>c, <2>1, NothingNewIsHeld DEF Start
<1>4. ASSUME NEW w \in Rebuilder, ReadBronze(w)
      PROVE  Store!Next
  <2>0. PICK date \in Date : date = job[w].date
    BY <1>a
  <2>1. \A v \in Rebuilder :
          /\ job'[v].date = job[v].date
          /\ \/ job'[v].batch = job[v].batch
             \/ job[v].date = date /\ job'[v].batch = ReceivedDateBatch(bronze, date)
    BY <1>4, <2>0 DEF ReadBronze, TypeOK
  <2>2. UNCHANGED <<bronze, silver, iceberg, running>>
    BY <1>4 DEF ReadBronze
  <2>3. Held(date)' \subseteq Held(date) \cup {Result(bronze, date)}
    <3>1. \A v \in Rebuilder : job'[v].date = date =>
            SilverRuns(job'[v].batch) \in Held(date) \cup {Result(bronze, date)}
      BY <2>1, HeldFacts DEF Result
    <3> QED BY <2>2, <3>1, HeldFacts, HeldAfter
  <2>4. ASSUME NEW d \in Date \ {date}
        PROVE  Held(d)' \subseteq Held(d)
    <3>1. \A v \in Rebuilder : job'[v].date = d => SilverRuns(job'[v].batch) \in Held(d)
      BY <2>1, HeldFacts
    <3> QED BY <2>2, <3>1, HeldFacts, HeldAfter
  <2>5. Store!Read(date)
    BY <2>2, <2>3, <2>4 DEF Store!Read
  <2> QED BY <2>5 DEF Store!Next
<1>5. ASSUME NEW w \in Rebuilder, PutSilver(w)
      PROVE  Store!Next
  <2>1. \A v \in Rebuilder : job'[v].batch = job[v].batch /\ job'[v].date = job[v].date
    BY <1>5 DEF PutSilver, TypeOK
  <2>2. \A d \in Date : \/ silver'[d] = silver[d]
                        \/ d = job[w].date /\ silver'[d] = SilverRuns(job[w].batch)
    BY <1>5 DEF PutSilver, TypeOK
  <2>3. UNCHANGED <<iceberg, running>>
    BY <1>5 DEF PutSilver
  <2>4. ASSUME NEW d \in Date
        PROVE  Held(d)' \subseteq Held(d)
    <3>1. silver'[d] \in Held(d)
      BY <2>2, HeldFacts
    <3>2. \A v \in Rebuilder : job'[v].date = d => SilverRuns(job'[v].batch) \in Held(d)
      BY <2>1, HeldFacts
    <3> QED BY <2>3, <3>1, <3>2, HeldFacts, HeldAfter
  <2> QED BY <1>c, <2>3, <2>4
<1>6. ASSUME NEW w \in Rebuilder, PutQuarantine(w)
      PROVE  Store!Next
  <2>1. \A v \in Rebuilder : \/ job'[v].batch = {}
                             \/ job'[v].batch = job[v].batch /\ job'[v].date = job[v].date
    BY <1>6 DEF PutQuarantine, Idle, TypeOK
  <2> QED BY <1>6, <1>c, <2>1, NothingNewIsHeld DEF PutQuarantine
<1>7. ASSUME NEW w \in Rebuilder, DeleteRows(w)
      PROVE  Store!Next
  <2>1. \A v \in Rebuilder : job'[v].batch = job[v].batch /\ job'[v].date = job[v].date
    BY <1>7 DEF DeleteRows, Goto, TypeOK
  <2> QED BY <1>7, <1>a, <1>d, <2>1, NothingNewIsHeld DEF DeleteRows
<1>8. ASSUME NEW w \in Rebuilder, InsertRows(w)
      PROVE  Store!Next
  <2>1. \A d \in Date : Held(d)' \subseteq Held(d)
    BY <1>8, <1>b, NothingNewIsHeld DEF InsertRows
  <2> QED BY <1>8, <1>a, <1>e, <2>1, HeldFacts DEF InsertRows
<1>9. ASSUME NEW w \in Rebuilder, Fail(w)
      PROVE  Store!Next
  BY <1>9, <1>b, <1>c, NothingNewIsHeld DEF Fail
<1>10. ASSUME NEW w \in Rebuilder, TimeOut(w)
       PROVE  Store!Next
  <2>1. \A d \in Date : Held(d)' \subseteq Held(d)
    BY <1>10, <1>b, NothingNewIsHeld DEF TimeOut
  <2>2. UNCHANGED bronze
    BY <1>10 DEF TimeOut
  <2>3. \/ DeleteEffect(job[w].date)
        \/ InsertEffect(job[w].date, RowsToInsert(job[w].date))
    BY <1>10 DEF TimeOut
  <2> QED BY <1>a, <1>d, <1>e, <2>1, <2>2, <2>3, HeldFacts
<1>11. ASSUME NEW w \in Rebuilder, Abandon(w)
       PROVE  Store!Next
  <2>1. \A v \in Rebuilder : \/ job'[v].batch = {}
                             \/ job'[v].batch = job[v].batch /\ job'[v].date = job[v].date
    BY <1>11, <1>b DEF Abandon
  <2>2. running' = running \cup {[date |-> job[w].date, rows |-> RowsToInsert(job[w].date)]}
        /\ UNCHANGED <<silver, iceberg>>
    BY <1>11 DEF Abandon
  <2>3. ASSUME NEW d \in Date
        PROVE  Held(d)' \subseteq Held(d)
    <3>1. SilverRuns({}) = {}
      BY DEF SilverRuns
    <3>2. \A v \in Rebuilder : job'[v].date = d => SilverRuns(job'[v].batch) \in Held(d)
      BY <2>1, <3>1, HeldFacts
    <3>3. \A statement \in running' : statement.date = d => statement.rows \in Held(d)
      BY <2>2, HeldFacts
    <3> QED BY <2>2, <3>2, <3>3, HeldFacts, HeldAfter
  <2> QED BY <1>c, <2>2, <2>3
<1>12. ASSUME NEW statement \in running, Land(statement)
       PROVE  Store!Next
  <2>1. statement.date \in Date /\ statement.rows \in Held(statement.date)
    BY HeldFacts DEF TypeOK
  <2>2. \A v \in Rebuilder : job'[v].batch = job[v].batch /\ job'[v].date = job[v].date
    BY <1>12 DEF Land, TypeOK
  <2>3. \A d \in Date : Held(d)' \subseteq Held(d)
    BY <1>12, <2>2, NothingNewIsHeld DEF Land
  <2> QED BY <1>12, <1>e, <2>1, <2>3 DEF Land
<1>13. CASE UNCHANGED vars
  BY <1>13, <1>c, NothingNewIsHeld DEF vars
<1> QED BY <1>1, <1>2, <1>3, <1>4, <1>5, <1>6, <1>7, <1>8, <1>9, <1>10, <1>11, <1>12, <1>13
     DEF Next, Rebuild, Deliver, Expire

\* Whatever the table holds of a date is a whole result of one read, for every
\* interleaving of the two programs, failure, timeout and abandoned INSERT.
THEOREM PipelineImplementsStore == Spec => ImplementsTrustedStore
<1>1. TypeOK /\ [Next]_vars => [Store!Next]_<<bronze, [date \in Date |-> Held(date)], iceberg>>
  BY StoreStep
<1> QED BY <1>1, StoreInit, PipelineTypeCorrect, PTL
     DEF Spec, ImplementsTrustedStore, Store!Spec

-----------------------------------------------------------------------------
(* What the table holds, from what a TrustedStore does: every result held  *)
(* or added was read from some Bronze the pipeline can have, so what is    *)
(* true of every batch is true of the table.                               *)

Origin(result, date) ==
  result = {} \/ \E b : PipelineBronze(b) /\ result = Result(b, date)

OriginInv ==
  \A date \in Date : /\ \A result \in Held(date) : Origin(result, date)
                     /\ \A k \in DOMAIN iceberg[date] : Origin(iceberg[date][k], date)

\* Nothing is held at the start.
LEMMA OriginInvInit == Init => OriginInv
<1> SUFFICES ASSUME Init, NEW date \in Date
             PROVE  /\ \A result \in Held(date) : Origin(result, date)
                    /\ \A k \in DOMAIN iceberg[date] : Origin(iceberg[date][k], date)
  BY DEF OriginInv
<1>1. SilverRuns({}) = {}
  BY DEF SilverRuns
<1>2. Held(date) = {{}} /\ iceberg[date] = <<>>
  BY <1>1 DEF Init, Idle, Held
<1> QED BY <1>2 DEF Origin

\* An element of a sequence with one more at its end.
LEMMA AppendElements ==
  ASSUME NEW S, NEW list \in Seq(S), NEW x
  PROVE  \A k \in DOMAIN Append(list, x) :
           \/ Append(list, x)[k] = x
           \/ k \in DOMAIN list /\ Append(list, x)[k] = list[k]
<1> DEFINE T == S \cup {x}
<1>1. list \in Seq(T) /\ x \in T
  OBVIOUS
<1> HIDE DEF T
<1> QED BY <1>1

\* A step of the store keeps the origin of what it holds.
LEMMA OriginInvStep ==
  ASSUME TypeOK, OriginInv, Store!Next
  PROVE  OriginInv'
<1> SUFFICES ASSUME NEW d \in Date
             PROVE  /\ \A result \in Held(d)' : Origin(result, d)
                    /\ \A k \in DOMAIN iceberg'[d] : Origin(iceberg'[d][k], d)
  BY DEF OriginInv
<1>1. /\ \A result \in Held(d) : Origin(result, d)
      /\ \A k \in DOMAIN iceberg[d] : Origin(iceberg[d][k], d)
  BY DEF OriginInv
<1>2. CASE Store!Change
  BY <1>1, <1>2 DEF Store!Change, Store!Forget
<1>3. ASSUME NEW date \in Date, Store!Clear(date)
      PROVE  /\ \A result \in Held(d)' : Origin(result, d)
             /\ \A k \in DOMAIN iceberg'[d] : Origin(iceberg'[d][k], d)
  <2>1. Held(d)' \subseteq Held(d)
    BY <1>3 DEF Store!Clear, Store!Forget
  <2>2. iceberg'[d] = iceberg[d] \/ iceberg'[d] = <<>>
    BY <1>3 DEF Store!Clear, TypeOK
  <2> QED BY <1>1, <2>1, <2>2
<1>4. ASSUME NEW date \in Date, Store!Add(date)
      PROVE  /\ \A result \in Held(d)' : Origin(result, d)
             /\ \A k \in DOMAIN iceberg'[d] : Origin(iceberg'[d][k], d)
  <2>1. Held(d)' \subseteq Held(d)
    BY <1>4 DEF Store!Add, Store!Forget
  <2>2. PICK result \in Held(date) :
          iceberg' = [iceberg EXCEPT ![date] = Append(iceberg[date], result)]
    BY <1>4 DEF Store!Add
  <2>3. iceberg[date] \in Seq(SUBSET StoredRun) /\ iceberg \in [Date -> Seq(SUBSET StoredRun)]
    BY DEF TypeOK
  <2>4. \A k \in DOMAIN Append(iceberg[date], result) :
          \/ Append(iceberg[date], result)[k] = result
          \/ k \in DOMAIN iceberg[date]
             /\ Append(iceberg[date], result)[k] = iceberg[date][k]
    BY <2>3, AppendElements
  <2>5. CASE d = date
    <3>1. iceberg'[d] = Append(iceberg[date], result)
      BY <2>2, <2>3, <2>5
    <3> QED BY <1>1, <2>1, <2>2, <2>4, <2>5, <3>1
  <2>6. CASE d # date
    <3>1. iceberg'[d] = iceberg[d]
      BY <2>2, <2>3, <2>6
    <3> QED BY <1>1, <2>1, <3>1
  <2> QED BY <2>5, <2>6
<1>5. ASSUME NEW date \in Date, Store!Read(date)
      PROVE  /\ \A result \in Held(d)' : Origin(result, d)
             /\ \A k \in DOMAIN iceberg'[d] : Origin(iceberg'[d][k], d)
  <2>1. UNCHANGED iceberg
    BY <1>5 DEF Store!Read
  <2>2. Origin(Result(bronze, d), d)
    BY TypedPipelineBronze DEF Origin
  <2>3. Held(d)' \subseteq Held(d) \cup {Result(bronze, d)}
    BY <1>5 DEF Store!Read
  <2> QED BY <1>1, <2>1, <2>2, <2>3
<1> QED BY <1>2, <1>3, <1>4, <1>5 DEF Store!Next

\* Every result of the table has an origin.
LEMMA OriginInvariant == Spec => []OriginInv
<1>1. TypeOK /\ OriginInv /\ [Next]_vars => OriginInv'
  BY StoreStep, OriginInvStep
<1> QED BY <1>1, OriginInvInit, PipelineTypeCorrect, PTL DEF Spec

\* A published Run was accepted by one read.
LEMMA PublishedFromBronze ==
  ASSUME OriginInv, NEW date \in Date, NEW x \in Published(date)
  PROVE  \E b : PipelineBronze(b) /\ x \in ReceivedDateBatch(b, date) /\ x.status # "INVALID"
<1>1. PICK k \in DOMAIN iceberg[date] : x \in iceberg[date][k]
  BY DEF Published
<1>2. Origin(iceberg[date][k], date)
  BY DEF OriginInv
<1>3. PICK b : PipelineBronze(b) /\ iceberg[date][k] = Result(b, date)
  BY <1>1, <1>2 DEF Origin
<1> QED BY <1>1, <1>3 DEF Result, SilverRuns

\* Every published Run revalidates from its own rows on its date, whatever
\* fails, expires, arrives late or runs twice.
THEOREM PublishedRunsRevalidateHolds == Spec => []PublishedRunsRevalidate
<1>1. ASSUME OriginInv PROVE PublishedRunsRevalidate
  BY <1>1, PublishedFromBronze, AcceptedBatchRunRevalidates DEF PublishedRunsRevalidate
<1> QED BY <1>1, OriginInvariant, PTL

\* A function has a finite image of a finite set.
LEMMA FiniteImage ==
  ASSUME NEW S, IsFiniteSet(S), NEW f
  PROVE  IsFiniteSet({f[x] : x \in S})
<1> DEFINE T == {f[x] : x \in S}
           g == [x \in S |-> f[x]]
<1>1. g \in Surjection(S, T)
  BY DEF Surjection
<1> HIDE DEF g, T
<1>2. IsFiniteSet(T)
  BY <1>1, FS_Surjection
<1> QED BY <1>2 DEF T

\* One read gives finitely many Runs of finitely many events.
LEMMA ResultIsFinite ==
  ASSUME NEW b, PipelineBronze(b), NEW date
  PROVE  /\ IsFiniteSet(Result(b, date))
         /\ \A run : IsFiniteSet(StoredEvents(b, run))
<1>1. IsFiniteSet(DOMAIN b)
  BY PipelineBronzeIsFinite
<1>2. IsFiniteSet(GroupedRuns(b))
  <2> DEFINE f == [i \in DOMAIN b |-> RunAt(b, i)]
  <2>1. GroupedRuns(b) = {f[i] : i \in DOMAIN b}
    BY DEF GroupedRuns
  <2> HIDE DEF f
  <2> QED BY <1>1, <2>1, FiniteImage
<1>3. IsFiniteSet(ReceivedDateBatch(b, date))
  <2> DEFINE f == [run \in TargetRuns(b, date) |-> BatchRun(b, run)]
  <2>1. ReceivedDateBatch(b, date) = {f[run] : run \in TargetRuns(b, date)}
    BY DEF ReceivedDateBatch
  <2>2. TargetRuns(b, date) \in SUBSET GroupedRuns(b)
    BY DEF TargetRuns
  <2>3. IsFiniteSet(TargetRuns(b, date))
    BY <1>2, <2>2, FS_Subset
  <2> HIDE DEF f
  <2> QED BY <2>1, <2>3, FiniteImage
<1>4. IsFiniteSet(Result(b, date))
  <2>1. Result(b, date) \in SUBSET ReceivedDateBatch(b, date)
    BY DEF Result, SilverRuns
  <2> QED BY <1>3, <2>1, FS_Subset
<1>5. ASSUME NEW run PROVE IsFiniteSet(StoredEvents(b, run))
  <2> DEFINE f == [i \in SelectedPositions(b, run) |->
                     [event |-> b[i].event, first_received_at |-> b[i].received_at]]
  <2>1. StoredEvents(b, run) = {f[i] : i \in SelectedPositions(b, run)}
    BY DEF StoredEvents
  <2>2. SelectedPositions(b, run) \in SUBSET DOMAIN b
    BY DEF SelectedPositions, Positions
  <2>3. IsFiniteSet(SelectedPositions(b, run))
    BY <1>1, <2>2, FS_Subset
  <2> HIDE DEF f
  <2> QED BY <2>1, <2>3, FiniteImage
<1> QED BY <1>4, <1>5

\* The bodies stored for a Run, one for every event_id, are counted as unique.
LEMMA UniqueCountIsOfBodies ==
  ASSUME NEW b, PipelineBronze(b), NEW run
  PROVE  UniqueCount(b, run) = Cardinality(StoredBodies(b, run))
<1> DEFINE S == SelectedPositions(b, run)
           f == [i \in S |-> b[i].event]
<1>1. IsBronze(b) /\ IsFiniteSet(DOMAIN b)
  BY PipelineBronzeIsBronze, PipelineBronzeIsFinite
<1>2. IsFiniteSet(S)
  <2>1. S \in SUBSET DOMAIN b
    BY DEF SelectedPositions, Positions
  <2> QED BY <1>1, <2>1, FS_Subset
<1>3. StoredBodies(b, run) = {b[i].event : i \in S}
  BY StoredBodiesAreSelected
<1>4. ExistsBijection(S, StoredBodies(b, run))
  <2>1. \A i, j \in S : f[i] = f[j] => i = j
    BY <1>1, SelectedCopyUnique
  <2>2. f \in [S -> StoredBodies(b, run)] /\ \A t \in StoredBodies(b, run) : \E i \in S : f[i] = t
    BY <1>3
  <2> HIDE DEF f, S
  <2>3. f \in Bijection(S, StoredBodies(b, run))
    BY <2>1, <2>2 DEF Bijection, Injection, Surjection, IsInjective
  <2> QED BY <2>3 DEF ExistsBijection
<1> HIDE DEF f, S
<1>5. Cardinality(S) = Cardinality(StoredBodies(b, run))
  BY <1>2, <1>4, FS_Bijection
<1> QED BY <1>5 DEF UniqueCount, S

\* Every copy of an accepted Run of a batch is one Gold can take.
LEMMA AcceptedBatchRunIsAccepted ==
  ASSUME NEW b, PipelineBronze(b), NEW date,
         NEW x \in ReceivedDateBatch(b, date), x.status # "INVALID", NEW k
  PROVE  Accepted(GoldCopy(x, k))
<1>1. PICK run \in TargetRuns(b, date) : x = BatchRun(b, run)
  BY DEF ReceivedDateBatch
<1> DEFINE bodies == {y.event : y \in x.events}
<1>2. /\ x.events = StoredEvents(b, run)
      /\ x.counts = [input |-> InputCount(b, run), unique |-> UniqueCount(b, run),
                     retries |-> ExactRetryCount(b, run),
                     conflicts |-> ConflictingCount(b, run)]
  BY <1>1 DEF BatchRun, Counts
<1>3. /\ GoldCopy(x, k).run_id = x.run_id /\ GoldCopy(x, k).status = x.status
      /\ GoldCopy(x, k).events = bodies /\ GoldCopy(x, k).counts = x.counts
  BY DEF GoldCopy
<1>4. x \in StoredRun
  BY BatchIsTyped
<1>5. Revalidates(x, date)
  BY AcceptedBatchRunRevalidates
<1>6. bodies \subseteq Event /\ bodies # {} /\ \A e \in bodies : e.run_id = x.run_id
  BY <1>4, <1>5 DEF StoredRun, StoredRow, Revalidates
<1>7. x.status = Verdict(bodies)
  BY <1>5 DEF Revalidates
<1>8. IsFiniteSet(bodies)
  <2> DEFINE f == [y \in x.events |-> y.event]
  <2>1. bodies = {f[y] : y \in x.events}
    OBVIOUS
  <2>2. IsFiniteSet(x.events)
    BY <1>2, ResultIsFinite
  <2> HIDE DEF f, bodies
  <2> QED BY <2>1, <2>2, FiniteImage
<1>9. /\ x.counts["input"] = x.counts["unique"] + x.counts["retries"] + x.counts["conflicts"]
      /\ x.counts["unique"] = Cardinality(bodies)
  <2>1. bodies = StoredBodies(b, run)
    BY <1>2 DEF StoredBodies
  <2> HIDE DEF bodies
  <2> QED BY <1>2, <2>1, PipelineBronzeIsFinite, CountsAddUp, UniqueCountIsOfBodies
<1>10. x.counts \in [CountName -> Nat]
  BY <1>4 DEF StoredRun
<1> HIDE DEF bodies
<1> QED BY <1>3, <1>6, <1>7, <1>8, <1>9, <1>10 DEF Accepted

\* Gold may take the table as it finds it: GoldPipeline's PublishedAssumption
\* holds of every table the pipeline can publish, at every moment and however
\* often a date was inserted.
THEOREM PublishedTableIsTrustedHolds == Spec => []PublishedTableIsTrusted
<1>1. ASSUME TypeOK, OriginInv PROVE PublishedTableIsTrusted
  <2>1. DOMAIN GoldTable = Date
    BY DEF GoldTable
  <2>2. IsFiniteSet(Date)
    <3>1. DateOf(0) \in Int /\ DateOf(Horizon) \in Int
      BY ClockAssumption, PipelineAssumption DEF DateOf
    <3> QED BY <3>1, FS_Interval DEF Date
  <2>3. ASSUME NEW date \in Date
        PROVE  IsFiniteSet(GoldTable[date])
    <3> DEFINE rows == iceberg[date]
               copies == [k \in DOMAIN rows |-> {GoldCopy(x, k) : x \in rows[k]}]
               all == {copies[k] : k \in DOMAIN rows}
    <3>1. GoldTable[date] = UNION all
      <4>1. all = {{GoldCopy(x, k) : x \in rows[k]} : k \in DOMAIN rows}
        OBVIOUS
      <4> HIDE DEF all, copies
      <4> QED BY <4>1 DEF GoldTable
    <3>2. IsFiniteSet(DOMAIN rows)
      <4>1. rows \in Seq(SUBSET StoredRun)
        BY <1>1 DEF TypeOK
      <4>2. DOMAIN rows = 1 .. Len(rows) /\ Len(rows) \in Nat
        BY <4>1
      <4> QED BY <4>2, FS_Interval
    <3>3. IsFiniteSet(all)
      <4> HIDE DEF rows, copies
      <4> QED BY <3>2, FiniteImage
    <3>4. ASSUME NEW k \in DOMAIN rows PROVE IsFiniteSet(copies[k])
      <4>1. Origin(rows[k], date)
        BY <1>1 DEF OriginInv
      <4>2. IsFiniteSet(rows[k])
        BY <4>1, ResultIsFinite, FS_EmptySet DEF Origin
      <4> DEFINE f == [x \in rows[k] |-> GoldCopy(x, k)]
      <4>3. copies[k] = {f[x] : x \in rows[k]}
        OBVIOUS
      <4> HIDE DEF f, copies, rows
      <4> QED BY <4>2, <4>3, FiniteImage
    <3> HIDE DEF copies, rows
    <3>5. \A set \in all : IsFiniteSet(set)
      BY <3>4
    <3> HIDE DEF all
    <3> QED BY <3>1, <3>3, <3>5, FS_UNION
  <2>4. ASSUME NEW date \in Date, NEW run \in GoldTable[date]
        PROVE  Accepted(run)
    <3>1. PICK k \in DOMAIN iceberg[date] : \E x \in iceberg[date][k] : run = GoldCopy(x, k)
      BY DEF GoldTable
    <3> PICK x \in iceberg[date][k] : run = GoldCopy(x, k)
      BY <3>1
    <3>2. x \in Published(date)
      BY DEF Published
    <3> QED BY <1>1, <3>2, PublishedFromBronze, AcceptedBatchRunIsAccepted
  <2> QED BY <2>1, <2>2, <2>3, <2>4 DEF PublishedTableIsTrusted, TrustedTable
<1> QED BY <1>1, OriginInvariant, PipelineTypeCorrect, PTL

-----------------------------------------------------------------------------
(* Fresh dates are exact.  While a program works on today's Bronze, each   *)
(* of its stages knows what the stores of its date hold; only the DAG      *)
(* touches the table, and never that of a fresh date.                      *)

Exact(date) == SilverRuns(ReceivedDateBatch(bronze, date))

CurrentWorkIsExact ==
  \A w \in Rebuilder : job[w].current =>
    /\ At(w, "put_silver") => job[w].batch = ReceivedDateBatch(bronze, job[w].date)
    /\ job[w].stage \in {"put_quarantine", "delete", "insert"}
         => silver[job[w].date] = Exact(job[w].date)
    /\ At(w, "insert") => iceberg[job[w].date] = <<>>

OnlyTheDagWritesTheTable ==
  \A w \in Rebuilder : job[w].stage \in {"delete", "insert"} => w = "dag"

RebuiltDateIsNotFresh ==
  \A w \in Rebuilder :
    /\ w = "dag"
    /\ job[w].stage \in {"put_quarantine", "delete", "insert"}
    => job[w].date \notin fresh

FreshInv ==
  /\ TypeOK
  /\ FreshDateIsExact
  /\ CurrentWorkIsExact
  /\ OnlyTheDagWritesTheTable
  /\ RebuiltDateIsNotFresh

\* No date is fresh at the start.
LEMMA FreshInvInit == Init => FreshInv
BY PipelineTypeCorrectInit
   DEF Init, Idle, FreshInv, FreshDateIsExact, CurrentWorkIsExact,
       OnlyTheDagWritesTheTable, RebuiltDateIsNotFresh, At

\* Every step keeps fresh dates exact.
LEMMA FreshInvStep ==
  ASSUME FreshInv, TypeOK', [Next]_vars
  PROVE  FreshInv'
<1>0. /\ TypeOK /\ FreshDateIsExact /\ CurrentWorkIsExact
      /\ OnlyTheDagWritesTheTable /\ RebuiltDateIsNotFresh
  BY DEF FreshInv
<1> USE DEF At
<1>a. \A w \in Rebuilder : job[w].date \in Date
  BY <1>0 DEF TypeOK
<1>b. ASSUME UNCHANGED <<bronze, silver, iceberg, fresh, job>>
      PROVE  FreshInv'
  BY <1>0, <1>b DEF FreshInv, FreshDateIsExact, CurrentWorkIsExact,
     OnlyTheDagWritesTheTable, RebuiltDateIsNotFresh, Exact
\* One program becomes idle and no store changes.
<1>c. ASSUME NEW w \in Rebuilder, job' = [job EXCEPT ![w] = Idle],
             UNCHANGED <<bronze, silver, iceberg, fresh>>
      PROVE  FreshInv'
  <2>1. \A v \in Rebuilder : job'[v] = job[v] \/ job'[v] = Idle
    BY <1>0, <1>c DEF TypeOK
  <2> QED BY <1>0, <1>c, <2>1 DEF FreshInv, FreshDateIsExact, CurrentWorkIsExact,
             OnlyTheDagWritesTheTable, RebuiltDateIsNotFresh, Exact, Idle
<1>1. CASE Tick
  BY <1>b, <1>1 DEF Tick, Feed!Tick
<1>2. ASSUME BronzeChanged
      PROVE  FreshInv'
  <2>1. \A w \in Rebuilder : /\ job'[w].current = FALSE
                             /\ job'[w].stage = job[w].stage
                             /\ job'[w].date = job[w].date
    BY <1>0, <1>2 DEF BronzeChanged, TypeOK
  <2>2. fresh' = {}
    BY <1>2 DEF BronzeChanged
  <2> QED BY <1>0, <2>1, <2>2 DEF FreshInv, FreshDateIsExact, CurrentWorkIsExact,
             OnlyTheDagWritesTheTable, RebuiltDateIsNotFresh
<1>3. ASSUME NEW w \in Rebuilder, NEW date \in Date, Start(w, date)
      PROVE  FreshInv'
  <2>1. \A v \in Rebuilder :
          \/ job'[v] = job[v]
          \/ v = w /\ job'[v].stage = "read" /\ job'[v].current = FALSE
    BY <1>0, <1>3 DEF Start, Idle, TypeOK
  <2>2. UNCHANGED <<bronze, silver, iceberg, fresh>>
    BY <1>3 DEF Start
  <2> QED BY <1>0, <2>1, <2>2 DEF FreshInv, FreshDateIsExact, CurrentWorkIsExact,
             OnlyTheDagWritesTheTable, RebuiltDateIsNotFresh, Exact
<1>4. ASSUME NEW w \in Rebuilder, ReadBronze(w)
      PROVE  FreshInv'
  <2>1. \A v \in Rebuilder :
          \/ job'[v] = job[v]
          \/ /\ v = w /\ job'[v].stage = "put_silver" /\ job'[v].date = job[v].date
             /\ job'[v].batch = ReceivedDateBatch(bronze, job[v].date)
    BY <1>0, <1>4 DEF ReadBronze, TypeOK
  <2>2. UNCHANGED <<bronze, silver, iceberg, fresh>>
    BY <1>4 DEF ReadBronze
  <2> QED BY <1>0, <2>1, <2>2 DEF FreshInv, FreshDateIsExact, CurrentWorkIsExact,
             OnlyTheDagWritesTheTable, RebuiltDateIsNotFresh, Exact
<1>5. ASSUME NEW w \in Rebuilder, PutSilver(w)
      PROVE  FreshInv'
  <2> DEFINE date == job[w].date
  <2>1. /\ job[w].stage = "put_silver"
        /\ silver'[date] = SilverRuns(job[w].batch)
        /\ \A d \in Date : d # date => silver'[d] = silver[d]
        /\ fresh' = fresh \ {date}
        /\ UNCHANGED <<bronze, iceberg>>
    BY <1>0, <1>5, <1>a DEF PutSilver, TypeOK
  <2>2. /\ job'[w].stage = "put_quarantine" /\ job'[w].date = date
        /\ job'[w].current = job[w].current
        /\ \A v \in Rebuilder \ {w} :
             \/ job'[v] = job[v] /\ job[v].date # date
             \/ /\ job'[v].current = FALSE
                /\ job'[v].stage = job[v].stage /\ job'[v].date = job[v].date
    BY <1>0, <1>5 DEF PutSilver, TypeOK
  <2> HIDE DEF date
  <2>3. FreshDateIsExact'
    BY <1>0, <2>1 DEF FreshDateIsExact, TypeOK
  <2>4. CurrentWorkIsExact'
    <3>1. ASSUME job[w].current PROVE silver'[date] = Exact(date)
      BY <1>0, <2>1, <3>1 DEF CurrentWorkIsExact, Exact, date
    <3> QED BY <1>0, <1>a, <2>1, <2>2, <3>1 DEF CurrentWorkIsExact, Exact
  <2>5. OnlyTheDagWritesTheTable' /\ RebuiltDateIsNotFresh'
    <3>1. ASSUME NEW v \in Rebuilder, v # w
          PROVE  job'[v].stage = job[v].stage /\ job'[v].date = job[v].date
      BY <2>2, <3>1
    <3> QED BY <1>0, <2>1, <2>2, <3>1 DEF OnlyTheDagWritesTheTable, RebuiltDateIsNotFresh
  <2> QED BY <2>3, <2>4, <2>5 DEF FreshInv
<1>6. ASSUME NEW w \in Rebuilder, PutQuarantine(w)
      PROVE  FreshInv'
  <2>1. \A v \in Rebuilder :
          \/ job'[v] = job[v]
          \/ job'[v] = Idle
          \/ /\ v = w /\ w = "dag" /\ job[v].stage = "put_quarantine"
             /\ job'[v].stage = "delete" /\ job'[v].date = job[v].date
             /\ job'[v].current = job[v].current
    BY <1>0, <1>6 DEF PutQuarantine, TypeOK
  <2>2. UNCHANGED <<bronze, silver, iceberg, fresh>>
    BY <1>6 DEF PutQuarantine
  <2> QED BY <1>0, <2>1, <2>2 DEF FreshInv, FreshDateIsExact, CurrentWorkIsExact,
             OnlyTheDagWritesTheTable, RebuiltDateIsNotFresh, Exact, Idle
<1>7. ASSUME NEW w \in Rebuilder, DeleteRows(w)
      PROVE  FreshInv'
  <2>1. /\ w = "dag" /\ job[w].date \notin fresh /\ job[w].stage = "delete"
        /\ iceberg'[job[w].date] = <<>>
        /\ \A d \in Date : d # job[w].date => iceberg'[d] = iceberg[d]
        /\ UNCHANGED <<bronze, silver, fresh>>
    BY <1>0, <1>7, <1>a
       DEF DeleteRows, DeleteEffect, OnlyTheDagWritesTheTable, RebuiltDateIsNotFresh, TypeOK
  <2>2. \A v \in Rebuilder :
          \/ v # w /\ job'[v] = job[v]
          \/ /\ v = w /\ job'[v].stage = "insert" /\ job'[v].date = job[v].date
             /\ job'[v].current = job[v].current
    BY <1>0, <1>7 DEF DeleteRows, Goto, TypeOK
  <2>3. FreshDateIsExact'
    BY <1>0, <2>1 DEF FreshDateIsExact, TypeOK
  <2>4. CurrentWorkIsExact'
    BY <1>0, <2>1, <2>2 DEF CurrentWorkIsExact, OnlyTheDagWritesTheTable, Exact
  <2>5. OnlyTheDagWritesTheTable' /\ RebuiltDateIsNotFresh'
    BY <1>0, <2>1, <2>2 DEF OnlyTheDagWritesTheTable, RebuiltDateIsNotFresh
  <2> QED BY <2>3, <2>4, <2>5 DEF FreshInv
\* What an INSERT of the DAG leaves alone.
<1>d. ASSUME NEW w \in Rebuilder, job' = [job EXCEPT ![w] = Idle],
             job[w].stage \in {"delete", "insert"},
             UNCHANGED <<bronze, silver>>,
             \A d \in Date : d # job[w].date => iceberg'[d] = iceberg[d],
             fresh' = fresh
             \/ (fresh' = fresh \cup {job[w].date} /\ iceberg'[job[w].date] = <<Exact(job[w].date)>>
                 /\ silver[job[w].date] = Exact(job[w].date))
      PROVE  FreshInv'
  <2>1. w = "dag" /\ job[w].date \notin fresh
    BY <1>0, <1>d DEF OnlyTheDagWritesTheTable, RebuiltDateIsNotFresh
  <2>2. \A v \in Rebuilder : \/ v # w /\ job'[v] = job[v]
                             \/ v = w /\ job'[v] = Idle
    BY <1>0, <1>d DEF TypeOK
  <2>3. FreshDateIsExact'
    BY <1>0, <1>d, <2>1 DEF FreshDateIsExact, Exact, TypeOK
  <2>4. CurrentWorkIsExact'
    <3>1. \A v \in Rebuilder : v # w => job[v].stage # "insert"
      BY <1>0, <2>1 DEF OnlyTheDagWritesTheTable
    <3>2. Idle.current = FALSE
      BY DEF Idle
    <3>3. \A d : Exact(d)' = Exact(d)
      BY <1>d DEF Exact
    <3>4. \A v \in Rebuilder : job'[v].current =>
            v # w /\ job'[v] = job[v] /\ job[v].stage # "insert"
      BY <2>2, <3>1, <3>2
    <3> QED BY <1>0, <1>d, <3>3, <3>4 DEF CurrentWorkIsExact
  <2>5. OnlyTheDagWritesTheTable' /\ RebuiltDateIsNotFresh'
    BY <1>0, <1>d, <2>1, <2>2 DEF OnlyTheDagWritesTheTable, RebuiltDateIsNotFresh, Idle
  <2> QED BY <2>3, <2>4, <2>5 DEF FreshInv
<1>8. ASSUME NEW w \in Rebuilder, InsertRows(w)
      PROVE  FreshInv'
  <2>1. /\ job[w].stage = "insert" /\ job' = [job EXCEPT ![w] = Idle]
        /\ UNCHANGED <<bronze, silver>>
        /\ \A d \in Date : d # job[w].date => iceberg'[d] = iceberg[d]
        /\ iceberg'[job[w].date] = Append(iceberg[job[w].date], RowsToInsert(job[w].date))
    BY <1>0, <1>8, <1>a DEF InsertRows, InsertEffect, TypeOK
  <2>2. CASE job[w].current /\ Projected(job[w].date)
    <3>1. silver[job[w].date] = Exact(job[w].date) /\ iceberg[job[w].date] = <<>>
      BY <1>0, <2>1, <2>2 DEF CurrentWorkIsExact
    <3>2. RowsToInsert(job[w].date) = Exact(job[w].date)
      BY <2>2, <3>1 DEF RowsToInsert
    <3>3. iceberg'[job[w].date] = <<Exact(job[w].date)>>
      BY <2>1, <3>1, <3>2
    <3>4. fresh' = fresh \cup {job[w].date}
      BY <1>8, <2>2 DEF InsertRows
    <3> QED BY <1>d, <2>1, <3>1, <3>3, <3>4
  <2>3. CASE ~(job[w].current /\ Projected(job[w].date))
    <3>1. fresh' = fresh
      BY <1>8, <2>3 DEF InsertRows
    <3> QED BY <1>d, <2>1, <3>1
  <2> QED BY <2>2, <2>3
<1>9. ASSUME NEW w \in Rebuilder, Fail(w)
      PROVE  FreshInv'
  BY <1>9, <1>c DEF Fail
<1>10. ASSUME NEW w \in Rebuilder, TimeOut(w)
       PROVE  FreshInv'
  <2>1. /\ job[w].stage \in {"delete", "insert"} /\ job' = [job EXCEPT ![w] = Idle]
        /\ UNCHANGED <<bronze, silver, fresh>>
        /\ \A d \in Date : d # job[w].date => iceberg'[d] = iceberg[d]
    BY <1>0, <1>10, <1>a DEF TimeOut, InsertEffect, DeleteEffect, TypeOK
  <2> QED BY <1>d, <2>1
<1>11. ASSUME NEW w \in Rebuilder, Abandon(w)
       PROVE  FreshInv'
  BY <1>11, <1>c DEF Abandon
<1>12. ASSUME NEW statement \in running, Land(statement)
       PROVE  FreshInv'
  <2>1. /\ statement.date \in Date
        /\ \A d \in Date : d # statement.date => iceberg'[d] = iceberg[d]
        /\ fresh' = fresh \ {statement.date}
        /\ UNCHANGED <<bronze, silver>>
    BY <1>0, <1>12 DEF Land, InsertEffect, TypeOK
  <2>2. \A v \in Rebuilder :
          \/ job'[v] = job[v] /\ ~(job[v].date = statement.date /\ job[v].stage = "insert")
          \/ /\ job'[v].current = FALSE
             /\ job'[v].stage = job[v].stage /\ job'[v].date = job[v].date
    BY <1>0, <1>12 DEF Land, TypeOK
  <2>3. FreshDateIsExact'
    BY <1>0, <2>1 DEF FreshDateIsExact, TypeOK
  <2>4. CurrentWorkIsExact'
    BY <1>0, <1>a, <2>1, <2>2 DEF CurrentWorkIsExact, Exact
  <2>5. OnlyTheDagWritesTheTable' /\ RebuiltDateIsNotFresh'
    <3>1. \A v \in Rebuilder : job'[v].stage = job[v].stage /\ job'[v].date = job[v].date
      BY <2>2
    <3> QED BY <1>0, <2>1, <3>1 DEF OnlyTheDagWritesTheTable, RebuiltDateIsNotFresh
  <2> QED BY <2>3, <2>4, <2>5 DEF FreshInv
<1>13. CASE UNCHANGED vars
  BY <1>b, <1>13 DEF vars
<1> QED BY <1>1, <1>2, <1>3, <1>4, <1>5, <1>6, <1>7, <1>8, <1>9, <1>10, <1>11, <1>12, <1>13
     DEF Next, Rebuild, Deliver, Expire

\* A date rebuilt since Bronze last changed is exact.
THEOREM FreshDateIsExactHolds == Spec => []FreshDateIsExact
<1>1. FreshInv /\ TypeOK' /\ [Next]_vars => FreshInv'
  BY FreshInvStep
<1>2. FreshInv => FreshDateIsExact
  BY DEF FreshInv
<1> QED BY <1>1, <1>2, FreshInvInit, PipelineTypeCorrect, PTL DEF Spec

-----------------------------------------------------------------------------
(* One INSERT per DELETE, as long as no poll raises.                       *)

OnceInv ==
  /\ TypeOK
  /\ ADateIsInsertedOnce
  /\ OnlyTheDagWritesTheTable
  /\ running = {}
  /\ \A w \in Rebuilder : At(w, "insert") => iceberg[job[w].date] = <<>>

\* The table is empty at the start.
LEMMA OnceInvInit == Init => OnceInv
<1> SUFFICES ASSUME Init PROVE OnceInv
  OBVIOUS
<1>1. \A date \in Date : Len(iceberg[date]) <= 1
  BY DEF Init
<1> QED BY <1>1, PipelineTypeCorrectInit
     DEF Init, Idle, OnceInv, ADateIsInsertedOnce, OnlyTheDagWritesTheTable, At

\* Every step inserts into a date only what a DELETE emptied.
LEMMA OnceInvStep ==
  ASSUME MaxAbandoned = 0, OnceInv, TypeOK', [Next]_vars
  PROVE  OnceInv'
<1> USE DEF At
<1>0. /\ TypeOK /\ ADateIsInsertedOnce /\ OnlyTheDagWritesTheTable /\ running = {}
      /\ \A w \in Rebuilder : job[w].stage = "insert" => iceberg[job[w].date] = <<>>
      /\ \A w \in Rebuilder : job[w].date \in Date
  BY DEF OnceInv, TypeOK
\* Steps that leave the table alone and send no program to it.
<1>a. ASSUME UNCHANGED <<iceberg, running>>,
             \A w \in Rebuilder :
               \/ job'[w].stage \notin {"delete", "insert"}
               \/ job'[w].stage = job[w].stage /\ job'[w].date = job[w].date
               \/ w = "dag" /\ job'[w].stage = "delete"
      PROVE  OnceInv'
  BY <1>0, <1>a DEF OnceInv, ADateIsInsertedOnce, OnlyTheDagWritesTheTable
\* A statement of the DAG, after which it is idle or about to INSERT.
<1>b. ASSUME NEW w \in Rebuilder, job[w].stage \in {"delete", "insert"},
             running' = running,
             \A d \in Date : d # job[w].date => iceberg'[d] = iceberg[d],
             \A v \in Rebuilder \ {w} : job'[v] = job[v],
             \/ job'[w].stage = "idle" /\ Len(iceberg'[job[w].date]) <= 1
             \/ /\ job'[w].stage = "insert" /\ job'[w].date = job[w].date
                /\ iceberg'[job[w].date] = <<>>
      PROVE  OnceInv'
  <2>1. w = "dag" /\ \A v \in Rebuilder \ {w} : job[v].stage \notin {"delete", "insert"}
    BY <1>0, <1>b DEF OnlyTheDagWritesTheTable
  <2>2. Len(iceberg'[job[w].date]) <= 1
    BY <1>b
  <2>3. ADateIsInsertedOnce'
    BY <1>0, <1>b, <2>2 DEF ADateIsInsertedOnce
  <2>4. OnlyTheDagWritesTheTable'
    BY <1>b, <2>1 DEF OnlyTheDagWritesTheTable
  <2>5. \A v \in Rebuilder : job'[v].stage = "insert" => iceberg'[job'[v].date] = <<>>
    BY <1>b, <2>1
  <2> QED BY <1>0, <1>b, <2>3, <2>4, <2>5 DEF OnceInv
\* A DELETE leaves nothing, an INSERT into nothing leaves one set of rows.
<1>c. ASSUME NEW date \in Date, DeleteEffect(date)
      PROVE  /\ iceberg'[date] = <<>> /\ Len(iceberg'[date]) <= 1
             /\ \A d \in Date : d # date => iceberg'[d] = iceberg[d]
  BY <1>0, <1>c DEF DeleteEffect, TypeOK
<1>d. ASSUME NEW date \in Date, InsertEffect(date, RowsToInsert(date)), iceberg[date] = <<>>
      PROVE  /\ Len(iceberg'[date]) <= 1
             /\ \A d \in Date : d # date => iceberg'[d] = iceberg[d]
  <2>1. iceberg'[date] = Append(<<>>, RowsToInsert(date))
    BY <1>0, <1>d DEF InsertEffect, TypeOK
  <2>2. Len(Append(<<>>, RowsToInsert(date))) = 1
    OBVIOUS
  <2> QED BY <1>0, <1>d, <2>1, <2>2 DEF InsertEffect, TypeOK
<1>1. CASE Tick
  BY <1>a, <1>1 DEF Tick, Feed!Tick
<1>2. ASSUME BronzeChanged
      PROVE  OnceInv'
  <2>1. \A w \in Rebuilder : job'[w].stage = job[w].stage /\ job'[w].date = job[w].date
    BY <1>0, <1>2 DEF BronzeChanged, TypeOK
  <2> QED BY <1>2, <1>a, <2>1 DEF BronzeChanged
<1>3. ASSUME NEW w \in Rebuilder,
             \/ \E date \in Date : Start(w, date)
             \/ ReadBronze(w) \/ PutSilver(w) \/ PutQuarantine(w) \/ Fail(w)
      PROVE  OnceInv'
  <2>1. \A v \in Rebuilder :
          \/ job'[v].stage \notin {"delete", "insert"}
          \/ job'[v].stage = job[v].stage /\ job'[v].date = job[v].date
          \/ v = "dag" /\ job'[v].stage = "delete"
    <3>1. CASE \E date \in Date : Start(w, date)
      BY <1>0, <3>1 DEF Start, Idle, TypeOK
    <3>2. CASE ReadBronze(w)
      BY <1>0, <3>2 DEF ReadBronze, TypeOK
    <3>3. CASE PutSilver(w)
      BY <1>0, <3>3 DEF PutSilver, TypeOK
    <3>4. CASE PutQuarantine(w)
      BY <1>0, <3>4 DEF PutQuarantine, Idle, TypeOK
    <3>5. CASE Fail(w)
      BY <1>0, <3>5 DEF Fail, Idle, TypeOK
    <3> QED BY <1>3, <3>1, <3>2, <3>3, <3>4, <3>5
  <2>2. UNCHANGED <<iceberg, running>>
    BY <1>3 DEF Start, ReadBronze, PutSilver, PutQuarantine, Fail
  <2> QED BY <1>a, <2>1, <2>2
<1>4. ASSUME NEW w \in Rebuilder, DeleteRows(w)
      PROVE  OnceInv'
  <2>1. /\ job[w].stage = "delete" /\ DeleteEffect(job[w].date) /\ running' = running
        /\ job'[w].stage = "insert" /\ job'[w].date = job[w].date
        /\ \A v \in Rebuilder \ {w} : job'[v] = job[v]
    BY <1>0, <1>4 DEF DeleteRows, Goto, TypeOK
  <2> QED BY <1>0, <1>b, <1>c, <2>1
<1>5. ASSUME NEW w \in Rebuilder, InsertRows(w) \/ TimeOut(w)
      PROVE  OnceInv'
  <2>1. /\ running' = running /\ job'[w].stage = "idle"
        /\ \A v \in Rebuilder \ {w} : job'[v] = job[v]
        /\ \/ job[w].stage = "delete" /\ DeleteEffect(job[w].date)
           \/ job[w].stage = "insert" /\ InsertEffect(job[w].date, RowsToInsert(job[w].date))
    BY <1>0, <1>5 DEF InsertRows, TimeOut, Idle, TypeOK
  <2>2. CASE job[w].stage = "delete" /\ DeleteEffect(job[w].date)
    BY <1>0, <1>b, <1>c, <2>1, <2>2
  <2>3. CASE job[w].stage = "insert" /\ InsertEffect(job[w].date, RowsToInsert(job[w].date))
    BY <1>0, <1>b, <1>d, <2>1, <2>3
  <2> QED BY <2>1, <2>2, <2>3
<1>6. ASSUME NEW w \in Rebuilder
      PROVE  ~Abandon(w)
  BY <1>0, FS_EmptySet DEF Abandon
<1>7. CASE UNCHANGED vars
  BY <1>a, <1>7 DEF vars
<1> QED BY <1>0, <1>1, <1>2, <1>3, <1>4, <1>5, <1>6, <1>7 DEF Next, Rebuild, Deliver, Expire

\* Whatever fails or times out, a date is never inserted twice, unless an
\* INSERT is left running.
THEOREM InsertedOnceHolds ==
  ASSUME MaxAbandoned = 0
  PROVE  Spec => []ADateIsInsertedOnce
<1>1. OnceInv /\ TypeOK' /\ [Next]_vars => OnceInv'
  BY OnceInvStep
<1>2. OnceInv => ADateIsInsertedOnce
  BY DEF OnceInv
<1> QED BY <1>1, <1>2, OnceInvInit, PipelineTypeCorrect, PTL DEF Spec

-----------------------------------------------------------------------------
(* When every date is fresh no event is trusted twice.                     *)

\* Two rows of accepted Runs with one event_id are one row of one Run, on the
\* one date that owns it.
LEMMA AcceptedRowsAreUnique ==
  ASSUME NEW b, PipelineBronze(b), NEW d1, NEW d2,
         NEW x \in SilverRuns(ReceivedDateBatch(b, d1)),
         NEW y \in SilverRuns(ReceivedDateBatch(b, d2)),
         NEW r1 \in x.events, NEW r2 \in y.events,
         r1.event.event_id = r2.event.event_id
  PROVE  d1 = d2 /\ x = y /\ r1 = r2
<1>0. IsBronze(b)
  BY PipelineBronzeIsBronze
<1>1. PICK run1 \in TargetRuns(b, d1) : x = BatchRun(b, run1) /\ x.status # "INVALID"
  BY DEF SilverRuns, ReceivedDateBatch
<1>2. PICK run2 \in TargetRuns(b, d2) : y = BatchRun(b, run2) /\ y.status # "INVALID"
  BY DEF SilverRuns, ReceivedDateBatch
<1>3. PICK i \in SelectedPositions(b, run1) :
         r1 = [event |-> b[i].event, first_received_at |-> b[i].received_at]
  BY <1>1 DEF BatchRun, StoredEvents
<1>4. PICK j \in SelectedPositions(b, run2) :
         r2 = [event |-> b[j].event, first_received_at |-> b[j].received_at]
  BY <1>2 DEF BatchRun, StoredEvents
<1>5. /\ i \in DOMAIN b /\ RunAt(b, i) = run1
      /\ j \in DOMAIN b /\ RunAt(b, j) = run2
      /\ b[i].event.event_id = b[j].event.event_id
  BY <1>3, <1>4 DEF SelectedPositions, Positions
<1>6. ~CrossRunIssue(b, run1)
  BY <1>1 DEF BatchRun, BatchStatus, RunStatus
<1>7. run1 = run2
  BY <1>0, <1>5, <1>6, CrossRunIssueIsSharing
<1>8. d1 = d2
  BY <1>7 DEF TargetRuns
<1>9. i = j
  BY <1>0, <1>3, <1>4, <1>5, <1>7, SelectedCopyUnique
<1> QED BY <1>1, <1>2, <1>3, <1>4, <1>7, <1>8, <1>9

\* Rebuilding every date repairs the table, rows inserted twice included: it then
\* holds every event_id in one row.
THEOREM EveryDateFreshHolds == Spec => []EveryDateFreshMeansNoDuplicate
<1>1. ASSUME TypeOK, FreshDateIsExact
      PROVE  EveryDateFreshMeansNoDuplicate
  <2> SUFFICES ASSUME fresh = Date, NEW r \in IcebergRows, NEW s \in IcebergRows,
                      r.row.event.event_id = s.row.event.event_id
               PROVE  r = s
    BY DEF EveryDateFreshMeansNoDuplicate
  <2>1. \A d \in Date : iceberg[d] = <<SilverRuns(ReceivedDateBatch(bronze, d))>>
    BY <1>1 DEF FreshDateIsExact
  <2>2. ASSUME NEW q \in IcebergRows
        PROVE  \E d \in Date : \E x \in SilverRuns(ReceivedDateBatch(bronze, d)) :
                 \E y \in x.events : q = [date |-> d, insert |-> 1, run |-> x, row |-> y]
    <3>1. PICK d \in Date : \E k \in DOMAIN iceberg[d] : \E x \in iceberg[d][k] :
            \E y \in x.events : q = [date |-> d, insert |-> k, run |-> x, row |-> y]
      BY DEF IcebergRows
    <3> PICK k \in DOMAIN iceberg[d] : \E x \in iceberg[d][k] :
          \E y \in x.events : q = [date |-> d, insert |-> k, run |-> x, row |-> y]
      BY <3>1
    <3>2. k = 1 /\ iceberg[d][k] = SilverRuns(ReceivedDateBatch(bronze, d))
      BY <2>1, <3>1
    <3> QED BY <3>1, <3>2
  <2> PICK d1 \in Date : \E x \in SilverRuns(ReceivedDateBatch(bronze, d1)) :
        \E y \in x.events : r = [date |-> d1, insert |-> 1, run |-> x, row |-> y]
    BY <2>2
  <2> PICK x1 \in SilverRuns(ReceivedDateBatch(bronze, d1)) :
        \E y \in x1.events : r = [date |-> d1, insert |-> 1, run |-> x1, row |-> y]
    OBVIOUS
  <2>3. PICK y1 \in x1.events : r = [date |-> d1, insert |-> 1, run |-> x1, row |-> y1]
    OBVIOUS
  <2> PICK d2 \in Date : \E x \in SilverRuns(ReceivedDateBatch(bronze, d2)) :
        \E y \in x.events : s = [date |-> d2, insert |-> 1, run |-> x, row |-> y]
    BY <2>2
  <2> PICK x2 \in SilverRuns(ReceivedDateBatch(bronze, d2)) :
        \E y \in x2.events : s = [date |-> d2, insert |-> 1, run |-> x2, row |-> y]
    OBVIOUS
  <2>4. PICK y2 \in x2.events : s = [date |-> d2, insert |-> 1, run |-> x2, row |-> y2]
    OBVIOUS
  <2>5. y1.event.event_id = y2.event.event_id
    BY <2>3, <2>4
  <2>6. d1 = d2 /\ x1 = x2 /\ y1 = y2
    BY <1>1, <2>5, TypedPipelineBronze, AcceptedRowsAreUnique
  <2> QED BY <2>3, <2>4, <2>6
<1>2. TypeOK /\ FreshDateIsExact => EveryDateFreshMeansNoDuplicate
  BY <1>1
<1> QED BY <1>2, PipelineTypeCorrect, FreshDateIsExactHolds, PTL

\* A Run of one Bronze is in the batch of the one date that owns it.
LEMMA OneDateOwnsARun ==
  ASSUME NEW b, NEW d1, NEW d2,
         NEW x \in SilverRuns(ReceivedDateBatch(b, d1)),
         NEW y \in SilverRuns(ReceivedDateBatch(b, d2)),
         x.run_id = y.run_id
  PROVE  d1 = d2 /\ x = y
<1>1. PICK run1 \in TargetRuns(b, d1) : x = BatchRun(b, run1)
  BY DEF SilverRuns, ReceivedDateBatch
<1>2. PICK run2 \in TargetRuns(b, d2) : y = BatchRun(b, run2)
  BY DEF SilverRuns, ReceivedDateBatch
<1>3. run1 = run2
  BY <1>1, <1>2 DEF BatchRun
<1> QED BY <1>1, <1>2, <1>3 DEF TargetRuns

\* Rebuilding every date leaves each Run once in the table that Gold reads, on one
\* date and of one INSERT (rebuild_silver, refresh_silver_iceberg), which is what
\* its views need to agree and its gate to raise no false alarm.
THEOREM EveryDateFreshMeansOneCopy == Spec => [](fresh = Date => OneCopyPerRun(GoldTable))
<1>1. ASSUME FreshDateIsExact, fresh = Date
      PROVE  OneCopyPerRun(GoldTable)
  <2>1. \A d \in Date : iceberg[d] = <<SilverRuns(ReceivedDateBatch(bronze, d))>>
    BY <1>1 DEF FreshDateIsExact
  <2>2. DOMAIN GoldTable = Date
    BY DEF GoldTable
  <2>3. ASSUME NEW d \in Date, NEW x \in GoldTable[d]
        PROVE  \E u \in SilverRuns(ReceivedDateBatch(bronze, d)) : x = GoldCopy(u, 1)
    <3>1. PICK k \in DOMAIN iceberg[d] : \E u \in iceberg[d][k] : x = GoldCopy(u, k)
      BY DEF GoldTable
    <3>2. k = 1 /\ iceberg[d][k] = SilverRuns(ReceivedDateBatch(bronze, d))
      BY <2>1, <3>1
    <3> QED BY <3>1, <3>2
  <2> SUFFICES ASSUME NEW d1 \in Date, NEW d2 \in Date,
                      NEW x \in GoldTable[d1], NEW y \in GoldTable[d2],
                      x.run_id = y.run_id
               PROVE  d1 = d2 /\ x = y
    BY <2>2 DEF OneCopyPerRun
  <2> HIDE DEF GoldTable
  <2>4. PICK u \in SilverRuns(ReceivedDateBatch(bronze, d1)) : x = GoldCopy(u, 1)
    BY <2>3
  <2>5. PICK v \in SilverRuns(ReceivedDateBatch(bronze, d2)) : y = GoldCopy(v, 1)
    BY <2>3
  <2>6. u.run_id = v.run_id
    BY <2>4, <2>5 DEF GoldCopy
  <2>7. d1 = d2 /\ u = v
    BY <2>6, OneDateOwnsARun
  <2> QED BY <2>4, <2>5, <2>7
<1>2. FreshDateIsExact => (fresh = Date => OneCopyPerRun(GoldTable))
  BY <1>1
<1> QED BY <1>2, FreshDateIsExactHolds, PTL
=============================================================================
