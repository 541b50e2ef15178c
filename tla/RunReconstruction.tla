------------------------- MODULE RunReconstruction -------------------------
(***************************************************************************)
(* reconstruct_runs and reconstruct_received_date_batch: from every Bronze *)
(* record of the retention range to the Runs one received_date owns.       *)
(*                                                                         *)
(* Bronze b is a function from reading positions (the order in which the   *)
(* S3 listing yields the records) to records                               *)
(*   [event |-> an Event, received_at |-> the Lambda's clock].             *)
(***************************************************************************)
EXTENDS RunContract, FiniteSets

CONSTANTS DayLength,        \* clock ticks in a received_date
          AllowedLateness   \* allowed_lateness, in clock ticks

ASSUME ClockAssumption ==
  /\ DayLength \in Nat \ {0}
  /\ AllowedLateness \in Nat \ {0}

BronzeRecord(Time) == [event : Event, received_at : Time]

DateOf(time) == time \div DayLength

-----------------------------------------------------------------------------
(* Grouping by run_id.                                                     *)

RunAt(b, i) == b[i].event.run_id

GroupedRuns(b) == {RunAt(b, i) : i \in DOMAIN b}

Positions(b, run) == {i \in DOMAIN b : RunAt(b, i) = run}

InputEvents(b, run) == [i \in Positions(b, run) |-> b[i].event]

\* The distinct bodies delivered for a Run.
Contents(b, run) == {b[i].event : i \in Positions(b, run)}

-----------------------------------------------------------------------------
(* One event_id in several Runs.  The loop walks the groups in the order   *)
(* their Runs first appear, and each group in reading order; the first     *)
(* record it meets owns the event_id.                                      *)

FirstAppearance(b, run) ==
  CHOOSE i \in Positions(b, run) : \A j \in Positions(b, run) : i <= j

MetBefore(b, i, j) ==
  \/ FirstAppearance(b, RunAt(b, i)) < FirstAppearance(b, RunAt(b, j))
  \/ RunAt(b, i) = RunAt(b, j) /\ i < j

Claims(b, id) == {i \in DOMAIN b : b[i].event.event_id = id}

EventOwner(b, id) ==
  CHOOSE i \in Claims(b, id) : \A j \in Claims(b, id) \ {i} : MetBefore(b, i, j)

\* Mutant: only the Run read later is at fault.
LaterRunIssue(b, run) ==
  \E i \in DOMAIN b :
    LET owner == EventOwner(b, b[i].event.event_id)
    IN  /\ RunAt(b, owner) # RunAt(b, i)
        /\ Canonical(b[owner].event) # Canonical(b[i].event)
        /\ run = RunAt(b, i)

\* A record that is not the owner's Run nor its body puts both Runs at fault.
CrossRunIssue(b, run) ==
  \E i \in DOMAIN b :
    LET owner == EventOwner(b, b[i].event.event_id)
    IN  /\ RunAt(b, owner) # RunAt(b, i)
        /\ Canonical(b[owner].event) # Canonical(b[i].event)
        /\ run \in {RunAt(b, owner), RunAt(b, i)}

-----------------------------------------------------------------------------
(* _deduplicate_run_events: the copies of one event_id are sorted by time  *)
(* received, then by canonical text; the sort is stable.  The first one is *)
(* stored, whatever the reading order.                                     *)

Copies(b, run, id) == Positions(b, run) \cap Claims(b, id)

\* Mutant: the time received is not part of the sort key.
SmallerCopy(x, y) == Canonical(x.event) < Canonical(y.event)

EarlierCopy(x, y) ==
  \/ x.received_at < y.received_at
  \/ x.received_at = y.received_at /\ Canonical(x.event) < Canonical(y.event)

SortsBefore(b, i, j) ==
  EarlierCopy(b[i], b[j]) \/ (~EarlierCopy(b[j], b[i]) /\ i < j)

SelectedPositions(b, run) ==
  {i \in Positions(b, run) :
     \A j \in Copies(b, run, b[i].event.event_id) \ {i} : SortsBefore(b, i, j)}

StoredEvents(b, run) ==
  {[event |-> b[i].event, first_received_at |-> b[i].received_at] :
     i \in SelectedPositions(b, run)}

StoredBodies(b, run) == {x.event : x \in StoredEvents(b, run)}

\* Mutant: the Run is counted after its retries are dropped.
BodyCount(b, run) == Cardinality(Contents(b, run))

InputCount(b, run) == Cardinality(Positions(b, run))

UniqueCount(b, run) == Cardinality(SelectedPositions(b, run))

\* The copies sorted after the one that is stored: retries and conflicts.
ExactRetryCount(b, run) ==
  Cardinality({i \in Positions(b, run) \ SelectedPositions(b, run) :
                 b[i].event \in StoredBodies(b, run)})

ConflictingCount(b, run) ==
  Cardinality({i \in Positions(b, run) \ SelectedPositions(b, run) :
                 b[i].event \notin StoredBodies(b, run)})

Counts(b, run) ==
  [input |-> InputCount(b, run), unique |-> UniqueCount(b, run),
   retries |-> ExactRetryCount(b, run), conflicts |-> ConflictingCount(b, run)]

\* The status reconstruct_runs gives a Run.
RunStatus(b, run) ==
  IF CrossRunIssue(b, run) THEN "INVALID"
  ELSE ValidateSequence(InputEvents(b, run))

-----------------------------------------------------------------------------
(* The received-date batch: a Run belongs to the date of its earliest      *)
(* stored event, and an event stored too long after it spoils the Run.     *)

\* Mutant: a Run is dated by its latest event.
LastReceivedAt(b, run) ==
  CHOOSE t \in {x.first_received_at : x \in StoredEvents(b, run)} :
    \A x \in StoredEvents(b, run) : x.first_received_at <= t

FirstReceivedAt(b, run) ==
  CHOOSE t \in {x.first_received_at : x \in StoredEvents(b, run)} :
    \A x \in StoredEvents(b, run) : t <= x.first_received_at

OwningDate(b, run) == DateOf(FirstReceivedAt(b, run))

ArrivedTooLate(b, run) ==
  \E x \in StoredEvents(b, run) :
    x.first_received_at > FirstReceivedAt(b, run) + AllowedLateness

BatchStatus(b, run) ==
  IF ArrivedTooLate(b, run) THEN "INVALID" ELSE RunStatus(b, run)

\* Mutant: a Run belongs to every date it was received on.
TouchedRuns(b, date) ==
  {run \in GroupedRuns(b) :
     \E i \in Positions(b, run) : DateOf(b[i].received_at) = date}

TargetRuns(b, date) == {run \in GroupedRuns(b) : OwningDate(b, run) = date}

BatchRun(b, run) ==
  [run_id |-> run, status |-> BatchStatus(b, run), events |-> StoredEvents(b, run),
   counts |-> Counts(b, run)]

ReceivedDateBatch(b, date) == {BatchRun(b, run) : run \in TargetRuns(b, date)}

\* put_silver_and_quarantine separates a batch by status.
\* Mutant: nothing is held back from Silver.
AllRuns(batch) == batch

SilverRuns(batch) == {x \in batch : x.status # "INVALID"}
QuarantineRuns(batch) == {x \in batch : x.status = "INVALID"}
=============================================================================
