--------------------------- MODULE BronzeArrival ---------------------------
(***************************************************************************)
(* Bronze filling up.  The gateway retries, Kinesis and Firehose deliver   *)
(* at least once and in no order, and the key of a new object may sort     *)
(* before older ones: a step puts one more record, with any body received  *)
(* at any time, at any free reading position.                              *)
(***************************************************************************)
EXTENDS RunReconstruction, RunVerdict

CONSTANTS MaxRecords,   \* bound: records Bronze can hold
          Horizon       \* bound: last clock tick a record can be received at

ASSUME ArrivalAssumption == MaxRecords \in Nat /\ Horizon \in Nat

VARIABLE bronze

Position == 1 .. MaxRecords
ReceiveTime == 0 .. Horizon

TypeOK ==
  /\ DOMAIN bronze \subseteq Position
  /\ bronze \in [DOMAIN bronze -> BronzeRecord(ReceiveTime)]

Init == bronze = [i \in {} |-> {}]

Put(b, position, record) ==
  [i \in DOMAIN b \cup {position} |-> IF i = position THEN record ELSE b[i]]

\* Mutant: the record is stamped with the end of its received_date.
DeliverAtDayEnd(position, event, time) ==
  /\ position \notin DOMAIN bronze
  /\ bronze' = Put(bronze, position, [event |-> event,
                                     received_at |-> (DateOf(time) + 1) * DayLength])

Deliver(position, event, time) ==
  /\ position \notin DOMAIN bronze
  /\ bronze' = Put(bronze, position, [event |-> event, received_at |-> time])

Next == \E position \in Position, event \in Event, time \in ReceiveTime :
          Deliver(position, event, time)

Spec == Init /\ [][Next]_bronze

-----------------------------------------------------------------------------
(* What must hold however the records arrived.                             *)

\* The validator computes what the contract promises: its verdict depends on
\* the set of bodies delivered for the Run and on nothing else, neither the
\* reading order nor the number of retries (validate_anonymous_sequence).
VerdictIgnoresArrival ==
  \A run \in GroupedRuns(bronze) :
    ValidateSequence(InputEvents(bronze, run)) = Verdict(Contents(bronze, run))

\* The validator keeps the first copy it reads, Silver the earliest received
\* one.  Whenever the Run is accepted the two agree: Silver stores exactly the
\* bodies that were validated, each once, with no event_sequence twice, and
\* counts no conflict (validator._deduplicate, _deduplicate_run_events).
AcceptedRunStoresWhatWasValidated ==
  \A run \in GroupedRuns(bronze) : RunStatus(bronze, run) # "INVALID" =>
    /\ StoredBodies(bronze, run) = Ordered(InputEvents(bronze, run))
    /\ \A x, y \in StoredEvents(bronze, run) :
         x.event.event_sequence = y.event.event_sequence => x = y
    /\ ConflictingCount(bronze, run) = 0
    /\ InputCount(bronze, run) = UniqueCount(bronze, run) + ExactRetryCount(bronze, run)

\* An event_id that two Runs use invalidates both, whichever record was read
\* first and however many Runs share it (reconstruct_runs, event_owners).
SharedIdentityInvalidatesEveryRun ==
  \A i, j \in DOMAIN bronze :
    /\ bronze[i].event.event_id = bronze[j].event.event_id
    /\ RunAt(bronze, i) # RunAt(bronze, j)
    => /\ RunStatus(bronze, RunAt(bronze, i)) = "INVALID"
       /\ RunStatus(bronze, RunAt(bronze, j)) = "INVALID"

\* A contradiction is never outgrown: more records do not make an INVALID Run
\* acceptable (the scan compares neighbours, and a new event can part them).
ContradictionIsPermanent ==
  [][\A run \in GroupedRuns(bronze) :
       RunStatus(bronze, run) = "INVALID" => RunStatus(bronze', run) = "INVALID"]_bronze

\* The new record repeats a body of its Run that was received no later.
IsLaterRetry(b, i, record) ==
  \E j \in DOMAIN b \ {i} : /\ b[j].event = record.event
                          /\ b[j].received_at <= record.received_at

Uncounted(batch) == {<<x.run_id, x.status, x.events>> : x \in batch}

\* A retry is invisible: delivered after its original was received, at any
\* distance, it changes in the batch of no date which Runs it has, their verdict
\* or their events (it may be read first, and be later than the lateness
\* window).  Only the counts of its Run tell of it.
RetryIsInvisible ==
  [][\A i \in DOMAIN bronze' \ DOMAIN bronze :
       IsLaterRetry(bronze', i, bronze'[i])
       => \A date \in DateOf(0) .. DateOf(Horizon) :
            Uncounted(ReceivedDateBatch(bronze', date))
              = Uncounted(ReceivedDateBatch(bronze, date))]_bronze

\* A Run never moves to a later received_date, and leaves the one it has only
\* for a record received before all of its others.
OwningDateMovesBackOnly ==
  [][\A run \in GroupedRuns(bronze) :
       OwningDate(bronze', run) # OwningDate(bronze, run)
       => \E i \in DOMAIN bronze' \ DOMAIN bronze :
            /\ RunAt(bronze', i) = run
            /\ \A j \in Positions(bronze, run) :
                 bronze'[i].received_at < bronze[j].received_at]_bronze
=============================================================================
