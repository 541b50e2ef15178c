---------------------------- MODULE RunContract ----------------------------
(***************************************************************************)
(* validate_anonymous_sequence: the validator that assesses one Run from   *)
(* the list of its delivered events.                                       *)
(*                                                                         *)
(* A list is a function from reading positions (naturals, in reading       *)
(* order, gaps allowed) to events, so that the events of one Run are read  *)
(* in place out of the list of all Bronze records.                         *)
(***************************************************************************)
EXTENDS TelemetryEvent

SequenceStatus == {"VALID", "INCOMPLETE", "INVALID"}

ReasonCode == {"SCHEMA_INVALID", "DUPLICATE_CONFLICT", "EVENT_SEQUENCE_CONFLICT",
               "EVENT_SEQUENCE_GAP", "MISSING_RUN_START", "MISSING_RUN_END",
               "EVENT_ORDER_INVALID", "CORRELATION_MISMATCH", "CHOICE_MISMATCH",
               "CHOICE_NOT_FOUND", "COUNTER_DECREASED"}

\* _INCOMPLETE_SEQUENCE_CODES: reasons that leave a Run partly collected.
IncompleteCode == {"MISSING_RUN_START", "MISSING_RUN_END",
                   "EVENT_SEQUENCE_GAP", "CHOICE_NOT_FOUND"}

\* Mutant: the first reason takes the place of the status.
SequenceReason(issues) == IF issues = {} THEN "VALID" ELSE CHOOSE code \in issues : TRUE

\* _sequence_result
SequenceResult(issues) ==
  IF issues = {} THEN "VALID"
  ELSE IF issues \subseteq IncompleteCode THEN "INCOMPLETE"
  ELSE "INVALID"

-----------------------------------------------------------------------------
(* Deduplication by event_id, then by event_sequence: the first in the     *)
(* list wins both times.                                                   *)

\* _deduplicate: the positions of the first delivery of each event_id.
Deduplicated(s) ==
  {i \in DOMAIN s : \A j \in DOMAIN s : j < i => s[j].event_id # s[i].event_id}

\* Mutant: the copies that were dropped are no longer compared.
DuplicateConflictAmongKept(s) ==
  \E i, j \in Deduplicated(s) :
    s[i].event_id = s[j].event_id /\ Canonical(s[i]) # Canonical(s[j])

DuplicateConflict(s) ==
  \E i \in DOMAIN s, j \in Deduplicated(s) :
    s[i].event_id = s[j].event_id /\ Canonical(s[i]) # Canonical(s[j])

\* events_by_sequence: of those, the first holder of each event_sequence.
SequenceHolders(s) ==
  {i \in Deduplicated(s) :
     \A j \in Deduplicated(s) : j < i => s[j].event_sequence # s[i].event_sequence}

SequenceConflict(s) == SequenceHolders(s) # Deduplicated(s)

\* The events left, in Run order: a set, ordered by their event_sequence.
Ordered(s) == {s[i] : i \in SequenceHolders(s)}

-----------------------------------------------------------------------------
(* The checks over the ordered events O.                                   *)

Earliest(E) == CHOOSE e \in E : \A f \in E : e.event_sequence <= f.event_sequence

\* f is the event of E that stands just before e when E is scanned in order.
JustBefore(E, f, e) ==
  /\ f.event_sequence < e.event_sequence
  /\ \A g \in E : ~(f.event_sequence < g.event_sequence
                    /\ g.event_sequence < e.event_sequence)

SequenceGap(O) ==
  \E e \in O : /\ e.event_sequence > 1
               /\ \A f \in O : f.event_sequence # e.event_sequence - 1

\* Every start but the first, and every end but the first, is out of order.
RepeatedBoundary(O) ==
  \E E \in {Starts(O), Endings(O)} : \E e, f \in E : e # f

Reference(O) == IF Starts(O) # {} THEN Earliest(Starts(O)) ELSE Earliest(O)

CorrelationMismatch(O) ==
  \E e \in O : Correlation(e) # Correlation(Reference(O))

PlayedBeforeStart(O) ==
  \E e \in O : /\ Starts(O) # {}
               /\ e.event_sequence < Earliest(Starts(O)).event_sequence
               /\ ~InitialWeaponChoice(e)

\* shown_choices: the first shown event of each choice_id is kept.
ShownFor(O, choice) == Earliest({e \in Shown(O) : e.choice_id = choice})

\* Mutant: a choice shown again is accepted when it offers the same options.
ReshownOptions(O) ==
  \E e \in Shown(O) : e.options # ShownFor(O, e.choice_id).options

ReshownChoice(O) ==
  \E e \in Shown(O) : Canonical(e) # Canonical(ShownFor(O, e.choice_id))

PlayedAfterEnd(O) ==
  \E e \in Endings(O), f \in O : e.event_sequence < f.event_sequence

ChoiceKnown(O, e) == \E f \in Shown(O) : f.choice_id = e.choice_id

SelectedBeforeShown(O) ==
  \E e \in Selected(O) :
    /\ ChoiceKnown(O, e)
    /\ ShownFor(O, e.choice_id).event_sequence >= e.event_sequence

MismatchedSelection(O) ==
  \E e \in Selected(O) :
    ChoiceKnown(O, e) /\ ~Answers(e, ShownFor(O, e.choice_id))

\* previous_choice_sequence and previous_checkpoint start at 0, which is below
\* every value the contract admits: only two events can make them decrease.
ChoiceSequenceDecreased(O) ==
  \E e, f \in Shown(O) : /\ JustBefore(Shown(O), f, e)
                         /\ e.choice_sequence <= f.choice_sequence

CheckpointDecreased(O) ==
  \E e, f \in Checkpoints(O) : /\ JustBefore(Checkpoints(O), f, e)
                               /\ e.checkpoint_number <= f.checkpoint_number

\* Mutant: an event is compared with the one just before it only.
NeighbourDecreased(O) ==
  \E field \in MonotonicField, e, f \in O :
    /\ JustBefore(O, f, e)
    /\ field \in DOMAIN e.measures \cap DOMAIN f.measures
    /\ e.measures[field] < f.measures[field]

\* previous_values[field]: the field's value in the last event that carried it.
MeasureDecreased(O) ==
  \E field \in MonotonicField :
    LET carriers == {e \in O : field \in DOMAIN e.measures}
    IN  \E e, f \in carriers : /\ JustBefore(carriers, f, e)
                               /\ e.measures[field] < f.measures[field]

\* The reasons the scan of the ordered events reports.
OrderedIssues(O) ==
  {code \in ReasonCode :
    \/ code = "EVENT_SEQUENCE_GAP" /\ SequenceGap(O)
    \/ code = "MISSING_RUN_START" /\ Starts(O) = {}
    \/ code = "MISSING_RUN_END" /\ Endings(O) = {}
    \/ /\ code = "EVENT_ORDER_INVALID"
       /\ \/ RepeatedBoundary(O)
          \/ PlayedBeforeStart(O)
          \/ PlayedAfterEnd(O)
          \/ SelectedBeforeShown(O)
          \/ \E e \in Checkpoints(O) : ~OnTheMinute(e)
    \/ code = "CORRELATION_MISMATCH" /\ CorrelationMismatch(O)
    \/ code = "CHOICE_MISMATCH" /\ (ReshownChoice(O) \/ MismatchedSelection(O))
    \/ code = "CHOICE_NOT_FOUND" /\ \E e \in Selected(O) : ~ChoiceKnown(O, e)
    \/ /\ code = "COUNTER_DECREASED"
       /\ ChoiceSequenceDecreased(O) \/ CheckpointDecreased(O) \/ MeasureDecreased(O)}

\* An event that breaks the contract by itself ends the assessment, whatever
\* codes it is given: "SCHEMA_INVALID" stands for the per-event codes, none of
\* which leaves the Run acceptable.  (The schema already holds a choice to the
\* slots of its source, so the slot check of the scan never speaks.)
SequenceIssues(s) ==
  IF \E i \in DOMAIN s : ~s[i].conforms THEN {"SCHEMA_INVALID"}
  ELSE {code \in ReasonCode :
          \/ code = "DUPLICATE_CONFLICT" /\ DuplicateConflict(s)
          \/ code = "EVENT_SEQUENCE_CONFLICT" /\ SequenceConflict(s)}
       \cup OrderedIssues(Ordered(s))

ValidateSequence(s) == SequenceResult(SequenceIssues(s))
=============================================================================
