---------------------- MODULE RunReconstructionProofs ----------------------
(***************************************************************************)
(* Lemmas about reconstruct_runs over any Bronze records.                  *)
(***************************************************************************)
EXTENDS RunReconstruction, RunContractProofs, FiniteSetTheorems

\* Records at reading positions, as reconstruct_runs takes them.
IsBronze(b) ==
  /\ DOMAIN b \subseteq Nat
  /\ \A i \in DOMAIN b : b[i].event \in Event /\ b[i].received_at \in Nat

-----------------------------------------------------------------------------
(* Grouping.                                                               *)

\* The events of one Run, read in place, are a list of its bodies.
LEMMA InputEventsIsList ==
  ASSUME NEW b, IsBronze(b), NEW run
  PROVE  /\ IsList(InputEvents(b, run))
         /\ Bodies(InputEvents(b, run)) = Contents(b, run)
BY DEF IsBronze, IsList, InputEvents, Bodies, Contents, Positions

\* The status of a Run without shared identities is the verdict on its bodies.
LEMMA StatusIsVerdict ==
  ASSUME NEW b, IsBronze(b), NEW run
  PROVE  ValidateSequence(InputEvents(b, run)) = Verdict(Contents(b, run))
BY InputEventsIsList, ValidatorComputesVerdict

-----------------------------------------------------------------------------
(* Event owners.                                                           *)

\* A Run has a first record (the insertion order of the grouping dict).
LEMMA FirstAppearanceExists ==
  ASSUME NEW b, IsBronze(b), NEW i \in DOMAIN b
  PROVE  LET first == FirstAppearance(b, RunAt(b, i)) IN
         /\ first \in Positions(b, RunAt(b, i))
         /\ \A j \in Positions(b, RunAt(b, i)) : first <= j
<1> DEFINE S == Positions(b, RunAt(b, i))
<1>1. S \in SUBSET Nat /\ S # {}
  BY DEF IsBronze, Positions
<1>2. \E m \in S : \A n \in S : m <= n
  <2> HIDE DEF S
  <2> QED BY <1>1, LeastNatural
<1> QED BY <1>2 DEF FirstAppearance

\* Of the records that carry an event_id the loop meets one first.
LEMMA OwnerExists ==
  ASSUME NEW b, IsBronze(b), NEW i \in DOMAIN b
  PROVE  EventOwner(b, b[i].event.event_id) \in Claims(b, b[i].event.event_id)
<1> DEFINE C == Claims(b, b[i].event.event_id)
           First(j) == FirstAppearance(b, RunAt(b, j))
           S == {First(j) : j \in C}
<1>1. i \in C /\ C \subseteq DOMAIN b /\ C \subseteq Nat
  BY DEF Claims, IsBronze
<1>2. \A j \in C : First(j) \in Nat /\ RunAt(b, First(j)) = RunAt(b, j)
  BY <1>1, FirstAppearanceExists DEF Positions, IsBronze
<1>3. PICK k \in C : \A j \in C : First(k) <= First(j)
  <2>1. S \in SUBSET Nat /\ S # {}
    BY <1>1, <1>2
  <2>2. PICK m \in S : \A n \in S : m <= n
    <3> HIDE DEF S
    <3> QED BY <2>1, LeastNatural
  <2> QED BY <2>2
<1> DEFINE T == {j \in C : RunAt(b, j) = RunAt(b, k)}
<1>4. PICK o \in T : \A j \in T : o <= j
  <2>1. T \in SUBSET Nat /\ T # {}
    BY <1>1
  <2> HIDE DEF T
  <2> QED BY <2>1, LeastNatural
<1>5. ASSUME NEW j \in C \ {o}
      PROVE  MetBefore(b, o, j)
  <2>1. CASE RunAt(b, j) = RunAt(b, k)
    <3>1. o < j
      BY <1>1, <1>4, <1>5, <2>1
    <3> QED BY <3>1, <1>4, <2>1 DEF MetBefore
  <2>2. CASE RunAt(b, j) # RunAt(b, k)
    <3>1. First(k) # First(j)
      BY <1>2, <2>2
    <3>2. First(k) < First(j)
      BY <3>1, <1>2, <1>3
    <3>3. First(o) = First(k)
      BY <1>4
    <3> QED BY <3>2, <3>3 DEF MetBefore
  <2> QED BY <2>1, <2>2
<1>6. o \in C
  BY <1>4
<1> HIDE DEF C
<1>7. \E x \in C : \A j \in C \ {x} : MetBefore(b, x, j)
  BY <1>5, <1>6
<1> QED BY <1>7 DEF EventOwner, C

\* Exactly the Runs that share an event_id with another Run are put at fault,
\* whichever record is met first.
LEMMA CrossRunIssueIsSharing ==
  ASSUME NEW b, IsBronze(b), NEW run
  PROVE  CrossRunIssue(b, run) <=>
           \E i, j \in DOMAIN b : /\ b[i].event.event_id = b[j].event.event_id
                                  /\ RunAt(b, i) = run
                                  /\ RunAt(b, j) # run
<1>1. ASSUME CrossRunIssue(b, run)
      PROVE  \E i, j \in DOMAIN b : /\ b[i].event.event_id = b[j].event.event_id
                                    /\ RunAt(b, i) = run
                                    /\ RunAt(b, j) # run
  <2> DEFINE Owner(i) == EventOwner(b, b[i].event.event_id)
  <2>1. PICK i \in DOMAIN b : /\ RunAt(b, Owner(i)) # RunAt(b, i)
                              /\ run \in {RunAt(b, Owner(i)), RunAt(b, i)}
    BY <1>1 DEF CrossRunIssue
  <2>2. /\ Owner(i) \in DOMAIN b
        /\ b[Owner(i)].event.event_id = b[i].event.event_id
    BY OwnerExists DEF Claims
  <2> HIDE DEF Owner
  <2> QED BY <2>1, <2>2
<1>2. ASSUME NEW i \in DOMAIN b, NEW j \in DOMAIN b,
             b[i].event.event_id = b[j].event.event_id,
             RunAt(b, i) = run, RunAt(b, j) # run
      PROVE  CrossRunIssue(b, run)
  <2> DEFINE o == EventOwner(b, b[i].event.event_id)
  <2>1. o \in DOMAIN b /\ o = EventOwner(b, b[j].event.event_id)
    BY <1>2, OwnerExists DEF Claims
  <2>2. \A k \in DOMAIN b : RunAt(b, o) # RunAt(b, k)
          => Canonical(b[o].event) # Canonical(b[k].event)
    BY <2>1, EventAssumption DEF RunAt, IsBronze
  <2>3. CASE RunAt(b, o) = run
    BY <1>2, <2>1, <2>2, <2>3 DEF CrossRunIssue
  <2>4. CASE RunAt(b, o) # run
    BY <1>2, <2>1, <2>2, <2>4 DEF CrossRunIssue
  <2> QED BY <2>3, <2>4
<1> QED BY <1>1, <1>2

-----------------------------------------------------------------------------
(* The stored copy.                                                        *)

\* Each record of a Run is stored, an exact retry or a conflict.
LEMMA CountsAddUp ==
  ASSUME NEW b, IsFiniteSet(DOMAIN b), NEW run
  PROVE  /\ InputCount(b, run) \in Nat /\ UniqueCount(b, run) \in Nat
         /\ ExactRetryCount(b, run) \in Nat /\ ConflictingCount(b, run) \in Nat
         /\ InputCount(b, run) = UniqueCount(b, run) + ExactRetryCount(b, run)
                                                     + ConflictingCount(b, run)
<1> DEFINE P == Positions(b, run)
           U == SelectedPositions(b, run)
           R == {i \in P \ U : b[i].event \in StoredBodies(b, run)}
           C == {i \in P \ U : b[i].event \notin StoredBodies(b, run)}
<1>1. IsFiniteSet(P)
  <2>1. P \in SUBSET DOMAIN b
    BY DEF Positions
  <2> HIDE DEF P
  <2> QED BY <2>1, FS_Subset
<1>2. U \subseteq P
  BY DEF SelectedPositions
<1>3. /\ R \in SUBSET (P \ U) /\ C \in SUBSET (P \ U)
      /\ R \cup C = P \ U /\ R \cap C = {}
  OBVIOUS
<1>4. /\ InputCount(b, run) = Cardinality(P) /\ UniqueCount(b, run) = Cardinality(U)
      /\ ExactRetryCount(b, run) = Cardinality(R) /\ ConflictingCount(b, run) = Cardinality(C)
  BY DEF InputCount, UniqueCount, ExactRetryCount, ConflictingCount
<1> HIDE DEF P, U, R, C
<1>5. IsFiniteSet(U) /\ IsFiniteSet(P \ U)
  BY <1>1, <1>2, FS_Subset
<1>6. IsFiniteSet(R) /\ IsFiniteSet(C)
  BY <1>3, <1>5, FS_Subset
<1>7. /\ Cardinality(P) \in Nat /\ Cardinality(U) \in Nat /\ Cardinality(P \ U) \in Nat
      /\ Cardinality(R) \in Nat /\ Cardinality(C) \in Nat /\ Cardinality({}) = 0
  BY <1>1, <1>5, <1>6, FS_CardinalityType, FS_EmptySet
<1>8. Cardinality(P) = Cardinality(U) + Cardinality(P \ U)
  <2>1. U \cup (P \ U) = P /\ U \cap (P \ U) = {}
    BY <1>2
  <2>2. Cardinality(P) = Cardinality(U) + Cardinality(P \ U) - Cardinality({})
    BY <1>5, <2>1, FS_Union
  <2> QED BY <1>7, <2>2
<1>9. Cardinality(P \ U) = Cardinality(R) + Cardinality(C)
  <2>1. Cardinality(R \cup C) = Cardinality(R) + Cardinality(C) - Cardinality(R \cap C)
    BY <1>6, FS_Union
  <2>2. Cardinality(P \ U) = Cardinality(R) + Cardinality(C) - Cardinality({})
    BY <1>3, <2>1
  <2> QED BY <1>7, <2>2
<1> QED BY <1>4, <1>7, <1>8, <1>9

\* Every event_id of a Run has a copy that sorts before all its others.
LEMMA SelectedCopyExists ==
  ASSUME NEW b, IsBronze(b), NEW run, NEW i \in Positions(b, run)
  PROVE  \E j \in SelectedPositions(b, run) : b[j].event.event_id = b[i].event.event_id
<1> DEFINE C == Copies(b, run, b[i].event.event_id)
<1>0. /\ i \in C /\ C \subseteq DOMAIN b /\ C \subseteq Nat /\ C \subseteq Positions(b, run)
      /\ \A j \in C : b[j].event.event_id = b[i].event.event_id
  BY DEF Copies, Positions, Claims, IsBronze
<1>1. \A j \in C : b[j].received_at \in Nat /\ b[j].event \in Event
  BY <1>0 DEF IsBronze
<1> DEFINE S == {b[j].received_at : j \in C}
<1>2. PICK t \in S : \A u \in S : t <= u
  <2>1. S \in SUBSET Nat /\ S # {}
    BY <1>0, <1>1
  <2> HIDE DEF S
  <2> QED BY <2>1, LeastNatural
<1> DEFINE D == {j \in C : b[j].received_at = t}
           K == {Canonical(b[j].event) : j \in D}
<1>3. PICK c \in K : \A u \in K : c <= u
  <2>1. K \in SUBSET Nat /\ K # {}
    BY <1>1, <1>2, EventAssumption
  <2> HIDE DEF K
  <2> QED BY <2>1, LeastNatural
<1> DEFINE F == {j \in D : Canonical(b[j].event) = c}
<1>4. PICK m \in F : \A u \in F : m <= u
  <2>1. F \in SUBSET Nat /\ F # {}
    BY <1>0, <1>3
  <2> HIDE DEF F
  <2> QED BY <2>1, LeastNatural
<1>5. m \in C /\ b[m].received_at = t /\ Canonical(b[m].event) = c
  BY <1>4
<1>6. ASSUME NEW j \in C \ {m}
      PROVE  SortsBefore(b, m, j)
  <2>1. b[j].received_at \in Nat /\ Canonical(b[j].event) \in Nat /\ t \in Nat /\ c \in Nat
    BY <1>1, <1>5, EventAssumption
  <2>2. CASE b[j].received_at # t
    <3>1. t <= b[j].received_at
      BY <1>2
    <3>2. t < b[j].received_at
      BY <2>1, <2>2, <3>1
    <3> QED BY <3>2, <1>5 DEF SortsBefore, EarlierCopy
  <2>3. CASE b[j].received_at = t /\ Canonical(b[j].event) # c
    <3>1. c < Canonical(b[j].event)
      BY <1>3, <2>1, <2>3
    <3> QED BY <3>1, <2>3, <1>5 DEF SortsBefore, EarlierCopy
  <2>4. CASE j \in F
    <3>1. m < j
      BY <1>0, <1>4, <1>5, <1>6, <2>4
    <3>2. ~EarlierCopy(b[j], b[m])
      BY <1>5, <2>1, <2>4 DEF EarlierCopy
    <3> QED BY <3>1, <3>2 DEF SortsBefore
  <2> QED BY <2>2, <2>3, <2>4
<1>7. m \in SelectedPositions(b, run)
  <2>1. m \in Positions(b, run) /\ b[m].event.event_id = b[i].event.event_id
    BY <1>0, <1>5
  <2> QED BY <1>6, <2>1 DEF SelectedPositions
<1> QED BY <1>0, <1>5, <1>7

\* No two selected positions hold copies of one event_id.
LEMMA SelectedCopyUnique ==
  ASSUME NEW b, IsBronze(b), NEW run,
         NEW i \in SelectedPositions(b, run), NEW j \in SelectedPositions(b, run),
         b[i].event.event_id = b[j].event.event_id
  PROVE  i = j
<1> SUFFICES ASSUME i # j PROVE FALSE
  OBVIOUS
<1>1. SortsBefore(b, i, j) /\ SortsBefore(b, j, i)
  BY DEF SelectedPositions, Copies, Positions, Claims
<1>2. /\ i \in Nat /\ j \in Nat
      /\ b[i].received_at \in Nat /\ b[j].received_at \in Nat
      /\ Canonical(b[i].event) \in Nat /\ Canonical(b[j].event) \in Nat
  BY EventAssumption DEF SelectedPositions, Positions, IsBronze
<1> QED BY <1>1, <1>2 DEF SortsBefore, EarlierCopy

\* The stored bodies are those at the selected positions.
LEMMA StoredBodiesAreSelected ==
  ASSUME NEW b, NEW run
  PROVE  StoredBodies(b, run) = {b[i].event : i \in SelectedPositions(b, run)}
<1> DEFINE Row(i) == [event |-> b[i].event, first_received_at |-> b[i].received_at]
<1>1. \A i : Row(i).event = b[i].event
  OBVIOUS
<1>2. StoredEvents(b, run) = {Row(i) : i \in SelectedPositions(b, run)}
  BY DEF StoredEvents
<1> HIDE DEF Row
<1> QED BY <1>1, <1>2 DEF StoredBodies

\* A Run the validator accepts has one body per event_id and per
\* event_sequence, and Silver stores each of them.
THEOREM AcceptedRunIsStoredWhole ==
  ASSUME NEW b, IsBronze(b), NEW run, RunStatus(b, run) # "INVALID"
  PROVE  /\ StoredBodies(b, run) = Contents(b, run)
         /\ Ordered(InputEvents(b, run)) = Contents(b, run)
         /\ Distinct(Contents(b, run))
<1> DEFINE s == InputEvents(b, run)
<1>1. IsList(s) /\ Bodies(s) = Contents(b, run)
  BY InputEventsIsList
<1>2. Verdict(Contents(b, run)) # "INVALID"
  BY StatusIsVerdict DEF RunStatus
<1>3. ~Contradictory(Contents(b, run))
  BY <1>2 DEF Verdict
<1>4. ~DuplicateConflict(s) /\ ~SequenceConflict(s)
  <2> HIDE DEF s
  <2> QED BY <1>1, <1>3, ConflictIsAClash DEF Contradictory, Clash
<1>5. Ordered(s) = Contents(b, run) /\ Distinct(Contents(b, run))
  <2> HIDE DEF s
  <2> QED BY <1>1, <1>4, CleanListKeepsEveryBody
<1>6. StoredBodies(b, run) = {b[i].event : i \in SelectedPositions(b, run)}
  BY StoredBodiesAreSelected
<1>7. SelectedPositions(b, run) \subseteq Positions(b, run)
  BY DEF SelectedPositions
<1>8. ASSUME NEW i \in Positions(b, run)
      PROVE  \E j \in SelectedPositions(b, run) : b[j].event = b[i].event
  <2>1. PICK j \in SelectedPositions(b, run) : b[j].event.event_id = b[i].event.event_id
    BY SelectedCopyExists
  <2>2. b[i].event \in Contents(b, run) /\ b[j].event \in Contents(b, run)
    BY <1>7 DEF Contents
  <2> QED BY <1>5, <2>1, <2>2 DEF Distinct
<1>9. StoredBodies(b, run) = Contents(b, run)
  BY <1>6, <1>7, <1>8 DEF Contents
<1> QED BY <1>5, <1>9

-----------------------------------------------------------------------------
(* The batch depends on the records, never on their reading positions.     *)

RowAt(b, i) == [event |-> b[i].event, first_received_at |-> b[i].received_at]

\* No copy of the event at i sorts before it by time received and text alone.
IsEarliestCopy(b, run, i) ==
  \A j \in Copies(b, run, b[i].event.event_id) : ~EarlierCopy(b[j], b[i])

\* What is stored of a Run are its earliest copies, wherever they were read.
LEMMA StoredIsEarliest ==
  ASSUME NEW b, IsBronze(b), NEW run
  PROVE  StoredEvents(b, run) =
           {RowAt(b, i) : i \in {k \in Positions(b, run) : IsEarliestCopy(b, run, k)}}
<1>0. \A i \in DOMAIN b : /\ b[i].received_at \in Nat /\ b[i].event \in Event
                          /\ Canonical(b[i].event) \in Nat
  BY EventAssumption DEF IsBronze
<1>1. ASSUME NEW i \in SelectedPositions(b, run)
      PROVE  i \in Positions(b, run) /\ IsEarliestCopy(b, run, i)
  <2>1. i \in Positions(b, run) /\ i \in DOMAIN b
    BY DEF SelectedPositions, Positions
  <2>2. ASSUME NEW j \in Copies(b, run, b[i].event.event_id)
        PROVE  ~EarlierCopy(b[j], b[i])
    <3>1. j \in DOMAIN b
      BY DEF Copies, Positions
    <3>2. CASE j = i
      BY <1>0, <2>1, <3>2 DEF EarlierCopy
    <3>3. CASE j # i
      <4>1. SortsBefore(b, i, j)
        BY <3>3 DEF SelectedPositions
      <4> QED BY <1>0, <2>1, <3>1, <4>1 DEF SortsBefore, EarlierCopy
    <3> QED BY <3>2, <3>3
  <2> QED BY <2>1, <2>2 DEF IsEarliestCopy
<1>2. ASSUME NEW i \in Positions(b, run), IsEarliestCopy(b, run, i)
      PROVE  \E k \in SelectedPositions(b, run) : RowAt(b, k) = RowAt(b, i)
  <2>1. PICK k \in SelectedPositions(b, run) : b[k].event.event_id = b[i].event.event_id
    BY SelectedCopyExists
  <2>2. k \in Positions(b, run) /\ k \in DOMAIN b /\ i \in DOMAIN b
    BY DEF SelectedPositions, Positions
  <2>3. k \in Copies(b, run, b[i].event.event_id) /\ i \in Copies(b, run, b[k].event.event_id)
    BY <2>1, <2>2 DEF Copies, Positions, Claims
  <2>4. ~EarlierCopy(b[k], b[i]) /\ ~EarlierCopy(b[i], b[k])
    BY <1>1, <1>2, <2>3 DEF IsEarliestCopy
  <2>5. b[k].received_at = b[i].received_at /\ Canonical(b[k].event) = Canonical(b[i].event)
    BY <1>0, <2>2, <2>4 DEF EarlierCopy
  <2>6. b[k].event = b[i].event
    BY <1>0, <2>2, <2>5, EventAssumption
  <2> QED BY <2>5, <2>6 DEF RowAt
<1>3. StoredEvents(b, run) = {RowAt(b, i) : i \in SelectedPositions(b, run)}
  BY DEF StoredEvents, RowAt
<1> QED BY <1>1, <1>2, <1>3

\* A Run is dated by its earliest record, retry or not.
LEMMA FirstReceivedIsEarliest ==
  ASSUME NEW b, IsBronze(b), NEW run \in GroupedRuns(b)
  PROVE  /\ \E i \in Positions(b, run) : FirstReceivedAt(b, run) = b[i].received_at
         /\ \A i \in Positions(b, run) : FirstReceivedAt(b, run) <= b[i].received_at
<1> DEFINE U == SelectedPositions(b, run)
           S == {b[i].received_at : i \in U}
           Times == {x.first_received_at : x \in StoredEvents(b, run)}
<1>0. /\ U \subseteq Positions(b, run) /\ U \subseteq DOMAIN b
      /\ \A i \in DOMAIN b : /\ b[i].received_at \in Nat /\ b[i].event \in Event
                             /\ Canonical(b[i].event) \in Nat
  BY EventAssumption DEF SelectedPositions, Positions, IsBronze
<1>1. PICK p \in Positions(b, run) : TRUE
  BY DEF GroupedRuns, Positions
<1>2. \A i \in Positions(b, run) : \E j \in U : b[j].received_at <= b[i].received_at
  <2> SUFFICES ASSUME NEW i \in Positions(b, run)
               PROVE  \E j \in U : b[j].received_at <= b[i].received_at
    OBVIOUS
  <2>1. PICK j \in U : b[j].event.event_id = b[i].event.event_id
    BY SelectedCopyExists
  <2>2. i \in Copies(b, run, b[j].event.event_id) /\ i \in DOMAIN b /\ j \in DOMAIN b
    BY <1>0, <2>1 DEF Copies, Positions, Claims
  <2>3. j = i \/ SortsBefore(b, j, i)
    BY <2>2 DEF SelectedPositions
  <2>4. b[j].received_at <= b[i].received_at
    BY <1>0, <2>2, <2>3 DEF SortsBefore, EarlierCopy
  <2> QED BY <2>4
<1>3. PICK t \in S : \A u \in S : t <= u
  <2>1. S \in SUBSET Nat /\ S # {}
    BY <1>0, <1>1, <1>2
  <2> HIDE DEF S
  <2> QED BY <2>1, LeastNatural
<1>4. Times = S
  <2>1. \A i : RowAt(b, i).first_received_at = b[i].received_at
    BY DEF RowAt
  <2>2. StoredEvents(b, run) = {RowAt(b, i) : i \in U}
    BY DEF StoredEvents, RowAt
  <2> QED BY <2>1, <2>2
<1>5. \A x \in StoredEvents(b, run) : t <= x.first_received_at
  BY <1>3, <1>4
<1>6. /\ FirstReceivedAt(b, run) \in Times
      /\ \A x \in StoredEvents(b, run) : FirstReceivedAt(b, run) <= x.first_received_at
  <2>1. \E time \in Times : \A x \in StoredEvents(b, run) : time <= x.first_received_at
    BY <1>3, <1>4, <1>5
  <2> QED BY <2>1 DEF FirstReceivedAt
<1>7. \A u \in S : FirstReceivedAt(b, run) <= u
  BY <1>4, <1>6
<1>8. FirstReceivedAt(b, run) \in S
  BY <1>4, <1>6
<1>9. ASSUME NEW i \in Positions(b, run)
      PROVE  FirstReceivedAt(b, run) <= b[i].received_at
  <2>1. PICK j \in U : b[j].received_at <= b[i].received_at
    BY <1>2
  <2>2. FirstReceivedAt(b, run) <= b[j].received_at
    BY <1>7
  <2>3. i \in DOMAIN b /\ FirstReceivedAt(b, run) \in Nat
    BY <1>0, <1>8 DEF Positions
  <2> QED BY <1>0, <2>1, <2>2, <2>3
<1> QED BY <1>0, <1>8, <1>9

\* A batch, but for the counts of its Runs.
SameBatch(a, b, date) ==
  /\ TargetRuns(a, date) = TargetRuns(b, date)
  /\ \A run : /\ BatchStatus(a, run) = BatchStatus(b, run)
              /\ StoredEvents(a, run) = StoredEvents(b, run)

\* Two Bronzes with the same Runs, bodies, stored events and shared identities
\* have the same batches.
LEMMA BatchIsOfItsParts ==
  ASSUME NEW a, NEW b, GroupedRuns(a) = GroupedRuns(b),
         \A run : /\ StoredEvents(a, run) = StoredEvents(b, run)
                  /\ RunStatus(a, run) = RunStatus(b, run),
         NEW date
  PROVE  SameBatch(a, b, date)
<1>1. \A run : FirstReceivedAt(a, run) = FirstReceivedAt(b, run)
  BY DEF FirstReceivedAt
<1>2. \A run : BatchStatus(a, run) = BatchStatus(b, run)
  BY <1>1 DEF BatchStatus, ArrivedTooLate
<1>3. TargetRuns(a, date) = TargetRuns(b, date)
  BY <1>1 DEF TargetRuns, OwningDate
<1> QED BY <1>2, <1>3 DEF SameBatch

\* A record that repeats one received no later changes no batch.
LEMMA LaterRetryChangesNoBatch ==
  ASSUME NEW a, NEW b, IsBronze(a), IsBronze(b), NEW p, NEW o \in DOMAIN a,
         p \notin DOMAIN a, DOMAIN b = DOMAIN a \cup {p},
         \A i \in DOMAIN a : b[i] = a[i],
         a[o].event = b[p].event, a[o].received_at <= b[p].received_at,
         NEW date
  PROVE  SameBatch(b, a, date)
<1>0. \A i \in DOMAIN b : /\ b[i].received_at \in Nat /\ b[i].event \in Event
                          /\ Canonical(b[i].event) \in Nat
  BY EventAssumption DEF IsBronze
<1>1. RunAt(b, p) = RunAt(a, o) /\ \A i \in DOMAIN a : RunAt(b, i) = RunAt(a, i)
  BY DEF RunAt
<1>2. GroupedRuns(b) = GroupedRuns(a)
  BY <1>1 DEF GroupedRuns
<1>3. ASSUME NEW run
      PROVE  /\ Positions(a, run) \subseteq Positions(b, run)
             /\ Positions(b, run) \subseteq Positions(a, run) \cup {p}
             /\ p \in Positions(b, run) => o \in Positions(a, run)
             /\ \A id : /\ Copies(a, run, id) \subseteq Copies(b, run, id)
                        /\ Copies(b, run, id) \subseteq Copies(a, run, id) \cup {p}
                        /\ p \in Copies(b, run, id) => o \in Copies(a, run, id)
  BY <1>1 DEF Positions, Copies, Claims
<1>4. ASSUME NEW run
      PROVE  RunStatus(b, run) = RunStatus(a, run)
  <2>1. Contents(b, run) = Contents(a, run)
    <3>1. Contents(a, run) \subseteq Contents(b, run)
      <4>1. \A i \in Positions(a, run) : i \in Positions(b, run) /\ b[i].event = a[i].event
        BY <1>3 DEF Positions
      <4> QED BY <4>1 DEF Contents
    <3>2. ASSUME NEW i \in Positions(b, run)
          PROVE  b[i].event \in Contents(a, run)
      <4>1. CASE i \in Positions(a, run)
        <5>1. b[i].event = a[i].event
          BY <4>1 DEF Positions
        <5> QED BY <4>1, <5>1 DEF Contents
      <4>2. CASE i = p
        <5>1. o \in Positions(a, run) /\ b[i].event = a[o].event
          BY <1>3, <3>2, <4>2
        <5> QED BY <5>1 DEF Contents
      <4> QED BY <1>3, <3>2, <4>1, <4>2
    <3>3. Contents(b, run) \subseteq Contents(a, run)
      BY <3>2 DEF Contents
    <3> QED BY <3>1, <3>3
  <2>2. ValidateSequence(InputEvents(b, run)) = ValidateSequence(InputEvents(a, run))
    BY <2>1, StatusIsVerdict
  <2>3. CrossRunIssue(a, run) => CrossRunIssue(b, run)
    BY <1>1, CrossRunIssueIsSharing
  <2>4. CrossRunIssue(b, run) => CrossRunIssue(a, run)
    <3> SUFFICES ASSUME CrossRunIssue(b, run)
                 PROVE  CrossRunIssue(a, run)
      OBVIOUS
    <3> DEFINE Known(i) == IF i = p THEN o ELSE i
    <3>1. \A i \in DOMAIN b : /\ Known(i) \in DOMAIN a
                              /\ a[Known(i)].event = b[i].event
                              /\ RunAt(a, Known(i)) = RunAt(b, i)
      BY <1>1
    <3>2. PICK i \in DOMAIN b, j \in DOMAIN b :
            /\ b[i].event.event_id = b[j].event.event_id
            /\ RunAt(b, i) = run
            /\ RunAt(b, j) # run
      BY CrossRunIssueIsSharing
    <3> HIDE DEF Known
    <3>3. /\ a[Known(i)].event.event_id = a[Known(j)].event.event_id
          /\ RunAt(a, Known(i)) = run /\ RunAt(a, Known(j)) # run
          /\ Known(i) \in DOMAIN a /\ Known(j) \in DOMAIN a
      BY <3>1, <3>2
    <3> QED BY <3>3, CrossRunIssueIsSharing
  <2> QED BY <2>2, <2>3, <2>4 DEF RunStatus
<1>5. ASSUME NEW run
      PROVE  StoredEvents(b, run) = StoredEvents(a, run)
  <2> DEFINE Kept(c) == {k \in Positions(c, run) : IsEarliestCopy(c, run, k)}
  <2>1. ASSUME NEW i \in Kept(a)
        PROVE  i \in Kept(b) /\ RowAt(b, i) = RowAt(a, i)
    <3>1. i \in DOMAIN a /\ i \in DOMAIN b /\ b[i] = a[i] /\ i \in Positions(b, run)
      BY <1>3 DEF Positions
    <3>2. ASSUME NEW j \in Copies(b, run, b[i].event.event_id)
          PROVE  ~EarlierCopy(b[j], b[i])
      <4>1. CASE j \in Copies(a, run, a[i].event.event_id)
        <5>1. ~EarlierCopy(a[j], a[i]) /\ j \in DOMAIN a
          BY <4>1 DEF IsEarliestCopy, Copies, Positions
        <5> QED BY <3>1, <5>1
      <4>2. CASE j = p
        <5>1. ~EarlierCopy(a[o], a[i])
          BY <1>3, <3>1, <3>2, <4>2 DEF IsEarliestCopy
        <5> QED BY <1>0, <3>1, <4>2, <5>1 DEF EarlierCopy
      <4> QED BY <1>3, <3>1, <3>2, <4>1, <4>2
    <3> QED BY <3>1, <3>2 DEF IsEarliestCopy, RowAt
  <2>2. ASSUME NEW i \in Kept(b)
        PROVE  \E k \in Kept(a) : RowAt(a, k) = RowAt(b, i)
    <3> DEFINE k == IF i = p THEN o ELSE i
    <3>1. /\ k \in Positions(a, run) /\ k \in DOMAIN a /\ k \in DOMAIN b /\ i \in DOMAIN b
          /\ a[k].event = b[i].event /\ b[k] = a[k]
      BY <1>3 DEF Positions
    <3>2. a[k].received_at = b[i].received_at
      <4>1. CASE i = p
        <5>1. o \in Copies(b, run, b[i].event.event_id)
          BY <3>1, <1>3, <4>1 DEF Copies, Positions, Claims
        <5>2. ~EarlierCopy(b[o], b[i])
          BY <5>1 DEF IsEarliestCopy
        <5> QED BY <1>0, <3>1, <4>1, <5>2 DEF EarlierCopy
      <4> QED BY <3>1, <4>1
    <3>3. ASSUME NEW j \in Copies(a, run, a[k].event.event_id)
          PROVE  ~EarlierCopy(a[j], a[k])
      <4>1. j \in Copies(b, run, b[i].event.event_id) /\ j \in DOMAIN a
        BY <1>3, <3>1 DEF Copies, Positions
      <4>2. ~EarlierCopy(b[j], b[i])
        BY <4>1 DEF IsEarliestCopy
      <4> QED BY <3>1, <3>2, <4>1, <4>2 DEF EarlierCopy
    <3>4. k \in Kept(a)
      BY <3>1, <3>3 DEF IsEarliestCopy
    <3> QED BY <3>1, <3>2, <3>4 DEF RowAt
  <2>3. /\ StoredEvents(a, run) = {RowAt(a, k) : k \in Kept(a)}
        /\ StoredEvents(b, run) = {RowAt(b, k) : k \in Kept(b)}
    BY StoredIsEarliest
  <2> HIDE DEF Kept
  <2> QED BY <2>1, <2>2, <2>3
<1> QED BY <1>2, <1>4, <1>5, BatchIsOfItsParts
=============================================================================
