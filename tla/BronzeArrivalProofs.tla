------------------------ MODULE BronzeArrivalProofs ------------------------
(***************************************************************************)
(* BronzeArrival keeps its promises for every set of bodies, every number  *)
(* of records and every order of arrival.                                  *)
(***************************************************************************)
EXTENDS BronzeArrival, RunReconstructionProofs

\* Bronze only ever holds records of well-formed bodies (Deliver).
THEOREM TypeCorrect == Spec => []TypeOK
<1>1. Init => TypeOK
  BY DEF Init, TypeOK
<1>2. TypeOK /\ [Next]_bronze => TypeOK'
  <2> SUFFICES ASSUME TypeOK, [Next]_bronze
               PROVE  TypeOK'
    OBVIOUS
  <2>1. ASSUME NEW position \in Position, NEW event \in Event, NEW time \in ReceiveTime,
               Deliver(position, event, time)
        PROVE  TypeOK'
    <3> DEFINE record == [event |-> event, received_at |-> time]
    <3>1. record \in BronzeRecord(ReceiveTime)
      BY DEF BronzeRecord
    <3>2. bronze' = Put(bronze, position, record)
      BY <2>1 DEF Deliver
    <3> HIDE DEF record
    <3>3. DOMAIN bronze' \subseteq Position
      BY <3>2 DEF Put, TypeOK
    <3>4. bronze' \in [DOMAIN bronze' -> BronzeRecord(ReceiveTime)]
      BY <3>1, <3>2 DEF Put, TypeOK
    <3> QED BY <3>3, <3>4 DEF TypeOK
  <2>2. CASE UNCHANGED bronze
    BY <2>2 DEF TypeOK
  <2> QED BY <2>1, <2>2 DEF Next
<1> QED BY <1>1, <1>2, PTL DEF Spec

\* What TypeOK says of Bronze is what the lemmas about reconstruct_runs need.
LEMMA TypedIsBronze ==
  ASSUME TypeOK
  PROVE  IsBronze(bronze)
BY ArrivalAssumption DEF TypeOK, IsBronze, BronzeRecord, Position, ReceiveTime

\* A step only adds records.
LEMMA DeliverOnlyAdds ==
  ASSUME TypeOK, [Next]_bronze
  PROVE  /\ DOMAIN bronze \subseteq DOMAIN bronze'
         /\ \A i \in DOMAIN bronze : bronze'[i] = bronze[i]
BY DEF Next, Deliver, Put, TypeOK

\* Whatever arrives in whatever order, a Run's status is the verdict on the
\* set of its bodies.
THEOREM VerdictIgnoresArrivalHolds == Spec => []VerdictIgnoresArrival
<1>1. TypeOK => VerdictIgnoresArrival
  BY TypedIsBronze, StatusIsVerdict DEF VerdictIgnoresArrival
<1> QED BY <1>1, TypeCorrect, PTL

\* Both Runs that use one event_id are INVALID, whichever was read first.
THEOREM SharedIdentityHolds == Spec => []SharedIdentityInvalidatesEveryRun
<1>1. TypeOK => SharedIdentityInvalidatesEveryRun
  BY TypedIsBronze, CrossRunIssueIsSharing
     DEF SharedIdentityInvalidatesEveryRun, RunStatus
<1> QED BY <1>1, TypeCorrect, PTL

\* Silver stores exactly what was validated, and the record counts of an
\* accepted Run add up.
THEOREM AcceptedRunHolds == Spec => []AcceptedRunStoresWhatWasValidated
<1>1. ASSUME TypeOK, NEW run \in GroupedRuns(bronze), RunStatus(bronze, run) # "INVALID"
      PROVE  /\ StoredBodies(bronze, run) = Ordered(InputEvents(bronze, run))
             /\ \A x, y \in StoredEvents(bronze, run) :
                  x.event.event_sequence = y.event.event_sequence => x = y
             /\ ConflictingCount(bronze, run) = 0
             /\ InputCount(bronze, run)
                  = UniqueCount(bronze, run) + ExactRetryCount(bronze, run)
  <2> DEFINE P == Positions(bronze, run)
             U == SelectedPositions(bronze, run)
             Rows == StoredBodies(bronze, run)
  <2>1. IsBronze(bronze)
    BY <1>1, TypedIsBronze
  <2>2. /\ Rows = Contents(bronze, run)
        /\ Ordered(InputEvents(bronze, run)) = Contents(bronze, run)
        /\ Distinct(Contents(bronze, run))
    BY <1>1, <2>1, AcceptedRunIsStoredWhole
  <2>3. U \subseteq P
    BY DEF SelectedPositions
  <2>4. ASSUME NEW i \in U, NEW j \in U,
               bronze[i].event.event_sequence = bronze[j].event.event_sequence
        PROVE  i = j
    <3>1. bronze[i].event \in Contents(bronze, run) /\ bronze[j].event \in Contents(bronze, run)
      BY <2>3 DEF Contents
    <3>2. bronze[i].event.event_id = bronze[j].event.event_id
      BY <2>2, <2>4, <3>1 DEF Distinct
    <3> QED BY <2>1, <3>2, SelectedCopyUnique
  <2>5. ASSUME NEW x \in StoredEvents(bronze, run), NEW y \in StoredEvents(bronze, run),
               x.event.event_sequence = y.event.event_sequence
        PROVE  x = y
    <3>1. PICK i \in U : x = [event |-> bronze[i].event,
                              first_received_at |-> bronze[i].received_at]
      BY DEF StoredEvents
    <3>2. PICK j \in U : y = [event |-> bronze[j].event,
                              first_received_at |-> bronze[j].received_at]
      BY DEF StoredEvents
    <3>3. i = j
      BY <2>4, <2>5, <3>1, <3>2
    <3> QED BY <3>1, <3>2, <3>3
  <2>6. \A i \in P : bronze[i].event \in Rows
    BY <2>2 DEF Contents
  <2>7. ConflictingCount(bronze, run) = 0
    <3>1. {i \in P \ U : bronze[i].event \notin Rows} = {}
      BY <2>6
    <3> QED BY <3>1, FS_EmptySet DEF ConflictingCount
  <2>8. InputCount(bronze, run) = UniqueCount(bronze, run) + ExactRetryCount(bronze, run)
    <3>1. IsFiniteSet(DOMAIN bronze)
      <4>1. IsFiniteSet(Position)
        BY ArrivalAssumption, FS_Interval DEF Position
      <4> QED BY <1>1, <4>1, FS_Subset DEF TypeOK
    <3> QED BY <2>7, <3>1, CountsAddUp
  <2> QED BY <2>2, <2>5, <2>7, <2>8
<1>2. TypeOK => AcceptedRunStoresWhatWasValidated
  BY <1>1 DEF AcceptedRunStoresWhatWasValidated
<1> QED BY <1>2, TypeCorrect, PTL

\* An INVALID Run stays INVALID: neither a clash of two bodies nor a shared
\* event_id goes away when records are added.
THEOREM ContradictionIsPermanentHolds == Spec => ContradictionIsPermanent
<1> DEFINE Kept == \A run \in GroupedRuns(bronze) :
                     RunStatus(bronze, run) = "INVALID" => RunStatus(bronze', run) = "INVALID"
<1>1. ASSUME TypeOK, TypeOK', [Next]_bronze
      PROVE  Kept
  <2> SUFFICES ASSUME NEW run \in GroupedRuns(bronze), RunStatus(bronze, run) = "INVALID"
               PROVE  RunStatus(bronze', run) = "INVALID"
    OBVIOUS
  <2>1. IsBronze(bronze)
    BY <1>1, TypedIsBronze
  <2>2. IsBronze(bronze')
    BY <1>1, ArrivalAssumption DEF TypeOK, IsBronze, BronzeRecord, Position, ReceiveTime
  <2>3. /\ DOMAIN bronze \subseteq DOMAIN bronze'
        /\ \A i \in DOMAIN bronze : bronze'[i] = bronze[i]
    BY <1>1, DeliverOnlyAdds
  <2>4. CASE CrossRunIssue(bronze, run)
    <3>1. CrossRunIssue(bronze', run)
      BY <2>1, <2>2, <2>3, <2>4, CrossRunIssueIsSharing DEF RunAt
    <3> QED BY <3>1 DEF RunStatus
  <2>5. CASE ~CrossRunIssue(bronze, run)
    <3>1. Verdict(Contents(bronze, run)) = "INVALID"
      BY <2>1, <2>5, StatusIsVerdict DEF RunStatus
    <3>2. Contents(bronze, run) \subseteq Contents(bronze', run)
      BY <2>3 DEF Contents, Positions, RunAt
    <3>3. Verdict(Contents(bronze', run)) = "INVALID"
      BY <3>1, <3>2, MoreBodiesKeepContradiction
    <3>4. ValidateSequence(InputEvents(bronze', run)) = "INVALID"
      BY <2>2, <3>3, StatusIsVerdict
    <3> QED BY <3>4 DEF RunStatus
  <2> QED BY <2>4, <2>5
<1>2. TypeOK /\ TypeOK' /\ [Next]_bronze => [Kept]_bronze
  BY <1>1
<1> QED BY <1>2, TypeCorrect, PTL DEF Spec, ContradictionIsPermanent

\* A batch without its counts.
LEMMA UncountedIsOfItsParts ==
  ASSUME NEW b, NEW date
  PROVE  Uncounted(ReceivedDateBatch(b, date))
           = {<<run, BatchStatus(b, run), StoredEvents(b, run)>> : run \in TargetRuns(b, date)}
<1> DEFINE Parts(x) == <<x.run_id, x.status, x.events>>
           Expected(run) == <<run, BatchStatus(b, run), StoredEvents(b, run)>>
<1>1. \A run : Parts(BatchRun(b, run)) = Expected(run)
  BY DEF BatchRun
<1>2. Uncounted(ReceivedDateBatch(b, date))
        = {Parts(BatchRun(b, run)) : run \in TargetRuns(b, date)}
  BY DEF Uncounted, ReceivedDateBatch
<1>3. {Parts(BatchRun(b, run)) : run \in TargetRuns(b, date)}
        = {Expected(run) : run \in TargetRuns(b, date)}
  <2> HIDE DEF Parts, Expected
  <2> QED BY <1>1
<1> QED BY <1>2, <1>3

\* A retry changes no batch of any date, wherever it is read and however late.
THEOREM RetryIsInvisibleHolds == Spec => RetryIsInvisible
<1> DEFINE Unseen ==
             \A i \in DOMAIN bronze' \ DOMAIN bronze :
               IsLaterRetry(bronze', i, bronze'[i])
               => \A date \in DateOf(0) .. DateOf(Horizon) :
                    Uncounted(ReceivedDateBatch(bronze', date))
                      = Uncounted(ReceivedDateBatch(bronze, date))
<1>1. ASSUME TypeOK, TypeOK', [Next]_bronze
      PROVE  Unseen
  <2> SUFFICES ASSUME NEW p \in DOMAIN bronze' \ DOMAIN bronze,
                      IsLaterRetry(bronze', p, bronze'[p]),
                      NEW date
               PROVE  Uncounted(ReceivedDateBatch(bronze', date))
                        = Uncounted(ReceivedDateBatch(bronze, date))
    OBVIOUS
  <2>1. IsBronze(bronze) /\ IsBronze(bronze')
    BY <1>1, ArrivalAssumption, TypedIsBronze
       DEF TypeOK, IsBronze, BronzeRecord, Position, ReceiveTime
  <2>2. /\ DOMAIN bronze' = DOMAIN bronze \cup {p}
        /\ \A i \in DOMAIN bronze : bronze'[i] = bronze[i]
    <3>1. PICK position \in Position, event \in Event, time \in ReceiveTime :
            Deliver(position, event, time)
      BY <1>1 DEF Next
    <3>2. DOMAIN bronze' = DOMAIN bronze \cup {position} /\ position = p
      BY <3>1 DEF Deliver, Put
    <3> QED BY <1>1, <3>2, DeliverOnlyAdds
  <2>3. PICK o \in DOMAIN bronze : /\ bronze[o].event = bronze'[p].event
                                   /\ bronze[o].received_at <= bronze'[p].received_at
    BY <2>2 DEF IsLaterRetry
  <2>4. SameBatch(bronze', bronze, date)
    BY <2>1, <2>2, <2>3, LaterRetryChangesNoBatch
  <2> QED BY <2>4, UncountedIsOfItsParts DEF SameBatch
<1>2. TypeOK /\ TypeOK' /\ [Next]_bronze => [Unseen]_bronze
  BY <1>1
<1> QED BY <1>2, TypeCorrect, PTL DEF Spec, RetryIsInvisible

\* A Run leaves its received_date only for that of a record received before all
\* of its others.
THEOREM OwningDateMovesBackOnlyHolds == Spec => OwningDateMovesBackOnly
<1> DEFINE BackOnly ==
             \A run \in GroupedRuns(bronze) :
               OwningDate(bronze', run) # OwningDate(bronze, run)
               => \E i \in DOMAIN bronze' \ DOMAIN bronze :
                    /\ RunAt(bronze', i) = run
                    /\ \A j \in Positions(bronze, run) :
                         bronze'[i].received_at < bronze[j].received_at
<1>1. ASSUME TypeOK, TypeOK', [Next]_bronze
      PROVE  BackOnly
  <2> SUFFICES ASSUME NEW run \in GroupedRuns(bronze),
                      OwningDate(bronze', run) # OwningDate(bronze, run)
               PROVE  \E i \in DOMAIN bronze' \ DOMAIN bronze :
                        /\ RunAt(bronze', i) = run
                        /\ \A j \in Positions(bronze, run) :
                             bronze'[i].received_at < bronze[j].received_at
    OBVIOUS
  <2>1. IsBronze(bronze) /\ IsBronze(bronze')
    BY <1>1, ArrivalAssumption, TypedIsBronze
       DEF TypeOK, IsBronze, BronzeRecord, Position, ReceiveTime
  <2>2. /\ DOMAIN bronze \subseteq DOMAIN bronze'
        /\ \A i \in DOMAIN bronze : bronze'[i] = bronze[i]
    BY <1>1, DeliverOnlyAdds
  <2>3. run \in GroupedRuns(bronze') /\ Positions(bronze, run) \subseteq Positions(bronze', run)
    BY <2>2 DEF GroupedRuns, Positions, RunAt
  <2>4. PICK i \in Positions(bronze', run) :
          FirstReceivedAt(bronze', run) = bronze'[i].received_at
    BY <2>1, <2>3, FirstReceivedIsEarliest
  <2>5. PICK k \in Positions(bronze, run) :
          FirstReceivedAt(bronze, run) = bronze[k].received_at
    BY <2>1, FirstReceivedIsEarliest
  <2>6. /\ i \in DOMAIN bronze' /\ RunAt(bronze', i) = run /\ k \in DOMAIN bronze
        /\ bronze'[i].received_at \in Nat
        /\ \A j \in Positions(bronze, run) : bronze[j].received_at \in Nat
    BY <2>1 DEF Positions, IsBronze
  <2>7. bronze'[i].received_at # bronze[k].received_at
    BY <2>4, <2>5 DEF OwningDate
  <2>8. bronze'[i].received_at <= bronze[k].received_at
    BY <2>1, <2>2, <2>3, <2>4, <2>6, FirstReceivedIsEarliest
  <2>9. \A j \in Positions(bronze, run) : bronze[k].received_at <= bronze[j].received_at
    BY <2>1, <2>5, FirstReceivedIsEarliest
  <2>10. \A j \in Positions(bronze, run) : bronze'[i].received_at < bronze[j].received_at
    BY <2>5, <2>6, <2>7, <2>8, <2>9
  <2>11. i \notin DOMAIN bronze
    <3> SUFFICES ASSUME i \in DOMAIN bronze PROVE FALSE
      OBVIOUS
    <3>1. i \in Positions(bronze, run) /\ bronze'[i] = bronze[i]
      BY <2>2, <2>6 DEF Positions, RunAt
    <3> QED BY <2>6, <2>10, <3>1
  <2> QED BY <2>6, <2>10, <2>11
<1>2. TypeOK /\ TypeOK' /\ [Next]_bronze => [BackOnly]_bronze
  BY <1>1
<1> QED BY <1>2, TypeCorrect, PTL DEF Spec, OwningDateMovesBackOnly
=============================================================================
