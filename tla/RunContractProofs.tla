------------------------- MODULE RunContractProofs -------------------------
(***************************************************************************)
(* The validator computes the verdict the contract promises, for every     *)
(* list of every set of bodies.                                            *)
(***************************************************************************)
EXTENDS RunContract, RunVerdict, WellFoundedInduction, TLAPS

\* A list of events as the validator takes it: positions and bodies.
IsList(s) == DOMAIN s \subseteq Nat /\ \A i \in DOMAIN s : s[i] \in Event

Bodies(s) == {s[i] : i \in DOMAIN s}

\* No two events of O share an event_id or an event_sequence.
Distinct(O) ==
  \A e, f \in O : e.event_id = f.event_id \/ e.event_sequence = f.event_sequence
                 => e = f

-----------------------------------------------------------------------------
\* Every nonempty set of naturals has a least element.
LEMMA LeastNatural ==
  ASSUME NEW S \in SUBSET Nat, S # {}
  PROVE  \E m \in S : \A n \in S : m <= n
<1> DEFINE R == {p \in Nat \X Nat : p[1] < p[2]}
<1>1. IsWellFoundedOn(R, Nat)
  BY NatLessThanWellFounded DEF OpToRel
<1>2. PICK m \in S : \A n \in S : <<n, m>> \notin R
  <2> HIDE DEF R
  <2> QED BY <1>1, WFMin
<1>3. \A n \in S : ~(n < m)
  BY <1>2
<1> QED BY <1>3

\* Some event of a nonempty set of events is the earliest in Run order.
LEMMA EarliestExists ==
  ASSUME NEW E \in SUBSET Event, E # {}
  PROVE  Earliest(E) \in E /\ \A f \in E : Earliest(E).event_sequence <= f.event_sequence
<1> DEFINE S == {e.event_sequence : e \in E}
<1>1. S \in SUBSET Nat /\ S # {}
  BY EventAssumption
<1>2. PICK m \in S : \A n \in S : m <= n
  <2> HIDE DEF S
  <2> QED BY <1>1, LeastNatural
<1>3. \E e \in E : \A f \in E : e.event_sequence <= f.event_sequence
  BY <1>2
<1> QED BY <1>3 DEF Earliest

-----------------------------------------------------------------------------
(* Deduplication.                                                          *)

\* Every event_id of the list has a first delivery.
LEMMA FirstDeliveryExists ==
  ASSUME NEW s, IsList(s), NEW i \in DOMAIN s
  PROVE  \E j \in Deduplicated(s) : s[j].event_id = s[i].event_id
<1> DEFINE S == {j \in DOMAIN s : s[j].event_id = s[i].event_id}
<1>1. S \in SUBSET Nat /\ S # {}
  BY DEF IsList
<1>2. PICK m \in S : \A n \in S : m <= n
  <2> HIDE DEF S
  <2> QED BY <1>1, LeastNatural
<1>3. \A j \in DOMAIN s : j < m => s[j].event_id # s[m].event_id
  BY <1>1, <1>2 DEF IsList
<1> QED BY <1>2, <1>3 DEF Deduplicated

\* Every event_sequence of the deduplicated list has a first holder.
LEMMA FirstHolderExists ==
  ASSUME NEW s, IsList(s), NEW i \in Deduplicated(s)
  PROVE  \E j \in SequenceHolders(s) : s[j].event_sequence = s[i].event_sequence
<1> DEFINE S == {j \in Deduplicated(s) : s[j].event_sequence = s[i].event_sequence}
<1>1. S \in SUBSET Nat /\ S # {}
  BY DEF IsList, Deduplicated
<1>2. PICK m \in S : \A n \in S : m <= n
  <2> HIDE DEF S
  <2> QED BY <1>1, LeastNatural
<1>3. \A j \in Deduplicated(s) : j < m => s[j].event_sequence # s[m].event_sequence
  BY <1>1, <1>2 DEF IsList, Deduplicated
<1> QED BY <1>2, <1>3 DEF SequenceHolders

\* A list without conflicts loses no body to deduplication.
LEMMA CleanListKeepsEveryBody ==
  ASSUME NEW s, IsList(s), ~DuplicateConflict(s), ~SequenceConflict(s)
  PROVE  Ordered(s) = Bodies(s) /\ Distinct(Bodies(s))
<1>1. ASSUME NEW i \in DOMAIN s
      PROVE  \E j \in SequenceHolders(s) : s[j] = s[i]
  <2>1. PICK j \in Deduplicated(s) : s[j].event_id = s[i].event_id
    BY FirstDeliveryExists
  <2>2. j \in DOMAIN s /\ Canonical(s[i]) = Canonical(s[j])
    BY <2>1 DEF DuplicateConflict, Deduplicated
  <2>3. s[i] = s[j]
    BY <2>2, EventAssumption DEF IsList
  <2> QED BY <2>1, <2>3 DEF SequenceConflict
<1>2. SequenceHolders(s) \subseteq DOMAIN s
  BY DEF SequenceHolders, Deduplicated
<1>3. Ordered(s) = Bodies(s)
  BY <1>1, <1>2 DEF Ordered, Bodies
<1>4. \A i, j \in SequenceHolders(s) :
        s[i].event_id = s[j].event_id \/ s[i].event_sequence = s[j].event_sequence
        => i = j
  <2> SUFFICES ASSUME NEW i \in SequenceHolders(s), NEW j \in SequenceHolders(s), i # j
               PROVE  /\ s[i].event_id # s[j].event_id
                      /\ s[i].event_sequence # s[j].event_sequence
    OBVIOUS
  <2>1. i \in Nat /\ j \in Nat
    BY <1>2 DEF IsList
  <2>2. i < j \/ j < i
    BY <2>1
  <2> QED BY <2>2, <1>2 DEF SequenceHolders, Deduplicated
<1>5. Distinct(Ordered(s))
  BY <1>4 DEF Distinct, Ordered
<1> QED BY <1>3, <1>5

\* A list with a conflict holds two different bodies with one identity.
LEMMA ConflictIsAClash ==
  ASSUME NEW s, IsList(s), DuplicateConflict(s) \/ SequenceConflict(s)
  PROVE  \E e, f \in Bodies(s) : SameIdentity(e, f)
<1>1. CASE DuplicateConflict(s)
  <2>1. PICK i \in DOMAIN s, j \in Deduplicated(s) :
          s[i].event_id = s[j].event_id /\ Canonical(s[i]) # Canonical(s[j])
    BY <1>1 DEF DuplicateConflict
  <2>2. s[i] \in Bodies(s) /\ s[j] \in Bodies(s)
    BY DEF Bodies, Deduplicated
  <2>3. SameIdentity(s[i], s[j])
    BY <2>1 DEF SameIdentity
  <2> QED BY <2>2, <2>3
<1>2. CASE SequenceConflict(s)
  <2>1. PICK i \in Deduplicated(s) : i \notin SequenceHolders(s)
    BY <1>2 DEF SequenceConflict, SequenceHolders
  <2>2. PICK j \in Deduplicated(s) :
          j < i /\ s[j].event_sequence = s[i].event_sequence
    BY <2>1 DEF SequenceHolders
  <2>3. s[j].event_id # s[i].event_id
    BY <2>2 DEF Deduplicated
  <2>4. s[i] \in Bodies(s) /\ s[j] \in Bodies(s)
    BY DEF Bodies, Deduplicated
  <2> QED BY <2>2, <2>3, <2>4 DEF SameIdentity
<1> QED BY <1>1, <1>2

-----------------------------------------------------------------------------
(* The scan compares neighbours only.                                      *)

\* If a relation that passes through every point between holds of two events
\* in Run order, it holds of two neighbours: the scan, which compares an event
\* with the one just before it, misses no pair.
LEMMA NeighboursShowIt ==
  ASSUME NEW E \in SUBSET Event, NEW Bad \in SUBSET (E \X E),
         \A e, f, g \in E : <<e, f>> \in Bad => <<e, g>> \in Bad \/ <<g, f>> \in Bad,
         NEW e \in E, NEW f \in E, e.event_sequence < f.event_sequence, <<e, f>> \in Bad
  PROVE  \E g, h \in E : JustBefore(E, g, h) /\ <<g, h>> \in Bad
<1> DEFINE S == {n \in Nat : \E g, h \in E : /\ g.event_sequence < h.event_sequence
                                             /\ <<g, h>> \in Bad
                                             /\ n = h.event_sequence - g.event_sequence}
<1>0. \A g \in E : g.event_sequence \in Nat
  BY EventAssumption
<1>1. ASSUME NEW g \in E, NEW h \in E, g.event_sequence < h.event_sequence,
             <<g, h>> \in Bad
      PROVE  h.event_sequence - g.event_sequence \in S
  <2>1. h.event_sequence - g.event_sequence \in Nat
    BY <1>0, <1>1
  <2> QED BY <1>1, <2>1
<1>2. PICK m \in S : \A n \in S : m <= n
  <2> S \in SUBSET Nat /\ S # {}
    BY <1>1
  <2> HIDE DEF S
  <2> QED BY LeastNatural
<1>3. PICK g \in E, h \in E : /\ g.event_sequence < h.event_sequence
                              /\ <<g, h>> \in Bad
                              /\ m = h.event_sequence - g.event_sequence
  BY <1>2
<1> HIDE DEF S
<1>4. ASSUME NEW k \in E, g.event_sequence < k.event_sequence,
             k.event_sequence < h.event_sequence
      PROVE  FALSE
  <2>1. CASE <<g, k>> \in Bad
    <3>1. m <= k.event_sequence - g.event_sequence
      BY <1>1, <1>2, <1>4, <2>1
    <3> QED BY <3>1, <1>0, <1>3, <1>4
  <2>2. CASE <<k, h>> \in Bad
    <3>1. m <= h.event_sequence - k.event_sequence
      BY <1>1, <1>2, <1>4, <2>2
    <3> QED BY <3>1, <1>0, <1>3, <1>4
  <2> QED BY <1>3, <2>1, <2>2
<1>5. JustBefore(E, g, h)
  BY <1>3, <1>4 DEF JustBefore
<1> QED BY <1>3, <1>5

-----------------------------------------------------------------------------
(* The checks over ordered events report exactly the contradictions.       *)

\* Some reason that makes the Run INVALID is reported for the events O.
Disagreement(O) ==
  \/ RepeatedBoundary(O)
  \/ PlayedBeforeStart(O)
  \/ PlayedAfterEnd(O)
  \/ SelectedBeforeShown(O)
  \/ \E e \in Checkpoints(O) : ~OnTheMinute(e)
  \/ CorrelationMismatch(O)
  \/ ReshownChoice(O)
  \/ MismatchedSelection(O)
  \/ ChoiceSequenceDecreased(O)
  \/ CheckpointDecreased(O)
  \/ MeasureDecreased(O)

\* Something the Run should have is missing from the events O.
Omission(O) ==
  \/ SequenceGap(O)
  \/ Starts(O) = {}
  \/ Endings(O) = {}
  \/ \E e \in Selected(O) : ~ChoiceKnown(O, e)

\* The events of a kind are those of E with that event_name (Named).
LEMMA NamedEvents ==
  ASSUME NEW O \in SUBSET Event
  PROVE  /\ Starts(O) \in SUBSET O /\ Endings(O) \in SUBSET O
         /\ Shown(O) \in SUBSET O /\ Selected(O) \in SUBSET O
         /\ Checkpoints(O) \in SUBSET O
BY DEF Starts, Endings, Shown, Selected, Checkpoints, Named

\* The event a choice_id stands for is one that shows it, the earliest.
LEMMA ShownForChoice ==
  ASSUME NEW O \in SUBSET Event, NEW e \in Shown(O)
  PROVE  LET first == ShownFor(O, e.choice_id) IN
         /\ first \in Shown(O)
         /\ first.choice_id = e.choice_id
         /\ first.event_sequence <= e.event_sequence
<1> DEFINE E == {x \in Shown(O) : x.choice_id = e.choice_id}
<1>1. E \in SUBSET Event /\ E # {} /\ e \in E
  BY NamedEvents
<1>2. Earliest(E) \in E /\ Earliest(E).event_sequence <= e.event_sequence
  <2> HIDE DEF E
  <2> QED BY <1>1, EarliestExists
<1> QED BY <1>2 DEF ShownFor

\* A pair of events that cannot both be true is reported.
LEMMA DisorderIsReported ==
  ASSUME NEW O \in SUBSET Event, Distinct(O), NEW e \in O, NEW f \in O, Disordered(e, f)
  PROVE  Disagreement(O)
<1>0. e.event_sequence < f.event_sequence /\ e # f
  BY EventAssumption DEF Disordered
<1>1. CASE e.event_name = "run_ended"
  <2>1. PlayedAfterEnd(O)
    BY <1>0, <1>1 DEF PlayedAfterEnd, Endings, Named
  <2> QED BY <2>1 DEF Disagreement
<1>2. CASE f.event_name = "run_started" /\ ~InitialWeaponChoice(e)
  <2>1. f \in Starts(O)
    BY <1>2 DEF Starts, Named
  <2>2. Earliest(Starts(O)) \in Starts(O)
    BY <2>1, NamedEvents, EarliestExists
  <2>3. CASE Earliest(Starts(O)) = f
    <3>1. PlayedBeforeStart(O)
      BY <1>0, <1>2, <2>1, <2>3 DEF PlayedBeforeStart
    <3> QED BY <3>1 DEF Disagreement
  <2>4. CASE Earliest(Starts(O)) # f
    <3>1. RepeatedBoundary(O)
      BY <2>1, <2>2, <2>4 DEF RepeatedBoundary
    <3> QED BY <3>1 DEF Disagreement
  <2> QED BY <2>3, <2>4
<1>3. CASE /\ {e.event_name, f.event_name} = {"upgrade_options_shown"}
           /\ e.choice_id = f.choice_id
  <2> DEFINE first == ShownFor(O, e.choice_id)
  <2>1. e \in Shown(O) /\ f \in Shown(O) /\ Shown(O) \in SUBSET Event
    BY <1>3, NamedEvents DEF Shown, Named
  <2>2. first \in Event
    BY <2>1, ShownForChoice
  <2>3. Canonical(e) # Canonical(first) \/ Canonical(f) # Canonical(first)
    BY <1>0, <2>2, EventAssumption
  <2>4. ReshownChoice(O)
    BY <1>3, <2>1, <2>3 DEF ReshownChoice
  <2> QED BY <2>4 DEF Disagreement
<1>4. CASE /\ {e.event_name, f.event_name} = {"upgrade_options_shown"}
           /\ e.choice_sequence >= f.choice_sequence
  <2> DEFINE E == Shown(O)
             Bad == {p \in E \X E : p[1].choice_sequence >= p[2].choice_sequence}
  <2>1. e \in E /\ f \in E /\ E \in SUBSET Event
    BY <1>4, NamedEvents DEF Shown, Named
  <2>2. \A x, y, z \in E : <<x, y>> \in Bad => <<x, z>> \in Bad \/ <<z, y>> \in Bad
    BY <2>1, EventAssumption
  <2>3. <<e, f>> \in Bad /\ Bad \in SUBSET (E \X E)
    BY <1>4, <2>1
  <2>4. \E g, h \in E : JustBefore(E, g, h) /\ <<g, h>> \in Bad
    <3> HIDE DEF E, Bad
    <3> QED BY <1>0, <2>1, <2>2, <2>3, NeighboursShowIt
  <2>5. \E g, h \in E : JustBefore(E, g, h) /\ h.choice_sequence <= g.choice_sequence
    BY <2>1, <2>4, EventAssumption
  <2> QED BY <2>5 DEF Disagreement, ChoiceSequenceDecreased
<1>5. CASE /\ {e.event_name, f.event_name} = {"run_checkpoint"}
           /\ e.checkpoint_number >= f.checkpoint_number
  <2> DEFINE E == Checkpoints(O)
             Bad == {p \in E \X E : p[1].checkpoint_number >= p[2].checkpoint_number}
  <2>1. e \in E /\ f \in E /\ E \in SUBSET Event
    BY <1>5, NamedEvents DEF Checkpoints, Named
  <2>2. \A x, y, z \in E : <<x, y>> \in Bad => <<x, z>> \in Bad \/ <<z, y>> \in Bad
    BY <2>1, EventAssumption
  <2>3. <<e, f>> \in Bad /\ Bad \in SUBSET (E \X E)
    BY <1>5, <2>1
  <2>4. \E g, h \in E : JustBefore(E, g, h) /\ <<g, h>> \in Bad
    <3> HIDE DEF E, Bad
    <3> QED BY <1>0, <2>1, <2>2, <2>3, NeighboursShowIt
  <2>5. \E g, h \in E : JustBefore(E, g, h) /\ h.checkpoint_number <= g.checkpoint_number
    BY <2>1, <2>4, EventAssumption
  <2> QED BY <2>5 DEF Disagreement, CheckpointDecreased
<1>6. ASSUME NEW field \in DOMAIN e.measures \cap DOMAIN f.measures,
             e.measures[field] > f.measures[field]
      PROVE  Disagreement(O)
  <2> DEFINE E == {x \in O : field \in DOMAIN x.measures}
             Bad == {p \in E \X E : p[1].measures[field] > p[2].measures[field]}
  <2>1. e \in E /\ f \in E /\ E \in SUBSET Event
    OBVIOUS
  <2>2. \A x \in E : x.measures[field] \in Nat
    BY EventAssumption
  <2>3. \A x, y, z \in E : <<x, y>> \in Bad => <<x, z>> \in Bad \/ <<z, y>> \in Bad
    BY <2>2
  <2>4. <<e, f>> \in Bad /\ Bad \in SUBSET (E \X E)
    BY <1>6, <2>1
  <2>5. \E g, h \in E : JustBefore(E, g, h) /\ <<g, h>> \in Bad
    <3> HIDE DEF E, Bad
    <3> QED BY <1>0, <2>1, <2>3, <2>4, NeighboursShowIt
  <2>6. \E g, h \in E : JustBefore(E, g, h) /\ h.measures[field] < g.measures[field]
    BY <2>2, <2>5
  <2>7. field \in MonotonicField
    BY EventAssumption
  <2>8. MeasureDecreased(O)
    BY <2>6, <2>7 DEF MeasureDecreased
  <2> QED BY <2>8 DEF Disagreement
<1> QED BY <1>1, <1>2, <1>3, <1>4, <1>5, <1>6 DEF Disordered

\* Two events of the ordered list that cannot both be true of one Run make the
\* scan report a reason that invalidates it.
LEMMA ClashIsReported ==
  ASSUME NEW O \in SUBSET Event, Distinct(O), NEW e \in O, NEW f \in O, Clash(e, f)
  PROVE  Disagreement(O)
<1>1. CASE SameIdentity(e, f)
  <2>1. e.event_name = f.event_name /\ e.event_name \in {"run_started", "run_ended"}
    BY <1>1 DEF SameIdentity, Distinct
  <2>2. \/ e \in Starts(O) /\ f \in Starts(O)
        \/ e \in Endings(O) /\ f \in Endings(O)
    BY <2>1 DEF Starts, Endings, Named
  <2>3. RepeatedBoundary(O)
    BY <1>1, <2>2 DEF RepeatedBoundary, SameIdentity
  <2> QED BY <2>3 DEF Disagreement
<1>2. CASE Correlation(e) # Correlation(f)
  <2>1. Correlation(e) # Correlation(Reference(O)) \/ Correlation(f) # Correlation(Reference(O))
    BY <1>2
  <2>2. CorrelationMismatch(O)
    BY <2>1 DEF CorrelationMismatch
  <2> QED BY <2>2 DEF Disagreement
<1>3. CASE Disordered(e, f)
  BY <1>3, DisorderIsReported
<1>4. CASE Misselected(e, f)
  <2> DEFINE first == ShownFor(O, f.choice_id)
  <2>1. e \in Shown(O) /\ f \in Selected(O) /\ e.choice_id = f.choice_id
    BY <1>4 DEF Misselected, Shown, Selected, Named
  <2>2. ChoiceKnown(O, f)
    BY <2>1 DEF ChoiceKnown
  <2>3. CASE first = e
    BY <1>4, <2>1, <2>2, <2>3
       DEF Misselected, Disagreement, SelectedBeforeShown, MismatchedSelection
  <2>4. CASE first # e
    <3>1. first \in Event
      BY <2>1, ShownForChoice, NamedEvents
    <3>2. Canonical(e) # Canonical(first)
      BY <2>4, <3>1, EventAssumption
    <3> QED BY <2>1, <3>2 DEF ReshownChoice, Disagreement
  <2> QED BY <2>3, <2>4
<1> QED BY <1>1, <1>2, <1>3, <1>4 DEF Clash

\* Nothing but a contradiction makes the checks report one.
LEMMA ReportIsAContradiction ==
  ASSUME NEW O \in SUBSET Event, Distinct(O), Disagreement(O)
  PROVE  Contradictory(O)
<1>0. \A e \in O : e.event_sequence \in Nat
  BY EventAssumption
<1>1. CASE RepeatedBoundary(O)
  <2>0. PICK E \in {Starts(O), Endings(O)} : \E e, f \in E : e # f
    BY <1>1 DEF RepeatedBoundary
  <2>1. PICK e \in E, f \in E : e # f
    BY <2>0
  <2>2. /\ e \in O /\ f \in O
        /\ e.event_name = f.event_name /\ e.event_name \in {"run_started", "run_ended"}
    BY <2>1 DEF Starts, Endings, Named
  <2> QED BY <2>1, <2>2 DEF Contradictory, Clash, SameIdentity
<1>2. CASE PlayedBeforeStart(O)
  <2>1. PICK e \in O : /\ Starts(O) # {}
                       /\ e.event_sequence < Earliest(Starts(O)).event_sequence
                       /\ ~InitialWeaponChoice(e)
    BY <1>2 DEF PlayedBeforeStart
  <2>2. Earliest(Starts(O)) \in Starts(O)
    BY <2>1, NamedEvents, EarliestExists
  <2>3. Disordered(e, Earliest(Starts(O))) /\ Earliest(Starts(O)) \in O
    BY <2>1, <2>2 DEF Disordered, Starts, Named
  <2> QED BY <2>3 DEF Contradictory, Clash
<1>3. CASE PlayedAfterEnd(O)
  BY <1>3 DEF PlayedAfterEnd, Endings, Named, Contradictory, Clash, Disordered
<1>4. CASE SelectedBeforeShown(O) \/ MismatchedSelection(O)
  <2>1. PICK e \in Selected(O) :
          /\ ChoiceKnown(O, e)
          /\ \/ ShownFor(O, e.choice_id).event_sequence >= e.event_sequence
             \/ ~Answers(e, ShownFor(O, e.choice_id))
    BY <1>4 DEF SelectedBeforeShown, MismatchedSelection
  <2> DEFINE first == ShownFor(O, e.choice_id)
  <2>2. first \in Shown(O) /\ first.choice_id = e.choice_id
    BY <2>1, ShownForChoice DEF ChoiceKnown
  <2>3. Misselected(first, e) /\ first \in O /\ e \in O
    BY <2>1, <2>2 DEF Misselected, Shown, Selected, Named
  <2> QED BY <2>3 DEF Contradictory, Clash
<1>5. CASE \E e \in Checkpoints(O) : ~OnTheMinute(e)
  BY <1>5 DEF Checkpoints, Named, Contradictory, Broken
<1>6. CASE CorrelationMismatch(O)
  <2>1. PICK e \in O : Correlation(e) # Correlation(Reference(O))
    BY <1>6 DEF CorrelationMismatch
  <2>2. Reference(O) \in O
    BY <2>1, NamedEvents, EarliestExists DEF Reference
  <2> QED BY <2>1, <2>2 DEF Contradictory, Clash
<1>7. CASE ReshownChoice(O)
  <2>1. PICK e \in Shown(O) : Canonical(e) # Canonical(ShownFor(O, e.choice_id))
    BY <1>7 DEF ReshownChoice
  <2> DEFINE first == ShownFor(O, e.choice_id)
  <2>2. /\ first \in Shown(O) /\ first.choice_id = e.choice_id
        /\ first.event_sequence <= e.event_sequence
    BY ShownForChoice
  <2>3. first \in O /\ e \in O /\ first # e
    BY <2>1, <2>2, NamedEvents
  <2>4. first.event_sequence < e.event_sequence
    BY <1>0, <2>2, <2>3 DEF Distinct
  <2>5. Disordered(first, e)
    BY <2>2, <2>4 DEF Disordered, Shown, Named
  <2> QED BY <2>3, <2>5 DEF Contradictory, Clash
<1>8. CASE ChoiceSequenceDecreased(O)
  <2>1. PICK e \in Shown(O), f \in Shown(O) :
          f.event_sequence < e.event_sequence /\ e.choice_sequence <= f.choice_sequence
    BY <1>8 DEF ChoiceSequenceDecreased, JustBefore
  <2>2. f.choice_sequence >= e.choice_sequence /\ e \in O /\ f \in O
    BY <2>1, NamedEvents, EventAssumption
  <2>3. Disordered(f, e)
    BY <2>1, <2>2 DEF Disordered, Shown, Named
  <2> QED BY <2>2, <2>3 DEF Contradictory, Clash
<1>9. CASE CheckpointDecreased(O)
  <2>1. PICK e \in Checkpoints(O), f \in Checkpoints(O) :
          f.event_sequence < e.event_sequence /\ e.checkpoint_number <= f.checkpoint_number
    BY <1>9 DEF CheckpointDecreased, JustBefore
  <2>2. f.checkpoint_number >= e.checkpoint_number /\ e \in O /\ f \in O
    BY <2>1, NamedEvents, EventAssumption
  <2>3. Disordered(f, e)
    BY <2>1, <2>2 DEF Disordered, Checkpoints, Named
  <2> QED BY <2>2, <2>3 DEF Contradictory, Clash
<1>10. CASE MeasureDecreased(O)
  <2>1. PICK field \in MonotonicField :
          \E e, f \in {e \in O : field \in DOMAIN e.measures} :
            f.event_sequence < e.event_sequence /\ e.measures[field] < f.measures[field]
    BY <1>10 DEF MeasureDecreased, JustBefore
  <2>2. PICK e \in O, f \in O :
          /\ field \in DOMAIN e.measures /\ field \in DOMAIN f.measures
          /\ f.event_sequence < e.event_sequence /\ e.measures[field] < f.measures[field]
    BY <2>1
  <2>3. f.measures[field] > e.measures[field]
    BY <2>2, EventAssumption
  <2>4. Disordered(f, e)
    BY <2>2, <2>3 DEF Disordered
  <2> QED BY <2>4 DEF Contradictory, Clash
<1> QED BY <1>1, <1>2, <1>3, <1>4, <1>5, <1>6, <1>7, <1>8, <1>9, <1>10 DEF Disagreement

-----------------------------------------------------------------------------
(* From the reported reasons to the status.                                *)

\* An INVALID Run is one with a reason outside _INCOMPLETE_SEQUENCE_CODES, a
\* VALID Run one with no reason at all.
LEMMA ReasonsOfOrderedEvents ==
  ASSUME NEW O
  PROVE  /\ OrderedIssues(O) \subseteq IncompleteCode <=> ~Disagreement(O)
         /\ OrderedIssues(O) = {} <=> ~Disagreement(O) /\ ~Omission(O)
<1>1. Disagreement(O) <=>
        \E code \in {"EVENT_ORDER_INVALID", "CORRELATION_MISMATCH",
                     "CHOICE_MISMATCH", "COUNTER_DECREASED"} :
          code \in OrderedIssues(O)
  BY DEF Disagreement, OrderedIssues, ReasonCode
<1>2. Omission(O) <=> \E code \in IncompleteCode : code \in OrderedIssues(O)
  BY DEF Omission, OrderedIssues, ReasonCode, IncompleteCode
<1>3. \A code \in OrderedIssues(O) :
        \/ code \in {"EVENT_ORDER_INVALID", "CORRELATION_MISMATCH",
                     "CHOICE_MISMATCH", "COUNTER_DECREASED"}
        \/ code \in IncompleteCode
  BY DEF OrderedIssues, IncompleteCode
<1>4. {"EVENT_ORDER_INVALID", "CORRELATION_MISMATCH",
       "CHOICE_MISMATCH", "COUNTER_DECREASED"} \cap IncompleteCode = {}
  BY DEF IncompleteCode
<1> QED BY <1>1, <1>2, <1>3, <1>4

\* Nothing is missing from a set of bodies exactly when no omission shows.
LEMMA NothingMissing ==
  ASSUME NEW O \in SUBSET Event
  PROVE  Complete(O) <=> ~Omission(O)
<1>1. \A e \in O : e.event_sequence \in Nat \ {0}
  BY EventAssumption
<1>2. (\A e \in O : e.event_sequence = 1
                    \/ \E f \in O : f.event_sequence = e.event_sequence - 1)
      <=> ~SequenceGap(O)
  BY <1>1 DEF SequenceGap
<1> QED BY <1>2 DEF Complete, Omission, ChoiceKnown

\* The validator computes the verdict of the contract: for every list of
\* events, in every order and with every repetition, the status depends on the
\* set of bodies only (validate_anonymous_sequence).
THEOREM ValidatorComputesVerdict ==
  ASSUME NEW s, IsList(s)
  PROVE  ValidateSequence(s) = Verdict(Bodies(s))
<1> DEFINE B == Bodies(s)
           Conflict == DuplicateConflict(s) \/ SequenceConflict(s)
<1>0. B \in SUBSET Event
  BY DEF IsList, Bodies
<1>1. CASE \E i \in DOMAIN s : ~s[i].conforms
  <2>1. ValidateSequence(s) = "INVALID"
    BY <1>1 DEF ValidateSequence, SequenceIssues, SequenceResult, IncompleteCode
  <2>2. Contradictory(B)
    BY <1>1 DEF Contradictory, Broken, Bodies
  <2> QED BY <2>1, <2>2 DEF Verdict
<1>2. CASE (\A i \in DOMAIN s : s[i].conforms) /\ Conflict
  <2>1. \E code \in {"DUPLICATE_CONFLICT", "EVENT_SEQUENCE_CONFLICT"} :
          code \in SequenceIssues(s)
    BY <1>2 DEF SequenceIssues, ReasonCode
  <2>2. ValidateSequence(s) = "INVALID"
    BY <2>1 DEF ValidateSequence, SequenceResult, IncompleteCode
  <2>3. Contradictory(B)
    BY <1>2, ConflictIsAClash DEF Contradictory, Clash
  <2> QED BY <2>2, <2>3 DEF Verdict
<1>3. CASE (\A i \in DOMAIN s : s[i].conforms) /\ ~Conflict
  <2>1. Ordered(s) = B /\ Distinct(B)
    BY <1>3, CleanListKeepsEveryBody
  <2>2. SequenceIssues(s) = OrderedIssues(B)
    BY <1>3, <2>1 DEF SequenceIssues
  <2>3. Contradictory(B) <=> Disagreement(B)
    <3>1. ASSUME NEW e \in B, Broken(e)
          PROVE  Disagreement(B)
      <4>1. e.conforms
        BY <1>3 DEF Bodies
      <4> QED BY <3>1, <4>1 DEF Broken, Disagreement, Checkpoints, Named
    <3> HIDE DEF B
    <3>2. Contradictory(B) => Disagreement(B)
      BY <1>0, <2>1, <3>1, ClashIsReported DEF Contradictory
    <3> QED BY <1>0, <2>1, <3>2, ReportIsAContradiction
  <2>4. Complete(B) <=> ~Omission(B)
    <3> HIDE DEF B
    <3> QED BY <1>0, NothingMissing
  <2>5. /\ OrderedIssues(B) \subseteq IncompleteCode <=> ~Disagreement(B)
        /\ OrderedIssues(B) = {} <=> ~Disagreement(B) /\ ~Omission(B)
    BY ReasonsOfOrderedEvents
  <2>6. ValidateSequence(s) = IF ~Disagreement(B) /\ ~Omission(B) THEN "VALID"
                              ELSE IF ~Disagreement(B) THEN "INCOMPLETE"
                              ELSE "INVALID"
    <3> HIDE DEF B
    <3> QED BY <2>2, <2>5 DEF ValidateSequence, SequenceResult
  <2>7. Verdict(B) = IF ~Disagreement(B) /\ ~Omission(B) THEN "VALID"
                     ELSE IF ~Disagreement(B) THEN "INCOMPLETE"
                     ELSE "INVALID"
    <3> HIDE DEF B
    <3> QED BY <2>3, <2>4 DEF Verdict
  <2> QED BY <2>6, <2>7
<1> QED BY <1>1, <1>2, <1>3

\* A Run stays INVALID whatever else is delivered for it: more bodies only add
\* pairs that can clash.
THEOREM MoreBodiesKeepContradiction ==
  ASSUME NEW E, NEW F, E \subseteq F, Verdict(E) = "INVALID"
  PROVE  Verdict(F) = "INVALID"
<1>1. Contradictory(E)
  BY DEF Verdict
<1>2. Contradictory(F)
  BY <1>1 DEF Contradictory
<1> QED BY <1>2 DEF Verdict
=============================================================================
