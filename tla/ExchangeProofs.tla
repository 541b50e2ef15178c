-------------------------- MODULE ExchangeProofs --------------------------
(***************************************************************************)
(* That the importers keep a ledger and answer the truth, for any number   *)
(* of importers and files, whatever the files hold.                        *)
(*                                                                         *)
(* The invariant is about the lock: one transaction writes at a time, the  *)
(* key it writes is not known yet, and no row is there without its export. *)
(* A commit therefore adds one whole file under a new key.                 *)
(***************************************************************************)
EXTENDS AggregateExchange, FiniteSetTheorems, TLAPS

Offered == files \cup Sample

ImportRecord == [stage : Stage, file : Offered \cup {<<>>}, done : Nat, answer : Answer]

ImportType == import \in [Importer -> ImportRecord]

Silent(i) == import[i].answer = "none"

\* An importer past validate_payload reads a file that exists and conforms, and
\* has not answered yet.
ReadsAFile ==
  \A i \in Importer :
    /\ At(i, "loaded") \/ At(i, "writing") \/ At(i, "committed") => Silent(i)
    /\ At(i, "loaded") => FileOf(i) \in Offered
    /\ At(i, "writing") => FileOf(i) \in Offered /\ FileOf(i).conforms

\* The lock of the database: one writer, of a key that is not there.
OneWriter ==
  /\ \A i, j \in Importer : At(i, "writing") /\ At(j, "writing") => i = j
  /\ \A i \in Importer : At(i, "writing") => ~Known(FileOf(i).key)

\* The primary key of kc_exports, and no row without its export.
Keyed ==
  /\ \A e1, e2 \in exports : e1.key = e2.key => e1 = e2
  /\ \A row \in rows : Known(row.key)

StoredUnder(key) == {row \in rows : row.key = key}

\* What PrintResult is going to say is already true.
AnswersHold ==
  \A i \in Importer :
    /\ At(i, "committed") \/ import[i].answer = "IMPORTED" =>
         Known(FileOf(i).key) /\ StoredUnder(FileOf(i).key) = RowsOf(FileOf(i))
    /\ import[i].answer = "DUPLICATE_IGNORED" => Known(FileOf(i).key)

IInv == ImportType /\ ReadsAFile /\ OneWriter /\ Keyed /\ AnswersHold

-----------------------------------------------------------------------------
(* Steps.                                                                  *)

LEMMA InitIInv == Init => IInv
  BY DEF Init, IInv, ImportType, ImportRecord, ReadsAFile, OneWriter, Keyed, AnswersHold,
     At, Known, Stage, Answer, StoredUnder

\* The rows of a file carry its key.
LEMMA RowsOfKey ==
  ASSUME NEW file, NEW row \in RowsOf(file) PROVE row.key = file.key
  BY DEF RowsOf, RowsOfList

\* One importer moves on without the database: every stage it may go to.
LEMMA ImporterStep ==
  ASSUME IInv, NEW i \in Importer, Offered \subseteq Offered',
         import' \in [Importer -> ImportRecord'],
         \A j \in Importer \ {i} : import'[j] = import[j],
         UNCHANGED database,
         At(i, "loaded")' => FileOf(i)' \in Offered',
         At(i, "writing")' =>
           /\ FileOf(i)' = FileOf(i) /\ FileOf(i) \in Offered /\ FileOf(i).conforms
           /\ \/ At(i, "writing")
              \/ ~Locked /\ ~Known(FileOf(i).key),
         ~At(i, "committed")',
         At(i, "loaded")' \/ At(i, "writing")' => Silent(i)',
         import'[i].answer = "IMPORTED" => At(i, "committed") /\ FileOf(i)' = FileOf(i),
         import'[i].answer = "DUPLICATE_IGNORED" => Known(FileOf(i)'.key)
  PROVE  IInv'
<1>1. \A key : Known(key)' = Known(key) /\ StoredUnder(key)' = StoredUnder(key)
  BY DEF Known, StoredUnder, database
<1>2. ImportType' /\ Keyed'
  BY <1>1 DEF ImportType, IInv, Keyed, database
<1>3. ReadsAFile'
  BY DEF IInv, ReadsAFile, At, FileOf, Silent
<1>4. OneWriter'
  BY <1>1 DEF IInv, OneWriter, At, FileOf, Locked
<1>5. AnswersHold'
  BY <1>1 DEF IInv, AnswersHold, At, FileOf
<1> QED
  BY <1>2, <1>3, <1>4, <1>5 DEF IInv

\* What End leaves of an importer.
LEMMA EndLeaves ==
  ASSUME IInv, NEW i \in Importer, NEW answer \in Answer, End(i, answer)
  PROVE  /\ import' \in [Importer -> ImportRecord]
         /\ \A j \in Importer \ {i} : import'[j] = import[j]
         /\ import'[i].stage = "ended" /\ import'[i].answer = answer
         /\ import'[i].file = import[i].file
  BY DEF End, IInv, ImportType, ImportRecord, Stage

LEMMA LoadStep ==
  ASSUME IInv, NEW i \in Importer, NEW file \in Offered, Load(i, file) PROVE IInv'
<1>1. /\ Offered' = Offered /\ ImportRecord' = ImportRecord
      /\ UNCHANGED database
  BY DEF Load, Offered, ImportRecord, exporter
<1>2. /\ import' \in [Importer -> ImportRecord]
      /\ \A j \in Importer \ {i} : import'[j] = import[j]
      /\ import'[i].stage = "loaded" /\ import'[i].answer = "none"
      /\ import'[i].file = file
  BY DEF Load, IInv, ImportType, ImportRecord, Stage, Answer
<1> QED
  BY <1>1, <1>2, ImporterStep DEF At, FileOf, Silent

\* Every way a process can end: refused, duplicate, busy, rolled back, printed
\* or killed.
LEMMA EndStep ==
  ASSUME IInv, NEW i \in Importer,
         \/ Reject(i) \/ IgnoreDuplicate(i) \/ Busy(i) \/ RollBack(i)
         \/ PrintResult(i) \/ Crash(i)
  PROVE  IInv'
<1>1. /\ Offered' = Offered /\ ImportRecord' = ImportRecord
      /\ UNCHANGED database
  BY DEF Reject, IgnoreDuplicate, Busy, RollBack, PrintResult, Crash, Offered, ImportRecord,
     exporter
<1>2. PICK answer \in Answer :
        /\ End(i, answer)
        /\ answer = "IMPORTED" => At(i, "committed")
        /\ answer = "DUPLICATE_IGNORED" => Known(FileOf(i).key)
  BY DEF Reject, IgnoreDuplicate, Busy, RollBack, PrintResult, Crash, Answer
<1> QED
  BY <1>1, <1>2, EndLeaves, ImporterStep DEF At, FileOf

LEMMA InsertStep ==
  ASSUME IInv, NEW i \in Importer, InsertExport(i) \/ InsertList(i) PROVE IInv'
<1>1. /\ Offered' = Offered /\ ImportRecord' = ImportRecord
      /\ UNCHANGED database
  BY DEF InsertExport, InsertList, Offered, ImportRecord, exporter
<1>2. /\ import' \in [Importer -> ImportRecord]
      /\ \A j \in Importer \ {i} : import'[j] = import[j]
      /\ import'[i].stage = "writing" /\ import'[i].answer = import[i].answer
      /\ import'[i].file = import[i].file
  BY DEF InsertExport, InsertList, Inserting, IInv, ImportType, ImportRecord, Stage, At
<1>a. Silent(i)
  BY DEF InsertExport, InsertList, Inserting, Loaded, IInv, ReadsAFile
<1>3. FileOf(i) \in Offered /\ FileOf(i).conforms
  BY DEF InsertExport, InsertList, Inserting, Loaded, IInv, ReadsAFile
<1>4. At(i, "writing") \/ (~Locked /\ ~Known(FileOf(i).key))
  BY DEF InsertExport, InsertList, Inserting
<1> QED
  BY <1>1, <1>2, <1>3, <1>4, <1>a, ImporterStep DEF At, FileOf, Silent

\* One whole file enters, under a key nothing was stored under.
LEMMA CommitStores ==
  ASSUME IInv, NEW i \in Importer, Commit(i)
  PROVE  /\ At(i, "writing") /\ FileOf(i) \in Offered /\ FileOf(i).conforms
         /\ ~Known(FileOf(i).key)
         /\ {row \in rows' : row.key = FileOf(i).key} = RowsOf(FileOf(i))
         /\ \A key : key # FileOf(i).key => {row \in rows' : row.key = key} = StoredUnder(key)
         /\ exports' = exports \cup
              {[key |-> FileOf(i).key, data_class |-> FileOf(i).data_class]}
         /\ rows' = rows \cup RowsOf(FileOf(i))
<1> DEFINE file == FileOf(i)
<1>1. /\ At(i, "writing") /\ rows' = rows \cup RowsOf(file)
      /\ exports' = exports \cup {[key |-> file.key, data_class |-> file.data_class]}
  BY DEF Commit
<1>2. file \in Offered /\ file.conforms /\ ~Known(file.key)
  BY <1>1 DEF IInv, ReadsAFile, OneWriter
<1>3. \A row \in rows : row.key # file.key
  BY <1>2 DEF IInv, Keyed
<1>4. \A row \in RowsOf(file) : row.key = file.key
  BY RowsOfKey
<1> HIDE DEF file
<1>5. {row \in rows' : row.key = file.key} = RowsOf(file)
  BY <1>1, <1>3, <1>4
<1>6. \A key : key # file.key => {row \in rows' : row.key = key} = StoredUnder(key)
  BY <1>1, <1>4 DEF StoredUnder
<1> QED
  BY <1>1, <1>2, <1>5, <1>6 DEF file

LEMMA CommitStep ==
  ASSUME IInv, NEW i \in Importer, Commit(i) PROVE IInv'
<1> DEFINE file == FileOf(i)
<1>1. /\ Offered' = Offered /\ ImportRecord' = ImportRecord
  BY DEF Commit, Offered, ImportRecord, exporter
<1>2. /\ import' \in [Importer -> ImportRecord]
      /\ \A j \in Importer \ {i} : import'[j] = import[j]
      /\ import'[i].stage = "committed" /\ import'[i].answer = import[i].answer
      /\ import'[i].file = import[i].file
  BY DEF Commit, IInv, ImportType, ImportRecord, Stage
<1>3. Silent(i)
  BY CommitStores DEF IInv, ReadsAFile
<1>4. \A key : Known(key)' <=> Known(key) \/ key = file.key
  <2>1. exports' = exports \cup {[key |-> file.key, data_class |-> file.data_class]}
    BY CommitStores
  <2>2. ASSUME NEW new, new.key = file.key, exports' = exports \cup {new}, NEW key
        PROVE  Known(key)' <=> Known(key) \/ key = file.key
    <3> HIDE DEF file
    <3>1. Known(key)' <=> \E export \in exports \cup {new} : export.key = key
      BY <2>2 DEF Known
    <3> QED
      BY <2>2, <3>1 DEF Known
  <2>3. [key |-> file.key, data_class |-> file.data_class].key = file.key
    OBVIOUS
  <2> QED
    BY <2>1, <2>2, <2>3
<1>5. Keyed'
  <2>1. \A e \in exports : e.key # file.key
    BY CommitStores DEF Known
  <2>2. \A e1, e2 \in exports' : e1.key = e2.key => e1 = e2
    BY <2>1, CommitStores DEF IInv, Keyed
  <2>3. \A row \in rows' : Known(row.key)'
    BY <1>4, CommitStores, RowsOfKey DEF IInv, Keyed
  <2> QED
    BY <2>2, <2>3 DEF Keyed
<1>6. ImportType' /\ ReadsAFile'
  BY <1>1, <1>2, <1>3 DEF IInv, ImportType, ReadsAFile, At, FileOf, Silent
<1>7. OneWriter'
  <2> SUFFICES ASSUME NEW j \in Importer, At(j, "writing")' PROVE FALSE
    BY DEF OneWriter
  <2>1. j # i /\ At(j, "writing")
    BY <1>2 DEF At
  <2> QED
    BY <2>1, CommitStores DEF IInv, OneWriter
<1>8. AnswersHold'
  <2> SUFFICES ASSUME NEW j \in Importer
               PROVE  /\ At(j, "committed")' \/ import'[j].answer = "IMPORTED" =>
                           /\ Known(FileOf(j).key)'
                           /\ {row \in rows' : row.key = import'[j].file.key}
                                = RowsOf(import'[j].file)
                      /\ import'[j].answer = "DUPLICATE_IGNORED" => Known(FileOf(j).key)'
    BY DEF AnswersHold, StoredUnder, FileOf
  <2>1. CASE j = i
    BY <1>2, <1>3, <1>4, <2>1, CommitStores DEF FileOf, Silent
  <2>2. CASE j # i /\ Known(FileOf(j).key)
    <3>1. import'[j] = import[j] /\ FileOf(j).key # file.key
      BY <1>2, <2>2, CommitStores
    <3> QED
      BY <1>4, <2>2, <3>1, CommitStores DEF IInv, AnswersHold, At, FileOf
  <2>3. CASE j # i /\ ~Known(FileOf(j).key)
    BY <1>2, <2>3 DEF IInv, AnswersHold, At, FileOf
  <2> QED
    BY <2>1, <2>2, <2>3
<1> QED
  BY <1>5, <1>6, <1>7, <1>8 DEF IInv

\* Nothing an importer or the database has, while more files appear.
LEMMA OtherStep ==
  ASSUME IInv, UNCHANGED <<import, database>>, Offered \subseteq Offered' PROVE IInv'
<1>1. \A key : Known(key)' = Known(key) /\ StoredUnder(key)' = StoredUnder(key)
  BY DEF Known, StoredUnder, database
<1>2. ImportRecord \subseteq ImportRecord'
  BY DEF ImportRecord
<1>3. ImportType'
  BY <1>2 DEF IInv, ImportType
<1>4. Keyed' /\ ReadsAFile' /\ OneWriter' /\ AnswersHold'
  BY <1>1 DEF IInv, Keyed, ReadsAFile, OneWriter, AnswersHold, At, FileOf, Silent, database
<1> QED
  BY <1>3, <1>4 DEF IInv

LEMMA StepIInv == IInv /\ [Next]_vars => IInv'
<1> SUFFICES ASSUME IInv, [Next]_vars PROVE IInv'
  OBVIOUS
<1>1. CASE \E date \in Date, event \in Counted : Count(date, event)
  BY <1>1, OtherStep DEF Count, exporter, importers, Offered
<1>2. CASE \E date \in Date, revision \in Revision, data_class \in DataClass :
             StartExport(date, revision, data_class)
  BY <1>2, OtherStep DEF StartExport, importers, Offered
<1>3. CASE SelectTable \/ WriteFile \/ ExportFails
  BY <1>3, OtherStep DEF SelectTable, WriteFile, ExportFails, importers, Offered
<1>4. CASE \E i \in Importer : Import(i)
  BY <1>4, LoadStep, EndStep, InsertStep, CommitStep DEF Import, Offered
<1>5. CASE UNCHANGED vars
  BY <1>5, OtherStep DEF vars, Offered, database
<1> QED
  BY <1>1, <1>2, <1>3, <1>4, <1>5 DEF Next

LEMMA InductiveInvariant == Spec => []IInv
  BY InitIInv, StepIInv, PTL DEF Spec

-----------------------------------------------------------------------------
(* The theorems.                                                           *)

\* Whatever an importer has answered is so: its rows and no other are stored
\* under its key, or its key was known, and stays so for good.
THEOREM AnswersAreTrueHolds == Spec => []AnswersAreTrue
<1>1. IInv => AnswersAreTrue
  BY DEF IInv, AnswersHold, AnswersAreTrue, StoredUnder
<1> QED
  BY <1>1, InductiveInvariant, PTL

LedgerOffered == {Entry(file) : file \in {f \in files \cup Sample : f.conforms}}

LedgerEntry(export) ==
  [key |-> export.key, data_class |-> export.data_class, rows |-> StoredUnder(export.key)]

LedgerEntries ==
  {[key |-> export.key, data_class |-> export.data_class,
    rows |-> {row \in rows : row.key = export.key}] : export \in exports}
  \cup {[key |-> row.key] : row \in {r \in rows : ~Known(r.key)}}

LEMMA EntriesOfExports ==
  ASSUME Keyed PROVE LedgerEntries = {LedgerEntry(export) : export \in exports}
  BY DEF Keyed, LedgerEntries, LedgerEntry, StoredUnder

\* Nothing the ledger is read from has changed.
LEMMA LedgerStays ==
  ASSUME UNCHANGED database PROVE LedgerEntries' = LedgerEntries
  BY DEF LedgerEntries, Known, database

LEMMA OfferedGrows ==
  ASSUME files \subseteq files' PROVE LedgerOffered \subseteq LedgerOffered'
  BY DEF LedgerOffered, Entry, RowsOf, RowsOfList

\* A commit records the entry of its file.
LEMMA CommitRecords ==
  ASSUME IInv, NEW i \in Importer, Commit(i)
  PROVE  \E entry \in LedgerOffered :
           /\ \A other \in LedgerEntries : other.key # entry.key
           /\ LedgerEntries' = LedgerEntries \cup {entry}
           /\ LedgerOffered' = LedgerOffered
<1> DEFINE file == FileOf(i)
           new == [key |-> file.key, data_class |-> file.data_class]
<1>1. /\ file \in Offered /\ file.conforms /\ ~Known(file.key)
      /\ {row \in rows' : row.key = file.key} = RowsOf(file)
      /\ \A key : key # file.key => {row \in rows' : row.key = key} = StoredUnder(key)
      /\ exports' = exports \cup {new}
  BY CommitStores
<1>2. Entry(file) \in LedgerOffered
  BY <1>1 DEF LedgerOffered, Offered
<1>3. LedgerEntries = {LedgerEntry(e) : e \in exports} /\ Keyed'
  BY EntriesOfExports, CommitStep DEF IInv
<1>4. LedgerEntries' = {[key |-> e.key, data_class |-> e.data_class,
                         rows |-> {row \in rows' : row.key = e.key}] : e \in exports'}
  BY <1>3 DEF Keyed, LedgerEntries
<1>5. \A e \in exports : [key |-> e.key, data_class |-> e.data_class,
                         rows |-> {row \in rows' : row.key = e.key}] = LedgerEntry(e)
  <2> SUFFICES ASSUME NEW e \in exports
               PROVE  {row \in rows' : row.key = e.key} = StoredUnder(e.key)
    BY DEF LedgerEntry
  <2> QED
    BY <1>1 DEF Known
<1>6. [key |-> new.key, data_class |-> new.data_class,
       rows |-> {row \in rows' : row.key = new.key}] = Entry(file)
  BY <1>1 DEF Entry
<1>7. LedgerEntries' = LedgerEntries \cup {Entry(file)}
  <2> DEFINE Of(e) == [key |-> e.key, data_class |-> e.data_class,
                       rows |-> {row \in rows' : row.key = e.key}]
  <2>1. LedgerEntries' = {Of(e) : e \in exports} \cup {Of(new)}
    <3>1. LedgerEntries' = {Of(e) : e \in exports'}
      BY <1>4
    <3> HIDE DEF Of, new
    <3> QED
      BY <1>1, <3>1
  <2>2. Of(new) = Entry(file)
    BY <1>6
  <2>3. {Of(e) : e \in exports} = {LedgerEntry(e) : e \in exports}
    BY <1>5
  <2> QED
    BY <1>3, <2>1, <2>2, <2>3
<1>8. \A other \in LedgerEntries : other.key # Entry(file).key
  BY <1>1, <1>3 DEF LedgerEntry, Entry, Known
<1>9. LedgerOffered' = LedgerOffered
  <2>1. files' = files
    BY DEF Commit, exporter
  <2> QED
    BY <2>1 DEF LedgerOffered, Entry, RowsOf, RowsOfList
<1> QED
  BY <1>2, <1>7, <1>8, <1>9

LEMMA StepKeepsLedger ==
  IInv /\ [Next]_vars => [Ledger!Next]_<<LedgerOffered, LedgerEntries>>
<1> SUFFICES ASSUME IInv, [Next]_vars
             PROVE  Ledger!Next \/ UNCHANGED <<LedgerOffered, LedgerEntries>>
  OBVIOUS
<1>1. CASE \E i \in Importer : Commit(i)
  BY <1>1, CommitRecords
     DEF Ledger!Next, Ledger!Record, LedgerOffered, LedgerEntries
<1>2. CASE UNCHANGED database /\ files \subseteq files'
  <2>1. LedgerEntries' = LedgerEntries /\ LedgerOffered \subseteq LedgerOffered'
    BY <1>2, LedgerStays, OfferedGrows
  <2> QED
    BY <2>1 DEF Ledger!Next, Ledger!Offer, LedgerOffered, LedgerEntries
<1>3. CASE \E date \in Date, event \in Counted : Count(date, event)
  BY <1>2, <1>3 DEF Count, exporter
<1>4. CASE \E date \in Date, revision \in Revision, data_class \in DataClass :
             StartExport(date, revision, data_class)
  BY <1>2, <1>4 DEF StartExport
<1>5. CASE SelectTable \/ WriteFile \/ ExportFails
  BY <1>2, <1>5 DEF SelectTable, WriteFile, ExportFails
<1>6. CASE \E i \in Importer : Import(i)
  BY <1>1, <1>2, <1>6 DEF Import, Load, Reject, InsertExport, IgnoreDuplicate, Busy,
     InsertList, RollBack, PrintResult, Crash, exporter
<1>7. CASE UNCHANGED vars
  BY <1>2, <1>7 DEF vars, database
<1> QED
  BY <1>3, <1>4, <1>5, <1>6, <1>7 DEF Next

LEMMA LedgerInit == Init => Ledger!Init
  BY DEF Init, Ledger!Init

\* However importers crash, collide and repeat, the database is a ledger of
\* whole files, the first of a key for good.
THEOREM ExchangeImplementsLedger == Spec => ImplementsLedger
  BY LedgerInit, StepKeepsLedger, InductiveInvariant, PTL
     DEF Spec, ImplementsLedger, Ledger!Spec, LedgerOffered, LedgerEntries
-----------------------------------------------------------------------------
(* The exporter.                                                           *)

\* SetToSeq lists every element, and nothing else.
LEMMA SetToSeqLists ==
  ASSUME NEW S, IsFiniteSet(S)
  PROVE  /\ SetToSeq(S) \in [1 .. Cardinality(S) -> S]
         /\ \A x \in S : \E k \in 1 .. Cardinality(S) : SetToSeq(S)[k] = x
<1> DEFINE n == Cardinality(S)
           list == SetToSeq(S)
<1>1. n \in Nat /\ ExistsBijection(1 .. n, S)
  BY FS_CardinalityType
<1>2. \E f \in [1 .. n -> S] : IsInjective(f)
  BY <1>1 DEF ExistsBijection, Bijection, Injection
<1>3. list \in [1 .. n -> S] /\ IsInjective(list)
  BY <1>2 DEF SetToSeq
<1>4. list \in Injection(1 .. n, S)
  BY <1>3 DEF Injection
<1>5. Cardinality(1 .. n) = n
  BY <1>1, FS_Interval
<1>6. list \in Surjection(1 .. n, S)
  BY <1>4, <1>5, FS_Injection
<1> QED
  BY <1>3, <1>6 DEF Surjection

LEMMA MetricFacts ==
  /\ Len(Metric) = 5 /\ DOMAIN Metric = 1 .. 5
  /\ \A n \in 1 .. 5 : Cells(Metric[n]) \subseteq Event
  BY DEF Metric, Cells, Event

LEMMA EventIsFinite == IsFiniteSet(Event)
<1>1. \A S, x : IsFiniteSet(S) => IsFiniteSet(S \cup {x})
  BY FS_AddElement
<1>2. IsFiniteSet({"run_checkpoint"} \cup {"run_ended"} \cup {"run_started"})
  BY <1>1, FS_Singleton
<1>3. Event = {"run_checkpoint"} \cup {"run_ended"} \cup {"run_started"}
                \cup {"upgrade_options_shown"} \cup {"upgrade_selected"}
  BY DEF Event
<1> QED
  BY <1>1, <1>2, <1>3

\* A SELECT returns rows, one for each event of its table that was counted.
LEMMA SelectedRows ==
  ASSUME NEW date \in Date, counts \in [Date -> [Event -> 0 .. MaxCount]],
         NEW n \in 1 .. 5
  PROVE  /\ Selected(Metric[n], date) \in Seq(Row)
         /\ Metric[n] \in tables =>
              \A event \in Cells(Metric[n]) :
                Counts(Selected(Metric[n], date), event) = counts[date][event]
<1> DEFINE metric == Metric[n]
           count == counts[date]
           counted == {event \in Cells(metric) : metric \in tables /\ count[event] > 0}
           found == {[cell |-> event, count |-> count[event]] : event \in counted}
           list == Selected(metric, date)
<1>1. MaxCount \in Nat /\ count \in [Event -> 0 .. MaxCount] /\ counted \subseteq Event
  BY MetricFacts, ExchangeAssumption
<1>2. found \subseteq Row
  BY <1>1 DEF Row
<1>3. IsFiniteSet(counted)
  BY <1>1, EventIsFinite, FS_Subset
<1>4. IsFiniteSet(found)
  <2> DEFINE row == [event \in counted |-> [cell |-> event, count |-> count[event]]]
  <2>1. row \in Surjection(counted, found)
    BY DEF Surjection
  <2> QED
    BY <1>3, <2>1, FS_Surjection
<1>5. list = SetToSeq(found)
  BY DEF Selected
<1>6. Cardinality(found) \in Nat
  BY <1>4, FS_CardinalityType
<1> HIDE DEF found, list
<1>7. /\ list \in [1 .. Cardinality(found) -> found]
      /\ \A x \in found : \E k \in 1 .. Cardinality(found) : list[k] = x
  BY <1>4, <1>5, SetToSeqLists
<1>8. list \in Seq(Row)
  BY <1>2, <1>6, <1>7
<1>9. {list[k] : k \in DOMAIN list} = found
  BY <1>7
<1>10. ASSUME metric \in tables, NEW event \in Cells(metric)
       PROVE  Counts(list, event) = count[event]
  <2>1. event \in Event /\ count[event] \in Nat
    BY <1>1, MetricFacts
  <2>2. \A row \in found : row.cell = event => row.count = count[event]
    <3> SUFFICES ASSUME NEW row \in found, row.cell = event
                 PROVE  row.count = count[event]
      OBVIOUS
    <3>1. PICK other \in counted : row = [cell |-> other, count |-> count[other]]
      BY DEF found
    <3> QED
      BY <3>1
  <2>3. CASE count[event] > 0
    <3>1. \E row \in found : row.cell = event
      <4> DEFINE row == [cell |-> event, count |-> count[event]]
      <4>1. event \in counted
        BY <1>10, <2>3
      <4>2. row \in found /\ row.cell = event
        BY <4>1 DEF found
      <4> QED
        BY <4>2
    <3> QED
      BY <1>9, <2>2, <3>1 DEF Counts
  <2>4. CASE count[event] = 0
    <3>1. ~ \E row \in found : row.cell = event
      BY <2>4 DEF found
    <3> QED
      BY <1>9, <2>4, <3>1 DEF Counts
  <2> QED
    BY <2>1, <2>3, <2>4
<1> QED
  BY <1>8, <1>10 DEF list

\* What has been counted by the start of a build is still counted.
SinceHolds ==
  Building => \A event \in Event :
                build.since[event] <= counts[build.key.bucket_date][event]

ExportInv == TypeOK /\ SinceHolds /\ ExportIsBracketed

LEMMA NoBuildFacts == Len(NoBuild.lists) = 0 /\ DOMAIN NoBuild.lists = {}
<1>1. NoBuild.lists = <<>>
  BY DEF NoBuild
<1>2. Len(<<>>) = 0 /\ DOMAIN <<>> = {}
  OBVIOUS
<1> QED
  BY <1>1, <1>2

LEMMA ExportInit == Init => ExportInv
<1> SUFFICES ASSUME Init PROVE ExportInv
  OBVIOUS
<1>1. counts \in [Date -> [Event -> 0 .. MaxCount]]
  BY ExchangeAssumption DEF Init
<1>2. build = NoBuild /\ DOMAIN build.lists = {} /\ Len(build.lists) <= Len(Metric)
  BY MetricFacts, NoBuildFacts DEF Init
<1>3. import \in [Importer -> [stage : Stage, file : File \cup {<<>>},
                               done : 0 .. Len(Metric), answer : Answer]]
  BY MetricFacts DEF Init, Stage, Answer
<1>4. /\ tables \subseteq {Metric[n] : n \in DOMAIN Metric}
      /\ builds \in 0 .. MaxBuilds /\ imports \in 0 .. MaxImports
      /\ files = {} /\ exports = {} /\ rows = {}
  BY ExchangeAssumption DEF Init
<1>5. TypeOK
  BY <1>1, <1>2, <1>3, <1>4 DEF TypeOK
<1>6. SinceHolds /\ ExportIsBracketed
  BY <1>2 DEF SinceHolds, Building, ExportIsBracketed
<1> QED
  BY <1>5, <1>6 DEF ExportInv

\* Nothing the exporter reads or has written has changed, but for the importers.
LEMMA ImportersType ==
  ASSUME ExportInv, UNCHANGED <<gateway, exporter>>,
         imports' \in 0 .. MaxImports,
         import' \in [Importer -> [stage : Stage, file : File \cup {<<>>},
                                   done : 0 .. Len(Metric), answer : Answer]],
         exports' \subseteq [key : Key, data_class : DataClass],
         rows' \subseteq [key : Key, metric : {Metric[n] : n \in DOMAIN Metric},
                          cell : Event, count : Nat]
  PROVE  ExportInv'
<1>1. UNCHANGED <<counts, tables, build, builds, files>>
  BY DEF gateway, exporter
<1>2. TypeOK'
  BY <1>1 DEF ExportInv, TypeOK
<1>3. SinceHolds' /\ ExportIsBracketed'
  BY <1>1 DEF ExportInv, SinceHolds, Building, ExportIsBracketed
<1> QED
  BY <1>2, <1>3 DEF ExportInv

LEMMA BuildType ==
  ASSUME ExportInv, Building
  PROVE  /\ build.key \in Key /\ build.key.bucket_date \in Date
         /\ build.data_class \in DataClass
         /\ build.since \in [Event -> 0 .. MaxCount]
         /\ build.lists \in Seq(Seq(Row)) /\ Len(build.lists) <= 5
         /\ DOMAIN build.lists \subseteq 1 .. 5
<1>1. build \in [lists : Seq(Seq(Row)), key : Key, data_class : DataClass,
                since : [Event -> 0 .. MaxCount]]
  BY DEF ExportInv, TypeOK, Building
<1>2. Len(build.lists) <= 5
  BY MetricFacts DEF ExportInv, TypeOK
<1>3. build.lists \in Seq(Seq(Row)) /\ build.key \in Key
  BY <1>1
<1>4. DOMAIN build.lists = 1 .. Len(build.lists) /\ Len(build.lists) \in Nat
  BY <1>3
<1>5. DOMAIN build.lists \subseteq 1 .. 5
  BY <1>2, <1>4
<1> QED
  BY <1>1, <1>2, <1>3, <1>5 DEF Key

LEMMA CountKeepsExport ==
  ASSUME ExportInv, NEW date \in Date, NEW event \in Counted, Count(date, event)
  PROVE  ExportInv'
<1>1. /\ event \in Event /\ counts[date][event] < MaxCount
      /\ counts' = [counts EXCEPT ![date][event] = @ + 1]
      /\ UNCHANGED <<tables, build, builds, files, import, imports, exports, rows>>
  BY ExchangeAssumption DEF Count, exporter, importers, database
<1>2. counts \in [Date -> [Event -> 0 .. MaxCount]]
  BY DEF ExportInv, TypeOK
<1>3. counts' \in [Date -> [Event -> 0 .. MaxCount]]
  BY <1>1, <1>2, ExchangeAssumption
<1>4. \A d \in Date, e \in Event : counts[d][e] \in Nat /\ counts'[d][e] \in Nat
                                   /\ counts[d][e] <= counts'[d][e]
  BY <1>1, <1>2, <1>3, ExchangeAssumption
<1>5. TypeOK'
  BY <1>1, <1>3 DEF ExportInv, TypeOK
<1>6. CASE build = NoBuild
  BY <1>1, <1>5, <1>6, NoBuildFacts DEF ExportInv, SinceHolds, Building, ExportIsBracketed
<1>7. CASE Building
  <2>1. /\ build.key.bucket_date \in Date /\ build.since \in [Event -> 0 .. MaxCount]
        /\ build.lists \in Seq(Seq(Row)) /\ DOMAIN build.lists \subseteq 1 .. 5
    BY <1>7, BuildType
  <2> DEFINE date0 == build.key.bucket_date
  <2>2. SinceHolds'
    <3> SUFFICES ASSUME NEW e \in Event
                 PROVE  build.since[e] <= counts'[date0][e]
      BY <1>1 DEF SinceHolds
    <3>1. build.since[e] <= counts[date0][e] /\ build.since[e] \in Nat
      BY <1>7, <2>1, ExchangeAssumption DEF ExportInv, SinceHolds
    <3>2. counts[date0][e] \in Nat /\ counts'[date0][e] \in Nat
          /\ counts[date0][e] <= counts'[date0][e]
      BY <1>4, <2>1
    <3> QED
      BY <3>1, <3>2
  <2>3. ExportIsBracketed'
    <3> SUFFICES ASSUME NEW n \in DOMAIN build.lists, Metric[n] \in tables,
                        NEW e \in Cells(Metric[n])
                 PROVE  /\ build.since[e] <= Counts(build.lists[n], e)
                        /\ Counts(build.lists[n], e) <= counts'[date0][e]
      BY <1>1 DEF ExportIsBracketed
    <3> DEFINE listed == Counts(build.lists[n], e)
    <3>1. build.since[e] <= listed /\ listed <= counts[date0][e]
      BY DEF ExportInv, ExportIsBracketed
    <3>2. listed \in Nat
      <4>1. build.lists[n] \in Seq(Row)
        BY <2>1
      <4>2. {build.lists[n][k] : k \in DOMAIN build.lists[n]} \subseteq Row
        BY <4>1
      <4> QED
        BY <4>2 DEF Counts, Row
    <3>3. e \in Event
      BY <2>1, MetricFacts
    <3> HIDE DEF listed
    <3>4. counts[date0][e] \in Nat /\ counts'[date0][e] \in Nat
          /\ counts[date0][e] <= counts'[date0][e]
      BY <1>4, <2>1, <3>3
    <3> QED
      BY <3>1, <3>2, <3>4 DEF listed
  <2> QED
    BY <1>5, <2>2, <2>3 DEF ExportInv
<1> QED
  BY <1>6, <1>7 DEF Building

LEMMA StartKeepsExport ==
  ASSUME ExportInv, NEW date \in Date, NEW revision \in Revision,
         NEW data_class \in DataClass, StartExport(date, revision, data_class)
  PROVE  ExportInv'
<1> DEFINE new == [lists |-> <<>>, key |-> [bucket_date |-> date, revision |-> revision],
                   data_class |-> data_class, since |-> counts[date]]
<1>1. /\ build' = new /\ builds' = builds + 1 /\ builds < MaxBuilds
      /\ UNCHANGED <<counts, tables, files, import, imports, exports, rows>>
  BY DEF StartExport, gateway, importers, database
<1>2. counts[date] \in [Event -> 0 .. MaxCount]
  BY DEF ExportInv, TypeOK
<1>3. new \in [lists : Seq(Seq(Row)), key : Key, data_class : DataClass,
               since : [Event -> 0 .. MaxCount]]
  BY <1>2 DEF Key
<1>4. Len(new.lists) = 0 /\ DOMAIN new.lists = {}
  <2>1. new.lists = <<>>
    OBVIOUS
  <2>2. Len(<<>>) = 0 /\ DOMAIN <<>> = {}
    OBVIOUS
  <2> QED
    BY <2>1, <2>2
<1>5. builds' \in 0 .. MaxBuilds
  BY <1>1, ExchangeAssumption DEF ExportInv, TypeOK
<1>6. new.key.bucket_date = date /\ new.since = counts[date]
  OBVIOUS
<1> HIDE DEF new
<1>7. TypeOK'
  BY <1>1, <1>3, <1>4, <1>5, MetricFacts DEF ExportInv, TypeOK
<1>8. \A event \in Event : counts[date][event] <= counts[date][event]
  BY <1>2, ExchangeAssumption
<1>9. SinceHolds' /\ ExportIsBracketed'
  BY <1>1, <1>4, <1>6, <1>8 DEF SinceHolds, ExportIsBracketed
<1> QED
  BY <1>7, <1>9 DEF ExportInv

LEMMA SelectKeepsExport ==
  ASSUME ExportInv, SelectTable PROVE ExportInv'
<1> DEFINE n == Len(build.lists) + 1
           date == build.key.bucket_date
           list == Selected(Metric[n], date)
<1>1. /\ Building /\ Len(build.lists) < 5
      /\ build' = [build EXCEPT !.lists = Append(build.lists, list)]
      /\ UNCHANGED <<counts, tables, builds, files, import, imports, exports, rows>>
  BY MetricFacts DEF SelectTable, gateway, importers, database
<1>2. /\ build \in [lists : Seq(Seq(Row)), key : Key, data_class : DataClass,
                    since : [Event -> 0 .. MaxCount]]
      /\ date \in Date
      /\ counts \in [Date -> [Event -> 0 .. MaxCount]]
  BY <1>1, BuildType DEF ExportInv, TypeOK, Building
<1>3. n \in 1 .. 5 /\ build.lists \in Seq(Seq(Row)) /\ Len(build.lists) \in Nat
  BY <1>1, <1>2
<1>4. /\ list \in Seq(Row)
      /\ Metric[n] \in tables =>
           \A event \in Cells(Metric[n]) : Counts(list, event) = counts[date][event]
  BY <1>2, <1>3, SelectedRows
<1> HIDE DEF list
<1>5. /\ build'.lists = Append(build.lists, list)
      /\ build'.key = build.key /\ build'.since = build.since
      /\ build'.data_class = build.data_class
  BY <1>1, <1>2
<1>6. /\ Append(build.lists, list) \in Seq(Seq(Row))
      /\ Len(Append(build.lists, list)) = n
      /\ DOMAIN Append(build.lists, list) = 1 .. n
      /\ \A k \in 1 .. n - 1 : Append(build.lists, list)[k] = build.lists[k]
      /\ Append(build.lists, list)[n] = list
  BY <1>3, <1>4
<1>7. build' \in [lists : Seq(Seq(Row)), key : Key, data_class : DataClass,
                  since : [Event -> 0 .. MaxCount]]
  BY <1>1, <1>2, <1>6
<1>8. TypeOK'
  <2>1. Len(build'.lists) <= Len(Metric)
    BY <1>3, <1>5, <1>6, MetricFacts
  <2>2. UNCHANGED <<counts, tables, builds, files, import, imports, exports, rows>>
    BY <1>1
  <2> QED
    BY <1>7, <2>1, <2>2 DEF ExportInv, TypeOK
<1>9. SinceHolds'
  BY <1>1, <1>5 DEF ExportInv, SinceHolds
<1>10. ASSUME NEW k \in 1 .. n, Metric[k] \in tables, NEW event \in Cells(Metric[k])
       PROVE  /\ build.since[event] <= Counts(build'.lists[k], event)
              /\ Counts(build'.lists[k], event) <= counts[date][event]
  <2>1. CASE k < n
    <3>1. k \in DOMAIN build.lists /\ build'.lists[k] = build.lists[k]
      BY <1>3, <1>5, <1>6, <2>1
    <3> QED
      BY <1>10, <3>1 DEF ExportInv, ExportIsBracketed
  <2>2. CASE k = n
    <3>1. Counts(build'.lists[k], event) = counts[date][event]
      BY <1>4, <1>5, <1>6, <1>10, <2>2
    <3>2. event \in Event
      BY <1>3, <1>10, <2>2, MetricFacts
    <3>3. build.since[event] <= counts[date][event]
      BY <1>1, <3>2 DEF ExportInv, SinceHolds
    <3>4. counts[date][event] \in Nat
      BY <1>2, <3>2, ExchangeAssumption
    <3> QED
      BY <3>1, <3>3, <3>4
  <2> QED
    BY <1>3, <2>1, <2>2
<1>11. ExportIsBracketed'
  BY <1>1, <1>5, <1>6, <1>10 DEF ExportIsBracketed
<1> QED
  BY <1>8, <1>9, <1>11 DEF ExportInv

LEMMA WriteKeepsExport ==
  ASSUME ExportInv, WriteFile \/ ExportFails PROVE ExportInv'
<1>1. /\ build' = NoBuild
      /\ UNCHANGED <<counts, tables, builds, import, imports, exports, rows>>
  BY DEF WriteFile, ExportFails, gateway, importers, database
<1>2. files' \subseteq File /\ \A file \in files' : Len(file.lists) = Len(Metric)
  <2>1. CASE ExportFails
    BY <2>1 DEF ExportFails, ExportInv, TypeOK
  <2>2. CASE WriteFile
    <3> DEFINE new == [key |-> build.key, data_class |-> build.data_class,
                       lists |-> build.lists, conforms |-> build.key.revision >= 1]
    <3>1. Building /\ Len(build.lists) = Len(Metric) /\ files' = files \cup {new}
      BY <2>2 DEF WriteFile
    <3>2. build.key.revision \in Nat
      BY <3>1, BuildType, ExchangeAssumption DEF Key
    <3>3. (build.key.revision >= 1) \in BOOLEAN
      BY <3>2
    <3>4. new \in File /\ Len(new.lists) = Len(Metric)
      BY <3>1, <3>3, BuildType DEF File
    <3> HIDE DEF new
    <3> QED
      BY <3>1, <3>4 DEF ExportInv, TypeOK
  <2> QED
    BY <2>1, <2>2
<1>3. TypeOK'
  BY <1>1, <1>2, MetricFacts, NoBuildFacts DEF ExportInv, TypeOK
<1>4. SinceHolds' /\ ExportIsBracketed'
  BY <1>1, NoBuildFacts DEF SinceHolds, Building, ExportIsBracketed
<1> QED
  BY <1>3, <1>4 DEF ExportInv

\* What the exporter writes and a sample are files; a conforming one is whole.
LEMMA OfferedFiles ==
  ASSUME ExportInv
  PROVE  \A file \in Offered :
           file \in File /\ (file.conforms => Len(file.lists) = Len(Metric))
  BY ExchangeAssumption DEF Offered, ExportInv, TypeOK

\* The rows of a whole file are rows of the database.
LEMMA StoredRowType ==
  ASSUME NEW file \in File, Len(file.lists) = Len(Metric), NEW row \in RowsOf(file)
  PROVE  row \in [key : Key, metric : {Metric[n] : n \in DOMAIN Metric},
                  cell : Event, count : Nat]
<1>1. PICK n \in 1 .. 5 : row \in RowsOfList(file, n)
  BY MetricFacts DEF RowsOf
<1>2. file.lists \in Seq(Seq(Row)) /\ file.key \in Key
  BY DEF File
<1>3. file.lists[n] \in Seq(Row)
  BY <1>2, MetricFacts
<1>4. PICK k \in DOMAIN file.lists[n] :
        row = [key |-> file.key, metric |-> Metric[n], cell |-> file.lists[n][k].cell,
               count |-> file.lists[n][k].count]
  BY <1>1 DEF RowsOfList
<1>5. file.lists[n][k] \in Row
  BY <1>3
<1>6. Metric[n] \in {Metric[m] : m \in DOMAIN Metric}
  BY MetricFacts
<1> QED
  BY <1>2, <1>4, <1>5, <1>6 DEF Row

LEMMA ImportKeepsExport ==
  ASSUME IInv, ExportInv, NEW i \in Importer, Import(i) PROVE ExportInv'
<1> DEFINE Record == [stage : Stage, file : File \cup {<<>>}, done : 0 .. 5, answer : Answer]
           Stored == [key : Key, metric : {Metric[n] : n \in DOMAIN Metric},
                      cell : Event, count : Nat]
<1>1. /\ import \in [Importer -> Record] /\ imports \in 0 .. MaxImports
      /\ exports \subseteq [key : Key, data_class : DataClass] /\ rows \subseteq Stored
  BY MetricFacts DEF ExportInv, TypeOK
<1>2. ASSUME UNCHANGED <<gateway, exporter>>, imports' \in 0 .. MaxImports,
             import' \in [Importer -> Record],
             exports' \subseteq [key : Key, data_class : DataClass], rows' \subseteq Stored
      PROVE  ExportInv'
  BY <1>2, ImportersType, MetricFacts
<1>3. CASE \E file \in Offered : Load(i, file)
  <2>1. PICK file \in Offered : Load(i, file)
    BY <1>3
  <2>2. /\ file \in File /\ imports < MaxImports /\ imports' = imports + 1
        /\ import' = [import EXCEPT ![i] = [stage |-> "loaded", file |-> file, done |-> 0,
                                            answer |-> "none"]]
        /\ UNCHANGED <<gateway, exporter, exports, rows>>
    BY <2>1, OfferedFiles DEF Load, database
  <2>3. [stage |-> "loaded", file |-> file, done |-> 0, answer |-> "none"] \in Record
    BY <2>2 DEF Stage, Answer
  <2>4. imports' \in 0 .. MaxImports
    BY <1>1, <2>2, ExchangeAssumption
  <2> QED
    BY <1>1, <1>2, <2>2, <2>3, <2>4
<1>4. CASE Reject(i) \/ IgnoreDuplicate(i) \/ Busy(i) \/ RollBack(i)
           \/ PrintResult(i) \/ Crash(i)
  <2>1. PICK answer \in Answer : End(i, answer)
    BY <1>4 DEF Reject, IgnoreDuplicate, Busy, RollBack, PrintResult, Crash, Answer
  <2>2. UNCHANGED <<gateway, exporter, imports, exports, rows>>
    BY <1>4 DEF Reject, IgnoreDuplicate, Busy, RollBack, PrintResult, Crash, database
  <2>3. import' \in [Importer -> Record]
    BY <1>1, <2>1 DEF End, Stage
  <2> QED
    BY <1>1, <1>2, <2>2, <2>3
<1>5. CASE InsertExport(i) \/ InsertList(i)
  <2>1. UNCHANGED <<gateway, exporter, imports, exports, rows>>
    BY <1>5 DEF InsertExport, InsertList, database
  <2>2. CASE InsertExport(i)
    <3>1. import' \in [Importer -> Record]
      BY <1>1, <2>2 DEF InsertExport, Stage
    <3> QED
      BY <1>1, <1>2, <2>1, <3>1
  <2>3. CASE InsertList(i)
    <3>1. import[i].done \in 0 .. 5 /\ import[i].done < 5
      BY <1>1, <2>3, MetricFacts DEF InsertList, Inserting
    <3>2. import[i].done + 1 \in 0 .. 5
      BY <3>1
    <3>3. import' \in [Importer -> Record]
      BY <1>1, <2>3, <3>2 DEF InsertList
    <3> QED
      BY <1>1, <1>2, <2>1, <3>3
  <2> QED
    BY <1>5, <2>2, <2>3
<1>6. CASE Commit(i)
  <2> DEFINE file == FileOf(i)
  <2>1. file \in File /\ Len(file.lists) = Len(Metric)
    BY <1>6, CommitStores, OfferedFiles
  <2>2. RowsOf(file) \subseteq Stored
    BY <2>1, StoredRowType
  <2>3. [key |-> file.key, data_class |-> file.data_class]
          \in [key : Key, data_class : DataClass]
    BY <2>1 DEF File
  <2>4. /\ UNCHANGED <<gateway, exporter, imports>>
        /\ exports' = exports \cup {[key |-> file.key, data_class |-> file.data_class]}
        /\ rows' = rows \cup RowsOf(file)
    BY <1>6 DEF Commit
  <2>5. import' \in [Importer -> Record]
    BY <1>1, <1>6 DEF Commit, Stage
  <2> HIDE DEF file, Record, Stored
  <2> QED
    BY <1>1, <1>2, <2>2, <2>3, <2>4, <2>5
<1> QED
  BY <1>3, <1>4, <1>5, <1>6 DEF Import, Offered

LEMMA StepExport == IInv /\ ExportInv /\ [Next]_vars => ExportInv'
<1> SUFFICES ASSUME IInv, ExportInv, [Next]_vars PROVE ExportInv'
  OBVIOUS
<1>1. CASE \E date \in Date, event \in Counted : Count(date, event)
  BY <1>1, CountKeepsExport
<1>2. CASE \E date \in Date, revision \in Revision, data_class \in DataClass :
             StartExport(date, revision, data_class)
  BY <1>2, StartKeepsExport
<1>3. CASE SelectTable
  BY <1>3, SelectKeepsExport
<1>4. CASE WriteFile \/ ExportFails
  BY <1>4, WriteKeepsExport
<1>5. CASE \E i \in Importer : Import(i)
  BY <1>5, ImportKeepsExport
<1>6. CASE UNCHANGED vars
  BY <1>6, ImportersType DEF vars, gateway, exporter, ExportInv, TypeOK
<1> QED
  BY <1>1, <1>2, <1>3, <1>4, <1>5, <1>6 DEF Next

LEMMA ExportInvariant == Spec => []ExportInv
  BY ExportInit, StepExport, InductiveInvariant, PTL DEF Spec

\* Every file the exporter writes is whole, every importer's file conforms
\* before it writes, and the database holds rows of the five tables only.
THEOREM ExchangeTypeCorrect == Spec => []TypeOK
<1>1. ExportInv => TypeOK
  BY DEF ExportInv
<1> QED
  BY <1>1, ExportInvariant, PTL

\* An export lies between what was counted when it began and what is counted
\* now, table by table, however the gateway counts in between.
THEOREM ExportIsBracketedHolds == Spec => []ExportIsBracketed
<1>1. ExportInv => ExportIsBracketed
  BY DEF ExportInv
<1> QED
  BY <1>1, ExportInvariant, PTL
=============================================================================
