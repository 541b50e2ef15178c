------------------------- MODULE AggregateExchange -------------------------
(***************************************************************************)
(* The aggregates of the Türkiye gateway, from its database to Sydney's.   *)
(*                                                                         *)
(* The reference exporter builds a file from the tables of the gateway     *)
(* while the gateway goes on counting: five SELECTs, each of what is there *)
(* when it runs.  Importers read files, any of them any number of times,   *)
(* side by side and into one SQLite database, each in one transaction that *)
(* a repeated row, a busy database or a crash may end at any statement.    *)
(*                                                                         *)
(* The rows of a table with one date are taken together, by the event they *)
(* count; event_counts has one row for every event.                        *)
(***************************************************************************)
EXTENDS SequencesExt

CONSTANTS Date,        \* bucket_date
          Revision,    \* what the operator passes as --revision
          DataClass,   \* what the operator passes as --data-class
          Sample,      \* files that no exporter wrote
          Importer,    \* concurrent runs of import_to_sqlite
          Optional,    \* tables the gateway's database may lack
          Counted,     \* bound: events the gateway counts
          MaxCount,    \* bound: how many of each, on a date
          MaxBuilds,   \* bound: files the exporter builds
          MaxImports   \* bound: files read by importers

\* EVENT_NAMES_V2
Event == {"run_checkpoint", "run_ended", "run_started",
          "upgrade_options_shown", "upgrade_selected"}

\* The order in which the exporter selects and the importer inserts.
Metric == <<"event_counts", "upgrade_option_counts", "upgrade_selected_counts",
            "run_checkpoint_counts", "run_end_counts">>

\* The events a table counts.
Cells(metric) ==
  CASE metric = "event_counts" -> Event
    [] metric = "upgrade_option_counts" -> {"upgrade_options_shown"}
    [] metric = "upgrade_selected_counts" -> {"upgrade_selected"}
    [] metric = "run_checkpoint_counts" -> {"run_checkpoint"}
    [] metric = "run_end_counts" -> {"run_ended"}

Key == [bucket_date : Date, revision : Revision]
Row == [cell : Event, count : Nat]

\* An export file: one list per table, unless validate_payload refuses it.
File == [key : Key, data_class : DataClass, lists : Seq(Seq(Row)), conforms : BOOLEAN]

\* The exporter looks for every table but the first before it selects from it.
ASSUME ExchangeAssumption ==
  /\ Optional \subseteq {Metric[n] : n \in 2 .. Len(Metric)}
  /\ Revision \subseteq Nat /\ Counted \subseteq Event
  /\ \A file \in Sample : file \in File /\ (file.conforms => Len(file.lists) = Len(Metric))
  /\ MaxCount \in Nat /\ MaxBuilds \in Nat /\ MaxImports \in Nat

VARIABLES
  counts,     \* date -> event -> what the gateway has counted
  tables,     \* the tables its database has
  build,      \* the export being built
  builds,     \* exports begun so far
  files,      \* exports written
  import,     \* importer -> the file it reads and how far it is
  imports,    \* files read so far
  exports,    \* kc_exports: [key, data_class]
  rows        \* the other kc_ tables: [key, metric, cell, count]

vars == <<counts, tables, build, builds, files, import, imports, exports, rows>>

gateway == <<counts, tables>>
exporter == <<build, builds, files>>
importers == <<import, imports>>
database == <<exports, rows>>

-----------------------------------------------------------------------------
(* The gateway and the exporter.                                           *)

\* Not in this repository: an event is counted in event_counts and in the table
\* of its own.
Count(date, event) ==
  /\ counts[date][event] < MaxCount
  /\ counts' = [counts EXCEPT ![date][event] = @ + 1]
  /\ UNCHANGED <<tables, exporter, importers, database>>

NoBuild == [lists |-> <<>>, key |-> <<>>, data_class |-> "", since |-> <<>>]
Building == build # NoBuild

\* since is kept for the properties alone.
StartExport(date, revision, data_class) ==
  /\ ~Building
  /\ builds < MaxBuilds
  /\ builds' = builds + 1
  /\ build' = [lists |-> <<>>, key |-> [bucket_date |-> date, revision |-> revision],
               data_class |-> data_class, since |-> counts[date]]
  /\ UNCHANGED <<gateway, files, importers, database>>

\* The rows of a table for one date; none when there is no such table.  They
\* are ordered, which no reader of the file makes use of.
Selected(metric, date) ==
  LET counted == {event \in Cells(metric) : metric \in tables /\ counts[date][event] > 0}
  IN SetToSeq({[cell |-> event, count |-> counts[date][event]] : event \in counted})

\* Mutant: a SELECT without its WHERE bucket_date = ?.
SelectTableOfAnyDate ==
  /\ Building /\ Len(build.lists) < Len(Metric)
  /\ \E date \in Date :
       build' = [build EXCEPT !.lists = Append(@, Selected(Metric[Len(@) + 1], date))]
  /\ UNCHANGED <<gateway, builds, files, importers, database>>

\* One of the five SELECTs; each sees what has been counted by then.
SelectTable ==
  /\ Building /\ Len(build.lists) < Len(Metric)
  /\ build' = [build EXCEPT !.lists =
                 Append(@, Selected(Metric[Len(@) + 1], build.key.bucket_date))]
  /\ UNCHANGED <<gateway, builds, files, importers, database>>

\* Mutant: the payload is written as it grows.
WriteFileEarly ==
  /\ Building
  /\ files' = files \cup {[key |-> build.key, data_class |-> build.data_class,
                           lists |-> build.lists, conforms |-> build.key.revision >= 1]}
  /\ build' = NoBuild
  /\ UNCHANGED <<gateway, builds, importers, database>>

\* The file is written only once the payload is complete.
WriteFile ==
  /\ Building /\ Len(build.lists) = Len(Metric)
  /\ files' = files \cup {[key |-> build.key, data_class |-> build.data_class,
                           lists |-> build.lists, conforms |-> build.key.revision >= 1]}
  /\ build' = NoBuild
  /\ UNCHANGED <<gateway, builds, importers, database>>

\* No event_counts table, or the end of the process.
ExportFails ==
  /\ Building
  /\ build' = NoBuild
  /\ UNCHANGED <<gateway, builds, files, importers, database>>

-----------------------------------------------------------------------------
(* An importer.                                                            *)

Stage == {"idle", "loaded", "writing", "committed", "ended"}
Answer == {"none", "IMPORTED", "DUPLICATE_IGNORED", "ValueError", "IntegrityError",
           "OperationalError"}

At(i, stage) == import[i].stage = stage
FileOf(i) == import[i].file

\* The process ends; SQLite forgets what its transaction has not committed.
End(i, answer) ==
  import' = [import EXCEPT ![i].stage = "ended", ![i].answer = answer]

Load(i, file) ==
  /\ At(i, "idle") \/ At(i, "ended")
  /\ imports < MaxImports
  /\ imports' = imports + 1
  /\ import' = [import EXCEPT ![i] = [stage |-> "loaded", file |-> file, done |-> 0,
                                      answer |-> "none"]]
  /\ UNCHANGED <<gateway, exporter, database>>

\* validate_payload, before the database is opened.
Reject(i) ==
  /\ At(i, "loaded") /\ ~FileOf(i).conforms
  /\ End(i, "ValueError")
  /\ UNCHANGED <<gateway, exporter, imports, database>>

Loaded(i) == At(i, "loaded") /\ FileOf(i).conforms

\* The first write of a transaction takes the lock of the database.
Locked == \E j \in Importer : At(j, "writing")
Known(key) == \E export \in exports : export.key = key

\* The tables are there or are created; the row of kc_exports is new.
InsertExport(i) ==
  /\ Loaded(i) /\ ~Locked /\ ~Known(FileOf(i).key)
  /\ import' = [import EXCEPT ![i].stage = "writing"]
  /\ UNCHANGED <<gateway, exporter, imports, database>>

\* Mutant: any sqlite3.Error is taken for a row that is already there.
IgnoreDuplicateOrBusy(i) ==
  /\ Loaded(i) /\ (Locked \/ Known(FileOf(i).key))
  /\ End(i, "DUPLICATE_IGNORED")
  /\ UNCHANGED <<gateway, exporter, imports, database>>

\* IntegrityError on the primary key, whatever the rest of the file says.
IgnoreDuplicate(i) ==
  /\ Loaded(i) /\ ~Locked /\ Known(FileOf(i).key)
  /\ End(i, "DUPLICATE_IGNORED")
  /\ UNCHANGED <<gateway, exporter, imports, database>>

\* Another importer has held the lock for longer than sqlite3 waits.
Busy(i) ==
  /\ Loaded(i) /\ Locked
  /\ End(i, "OperationalError")
  /\ UNCHANGED <<gateway, exporter, imports, database>>

RowsOfList(file, n) ==
  {[key |-> file.key, metric |-> Metric[n], cell |-> file.lists[n][k].cell,
    count |-> file.lists[n][k].count] : k \in DOMAIN file.lists[n]}

\* Two rows of a list, or one of them and one in the table, have one primary key.
Collides(file, n) ==
  \/ \E j, k \in DOMAIN file.lists[n] :
       j # k /\ file.lists[n][j].cell = file.lists[n][k].cell
  \/ \E new \in RowsOfList(file, n), old \in rows :
       new.key = old.key /\ new.metric = old.metric /\ new.cell = old.cell

NextList(i) == import[i].done + 1
Inserting(i) == At(i, "writing") /\ import[i].done < Len(Metric)

\* Mutant: the connection is in autocommit mode.
InsertListAtOnce(i) ==
  /\ Inserting(i) /\ ~Collides(FileOf(i), NextList(i))
  /\ import' = [import EXCEPT ![i].done = @ + 1]
  /\ rows' = rows \cup RowsOfList(FileOf(i), NextList(i))
  /\ UNCHANGED <<gateway, exporter, imports, exports>>

\* One executemany, seen by nobody else before the commit.
InsertList(i) ==
  /\ Inserting(i) /\ ~Collides(FileOf(i), NextList(i))
  /\ import' = [import EXCEPT ![i].done = @ + 1]
  /\ UNCHANGED <<gateway, exporter, imports, database>>

\* Only the first INSERT is in a try: the exception leaves the with statement.
RollBack(i) ==
  /\ Inserting(i) /\ Collides(FileOf(i), NextList(i))
  /\ End(i, "IntegrityError")
  /\ UNCHANGED <<gateway, exporter, imports, database>>

RowsOf(file) == UNION {RowsOfList(file, n) : n \in DOMAIN Metric}

Commit(i) ==
  /\ At(i, "writing") /\ import[i].done = Len(Metric)
  /\ exports' = exports \cup {[key |-> FileOf(i).key, data_class |-> FileOf(i).data_class]}
  /\ rows' = rows \cup RowsOf(FileOf(i))
  /\ import' = [import EXCEPT ![i].stage = "committed"]
  /\ UNCHANGED <<gateway, exporter, imports>>

PrintResult(i) ==
  /\ At(i, "committed")
  /\ End(i, "IMPORTED")
  /\ UNCHANGED <<gateway, exporter, imports, database>>

\* With or without its transaction committed.
Crash(i) ==
  /\ At(i, "loaded") \/ At(i, "writing") \/ At(i, "committed")
  /\ End(i, "none")
  /\ UNCHANGED <<gateway, exporter, imports, database>>

Init ==
  /\ counts = [date \in Date |-> [event \in Event |-> 0]]
  /\ \E missing \in SUBSET Optional :
       tables = {Metric[n] : n \in DOMAIN Metric} \ missing
  /\ build = NoBuild
  /\ builds = 0
  /\ files = {}
  /\ import = [i \in Importer |-> [stage |-> "idle", file |-> <<>>, done |-> 0,
                                   answer |-> "none"]]
  /\ imports = 0
  /\ exports = {}
  /\ rows = {}

Import(i) ==
  \/ \E file \in files \cup Sample : Load(i, file)
  \/ Reject(i) \/ InsertExport(i) \/ IgnoreDuplicate(i) \/ Busy(i)
  \/ InsertList(i) \/ RollBack(i) \/ Commit(i) \/ PrintResult(i) \/ Crash(i)

Next ==
  \/ \E date \in Date, event \in Counted : Count(date, event)
  \/ \E date \in Date, revision \in Revision, data_class \in DataClass :
       StartExport(date, revision, data_class)
  \/ SelectTable \/ WriteFile \/ ExportFails
  \/ \E i \in Importer : Import(i)

Spec == Init /\ [][Next]_vars

-----------------------------------------------------------------------------
(* What must hold.                                                         *)

TypeOK ==
  /\ counts \in [Date -> [Event -> 0 .. MaxCount]]
  /\ tables \subseteq {Metric[n] : n \in DOMAIN Metric}
  /\ \/ build = NoBuild
     \/ build \in [lists : Seq(Seq(Row)), key : Key, data_class : DataClass,
                   since : [Event -> 0 .. MaxCount]]
  /\ Len(build.lists) <= Len(Metric)
  /\ builds \in 0 .. MaxBuilds /\ imports \in 0 .. MaxImports
  /\ files \subseteq File
  /\ \A file \in files : Len(file.lists) = Len(Metric)
  /\ import \in [Importer -> [stage : Stage, file : File \cup {<<>>},
                              done : 0 .. Len(Metric), answer : Answer]]
  /\ exports \subseteq [key : Key, data_class : DataClass]
  /\ rows \subseteq [key : Key, metric : {Metric[n] : n \in DOMAIN Metric},
                     cell : Event, count : Nat]

Counts(list, event) ==
  IF \E row \in {list[k] : k \in DOMAIN list} : row.cell = event
  THEN (CHOOSE row \in {list[k] : k \in DOMAIN list} : row.cell = event).count
  ELSE 0

\* However the gateway counts between the SELECTs of a build, each of them holds
\* for its date nothing that was not counted, and at least what had been counted
\* when the build began.
ExportIsBracketed ==
  \A n \in DOMAIN build.lists :
    Metric[n] \in tables =>
      \A event \in Cells(Metric[n]) :
        /\ build.since[event] <= Counts(build.lists[n], event)
        /\ Counts(build.lists[n], event) <= counts[build.key.bucket_date][event]

\* An importer tells the truth: after IMPORTED all the rows of its file and no
\* other are there under its key, after DUPLICATE_IGNORED there is an export of
\* that key, and no later failure of any importer takes them away.
AnswersAreTrue ==
  \A i \in Importer :
    /\ import[i].answer = "IMPORTED" =>
         {row \in rows : row.key = FileOf(i).key} = RowsOf(FileOf(i))
    /\ import[i].answer = "DUPLICATE_IGNORED" => Known(FileOf(i).key)

\* Nor are rows left without their export.
Entry(file) == [key |-> file.key, data_class |-> file.data_class, rows |-> RowsOf(file)]

Ledger == INSTANCE AggregateLedger WITH
  offered <- {Entry(file) : file \in {f \in files \cup Sample : f.conforms}},
  ledger <- {[key |-> export.key, data_class |-> export.data_class,
              rows |-> {row \in rows : row.key = export.key}] : export \in exports}
            \cup {[key |-> row.key] : row \in {r \in rows : ~Known(r.key)}}

\* Crashes, collisions, busy databases and importers side by side or all over
\* again leave whole exports only, of one file each, the first of its key for
\* good, and no row without its export.
ImplementsLedger == Ledger!Spec
=============================================================================
