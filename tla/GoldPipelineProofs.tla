------------------------- MODULE GoldPipelineProofs -------------------------
(***************************************************************************)
(* The gate, the load and the report, for every set of published tables,   *)
(* every catalog and every number of DAG runs and command lines.           *)
(***************************************************************************)
EXTENDS GoldPipeline, SequenceTheorems, TLAPS

-----------------------------------------------------------------------------
(* Data types of the state.                                                *)

\* A program's record, its sections taken from S.
Job(S) ==
  [stage : Stage, date : ReportDate, enable_bedrock_report : BOOLEAN,
   statements : 0 .. 22, sections : Seq(S)]

\* A Gold table as the DELETEs and INSERTs of the load leave it.
Clean(rows) == rows = <<>> \/ \E r : rows = <<r>>

\* What a program may hold at each stage.
StageInv(w) ==
  /\ job[w].stage = "idle" => job[w] = Idle
  /\ job[w].stage \in {"refresh", "quality"} => job[w].statements = 0
  /\ job[w].stage = "load" => job[w].statements < 22
  /\ w = "dag" /\ job[w].stage \in {"query", "reconcile", "report", "put"} =>
       job[w].statements = 22
  /\ job[w].stage \notin {"report", "put"} => job[w].sections = <<>>
  /\ Len(job[w].sections) <= 6
  /\ job[w].stage = "put" => Len(job[w].sections) = 6

\* A program that may still call Bedrock once.
MayCall(w) ==
  IF job[w].stage \in {"refresh", "quality", "load", "query", "reconcile", "report"}
  THEN 1 ELSE 0

JobInv ==
  /\ \E S : job \in [Program -> Job(S)]
  /\ \A w \in Program : StageInv(w)
  /\ job["cli"].stage \in {"idle", "report"}

\* Everything of the state but the rows in the Gold tables.
TypeInv ==
  /\ JobInv
  /\ snapshot \in SilverTable \cup {[d \in {} |-> {}]}
  /\ answers = [e \in DOMAIN answers |-> answers[e]]
  /\ DOMAIN answers \subseteq {"snowflake", "athena"}
  /\ DOMAIN reports = ReportDate
  /\ reports = [d \in DOMAIN reports |-> reports[d]]
  /\ blocked \in BOOLEAN
  /\ started \in [Program -> Nat]
  /\ calls \in Nat
  /\ calls + MayCall("dag") + MayCall("cli") <= started["dag"] + started["cli"]

\* The eleven datasets are different.
LEMMA DatasetFacts ==
  /\ Len(Dataset) = 11 /\ DOMAIN Dataset = 1 .. 11
  /\ Range(Dataset) = {Dataset[i] : i \in 1 .. 11}
  /\ \A i, j \in 1 .. 11 : Dataset[i] = Dataset[j] => i = j
<1>1. Len(Dataset) = 11 /\ DOMAIN Dataset = 1 .. 11
  BY DEF Dataset
<1>2. Range(Dataset) = {Dataset[i] : i \in 1 .. 11}
  BY <1>1 DEF Range
<1>3. \A i, j \in 1 .. 11 : Dataset[i] = Dataset[j] => i = j
  BY DEF Dataset
<1> QED BY <1>1, <1>2, <1>3

\* The six sections are datasets of the load.
LEMMA SectionFacts ==
  /\ Len(Section) = 6
  /\ \A k \in 1 .. 6 : Section[k] \in Range(Dataset)
  /\ Section[1] = "run_quality" /\ Section[6] = "item_performance_summary"
  /\ \A k \in 2 .. 6 : Section[k] # "run_quality"
<1>1. Len(Section) = 6 /\ Section[1] = "run_quality"
      /\ Section[6] = "item_performance_summary"
  BY DEF Section
<1>2. \A k \in 1 .. 6 : \E i \in 1 .. 11 : Section[k] = Dataset[i]
  <2>1. /\ Section[1] = Dataset[2] /\ Section[2] = Dataset[3]
        /\ Section[3] = Dataset[4] /\ Section[4] = Dataset[11]
        /\ Section[5] = Dataset[5] /\ Section[6] = Dataset[7]
    BY DEF Section, Dataset
  <2> QED BY <2>1
<1>3. \A k \in 2 .. 6 : Section[k] # "run_quality"
  BY DEF Section
<1> QED BY <1>1, <1>2, <1>3, DatasetFacts

\* Dividing by two.
LEMMA Halves ==
  ASSUME NEW n \in Nat
  PROVE  /\ n \div 2 \in Nat /\ n % 2 \in {0, 1} /\ n = 2 * (n \div 2) + (n % 2)
         /\ n < 22 => n \div 2 + 1 \in 1 .. 11
         /\ n % 2 = 0 => (n + 1) \div 2 = n \div 2 /\ (n + 1) % 2 = 1
         /\ n % 2 = 1 => (n + 1) \div 2 = n \div 2 + 1 /\ (n + 1) % 2 = 0
BY Z3

\* Idle is a program's record.
LEMMA IdleIsTyped == ASSUME NEW S PROVE Idle \in Job(S)
<1>1. (CHOOSE d \in ReportDate : TRUE) \in ReportDate
  BY GoldAssumption
<1>2. <<>> \in Seq(S)
  BY EmptySeq
<1> QED BY <1>1, <1>2 DEF Idle, Job, Stage

\* Replacing one program's record keeps the others.
LEMMA OneJobChanges ==
  ASSUME NEW S, job \in [Program -> Job(S)], NEW w \in Program, NEW r \in Job(S),
         job' = [job EXCEPT ![w] = r]
  PROVE  /\ job' \in [Program -> Job(S)] /\ job'[w] = r
         /\ \A v \in Program \ {w} : job'[v] = job[v]
OBVIOUS

\* Moving to another stage changes nothing else of the record.
LEMMA GotoFacts ==
  ASSUME NEW S, job \in [Program -> Job(S)], NEW w \in Program, NEW stage \in Stage,
         Goto(w, stage)
  PROVE  /\ job' \in [Program -> Job(S)]
         /\ job'[w].stage = stage /\ job'[w].date = job[w].date
         /\ job'[w].statements = job[w].statements
         /\ job'[w].sections = job[w].sections
         /\ job'[w].enable_bedrock_report = job[w].enable_bedrock_report
         /\ \A v \in Program \ {w} : job'[v] = job[v]
BY DEF Goto, Job

\* A statement of the load counts one up, and the last one ends the load.
LEMMA StatementFacts ==
  ASSUME NEW S, job \in [Program -> Job(S)], StatementDone, At("dag", "load"),
         job["dag"].statements < 22
  PROVE  /\ job' \in [Program -> Job(S)]
         /\ job'["dag"].statements = job["dag"].statements + 1
         /\ job'["dag"].stage = IF job["dag"].statements = 21 THEN "query" ELSE "load"
         /\ job'["dag"].sections = job["dag"].sections
         /\ job'["dag"].date = job["dag"].date
         /\ job'["cli"] = job["cli"]
<1>1. job["dag"].statements \in Nat /\ "dag" \in Program /\ "cli" \in Program
  BY DEF Program, Job
<1>2. job["dag"].statements + 1 \in 0 .. 22
  BY <1>1
<1>3. 2 * Len(Dataset) = 22
  BY DatasetFacts
<1>4. job["dag"].statements + 1 = 22 <=> job["dag"].statements = 21
  BY <1>1
<1> DEFINE counted == job["dag"].statements + 1
           stage == IF job["dag"].statements = 21 THEN "query" ELSE "load"
           r == [job["dag"] EXCEPT !.statements = counted, !.stage = stage]
<1>5. job["dag"] \in Job(S)
  BY <1>1
<1>6. stage \in Stage
  BY DEF Stage
<1>7. /\ r \in Job(S) /\ r.statements = counted /\ r.stage = stage
      /\ r.sections = job["dag"].sections /\ r.date = job["dag"].date
  <2> HIDE DEF counted, stage
  <2> QED BY <1>2, <1>5, <1>6 DEF Job, counted
<1>8. job' = [job EXCEPT !["dag"] = r]
  BY <1>3, <1>4 DEF StatementDone
<1>9. job' \in [Program -> Job(S)] /\ job'["dag"] = r /\ job'["cli"] = job["cli"]
  <2> HIDE DEF r
  <2> QED BY <1>1, <1>7, <1>8
<1> QED BY <1>7, <1>9

\* One more section keeps a sequence of sections.
LEMMA ReadFacts ==
  ASSUME NEW S, job \in [Program -> Job(S)], NEW w \in Program, NEW read,
         job' = [job EXCEPT ![w].sections = Append(@, read)]
  PROVE  /\ job' \in [Program -> Job(S \cup {read})]
         /\ job'[w].stage = job[w].stage /\ job'[w].date = job[w].date
         /\ job'[w].statements = job[w].statements
         /\ Len(job'[w].sections) = Len(job[w].sections) + 1
         /\ \A k \in 1 .. Len(job[w].sections) : job'[w].sections[k] = job[w].sections[k]
         /\ job'[w].sections[Len(job[w].sections) + 1] = read
         /\ \A v \in Program \ {w} : job'[v] = job[v]
<1> DEFINE T == S \cup {read}
<1>1. \A s \in Seq(S) : s \in Seq(T)
  BY SeqMonotonic
<1>2. \A v \in Program : job[v] \in Job(T)
  BY <1>1 DEF Job
<1>3. job[w].sections \in Seq(T) /\ read \in T
  BY <1>2 DEF Job
<1> HIDE DEF T
<1>4. /\ Append(job[w].sections, read) \in Seq(T)
      /\ Len(Append(job[w].sections, read)) = Len(job[w].sections) + 1
      /\ \A k \in 1 .. Len(job[w].sections) :
           Append(job[w].sections, read)[k] = job[w].sections[k]
      /\ Append(job[w].sections, read)[Len(job[w].sections) + 1] = read
  BY <1>3
<1>5. job \in [Program -> Job(T)]
  BY <1>2
<1>6. job' \in [Program -> Job(T)] /\ job'[w].sections = Append(job[w].sections, read)
      /\ job'[w].stage = job[w].stage /\ job'[w].date = job[w].date
      /\ job'[w].statements = job[w].statements
      /\ \A v \in Program \ {w} : job'[v] = job[v]
  BY <1>4, <1>5 DEF Job
<1> QED BY <1>4, <1>6 DEF T

\* The typed records of a state of the invariant.
LEMMA JobIsTyped ==
  ASSUME JobInv
  PROVE  \E S : /\ job \in [Program -> Job(S)]
                /\ \A w \in Program : /\ job[w].stage \in Stage /\ Idle \in Job(S)
                                      /\ job[w].statements \in Nat
                /\ "dag" \in Program /\ "cli" \in Program
<1>1. PICK S : job \in [Program -> Job(S)]
  BY DEF JobInv
<1>2. \A w \in Program : job[w] \in Job(S)
  BY <1>1
<1>3. \A w \in Program : job[w].stage \in Stage /\ job[w].statements \in 0 .. 22
  BY <1>2 DEF Job
<1>4. \A w \in Program : job[w].statements \in Nat
  BY <1>3
<1>5. Idle \in Job(S)
  BY IdleIsTyped
<1>6. "dag" \in Program /\ "cli" \in Program
  BY DEF Program
<1> QED BY <1>1, <1>3, <1>4, <1>5, <1>6

\* What the invariant says of Idle.
LEMMA IdleFacts ==
  /\ Idle.stage = "idle" /\ Idle.statements = 0 /\ Idle.sections = <<>>
  /\ Idle.date \in ReportDate /\ Len(Idle.sections) = 0
<1>1. (CHOOSE d \in ReportDate : TRUE) \in ReportDate
  BY GoldAssumption
<1> QED BY <1>1 DEF Idle

LEMMA InitTypes == Init => TypeInv
<1> SUFFICES ASSUME Init PROVE TypeInv
  OBVIOUS
<1>1. job = [w \in Program |-> Idle] /\ Idle \in Job({})
  BY IdleIsTyped DEF Init
<1>2. \A w \in Program : job[w] = Idle /\ StageInv(w)
  BY <1>1, IdleFacts DEF StageInv
<1>3. JobInv
  BY <1>1, <1>2, IdleFacts DEF JobInv, Program
<1>4. MayCall("dag") = 0 /\ MayCall("cli") = 0
  BY <1>2, IdleFacts DEF MayCall, Program
<1>5. started \in [Program -> Nat] /\ started["dag"] = 0 /\ started["cli"] = 0 /\ calls = 0
  BY DEF Init, Program
<1>6. /\ answers = [e \in DOMAIN answers |-> answers[e]]
      /\ DOMAIN answers \subseteq {"snowflake", "athena"}
      /\ DOMAIN reports = ReportDate /\ reports = [d \in DOMAIN reports |-> reports[d]]
      /\ snapshot \in SilverTable \cup {[d \in {} |-> {}]} /\ blocked \in BOOLEAN
  BY DEF Init
<1>7. calls + MayCall("dag") + MayCall("cli") <= started["dag"] + started["cli"]
  BY <1>4, <1>5
<1> QED BY <1>3, <1>5, <1>6, <1>7 DEF TypeInv

\* A step that leaves the programs alone leaves what is said of them.
LEMMA JobUnchanged ==
  ASSUME JobInv, UNCHANGED job
  PROVE  JobInv' /\ MayCall("dag")' = MayCall("dag") /\ MayCall("cli")' = MayCall("cli")
BY DEF JobInv, StageInv, MayCall

\* A program that becomes idle.
LEMMA BecomesIdle ==
  ASSUME JobInv, NEW w \in Program, job' = [job EXCEPT ![w] = Idle]
  PROVE  /\ JobInv' /\ MayCall(w)' = 0
         /\ \A v \in Program \ {w} : MayCall(v)' = MayCall(v)
<1>1. PICK S : job \in [Program -> Job(S)] /\ Idle \in Job(S)
  BY JobIsTyped DEF Program
<1>2. /\ job' \in [Program -> Job(S)] /\ job'[w] = Idle
      /\ \A v \in Program \ {w} : job'[v] = job[v]
  BY <1>1
<1>3. \A v \in Program : StageInv(v)'
  BY <1>2, IdleFacts DEF JobInv, StageInv
<1> QED BY <1>2, <1>3, IdleFacts DEF JobInv, MayCall, Program

\* A program that goes on with what it holds; the rest is said of its stage.
LEMMA GoesOn ==
  ASSUME JobInv, NEW w \in Program,
         \E S : job' \in [Program -> Job(S)],
         \A v \in Program \ {w} : job'[v] = job[v],
         StageInv(w)', w = "cli" => job'[w].stage \in {"idle", "report"}
  PROVE  JobInv' /\ \A v \in Program \ {w} : MayCall(v)' = MayCall(v)
<1>1. \A v \in Program : StageInv(v)'
  BY DEF JobInv, StageInv
<1> QED BY <1>1 DEF JobInv, MayCall, Program

LEMMA StepTypes == TypeInv /\ [Next]_vars => TypeInv'
<1> SUFFICES ASSUME TypeInv, [Next]_vars PROVE TypeInv'
  OBVIOUS
<1> USE DEF TypeInv
<1>p. "dag" \in Program /\ "cli" \in Program
  BY DEF Program
<1>s. PICK S : /\ job \in [Program -> Job(S)] /\ Idle \in Job(S)
               /\ \A w \in Program : job[w].statements \in Nat
  BY JobIsTyped, <1>p
<1>k. calls + MayCall("dag") + MayCall("cli") <= started["dag"] + started["cli"]
  OBVIOUS
<1>m. \A w \in Program : MayCall(w) \in {0, 1}
  BY DEF MayCall
<1>n. started["dag"] \in Nat /\ started["cli"] \in Nat /\ calls \in Nat
  BY <1>p
<1>1. ASSUME NEW date \in ReportDate, NEW enabled \in BOOLEAN, StartDag(date, enabled)
      PROVE  TypeInv'
  <2> DEFINE r == [Idle EXCEPT !.stage = "refresh", !.date = date,
                               !.enable_bedrock_report = enabled]
  <2>1. r \in Job(S) /\ r.stage = "refresh" /\ r.statements = 0 /\ r.sections = <<>>
    BY <1>s, IdleFacts DEF Job, Stage, Idle
  <2>2. job' = [job EXCEPT !["dag"] = r]
    BY <1>1 DEF StartDag
  <2> HIDE DEF r
  <2>3. job' \in [Program -> Job(S)] /\ job'["dag"] = r
        /\ \A v \in Program \ {"dag"} : job'[v] = job[v]
    BY <1>s, <1>p, <2>1, <2>2
  <2>4. StageInv("dag")'
    BY <2>1, <2>3 DEF StageInv
  <2>5. JobInv' /\ MayCall("cli")' = MayCall("cli")
    BY <1>p, <2>3, <2>4, GoesOn
  <2>6. MayCall("dag") = 0 /\ MayCall("dag")' \in {0, 1}
    BY <1>1 DEF StartDag, At, MayCall
  <2>7. /\ started' \in [Program -> Nat] /\ started'["cli"] = started["cli"]
        /\ started'["dag"] = started["dag"] + 1
    BY <1>1, <1>p, <1>n DEF StartDag
  <2>8. /\ answers' = [e \in DOMAIN answers' |-> answers'[e]]
        /\ DOMAIN answers' = {}
    BY <1>1 DEF StartDag
  <2>9. UNCHANGED <<snapshot, reports, blocked, calls>>
    BY <1>1 DEF StartDag
  <2>10. calls' + MayCall("dag")' + MayCall("cli")' <= started'["dag"] + started'["cli"]
    <3>1. calls' = calls /\ MayCall("cli")' = MayCall("cli")
      BY <1>p, <2>5, <2>9
    <3>2. MayCall("cli") \in Nat /\ MayCall("dag")' \in {0, 1}
      BY <1>m, <1>p, <2>6
    <3> QED BY <1>k, <1>n, <2>6, <2>7, <3>1, <3>2
  <2> QED BY <2>5, <2>7, <2>8, <2>9, <2>10
<1>2. ASSUME NEW table \in SilverTable, RefreshSnowflake(table)
      PROVE  TypeInv'
  <2>1. /\ Goto("dag", "quality") /\ At("dag", "refresh") /\ snapshot' = table
        /\ UNCHANGED <<answers, reports, calls, blocked, started>>
    BY <1>2 DEF RefreshSnowflake
  <2>2. "quality" \in Stage
    BY DEF Stage
  <2>3. /\ job' \in [Program -> Job(S)] /\ job'["dag"].stage = "quality"
        /\ job'["dag"].statements = job["dag"].statements
        /\ job'["dag"].sections = job["dag"].sections
        /\ \A v \in Program \ {"dag"} : job'[v] = job[v]
    BY <1>s, <1>p, <2>1, <2>2, GotoFacts
  <2>4. StageInv("dag")'
    BY <1>p, <2>1, <2>3 DEF StageInv, JobInv, At
  <2>5. JobInv' /\ MayCall("cli")' = MayCall("cli")
    BY <1>p, <2>3, <2>4, GoesOn
  <2>6. MayCall("dag")' = MayCall("dag")
    BY <2>1, <2>3 DEF MayCall, At
  <2> QED BY <2>1, <2>5, <2>6
<1>3. CASE CheckGoldQuality
  <2>0. UNCHANGED <<snapshot, gold, answers, reports, calls, started>>
        /\ blocked' \in BOOLEAN
    BY <1>3 DEF CheckGoldQuality
  <2>1. CASE Goto("dag", "load")
    <3>1. /\ job' \in [Program -> Job(S)] /\ job'["dag"].stage = "load"
          /\ job'["dag"].statements = job["dag"].statements
          /\ job'["dag"].sections = job["dag"].sections
          /\ \A v \in Program \ {"dag"} : job'[v] = job[v]
      BY <1>s, <1>p, <2>1, GotoFacts DEF Stage
    <3>2. StageInv("dag")'
      BY <1>3, <1>p, <3>1 DEF StageInv, JobInv, CheckGoldQuality, At
    <3>3. JobInv' /\ MayCall("cli")' = MayCall("cli")
      BY <1>p, <3>1, <3>2, GoesOn
    <3>4. MayCall("dag")' = MayCall("dag")
      BY <1>3, <3>1 DEF MayCall, CheckGoldQuality, At
    <3> QED BY <2>0, <3>3, <3>4
  <2>2. CASE job' = [job EXCEPT !["dag"] = Idle]
    <3>1. JobInv' /\ MayCall("dag")' = 0 /\ MayCall("cli")' = MayCall("cli")
      BY <1>p, <2>2, BecomesIdle
    <3>2. calls + MayCall("dag")' + MayCall("cli")' <= started["dag"] + started["cli"]
      <4> HIDE DEF TypeInv
      <4> QED BY <1>k, <1>m, <1>n, <1>p, <3>1
    <3> QED BY <2>0, <3>1, <3>2
  <2> QED BY <1>3, <2>1, <2>2 DEF CheckGoldQuality
<1>4. CASE DeleteGold \/ InsertGold
  <2>1. /\ StatementDone /\ At("dag", "load")
        /\ UNCHANGED <<snapshot, answers, reports, calls, blocked, started>>
    BY <1>4 DEF DeleteGold, InsertGold
  <2>2. job["dag"].statements < 22 /\ job["dag"].statements \in Nat
    <3>1. job["dag"].statements < 22
      BY <1>p, <2>1 DEF JobInv, StageInv, At
    <3> QED BY <1>s, <1>p, <3>1
  <2>3. /\ job' \in [Program -> Job(S)]
        /\ job'["dag"].statements = job["dag"].statements + 1
        /\ job'["dag"].stage = IF job["dag"].statements = 21 THEN "query" ELSE "load"
        /\ job'["dag"].sections = job["dag"].sections /\ job'["cli"] = job["cli"]
    BY <1>s, <2>1, <2>2, StatementFacts
  <2>4. StageInv("dag")'
    BY <1>p, <2>1, <2>2, <2>3 DEF StageInv, JobInv, At
  <2>5. JobInv' /\ MayCall("cli")' = MayCall("cli")
    <3>1. \A v \in Program \ {"dag"} : job'[v] = job[v]
      BY <2>3 DEF Program
    <3> QED BY <1>p, <2>3, <2>4, <3>1, GoesOn
  <2>6. MayCall("dag")' = MayCall("dag")
    BY <2>1, <2>3 DEF MayCall, At
  <2> QED BY <2>1, <2>5, <2>6
<1>5. ASSUME NEW engine \in {"snowflake", "athena"}, QueryGold(engine)
      PROVE  TypeInv'
  <2>1. /\ answers' = [e \in DOMAIN answers' |-> answers'[e]]
        /\ DOMAIN answers' \subseteq {"snowflake", "athena"}
        /\ UNCHANGED <<snapshot, reports, calls, blocked, started>>
    BY <1>5 DEF QueryGold
  <2>2. CASE Goto("dag", "reconcile")
    <3>1. /\ job' \in [Program -> Job(S)] /\ job'["dag"].stage = "reconcile"
          /\ job'["dag"].statements = job["dag"].statements
          /\ job'["dag"].sections = job["dag"].sections
          /\ \A v \in Program \ {"dag"} : job'[v] = job[v]
      BY <1>s, <1>p, <2>2, GotoFacts DEF Stage
    <3>2. StageInv("dag")'
      BY <1>5, <1>p, <3>1 DEF StageInv, JobInv, QueryGold, At
    <3>3. JobInv' /\ MayCall("cli")' = MayCall("cli")
      BY <1>p, <3>1, <3>2, GoesOn
    <3>4. MayCall("dag")' = MayCall("dag")
      BY <1>5, <3>1 DEF MayCall, QueryGold, At
    <3> QED BY <2>1, <3>3, <3>4
  <2>3. CASE UNCHANGED job
    BY <2>1, <2>3, JobUnchanged
  <2> QED BY <1>5, <2>2, <2>3 DEF QueryGold
<1>6. CASE ReconcileGold
  <2>1. UNCHANGED <<snapshot, gold, answers, reports, calls, blocked, started>>
    BY <1>6 DEF ReconcileGold
  <2>2. CASE job["dag"].enable_bedrock_report
    <3>1. job' = [job EXCEPT !["dag"].stage = "report"]
      BY <1>6, <2>2 DEF ReconcileGold
    <3>2. /\ job' \in [Program -> Job(S)] /\ job'["dag"].stage = "report"
          /\ job'["dag"].statements = job["dag"].statements
          /\ job'["dag"].sections = job["dag"].sections
          /\ \A v \in Program \ {"dag"} : job'[v] = job[v]
      BY <1>s, <1>p, <3>1, GotoFacts DEF Stage, Goto
    <3>3. StageInv("dag")'
      BY <1>6, <1>p, <3>2 DEF StageInv, JobInv, ReconcileGold, At
    <3>4. JobInv' /\ MayCall("cli")' = MayCall("cli")
      BY <1>p, <3>2, <3>3, GoesOn
    <3>5. MayCall("dag")' = MayCall("dag")
      BY <1>6, <3>2 DEF MayCall, ReconcileGold, At
    <3> QED BY <2>1, <3>4, <3>5
  <2>3. CASE ~job["dag"].enable_bedrock_report
    <3>1. job' = [job EXCEPT !["dag"] = Idle]
      BY <1>6, <2>3 DEF ReconcileGold
    <3>2. JobInv' /\ MayCall("dag")' = 0 /\ MayCall("cli")' = MayCall("cli")
      BY <1>p, <3>1, BecomesIdle
    <3> QED BY <1>m, <1>n, <1>p, <2>1, <3>2
  <2> QED BY <2>2, <2>3
<1>7. CASE PutReport
  <2>1. JobInv' /\ MayCall("dag")' = 0 /\ MayCall("cli")' = MayCall("cli")
    BY <1>7, <1>p, BecomesIdle DEF PutReport
  <2>2. /\ DOMAIN reports' = DOMAIN reports
        /\ reports' = [d \in DOMAIN reports' |-> reports'[d]]
        /\ UNCHANGED <<snapshot, gold, answers, calls, blocked, started>>
    BY <1>7 DEF PutReport
  <2> QED BY <1>m, <1>n, <1>p, <2>1, <2>2
<1>8. CASE StartCli
  <2>1. /\ job' \in [Program -> Job(S)] /\ job'["cli"].stage = "report"
        /\ job'["cli"].statements = job["cli"].statements
        /\ job'["cli"].sections = job["cli"].sections
        /\ \A v \in Program \ {"cli"} : job'[v] = job[v]
    BY <1>8, <1>s, <1>p, GotoFacts DEF Stage, StartCli
  <2>2. StageInv("cli")'
    BY <1>8, <1>p, <2>1 DEF StageInv, JobInv, StartCli, At
  <2>3. JobInv' /\ MayCall("dag")' = MayCall("dag")
    BY <1>p, <2>1, <2>2, GoesOn
  <2>4. MayCall("cli") = 0 /\ MayCall("cli")' = 1
    BY <1>8, <2>1 DEF MayCall, StartCli, At
  <2>5. /\ started' \in [Program -> Nat] /\ started'["dag"] = started["dag"]
        /\ started'["cli"] = started["cli"] + 1
        /\ UNCHANGED <<snapshot, gold, answers, reports, calls, blocked>>
    BY <1>8, <1>p, <1>n DEF StartCli
  <2>6. calls' + MayCall("dag")' + MayCall("cli")' <= started'["dag"] + started'["cli"]
    BY <1>m, <1>n, <1>p, <2>3, <2>4, <2>5
  <2> QED BY <2>3, <2>5, <2>6
<1>9. ASSUME NEW w \in Program, ReadSection(w)
      PROVE  TypeInv'
  <2>1. PICK read : job' = [job EXCEPT ![w].sections = Append(@, read)]
    BY <1>9 DEF ReadSection
  <2>2. /\ At(w, "report") /\ Len(job[w].sections) < 6
        /\ UNCHANGED <<snapshot, gold, answers, reports, calls, blocked, started>>
    BY <1>9, SectionFacts DEF ReadSection
  <2>3. /\ job' \in [Program -> Job(S \cup {read})] /\ job'[w].stage = "report"
        /\ job'[w].statements = job[w].statements
        /\ Len(job'[w].sections) = Len(job[w].sections) + 1
        /\ \A v \in Program \ {w} : job'[v] = job[v]
    BY <1>s, <2>1, <2>2, ReadFacts DEF At
  <2>4. Len(job[w].sections) \in Nat
    BY <1>s, LenProperties DEF Job
  <2>5. StageInv(w)'
    BY <2>2, <2>3, <2>4 DEF StageInv, JobInv, At
  <2>6. JobInv' /\ \A v \in Program \ {w} : MayCall(v)' = MayCall(v)
    BY <2>3, <2>5, GoesOn
  <2>7. MayCall(w)' = MayCall(w)
    BY <2>2, <2>3 DEF MayCall, At
  <2> QED BY <1>p, <2>2, <2>6, <2>7
<1>10. ASSUME NEW w \in Program, CallBedrock(w)
       PROVE  TypeInv'
  <2>1. /\ calls' = calls + 1 /\ At(w, "report") /\ Len(job[w].sections) = 6
        /\ UNCHANGED <<snapshot, gold, answers, reports, blocked, started>>
    BY <1>10, SectionFacts DEF CallBedrock
  <2>2. JobInv' /\ MayCall(w)' = 0 /\ \A v \in Program \ {w} : MayCall(v)' = MayCall(v)
    <3>1. CASE w = "dag"
      <4>1. job' = [job EXCEPT !["dag"].stage = "put"]
        BY <1>10, <3>1 DEF CallBedrock
      <4>2. /\ job' \in [Program -> Job(S)] /\ job'["dag"].stage = "put"
            /\ job'["dag"].statements = job["dag"].statements
            /\ job'["dag"].sections = job["dag"].sections
            /\ \A v \in Program \ {"dag"} : job'[v] = job[v]
        BY <1>s, <1>p, <4>1, GotoFacts DEF Stage, Goto
      <4>3. StageInv("dag")'
        BY <1>p, <2>1, <3>1, <4>2 DEF StageInv, JobInv, At
      <4>4. JobInv' /\ \A v \in Program \ {"dag"} : MayCall(v)' = MayCall(v)
        BY <1>p, <4>2, <4>3, GoesOn
      <4> QED BY <3>1, <4>2, <4>4 DEF MayCall
    <3>2. CASE w # "dag"
      <4>1. job' = [job EXCEPT ![w] = Idle]
        BY <1>10, <3>2 DEF CallBedrock
      <4> QED BY <4>1, BecomesIdle
    <3> QED BY <3>1, <3>2
  <2>3. MayCall(w) = 1
    BY <2>1 DEF MayCall, At
  <2>4. calls' + MayCall("dag")' + MayCall("cli")' <= started["dag"] + started["cli"]
    <3>1. CASE w = "dag"
      BY <1>m, <1>n, <1>p, <2>1, <2>2, <2>3, <3>1
    <3>2. CASE w = "cli"
      BY <1>m, <1>n, <1>p, <2>1, <2>2, <2>3, <3>2
    <3> QED BY <3>1, <3>2 DEF Program
  <2> QED BY <1>n, <2>1, <2>2, <2>4
<1>11. ASSUME NEW w \in Program, Fail(w)
       PROVE  TypeInv'
  <2>1. /\ JobInv' /\ MayCall(w)' = 0
        /\ \A v \in Program \ {w} : MayCall(v)' = MayCall(v)
        /\ UNCHANGED <<snapshot, gold, answers, reports, calls, blocked, started>>
    BY <1>11, BecomesIdle DEF Fail
  <2>2. MayCall("dag")' <= MayCall("dag") /\ MayCall("cli")' <= MayCall("cli")
        /\ MayCall("dag")' \in {0, 1} /\ MayCall("cli")' \in {0, 1}
    BY <1>m, <1>p, <2>1
  <2>3. calls + MayCall("dag")' + MayCall("cli")' <= started["dag"] + started["cli"]
    BY <1>m, <1>n, <1>p, <2>2
  <2> QED BY <2>1, <2>3
<1>12. CASE UNCHANGED vars
  BY <1>12, JobUnchanged DEF vars
<1> QED BY <1>1, <1>2, <1>3, <1>4, <1>5, <1>6, <1>7, <1>8, <1>9, <1>10, <1>11, <1>12
        DEF Next
-----------------------------------------------------------------------------
(* The load.                                                               *)

LoadStage == {"load", "query", "reconcile", "report", "put"}

\* The row sets of a Gold table after its DELETE and INSERT over a snapshot.
LoadedRows(dataset) == {<<rows>> : rows \in ViewResults(dataset, snapshot)}

\* The tables before the one being loaded are of the snapshot that passed the
\* gate, and the one being loaded is empty once its DELETE has been sent.
LoadInv ==
  /\ DOMAIN gold = Range(Dataset) /\ gold = [d \in DOMAIN gold |-> gold[d]]
  /\ \A d \in Range(Dataset) : Clean(gold[d])
  /\ job["dag"].stage \in LoadStage => FailedChecks(snapshot) = {}
  /\ job["dag"].stage \in LoadStage =>
       \A i \in 1 .. 11 : i <= job["dag"].statements \div 2 =>
         gold[Dataset[i]] \in LoadedRows(Dataset[i])
  /\ job["dag"].stage = "load" /\ job["dag"].statements % 2 = 1 => gold[Loading] = <<>>

\* Before the load there is nothing to say, after it nothing changes.
LEMMA LoadKept ==
  ASSUME LoadInv, UNCHANGED gold,
         \/ job'["dag"].stage \notin LoadStage
         \/ /\ UNCHANGED snapshot /\ job["dag"].stage \in LoadStage \ {"load"}
            /\ job'["dag"].stage \in LoadStage \ {"load"}
            /\ job'["dag"].statements = job["dag"].statements
         \/ /\ UNCHANGED snapshot /\ job'["dag"] = job["dag"]
  PROVE  LoadInv'
<1>1. job'["dag"].stage \in LoadStage => UNCHANGED snapshot
  OBVIOUS
<1>2. CASE job'["dag"].stage \notin LoadStage
  <2>1. job'["dag"].stage # "load"
    BY <1>2 DEF LoadStage
  <2> QED BY <1>2, <2>1 DEF LoadInv
<1>3. CASE /\ UNCHANGED snapshot /\ job["dag"].stage \in LoadStage \ {"load"}
           /\ job'["dag"].stage \in LoadStage \ {"load"}
           /\ job'["dag"].statements = job["dag"].statements
  BY <1>3 DEF LoadInv, LoadedRows
<1>4. CASE UNCHANGED snapshot /\ job'["dag"] = job["dag"]
  BY <1>4 DEF LoadInv, LoadedRows, Loading
<1> QED BY <1>2, <1>3, <1>4

\* What a DAG's step does to its record.
LEMMA JobFacts ==
  ASSUME TypeInv
  PROVE  /\ "dag" \in Program /\ "cli" \in Program
         /\ \A w \in Program : /\ [job EXCEPT ![w] = Idle][w].stage = "idle"
                               /\ job[w].statements \in Nat
                               /\ \A v \in Program : v # w =>
                                    [job EXCEPT ![w] = Idle][v] = job[v]
BY JobIsTyped, IdleFacts DEF TypeInv

LEMMA InitLoad == Init => LoadInv
<1> SUFFICES ASSUME Init PROVE LoadInv
  OBVIOUS
<1>1. job["dag"].stage = "idle"
  BY IdleFacts DEF Init, Program
<1> QED BY <1>1 DEF Init, LoadInv, Clean, LoadStage

LEMMA StepLoad == TypeInv /\ LoadInv /\ [Next]_vars => LoadInv'
<1> SUFFICES ASSUME TypeInv, LoadInv, [Next]_vars PROVE LoadInv'
  OBVIOUS
<1>p. "dag" \in Program /\ "cli" \in Program
  BY JobFacts
<1>s. PICK S : /\ job \in [Program -> Job(S)] /\ Idle \in Job(S)
               /\ \A w \in Program : job[w].statements \in Nat
  BY JobIsTyped DEF TypeInv
<1>j. /\ job["dag"].stage = "load" => job["dag"].statements < 22
      /\ job["dag"].stage = "quality" => job["dag"].statements = 0
  BY <1>p DEF TypeInv, JobInv, StageInv
<1>1. ASSUME NEW date \in ReportDate, NEW enabled \in BOOLEAN, StartDag(date, enabled)
      PROVE  LoadInv'
  <2>1. job'["dag"].stage = "refresh" /\ UNCHANGED gold
    BY <1>1, <1>p, <1>s DEF StartDag, Idle
  <2> QED BY <2>1, LoadKept DEF LoadStage
<1>2. ASSUME NEW table \in SilverTable, RefreshSnowflake(table)
      PROVE  LoadInv'
  <2>1. job'["dag"].stage = "quality" /\ UNCHANGED gold
    BY <1>2, <1>p, <1>s, GotoFacts DEF RefreshSnowflake, Stage
  <2> QED BY <2>1, LoadKept DEF LoadStage
<1>3. CASE CheckGoldQuality
  <2>1. UNCHANGED <<gold, snapshot>>
    BY <1>3 DEF CheckGoldQuality
  <2>2. CASE FailedChecks(snapshot) = {} /\ Goto("dag", "load")
    <3>1. job'["dag"].stage = "load" /\ job'["dag"].statements = 0
      BY <1>3, <1>p, <1>s, <1>j, <2>2, GotoFacts DEF Stage, CheckGoldQuality, At
    <3>2. 0 % 2 = 0 /\ 0 \div 2 = 0
      OBVIOUS
    <3> QED BY <2>1, <2>2, <3>1, <3>2 DEF LoadInv
  <2>3. CASE job' = [job EXCEPT !["dag"] = Idle]
    <3>1. job'["dag"].stage = "idle"
      BY <1>p, <2>3, JobFacts
    <3> QED BY <2>1, <3>1, LoadKept DEF LoadStage
  <2> QED BY <1>3, <2>2, <2>3 DEF CheckGoldQuality
<1>4. ASSUME DeleteGold \/ InsertGold
      PROVE  LoadInv'
  <2> DEFINE n == job["dag"].statements
  <2>1. /\ StatementDone /\ At("dag", "load") /\ job["dag"].stage = "load"
        /\ UNCHANGED snapshot
    BY <1>4 DEF DeleteGold, InsertGold, At
  <2>2. n \in Nat /\ n < 22 /\ n + 1 \in Nat
    BY <1>p, <1>s, <1>j, <2>1
  <2>3. /\ job'["dag"].statements = n + 1
        /\ job'["dag"].stage \in {"load", "query"}
    BY <1>s, <2>1, <2>2, StatementFacts
  <2>4. /\ n \div 2 + 1 \in 1 .. 11 /\ n % 2 \in {0, 1} /\ n \div 2 \in Nat
        /\ n % 2 = 0 => (n + 1) \div 2 = n \div 2 /\ (n + 1) % 2 = 1
        /\ n % 2 = 1 => (n + 1) \div 2 = n \div 2 + 1 /\ (n + 1) % 2 = 0
    BY <2>2, Halves
  <2>5. Loading \in Range(Dataset) /\ Loading = Dataset[n \div 2 + 1]
    BY <2>4, DatasetFacts DEF Loading
  <2>6. /\ FailedChecks(snapshot') = {}
        /\ \A i \in 1 .. 11 : i <= n \div 2 => gold[Dataset[i]] \in LoadedRows(Dataset[i])
    BY <2>1 DEF LoadInv, LoadStage
  <2>7. \A i \in 1 .. 11 : i <= n \div 2 => Dataset[i] # Loading
    BY <2>4, <2>5, DatasetFacts
  <2>8. \A i \in 1 .. 11 : Dataset[i] \in Range(Dataset)
    BY DatasetFacts
  <2>9. CASE DeleteGold
    <3>1. gold' = [gold EXCEPT ![Loading] = <<>>] /\ n % 2 = 0
      BY <2>9 DEF DeleteGold
    <3>2. /\ DOMAIN gold' = Range(Dataset) /\ gold' = [d \in DOMAIN gold' |-> gold'[d]]
          /\ gold'[Loading] = <<>>
          /\ \A d \in Range(Dataset) \ {Loading} : gold'[d] = gold[d]
      BY <2>5, <3>1 DEF LoadInv
    <3>3. \A d \in Range(Dataset) : Clean(gold'[d])
      BY <3>2 DEF LoadInv, Clean
    <3>4. \A i \in 1 .. 11 : i <= (n + 1) \div 2 =>
            gold'[Dataset[i]] \in LoadedRows(Dataset[i])
      BY <2>4, <2>6, <2>7, <2>8, <3>1, <3>2
    <3>5. Loading' = Loading
      BY <2>3, <2>4, <3>1 DEF Loading
    <3> QED BY <2>1, <2>3, <2>6, <3>2, <3>3, <3>4, <3>5 DEF LoadInv, LoadedRows
  <2>10. CASE InsertGold
    <3>1. PICK rows \in ViewResults(Loading, snapshot) :
            gold' = [gold EXCEPT ![Loading] = Append(@, rows)] /\ n % 2 = 1
      BY <2>10 DEF InsertGold
    <3>2. gold[Loading] = <<>>
      BY <2>1, <3>1 DEF LoadInv
    <3>3. Append(<<>>, rows) = <<rows>>
      OBVIOUS
    <3>4. /\ DOMAIN gold' = Range(Dataset) /\ gold' = [d \in DOMAIN gold' |-> gold'[d]]
          /\ gold'[Loading] = <<rows>>
          /\ \A d \in Range(Dataset) \ {Loading} : gold'[d] = gold[d]
      BY <2>5, <3>1, <3>2, <3>3 DEF LoadInv
    <3>5. \A d \in Range(Dataset) : Clean(gold'[d])
      BY <3>4 DEF LoadInv, Clean
    <3>6. gold'[Loading] \in LoadedRows(Loading)
      BY <3>1, <3>4 DEF LoadedRows
    <3>7. ASSUME NEW i \in 1 .. 11, i <= (n + 1) \div 2
          PROVE  gold'[Dataset[i]] \in LoadedRows(Dataset[i])
      <4>1. i = n \div 2 + 1 \/ i <= n \div 2
        BY <2>4, <3>1, <3>7
      <4> QED BY <2>5, <2>6, <2>7, <2>8, <3>4, <3>6, <4>1
    <3>8. (n + 1) % 2 # 1
      BY <2>4, <3>1
    <3> HIDE DEF n
    <3> QED BY <2>1, <2>3, <2>6, <3>4, <3>5, <3>7, <3>8 DEF LoadInv, LoadedRows
  <2> QED BY <1>4, <2>9, <2>10
<1>5. ASSUME NEW engine \in {"snowflake", "athena"}, QueryGold(engine)
      PROVE  LoadInv'
  <2>1. job["dag"].stage = "query" /\ UNCHANGED <<gold, snapshot>>
    BY <1>5 DEF QueryGold, At
  <2>2. CASE Goto("dag", "reconcile")
    <3>1. /\ job'["dag"].stage = "reconcile"
          /\ job'["dag"].statements = job["dag"].statements
      BY <1>p, <1>s, <2>2, GotoFacts DEF Stage
    <3> QED BY <2>1, <3>1, LoadKept DEF LoadStage
  <2>3. CASE UNCHANGED job
    BY <2>1, <2>3, LoadKept
  <2> QED BY <1>5, <2>2, <2>3 DEF QueryGold
<1>6. CASE ReconcileGold
  <2>1. job["dag"].stage = "reconcile" /\ UNCHANGED <<gold, snapshot>>
    BY <1>6 DEF ReconcileGold, At
  <2>2. CASE job["dag"].enable_bedrock_report
    <3>1. Goto("dag", "report")
      BY <1>6, <2>2 DEF ReconcileGold, Goto
    <3>2. /\ job'["dag"].stage = "report"
          /\ job'["dag"].statements = job["dag"].statements
      BY <1>p, <1>s, <3>1, GotoFacts DEF Stage
    <3> QED BY <2>1, <3>2, LoadKept DEF LoadStage
  <2>3. CASE ~job["dag"].enable_bedrock_report
    <3>1. job' = [job EXCEPT !["dag"] = Idle]
      BY <1>6, <2>3 DEF ReconcileGold
    <3>2. job'["dag"].stage = "idle"
      BY <1>p, <3>1, JobFacts
    <3> QED BY <2>1, <3>2, LoadKept DEF LoadStage
  <2> QED BY <2>2, <2>3
<1>7. CASE PutReport
  <2>1. job'["dag"].stage = "idle" /\ UNCHANGED gold
    BY <1>7, <1>p, JobFacts DEF PutReport
  <2> QED BY <2>1, LoadKept DEF LoadStage
<1>8. CASE StartCli
  <2>1. UNCHANGED <<gold, snapshot>> /\ job'["dag"] = job["dag"]
    BY <1>8, <1>p, <1>s, GotoFacts DEF StartCli, Stage
  <2> QED BY <2>1, LoadKept
<1>9. ASSUME NEW w \in Program, ReadSection(w)
      PROVE  LoadInv'
  <2>1. PICK read : job' = [job EXCEPT ![w].sections = Append(@, read)]
    BY <1>9 DEF ReadSection
  <2>2. At(w, "report") /\ UNCHANGED <<gold, snapshot>>
    BY <1>9 DEF ReadSection
  <2>3. /\ job'[w].stage = job[w].stage /\ job'[w].statements = job[w].statements
        /\ \A v \in Program \ {w} : job'[v] = job[v]
    BY <1>s, <2>1, ReadFacts
  <2>4. CASE w = "dag"
    BY <2>2, <2>3, <2>4, LoadKept DEF LoadStage, At
  <2>5. CASE w # "dag"
    BY <1>p, <2>2, <2>3, <2>5, LoadKept
  <2> QED BY <2>4, <2>5
<1>10. ASSUME NEW w \in Program, CallBedrock(w)
       PROVE  LoadInv'
  <2>1. At(w, "report") /\ UNCHANGED <<gold, snapshot>>
    BY <1>10 DEF CallBedrock
  <2>2. CASE w = "dag"
    <3>1. Goto("dag", "put")
      BY <1>10, <2>2 DEF CallBedrock, Goto
    <3>2. /\ job'["dag"].stage = "put"
          /\ job'["dag"].statements = job["dag"].statements
      BY <1>p, <1>s, <3>1, GotoFacts DEF Stage
    <3> QED BY <2>1, <2>2, <3>2, LoadKept DEF LoadStage, At
  <2>3. CASE w # "dag"
    <3>1. job' = [job EXCEPT ![w] = Idle]
      BY <1>10, <2>3 DEF CallBedrock
    <3>2. job'["dag"] = job["dag"]
      BY <1>p, <2>3, <3>1, JobFacts
    <3> QED BY <2>1, <3>2, LoadKept
  <2> QED BY <2>2, <2>3
<1>11. ASSUME NEW w \in Program, Fail(w)
       PROVE  LoadInv'
  <2>1. job' = [job EXCEPT ![w] = Idle] /\ UNCHANGED <<gold, snapshot>>
    BY <1>11 DEF Fail
  <2>2. CASE w = "dag"
    <3>1. job'["dag"].stage = "idle"
      BY <1>p, <2>1, <2>2, JobFacts
    <3> QED BY <2>1, <3>1, LoadKept DEF LoadStage
  <2>3. CASE w # "dag"
    <3>1. job'["dag"] = job["dag"]
      BY <1>p, <2>1, <2>3, JobFacts
    <3> QED BY <2>1, <3>1, LoadKept
  <2> QED BY <2>2, <2>3
<1>12. CASE UNCHANGED vars
  BY <1>12, LoadKept DEF vars
<1> QED BY <1>1, <1>2, <1>3, <1>4, <1>5, <1>6, <1>7, <1>8, <1>9, <1>10, <1>11, <1>12
        DEF Next
-----------------------------------------------------------------------------
(* The answers of the engines.                                             *)

\* Rows of a comparison with different keys.
OneKey(totals) == \A x, y \in totals : x.dataset_key = y.dataset_key => x = y

\* Grouping by a status leaves one row for it.
LEMMA QualityHasOneRowPerStatus ==
  ASSUME NEW table, NEW last, NEW x \in RunQuality(table, last),
         NEW y \in RunQuality(table, last), x.run_status = y.run_status
  PROVE  x = y
<1> DEFINE runs == {last[id] : id \in RunIds(table)}
           Group(status) == {run \in runs : run.status = status}
           statuses == {run.status : run \in runs}
<1>1. \A status \in statuses :
        Any(Group(status)) \in Group(status) /\ Any(Group(status)).status = status
  <2> TAKE status \in statuses
  <2>1. \E run \in Group(status) : TRUE
    OBVIOUS
  <2> QED BY <2>1 DEF Any
<1>2. RunQuality(table, last) = {QualityRow(Group(status)) : status \in statuses}
  BY DEF RunQuality, GroupBy
<1>3. PICK s \in statuses : x = QualityRow(Group(s))
  BY <1>2
<1>4. PICK t \in statuses : y = QualityRow(Group(t))
  BY <1>2
<1>5. x.run_status = Any(Group(s)).status /\ y.run_status = Any(Group(t)).status
  BY <1>3, <1>4 DEF QualityRow
<1>6. s = t
  BY <1>1, <1>5
<1> QED BY <1>3, <1>4, <1>6

\* A table that was loaded once holds one result of its view.
LEMMA LoadedRowsAreOneResult ==
  ASSUME NEW d, gold[d] \in LoadedRows(d)
  PROVE  \E rows \in ViewResults(d, snapshot) : GoldRows(d) = rows
<1>1. PICK rows \in ViewResults(d, snapshot) : gold[d] = <<rows>>
  BY DEF LoadedRows
<1>2. Range(<<rows>>) = {rows}
  BY DEF Range
<1> QED BY <1>1, <1>2 DEF GoldRows

\* After the load every table is one result of its view.
LEMMA AfterTheLoad ==
  ASSUME TypeInv, LoadInv, job["dag"].stage \in LoadStage \ {"load"},
         NEW d \in Range(Dataset)
  PROVE  gold[d] \in LoadedRows(d)
<1>1. job["dag"].statements = 22
  BY DEF TypeInv, JobInv, StageInv, LoadStage, Program
<1>2. 22 \div 2 = 11
  OBVIOUS
<1>3. PICK i \in 1 .. 11 : d = Dataset[i]
  BY DatasetFacts
<1> QED BY <1>1, <1>2, <1>3 DEF LoadInv

\* A comparison of loaded tables has no key twice.
LEMMA LoadedTotalsHaveOneKey ==
  ASSUME TypeInv, LoadInv, job["dag"].stage \in LoadStage \ {"load"}
  PROVE  OneKey(GoldTotals)
<1> DEFINE rows  == GoldRows("run_quality")
           five == {ProgressionTotal(GoldRows("run_progression")),
                    ItemTotal(GoldRows("item_performance_summary")),
                    PopularityTotal(GoldRows("weapon_popularity")),
                    PerformanceTotal(GoldRows("weapon_performance")),
                    OptionTotal(GoldRows("option_outcome_comparison"))}
<1>1. "run_quality" \in Range(Dataset)
  <2>1. Section[1] = "run_quality" /\ 1 \in 1 .. 6
    BY SectionFacts
  <2> QED BY <2>1, SectionFacts
<1>2. PICK result \in ViewResults("run_quality", snapshot) : rows = result
  BY <1>1, AfterTheLoad, LoadedRowsAreOneResult
<1>3. PICK last \in LastCopyChoices(snapshot) : rows = RunQuality(snapshot, last)
  BY <1>2 DEF ViewResults, ViewRows
<1>4. \A x, y \in rows : x.run_status = y.run_status => x = y
  BY <1>3, QualityHasOneRowPerStatus
<1>5. \A x : QualityTotal(x).dataset_key = <<"run_quality", x.run_status>>
  BY DEF QualityTotal, Totals
<1>6. \A r : /\ ProgressionTotal(r).dataset_key = <<"run_progression">>
             /\ ItemTotal(r).dataset_key = <<"item_performance_summary">>
             /\ PopularityTotal(r).dataset_key = <<"weapon_popularity">>
             /\ PerformanceTotal(r).dataset_key = <<"weapon_performance">>
             /\ OptionTotal(r).dataset_key = <<"option_outcome_comparison">>
  BY DEF ProgressionTotal, ItemTotal, PopularityTotal, PerformanceTotal, OptionTotal, Totals
<1>7. \A z \in five : z.dataset_key[1] # "run_quality"
  BY <1>6
<1>8. \A y, z \in five : y.dataset_key[1] = z.dataset_key[1] => y = z
  BY <1>6
<1>9. \A x : /\ QualityTotal(x).dataset_key[1] = "run_quality"
             /\ QualityTotal(x).dataset_key[2] = x.run_status
  BY <1>5
<1>10. GoldTotals = {QualityTotal(x) : x \in rows} \cup five
  BY DEF GoldTotals
<1> SUFFICES ASSUME NEW y \in GoldTotals, NEW z \in GoldTotals,
                    y.dataset_key = z.dataset_key
             PROVE  y = z
  BY DEF OneKey
<1> HIDE DEF rows, five
<1>11. CASE y \in five /\ z \in five
  BY <1>8, <1>11
<1>12. CASE y \notin five /\ z \notin five
  BY <1>4, <1>9, <1>10, <1>12
<1> QED BY <1>7, <1>9, <1>10, <1>11, <1>12
\* What a step means for the DAG once a load is over, or before one.
DagMove ==
  \/ job'["dag"].stage \in {"idle", "refresh"}
     /\ (UNCHANGED answers \/ DOMAIN answers' = {})
     /\ (job'["dag"].stage = "refresh" => DOMAIN answers' = {})
  \/ /\ job["dag"].stage \in {"refresh", "quality", "load"}
     /\ job'["dag"].stage \in {"quality", "load", "query"} /\ UNCHANGED answers
  \/ /\ job["dag"].stage = "query" /\ job'["dag"].stage \in {"query", "reconcile"}
     /\ UNCHANGED gold /\ \E engine \in {"snowflake", "athena"} : QueryGold(engine)
  \/ /\ job["dag"].stage \in {"reconcile", "report"}
     /\ job'["dag"].stage \in {"report", "put"} /\ UNCHANGED <<gold, answers>>
     /\ \/ job'["dag"].sections = job["dag"].sections
        \/ \E read \in SectionReads(Section[Len(job["dag"].sections) + 1],
                                    GoldRows(Section[Len(job["dag"].sections) + 1])) :
             /\ job["dag"].stage = "report"
             /\ Len(job'["dag"].sections) = Len(job["dag"].sections) + 1
             /\ job'["dag"].sections[Len(job["dag"].sections) + 1] = read
             /\ \A k \in 1 .. Len(job["dag"].sections) :
                  job'["dag"].sections[k] = job["dag"].sections[k]
  \/ job'["dag"] = job["dag"] /\ UNCHANGED <<gold, answers>>

LEMMA DagMoves == TypeInv /\ [Next]_vars => DagMove
<1> SUFFICES ASSUME TypeInv, [Next]_vars PROVE DagMove
  OBVIOUS
<1>p. "dag" \in Program /\ "cli" \in Program
  BY JobFacts
<1>s. PICK S : /\ job \in [Program -> Job(S)] /\ Idle \in Job(S)
               /\ \A w \in Program : job[w].statements \in Nat
  BY JobIsTyped DEF TypeInv
<1>1. ASSUME NEW date \in ReportDate, NEW enabled \in BOOLEAN, StartDag(date, enabled)
      PROVE  DagMove
  <2>1. job'["dag"].stage = "refresh" /\ DOMAIN answers' = {}
    BY <1>1, <1>p, <1>s DEF StartDag, Idle
  <2> QED BY <2>1 DEF DagMove
<1>2. ASSUME NEW table \in SilverTable, RefreshSnowflake(table)
      PROVE  DagMove
  <2>1. job'["dag"].stage = "quality" /\ job["dag"].stage = "refresh" /\ UNCHANGED answers
    BY <1>2, <1>p, <1>s, GotoFacts DEF RefreshSnowflake, Stage, At
  <2> QED BY <2>1 DEF DagMove
<1>3. CASE CheckGoldQuality
  <2>1. job["dag"].stage = "quality" /\ UNCHANGED answers
    BY <1>3 DEF CheckGoldQuality, At
  <2>2. CASE Goto("dag", "load")
    <3>1. job'["dag"].stage = "load"
      BY <1>p, <1>s, <2>2, GotoFacts DEF Stage
    <3> QED BY <2>1, <3>1 DEF DagMove
  <2>3. CASE job' = [job EXCEPT !["dag"] = Idle]
    <3>1. job'["dag"].stage = "idle"
      BY <1>p, <2>3, JobFacts
    <3> QED BY <2>1, <3>1 DEF DagMove
  <2> QED BY <1>3, <2>2, <2>3 DEF CheckGoldQuality
<1>4. ASSUME DeleteGold \/ InsertGold
      PROVE  DagMove
  <2>1. /\ StatementDone /\ At("dag", "load") /\ job["dag"].stage = "load"
        /\ UNCHANGED answers
    BY <1>4 DEF DeleteGold, InsertGold, At
  <2>2. job["dag"].statements < 22
    BY <1>p, <2>1 DEF TypeInv, JobInv, StageInv
  <2>3. job'["dag"].stage \in {"load", "query"}
    BY <1>s, <2>1, <2>2, StatementFacts
  <2> QED BY <2>1, <2>3 DEF DagMove
<1>5. ASSUME NEW engine \in {"snowflake", "athena"}, QueryGold(engine)
      PROVE  DagMove
  <2>1. job["dag"].stage = "query" /\ UNCHANGED gold
    BY <1>5 DEF QueryGold, At
  <2>2. job'["dag"].stage \in {"query", "reconcile"}
    BY <1>5, <1>p, <1>s, <2>1, GotoFacts DEF QueryGold, Stage
  <2> QED BY <1>5, <2>1, <2>2 DEF DagMove
<1>6. CASE ReconcileGold
  <2>1. job["dag"].stage = "reconcile" /\ UNCHANGED <<gold, answers>>
    BY <1>6 DEF ReconcileGold, At
  <2>2. CASE job["dag"].enable_bedrock_report
    <3>1. Goto("dag", "report")
      BY <1>6, <2>2 DEF ReconcileGold, Goto
    <3>2. /\ job'["dag"].stage = "report"
          /\ job'["dag"].sections = job["dag"].sections
      BY <1>p, <1>s, <3>1, GotoFacts DEF Stage
    <3> QED BY <2>1, <3>2 DEF DagMove
  <2>3. CASE ~job["dag"].enable_bedrock_report
    <3>1. job' = [job EXCEPT !["dag"] = Idle]
      BY <1>6, <2>3 DEF ReconcileGold
    <3>2. job'["dag"].stage = "idle"
      BY <1>p, <3>1, JobFacts
    <3> QED BY <2>1, <3>2 DEF DagMove
  <2> QED BY <2>2, <2>3
<1>7. CASE PutReport
  <2>1. job'["dag"].stage = "idle" /\ UNCHANGED answers
    BY <1>7, <1>p, JobFacts DEF PutReport
  <2> QED BY <2>1 DEF DagMove
<1>8. CASE StartCli
  <2>1. UNCHANGED <<gold, answers>> /\ job'["dag"] = job["dag"]
    BY <1>8, <1>p, <1>s, GotoFacts DEF StartCli, Stage
  <2> QED BY <2>1 DEF DagMove
<1>9. ASSUME NEW w \in Program, ReadSection(w)
      PROVE  DagMove
  <2> DEFINE section == Section[Len(job[w].sections) + 1]
  <2>1. PICK read \in SectionReads(section, GoldRows(section)) :
          job' = [job EXCEPT ![w].sections = Append(@, read)]
    BY <1>9 DEF ReadSection
  <2>2. job[w].stage = "report" /\ UNCHANGED <<gold, answers>>
    BY <1>9 DEF ReadSection, At
  <2>3. /\ job'[w].stage = job[w].stage
        /\ Len(job'[w].sections) = Len(job[w].sections) + 1
        /\ \A k \in 1 .. Len(job[w].sections) : job'[w].sections[k] = job[w].sections[k]
        /\ job'[w].sections[Len(job[w].sections) + 1] = read
        /\ \A v \in Program \ {w} : job'[v] = job[v]
    BY <1>s, <2>1, ReadFacts
  <2>4. CASE w = "dag"
    BY <2>1, <2>2, <2>3, <2>4 DEF DagMove
  <2>5. CASE w # "dag"
    BY <1>p, <2>2, <2>3, <2>5 DEF DagMove
  <2> QED BY <2>4, <2>5
<1>10. ASSUME NEW w \in Program, CallBedrock(w)
       PROVE  DagMove
  <2>1. job[w].stage = "report" /\ UNCHANGED <<gold, answers>>
    BY <1>10 DEF CallBedrock, At
  <2>2. CASE w = "dag"
    <3>1. Goto("dag", "put")
      BY <1>10, <2>2 DEF CallBedrock, Goto
    <3>2. /\ job'["dag"].stage = "put"
          /\ job'["dag"].sections = job["dag"].sections
      BY <1>p, <1>s, <3>1, GotoFacts DEF Stage
    <3> QED BY <2>1, <2>2, <3>2 DEF DagMove
  <2>3. CASE w # "dag"
    <3>1. job' = [job EXCEPT ![w] = Idle]
      BY <1>10, <2>3 DEF CallBedrock
    <3>2. job'["dag"] = job["dag"]
      BY <1>p, <2>3, <3>1, JobFacts
    <3> QED BY <2>1, <3>2 DEF DagMove
  <2> QED BY <2>2, <2>3
<1>11. ASSUME NEW w \in Program, Fail(w)
       PROVE  DagMove
  <2>1. job' = [job EXCEPT ![w] = Idle] /\ UNCHANGED <<gold, answers>>
    BY <1>11 DEF Fail
  <2>2. CASE w = "dag"
    <3>1. job'["dag"].stage = "idle"
      BY <1>p, <2>1, <2>2, JobFacts
    <3> QED BY <2>1, <3>1 DEF DagMove
  <2>3. CASE w # "dag"
    <3>1. job'["dag"] = job["dag"]
      BY <1>p, <2>1, <2>3, JobFacts
    <3> QED BY <2>1, <3>1 DEF DagMove
  <2> QED BY <2>2, <2>3
<1>12. CASE UNCHANGED vars
  BY <1>12 DEF vars, DagMove
<1> QED BY <1>1, <1>2, <1>3, <1>4, <1>5, <1>6, <1>7, <1>8, <1>9, <1>10, <1>11, <1>12
        DEF Next

\* What the engines answer depends on the Gold tables only.
LEMMA TotalsUnchanged == ASSUME UNCHANGED gold PROVE GoldTotals' = GoldTotals
<1>1. \A d : GoldRows(d)' = GoldRows(d)
  BY DEF GoldRows
<1> QED BY <1>1 DEF GoldTotals

\* All the answers of a run are the totals of what it loaded.
AnswerInv ==
  /\ job["dag"].stage \in {"refresh", "quality", "load"} => DOMAIN answers = {}
  /\ job["dag"].stage = "query" => \A e \in DOMAIN answers : answers[e] = GoldTotals
  /\ \A e \in DOMAIN answers : OneKey(answers[e])
  /\ \A e, f \in DOMAIN answers : answers[e] = answers[f]

LEMMA StepAnswers == TypeInv /\ LoadInv /\ AnswerInv /\ [Next]_vars => AnswerInv'
<1> SUFFICES ASSUME TypeInv, LoadInv, AnswerInv, [Next]_vars PROVE AnswerInv'
  OBVIOUS
<1>1. ASSUME NEW engine \in {"snowflake", "athena"}, QueryGold(engine),
             job["dag"].stage = "query", UNCHANGED gold,
             job'["dag"].stage \in {"query", "reconcile"}
      PROVE  AnswerInv'
  <2>1. answers' = [e \in DOMAIN answers \cup {engine} |->
                      IF e = engine THEN GoldTotals ELSE answers[e]]
    BY <1>1 DEF QueryGold
  <2>2. \A e \in DOMAIN answers' : answers'[e] = GoldTotals
    BY <1>1, <2>1 DEF AnswerInv
  <2>3. OneKey(GoldTotals)
    BY <1>1, LoadedTotalsHaveOneKey DEF LoadStage
  <2>4. GoldTotals' = GoldTotals
    BY <1>1, TotalsUnchanged
  <2>5. \A e \in DOMAIN answers' : OneKey(answers'[e])
    BY <2>2, <2>3
  <2> QED BY <1>1, <2>2, <2>4, <2>5 DEF AnswerInv, OneKey
<1>2. CASE job'["dag"] = job["dag"] /\ UNCHANGED <<gold, answers>>
  <2>1. GoldTotals' = GoldTotals
    BY <1>2, TotalsUnchanged
  <2> QED BY <1>2, <2>1 DEF AnswerInv, OneKey
<1>3. CASE /\ job["dag"].stage \in {"refresh", "quality", "load"}
           /\ job'["dag"].stage \in {"quality", "load", "query"} /\ UNCHANGED answers
  BY <1>3 DEF AnswerInv, OneKey
<1>4. CASE /\ job'["dag"].stage \in {"idle", "refresh"}
           /\ UNCHANGED answers \/ DOMAIN answers' = {}
           /\ job'["dag"].stage = "refresh" => DOMAIN answers' = {}
  BY <1>4 DEF AnswerInv, OneKey
<1>5. CASE job'["dag"].stage \in {"report", "put"} /\ UNCHANGED <<gold, answers>>
  BY <1>5 DEF AnswerInv, OneKey
<1> QED BY <1>1, <1>2, <1>3, <1>4, <1>5, DagMoves DEF DagMove
-----------------------------------------------------------------------------
(* The report.                                                             *)

\* What a DAG run has read so far is of the tables it loaded.
ReportInv ==
  job["dag"].stage \in {"report", "put"} =>
    \A k \in 1 .. Len(job["dag"].sections) :
      job["dag"].sections[k] \in SectionReads(Section[k], GoldRows(Section[k]))

LEMMA StepReport == TypeInv /\ ReportInv /\ [Next]_vars => ReportInv'
<1> SUFFICES ASSUME TypeInv, ReportInv, [Next]_vars PROVE ReportInv'
  OBVIOUS
<1>p. "dag" \in Program
  BY JobFacts
<1>r. job["dag"].stage \in {"reconcile", "report"} =>
        /\ job["dag"].stage = "reconcile" => job["dag"].sections = <<>>
        /\ Len(job["dag"].sections) \in Nat
  <2>1. PICK S : job \in [Program -> Job(S)]
    BY JobIsTyped DEF TypeInv
  <2>2. Len(job["dag"].sections) \in Nat
    BY <1>p, <2>1, LenProperties DEF Job
  <2> QED BY <1>p, <2>2 DEF TypeInv, JobInv, StageInv
<1>1. CASE job'["dag"].stage \notin {"report", "put"}
  BY <1>1 DEF ReportInv
<1>2. CASE job'["dag"] = job["dag"] /\ UNCHANGED <<gold, answers>>
  BY <1>2 DEF ReportInv, GoldRows
<1>3. CASE /\ job["dag"].stage \in {"reconcile", "report"} /\ UNCHANGED gold
           /\ job'["dag"].sections = job["dag"].sections
  <2>1. \A k \in 1 .. Len(job["dag"].sections) :
          job["dag"].sections[k] \in SectionReads(Section[k], GoldRows(Section[k]))
    <3>1. CASE job["dag"].stage = "reconcile"
      BY <1>3, <1>r, <3>1, EmptySeq
    <3>2. CASE job["dag"].stage = "report"
      BY <3>2 DEF ReportInv
    <3> QED BY <1>3, <3>1, <3>2
  <2> QED BY <1>3, <2>1 DEF ReportInv, GoldRows
<1>4. ASSUME job["dag"].stage = "report", UNCHANGED gold,
             NEW read \in SectionReads(Section[Len(job["dag"].sections) + 1],
                                       GoldRows(Section[Len(job["dag"].sections) + 1])),
             Len(job'["dag"].sections) = Len(job["dag"].sections) + 1,
             job'["dag"].sections[Len(job["dag"].sections) + 1] = read,
             \A k \in 1 .. Len(job["dag"].sections) :
               job'["dag"].sections[k] = job["dag"].sections[k]
      PROVE  ReportInv'
  <2>1. SUFFICES ASSUME NEW k \in 1 .. Len(job["dag"].sections) + 1
                 PROVE  job'["dag"].sections[k] \in SectionReads(Section[k], GoldRows(Section[k]))
    BY <1>4 DEF ReportInv, GoldRows
  <2>2. k \in 1 .. Len(job["dag"].sections) \/ k = Len(job["dag"].sections) + 1
    BY <1>4, <1>r
  <2> QED BY <1>4, <2>2 DEF ReportInv
<1> QED BY <1>1, <1>2, <1>3, <1>4, DagMoves DEF DagMove

-----------------------------------------------------------------------------
(* The theorems.                                                           *)

GoldInv == TypeInv /\ LoadInv /\ AnswerInv /\ ReportInv

LEMMA GoldInvariant == Spec => []GoldInv
<1>1. Init => GoldInv
  <2>1. ASSUME Init PROVE AnswerInv /\ ReportInv
    <3>1. job["dag"].stage = "idle" /\ DOMAIN answers = {}
      BY <2>1, IdleFacts DEF Init, Program
    <3> QED BY <3>1 DEF AnswerInv, ReportInv
  <2> QED BY <2>1, InitTypes, InitLoad DEF GoldInv
<1>2. GoldInv /\ [Next]_vars => GoldInv'
  BY StepTypes, StepLoad, StepAnswers, StepReport DEF GoldInv
<1> QED BY <1>1, <1>2, PTL DEF Spec

\* The state is well-typed: no Gold table ever holds two loads, Bedrock is
\* called at most once per started program.
THEOREM GoldTypeCorrect == Spec => []TypeOK
<1>1. GoldInv => TypeOK
  <2> SUFFICES ASSUME GoldInv PROVE TypeOK
    OBVIOUS
  <2>1. PICK S : job \in [Program -> Job(S)] /\ "dag" \in Program /\ "cli" \in Program
    BY JobIsTyped DEF GoldInv, TypeInv
  <2>2. \A w \in Program : /\ job[w].stage \in Stage /\ job[w].date \in ReportDate
                           /\ job[w].enable_bedrock_report \in BOOLEAN
                           /\ job[w].statements \in 0 .. 2 * Len(Dataset)
    BY <2>1, DatasetFacts DEF Job
  <2>3. \A w \in Program : Len(job[w].sections) <= Len(Section) /\ started[w] \in Nat
    BY SectionFacts DEF GoldInv, TypeInv, JobInv, StageInv
  <2>4. \A d \in Range(Dataset) : Len(gold[d]) <= 1
    <3> TAKE d \in Range(Dataset)
    <3>1. CASE gold[d] = <<>>
      BY <3>1
    <3>2. ASSUME NEW r, gold[d] = <<r>> PROVE Len(gold[d]) <= 1
      <4>1. Len(<<r>>) = 1
        OBVIOUS
      <4> QED BY <3>2, <4>1
    <3> QED BY <3>1, <3>2 DEF GoldInv, LoadInv, Clean
  <2>5. calls <= started["dag"] + started["cli"]
    <3>1. MayCall("dag") \in {0, 1} /\ MayCall("cli") \in {0, 1}
      BY DEF MayCall
    <3>2. calls \in Nat /\ started["dag"] \in Nat /\ started["cli"] \in Nat
      BY <2>1 DEF GoldInv, TypeInv
    <3> QED BY <3>1, <3>2 DEF GoldInv, TypeInv
  <2>6. /\ snapshot \in SilverTable \cup {[d \in {} |-> {}]}
        /\ DOMAIN gold = Range(Dataset) /\ DOMAIN answers \subseteq {"snowflake", "athena"}
        /\ DOMAIN reports = ReportDate /\ blocked \in BOOLEAN
    BY DEF GoldInv, TypeInv, LoadInv
  <2> QED BY <2>2, <2>3, <2>4, <2>5, <2>6 DEF TypeOK
<1> QED BY <1>1, GoldInvariant, PTL

\* After the load, every Gold table is one result of its view over the
\* snapshot this DAG run refreshed (load_gold_iceberg).
THEOREM LoadedGoldHolds == Spec => []LoadedGoldIsOfOneSnapshot
<1>1. GoldInv => LoadedGoldIsOfOneSnapshot
  BY AfterTheLoad DEF GoldInv, LoadedGoldIsOfOneSnapshot, LoadStage, LoadedRows
<1> QED BY <1>1, GoldInvariant, PTL

\* Only a snapshot without a failed check is loaded, into emptied tables
\* (check_gold_quality before load_gold_iceberg).
THEOREM GatedLoadHolds == Spec => GoldIsLoadedFromGatedViews
<1> DEFINE Gated == \A dataset \in Range(Dataset) :
              gold'[dataset] \in {gold[dataset], <<>>}
              \/ /\ FailedChecks(snapshot) = {}
                 /\ gold'[dataset] \in {<<rows>> : rows \in ViewResults(dataset, snapshot)}
<1>1. GoldInv /\ [Next]_vars => [Gated]_vars
  <2> SUFFICES ASSUME GoldInv, Next PROVE Gated
    BY DEF vars
  <2>1. CASE DeleteGold
    BY <2>1 DEF DeleteGold, GoldInv, LoadInv
  <2>2. CASE InsertGold
    <3>1. PICK rows \in ViewResults(Loading, snapshot) :
            gold' = [gold EXCEPT ![Loading] = Append(@, rows)]
            /\ job["dag"].statements % 2 = 1
      BY <2>2 DEF InsertGold
    <3>2. job["dag"].stage = "load"
      BY <2>2 DEF InsertGold, At
    <3>3. gold[Loading] = <<>> /\ FailedChecks(snapshot) = {}
      BY <3>1, <3>2 DEF GoldInv, LoadInv, LoadStage
    <3>4. Append(<<>>, rows) = <<rows>>
      OBVIOUS
    <3> QED BY <3>1, <3>3, <3>4 DEF GoldInv, LoadInv
  <2>3. CASE UNCHANGED gold
    BY <2>3
  <2>4. DeleteGold \/ InsertGold \/ UNCHANGED gold
    BY DEF Next, StartDag, RefreshSnowflake, CheckGoldQuality, QueryGold, ReconcileGold,
           PutReport, StartCli, ReadSection, CallBedrock, Fail
  <2> QED BY <2>1, <2>2, <2>3, <2>4
<1> QED BY <1>1, GoldInvariant, PTL DEF Spec, GoldIsLoadedFromGatedViews

\* The comparison of the two engines never fails by itself
\* (query_snowflake_gold, query_athena_gold, reconcile_gold).
THEOREM EnginesAgreeHolds == Spec => []EnginesAgree
<1>1. GoldInv => EnginesAgree
  <2> SUFFICES ASSUME GoldInv, DOMAIN answers = {"snowflake", "athena"}
               PROVE  Matched(answers["snowflake"], answers["athena"])
    BY DEF EnginesAgree
  <2>1. /\ answers["snowflake"] = answers["athena"] /\ OneKey(answers["athena"])
    BY DEF GoldInv, AnswerInv
  <2> QED BY <2>1 DEF Matched, OneKey
<1> QED BY <1>1, GoldInvariant, PTL

\* Only RUN_QUALITY_SUMMARY has a choice between copies.
LEMMA OtherViewsHaveOneResult ==
  ASSUME NEW k \in 2 .. 6, NEW table, NEW last, NEW other
  PROVE  ViewRows(Section[k], table, last) = ViewRows(Section[k], table, other)
<1>1. /\ Section[2] = "run_outcome" /\ Section[3] = "checkpoint_metrics"
      /\ Section[4] = "upgrade_funnel" /\ Section[5] = "run_progression"
      /\ Section[6] = "item_performance_summary"
  BY DEF Section
<1>2. CASE k = 2
  BY <1>1, <1>2 DEF ViewRows
<1>3. CASE k = 3
  BY <1>1, <1>3 DEF ViewRows
<1>4. CASE k = 4
  BY <1>1, <1>4 DEF ViewRows
<1>5. CASE k = 5
  BY <1>1, <1>5 DEF ViewRows
<1>6. CASE k = 6
  BY <1>1, <1>6 DEF ViewRows
<1> QED BY <1>2, <1>3, <1>4, <1>5, <1>6

\* What a loaded section holds.
LEMMA LoadedSection ==
  ASSUME TypeInv, LoadInv, job["dag"].stage \in {"report", "put"}, NEW k \in 1 .. 6
  PROVE  \E last \in LastCopyChoices(snapshot) :
           GoldRows(Section[k]) = ViewRows(Section[k], snapshot, last)
<1>1. Section[k] \in Range(Dataset)
  BY SectionFacts
<1>2. gold[Section[k]] \in LoadedRows(Section[k])
  BY <1>1, AfterTheLoad DEF LoadStage
<1> QED BY <1>2, LoadedRowsAreOneResult DEF ViewResults

\* A report is stored only with what its own run loaded and read
\* (generate_ai_report, put_ai_report).
THEOREM StoredReportHolds == Spec => StoredReportIsOfItsRun
<1> DEFINE OfItsRun == \A date \in ReportDate : reports'[date] # reports[date] =>
              \E last \in LastCopyChoices(snapshot) : \A k \in 1 .. Len(Section) :
                reports'[date][k] \in
                  SectionReads(Section[k], ViewRows(Section[k], snapshot, last))
<1>1. GoldInv /\ [Next]_vars => [OfItsRun]_vars
  <2> SUFFICES ASSUME GoldInv, Next PROVE OfItsRun
    BY DEF vars
  <2>1. CASE PutReport
    <3>1. /\ job["dag"].stage = "put"
          /\ reports' = [reports EXCEPT ![job["dag"].date] = job["dag"].sections]
      BY <2>1 DEF PutReport, At
    <3>2. Len(job["dag"].sections) = 6
      BY <3>1 DEF GoldInv, TypeInv, JobInv, StageInv, Program
    <3>3. \A k \in 1 .. 6 :
            job["dag"].sections[k] \in SectionReads(Section[k], GoldRows(Section[k]))
      BY <3>1, <3>2 DEF GoldInv, ReportInv
    <3>4. PICK last \in LastCopyChoices(snapshot) :
            GoldRows(Section[1]) = ViewRows(Section[1], snapshot, last)
      BY <3>1, LoadedSection DEF GoldInv
    <3>5. \A k \in 1 .. 6 : GoldRows(Section[k]) = ViewRows(Section[k], snapshot, last)
      <4> TAKE k \in 1 .. 6
      <4>1. PICK other \in LastCopyChoices(snapshot) :
              GoldRows(Section[k]) = ViewRows(Section[k], snapshot, other)
        BY <3>1, LoadedSection DEF GoldInv
      <4>2. CASE k = 1
        BY <3>4, <4>2
      <4>3. CASE k \in 2 .. 6
        BY <4>1, <4>3, OtherViewsHaveOneResult
      <4> QED BY <4>2, <4>3
    <3>6. \A date \in ReportDate : reports'[date] # reports[date] =>
            reports'[date] = job["dag"].sections
      BY <3>1 DEF GoldInv, TypeInv
    <3> QED BY <3>3, <3>5, <3>6, SectionFacts
  <2>2. CASE UNCHANGED reports
    BY <2>2
  <2>3. PutReport \/ UNCHANGED reports
    BY DEF Next, StartDag, RefreshSnowflake, CheckGoldQuality, DeleteGold, InsertGold,
           QueryGold, ReconcileGold, StartCli, ReadSection, CallBedrock, Fail
  <2> QED BY <2>1, <2>2, <2>3
<1> QED BY <1>1, GoldInvariant, PTL DEF Spec, StoredReportIsOfItsRun

\* The gate leaves no NULL for the report to refuse
\* (item_performance_summary_ranges and _json_value).
THEOREM NoNullHolds == Spec => []NoNullReachesTheDagReport
<1>1. GoldInv => NoNullReachesTheDagReport
  <2> SUFFICES ASSUME GoldInv, Len(job["dag"].sections) = Len(Section)
               PROVE  \A x \in job["dag"].sections[6] : x.named
    BY SectionFacts DEF NoNullReachesTheDagReport, NoNull
  <2>1. Len(job["dag"].sections) = 6 /\ Section[6] = "item_performance_summary"
    BY SectionFacts
  <2>2. job["dag"].stage \in {"report", "put"}
    <3>1. job["dag"].sections # <<>>
      <4>1. Len(<<>>) = 0 /\ 0 # 6
        OBVIOUS
      <4>2. job["dag"].sections = <<>> => Len(job["dag"].sections) = Len(<<>>)
        BY Zenon
      <4> QED BY <2>1, <4>1, <4>2, Zenon
    <3>2. StageInv("dag")
      <4>1. JobInv
        BY DEF GoldInv, TypeInv
      <4> QED BY <4>1 DEF JobInv, Program
    <3> QED BY <3>1, <3>2 DEF StageInv
  <2>3. FailedChecks(snapshot) = {}
    BY <2>2 DEF GoldInv, LoadInv, LoadStage
  <2>4. \A x \in ItemPerformance(snapshot) : x.named
    <3>1. "item_performance_summary_ranges" \notin FailedChecks(snapshot)
      BY <2>3
    <3> QED BY <3>1 DEF FailedChecks
  <2>5. PICK last : GoldRows(Section[6]) = ViewRows(Section[6], snapshot, last)
    BY <2>2, LoadedSection DEF GoldInv
  <2>6. GoldRows(Section[6]) = ItemPerformance(snapshot)
    BY <2>1, <2>5 DEF ViewRows
  <2>7. job["dag"].sections[6] \in SectionReads(Section[6], GoldRows(Section[6]))
    BY <2>1, <2>2 DEF GoldInv, ReportInv
  <2>8. job["dag"].sections[6] \subseteq ItemPerformance(snapshot)
    BY <2>1, <2>6, <2>7 DEF SectionReads
  <2> QED BY <2>4, <2>8
<1> QED BY <1>1, GoldInvariant, PTL
=============================================================================
