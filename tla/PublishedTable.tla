--------------------------- MODULE PublishedTable ---------------------------
(***************************************************************************)
(* The trusted table between Silver and Gold: what SilverPipeline promises *)
(* whoever reads it and what GoldViews and GoldPipeline take for granted.  *)
(*                                                                         *)
(* A table maps a received_date to the Runs published under it,            *)
(*   [run_id, status, events, counts, insert],                             *)
(* events being a set of bodies and counts the Run's four quality numbers. *)
(* The rows carry no insert: it keeps the copies of a Run apart that more  *)
(* than one INSERT wrote, since each copy is rows of its own to a SELECT.  *)
(***************************************************************************)
EXTENDS RunVerdict, FiniteSets

CountName == {"input", "unique", "retries", "conflicts"}

\* Bodies the contract accepts as this Run, with their verdict, a row for every
\* event the Run counts as unique, and counts that add up.
Accepted(run) ==
  /\ run.events \subseteq Event /\ run.events # {} /\ IsFiniteSet(run.events)
  /\ \A e \in run.events : e.run_id = run.run_id
  /\ run.status = Verdict(run.events) /\ run.status # "INVALID"
  /\ run.counts \in [CountName -> Nat]
  /\ run.counts["unique"] = Cardinality(run.events)
  /\ run.counts["input"] =
       run.counts["unique"] + run.counts["retries"] + run.counts["conflicts"]

TrustedTable(table) ==
  /\ IsFiniteSet(DOMAIN table)
  /\ \A date \in DOMAIN table :
       IsFiniteSet(table[date]) /\ \A run \in table[date] : Accepted(run)

\* A Run stands in the table once: not under two dates (see SilverPipeline's
\* DuplicatesAreNotTrustedTwice), and not twice under one (ADateIsInsertedOnce).
OneCopyPerRun(table) ==
  \A d1, d2 \in DOMAIN table : \A x \in table[d1], y \in table[d2] :
    x.run_id = y.run_id => d1 = d2 /\ x = y
=============================================================================
