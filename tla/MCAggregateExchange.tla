----------------------- MODULE MCAggregateExchange -----------------------
(***************************************************************************)
(* A first and a corrected file of one key, one with a row twice, one the  *)
(* contract refuses, and what the exporter adds.                           *)
(***************************************************************************)
EXTENDS AggregateExchange, TLC

CONSTANT d1

Ended(count) == <<[cell |-> "run_ended", count |-> count]>>

First ==
  [key |-> [bucket_date |-> d1, revision |-> 1], data_class |-> "SYNTHETIC_TEST",
   lists |-> <<Ended(3), <<>>, <<>>, <<>>, Ended(3)>>, conforms |-> TRUE]

Corrected == [First EXCEPT !.lists[1] = Ended(4)]
RowTwice == [First EXCEPT !.lists[5] = Ended(3) \o Ended(3)]
Refused == [First EXCEPT !.conforms = FALSE]

Samples == {First, Corrected, RowTwice, Refused}

Symmetry == Permutations(Importer)
=============================================================================
