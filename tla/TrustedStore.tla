---------------------------- MODULE TrustedStore ----------------------------
(***************************************************************************)
(* What the rebuild promises of the trusted table: whatever is added to a  *)
(* date is a whole result, all that Bronze gave that date at one moment,   *)
(* or nothing.                                                             *)
(*                                                                         *)
(* A result is read, held for a while by whoever is to store it, and       *)
(* forgotten; what is added is one that is held, under its own date.       *)
(* Nothing is merged, split, made up or moved to another date.  A date may *)
(* be cleared at any time, and a result added more than once.              *)
(***************************************************************************)
EXTENDS Sequences

CONSTANTS Date,
          Result(_, _)   \* what a state of Bronze gives a date

VARIABLES bronze,
          held,    \* date -> results read and not yet forgotten
          table    \* date -> results added since the date was last cleared

Nothing == {}

Init ==
  /\ held = [date \in Date |-> {Nothing}]
  /\ table = [date \in Date |-> <<>>]

\* Results are dropped at will; none is gained but what is read.
Forget == \A date \in Date : held'[date] \subseteq held[date]

\* Bronze grows and shrinks.
Change ==
  /\ Forget
  /\ UNCHANGED table

Read(date) ==
  /\ held'[date] \subseteq held[date] \cup {Result(bronze, date)}
  /\ \A other \in Date \ {date} : held'[other] \subseteq held[other]
  /\ UNCHANGED <<bronze, table>>

Clear(date) ==
  /\ table' = [table EXCEPT ![date] = <<>>]
  /\ Forget
  /\ UNCHANGED bronze

Add(date) ==
  /\ \E result \in held[date] : table' = [table EXCEPT ![date] = Append(@, result)]
  /\ Forget
  /\ UNCHANGED bronze

Next ==
  \/ Change
  \/ \E date \in Date : Clear(date) \/ Add(date) \/ Read(date)

Spec == Init /\ [][Next]_<<bronze, held, table>>
=============================================================================
