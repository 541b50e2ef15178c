-------------------------- MODULE AggregateLedger --------------------------
(***************************************************************************)
(* What the importer promises whoever reads the aggregate tables: a ledger *)
(* to which whole exports are added, the first of a key for good.          *)
(*                                                                         *)
(* An export counts as one entry: its key, its data_class and all its      *)
(* rows.  Nothing else enters, and an entry neither changes nor goes.      *)
(***************************************************************************)
VARIABLES offered,   \* entries of the exports that exist and satisfy the contract
          ledger     \* entries recorded

Init == ledger = {}

Offer ==
  /\ offered \subseteq offered'
  /\ UNCHANGED ledger

\* The idempotency key: bucket_date and revision, the rest of it is constant.
Record(entry) ==
  /\ \A other \in ledger : other.key # entry.key
  /\ ledger' = ledger \cup {entry}
  /\ UNCHANGED offered

Next == Offer \/ \E entry \in offered : Record(entry)

Spec == Init /\ [][Next]_<<offered, ledger>>
=============================================================================
