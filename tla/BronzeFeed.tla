----------------------------- MODULE BronzeFeed -----------------------------
(***************************************************************************)
(* What the rebuild may rely on of the way records reach and leave Bronze. *)
(* Ingestion implements it; SilverPipeline is built on its actions.        *)
(*                                                                         *)
(* A record is an event with the time it was received and the time its     *)
(* object was stored.  Any event may appear at any reading position, any   *)
(* number of times, in any order, but never before it was received nor     *)
(* more than MaxDelay after; it may go once it is BronzeRetention old.     *)
(***************************************************************************)
EXTENDS Integers

CONSTANTS Event,            \* the bodies that can be delivered
          Position,         \* reading positions in the listing of Bronze
          MaxDelay,         \* longest time between receipt and Bronze
          BronzeRetention,  \* age at which a Bronze object may expire
          Horizon           \* bound: last clock tick

VARIABLES now,      \* the clock
          bronze    \* reading position -> [event, received_at, stored_at]

Init ==
  /\ now = 0
  /\ bronze = [i \in {} |-> {}]

Tick ==
  /\ now < Horizon
  /\ now' = now + 1
  /\ UNCHANGED bronze

\* Firehose writes a record the Lambda received up to MaxDelay ago.
Deliver(position, event, time) ==
  /\ position \notin DOMAIN bronze
  /\ time <= now /\ now <= time + MaxDelay
  /\ bronze' = [i \in DOMAIN bronze \cup {position} |->
                  IF i = position
                  THEN [event |-> event, received_at |-> time, stored_at |-> now]
                  ELSE bronze[i]]
  /\ UNCHANGED now

\* The Bronze bucket's lifecycle rule.
Expire(position) ==
  /\ now >= bronze[position].stored_at + BronzeRetention
  /\ bronze' = [i \in DOMAIN bronze \ {position} |-> bronze[i]]
  /\ UNCHANGED now

Next ==
  \/ Tick
  \/ \E position \in Position, event \in Event, time \in 0 .. Horizon :
       Deliver(position, event, time)
  \/ \E position \in DOMAIN bronze : Expire(position)

Spec == Init /\ [][Next]_<<now, bronze>>
=============================================================================
