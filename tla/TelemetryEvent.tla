--------------------------- MODULE TelemetryEvent ---------------------------
(***************************************************************************)
(* Anonymous telemetry event v2 as the Run validator sees it.              *)
(*                                                                         *)
(* An event is one delivered JSON body.  Only the fields some rule of the  *)
(* Run contract reads are kept; every record has all of them, and a field  *)
(* its event_name does not carry holds a value no rule looks at.           *)
(*   canonical    the position of the body's canonical JSON text in string *)
(*                order: equal exactly for equal bodies                    *)
(*   correlation  game_version, schema_version and source_type together    *)
(*   measures     the _MONOTONIC_FIELDS the event carries                  *)
(*   conforms     validate_anonymous_event reports nothing for the body    *)
(***************************************************************************)
EXTENDS Integers

CONSTANT Event      \* the bodies that can be delivered

EventName == {"run_started", "upgrade_options_shown", "upgrade_selected",
              "run_checkpoint", "run_ended"}

MonotonicField == {"run_elapsed_seconds", "total_kills", "total_xp_collected",
                   "total_gold_collected", "hearts_collected",
                   "total_healing_received", "magnets_collected",
                   "miniboss_waves_cleared"}

\* _canonical: sort_keys JSON text, the identity of a delivered body.
Canonical(e) == e.canonical

\* The minima are those of contracts/telemetry-event-v2.schema.json.
ASSUME EventAssumption ==
  /\ \A e \in Event :
       /\ e.event_name \in EventName
       /\ e.conforms \in BOOLEAN
       /\ Canonical(e) \in Nat
       /\ e.event_sequence \in Nat \ {0}
       /\ e.choice_sequence \in Nat \ {0}
       /\ e.checkpoint_number \in Nat \ {0}
       /\ DOMAIN e.measures \subseteq MonotonicField
       /\ "run_elapsed_seconds" \in DOMAIN e.measures
       /\ \A field \in DOMAIN e.measures : e.measures[field] \in Nat
  /\ \A e, f \in Event : Canonical(e) = Canonical(f) => e = f

Elapsed(e) == e.measures["run_elapsed_seconds"]

\* _CORRELATION_FIELDS: what every event of one Run shares.
Correlation(e) == <<e.run_id, e.correlation>>

Named(E, name) == {e \in E : e.event_name = name}

Starts(E)      == Named(E, "run_started")
Endings(E)     == Named(E, "run_ended")
Shown(E)       == Named(E, "upgrade_options_shown")
Selected(E)    == Named(E, "upgrade_selected")
Checkpoints(E) == Named(E, "run_checkpoint")

\* The only events that may precede run_started.
InitialWeaponChoice(e) ==
  /\ e.event_name \in {"upgrade_options_shown", "upgrade_selected"}
  /\ e.choice_source = "level_up_weapon"
  /\ Elapsed(e) = 0

\* A selection fits the choice it answers: an offered (slot, item, rarity),
\* the same choice_sequence and the same choice_source.
Answers(selected, shown) ==
  /\ selected.selected_option \in shown.options
  /\ selected.choice_sequence = shown.choice_sequence
  /\ selected.choice_source = shown.choice_source

\* A checkpoint stands at a whole number of minutes.
OnTheMinute(checkpoint) == Elapsed(checkpoint) = 60 * checkpoint.checkpoint_number
=============================================================================
