----------------------------- MODULE RunVerdict -----------------------------
(***************************************************************************)
(* What the Run contract promises, apart from how it is computed: the      *)
(* verdict on a Run is a function of the SET of bodies delivered for it.   *)
(* A Run is INVALID because of one body that is broken or two bodies that  *)
(* cannot both be true of one Run; otherwise it is VALID when nothing is   *)
(* missing and INCOMPLETE when something is.                               *)
(***************************************************************************)
EXTENDS TelemetryEvent

Broken(e) ==
  \/ ~e.conforms
  \/ e.event_name = "run_checkpoint" /\ ~OnTheMinute(e)

\* Two different bodies claim one identity in the Run.
SameIdentity(e, f) ==
  /\ e # f
  /\ \/ e.event_id = f.event_id
     \/ e.event_sequence = f.event_sequence
     \/ e.event_name = f.event_name /\ e.event_name \in {"run_started", "run_ended"}

\* e stands before f in Run order and may not.
Disordered(e, f) ==
  /\ e.event_sequence < f.event_sequence
  /\ \/ e.event_name = "run_ended"
     \/ f.event_name = "run_started" /\ ~InitialWeaponChoice(e)
     \/ /\ {e.event_name, f.event_name} = {"upgrade_options_shown"}
        /\ e.choice_id = f.choice_id \/ e.choice_sequence >= f.choice_sequence
     \/ /\ {e.event_name, f.event_name} = {"run_checkpoint"}
        /\ e.checkpoint_number >= f.checkpoint_number
     \/ \E field \in DOMAIN e.measures \cap DOMAIN f.measures :
          e.measures[field] > f.measures[field]

\* f selects from the choice e showed, too early or something not on offer.
Misselected(e, f) ==
  /\ e.event_name = "upgrade_options_shown"
  /\ f.event_name = "upgrade_selected"
  /\ e.choice_id = f.choice_id
  /\ e.event_sequence >= f.event_sequence \/ ~Answers(f, e)

Clash(e, f) ==
  \/ SameIdentity(e, f)
  \/ Correlation(e) # Correlation(f)
  \/ Disordered(e, f)
  \/ Misselected(e, f)

Contradictory(E) == \E e, f \in E : Broken(e) \/ Clash(e, f)

\* Nothing the Run should have is missing.
Complete(E) ==
  /\ Starts(E) # {}
  /\ Endings(E) # {}
  /\ \A e \in E : e.event_sequence = 1
                  \/ \E f \in E : f.event_sequence = e.event_sequence - 1
  /\ \A e \in Selected(E) : \E f \in Shown(E) : f.choice_id = e.choice_id

Verdict(E) ==
  IF Contradictory(E) THEN "INVALID"
  ELSE IF Complete(E) THEN "VALID"
  ELSE "INCOMPLETE"
=============================================================================
