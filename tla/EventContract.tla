--------------------------- MODULE EventContract ---------------------------
(***************************************************************************)
(* validate_anonymous_event: what one delivered JSON value must satisfy    *)
(* before it may enter Bronze.                                             *)
(*                                                                         *)
(* A value is a record; fields no rule reads are left out.                 *)
(*   is_object      the value is a JSON object                             *)
(*   paths          the path to every key in it, through nested objects    *)
(*                  and arrays: a sequence of keys, a key being its        *)
(*                  letters and its spelling                               *)
(*   satisfies      the definitions of telemetry-event-v2.schema.json that *)
(*                  the value satisfies, by event name                     *)
(*   items          the item_id of each of its options, in order           *)
(***************************************************************************)
EXTENDS Sequences

\* _EVENT_DEFS
EventName == {"run_started", "upgrade_options_shown", "upgrade_selected",
              "run_checkpoint", "run_ended"}

\* _PROHIBITED_KEYS, of which the members stand for the families of keys:
\* account, device, network, credential and personal.
ProhibitedKey == {"steamid", "deviceid", "ipaddress", "sessiontoken", "email"}

\* _normalize_key drops case and separators, whatever the spelling.
Normalized(key) == key.letters

\* _privacy_issues: the paths that end in a prohibited key.
PrivacyIssues(event) ==
  {path \in event.paths : Normalized(path[Len(path)]) \in ProhibitedKey}

\* _validator: the definition of the event's own name; an unknown name is held
\* against the whole schema, that is, against any of them.
SchemaValid(event) ==
  IF event.event_name \in EventName THEN event.event_name \in event.satisfies
  ELSE event.satisfies # {}

RepeatedStatueItem(event) ==
  /\ event.event_name = "upgrade_options_shown"
  /\ event.choice_source = "statue"
  /\ \E i, j \in DOMAIN event.items : i # j /\ event.items[i] = event.items[j]

\* The first kind of issue found is the only one reported.
ValidateEvent(event) ==
  IF ~event.is_object THEN "SCHEMA_INVALID"
  ELSE IF PrivacyIssues(event) # {} THEN "PROHIBITED_FIELD"
  ELSE IF ~SchemaValid(event) THEN "SCHEMA_INVALID"
  ELSE IF RepeatedStatueItem(event) THEN "CHOICE_MISMATCH"
  ELSE "none"
=============================================================================
