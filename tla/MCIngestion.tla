---------------------------- MODULE MCIngestion ----------------------------
(***************************************************************************)
(* Two requests that may be stored, and one for every way to be refused.   *)
(***************************************************************************)
EXTENDS Ingestion

Key(letters, spelling) == [letters |-> letters, spelling |-> spelling]

Checkpoint ==
  [is_object |-> TRUE, paths |-> {<<Key("eventname", "event_name")>>},
   event_name |-> "run_checkpoint", satisfies |-> {"run_checkpoint"},
   choice_source |-> "none", items |-> <<>>, source_type |-> "CONSENTED_PROD_PLAY"]

Statue ==
  [Checkpoint EXCEPT !.event_name = "upgrade_options_shown",
                     !.satisfies = {"upgrade_options_shown"},
                     !.choice_source = "statue", !.items = <<"sword", "bow">>,
                     !.source_type = "CONTROLLED_SCENARIO"]

Post1 == [key |-> "right", body |-> "text", size |-> 1, json |-> "parsed",
          event |-> Checkpoint]
Post2 == [Post1 EXCEPT !.body = "base64", !.event = Statue]

Refused ==
  {[Post1 EXCEPT !.key = "wrong"],
   [Post1 EXCEPT !.key = "not_ascii"],
   [Post1 EXCEPT !.body = "missing"],
   [Post1 EXCEPT !.size = MaxRequestBody + 1],
   [Post1 EXCEPT !.json = "malformed"],
   [Post1 EXCEPT !.json = "too_deep"],
   [Post1 EXCEPT !.event.is_object = FALSE],
   [Post1 EXCEPT !.event.paths =
      @ \cup {<<Key("options", "options"), Key("steamid", "Steam-ID")>>}],
   [Post1 EXCEPT !.event.satisfies = {"run_started"}],
   [Post1 EXCEPT !.event.source_type = "LOAD_TEST"],
   [Post2 EXCEPT !.event.items = <<"bow", "sword", "bow">>]}

ASSUME OnlyTheContractPasses ==
  /\ \A request \in Refused : ~Acceptable(request)
  /\ Acceptable(Post1) /\ Acceptable(Post2)

\* What the gateway posts: each answer the Lambda can give, and one event it
\* accepts, which the gateway may post again.
Posts ==
  {Post2, [Post1 EXCEPT !.key = "wrong"], [Post1 EXCEPT !.json = "too_deep"],
   [Post1 EXCEPT !.event.source_type = "LOAD_TEST"]}
=============================================================================
