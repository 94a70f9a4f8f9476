------------------------------- MODULE MCLifecycle -------------------------------
(***************************************************************************)
(* An instance of Lifecycle for TLC: one instance has several join         *)
(* configs, the other one any of the processor configs that are refused,   *)
(* or one that only looks flawed.                                          *)
(***************************************************************************)
EXTENDS Lifecycle, TLC

CONSTANTS w1, w2

NoneLoaded == [join_config |-> None, config_path |-> "", join_configs |-> <<>>,
               config_paths |-> <<>>]

JoinConfig(streams, projection, key, ttl, egress) ==
    [stream_ids |-> streams, projection |-> projection, key |-> key, ttl |-> ttl,
     egress |-> egress]

Two == <<"A", "B">>
Id == [field |-> "id", fields |-> <<>>]
Both == [field |-> "", fields |-> <<"id", "region">>]
Of(type, value) == [type |-> type, value |-> value]

Good == JoinConfig(Two, <<"A", "B">>, Id, Of("number", 600), "inner")
Partial == JoinConfig(Two, <<"B">>, Both, Of("string", 60), "partial")

\* An inner join needs no ttl: the JSON of this one decodes to none.
Odd == JoinConfig(Two, <<"A">>, Id, Of("other", 60), "inner")

\* A join config for every flaw.
Flawed ==
    { JoinConfig(<<>>, <<>>, Id, Of("number", 600), "inner"),
      JoinConfig(Two, <<"C">>, Id, Of("number", 600), "inner"),
      JoinConfig(Two, <<"">>, Id, Of("number", 600), "inner"),
      JoinConfig(Two, <<"A">>, [field |-> "", fields |-> <<>>], Of("number", 600), "inner"),
      JoinConfig(Two, <<"A">>, [field |-> "id", fields |-> <<"">>], Of("number", 600), "inner"),
      JoinConfig(Two, <<"A">>, Id, Of("other", 60), "partial"),
      JoinConfig(Two, <<"A">>, Id, Of("string", None), "inner") }

MCFiles == "good.json" :> Good @@ "odd.json" :> Odd @@ "partial.json" :> Partial @@ "malformed.json" :> None

Several == [NoneLoaded EXCEPT !.config_paths = <<"good.json", "partial.json">>,
                              !.config_path = "missing.json",
                              !.join_config = Good]

MCConfigOf ==
    w1 :> {Several}
    @@ w2 :> { NoneLoaded,
               [NoneLoaded EXCEPT !.config_path = "odd.json"],
               [NoneLoaded EXCEPT !.config_paths = <<"good.json", "malformed.json">>],
               [NoneLoaded EXCEPT !.config_path = "missing.json"] }
             \cup {[NoneLoaded EXCEPT !.join_config = c] : c \in Flawed}
             \cup {[NoneLoaded EXCEPT !.join_configs = <<Good, c>>] : c \in Flawed \cup {None}}
=============================================================================
