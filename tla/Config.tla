--------------------------------- MODULE Config ---------------------------------
(***************************************************************************)
(* How the processor's configuration is loaded and validated.  A processor *)
(* config has a join config of its own, a path to one, a list of join      *)
(* configs and a list of paths; absent ones are None, "" and <<>>.  A      *)
(* decoded duration is in nanoseconds; a duration in JSON is a record of   *)
(* its JSON type and value, a string's being what ParseDuration makes of   *)
(* it, or None.                                                            *)
(***************************************************************************)
EXTENDS Integers, Sequences, Functions

CONSTANTS
    Files,        \* per path: the join config in the file, or None if malformed
    None          \* no config, no duration

\* The types of JoinConfig and ProcessorConfig.
AnyJoinConfig ==
    [stream_ids : Seq(STRING), projection : Seq(STRING),
     key : [field : STRING, fields : Seq(STRING)],
     ttl : [type : STRING, value : Int \cup {None}], egress : STRING]

AnyProcessorConfig ==
    [join_config : AnyJoinConfig \cup {None}, config_path : STRING,
     join_configs : Seq(AnyJoinConfig \cup {None}), config_paths : Seq(STRING)]

ASSUME ConfigFiles == \A path \in DOMAIN Files : Files[path] \in AnyJoinConfig \cup {None}

\* Duration.UnmarshalJSON: JSON of another type leaves the field at zero.
Duration(json) == IF json.type \in {"number", "string"} THEN json.value ELSE 0

NumStreams(c) == Len(c.stream_ids)

\* Bug form: the deadline of partial egress is not checked.
ValidateWithoutTTL(c) ==
    /\ c # None
    /\ c.stream_ids # <<>>
    /\ Range(c.projection) \subseteq Range(c.stream_ids) \ {""}
    /\ c.key.field # "" \/ c.key.fields # <<>>
    /\ "" \notin Range(c.key.fields)

\* ValidateJoinConfig; the projection is the sequence of its streams.
ValidateJoinConfig(c) ==
    /\ c # None
    /\ c.stream_ids # <<>>
    /\ Range(c.projection) \subseteq Range(c.stream_ids) \ {""}
    /\ c.key.field # "" \/ c.key.fields # <<>>
    /\ "" \notin Range(c.key.fields)
    /\ c.egress = "partial" => Duration(c.ttl) > 0

\* json.Unmarshal fails on a duration that does not parse.
Decodes(c) == c # None => Duration(c.ttl) # None

\* LoadJoinConfig succeeds.
LoadJoinConfig(path) ==
    path \in DOMAIN Files /\ Files[path] # None /\ Decodes(Files[path])

\* The paths that loadProcessorConfig reads: each kind only if there is no
\* inline config of that kind.
PathsRead(cfg) ==
    {path \in {cfg.config_path} : cfg.join_config = None /\ path # ""}
    \cup {path \in Range(cfg.config_paths) : cfg.join_configs = <<>>}

LoadProcessorConfig(cfg) ==
    /\ \A c \in {cfg.join_config} \cup Range(cfg.join_configs) : Decodes(c)
    /\ \A path \in PathsRead(cfg) : LoadJoinConfig(path)

\* cfg.JoinConfig and cfg.JoinConfigs once the config is loaded.
SingleConfig(cfg) ==
    IF cfg.join_config = None /\ cfg.config_path # "" THEN Files[cfg.config_path]
                                                      ELSE cfg.join_config

SeveralConfigs(cfg) ==
    IF cfg.join_configs = <<>>
    THEN [i \in DOMAIN cfg.config_paths |-> Files[cfg.config_paths[i]]]
    ELSE cfg.join_configs

\* A list of configs, from wherever it comes, wins over a single one.
MultiConfig(cfg) == SeveralConfigs(cfg) # <<>>

JoinConfigs(cfg) ==
    IF MultiConfig(cfg) THEN Range(SeveralConfigs(cfg)) ELSE {SingleConfig(cfg)}

\* What run insists on before it connects to anything.
Accepted(cfg) ==
    /\ LoadProcessorConfig(cfg)
    /\ \A c \in JoinConfigs(cfg) : ValidateJoinConfig(c)
=============================================================================
