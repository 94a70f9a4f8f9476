------------------------------- MODULE Lifecycle -------------------------------
(***************************************************************************)
(* The life of processor instances (cmd/processor): validate the config,   *)
(* retry until Scylla has a schema and a session, connect to Kafka and     *)
(* Redis, serve the probes, run the consumer loop, and close everything    *)
(* when it returns.  Instances start at any time, Scylla comes and goes,   *)
(* and the orchestrator restarts an instance whose liveness probe is not   *)
(* answered.  Time passes in units that the constants count.               *)
(***************************************************************************)
EXTENDS Config

CONSTANTS
    Workers,      \* processor instances
    ConfigOf,     \* the processor configs an instance may be deployed with
    MaxDur,       \* maxDur of retry
    Backoff,      \* the first backoff, and its increment
    MaxBackoff,   \* the backoff grows while it is less
    AttemptTime,  \* bound on the duration of an attempt
    MaxOutages,   \* bound on the outages of Scylla
    MaxFaults     \* bound on signals, fatal errors and failed calls

VARIABLES
    cfg,          \* per instance: its processor config
    proc,         \* per instance: its control state
    opened,       \* per instance: the resources to close, in order of opening
    schema,       \* keyspace and tables that exist in Scylla
    up,           \* is Scylla reachable?
    outages, faults

ASSUME LifecycleConstants ==
    /\ {MaxDur, MaxOutages, MaxFaults} \subseteq Nat
    /\ {Backoff, MaxBackoff, AttemptTime} \subseteq Nat \ {0}
    /\ \E n \in 1 .. MaxBackoff : MaxBackoff = n * Backoff
    /\ \A w \in Workers : ConfigOf[w] \subseteq AnyProcessorConfig

vars == <<cfg, proc, opened, schema, up, outages, faults>>

\* elapsed: time since retry began; down: the last moment of the attempt
\* at which Scylla was not reachable, or -1; left: time left for the sleep or the attempt; next:
\* statements of EnsureKeyspaceAndTable and New still to do; held: the loop
\* returned without AllowRebalance.
Stopped == [pc |-> "stopped", elapsed |-> 0, down |-> -1, left |-> 0, backoff |-> 0,
            next |-> <<>>, cancelled |-> FALSE, held |-> FALSE]

Init ==
    /\ cfg \in {c \in [Workers -> UNION {ConfigOf[w] : w \in Workers}] :
                  \A w \in Workers : c[w] \in ConfigOf[w]}
    /\ proc = [w \in Workers |-> Stopped]
    /\ opened = [w \in Workers |-> <<>>]
    /\ schema = {}
    /\ up \in BOOLEAN
    /\ outages = 0
    /\ faults = 0

Fault == faults < MaxFaults /\ faults' = faults + 1

PC(w) == proc[w].pc

----------------------------------------------------------------------------
(* Start-up.                                                               *)

\* Bug form: the table of the multi-config mode is not created.
OneTable == <<"keyspace", "join_state", "session">>

\* EnsureKeyspaceAndTable, every statement IF NOT EXISTS, and New.  That the
\* session of a statement cannot be created is a failure of the statement.
Statements == <<"keyspace", "join_state", "join_state_v2", "session">>

Creates == {"keyspace", "join_state", "join_state_v2"}

Begin(p) == [p EXCEPT !.pc = "attempt", !.left = AttemptTime, !.next = Statements,
                      !.down = IF up THEN -1 ELSE p.elapsed]

\* Loading and validation are done before anything else; a config that is not
\* accepted is fatal at once.
Start(w) ==
    /\ PC(w) = "stopped"
    /\ Accepted(cfg[w])
    /\ proc' = [proc EXCEPT ![w] = Begin([Stopped EXCEPT !.backoff = Backoff])]
    /\ UNCHANGED <<cfg, opened, schema, up, outages, faults>>

\* A statement has the context of run, and fails when that is cancelled; New
\* makes its session without one.
Doomed(p) == p.cancelled /\ Head(p.next) \in Creates

\* The next statement succeeds, the last one ends the retry.
Succeed(w) ==
    /\ PC(w) = "attempt"
    /\ up
    /\ ~Doomed(proc[w])
    /\ schema' = schema \cup ({Head(proc[w].next)} \cap Creates)
    /\ IF Len(proc[w].next) > 1
       THEN proc' = [proc EXCEPT ![w].next = Tail(@)] /\ UNCHANGED opened
       ELSE /\ proc' = [proc EXCEPT ![w] = [Stopped EXCEPT !.pc = "connect",
                                                           !.cancelled = proc[w].cancelled]]
            /\ opened' = [opened EXCEPT ![w] = <<"scylla">>]
    /\ UNCHANGED <<cfg, up, outages, faults>>

\* Bug form: no new attempt is made that would begin after the deadline.
GivesUpEarly(p) == p.elapsed + p.backoff > MaxDur

\* A cancelled context, or a deadline that has passed, ends the retry.
GivesUp(p) == p.cancelled \/ p.elapsed > MaxDur

\* The next statement fails, whether or not it was applied, because Scylla was
\* not reachable since the attempt began, or its context is cancelled, or for
\* another reason.
Fail(w) ==
    /\ PC(w) = "attempt"
    /\ \/ (proc[w].down >= 0 \/ Doomed(proc[w])) /\ UNCHANGED faults
       \/ Fault
    /\ schema' \in {schema, schema \cup ({Head(proc[w].next)} \cap Creates)}
    /\ proc' = [proc EXCEPT ![w] =
                  IF GivesUp(proc[w]) THEN Stopped
                  ELSE [proc[w] EXCEPT !.pc = "sleep", !.left = proc[w].backoff,
                                       !.next = <<>>, !.down = -1]]
    /\ UNCHANGED <<cfg, opened, up, outages>>

\* Bug form: the backoff grows without a limit.
GrowingBackoff(b) == b + Backoff

NextBackoff(b) == IF b < MaxBackoff THEN b + Backoff ELSE b

\* The backoff is over, or the context is cancelled in the middle of it.
Wake(w) ==
    /\ PC(w) = "sleep"
    /\ \/ /\ proc[w].left = 0
          /\ proc' = [proc EXCEPT ![w] =
                        Begin([proc[w] EXCEPT !.backoff = NextBackoff(@)])]
       \/ /\ proc[w].cancelled
          /\ proc' = [proc EXCEPT ![w] = Stopped]
    /\ UNCHANGED <<cfg, opened, schema, up, outages, faults>>

\* Bug form: the probes are closed after the Kafka client.
ServedFirst == <<"http", "kafka", "redis">>

\* The order of the defers; the client of Kafka is built without connecting,
\* and so is the one of Redis.
Resources == <<"kafka", "redis", "http">>

\* The server listens, unless its port is taken, and Run is called.
Connect(w) ==
    /\ PC(w) = "connect"
    /\ \/ opened' = [opened EXCEPT ![w] = @ \o Resources] /\ UNCHANGED faults
       \/ opened' = [opened EXCEPT ![w] = @ \o SelectSeq(Resources, LAMBDA r : r # "http")]
          /\ Fault
    /\ proc' = [proc EXCEPT ![w].pc = "running"]
    /\ UNCHANGED <<cfg, schema, up, outages>>

----------------------------------------------------------------------------
(* Shutdown.                                                               *)

Signal(w) ==
    /\ PC(w) \notin {"stopped", "closing"}
    /\ ~proc[w].cancelled
    /\ Fault
    /\ proc' = [proc EXCEPT ![w].cancelled = TRUE]
    /\ UNCHANGED <<cfg, opened, schema, up, outages>>

\* Run returns; the fetch in hand may not have been released.
RunReturns(w) ==
    /\ PC(w) = "running"
    /\ \E held \in BOOLEAN :
        proc' = [proc EXCEPT ![w].pc = "closing", ![w].held = held]
    /\ UNCHANGED <<cfg, opened, schema, up, outages>>

\* ... because of the signal, ...
Stop(w) == proc[w].cancelled /\ RunReturns(w) /\ UNCHANGED faults

\* ... or with an error of a fetch or a commit.
RunFails(w) == RunReturns(w) /\ Fault

\* The deferred calls, last opened first; Close of the Kafka client waits for
\* the fetch to be released.
Close(w) ==
    LET open == opened[w]
        last == open[Len(open)]
    IN  /\ PC(w) = "closing"
        /\ open # <<>>
        /\ last = "kafka" => ~proc[w].held
        /\ opened' = [opened EXCEPT ![w] = SubSeq(open, 1, Len(open) - 1)]
        /\ UNCHANGED <<cfg, proc, schema, up, outages, faults>>

Exit(w) ==
    /\ PC(w) = "closing"
    /\ opened[w] = <<>>
    /\ proc' = [proc EXCEPT ![w] = Stopped]
    /\ UNCHANGED <<cfg, opened, schema, up, outages, faults>>

----------------------------------------------------------------------------
(* The environment.                                                        *)

\* GET /live, GET /health: as long as the server listens.
Live(w) == "http" \in Range(opened[w])

\* The orchestrator probes an instance once it has started.
Kill(w) ==
    /\ PC(w) \in {"running", "closing"}
    /\ ~Live(w)
    /\ proc' = [proc EXCEPT ![w] = Stopped]
    /\ opened' = [opened EXCEPT ![w] = <<>>]
    /\ UNCHANGED <<cfg, schema, up, outages, faults>>

Retrying(w) == PC(w) \in {"attempt", "sleep"}

GoesDown ==
    /\ up
    /\ outages < MaxOutages
    /\ up' = FALSE
    /\ outages' = outages + 1
    /\ proc' = [w \in Workers |->
                  IF PC(w) = "attempt" THEN [proc[w] EXCEPT !.down = proc[w].elapsed]
                                       ELSE proc[w]]
    /\ UNCHANGED <<cfg, opened, schema, faults>>

ComesUp == ~up /\ up' = TRUE /\ UNCHANGED <<cfg, proc, opened, schema, outages, faults>>

\* Time passes, not beyond the end of a backoff or the bound of an attempt.
Tick ==
    /\ \E w \in Workers : Retrying(w)
    /\ \A w \in Workers : Retrying(w) => proc[w].left > 0
    /\ proc' = [w \in Workers |->
                  IF Retrying(w)
                  THEN [proc[w] EXCEPT !.elapsed = @ + 1, !.left = @ - 1,
                                       !.down = IF up \/ PC(w) = "sleep" THEN @
                                                ELSE proc[w].elapsed + 1]
                  ELSE proc[w]]
    /\ UNCHANGED <<cfg, opened, schema, up, outages, faults>>

Steps(w) ==
    \/ Start(w) \/ Succeed(w) \/ Fail(w) \/ Wake(w) \/ Connect(w)
    \/ Stop(w) \/ Close(w) \/ Exit(w)

Next ==
    \/ \E w \in Workers : Steps(w) \/ Signal(w) \/ RunFails(w) \/ Kill(w)
    \/ GoesDown
    \/ ComesUp
    \/ Tick

Spec == Init /\ [][Next]_vars

\* An instance keeps going, time passes, an outage ends, and the orchestrator
\* acts on a probe that is not answered.
Fairness ==
    /\ \A w \in Workers : WF_vars(Steps(w)) /\ WF_vars(Kill(w))
    /\ WF_vars(Tick)
    /\ WF_vars(ComesUp)

FairSpec == Spec /\ Fairness

----------------------------------------------------------------------------
(* Properties.                                                             *)

Keys == INSTANCE JoinKeys WITH Sha256 <- <<>>

\* Some events have different keys.
Separates(key) ==
    LET payloads == [({key.field} \cup Range(key.fields)) \ {""} ->
                        {[type |-> "string", text |-> t] : t \in {"1", "2"}}]
    IN  \E p, q \in payloads : Keys!ExtractRaw(key, p) # Keys!ExtractRaw(key, q)

\* What the handlers and the timeout manager take for granted.
Runnable(c) ==
    /\ NumStreams(c) > 0
    /\ \A i \in DOMAIN c.projection : \E j \in DOMAIN c.stream_ids :
          c.projection[i] = c.stream_ids[j]
    /\ Separates(c.key)
    /\ c.egress = "partial" => c.ttl.type \in {"number", "string"} /\ c.ttl.value > 0

\* An instance that runs has the tables of its mode, whichever instances
\* created what of the schema before they failed, and configs that its
\* handlers can work with: streams of the projection that exist, keys that
\* tell events apart, deadlines for partial egress.
RunsOnlyPrepared ==
    \A w \in Workers :
        PC(w) = "running" =>
            /\ {"keyspace", IF MultiConfig(cfg[w]) THEN "join_state_v2" ELSE "join_state"}
                  \subseteq schema
            /\ \A c \in JoinConfigs(cfg[w]) : Runnable(c)

\* retry gives up on Scylla only if it was not reachable at some moment less
\* than an attempt before maxDur had passed, or later.
ReachableIsAwaited ==
    [][\A w \in Workers :
         (Retrying(w) /\ PC(w)' = "stopped" /\ ~proc[w].cancelled /\ faults' = faults)
             => proc[w].down > MaxDur - AttemptTime]_vars

\* A retry is over one backoff and one attempt after maxDur.
GivesUpInTime ==
    \A w \in Workers : proc[w].elapsed <= MaxDur + MaxBackoff + AttemptTime

\* Every instance with an accepted config is running in the end, through
\* outages during its start-up, signals, fatal errors of Run, and a Close that
\* never returns.
KeepsRunning ==
    <>[](\A w \in Workers : Accepted(cfg[w]) => PC(w) = "running")
=============================================================================
