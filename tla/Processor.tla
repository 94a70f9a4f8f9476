------------------------------- MODULE Processor -------------------------------
(***************************************************************************)
(* The processor: per instance the consumer loop with the join handlers it *)
(* calls, per config a timeout manager and the flush of a delay queue as   *)
(* goroutines beside it, and the stores and topics that all of them share. *)
(* With one config this is the single-config mode (run, runSingleConfig),  *)
(* with several the multi-config mode (runMultiConfig); a record that has  *)
(* no handler never gets to one, and is the business of ConsumerLoop.      *)
(***************************************************************************)
EXTENDS JoinHandler, TimeoutManager

CONSTANTS
    Partitions,   \* partitions of the input topic
    LogLen,       \* records per partition
    MaxAttempts,  \* attempts of commitWithRetry
    MayEvict,     \* may the broker take a partition from a busy member?
    MaxFaults     \* bound on commit failures, crashes and rebalances

VARIABLES committed, owner, position, cursor, loop, faults, handled, errored,
          abandoned

\* The consumer loop, with one handler for every record.
Loop == INSTANCE ConsumerLoop WITH
            None <- NoData, Reliable <- {}, NoHandler <- {}

ASSUME ProcessorConstants ==
    /\ Loop!LoopConstants
    /\ Records = UNION {{<<p, o>> : o \in 0 .. LogLen[p] - 1} : p \in Partitions}

loopVars == <<committed, owner, position, cursor, loop, faults, handled, errored,
              abandoned>>

timeoutVars == <<tm, untracked>>

vars == <<storeVars, delayVars, h, timeoutVars, loopVars>>

Init ==
    /\ StoreInit
    /\ DelayInit
    /\ HandlerInit
    /\ TimeoutInit
    /\ Loop!LoopInit

Running(w) == loop[w].pc # "stopped"

\* Run that returns closes the Redis client first, and hangs in the Close of
\* the Kafka client; the goroutines go on without Redis.
RedisOpen(w) == loop[w].pc # "closing"

\* When the process of an instance ends, so do its goroutines.
ProcessEnds(w) ==
    /\ h' = [h EXCEPT ![w] = Ready]
    /\ TimeoutKilled(w)
    /\ DelayKilled(w)
    /\ UNCHANGED storeVars

LoopStep(w) ==
    /\ Loop!LoopSteps(w)
    /\ UNCHANGED <<storeVars, delayVars, h, timeoutVars>>

CrashStep(w) == Loop!Crash(w) /\ ProcessEnds(w)

KillStep(w) == Loop!Kill(w) /\ ProcessEnds(w)

GroupStep(w) == Loop!GroupSteps(w) /\ UNCHANGED <<storeVars, delayVars, h, timeoutVars>>

\* handler.Handle is called with the record in hand, ...
Call(w) ==
    /\ loop[w].pc = "handle"
    /\ StartHandle(w, Loop!Current(w))
    /\ UNCHANGED <<timeoutVars, loopVars>>

\* ... does its work while the loop waits, ...
Handle(w) == HandleSteps(w) /\ UNCHANGED <<timeoutVars, loopVars>>

\* ... and returns nil or an error.
Return(w) ==
    /\ HandleReturned(w)
    /\ Loop!HandleReturns(w, h[w].pc = "ok")
    /\ h' = [h EXCEPT ![w] = Ready]
    /\ UNCHANGED <<storeVars, delayVars, timeoutVars>>

\* The goroutines of a config: t is an instance and a config.
Timeouts(t) ==
    /\ Running(t[1])
    /\ TimeoutSteps(t, RedisOpen(t[1]))
    /\ UNCHANGED <<delayVars, h, loopVars>>

Delay(t) ==
    /\ Running(t[1])
    /\ DelaySteps(t, RedisOpen(t[1]))
    /\ UNCHANGED <<h, timeoutVars, loopVars>>

Next ==
    \E w \in Workers :
        \/ LoopStep(w)
        \/ CrashStep(w)
        \/ KillStep(w)
        \/ GroupStep(w)
        \/ Call(w)
        \/ Handle(w)
        \/ Return(w)
        \/ \E c \in Configs : Timeouts(<<w, c>>) \/ Delay(<<w, c>>)

Spec == Init /\ [][Next]_vars

\* Every instance keeps working, on its records, its due keys and its queues;
\* the group assigns what is unassigned, an instance that hangs is killed and
\* a stopped one is restarted.
Fairness ==
    /\ \A w \in Workers :
         /\ WF_vars(LoopStep(w) \/ Call(w) \/ Handle(w) \/ Return(w))
         /\ \A c \in Configs : WF_vars(Timeouts(<<w, c>>)) /\ WF_vars(Delay(<<w, c>>))
         /\ WF_vars(KillStep(w))
         /\ WF_vars(Loop!Restart(w) /\ UNCHANGED <<storeVars, delayVars, h, timeoutVars>>)
    /\ \A p \in Partitions :
         WF_vars(\E w \in Workers : /\ Loop!Assign(w, p)
                                    /\ UNCHANGED <<storeVars, delayVars, h, timeoutVars>>)

FairSpec == Spec /\ Fairness

----------------------------------------------------------------------------
(* Properties.                                                             *)

Documents == [kind : {"joined", "partial", "late"}, key : Keys, data : SUBSET Records]

\* The type invariant of the shared state and of the goroutines.
TypeOK ==
    /\ rows \in [Keys -> Row]
    /\ bloom \subseteq UNION {BitsOf[k] : k \in Keys}
    /\ timeouts \subseteq Keys
    /\ partials \subseteq Keys
    /\ delayed \subseteq Documents
    /\ egress \in Seq(Documents)
    /\ corrections \in Seq(Documents)
    /\ callFaults \in 0 .. MaxCallFaults
    /\ pending \in [Tasks -> Seq(Documents)]
    /\ dq \in [Tasks -> [pc : {"idle", "publish", "delete", "zrem"},
                         todo : Seq(Documents)]]
    /\ h \in [Workers ->
                [pc : {"idle", "bloom", "first", "add", "schedule", "upsert", "read",
                       "contains", "correct", "untrack", "drop", "enqueue",
                       "publish", "delete", "ok", "err"},
                 rec : Records \cup {NoData}, row : Row]]
    /\ untracked \subseteq Keys
    /\ tm \in [Tasks ->
                 [pc : {"idle", "next", "publish", "track", "delete", "zrem"},
                  todo : SUBSET Keys, key : Keys \cup {NoData}, row : Row]]

\* State is deleted only after successful egress: a participant leaves its row
\* only when a document that carries it is already on a topic.
DeletedOnlyAfterEgress ==
    [][\A k \in Keys : \A s \in StreamIDs :
         (rows[k][s] # NoData /\ rows'[k][s] = NoData) => rows[k][s] \in Delivered]_vars

Later(r) ==
    {q \in Records : /\ q[1] = r[1] /\ q[2] > r[2]
                     /\ KeyOf[q] = KeyOf[r] /\ StreamOf[q] = StreamOf[r]}

Kept == UNION {Payloads(rows[k]) : k \in Keys}

\* No silent drop: a record whose offset is committed is in the state of its
\* key, or in a document, or was replaced by a later event of its stream that
\* is; or its Handle returned an error.
NoSilentDrop ==
    \A p \in Partitions : \A o \in 0 .. committed[p] - 1 :
        LET r == <<p, o>>
        IN  \/ r \in Kept \cup Delivered \cup errored
            \/ Later(r) \cap (Kept \cup Delivered) # {}

Queued ==
    delayed \cup UNION {Topic(pending[t]) \cup Topic(dq[t].todo) : t \in Tasks}

\* What docs/CODE_QUALITY_REVIEW.md promises of the delay queue: a join leaves
\* it only when it has been published, and an item whose produce failed is left
\* for a future flush.
LeavesOnlyPublished ==
    [][\A d \in Queued : d \in Queued' \/ d \in Topic(egress')]_vars

\* A key one of whose valid records was given up by Run: Handle returned an
\* error, and the loop went on.
GivenUp(k) == \E r \in errored \ Malformed : KeyOf[r] = k

\* At-least-once, with the handlers of the processor: where no call fails and no
\* record is malformed, what is below the committed offset was handled, however
\* often instances end between a call and the commit (Run, commitWithRetry).
NoRecordSkipped == Loop!NoRecordSkipped

\* commitWithRetry that fails for good stops Run: an instance that polls has
\* committed all it fetched, after lost, repeated and rejected commits.
PollsOnlyWhenCommitted == Loop!PollsOnlyWhenCommitted

\* Every record is committed in the end, through crashes in a handler, failed
\* commits, and a Run that returned and hangs in Close with its partitions.
Drained == Loop!Drained

\* BlockRebalanceOnPoll: two handlers never work on records of one partition at
\* a time, however long their calls take, so that no two of them have read the
\* row of one key.
OneHandlerPerPartition == Loop!OneHandlerPerPartition

\* A complete join is never stranded: somebody still has to publish or delete
\* it, namely a handler at work on the key, a record of the key that will be
\* delivered again, or the delay queue; or Run gave the key up.
NoStrandedJoin ==
    \A k \in Keys :
        IsComplete(rows[k]) =>
            \/ \E r \in Records : KeyOf[r] = k /\ committed[r[1]] <= r[2]
            \/ \E d \in Queued : d.key = k
            \/ GivenUp(k)

\* No document repeats others: whatever settles, is flushed or arrives in the
\* meantime, a document has an event that is in none before it.
NothingRepeated ==
    \A j \in 1 .. Len(egress) :
        ~ (egress[j].data \subseteq UNION {egress[i].data : i \in 1 .. j - 1})

\* The events of a document agree on every field of the join key: whatever
\* the hash of their keys, they were meant to be joined.
JoinsAgree ==
    \A d \in Topic(egress) : \A q, r \in d.data : \A f \in Range(KeyDef.fields) :
        /\ f \in DOMAIN PayloadOf[q] <=> f \in DOMAIN PayloadOf[r]
        /\ f \in DOMAIN PayloadOf[q] => PayloadOf[q][f] = PayloadOf[r][f]

\* A partial egress is followed up: the key is tracked for corrections, or is
\* still scheduled, or its tracking is under way or has failed, or the join has
\* become complete, or a correction or the full join went out.
PartialsFollowedUp ==
    \A d \in Topic(egress) :
        d.kind = "partial" =>
            \/ d.key \in partials \cup timeouts \cup untracked
            \/ IsComplete(rows[d.key])
            \/ \E t \in Tasks : tm[t].pc = "track" /\ tm[t].key = d.key
            \/ \E c \in Topic(corrections) : c.key = d.key
            \/ \E j \in Topic(egress) : j.kind = "joined" /\ j.key = d.key

\* A correction carries the full document: what the partial one carried, and
\* the late event.
CorrectionCoversPartial ==
    \A c \in Topic(corrections) :
        \E d \in Topic(egress) : d.key = c.key /\ d.kind = "partial" /\ d.data \subseteq c.data

StreamsOf(k) == {StreamOf[r] : r \in {q \in Records \ Malformed : KeyOf[q] = k}}

\* Every key whose streams all send an event is joined in the end, unless Run
\* gives the key up.
JoinPublished ==
    <>(\A k \in Keys :
         Cardinality(StreamsOf(k)) >= N =>
            \/ \E d \in Topic(egress) : d.kind = "joined" /\ d.key = k
            \/ GivenUp(k))

\* Once its timeout is scheduled, a key is answered by a join or by a partial
\* document and leaves the set, through crashes of the instance that works on it.
ScheduledAnswered ==
    \A k \in Keys :
        (k \in timeouts) ~>
            (k \notin timeouts /\ \E d \in Topic(egress) : d.key = k)

Join == INSTANCE JoinSpec

\* Without Redis, a settle delay and evictions the processor implements the
\* inner join: through crashes, failed calls and hand-overs, what it publishes
\* is the state of the key at that moment, and it drops no other state.
JoinRefined == Join!JoinSafety
=============================================================================
