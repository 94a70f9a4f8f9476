------------------------------- MODULE DelayQueue -------------------------------
(***************************************************************************)
(* The settle delay (delay.Queue): completed joins wait until publishAt,   *)
(* in the memory of the instance, or in a Redis ZSET when Redis is         *)
(* configured.  Every instance has a queue for each config, with a flush   *)
(* of its own: a task is an instance and a config.  There is no clock: any *)
(* waiting item may be due.                                                *)
(***************************************************************************)
EXTENDS JoinStore

VARIABLES
    pending,      \* per task: items in memory, in the order scheduled
    dq            \* per task: the flush under way, with its items

delayVars == <<pending, dq>>

Tasks == Workers \X Configs

Resting == [pc |-> "idle", todo |-> <<>>]

DelayInit ==
    /\ pending = [t \in Tasks |-> <<>>]
    /\ dq = [t \in Tasks |-> Resting]

\* Schedule: the error of ZADD is logged and dropped.
Schedule(t, item) ==
    IF HasRedis
    THEN /\ \E ok \in BOOLEAN :
              Calls(ok, delayed' = delayed \cup {item}, UNCHANGED delayed)
         /\ UNCHANGED pending
    ELSE /\ pending' = [pending EXCEPT ![t] = Append(@, item)]
         /\ UNCHANGED <<delayed, callFaults>>

\* Bug form: the due items stay in the queue.
FlushKeeping(t) ==
    /\ ~HasRedis
    /\ dq[t].pc = "idle"
    /\ \E n \in 1 .. Len(pending[t]) :
        dq' = [dq EXCEPT ![t] = [pc |-> "publish",
                                 todo |-> SubSeq(pending[t], 1, n)]]
    /\ UNCHANGED <<storeVars, pending>>

\* flushDueMemory: the items scheduled first are due first, and they leave the
\* queue before they are published.
FlushMemory(t) ==
    /\ ~HasRedis
    /\ dq[t].pc = "idle"
    /\ \E n \in 1 .. Len(pending[t]) :
        /\ dq' = [dq EXCEPT ![t] = [pc |-> "publish",
                                    todo |-> SubSeq(pending[t], 1, n)]]
        /\ pending' = [pending EXCEPT ![t] = SubSeq(@, n + 1, Len(@))]
    /\ UNCHANGED storeVars

Orders(S) ==
    {b \in [1 .. Cardinality(S) -> S] :
        \A i, j \in 1 .. Cardinality(S) : b[i] = b[j] => i = j}

\* Bug form: the delay queues of all configs have one Redis key.
InEveryQueue(c) == delayed

\* The items in the ZSET of a config: its key is made from the name.
InQueue(c) == {d \in delayed : NameOf[d.key[1]] = NameOf[c]}

\* Bug form: the due items are popped from the set.
FlushPopping(t, open) ==
    /\ HasRedis /\ open
    /\ dq[t].pc = "idle"
    /\ \E due \in (SUBSET InQueue(t[2])) \ {{}} : \E batch \in Orders(due) :
        /\ dq' = [dq EXCEPT ![t] = [pc |-> "publish", todo |-> batch]]
        /\ delayed' = delayed \ due
    /\ UNCHANGED <<rows, bloom, timeouts, partials, egress, corrections, callFaults,
                   pending>>

\* flushDueRedis: a range query of the set, in which the items remain.
FlushRedis(t, open) ==
    /\ HasRedis /\ open
    /\ dq[t].pc = "idle"
    /\ \E due \in (SUBSET InQueue(t[2])) \ {{}} : \E batch \in Orders(due) :
        dq' = [dq EXCEPT ![t] = [pc |-> "publish", todo |-> batch]]
    /\ UNCHANGED <<storeVars, pending>>

Item(t) == Head(dq[t].todo)

\* The flush goes on with its next item, or ends.
NextItem(t) ==
    dq' = [dq EXCEPT ![t].todo = Tail(@),
                     ![t].pc = IF Len(dq[t].todo) = 1 THEN "idle" ELSE "publish"]

\* After publishAndCleanup, a durable item is removed from the set, published
\* or not.
ItemDone(t) ==
    IF HasRedis THEN dq' = [dq EXCEPT ![t].pc = "zrem"] ELSE NextItem(t)

\* publishAndCleanup: a failed produce ends it.
DelayPublish(t) ==
    /\ dq[t].pc = "publish"
    /\ \E ok \in BOOLEAN :
        /\ Calls(ok, Produce(Item(t)), UNCHANGED egress)
        /\ IF ok THEN dq' = [dq EXCEPT ![t].pc = "delete"] ELSE ItemDone(t)
    /\ UNCHANGED <<rows, bloom, timeouts, partials, delayed, corrections, pending>>

\* Bug form: the state of a published join is left in the store.
DelayKeep(t) ==
    /\ dq[t].pc = "delete"
    /\ ItemDone(t)
    /\ UNCHANGED <<storeVars, pending>>

\* The hash is the item's, the store the one of the config that flushes.
DelayDelete(t) ==
    /\ dq[t].pc = "delete"
    /\ \E ok \in BOOLEAN :
        Calls(ok, DeleteState(<<t[2], Item(t).key[2]>>), UNCHANGED rows)
    /\ ItemDone(t)
    /\ UNCHANGED <<bloom, timeouts, partials, delayed, egress, corrections, pending>>

DelayZRem(t, open) ==
    /\ dq[t].pc = "zrem"
    /\ \E ok \in BOOLEAN :
        RedisCalls(open, ok, delayed' = delayed \ {Item(t)}, UNCHANGED delayed)
    /\ NextItem(t)
    /\ UNCHANGED <<rows, bloom, timeouts, partials, egress, corrections, pending>>

DelaySteps(t, open) ==
    /\ HasDelay
    /\ \/ FlushMemory(t)
       \/ FlushRedis(t, open)
       \/ DelayPublish(t)
       \/ DelayDelete(t)
       \/ DelayZRem(t, open)

\* The process of the instance ends: what was in its memory is gone.
DelayKilled(w) ==
    /\ pending' = [t \in Tasks |-> IF t[1] = w THEN <<>> ELSE pending[t]]
    /\ dq' = [t \in Tasks |-> IF t[1] = w THEN Resting ELSE dq[t]]
=============================================================================
