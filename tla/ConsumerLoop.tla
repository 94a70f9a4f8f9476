----------------------------- MODULE ConsumerLoop -----------------------------
(***************************************************************************)
(* The consumer loop of the processor (consumer.Run) and the consumer      *)
(* group it runs in.  Every processor instance polls a batch, hands the    *)
(* records of each partition to a handler in offset order and commits      *)
(* every handled record on its own, with a bounded number of retries.      *)
(*                                                                         *)
(* What a handler does with a record is the business of JoinHandler: here  *)
(* it returns nil or an error.  The broker side (offsets, assignment,      *)
(* fencing of a member that lost a partition) is external and is modelled  *)
(* from how the loop uses it.                                              *)
(***************************************************************************)
EXTENDS Integers, FiniteSets

CONSTANTS
    Workers,      \* processor instances in the group omni-joiner-processor
    Partitions,   \* partitions of the input topic
    LogLen,       \* number of records of each partition
    Reliable,     \* records <<p, o>> whose Handle never returns an error
    NoHandler,    \* records <<p, o>> that getHandler rejects (multi-config)
    MaxAttempts,  \* attempts of commitWithRetry (3 in the code)
    MayEvict,     \* may the broker take a partition from a busy member?
    MaxFaults,    \* bound on commit failures, crashes and rebalances
    None          \* no partition, no owner

ASSUME LoopConstants ==
    /\ LogLen \in [Partitions -> Nat]
    /\ Reliable \subseteq Partitions \X Nat
    /\ NoHandler \subseteq Partitions \X Nat
    /\ MaxAttempts \in Nat \ {0}
    /\ MayEvict \in BOOLEAN
    /\ MaxFaults \in Nat
    /\ None \notin Partitions
    /\ None \notin Workers

VARIABLES
    committed,    \* per partition: the offset the group has committed
    owner,        \* per partition: the instance it is assigned to, or None
    position,     \* per instance and partition: next offset to fetch
    cursor,       \* per instance and partition: record of the batch in hand
    loop,         \* per instance: control state of Run
    faults,       \* faults so far
    handled,      \* history: records for which Handle returned nil
    errored,      \* history: records for which Handle returned an error
    abandoned     \* history: records of a batch the loop returned before

loopVars == <<committed, owner, position, cursor, loop, faults, handled,
              errored, abandoned>>

Ends == UNION {1 .. LogLen[p] : p \in Partitions}

Idle == [pc |-> "poll", todo |-> {}, part |-> None, attempt |-> 0,
         commitErr |-> FALSE]

Closing == [Idle EXCEPT !.pc = "closing"]

Stopped == [Idle EXCEPT !.pc = "stopped"]

Busy == {"record", "handle", "commit"}

LoopInit ==
    /\ committed = [p \in Partitions |-> 0]
    /\ owner = [p \in Partitions |-> None]
    /\ position = [w \in Workers |-> [p \in Partitions |-> 0]]
    /\ cursor = [w \in Workers |-> [p \in Partitions |-> 0]]
    /\ loop = [w \in Workers |-> Idle]
    /\ faults = 0
    /\ handled = {}
    /\ errored = {}
    /\ abandoned = {}

Fault == faults < MaxFaults /\ faults' = faults + 1

Current(w) == <<loop[w].part, cursor[w][loop[w].part]>>

----------------------------------------------------------------------------
(* The loop of one instance.                                               *)

Fetchable(w) == {p \in Partitions : owner[p] = w /\ position[w][p] < LogLen[p]}

\* PollFetches returns at least one record; the client's fetch position moves
\* past everything it returned, whatever the loop does with it.
Poll(w) ==
    /\ loop[w].pc = "poll"
    /\ \E ps \in (SUBSET Fetchable(w)) \ {{}} : \E end \in [ps -> Ends] :
        /\ \A p \in ps : position[w][p] < end[p] /\ end[p] <= LogLen[p]
        /\ position' = [position EXCEPT ![w] =
                          [p \in Partitions |->
                             IF p \in ps THEN end[p] ELSE position[w][p]]]
        /\ loop' = [loop EXCEPT ![w] = [Idle EXCEPT !.pc = "each", !.todo = ps]]
    /\ UNCHANGED <<committed, owner, cursor, faults, handled, errored, abandoned>>

\* PollFetches returns an error, and so does Run; the fetch is not released.
FetchFails(w) ==
    /\ loop[w].pc = "poll"
    /\ Fault
    /\ loop' = [loop EXCEPT ![w] = Closing]
    /\ UNCHANGED <<committed, owner, position, cursor, handled, errored, abandoned>>

\* EachPartition: the callback starts on one more partition of the batch.
EachPartition(w) ==
    /\ loop[w].pc = "each"
    /\ \E p \in loop[w].todo :
        loop' = [loop EXCEPT ![w].pc = "record", ![w].part = p,
                             ![w].todo = @ \ {p}]
    /\ UNCHANGED <<committed, owner, position, cursor, faults, handled, errored,
                   abandoned>>

\* getHandler: a record without a handler goes straight to the commit.
Dispatch(w) ==
    /\ loop[w].pc = "record"
    /\ loop' = [loop EXCEPT
                  ![w].pc = IF Current(w) \in NoHandler THEN "commit" ELSE "handle",
                  ![w].attempt = IF Current(w) \in NoHandler THEN 1 ELSE 0]
    /\ UNCHANGED <<committed, owner, position, cursor, faults, handled, errored,
                   abandoned>>

\* The record in hand is done: go on with the next one of the partition, or
\* with the next partition.
StepOver(w, err) ==
    LET p == loop[w].part
        more == cursor[w][p] + 1 < position[w][p]
    IN  /\ cursor' = [cursor EXCEPT ![w][p] = @ + 1]
        /\ loop' = [loop EXCEPT ![w].pc = IF more THEN "record" ELSE "each",
                                ![w].part = IF more THEN p ELSE None,
                                ![w].attempt = 0,
                                ![w].commitErr = err]

\* "return" in the callback: the rest of the partition's batch is left behind.
LeavePartition(w, err) ==
    LET p == loop[w].part
    IN  /\ cursor' = [cursor EXCEPT ![w][p] = position[w][p]]
        /\ abandoned' = abandoned \cup
              {<<p, o>> : o \in (cursor[w][p] + 1) .. (position[w][p] - 1)}
        /\ loop' = [loop EXCEPT ![w].pc = "each", ![w].part = None,
                                ![w].attempt = 0, ![w].commitErr = err]

\* handler.Handle returns; after an error the loop continues with the next
\* record without a commit.
HandleReturns(w, ok) ==
    /\ loop[w].pc = "handle"
    /\ IF ok
       THEN /\ handled' = handled \cup {Current(w)}
            /\ loop' = [loop EXCEPT ![w].pc = "commit", ![w].attempt = 1]
            /\ UNCHANGED <<cursor, errored>>
       ELSE /\ errored' = errored \cup {Current(w)}
            /\ StepOver(w, loop[w].commitErr)
            /\ UNCHANGED handled
    /\ UNCHANGED <<committed, owner, position, faults, abandoned>>

\* The broker accepts a commit only from the member that owns the partition.
Accepts(w) == owner[loop[w].part] = w

\* Bug form: the commit covers everything that was fetched.
CommitOffsetOfBatch(w) ==
    committed' = [committed EXCEPT ![loop[w].part] = position[w][loop[w].part]]

\* CommitRecords commits the offset after the record.
CommitOffset(w) ==
    committed' = [committed EXCEPT ![loop[w].part] = cursor[w][loop[w].part] + 1]

CommitOk(w) ==
    /\ loop[w].pc = "commit"
    /\ Accepts(w)
    /\ CommitOffset(w)
    /\ IF Current(w) \in NoHandler
       THEN LeavePartition(w, FALSE)
       ELSE StepOver(w, FALSE) /\ UNCHANGED abandoned
    /\ UNCHANGED <<owner, position, faults, handled, errored>>

\* Bug form: the last error of commitWithRetry is dropped.
CommitFailsSilently(w) ==
    /\ loop[w].pc = "commit"
    /\ \/ ~Accepts(w) /\ UNCHANGED <<committed, faults>>
       \/ Accepts(w) /\ Fault /\ (CommitOffset(w) \/ UNCHANGED committed)
    /\ IF loop[w].attempt < MaxAttempts
       THEN /\ loop' = [loop EXCEPT ![w].attempt = @ + 1]
            /\ UNCHANGED <<cursor, abandoned>>
       ELSE StepOver(w, FALSE) /\ UNCHANGED abandoned
    /\ UNCHANGED <<owner, position, handled, errored>>

\* Bug form: commitWithRetry makes one attempt too many.
CommitFailsOnceMore(w) ==
    /\ loop[w].pc = "commit"
    /\ \/ ~Accepts(w) /\ UNCHANGED <<committed, faults>>
       \/ Accepts(w) /\ Fault /\ (CommitOffset(w) \/ UNCHANGED committed)
    /\ IF loop[w].attempt <= MaxAttempts
       THEN /\ loop' = [loop EXCEPT ![w].attempt = @ + 1]
            /\ UNCHANGED <<cursor, abandoned>>
       ELSE LeavePartition(w, TRUE)
    /\ UNCHANGED <<owner, position, handled, errored>>

\* A commit attempt fails: rejected because the partition is no longer ours,
\* or lost on the way, with or without having been applied.
CommitFails(w) ==
    /\ loop[w].pc = "commit"
    /\ \/ ~Accepts(w) /\ UNCHANGED <<committed, faults>>
       \/ Accepts(w) /\ Fault /\ (CommitOffset(w) \/ UNCHANGED committed)
    /\ IF loop[w].attempt < MaxAttempts
       THEN /\ loop' = [loop EXCEPT ![w].attempt = @ + 1]
            /\ UNCHANGED <<cursor, abandoned>>
       ELSE LeavePartition(w, TRUE)
    /\ UNCHANGED <<owner, position, handled, errored>>

\* Bug form: the process ends and its member keeps its partitions.
ExitWithoutLeaving(w) ==
    /\ loop' = [loop EXCEPT ![w] = Stopped]
    /\ UNCHANGED owner

\* The process ends: its member leaves the group, or the broker misses it.
Exit(w) ==
    /\ loop' = [loop EXCEPT ![w] = Stopped]
    /\ owner' = [p \in Partitions |-> IF owner[p] = w THEN None ELSE owner[p]]

\* The batch is done: return commitErr, or AllowRebalance and poll again.  Run
\* that returns has not allowed a rebalance, and Close of the client waits for
\* one to be allowed before it leaves the group: the process hangs in its
\* deferred Close, still a member that has its partitions.
EndFetch(w) ==
    /\ loop[w].pc = "each"
    /\ loop[w].todo = {}
    /\ loop' = [loop EXCEPT ![w] = IF loop[w].commitErr THEN Closing ELSE Idle]
    /\ UNCHANGED <<committed, owner, position, cursor, faults, handled, errored,
                   abandoned>>

----------------------------------------------------------------------------
(* The environment: crashes and restarts, the consumer group.              *)

\* A crash, or a shutdown signal, at any point of the loop.
Crash(w) ==
    /\ loop[w].pc # "stopped"
    /\ Fault
    /\ Exit(w)
    /\ UNCHANGED <<committed, position, cursor, handled, errored, abandoned>>

\* A process that hangs in Close is killed from outside.
Kill(w) ==
    /\ loop[w].pc = "closing"
    /\ Exit(w)
    /\ UNCHANGED <<committed, position, cursor, faults, handled, errored, abandoned>>

Restart(w) ==
    /\ loop[w].pc = "stopped"
    /\ loop' = [loop EXCEPT ![w] = Idle]
    /\ UNCHANGED <<committed, owner, position, cursor, faults, handled, errored,
                   abandoned>>

\* Bug form: the client is built without BlockRebalanceOnPoll.
RebalanceAnyTime(w) == loop[w].pc # "stopped"

\* BlockRebalanceOnPoll: between a poll and AllowRebalance the member keeps
\* its partitions.
RebalanceAllowed(w) == loop[w].pc = "poll"

\* Bug form: a member that had the partition before resumes where it was.
AssignResuming(w, p) ==
    /\ owner[p] = None
    /\ RebalanceAllowed(w)
    /\ owner' = [owner EXCEPT ![p] = w]
    /\ UNCHANGED <<committed, position, cursor, loop, faults, handled, errored,
                   abandoned>>

\* A new owner fetches from the committed offset.
Assign(w, p) ==
    /\ owner[p] = None
    /\ RebalanceAllowed(w)
    /\ owner' = [owner EXCEPT ![p] = w]
    /\ position' = [position EXCEPT ![w][p] = committed[p]]
    /\ cursor' = [cursor EXCEPT ![w][p] = committed[p]]
    /\ UNCHANGED <<committed, loop, faults, handled, errored, abandoned>>

Revoke(w, p) ==
    /\ owner[p] = w
    /\ RebalanceAllowed(w)
    /\ Fault
    /\ owner' = [owner EXCEPT ![p] = None]
    /\ UNCHANGED <<committed, position, cursor, loop, handled, errored, abandoned>>

\* The broker drops a member that does not rejoin in time; the member goes on
\* with its batch and does not know.
Evict(w, p) ==
    /\ MayEvict
    /\ owner[p] = w
    /\ loop[w].pc \notin {"poll", "stopped"}
    /\ Fault
    /\ owner' = [owner EXCEPT ![p] = None]
    /\ UNCHANGED <<committed, position, cursor, loop, handled, errored, abandoned>>

----------------------------------------------------------------------------
HandlerSteps(w) ==
    /\ loop[w].pc = "handle"
    /\ \E ok \in BOOLEAN :
        /\ Current(w) \in Reliable => ok
        /\ HandleReturns(w, ok)

LoopSteps(w) ==
    \/ Poll(w)
    \/ FetchFails(w)
    \/ EachPartition(w)
    \/ Dispatch(w)
    \/ CommitOk(w)
    \/ CommitFails(w)
    \/ EndFetch(w)

GroupSteps(w) ==
    \/ Restart(w)
    \/ \E p \in Partitions : Assign(w, p) \/ Revoke(w, p) \/ Evict(w, p)

LoopNext ==
    \E w \in Workers :
        LoopSteps(w) \/ HandlerSteps(w) \/ GroupSteps(w) \/ Crash(w) \/ Kill(w)

LoopSpec == LoopInit /\ [][LoopNext]_loopVars

----------------------------------------------------------------------------
(* Properties.                                                             *)

Pcs == {"poll", "each", "record", "handle", "commit", "closing", "stopped"}

LoopState ==
    [pc : Pcs, todo : SUBSET Partitions, part : Partitions \cup {None},
     attempt : 0 .. MaxAttempts, commitErr : BOOLEAN]

\* The type invariant of the loop; commitWithRetry makes MaxAttempts attempts.
LoopTypeOK ==
    /\ committed \in [Partitions -> Nat]
    /\ owner \in [Partitions -> Workers \cup {None}]
    /\ position \in [Workers -> [Partitions -> Nat]]
    /\ cursor \in [Workers -> [Partitions -> Nat]]
    /\ loop \in [Workers -> LoopState]
    /\ faults \in 0 .. MaxFaults
    /\ handled \subseteq Partitions \X Nat
    /\ errored \subseteq Partitions \X Nat
    /\ abandoned \subseteq Partitions \X Nat

\* Every record below the committed offset was handled, or was dropped in one
\* of the three ways Run has of dropping a record: Handle returned an error
\* and the loop went on, getHandler rejected it, or the callback returned
\* before it.  Crashes, rebalances and retried commits drop nothing.
LossAccounted ==
    \A p \in Partitions : \A o \in 0 .. committed[p] - 1 :
        <<p, o>> \in handled \cup errored \cup NoHandler \cup abandoned

\* The committed offset of a partition never goes back, whichever instances
\* own it in turn and whichever commit of theirs arrives last.
CommitMonotone ==
    [][\A p \in Partitions : committed'[p] >= committed[p]]_loopVars

\* Two instances never work on records of the same partition at the same time:
\* the per-key order that docs/ORDERING.md promises rests on it.
OneHandlerPerPartition ==
    \A v, w \in Workers :
        (loop[v].pc \in Busy /\ loop[w].pc \in Busy /\ loop[v].part = loop[w].part)
            => v = w

\* At-least-once: a record below the committed offset was handled, unless it
\* is one that getHandler rejects.
NoRecordSkipped ==
    \A p \in Partitions : \A o \in 0 .. committed[p] - 1 :
        <<p, o>> \in handled \cup NoHandler

\* A failed commit stops Run: an instance that polls again has committed all
\* it fetched, so that nothing is left behind its fetch position.
PollsOnlyWhenCommitted ==
    \A w \in Workers : \A p \in Partitions :
        (owner[p] = w /\ loop[w].pc = "poll") => position[w][p] = committed[p]

\* Every record is committed in the end, through any bounded number of
\* crashes, rebalances and failed commits.
Drained == <>[](\A p \in Partitions : committed[p] = LogLen[p])
=============================================================================
