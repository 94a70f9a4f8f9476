# confluo in TLA+

confluo joins events of several streams.  Producers write every event to one
input topic, with the stream in the `x-stream-id` header and the join key in the
payload; a group of processor instances collects the events of each key in a
Scylla row, and when a key has an event of every stream it publishes one
projected document to the egress topic and deletes the row.  With Redis it also
publishes partial documents for keys that do not complete in time, and holds
completed joins back for a settle delay.

The modules here model the processor: the consumer loop with its consumer group,
the join handler, the timeout manager and the delay queue of every join config, the
stores and topics they share, the deadlines on a clock, and the life of a process
from its configuration to its shutdown.  TLC checks them on small instances, and
TLAPS proves the safety properties of the runs for every size, each under the
hypotheses named below.

## The system

| Component (source) | State | Operations | Modelled in |
|---|---|---|---|
| Consumer loop (`internal/consumer` Run, commitWithRetry; `internal/kafka` client) | fetch position and batch per instance; committed offsets and assignment at the broker | poll, call the handler per record, commit with at most 3 attempts, allow rebalance, return and close | `ConsumerLoop` |
| Join handler (`internal/consumer` Handle, `internal/engine`, `internal/projection`) | none of its own | extract, Bloom check, upsert, read back, correct, publish or queue, delete | `JoinHandler` |
| Join keys (`internal/keys`, extractKey) | none | raw key of a single or composite field, hash | `JoinKeys` |
| Join state store (`internal/store`) | one row per config and join key, a map of stream to payload, with a table TTL | upsert of one cell, read, delete; schema | `JoinStore`, `Timing`, `Lifecycle` |
| Bloom filter (`internal/bloom`) | bits in Redis | exists, add | `JoinStore`, `JoinHandler`, `Timing` |
| Timeout manager (`internal/timeout`) | a ZSET of deadlines per config, shared by all instances | schedule; per tick: due keys, read, partial egress, track, delete, remove | `TimeoutManager`, `Timing` |
| Delay queue (`internal/delay`) | items in memory, or a ZSET shared by all instances | schedule; per tick: due items, publish, delete state, remove | `DelayQueue` |
| Partial tracker, corrections (`internal/egress`) | a Redis set of keys | add, contains, remove; correction event | `JoinStore`, `JoinHandler`, `TimeoutManager` |
| Processor, one config or several (`cmd/processor`, ScopedStore, `*V2` operations) | the goroutines of a process | start, crash, hang, restart; a handler, queue and manager per config | `Processor` |
| Configuration (`internal/config`, loadProcessorConfig) | none | load, choose the mode, validate | `Config` |
| Start-up, retry, shutdown (`cmd/processor`) | elapsed time and backoff; open resources; schema in Scylla | attempt, fail, sleep, connect, serve, run, close | `Lifecycle` |
| Health endpoints (`internal/health`) | none | liveness, readiness | liveness, in `Lifecycle` |
| Logging, metrics | none that decides anything | | not modelled |

What interacts: the loop calls the handler synchronously, one record at a time.
The handler, the timeout manager and the delay queue of one instance are three
goroutines that meet only in the stores, and every instance has all three.  No
call to a store is conditional on what it finds (no compare-and-set), so what
one actor read may be stale when it writes.  Everything an instance keeps in
memory (its batch, its place in a handler, its in-memory queue) dies with it;
everything in Kafka, Scylla and Redis stays.

What is hard: a batch is handled record by record while the group may rebalance;
a call may fail although it took effect; a crash may fall between any two calls;
a commit is repeated; the timeout manager and the handler work on one row; two
instances flush one queue; a deadline, a poll and the table TTL race on one key; a
process that cannot close its client keeps its partitions.  The hazards are listed with their lines in
`PROJECT.json`.  What makes each component correct:

- loop: no record is skipped unless Run's own code says so; commits never go
  back; one instance per partition at a time; everything is committed in the end;
- handler and stores: an event that is committed is in a row, in a document, or
  superseded; rows are deleted only after egress; a complete row is always
  somebody's business; a complete join is published;
- timeout manager: a scheduled key is answered and leaves the set; a partial
  document is followed up;
- delay queue: a queued join is not lost, leaves the queue published, and repeats
  nothing;
- keys and configs: events of different keys never meet, and no config touches the
  state of another;
- deadlines: a key is answered within a bound of its first event, before its row
  expires;
- start-up: what runs has a schema and a valid configuration; retry gives up neither
  early nor late; an instance that hangs is noticed.

## The modules

`ConsumerLoop` is `consumer.Run` (internal/consumer/consumer.go:254-301).  Each
instance has a control state `loop[w]` that walks through *poll*, *each* (the
EachPartition callback chooses a partition of the batch), *record* (getHandler),
*handle* and *commit*.  `position` is the client's fetch position and `cursor`
the record in hand.  The three ways in which Run leaves a record uncommitted are
separate outcomes: an error of Handle (`StepOver` without a commit), a record
that getHandler rejects and a commit whose last attempt fails (`LeavePartition`,
the `return` in the callback).  `commitErr` is one flag for the whole fetch, as
in the code.  History variables record what was handled, failed and left behind.
The consumer group is external: assignment starts at the committed offset, a
commit is accepted only from the owner, `BlockRebalanceOnPoll` lets a member give
partitions up only in *poll*, and (with `MayEvict`) the broker may take them from
a member that is busy too long, which goes on unaware.  When Run returns with an
error it has not allowed a rebalance, and the deferred `Close` of the client, which
leaves the group, waits for one to be allowed: the instance is *closing*, still a
member with its partitions, until somebody kills it.

`JoinStore` holds what all instances share, and the calls on it.  A key is a config
and a hash, as in `join_state_v2`; with one config that is `join_state`.  A payload
is the identity of the record that brought it, so a document is the set of records
it was projected from.  `Calls` is the meaning of a call: it succeeds, or fails
with or without having taken effect.  Whether a caller gives up, goes on or
ignores the error is in the action of the caller; `RedisCalls` is the same for a
client that Run's return has closed.

`JoinKeys` is extractKey and the package `keys`: which part of a payload becomes the
raw key.  The serialization of a composite key is the function from its field names
to their values, since the code sorts the names.  The hash is a constant, injective
(`HashInjective`): a collision of SHA-256 is left out.

`JoinHandler`, `TimeoutManager` and `DelayQueue` are `Handler.Handle`,
`Manager.processDue` and `Queue.flushDueMemory/flushDueRedis`, one action per
call to a store or a topic, because other actors may come in between any two.
Computation between two calls belongs to the action of the call before it.  The two
goroutines are tasks, one for each instance and config: every config has its own
timeout set, partial set and rows, and a delay set that is named by the *name* of
the config (`InQueue`) while the state it deletes is told apart by its id.

`Processor` composes them: it instantiates `ConsumerLoop` with the handler's
answer in place of its nondeterministic one, runs the two goroutines of each config
beside it, and ends all of them with the process.  While an instance is closing its
goroutines go on, without Redis: the defers close Redis first and then hang.  Its
loop takes the steps of `ConsumerLoop` and no others, so what is proved there about
every handler is true of this one, and the properties of the loop are checked where
a handler takes several calls, and a process may end between any two of them.

`JoinSpec` is the inner join as its user may think of it: rows and the topic, no
instances, calls or crashes.  An event takes its place in the row of its key, a
complete row may be published as it is at that moment, and a row ends only when its
own document is on the topic.  `JoinRefined` says that `Processor` implements it,
step by step, when it has neither Redis nor a settle delay; with either the code
does not (see below), and the properties of the other runs say what is left.

`Timing` has the deadlines on a clock, and the handler and a round of the timeout
manager as single steps: the score in whole seconds (`Deadline`), the ticker, the
batch, a produce that is refused, a crash with the new ticker of the restarted
instance, cells that Scylla forgets `RowTTL` after they were written, and a Bloom
filter with collisions.  What happens between two calls is in the modules above,
which have no clock; when it happens is here.

`Config` has loading and validation as operators, and `Lifecycle` the process around
them: `retry` with its deadline and growing backoff, the statements of
EnsureKeyspaceAndTable with a Scylla that comes and goes, the HTTP server, Run, the
signal and the deferred calls in their order, and an orchestrator that restarts what
does not answer its liveness probe.

`MCConsumerLoop`, `MCProcessor`, `MCTiming` and `MCLifecycle` give the constants their values;
the modules whose names end in `Proofs` hold the theorems.  Definitions
introduced as *bug form* are not part of the model: they are faulty variants of
the definition below them, used to make sure that a property can fail.

### Abstractions

- *No clock in `Processor`.*  Any scheduled key and any waiting item may be due at
  any time.  Every order of deadlines the real clock allows is among these, and
  orders that it excludes too, so the safety results hold with it.  No row expires
  there by itself; that is in `Timing`.
- *No time in a handler of `Timing`.*  It has one instance and one config; a call
  takes no time, a crash falls between two handlers or rounds, and a produce that is
  refused has not been applied.  So `Timing` has nothing to say about what is
  published twice.
- *Configs share their options.*  In a run with several configs all have the same
  streams, TTL, egress policy and settle delay; their names and ids differ.
- *The header and the body of a record are given.*  A record without a stream id, or
  that is not a JSON object, is `Malformed`: Handle returns an error.
- *A scan of due items* may return any non-empty subset in any order in the Redis
  mode (a batch is limited and scores are not modelled), a prefix of the queue in
  the memory mode.
- *A restart* is one action in `ConsumerLoop` and `Processor`; what it consists of is
  in `Lifecycle`.  A signal there is a crash here: with its context cancelled every
  further call of the instance fails.
- *An attempt to reach Scylla* takes at most `AttemptTime`, and fails only if Scylla
  was not reachable since it began, or by one of the `MaxFaults`.
- *Connecting to Kafka and Redis* does not fail: both clients are built without
  dialling.

## What is checked

| Run | Instance | Shows |
|---|---|---|
| `loop_losses` | 2 instances, 2 partitions, batches of one or both; records whose Handle may fail, one without a handler; 2 faults, evictions | `LoopTypeOK`; `LossAccounted`: below the committed offset everything was handled, or failed, or was rejected, or was in a batch the callback returned from; `CommitMonotone` |
| `core` | 2 instances, no Redis, 1 key: an invalid record, a round, the start of the next; 2 faults and 1 failed call, fairness | `NoSilentDrop`, `NoStrandedJoin`, `OneHandlerPerPartition`, `JoinRefined`, `JoinPublished` |
| `durable_delay` | 2 instances, 2 configs with one join key, Redis, settle delay, 2 commit attempts, 2 faults, fairness | `NoStrandedJoin`, `DeletedOnlyAfterEgress`, `JoinPublished` through a crash, with both instances flushing the same sets; with handlers that succeed, `NoRecordSkipped`, `PollsOnlyWhenCommitted` and `Drained`, also through a hang in Close |
| `memory_delay` | 2 instances, 2 partitions, 2 composite keys that differ by a field name, one event more than the round needs, in-memory queue, fairness | `NothingRepeated`, `JoinsAgree`, `JoinPublished` |
| `partial` | 2 instances, Redis, TTL, partial egress, corrections, 1 fault, fairness | `TypeOK` of the composed system, `PartialsFollowedUp`, `ScheduledAnswered` |
| `deadlines` | 1 instance, 2 keys of which one shares its Bloom bit with the other, batch of 1, seconds of 2 ticks, 1 refused produce, 1 crash | `AnsweredInTime`, `NoEventExpires`, `JoinedWhenInTime` |
| `lifecycle` | 2 instances, one with several configs, the other with each kind of processor config; 1 outage, 1 fault, fairness | `RunsOnlyPrepared`, `ReachableIsAwaited`, `GivesUpInTime`, `KeepsRunning` |
| `loop_handle_error`, `flush_failure`, `expiry_race`, `correction`, `second_round` | see the next section | each a statement of the documentation that the code does not keep |

*Bounds.*  `MaxFaults` counts crashes, rebalances, evictions, failed fetches and failed
commits, `MaxCallFaults` failed calls.  Two instances suffice for every hand-over, and
two faults let a second instance take a partition over and crash as well.  Three
failed commits in a row exhaust commitWithRetry; `loop_losses` and `durable_delay`
let it make two attempts, so that two faults do. The three records of `durable_delay`
give a batch with a record before and one after the one that is skipped, and the log
of `core` a round of its key and the start of the next. A failed call is one per run:
the handlers hold no state across calls that a second failure could combine with.
Instances are interchangeable in the loop, and `loop_losses`, which checks no
liveness, uses that symmetry. In `deadlines` a second has two ticks, so that a
deadline can lose half of one; the TTL is not a multiple of it, and the clock runs
past `Bound` and past the row TTL of the last event that may arrive. In `lifecycle`
the deadline is four and the largest backoff two units: enough for a retry that gives
up before the deadline, and for a backoff that grows beyond its limit, to show.

*Deadlock* is not checked: when everything is committed and published the system
has nothing left to do, and the clock of `Timing` stops.

*Fairness.*  Weak fairness of each instance's loop goroutine (with the handler it
calls), of its timeout goroutine and of its flush goroutine: each is a Go loop of
its own, and what it waits for is a ticker, records, or a call that returns in the
end, with a result or an error.  Weak
fairness of the restart of a stopped process, and of the kill of one that hangs in
Close (`Kill`): the orchestrator does both, the second because the liveness probe is
no longer answered.  That it is not, because the HTTP server is closed before the
Kafka client, is `KeepsRunning` of `Lifecycle`.  Weak fairness also of the end of an
outage, of time, and of the assignment of a partition without an owner (the broker does it as soon as
a member polls).  Weak fairness suffices: none of these is disabled again and
again by others, apart from the bounded faults.  A whole goroutine is one fairness
condition, never its single steps, since the code prefers no step of it.

## What the code does otherwise than documented

Each of these is a run that TLC ends with a counterexample:

- `loop_handle_error`: "commit only after successful handle"
  (docs/PRODUCTION_READINESS.md:27), but the loop goes on after an error of Handle
  (consumer.go:285-289) and the next commit covers the record.
- `flush_failure`: "log produce failure and leave the item for a future flush"
  (docs/CODE_QUALITY_REVIEW.md:33), but flushDueRedis removes the item whatever came
  of its produce (delay/queue.go:173-174).  Its records are committed, and the
  complete row waits for an event of the key that need not come.
- `expiry_race`: "No silent drops on the critical path"
  (docs/PRODUCTION_READINESS.md:25), but processDue deletes a row whatever arrived
  since it read it (timeout/manager.go:156).
- `correction`: a correction carries "the full payload" (docs/ARCHITECTURE.md:176),
  but the partial egress has deleted the row it is projected from.
- `second_round`: the processor "still publishes whatever it has"
  (docs/ARCHITECTURE.md:171), but only the first event ever of a key schedules a
  timeout (consumer.go:132): an event of a later round that stays alone is forgotten
  with the table TTL.

The same properties fail, in instances that no run has, at these places:

- `PollsOnlyWhenCommitted` with two partitions: `commitErr` is overwritten by the
  next partition of the same fetch (consumer.go:290), where
  docs/CODE_QUALITY_REVIEW.md:27 says "on commit failure log and return".
- `DeletedOnlyAfterEgress` with two configs of one name: they share a delay queue, and
  each deletes from its own state, where docs/ARCHITECTURE.md:217 says that Redis keys
  "are prefixed per config".
- `NoEventExpires` with three streams: the correction that follows a partial takes
  the key from the tracker (consumer.go:173), so that the event of the third stream
  finds neither a tracked key nor a timeout, and waits in its row until the table
  forgets it, where docs/ARCHITECTURE.md:39 has the event that completes the join
  remove the key.
- `NoEventExpires` without `Bound < RowTTL`, which `TimingConstants` assumes, that is
  with a join TTL near the 600 s of the table, or longer: nothing in the code relates
  the two, and the partial is never published.
- `JoinPublished` without key affinity: two instances may both publish a join, or
  neither (with the Bloom filter), against docs/DEVELOPMENT.md:118.

Also met while modelling.  The state of a queued join is not deleted when it is
queued, as docs/PRODUCTION_READINESS.md:65 says, but after the egress.  Composite
keys: "all must be present" (config.go:46), but a missing field is left out of the
key, and a single field that is missing or not a string gives the empty key, which
all such events share.  A stream listed twice in `stream_ids` keeps a join from ever
completing, an unknown stream id helps to complete one, and a join of one stream is
published with its second event when there is Redis; ValidateJoinConfig and the
handler accept all three.  Partial egress without `redis_addr` is accepted too, and
publishes no partial.  A key whose instance crashes between BF.ADD and ZADD, or that
the Bloom filter takes for known, has no timeout.  The client of Kafka does not dial
when it is built, so the retry around it never waits for Kafka.

The properties that hold are stated with these limits: `NoStrandedJoin` and
`JoinPublished` excuse a key whose record Run gave up after an error of Handle,
`NoSilentDrop` a record whose Handle failed, `OneHandlerPerPartition` and
`JoinRefined` a member that the broker evicts while it is busy (no run of `Processor`
has that), `PartialsFollowedUp` a key whose partial egress could not be recorded, and
`AnsweredInTime` and `NoEventExpires` a key whose first event the Bloom filter took
for a later one.

## What is proved

`ConsumerLoopProofs` proves, for any instances, partitions, logs, handlers, number
of attempts and number of faults, with hangs and kills, from the assumption `LoopConstants` of
`ConsumerLoop`:

- `LoopTypeCorrect`: `LoopTypeOK` always holds.  The only bound that is not a type
  is that of the attempts of a commit; it needs that *commit* is entered with
  attempt 1 and that `CommitFails` counts up only below `MaxAttempts`.
- `LossesAccounted`: `LossAccounted` always holds.  By itself it is not inductive: a
  commit moves the offset to `cursor + 1` and covers what lies below.  The
  strengthening adds, for each instance, that everything below its cursor is
  accounted for, and that a record in state *commit* has been handled or has no
  handler.  These are kept by evictions and crashes, because they say nothing of
  who owns the partition: a late commit of an instance that has lost its partition
  is harmless for the same reason.
- `CommitsMonotone`: the committed offset never goes back.  The invariant behind it
  (`MonotoneInv`) is that the broker holds nothing for the owner of a partition
  beyond its cursor, or one more than that while it is in *commit*: an attempt that
  failed may have been applied, and is then repeated.  Assignment establishes it.
  That the cursor stays inside the fetched batch is the other part, since the
  cursor jumps to the end of the batch when the callback returns.
- `HandlersExclusive`: if the broker evicts no busy member, no two instances work on
  a partition at a time.  The invariant is that a busy instance owns its partition
  and every partition of its batch that is still to do.
- `HandledOnce`: before the first fault, Handle is called only with records that no
  instance has handled.  `OnceInv` says that, until then, no commit has failed, a
  partition that was assigned keeps its owner, and whatever was handled lies behind
  the owner's cursor.  A rebalance is one of the faults.

`PartitionProofs` continues, for a topic with one partition, a handler for every
record and handlers that return no error (`SinglePartition`, `AllReliable`).  Both
hypotheses are needed: an error of Handle is stepped over, and with two partitions
`commitErr` is overwritten.

- `NothingSkipped`: `NoRecordSkipped`, at-least-once.  The invariant (`SingleInv`) is
  that an instance with a commit error ends its batch and leaves the group
  (`StopsOnError`, `LeftGroup`), and that one that goes on, and the committed offset,
  have left nothing behind (`NothingLeft`).
- `PollsUpToDate`: `PollsOnlyWhenCommitted`.  `UpToDateInv` adds to it that the owner
  of the partition has committed everything before its cursor, and all it fetched
  once its batch is done without a commit error.

Its last section (`CoveredInv`) has the same for handlers that may return an error:
as long as the owner goes on, what is behind its cursor is committed or failed.

`ProcessorProofs` is about every mode of the composed system.

- Every step of the processor is a loop step of the same name or leaves the loop's
  variables alone; `Return` is the one where the two meet, with the handler's result
  as the loop's choice (`LoopStepsOnly`).  So the theorems about every handler are
  facts about this one, and the proofs below use the loop's invariants.
- `ProcessorExclusive`: `OneHandlerPerPartition`, without evictions, for handlers that
  take any number of calls.
- `StateTypeCorrect`: `TypeOK`, from `OwnInv`.  That a row holds only records of its
  own key is no type of a variable but has to be proved with it: of the rows in the
  store, those a handler or manager has in hand, the queued documents and the topics.
- `EventsAgree`: `JoinsAgree` for composite keys, from the same invariant and
  `HashInjective`.  A single field is excluded (`KeyDef.field = ""`), because all
  events without that field share a key.
- `ProcessorSkipsNothing` and `ProcessorPollsUpToDate`: `NoRecordSkipped` and
  `PollsOnlyWhenCommitted`, in every mode, with one partition, no malformed records
  and calls that succeed (`SureHandlers`).  `PartitionProofs` assumes handlers that
  return no error; that these handlers return none is an invariant of its own
  (`NoneFails`), kept together with `UpToDateInv`.

`InnerJoinProofs` is about the processor without Redis, settle delay and evictions
(`InnerJoin`), with the records of a key in one partition (`KeyAffinity`).

- `JoinImplemented`: `JoinRefined`, the refinement of `JoinSpec`.  A handler
  publishes and deletes a row it has read some calls before; the refinement needs
  that nobody has changed the row since.  `InnerInv` says so (`UpToDateRow`), and
  rests on the loop's `HandlersExclusive`: while a handler works on a record, nobody
  else works on its partition, and so on its key.  Evictions break that, and so does a
  producer without key affinity.
- `DeletesAfterEgress`: `DeletedOnlyAfterEgress`, for a projection of every stream.
- `JoinsNotStranded`: `NoStrandedJoin` over one partition.  The invariant
  (`NotStranded`) is stronger: a record of the key lies in front of the place where
  Run goes on, and not only in front of the committed offset.
- `NothingDropped`: `NoSilentDrop` over one partition, for a projection of every
  stream.  The invariant (`SafeBehind`) speaks of every record a handler has
  returned from, committed or not.

`EgressProofs` is about the modes with Redis, and calls that succeed (`Durable`).  As
long as they do, what a flush has in hand is in the set or on the topic (`ItemsKept`),
since another instance removes it only after a produce; `flush_failure` shows what a
failed produce does to that.

- `PartialsAnswered`: `PartialsFollowedUp`, when the configs have names of their own
  (`OwnQueues`; they name the delay queues).  The invariant `FollowInv` has a clause
  for each actor that may be in the middle of a key: a manager between the produce
  and the tracking, a handler between the tracker's answer and the correction, a
  join in the delay queue; and one for the set of timeouts, which keeps the key when
  its manager crashes.

`DelayProofs` is about joins that settle.  Meanwhile their row stays, further events
enter it and complete it again, and the flush deletes the row as it is then.

- `DocumentsNew`: `NothingRepeated` as long as no fault has happened, without Redis,
  with a delay in memory or none, for a projection of every stream and `KeyAffinity`;
  calls to Scylla and to the topic may fail.  After a fault it does not hold, and the
  theorem says so: a record that is delivered again completes its join again, and the
  code promises no more than at-least-once.  The invariant (`NewInv`) is about the
  whole line of a key: the documents on the topic, what a flush has in hand, what is
  queued behind it, and the row.  Each has an event that is in none before it, because
  the record that completed it was handled once (`HandledOnce`), and an event enters
  the row only once.
- `DeletesAfterSettling`: `DeletedOnlyAfterEgress` with a delay, in either mode,
  whatever calls fail, whoever crashes or is evicted, however often a join is queued.
  The hypothesis is `OneEventEach`: a stream sends at most one event for a key, all
  streams count and are projected, a queue is not shared between configs, and no
  timeout publishes part of a row.  With a second event of a stream the property is
  false: the flush deletes an event that came after its join was queued.
  `WholeInv` says that what is queued, in hand or on the way to a delete is the whole
  of its key.
- `SettlingNotStranded`: `NoStrandedJoin` with a delay in Redis, over one partition,
  for joins of several streams, with `OneEventEach`, no evictions and calls that succeed
  (`DurableDelay`); instances crash between any two calls, fetches and commits fail.
  A flush deletes the row first and the queued join after it.  So the danger is
  that a late event makes the row complete between the two, and is then left behind by
  the removal, or that the first-arrival path, which never reads the row, completes
  one.  `SettleInv` excludes both: events are stored in the order of the log, so a join
  is queued only when an event of its key is committed (`QueuesBegun`); the Bloom filter
  knows every key that has one (`HandledKnown`), so its records are no first arrivals;
  and a row the flush has deleted has lost a committed event, which is not delivered
  again (`Emptied`), so it is never complete once more.

`LifecycleProofs` is about start-up, with no hypotheses beyond `LifecycleConstants`
and `ConfigFiles`.

- `RetryEnds`: `GivesUpInTime`; `ReachableAwaited`: `ReachableIsAwaited`.  `TimeInv`
  relates the time that has passed to the last moment Scylla was out of reach and to
  the backoff, which stays a multiple of the first one up to the largest.
- `RunsPrepared`: `RunsOnlyPrepared`.  The schema only grows, and what an instance
  still has to create, together with what there is, is its whole schema
  (`PreparedInv`), whoever else creates statements or fails in between.

`TimingProofs` is about the clock, for any number of keys and streams, any Bloom
filter, and any bounds on refused produces, crashes and their length, from
`TimingConstants`.

- `InTimeJoined`: `JoinedWhenInTime`, with one event per key and stream and at least
  two streams, all of them streams of the config (`OneEventEach`).  Every key is
  joined, or waits with all its events in its row, or has missed an event for good
  (`InTimeInv`).  The arithmetic is that of the two truncations to seconds: a score
  that is due is less than a second early.
- `EveryKeyAnswered`: `AnsweredInTime`, for two streams or more.  The invariant is a
  potential: the next poll, or the poll after the restart, is on time for every
  scheduled key by an allowance that grows with the keys that have left the set for
  good, the refused produces and the crashes (`OnTime`, `Allowance`).  A poll that
  leaves a due key in the set has used up a refused produce or a whole batch of
  other keys, none of which comes back; so the allowance ends at `Bound`.
- `NothingExpires`: `NoEventExpires`, for two streams with one event each.  Beyond
  the potential it needs that an event that waits in a row has a deadline, which a
  third stream or a second round breaks.

*Constants.*  The theorems assume of them what the modules state, and TLC evaluates:
`stream_ids` is finite, SHA-256 is defined for every raw key a payload can have and
is injective, configurations have the types of the Go structs they are decoded into,
and `Bound < RowTTL`.  TLC checked the strengthened invariants of the deadlines on the
instance of `deadlines` before they were proved, and `SettleInv` on the instance of
`durable_delay` with two configs, two faults and no failed calls.

Only model-checked: all liveness (`Drained`, `JoinPublished`, `ScheduledAnswered`,
`KeepsRunning`), which is beyond the prover.  The instances of the runs satisfy the
hypotheses of the theorems about their safety properties, so nothing else is only
model-checked.  The five violations are counterexamples, and need no proof.

## Not modelled

- *Logging and metrics*: output, which nothing reads back.
- *Readiness*: three pings in a row whose answer nothing in the processor uses.
- *Unused code*: `Reserve` of the Bloom filter, `HashToPartition` and
  `CreateKeyspaceAndTable` are not called by the processor.
- *The contents of documents*: which fields a projection puts where, and the JSON of
  events and corrections.  A document is the set of events it was built from.
- *The settle delay as a time*: no property depends on how long it is.
- *Several actors on a clock*: `Timing` has one instance whose handlers take no time.
  Instances, calls and their failures on a clock as well are beyond TLC; `Processor`
  allows every order of deadlines instead.

## The plan

Done: the consumer loop and its proofs; the processor with all its goroutines, for
one config and for several; the refinement to `JoinSpec`;
keys and configuration; the deadlines; start-up, retry and shutdown.

Every safety property of the runs has a theorem.  What is left is to widen hypotheses:

1. `NoSilentDrop` and `NoStrandedJoin` of the inner join over several partitions,
   which need an account of what an overwritten `commitErr` hides;
2. `SettlingNotStranded` over several partitions with key affinity, for the same
   reason;
3. what holds of a join whose streams send several events for a key while it settles.
