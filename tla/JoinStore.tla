------------------------------- MODULE JoinStore -------------------------------
(***************************************************************************)
(* What the processor instances share: the Scylla row of each join key,    *)
(* the Redis Bloom filters, timeout sets, partial sets and delay sets, and *)
(* the egress and corrections topics.  Everything but the delay sets and   *)
(* the topics is kept apart by config: a key is a config and a join key    *)
(* hash, as in join_state_v2.  With one config it is join_state.           *)
(*                                                                         *)
(* An event is a record of the input log, and a payload is the identity of *)
(* the record that brought it: what a projected document says is which     *)
(* records it was built from.  All stores and topics are external, their   *)
(* operations are those the source calls.                                  *)
(***************************************************************************)
EXTENDS Integers, Sequences, FiniteSets

CONSTANTS
    Workers,      \* processor instances
    Configs,      \* join configs (config_id)
    Hashes,       \* values of join_key_hash
    NameOf,       \* per config: its name, which names its delay queue
    StreamIDs,    \* values of the x-stream-id header
    Records,      \* records of the input topic
    N,            \* number of streams of a join config
    Projected,    \* streams that the projection reads
    BitsOf,       \* per key: the bits the Bloom filter keeps for it
    HasRedis,     \* redis_addr is set: Bloom filter, timeouts, durable delay
    HasTTL,       \* the join configs have ttl > 0
    PartialEgress,\* egress policy "partial" (else "inner")
    Corrections,  \* corrections_topic is set
    HasDelay,     \* post_join_delay > 0
    MaxCallFaults,\* bound on failed calls to the stores and the topics
    NoData        \* no payload, no record, no key

Keys == Configs \X Hashes

ASSUME StoreConstants ==
    /\ N \in Nat \ {0}
    /\ IsFiniteSet(StreamIDs)
    /\ Projected \subseteq StreamIDs
    /\ PartialEgress => HasTTL
    /\ {HasRedis, HasTTL, PartialEgress, Corrections, HasDelay} \subseteq BOOLEAN
    /\ MaxCallFaults \in Nat
    /\ NoData \notin Records \cup Keys \cup Workers

VARIABLES
    rows,         \* join_state: per key and stream, the payload or NoData
    bloom,        \* bits set in the Bloom filter
    timeouts,     \* keys in the timeout ZSETs
    partials,     \* keys in the sets of the partial trackers
    delayed,      \* items in the delay ZSETs
    egress,       \* documents on the egress topic, in order
    corrections,  \* documents on the corrections topic, in order
    callFaults    \* failed calls so far

storeVars == <<rows, bloom, timeouts, partials, delayed, egress, corrections,
               callFaults>>

Row == [StreamIDs -> Records \cup {NoData}]

NoRow == [s \in StreamIDs |-> NoData]

StoreInit ==
    /\ rows = [k \in Keys |-> NoRow]
    /\ bloom = {}
    /\ timeouts = {}
    /\ partials = {}
    /\ delayed = {}
    /\ egress = <<>>
    /\ corrections = <<>>
    /\ callFaults = 0

----------------------------------------------------------------------------
(* Calls.  A call succeeds, or fails, and a call that failed may have      *)
(* taken effect nevertheless.                                              *)

CallFault == callFaults < MaxCallFaults /\ callFaults' = callFaults + 1

\* A call that changes the shared state: effect when it is applied, nothing
\* of the state it would change otherwise.
Calls(ok, effect, nothing) ==
    \/ ok /\ effect /\ UNCHANGED callFaults
    \/ ~ok /\ CallFault /\ (effect \/ nothing)

\* A call that only reads.
Reads(ok) == IF ok THEN UNCHANGED callFaults ELSE CallFault

\* A call through a Redis client, which always fails once the client is closed.
RedisCalls(open, ok, effect, nothing) ==
    IF open THEN Calls(ok, effect, nothing)
            ELSE ~ok /\ nothing /\ UNCHANGED callFaults

----------------------------------------------------------------------------
(* The join state row.                                                     *)

Arrived(row) == {s \in StreamIDs : row[s] # NoData}

Payloads(row) == {row[s] : s \in Arrived(row)}

\* Bug form: a complete row has one participant more than N.
IsCompleteOffByOne(row) == Cardinality(Arrived(row)) > N

\* Engine.IsComplete, and the checks of len(ParticipantData) against N.
IsComplete(row) == Arrived(row) # {} /\ Cardinality(Arrived(row)) >= N

\* projection.Apply: the records that the projected document is built from.
Apply(row) == {row[s] : s \in Arrived(row) \cap Projected}

\* Bug form: the whole map is written.
UpsertRow(k, s, r) == rows' = [rows EXCEPT ![k] = [NoRow EXCEPT ![s] = r]]

\* UpsertParticipant, UpsertParticipantOnly: one cell of the map is written.
Upsert(k, s, r) == rows' = [rows EXCEPT ![k][s] = r]

\* Bug form: the key is gone, and a read of it is not "no row".
DeleteEntry(k) == rows' = [j \in Keys \ {k} |-> rows[j]]

DeleteState(k) == rows' = [rows EXCEPT ![k] = NoRow]

----------------------------------------------------------------------------
(* The Bloom filter, the sets and the topics.                              *)

Exists(k) == BitsOf[k] \subseteq bloom

BloomAdd(k) == bloom' = bloom \cup BitsOf[k]

ScheduleTimeout(k) == timeouts' = timeouts \cup {k}

ZRem(k) == timeouts' = timeouts \ {k}

Document(kind, k, data) == [kind |-> kind, key |-> k, data |-> data]

Produce(doc) == egress' = Append(egress, doc)

Correct(doc) == corrections' = Append(corrections, doc)

KeysOf(c) == {k \in Keys : k[1] = c}

Topic(log) == {log[i] : i \in 1 .. Len(log)}

\* Records that some document carries downstream.
Delivered == UNION {d.data : d \in Topic(egress) \cup Topic(corrections)}
=============================================================================
