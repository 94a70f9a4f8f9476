--------------------------------- MODULE Timing ---------------------------------
(***************************************************************************)
(* The deadlines of the processor on a clock: the TTL of a join, kept in   *)
(* whole seconds, the poll interval and the batch of the timeout manager,  *)
(* and the TTL of the table, after which Scylla forgets every cell of a    *)
(* row by itself.  One instance with Redis, partial egress and corrections *)
(* answers keys of one config; a handler, and a round of the manager, take *)
(* no time.  What they do between two calls is in JoinHandler and          *)
(* TimeoutManager, which have no clock.                                    *)
(***************************************************************************)
EXTENDS Integers, FiniteSets

CONSTANTS
    Keys, StreamIDs,
    N,             \* number of streams of the join
    BitsOf,        \* per key: its bits in the Bloom filter
    Second,        \* ticks of the clock in a second
    TTL,           \* ttl of the join config, in ticks
    PollInterval,  \* pollInterval of the manager (5 s), in ticks
    BatchSize,     \* batchSize of the manager (100)
    RowTTL,        \* default_time_to_live of the table (600 s), in ticks
    Rounds,        \* events of a stream with the same key
    ArriveBy,      \* no event arrives later
    MaxTime,       \* the clock stops
    MaxRefusals,   \* bound on refused produces of partial documents
    MaxCrashes,    \* bound on crashes
    MaxDown        \* a crashed instance is back after this many ticks

\* A key is answered this long after its first event at the latest: at the
\* first poll after the TTL, with every other key, refused produce and crash
\* in front of it.
Bound ==
    TTL + PollInterval * (((Cardinality(Keys) + BatchSize - 1) \div BatchSize)
                             + MaxRefusals + MaxCrashes)
        + MaxCrashes * MaxDown

ASSUME TimingConstants ==
    /\ IsFiniteSet(Keys)
    /\ {N, Second, TTL, PollInterval, BatchSize, Rounds} \subseteq Nat \ {0}
    /\ {ArriveBy, MaxTime, MaxRefusals, MaxCrashes, MaxDown} \subseteq Nat
    /\ RowTTL \in Nat
    /\ Bound < RowTTL

VARIABLES
    now,           \* the clock
    cell,          \* per key and stream: when its cell was written, or Never
    filter,        \* bits set in the Bloom filter
    deadline,      \* per key: score in the timeout ZSET, or Never
    tracked,       \* keys in the set of the partial tracker
    out,           \* documents on the topics, each with its events
    nextPoll,      \* when the ticker of the manager fires
    back,          \* when the instance is restarted, or Never while it runs
    refusals,      \* refused produces so far
    crashes,       \* crashes so far
    arrived,       \* history: <<key, stream, time>> of every event handled
    shadowed       \* history: keys whose first event was taken for a later one

clockVars == <<now, cell, filter, deadline, tracked, out, nextPoll, back,
               refusals, crashes, arrived, shadowed>>

Never == -1

Empty == [s \in StreamIDs |-> Never]

TimingInit ==
    /\ now = 0
    /\ cell = [k \in Keys |-> Empty]
    /\ filter = {}
    /\ deadline = [k \in Keys |-> Never]
    /\ tracked = {}
    /\ out = {}
    /\ nextPoll = PollInterval
    /\ back = Never
    /\ refusals = 0
    /\ crashes = 0
    /\ arrived = {}
    /\ shadowed = {}

\* The cells of a row that have not expired; GetState finds no row without one.
Live(row) == {s \in StreamIDs : row[s] # Never /\ now < row[s] + RowTTL}

Events(row) == {<<s, row[s]>> : s \in Live(row)}

Document(kind, k, row) == [kind |-> kind, key |-> k, data |-> Events(row)]

\* Bug form: the seconds of the arrival and of the TTL are added.
SecondsAdded == now \div Second + TTL \div Second

\* Bug form: the score is not in seconds.
FineDeadline == now + TTL

\* ScheduleTimeout: the score is time.Now().Add(ttl).Unix().
Deadline == (now + TTL) \div Second

----------------------------------------------------------------------------
(* The handler.                                                            *)

Running == back = Never

Known(k) == BitsOf[k] \subseteq filter

\* Handle on a first arrival: no read back, and the only timeout of the key.
FirstArrival(k, s) ==
    /\ ~Known(k)
    /\ cell' = [cell EXCEPT ![k][s] = now]
    /\ filter' = filter \cup BitsOf[k]
    /\ deadline' = [deadline EXCEPT ![k] = Deadline]
    /\ UNCHANGED <<tracked, out, shadowed>>

\* Handle on any other event: join, correct, or wait.
LaterArrival(k, s) ==
    LET row == [cell[k] EXCEPT ![s] = now]
        complete == Cardinality(Live(row)) >= N
        late == ~complete /\ k \in tracked
    IN  /\ Known(k)
        /\ out' = out \cup (IF complete THEN {Document("joined", k, row)}
                            ELSE IF late THEN {Document("late", k, row)} ELSE {})
        /\ cell' = [cell EXCEPT ![k] = IF complete \/ late THEN Empty ELSE row]
        /\ tracked' = IF late THEN tracked \ {k} ELSE tracked
        /\ shadowed' = IF \E e \in arrived : e[1] = k THEN shadowed
                                                      ELSE shadowed \cup {k}
        /\ UNCHANGED <<filter, deadline>>

Handle(k, s) ==
    /\ Running
    /\ now <= ArriveBy
    /\ <<k, s, now>> \notin arrived
    /\ Cardinality({e \in arrived : e[1] = k /\ e[2] = s}) < Rounds
    /\ FirstArrival(k, s) \/ LaterArrival(k, s)
    /\ arrived' = arrived \cup {<<k, s, now>>}
    /\ UNCHANGED <<now, nextPoll, back, refusals, crashes>>

----------------------------------------------------------------------------
(* The timeout manager.                                                    *)

\* ZRANGEBYSCORE -inf to time.Now().Unix().
DueKeys == {k \in Keys : deadline[k] # Never /\ deadline[k] <= now \div Second}

\* The first keys of the range, by score.
Batches ==
    {b \in SUBSET DueKeys :
        /\ Cardinality(b) <= BatchSize
        /\ Cardinality(b) < BatchSize => b = DueKeys
        /\ \A k \in b : \A j \in DueKeys \ b : deadline[k] <= deadline[j]}

\* A key that has an incomplete row gets a partial document.
Answerable(k) == Live(cell[k]) # {} /\ Cardinality(Live(cell[k])) < N

\* Bug form: a key whose produce was refused leaves the set as well.
RoundDropping(batch, refused) ==
    LET answered == {k \in batch \ refused : Answerable(k)}
    IN  /\ out' = out \cup {Document("partial", k, cell[k]) : k \in answered}
        /\ tracked' = tracked \cup answered
        /\ cell' = [k \in Keys |-> IF k \in answered THEN Empty ELSE cell[k]]
        /\ deadline' = [k \in Keys |-> IF k \in batch THEN Never ELSE deadline[k]]

\* processDue: a key whose produce is refused stays in the set, any other one
\* leaves it.
Round(batch, refused) ==
    LET answered == {k \in batch \ refused : Answerable(k)}
    IN  /\ out' = out \cup {Document("partial", k, cell[k]) : k \in answered}
        /\ tracked' = tracked \cup answered
        /\ cell' = [k \in Keys |-> IF k \in answered THEN Empty ELSE cell[k]]
        /\ deadline' = [k \in Keys |-> IF k \in batch \ refused THEN Never
                                                                ELSE deadline[k]]

ProcessDue ==
    /\ Running
    /\ now = nextPoll
    /\ nextPoll' = now + PollInterval
    /\ \E batch \in Batches : \E refused \in SUBSET {k \in batch : Answerable(k)} :
        /\ refusals' = refusals + Cardinality(refused)
        /\ refusals' <= MaxRefusals
        /\ Round(batch, refused)
    /\ UNCHANGED <<now, filter, back, crashes, arrived, shadowed>>

----------------------------------------------------------------------------
(* The instance and the clock.                                             *)

Crash ==
    /\ Running
    /\ crashes < MaxCrashes
    /\ crashes' = crashes + 1
    /\ \E d \in 0 .. MaxDown : back' = now + d
    /\ UNCHANGED <<now, cell, filter, deadline, tracked, out, nextPoll, refusals,
                   arrived, shadowed>>

\* The ticker of a new manager starts over.
Restart ==
    /\ back = now
    /\ back' = Never
    /\ nextPoll' = now + PollInterval
    /\ UNCHANGED <<now, cell, filter, deadline, tracked, out, refusals, crashes,
                   arrived, shadowed>>

Tick ==
    /\ now < MaxTime
    /\ IF Running THEN now < nextPoll ELSE now < back
    /\ now' = now + 1
    /\ UNCHANGED <<cell, filter, deadline, tracked, out, nextPoll, back, refusals,
                   crashes, arrived, shadowed>>

TimingNext ==
    \/ \E k \in Keys, s \in StreamIDs : Handle(k, s)
    \/ ProcessDue
    \/ Crash
    \/ Restart
    \/ Tick

TimingSpec == TimingInit /\ [][TimingNext]_clockVars

----------------------------------------------------------------------------
(* Properties.                                                             *)

\* A key is answered, by a join or by a partial document, at most Bound after
\* its first event, through refused produces and crashes; unless the Bloom
\* filter took that event for a later one, and scheduled nothing.
AnsweredInTime ==
    \A e \in arrived :
        (now > e[3] + Bound /\ e[1] \notin shadowed) => \E d \in out : d.key = e[1]

\* No event that waits in a row is left to the table TTL: a join, a correction
\* or the timeout of its key takes it out before it is forgotten.
NoEventExpires ==
    \A k \in Keys \ shadowed : \A s \in StreamIDs :
        cell[k][s] # Never => now < cell[k][s] + RowTTL

\* Events of all streams that arrive within the TTL, less the second that is
\* lost to truncation, are joined, whatever the manager or the filter does.
JoinedWhenInTime ==
    \A k \in Keys : \A es \in SUBSET {e \in arrived : e[1] = k} :
        (/\ \A s \in StreamIDs : \E e \in es : e[2] = s
         /\ \A e, f \in es : f[3] - e[3] <= TTL - Second)
        => \E d \in out : d.key = k /\ d.kind = "joined"
=============================================================================
