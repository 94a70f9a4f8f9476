------------------------------ MODULE EgressProofs ------------------------------
(***************************************************************************)
(* Proofs about what becomes of a key, for a processor with Redis whose    *)
(* calls to the stores and topics do not fail, through crashes, evictions  *)
(* and hand-overs: a partial egress is followed up.                        *)
(***************************************************************************)
EXTENDS ProcessorProofs

\* With Redis, and no call fails: a flush removes an item whose produce failed
\* as one that is published.
Durable == HasRedis = TRUE /\ MaxCallFaults = 0

\* Nothing waits in memory; what a flush has in hand is in the set, or is
\* published, and it deletes and removes only what is published.
ItemsKept ==
    \A t \in Tasks :
        /\ pending[t] = <<>>
        /\ Topic(dq[t].todo) \subseteq delayed \cup Topic(egress)
        /\ dq[t].pc \in {"delete", "zrem"} => Item(t) \in Topic(egress)

DurableInv == OwnInv /\ ItemsKept

----------------------------------------------------------------------------
(* Lists and topics.                                                       *)

\* A list that is not empty has its head, and what follows.
LEMMA HeadAndTail ==
    ASSUME NEW S, NEW s \in Seq(S), s # <<>>
    PROVE  /\ Topic(s) = {Head(s)} \cup Topic(Tail(s))
           /\ Tail(s) \in Seq(S) /\ Head(s) \in S
  <1>1. /\ Len(s) \in Nat \ {0} /\ Head(s) = s[1] /\ Head(s) \in S
        /\ Tail(s) \in Seq(S) /\ Len(Tail(s)) = Len(s) - 1
        /\ \A i \in 1 .. Len(s) - 1 : Tail(s)[i] = s[i + 1]
    BY HeadTailProperties, EmptySeq, LenProperties
  <1>2. ASSUME NEW i \in 1 .. Len(s) PROVE s[i] \in {Head(s)} \cup Topic(Tail(s))
    <2>1. CASE i = 1
      BY <1>1, <2>1
    <2>2. CASE i # 1
      <3>1. i - 1 \in 1 .. Len(Tail(s)) /\ Tail(s)[i - 1] = s[(i - 1) + 1] /\ (i - 1) + 1 = i
        BY <1>1, <2>2
      <3>2. QED
        BY <3>1 DEF Topic
    <2>3. QED
      BY <2>1, <2>2
  <1>3. ASSUME NEW i \in 1 .. Len(Tail(s)) PROVE Tail(s)[i] \in Topic(s)
    <2>1. i + 1 \in 1 .. Len(s) /\ Tail(s)[i] = s[i + 1]
      BY <1>1
    <2>2. QED
      BY <2>1 DEF Topic
  <1>4. Head(s) \in Topic(s)
    <2>1. 1 \in 1 .. Len(s)
      BY <1>1
    <2>2. QED
      BY <1>1, <2>1 DEF Topic
  <1>5. QED
    BY <1>1, <1>2, <1>3, <1>4 DEF Topic

\* The documents of both topics stay.
LEMMA TopicsGrow ==
    ASSUME OwnInv, [Next]_vars
    PROVE  /\ Topic(egress) \subseteq Topic(egress')
           /\ Topic(corrections) \subseteq Topic(corrections')
  <1>0. LogsOK /\ SharedInv /\ LogsOK' /\ egress \in Seq(OwnDocuments) /\ corrections \in Seq(OwnDocuments)
    BY OwnStep DEF OwnInv, SharedInv, LogsOK
  <1>1. \/ egress' = egress
        \/ \E d : Produce(d)
    <2>1. ASSUME NEW w \in Workers,
                 \/ LoopStep(w) \/ CrashStep(w) \/ KillStep(w) \/ GroupStep(w)
                 \/ Call(w) \/ Return(w)
          PROVE  egress' = egress
      BY <2>1 DEF storeVars, LoopStep, CrashStep, KillStep, GroupStep, Call, StartHandle,
                  Return, ProcessEnds
    <2>2. ASSUME NEW w \in Workers, Handle(w) PROVE egress' = egress \/ \E d : Produce(d)
      BY <2>2 DEF Handle, HandleSteps, BloomExists, UpsertParticipantOnly, AddToBloom,
           ScheduleFirst, UpsertParticipant, ReadBack, Contains, PublishCorrection, Untrack,
           DropLate, Enqueue, Publish, DeleteAfterEgress, Calls
    <2>3. ASSUME NEW t, Timeouts(t) \/ Delay(t) PROVE egress' = egress \/ \E d : Produce(d)
      BY <2>3 DEF Timeouts, TimeoutSteps, PollDue, CheckDue, PublishPartial, TrackPartial,
           DeleteExpired, RemoveDue, Delay, DelaySteps, FlushMemory, FlushRedis,
           DelayPublish, DelayDelete, DelayZRem, Calls, storeVars
    <2>4. CASE UNCHANGED vars
      BY <2>4 DEF vars, storeVars
    <2>5. QED
      BY <2>1, <2>2, <2>3, <2>4 DEF Next
  <1>2. \/ corrections' = corrections
        \/ \E d : Correct(d)
    <2>1. ASSUME NEW w \in Workers,
                 \/ LoopStep(w) \/ CrashStep(w) \/ KillStep(w) \/ GroupStep(w)
                 \/ Call(w) \/ Return(w)
          PROVE  corrections' = corrections
      BY <2>1 DEF storeVars, LoopStep, CrashStep, KillStep, GroupStep, Call, StartHandle,
                  Return, ProcessEnds
    <2>2. ASSUME NEW w \in Workers, Handle(w) PROVE corrections' = corrections \/ \E d : Correct(d)
      BY <2>2 DEF Handle, HandleSteps, BloomExists, UpsertParticipantOnly, AddToBloom,
           ScheduleFirst, UpsertParticipant, ReadBack, Contains, PublishCorrection, Untrack,
           DropLate, Enqueue, Publish, DeleteAfterEgress, Calls
    <2>3. ASSUME NEW t, Timeouts(t) \/ Delay(t) PROVE corrections' = corrections
      BY <2>3 DEF Timeouts, TimeoutSteps, PollDue, CheckDue, PublishPartial, TrackPartial,
           DeleteExpired, RemoveDue, Delay, DelaySteps, FlushMemory, FlushRedis,
           DelayPublish, DelayDelete, DelayZRem, storeVars
    <2>4. CASE UNCHANGED vars
      BY <2>4 DEF vars, storeVars
    <2>5. QED
      BY <2>1, <2>2, <2>3, <2>4 DEF Next
  <1>3. ASSUME NEW s \in Seq(OwnDocuments), NEW d PROVE Topic(s) \subseteq Topic(Append(s, d))
    <2>1. s \in Seq(OwnDocuments \cup {d}) /\ d \in OwnDocuments \cup {d}
      BY SeqMonotonic
    <2>2. Topic(Append(s, d)) = Topic(s) \cup {d}
      BY <2>1, Appended
    <2>3. QED
      BY <2>2
  <1>4. QED
    BY <1>0, <1>1, <1>2, <1>3 DEF Produce, Correct

----------------------------------------------------------------------------
(* The delay queue.                                                        *)

\* What a flush does with the item in hand.
LEMMA FlushMoves ==
    ASSUME Durable, DurableInv, NEW t \in Tasks, NEW open, DelaySteps(t, open)
    PROVE  /\ pending' = pending
           /\ \A s \in Tasks \ {t} : dq'[s] = dq[s]
           /\ \/ /\ UNCHANGED <<rows, egress, delayed>> /\ dq'[t].pc = "publish"
                 /\ Topic(dq'[t].todo) \subseteq InQueue(t[2])
              \/ /\ UNCHANGED <<rows, delayed>> /\ Produce(Item(t)) /\ dq[t].pc = "publish"
                 /\ dq'[t].pc = "delete" /\ dq'[t].todo = dq[t].todo
              \/ /\ UNCHANGED <<egress, delayed>> /\ dq[t].pc = "delete"
                 /\ DeleteState(<<t[2], Item(t).key[2]>>)
                 /\ dq'[t].pc = "zrem" /\ dq'[t].todo = dq[t].todo
              \/ /\ UNCHANGED <<rows, egress>> /\ dq[t].pc = "zrem"
                 /\ delayed' = delayed \/ delayed' = delayed \ {Item(t)}
                 /\ dq'[t].todo = Tail(dq[t].todo) /\ dq'[t].pc \in {"idle", "publish"}
  <1>0. /\ HasRedis = TRUE /\ ~ CallFault /\ QueuesOK /\ IsFiniteSet(delayed)
        /\ dq \in [Tasks -> FlushStates]
    BY NoFaults DEF Durable, DurableInv, OwnInv, SharedInv, QueuesOK, FlushStates
  <1>1. CASE FlushRedis(t, open)
    <2>1. PICK due \in SUBSET InQueue(t[2]) : \E batch \in Orders(due) :
            dq' = [dq EXCEPT ![t] = [pc |-> "publish", todo |-> batch]]
      BY <1>1 DEF FlushRedis
    <2>2. PICK batch \in Orders(due) :
            dq' = [dq EXCEPT ![t] = [pc |-> "publish", todo |-> batch]]
      BY <2>1
    <2>3. IsFiniteSet(due)
      BY <1>0, <2>1, FS_Subset DEF InQueue
    <2>4. batch \in Seq(due)
      BY <2>2, <2>3, OrdersList
    <2>5. Topic(batch) \subseteq due
      BY <2>4, ElementOfSeq DEF Topic
    <2>6. dq'[t].pc = "publish" /\ dq'[t].todo = batch
          /\ \A s \in Tasks \ {t} : dq'[s] = dq[s]
      BY <1>0, <2>2
    <2>7. QED
      BY <1>1, <2>1, <2>5, <2>6 DEF FlushRedis, storeVars
  <1>2. CASE DelayPublish(t)
    <2>1. /\ dq[t].pc = "publish" /\ Produce(Item(t)) /\ dq' = [dq EXCEPT ![t].pc = "delete"]
          /\ UNCHANGED <<rows, delayed, pending>>
      BY <1>0, <1>2 DEF DelayPublish, Calls
    <2>2. QED
      BY <1>0, <2>1 DEF FlushStates
  <1>3. CASE DelayDelete(t)
    <2>1. /\ dq[t].pc = "delete" /\ DeleteState(<<t[2], Item(t).key[2]>>)
          /\ dq' = [dq EXCEPT ![t].pc = "zrem"]
          /\ UNCHANGED <<egress, delayed, pending>>
      BY <1>0, <1>3 DEF DelayDelete, Calls, ItemDone
    <2>2. QED
      BY <1>0, <2>1 DEF FlushStates
  <1>4. CASE DelayZRem(t, open)
    <2>1. /\ dq[t].pc = "zrem" /\ NextItem(t)
          /\ delayed' = delayed \/ delayed' = delayed \ {Item(t)}
          /\ UNCHANGED <<rows, egress, pending>>
      BY <1>0, <1>4 DEF DelayZRem, RedisCalls, Calls
    <2>2. QED
      BY <1>0, <2>1 DEF NextItem, FlushStates
  <1>5. QED
    BY <1>0, <1>1, <1>2, <1>3, <1>4 DEF DelaySteps, FlushMemory

\* Everybody else but a handler that queues its join leaves the queue alone.
LEMMA QueueMoves ==
    ASSUME Durable, DurableInv, [Next]_vars
    PROVE  \/ UNCHANGED <<pending, dq, delayed>>
           \/ \E w \in Workers : /\ Handle(w) /\ UNCHANGED <<pending, dq>>
                                 /\ h[w].pc = "enqueue" /\ delayed' = delayed \cup {Joined(w)}
           \/ \E w \in Workers : ProcessEnds(w) /\ delayed' = delayed
           \/ \E w \in Workers, c \in Configs : Delay(<<w, c>>)
  <1>0. HasRedis = TRUE /\ ~ CallFault
    BY NoFaults DEF Durable, DurableInv
  <1>1. ASSUME NEW w \in Workers, LoopStep(w) \/ GroupStep(w) \/ Call(w) \/ Return(w)
        PROVE  UNCHANGED <<pending, dq, delayed>>
    BY <1>1 DEF LoopStep, GroupStep, Call, StartHandle, Return, storeVars, delayVars
  <1>2. ASSUME NEW w \in Workers, CrashStep(w) \/ KillStep(w)
        PROVE  ProcessEnds(w) /\ delayed' = delayed
    BY <1>2 DEF CrashStep, KillStep, ProcessEnds, storeVars
  <1>3. ASSUME NEW t, Timeouts(t) PROVE UNCHANGED <<pending, dq, delayed>>
    BY <1>3 DEF Timeouts, TimeoutSteps, PollDue, CheckDue, PublishPartial, TrackPartial,
         DeleteExpired, RemoveDue, storeVars, delayVars
  <1>4. ASSUME NEW w \in Workers, Handle(w)
        PROVE  /\ UNCHANGED <<pending, dq>>
               /\ delayed' = delayed \/ (h[w].pc = "enqueue" /\ delayed' = delayed \cup {Joined(w)})
    BY <1>0, <1>4
       DEF Handle, HandleSteps, BloomExists, UpsertParticipantOnly, AddToBloom,
           ScheduleFirst, UpsertParticipant, ReadBack, Contains, PublishCorrection, Untrack,
           DropLate, Enqueue, Publish, DeleteAfterEgress, Schedule, Calls, delayVars
  <1>5. CASE UNCHANGED vars
    BY <1>5 DEF vars, storeVars, delayVars
  <1>6. QED
    BY <1>1, <1>2, <1>3, <1>4, <1>5 DEF Next

\* What becomes of the items in one step.
LEMMA ItemsStep ==
    ASSUME Durable
    PROVE  DurableInv /\ [Next]_vars => DurableInv' /\ delayed \subseteq delayed' \cup Topic(egress')
  <1> SUFFICES ASSUME DurableInv, [Next]_vars
               PROVE  DurableInv' /\ delayed \subseteq delayed' \cup Topic(egress')
    OBVIOUS
  <1> DEFINE Goal == ItemsKept' /\ delayed \subseteq delayed' \cup Topic(egress')
  <1>0. /\ OwnInv /\ OwnInv' /\ ItemsKept /\ QueuesOK /\ QueuesOK' /\ HasRedis = TRUE
        /\ Topic(egress) \subseteq Topic(egress')
    BY OwnStep, TopicsGrow DEF DurableInv, OwnInv, SharedInv, Durable
  <1>1. ASSUME UNCHANGED <<pending, dq>>, delayed \subseteq delayed' PROVE Goal
    BY <1>0, <1>1 DEF ItemsKept, Item
  <1>2. ASSUME NEW w \in Workers, ProcessEnds(w), delayed' = delayed PROVE Goal
    <2>1. \A t \in Tasks :
            /\ pending'[t] = pending[t] \/ pending'[t] = <<>>
            /\ dq'[t] = dq[t] \/ dq'[t] = Resting
      BY <1>2 DEF ProcessEnds, DelayKilled
    <2>2. Topic(<<>>) = {}
      BY EmptySeq DEF Topic
    <2>3. ASSUME NEW t \in Tasks
          PROVE  /\ pending'[t] = <<>>
                 /\ Topic(dq'[t].todo) \subseteq delayed' \cup Topic(egress')
                 /\ dq'[t].pc \in {"delete", "zrem"} => Head(dq'[t].todo) \in Topic(egress')
      <3>1. CASE dq'[t] = dq[t]
        BY <1>0, <1>2, <2>1, <3>1 DEF ItemsKept, Item
      <3>2. CASE dq'[t] = Resting
        BY <1>0, <2>1, <2>2, <3>2 DEF ItemsKept, Resting
      <3>3. QED
        BY <2>1, <3>1, <3>2
    <2>4. QED
      BY <1>2, <2>3 DEF ItemsKept, Item
  <1>3. ASSUME NEW w \in Workers, NEW c \in Configs, Delay(<<w, c>>) PROVE Goal
    <2> DEFINE t == <<w, c>>
    <2>0. t \in Tasks /\ DelaySteps(t, RedisOpen(t[1]))
      BY <1>3 DEF Tasks, Delay
    <2> HIDE DEF t
    <2>1. /\ pending' = pending /\ \A s \in Tasks \ {t} : dq'[s] = dq[s]
      BY <2>0, FlushMoves
    <2>2. /\ delayed \subseteq delayed' \cup Topic(egress')
          /\ Topic(dq'[t].todo) \subseteq delayed' \cup Topic(egress')
          /\ dq'[t].pc \in {"delete", "zrem"} => Head(dq'[t].todo) \in Topic(egress')
      <3>1. CASE /\ UNCHANGED <<rows, egress, delayed>> /\ dq'[t].pc = "publish"
                 /\ Topic(dq'[t].todo) \subseteq InQueue(t[2])
        BY <3>1 DEF InQueue
      <3>2. CASE /\ delayed' = delayed /\ Produce(Item(t)) /\ dq[t].pc = "publish"
                 /\ dq'[t].todo = dq[t].todo
        <4>1. Item(t) \in OwnDocuments /\ LogsOK
          BY <1>0, <2>0, <3>2, ItemFacts DEF OwnInv, SharedInv
        <4>2. Item(t) \in Topic(egress')
          BY <3>2, <4>1, TopicGrows
        <4>3. QED
          BY <1>0, <2>0, <3>2, <4>2 DEF ItemsKept, Item
      <3>3. CASE egress' = egress /\ delayed' = delayed /\ dq[t].pc = "delete"
                 /\ dq'[t].todo = dq[t].todo
        BY <1>0, <2>0, <3>3 DEF ItemsKept, Item
      <3>4. CASE /\ egress' = egress /\ dq[t].pc = "zrem"
                 /\ delayed' = delayed \/ delayed' = delayed \ {Item(t)}
                 /\ dq'[t].todo = Tail(dq[t].todo) /\ dq'[t].pc \in {"idle", "publish"}
        <4>1. Item(t) \in Topic(egress) /\ Topic(dq[t].todo) \subseteq delayed \cup Topic(egress)
          BY <1>0, <2>0, <3>4 DEF ItemsKept
        <4>2. dq[t].todo \in Seq(OwnDocuments) /\ dq[t].todo # <<>>
          BY <1>0, <2>0, <3>4 DEF QueuesOK
        <4>3. Topic(Tail(dq[t].todo)) \subseteq Topic(dq[t].todo)
          BY <4>2, HeadAndTail
        <4>4. QED
          BY <3>4, <4>1, <4>3
      <3>5. QED
        BY <2>0, <3>1, <3>2, <3>3, <3>4, FlushMoves
    <2>3. ASSUME NEW s \in Tasks
          PROVE  /\ pending'[s] = <<>>
                 /\ Topic(dq'[s].todo) \subseteq delayed' \cup Topic(egress')
                 /\ dq'[s].pc \in {"delete", "zrem"} => Head(dq'[s].todo) \in Topic(egress')
      <3>1. CASE s = t
        BY <1>0, <2>0, <2>1, <2>2, <3>1 DEF ItemsKept
      <3>2. CASE s # t
        BY <1>0, <2>1, <2>2, <3>2 DEF ItemsKept, Item
      <3>3. QED
        BY <3>1, <3>2
    <2>4. QED
      BY <2>2, <2>3 DEF ItemsKept, Item
  <1>4. QED
    BY <1>0, <1>1, <1>2, <1>3, QueueMoves DEF DurableInv

\* It holds in the beginning.
LEMMA ItemsInit == Init => DurableInv
  <1> SUFFICES ASSUME Init PROVE DurableInv
    OBVIOUS
  <1>1. \A t \in Tasks : pending[t] = <<>> /\ dq[t].pc = "idle" /\ dq[t].todo = <<>>
    BY DEF Init, DelayInit, Resting
  <1>2. Topic(<<>>) = {}
    BY EmptySeq DEF Topic
  <1>3. ItemsKept
    BY <1>1, <1>2 DEF ItemsKept
  <1>4. QED
    BY <1>3, OwnInit DEF DurableInv

----------------------------------------------------------------------------
\* The names of the configs keep their delay queues apart.
OwnQueues == \A c, d \in Configs : NameOf[c] = NameOf[d] => c = d

\* A correction or the full join of the key went out, or the key is tracked, or
\* its tracking has failed: whatever happens now, this remains.
Settles(k) ==
    \/ k \in partials \cup untracked
    \/ \E c \in Topic(corrections) : c.key = k
    \/ \E j \in Topic(egress) : j.kind = "joined" /\ j.key = k

\* The key is settled, or will be by the timeout manager or by a handler.
Due(k) ==
    \/ Settles(k)
    \/ IsComplete(rows[k])
    \/ k \in timeouts /\ Arrived(rows[k]) # {}

\* Only joins are delayed, and a flush has items of its own config.
JoinsWait ==
    /\ \A d \in delayed : d.kind = "joined"
    /\ \A t \in Tasks : \A d \in Topic(dq[t].todo) : d.kind = "joined" /\ d.key[1] = t[2]

\* What a task of the timeout manager has to do with a key.
TaskDue(t) ==
    \A k \in Keys :
        /\ k \in tm[t].todo => Due(k)
        /\ (tm[t].key = k /\ tm[t].pc \in {"publish", "track"}) => Due(k)
        /\ (tm[t].key = k /\ tm[t].pc = "delete") => Settles(k)
        /\ (tm[t].key = k /\ tm[t].pc = "zrem") => Settles(k) \/ IsComplete(rows[k])

\* What a handler has to do with a key.
HandlerDue(w) ==
    \A k \in Keys :
        Key(w) = k =>
            /\ h[w].pc \in {"add", "schedule"} => Settles(k) \/ Arrived(rows[k]) # {}
            /\ h[w].pc \in {"untrack", "drop"} => \E c \in Topic(corrections) : c.key = k
            /\ h[w].pc = "delete" => \E j \in Topic(egress) : j.kind = "joined" /\ j.key = k

TimeoutsDue == (\A k \in timeouts : Due(k)) /\ (\A t \in Tasks : TaskDue(t))

HandlersDue == \A w \in Workers : HandlerDue(w)

PartialsDue == \A d \in Topic(egress) : d.kind = "partial" => Due(d.key)

FollowInv == DurableInv /\ JoinsWait /\ TimeoutsDue /\ HandlersDue /\ PartialsDue

\* What a step must not take from a key.
Grows(k) ==
    /\ Settles(k) => Settles(k)'
    /\ IsComplete(rows[k]) => Settles(k)' \/ IsComplete(rows'[k])
    /\ Arrived(rows[k]) # {} => Settles(k)' \/ Arrived(rows'[k]) # {}
    /\ k \in timeouts => k \in timeouts' \/ Settles(k)' \/ IsComplete(rows'[k])

\* The topics keep their documents.
TopicsStay ==
    /\ Topic(egress) \subseteq Topic(egress')
    /\ Topic(corrections) \subseteq Topic(corrections')

\* An event that is stored leaves a complete row complete.
LEMMA UpsertGrows ==
    ASSUME RowsOK, NEW r \in Records, Upsert(KeyOf[r], StreamOf[r], r), NEW k \in Keys
    PROVE  /\ IsComplete(rows[k]) => IsComplete(rows'[k])
           /\ Arrived(rows[k]) # {} => Arrived(rows'[k]) # {}
           /\ k = KeyOf[r] => Arrived(rows'[k]) # {}
  <1>1. /\ KeyOf[r] \in Keys /\ StreamOf[r] \in StreamIDs /\ r # NoData
        /\ N \in Nat /\ IsFiniteSet(StreamIDs)
    BY HandlerConstants, StoreConstants
  <1>2. \A s \in StreamIDs :
          rows'[k][s] = IF k = KeyOf[r] /\ s = StreamOf[r] THEN r ELSE rows[k][s]
    BY <1>1 DEF RowsOK, Upsert, Row
  <1>3. Arrived(rows[k]) \subseteq Arrived(rows'[k]) /\ Arrived(rows'[k]) \subseteq StreamIDs
    BY <1>1, <1>2 DEF Arrived
  <1>4. k = KeyOf[r] => StreamOf[r] \in Arrived(rows'[k])
    BY <1>1, <1>2 DEF Arrived
  <1>5. /\ Cardinality(Arrived(rows[k])) \in Nat /\ Cardinality(Arrived(rows'[k])) \in Nat
        /\ Cardinality(Arrived(rows[k])) <= Cardinality(Arrived(rows'[k]))
    BY <1>1, <1>3, FS_Subset, FS_CardinalityType
  <1>6. QED
    BY <1>1, <1>3, <1>4, <1>5 DEF IsComplete

\* A step that only deletes rows of settled keys, and only removes such keys or
\* complete ones from the timeouts, takes nothing from any key.
LEMMA KeysGrow ==
    ASSUME RowsOK, TopicsStay,
           \A k \in partials : k \in partials' \/ \E c \in Topic(corrections) : c.key = k,
           untracked \subseteq untracked',
           \/ rows' = rows
           \/ \E r \in Records : Upsert(KeyOf[r], StreamOf[r], r)
           \/ \E j \in Keys : Settles(j) /\ DeleteState(j),
           \A k \in timeouts : k \in timeouts' \/ Settles(k) \/ IsComplete(rows[k])
    PROVE  \A k \in Keys : Grows(k)
  <1> SUFFICES ASSUME NEW k \in Keys PROVE Grows(k)
    OBVIOUS
  <1>1. Settles(k) => Settles(k)'
    BY DEF Settles, TopicsStay
  <1>2. /\ IsComplete(rows[k]) => Settles(k)' \/ IsComplete(rows'[k])
        /\ Arrived(rows[k]) # {} => Settles(k)' \/ Arrived(rows'[k]) # {}
    <2>1. CASE rows' = rows
      BY <2>1
    <2>2. ASSUME NEW r \in Records, Upsert(KeyOf[r], StreamOf[r], r)
          PROVE  /\ IsComplete(rows[k]) => IsComplete(rows'[k])
                 /\ Arrived(rows[k]) # {} => Arrived(rows'[k]) # {}
      BY <2>2, UpsertGrows
    <2>3. ASSUME NEW j \in Keys, Settles(j), DeleteState(j)
          PROVE  Settles(k) \/ rows'[k] = rows[k]
      BY <2>3 DEF DeleteState, RowsOK
    <2>4. QED
      BY <1>1, <2>1, <2>2, <2>3
  <1>3. QED
    BY <1>1, <1>2 DEF Grows

\* What was due stays due.
LEMMA DueStays ==
    ASSUME NEW k, Grows(k)
    PROVE  Due(k) => Due(k)'
  BY DEF Grows, Due

\* A step that takes nothing from any key has to care for what is new only.
LEMMA FollowMoves ==
    ASSUME FollowInv, OwnInv', TopicsStay, \A k \in Keys : Grows(k),
           \A k \in timeouts' : k \in timeouts \/ Due(k)',
           \A t \in Tasks : tm'[t] = tm[t] \/ TaskDue(t)',
           \A w \in Workers : h'[w] = h[w] \/ HandlerDue(w)',
           \A d \in Topic(egress') : d \in Topic(egress) \/ (d.kind = "partial" => Due(d.key)')
    PROVE  TimeoutsDue' /\ HandlersDue' /\ PartialsDue'
  <1>0. /\ \A k \in Keys : Due(k) => Due(k)'
        /\ timeouts' \subseteq Keys /\ timeouts \subseteq Keys
    BY DueStays DEF FollowInv, DurableInv, OwnInv, SharedInv, SetsOK
  <1>1. \A k \in timeouts' : Due(k)'
    BY <1>0 DEF FollowInv, TimeoutsDue
  <1>2. ASSUME NEW t \in Tasks PROVE TaskDue(t)'
    <2>1. CASE tm'[t] = tm[t]
      <3>1. TaskDue(t)
        BY DEF FollowInv, TimeoutsDue
      <3>2. ASSUME NEW k \in Keys
            PROVE  /\ k \in tm'[t].todo => Due(k)'
                   /\ (tm'[t].key = k /\ tm'[t].pc \in {"publish", "track"}) => Due(k)'
                   /\ (tm'[t].key = k /\ tm'[t].pc = "delete") => Settles(k)'
                   /\ (tm'[t].key = k /\ tm'[t].pc = "zrem") => Settles(k)' \/ IsComplete(rows'[k])
        BY <1>0, <2>1, <3>1 DEF TaskDue, Grows
      <3>3. QED
        BY <3>2 DEF TaskDue
    <2>2. QED
      BY <2>1
  <1>3. ASSUME NEW w \in Workers PROVE HandlerDue(w)'
    <2>1. CASE h'[w] = h[w]
      <3>1. HandlerDue(w)
        BY DEF FollowInv, HandlersDue
      <3>2. ASSUME NEW k \in Keys, KeyOf[h'[w].rec] = k
            PROVE  /\ h'[w].pc \in {"add", "schedule"} => Settles(k)' \/ Arrived(rows'[k]) # {}
                   /\ h'[w].pc \in {"untrack", "drop"} => \E c \in Topic(corrections') : c.key = k
                   /\ h'[w].pc = "delete" =>
                        \E j \in Topic(egress') : j.kind = "joined" /\ j.key = k
        BY <2>1, <3>1, <3>2 DEF HandlerDue, Key, Grows, TopicsStay
      <3>3. QED
        BY <3>2 DEF HandlerDue, Key
    <2>2. QED
      BY <2>1
  <1>4. ASSUME NEW d \in Topic(egress'), d.kind = "partial" PROVE Due(d.key)'
    <2>1. CASE d \in Topic(egress)
      <3>1. Due(d.key)
        BY <1>4, <2>1 DEF FollowInv, PartialsDue
      <3>2. d \in OwnDocuments
        BY <2>1, ElementOfSeq DEF FollowInv, DurableInv, OwnInv, SharedInv, LogsOK, Topic
      <3>3. d.key \in Keys
        BY <3>2 DEF OwnDocuments, Documents
      <3>4. QED
        BY <1>0, <3>1, <3>3
    <2>2. QED
      BY <1>4, <2>1
  <1>5. QED
    BY <1>1, <1>2, <1>3, <1>4 DEF TimeoutsDue, HandlersDue, PartialsDue

\* With Redis, partial egress and a corrections topic, no call fails.
Answering == Durable /\ OwnQueues /\ PartialEgress = TRUE /\ Corrections = TRUE

\* The timeout manager reads a row before it answers for the key, answers
\* before it deletes the state, and deletes before it removes the timeout.
LEMMA TimeoutsFollow ==
    ASSUME Answering, FollowInv, OwnInv', [Next]_vars, NEW t \in Tasks, Timeouts(t)
    PROVE  TimeoutsDue' /\ HandlersDue' /\ PartialsDue'
  <1> DEFINE Goal == TimeoutsDue' /\ HandlersDue' /\ PartialsDue'
  <1>0. /\ OwnInv /\ RowsOK /\ LogsOK /\ TimeoutsOK /\ SetsOK /\ TaskDue(t) /\ TopicsStay
        /\ \A k \in timeouts : Due(k)
        /\ ~ CallFault /\ PartialEgress = TRUE /\ Corrections = TRUE
        /\ tm \in [Tasks -> TimeoutStates]
    BY TopicsGrow, NoFaults
       DEF FollowInv, DurableInv, OwnInv, SharedInv, TimeoutsDue, TopicsStay, Answering,
           Durable, TimeoutsOK
  <1>h. h' = h
    BY DEF Timeouts
  <1> DEFINE Quiet == UNCHANGED <<rows, partials, untracked, timeouts, egress, corrections>>
  <1>q. ASSUME Quiet, TaskDue(t)', \A s \in Tasks \ {t} : tm'[s] = tm[s] PROVE Goal
    <2>1. \A k \in Keys : Grows(k)
      BY <1>0, <1>q, KeysGrow
    <2>2. QED
      BY <1>0, <1>h, <1>q, <2>1, FollowMoves
  <1>1. CASE PollDue(t, RedisOpen(t[1]))
    <2>1. PICK due \in SUBSET timeouts :
            tm' = [tm EXCEPT ![t] = [Waiting EXCEPT !.pc = "next", !.todo = due]]
      BY <1>1 DEF PollDue
    <2>2. /\ tm'[t].todo = due /\ tm'[t].pc = "next"
          /\ \A s \in Tasks \ {t} : tm'[s] = tm[s]
      BY <1>0, <2>1 DEF Waiting
    <2>3. Quiet
      BY <1>1 DEF PollDue, storeVars
    <2>4. \A k \in Keys : Grows(k)
      BY <1>0, <2>3, KeysGrow
    <2>5. \A k \in Keys : k \in tm'[t].todo => Due(k)'
      BY <1>0, <2>2, <2>4, DueStays
    <2>6. TaskDue(t)'
      BY <2>2, <2>5 DEF TaskDue
    <2>7. QED
      BY <1>q, <2>2, <2>3, <2>6
  <1>2. CASE CheckDue(t)
    <2>1. PICK k \in tm[t].todo :
            tm' = [tm EXCEPT
             ![t].key = k,
             ![t].todo = @ \ {k},
             ![t].row = rows[k],
             ![t].pc = IF Arrived(rows[k]) = {} \/ IsComplete(rows[k])
                       THEN "zrem" ELSE "publish"]
      BY <1>0, <1>2 DEF CheckDue, Reads
    <2>2. /\ tm'[t].key = k /\ tm'[t].todo = tm[t].todo \ {k}
          /\ tm'[t].pc = IF Arrived(rows[k]) = {} \/ IsComplete(rows[k])
                         THEN "zrem" ELSE "publish"
          /\ \A s \in Tasks \ {t} : tm'[s] = tm[s]
      BY <1>0, <2>1 DEF TimeoutStates
    <2>3. Quiet
      BY <1>2 DEF CheckDue
    <2>4. \A j \in Keys : Grows(j)
      BY <1>0, <2>3, KeysGrow
    <2>5. k \in Keys /\ Due(k)
      BY <1>0 DEF TimeoutStates, TaskDue
    <2>6. Arrived(rows[k]) = {} => Settles(k)
      BY <2>5 DEF Due, IsComplete
    <2>7. ASSUME NEW j \in Keys
          PROVE  /\ j \in tm'[t].todo => Due(j)'
                 /\ (tm'[t].key = j /\ tm'[t].pc \in {"publish", "track"}) => Due(j)'
                 /\ (tm'[t].key = j /\ tm'[t].pc = "delete") => Settles(j)'
                 /\ (tm'[t].key = j /\ tm'[t].pc = "zrem") => Settles(j)' \/ IsComplete(rows'[j])
      <3>1. j \in tm'[t].todo => Due(j)
        BY <1>0, <2>2 DEF TaskDue
      <3>2. Due(j) => Due(j)'
        BY <2>4, DueStays
      <3>3. tm'[t].key = j => j = k
        BY <2>2
      <3>4. (j = k /\ tm'[t].pc = "zrem") => Settles(j)' \/ IsComplete(rows'[j])
        BY <2>2, <2>3, <2>4, <2>6 DEF Grows
      <3>5. QED
        BY <2>2, <2>5, <3>1, <3>2, <3>3, <3>4
    <2>8. TaskDue(t)'
      BY <2>7 DEF TaskDue
    <2>9. QED
      BY <1>q, <2>2, <2>3, <2>8
  <1>3. CASE PublishPartial(t)
    <2>0. tm[t].pc = "publish" /\ tm[t].key \in Keys /\ tm[t].row \in RowsOf(tm[t].key)
      BY <1>0, <1>3 DEF PublishPartial, TimeoutsOK
    <2> DEFINE doc == Document("partial", tm[t].key, Apply(tm[t].row))
    <2>1. /\ Produce(doc) /\ tm' = [tm EXCEPT ![t].pc = "track"]
          /\ UNCHANGED <<rows, partials, untracked, timeouts, corrections>>
      BY <1>0, <1>3 DEF PublishPartial, Calls, TmGoto
    <2>2. doc \in OwnDocuments /\ doc.key = tm[t].key
      BY <2>0, RowFacts DEF Document
    <2>3. egress \in Seq(OwnDocuments)
      BY <1>0 DEF LogsOK
    <2>4. Topic(egress') = Topic(egress) \cup {doc}
      BY <2>1, <2>2, <2>3, Appended DEF Produce
    <2>5. \A k \in Keys : Grows(k)
      BY <1>0, <2>1, KeysGrow
    <2>6. /\ tm'[t].key = tm[t].key /\ tm'[t].todo = tm[t].todo /\ tm'[t].pc = "track"
          /\ \A s \in Tasks \ {t} : tm'[s] = tm[s]
      BY <1>0, <2>1 DEF TimeoutStates
    <2>7. \A k \in Keys : /\ k \in tm[t].todo => Due(k)'
                          /\ tm[t].key = k => Due(k)'
      BY <1>0, <2>0, <2>5, DueStays DEF TaskDue
    <2>8. TaskDue(t)'
      BY <2>6, <2>7 DEF TaskDue
    <2>9. ASSUME NEW d \in Topic(egress'), d \notin Topic(egress) PROVE Due(d.key)'
      <3>1. d = doc
        BY <2>4, <2>9
      <3>2. d.key \in Keys /\ tm[t].key = d.key
        BY <2>0, <2>2, <3>1
      <3>3. QED
        BY <2>7, <3>2
    <2>10. timeouts' = timeouts /\ \A s \in Tasks : tm'[s] = tm[s] \/ TaskDue(s)'
      BY <2>1, <2>6, <2>8
    <2>11. QED
      BY <1>0, <1>h, <2>5, <2>9, <2>10, FollowMoves
  <1>4. CASE TrackPartial(t, RedisOpen(t[1]))
    <2>0. tm[t].pc = "track" /\ tm[t].key \in Keys
      BY <1>0, <1>4 DEF TrackPartial, TimeoutsOK
    <2>1. /\ tm' = [tm EXCEPT ![t].pc = "delete"]
          /\ UNCHANGED <<rows, timeouts, egress, corrections>>
          /\ partials \subseteq partials' /\ untracked \subseteq untracked'
          /\ tm[t].key \in partials' \cup untracked'
      BY <1>0, <1>4 DEF TrackPartial, RedisCalls, Calls, TmGoto
    <2>2. \A k \in Keys : Grows(k)
      BY <1>0, <2>1, KeysGrow
    <2>3. /\ tm'[t].key = tm[t].key /\ tm'[t].todo = tm[t].todo /\ tm'[t].pc = "delete"
          /\ \A s \in Tasks \ {t} : tm'[s] = tm[s]
      BY <1>0, <2>1 DEF TimeoutStates
    <2>4. \A k \in Keys : /\ k \in tm[t].todo => Due(k)'
                          /\ tm[t].key = k => Settles(k)'
      <3>1. \A k \in Keys : k \in tm[t].todo => Due(k)'
        BY <1>0, <2>2, DueStays DEF TaskDue
      <3>2. \A k \in Keys : tm[t].key = k => Settles(k)'
        BY <2>1 DEF Settles
      <3>3. QED
        BY <3>1, <3>2
    <2>5. TaskDue(t)'
      BY <2>3, <2>4 DEF TaskDue
    <2>6. /\ timeouts' = timeouts /\ egress' = egress
          /\ \A s \in Tasks : tm'[s] = tm[s] \/ TaskDue(s)'
      BY <2>1, <2>3, <2>5
    <2>7. QED
      BY <1>0, <1>h, <2>2, <2>6, FollowMoves
  <1>5. CASE DeleteExpired(t)
    <2>0. tm[t].pc = "delete" /\ tm[t].key \in Keys
      BY <1>0, <1>5 DEF DeleteExpired, TimeoutsOK
    <2>1. PICK j \in Keys : /\ j = tm[t].key /\ DeleteState(j)
                            /\ tm' = [tm EXCEPT ![t].pc = "zrem"]
                            /\ UNCHANGED <<partials, untracked, timeouts, egress, corrections>>
      BY <1>0, <1>5, <2>0 DEF DeleteExpired, Calls, TmGoto
    <2>2. Settles(j)
      BY <1>0, <2>0, <2>1 DEF TaskDue
    <2>3. \A k \in Keys : Grows(k)
      BY <1>0, <2>1, <2>2, KeysGrow
    <2>4. /\ tm'[t].key = j /\ tm'[t].todo = tm[t].todo /\ tm'[t].pc = "zrem"
          /\ \A s \in Tasks \ {t} : tm'[s] = tm[s]
      BY <1>0, <2>1 DEF TimeoutStates
    <2>5. \A k \in Keys : k \in tm[t].todo => Due(k)'
      BY <1>0, <2>3, DueStays DEF TaskDue
    <2>6. Settles(j)'
      BY <2>2, <2>3 DEF Grows
    <2>7. TaskDue(t)'
      BY <2>4, <2>5, <2>6 DEF TaskDue
    <2>8. /\ timeouts' = timeouts /\ egress' = egress
          /\ \A s \in Tasks : tm'[s] = tm[s] \/ TaskDue(s)'
      BY <2>1, <2>4, <2>7
    <2>9. QED
      BY <1>0, <1>h, <2>3, <2>8, FollowMoves
  <1>6. CASE RemoveDue(t, RedisOpen(t[1]))
    <2>0. tm[t].pc = "zrem" /\ tm[t].key \in Keys
      BY <1>0, <1>6 DEF RemoveDue, TimeoutsOK
    <2>1. PICK j \in Keys :
            /\ j = tm[t].key /\ timeouts' \subseteq timeouts /\ timeouts \subseteq timeouts' \cup {j}
            /\ Settled(t) /\ UNCHANGED <<rows, partials, untracked, egress, corrections>>
      BY <1>0, <1>6, <2>0 DEF RemoveDue, RedisCalls, Calls, ZRem
    <2>2. Settles(j) \/ IsComplete(rows[j])
      BY <1>0, <2>0, <2>1 DEF TaskDue
    <2>3. \A k \in Keys : Grows(k)
      BY <1>0, <2>1, <2>2, KeysGrow
    <2>4. /\ tm'[t].todo = tm[t].todo /\ tm'[t].pc \in {"idle", "next"}
          /\ \A s \in Tasks \ {t} : tm'[s] = tm[s]
      BY <1>0, <2>1 DEF Settled, Waiting, TimeoutStates
    <2>5. \A k \in Keys : k \in tm[t].todo => Due(k)'
      BY <1>0, <2>3, DueStays DEF TaskDue
    <2>6. TaskDue(t)'
      BY <2>4, <2>5 DEF TaskDue
    <2>7. /\ timeouts' \subseteq timeouts /\ egress' = egress
          /\ \A s \in Tasks : tm'[s] = tm[s] \/ TaskDue(s)'
      BY <2>1, <2>4, <2>6
    <2>8. QED
      BY <1>0, <1>h, <2>3, <2>7, FollowMoves
  <1>7. QED
    BY <1>1, <1>2, <1>3, <1>4, <1>5, <1>6 DEF Timeouts, TimeoutSteps

\* A handler removes a key from the tracker and deletes a row only when a
\* correction or the full join of the key is out.
LEMMA HandlesFollow ==
    ASSUME Answering, FollowInv, OwnInv', [Next]_vars, NEW w \in Workers, Handle(w)
    PROVE  TimeoutsDue' /\ HandlersDue' /\ PartialsDue'
  <1> DEFINE Goal == TimeoutsDue' /\ HandlersDue' /\ PartialsDue'
  <1>0. /\ OwnInv /\ RowsOK /\ LogsOK /\ HandlerOK /\ SetsOK /\ HandlerDue(w) /\ TopicsStay
        /\ ~ CallFault /\ tm' = tm /\ untracked' = untracked
        /\ h \in [Workers -> HandleStates] /\ HasRedis = TRUE
    BY TopicsGrow, NoFaults
       DEF FollowInv, DurableInv, OwnInv, SharedInv, HandlersDue, TopicsStay, Answering,
           Durable, HandlerOK, Handle, timeoutVars
  <1>a. h[w].pc # "idle"
    BY DEF Handle, HandleSteps, BloomExists, UpsertParticipantOnly, AddToBloom, ScheduleFirst,
           UpsertParticipant, ReadBack, Contains, PublishCorrection, Untrack, DropLate,
           Enqueue, Publish, DeleteAfterEgress
  <1>b. PICK key \in Keys : /\ key = Key(w) /\ key = KeyOf[h[w].rec] /\ h[w].rec \in Records
                            /\ h[w].row \in RowsOf(key)
    BY <1>0, <1>a, HandlerConstants DEF HandlerOK, Key
  \* The handler of the record goes on.
  <1>g. ASSUME NEW pc, Goto(w, pc)
        PROVE  /\ h'[w].pc = pc /\ h'[w].rec = h[w].rec
               /\ \A v \in Workers \ {w} : h'[v] = h[v]
    BY <1>0, <1>g DEF Goto, HandleStates
  <1>q. ASSUME \A k \in Keys : Grows(k), \A v \in Workers \ {w} : h'[v] = h[v],
               h'[w].rec = h[w].rec,
               h'[w].pc \in {"add", "schedule"} => Settles(key)' \/ Arrived(rows'[key]) # {},
               h'[w].pc \in {"untrack", "drop"} => \E c \in Topic(corrections') : c.key = key,
               h'[w].pc = "delete" =>
                   \E j \in Topic(egress') : j.kind = "joined" /\ j.key = key,
               \A k \in timeouts' : k \in timeouts \/ Due(k)',
               \A d \in Topic(egress') : d \in Topic(egress) \/ d.kind # "partial"
        PROVE  Goal
    <2>1. ASSUME NEW k \in Keys, KeyOf[h'[w].rec] = k
          PROVE  /\ h'[w].pc \in {"add", "schedule"} => Settles(k)' \/ Arrived(rows'[k]) # {}
                 /\ h'[w].pc \in {"untrack", "drop"} => \E c \in Topic(corrections') : c.key = k
                 /\ h'[w].pc = "delete" =>
                      \E j \in Topic(egress') : j.kind = "joined" /\ j.key = k
      <3>1. k = key
        BY <1>b, <1>q, <2>1
      <3>2. QED
        BY <1>q, <3>1
    <2>2. HandlerDue(w)'
      BY <2>1 DEF HandlerDue, Key
    <2>3. \A v \in Workers : h'[v] = h[v] \/ HandlerDue(v)'
      BY <1>q, <2>2
    <2>4. QED
      BY <1>0, <1>q, <2>3, FollowMoves
  \* It goes where it owes nothing, having changed nothing that matters.
  <1>r. ASSUME UNCHANGED <<rows, partials, timeouts, egress, corrections>>,
               \A v \in Workers \ {w} : h'[v] = h[v], h'[w].rec = h[w].rec,
               h'[w].pc \notin {"add", "schedule", "untrack", "drop", "delete"}
        PROVE  Goal
    <2>1. \A k \in Keys : Grows(k)
      BY <1>0, <1>r, KeysGrow
    <2>2. QED
      BY <1>r, <1>q, <2>1
  <1>1. CASE BloomExists(w)
    <2>1. PICK pc \in {"err", "upsert", "first"} : Goto(w, pc)
      BY <1>1 DEF BloomExists
    <2>2. QED
      BY <1>1, <1>g, <1>r, <2>1 DEF BloomExists
  <1>2. CASE UpsertParticipantOnly(w) \/ UpsertParticipant(w)
    <2>1. /\ Upsert(KeyOf[h[w].rec], StreamOf[h[w].rec], h[w].rec)
          /\ UNCHANGED <<partials, timeouts, egress, corrections>>
          /\ Goto(w, "add") \/ Goto(w, "read")
      BY <1>0, <1>2 DEF UpsertParticipantOnly, UpsertParticipant, Calls, Key, Stream
    <2>2. \A k \in Keys : Grows(k)
      BY <1>0, <1>b, <2>1, KeysGrow
    <2>3. Arrived(rows'[key]) # {}
      BY <1>0, <1>b, <2>1, UpsertGrows
    <2>4. h'[w].pc \in {"add", "read"} /\ h'[w].rec = h[w].rec
          /\ \A v \in Workers \ {w} : h'[v] = h[v]
      BY <2>1, <1>g
    <2>5. QED
      BY <1>q, <2>1, <2>2, <2>3, <2>4
  <1>3. CASE AddToBloom(w)
    <2>1. /\ UNCHANGED <<rows, partials, timeouts, egress, corrections>> /\ h[w].pc = "add"
          /\ Goto(w, "schedule") \/ Goto(w, "ok")
      BY <1>0, <1>3 DEF AddToBloom, Calls
    <2>2. \A k \in Keys : Grows(k)
      BY <1>0, <2>1, KeysGrow
    <2>3. Settles(key) \/ Arrived(rows[key]) # {}
      BY <1>0, <1>b, <2>1 DEF HandlerDue
    <2>4. Settles(key)' \/ Arrived(rows'[key]) # {}
      BY <2>2, <2>3 DEF Grows
    <2>5. h'[w].pc \in {"schedule", "ok"} /\ h'[w].rec = h[w].rec
          /\ \A v \in Workers \ {w} : h'[v] = h[v]
      BY <2>1, <1>g
    <2>6. QED
      BY <1>q, <2>1, <2>2, <2>4, <2>5
  <1>4. CASE ScheduleFirst(w)
    <2>1. /\ UNCHANGED <<rows, partials, egress, corrections>> /\ h[w].pc = "schedule"
          /\ timeouts' = timeouts \cup {key} /\ Goto(w, "ok")
      BY <1>0, <1>4, <1>b DEF ScheduleFirst, Calls, ScheduleTimeout
    <2>2. \A k \in Keys : Grows(k)
      BY <1>0, <2>1, KeysGrow
    <2>3. Settles(key) \/ Arrived(rows[key]) # {}
      BY <1>0, <1>b, <2>1 DEF HandlerDue
    <2>4. Settles(key)' \/ Arrived(rows'[key]) # {}
      BY <2>2, <2>3 DEF Grows
    <2>5. Due(key)'
      BY <2>1, <2>4 DEF Due
    <2>6. \A k \in timeouts' : k \in timeouts \/ Due(k)'
      BY <2>1, <2>5
    <2>7. h'[w].pc = "ok" /\ h'[w].rec = h[w].rec /\ \A v \in Workers \ {w} : h'[v] = h[v]
      BY <2>1, <1>g
    <2>8. QED
      BY <1>q, <2>1, <2>2, <2>6, <2>7
  <1>5. CASE ReadBack(w)
    <2>1. PICK row, pc : /\ h' = [h EXCEPT ![w].row = row, ![w].pc = pc]
                         /\ pc \in {"ok", "enqueue", "publish", "contains", "err"}
      BY <1>5 DEF ReadBack, AfterRead
    <2>2. h'[w].pc = pc /\ h'[w].rec = h[w].rec /\ \A v \in Workers \ {w} : h'[v] = h[v]
      BY <1>0, <2>1 DEF HandleStates
    <2>3. QED
      BY <1>5, <1>r, <2>1, <2>2 DEF ReadBack
  <1>6. CASE Contains(w)
    <2>1. PICK pc \in {"ok", "correct"} : Goto(w, pc)
      BY <1>6 DEF Contains
    <2>2. QED
      BY <1>6, <1>g, <1>r, <2>1 DEF Contains
  <1>7. CASE PublishCorrection(w)
    <2> DEFINE doc == Document("late", Key(w), Apply(h[w].row))
    <2>1. /\ UNCHANGED <<rows, partials, timeouts, egress>> /\ Correct(doc) /\ Goto(w, "untrack")
      BY <1>0, <1>7 DEF PublishCorrection, Calls
    <2>2. doc \in OwnDocuments /\ doc.key = key /\ corrections \in Seq(OwnDocuments)
      BY <1>0, <1>b, RowFacts DEF LogsOK, Document
    <2>3. doc \in Topic(corrections')
      BY <2>1, <2>2, Appended DEF Correct
    <2>4. \A k \in Keys : Grows(k)
      BY <1>0, <2>1, KeysGrow
    <2>5. h'[w].pc = "untrack" /\ h'[w].rec = h[w].rec /\ \A v \in Workers \ {w} : h'[v] = h[v]
      BY <2>1, <1>g
    <2>6. \E c \in Topic(corrections') : c.key = key
      BY <2>2, <2>3
    <2>7. QED
      BY <1>q, <2>1, <2>4, <2>5, <2>6
  <1>8. CASE Untrack(w) \/ DropLate(w)
    <2>1. /\ h[w].pc \in {"untrack", "drop"} /\ UNCHANGED <<timeouts, egress, corrections>>
          /\ \/ rows' = rows /\ partials' = partials \ {key}
             \/ partials' = partials /\ DeleteState(key)
          /\ Goto(w, "drop") \/ Goto(w, "ok")
      BY <1>0, <1>8, <1>b DEF Untrack, DropLate, Calls
    <2>2. \E c \in Topic(corrections) : c.key = key
      BY <1>0, <1>b, <2>1 DEF HandlerDue
    <2>3. Settles(key)
      BY <2>2 DEF Settles
    <2>4. \A k \in Keys : Grows(k)
      BY <1>0, <2>1, <2>2, <2>3, KeysGrow
    <2>5. h'[w].pc \in {"drop", "ok"} /\ h'[w].rec = h[w].rec
          /\ \A v \in Workers \ {w} : h'[v] = h[v]
      BY <2>1, <1>g
    <2>6. QED
      BY <1>q, <2>1, <2>2, <2>4, <2>5
  <1>9. CASE Enqueue(w)
    <2>1. Goto(w, "ok")
      BY <1>9 DEF Enqueue
    <2>2. QED
      BY <1>9, <1>g, <1>r, <2>1 DEF Enqueue
  <1>10. CASE Publish(w)
    <2>1. /\ UNCHANGED <<rows, partials, timeouts, corrections>> /\ Produce(Joined(w))
          /\ Goto(w, "delete")
      BY <1>0, <1>10 DEF Publish, Calls
    <2>2. /\ Joined(w) \in OwnDocuments /\ Joined(w).key = key /\ Joined(w).kind = "joined"
          /\ egress \in Seq(OwnDocuments)
      BY <1>0, <1>b, RowFacts DEF LogsOK, Joined, Document
    <2>3. Topic(egress') = Topic(egress) \cup {Joined(w)}
      BY <2>1, <2>2, Appended DEF Produce
    <2>4. \A k \in Keys : Grows(k)
      BY <1>0, <2>1, KeysGrow
    <2>5. h'[w].pc = "delete" /\ h'[w].rec = h[w].rec /\ \A v \in Workers \ {w} : h'[v] = h[v]
      BY <2>1, <1>g
    <2>6. \E j \in Topic(egress') : j.kind = "joined" /\ j.key = key
      BY <2>2, <2>3
    <2>7. \A d \in Topic(egress') : d \in Topic(egress) \/ d.kind # "partial"
      BY <2>2, <2>3
    <2>8. QED
      BY <1>q, <2>1, <2>4, <2>5, <2>6, <2>7
  <1>11. CASE DeleteAfterEgress(w)
    <2>1. /\ h[w].pc = "delete" /\ UNCHANGED <<partials, timeouts, egress, corrections>>
          /\ DeleteState(key) /\ Goto(w, "ok")
      BY <1>0, <1>11, <1>b DEF DeleteAfterEgress, Calls
    <2>2. Settles(key)
      BY <1>0, <1>b, <2>1 DEF HandlerDue, Settles
    <2>3. \A k \in Keys : Grows(k)
      BY <1>0, <2>1, <2>2, KeysGrow
    <2>4. h'[w].pc = "ok" /\ h'[w].rec = h[w].rec /\ \A v \in Workers \ {w} : h'[v] = h[v]
      BY <2>1, <1>g
    <2>5. QED
      BY <1>q, <2>1, <2>3, <2>4
  <1>12. QED
    BY <1>1, <1>2, <1>3, <1>4, <1>5, <1>6, <1>7, <1>8, <1>9, <1>10, <1>11
       DEF Handle, HandleSteps

\* A flush deletes the row of a join that it has published.
LEMMA DelaysFollow ==
    ASSUME Answering, FollowInv, OwnInv', [Next]_vars, NEW t \in Tasks, Delay(t)
    PROVE  TimeoutsDue' /\ HandlersDue' /\ PartialsDue'
  <1>0. /\ Durable /\ DurableInv /\ OwnInv /\ RowsOK /\ LogsOK /\ QueuesOK /\ TopicsStay
        /\ ItemsKept /\ JoinsWait /\ DelaySteps(t, RedisOpen(t[1])) /\ ~ CallFault
        /\ UNCHANGED <<h, tm, untracked>>
    BY TopicsGrow, NoFaults
       DEF FollowInv, DurableInv, OwnInv, SharedInv, TopicsStay, Answering, Durable, Delay,
           timeoutVars
  <1>1. UNCHANGED <<partials, timeouts, corrections>>
    BY <1>0 DEF DelaySteps, FlushMemory, FlushRedis, DelayPublish, DelayDelete, DelayZRem,
                storeVars
  \* The item in hand is a join of the flushing config.
  <1>2. ASSUME dq[t].pc \in {"publish", "delete"}
        PROVE  /\ Item(t) \in OwnDocuments /\ Item(t).kind = "joined"
               /\ Item(t).key[1] = t[2] /\ Item(t).key \in Keys
               /\ <<t[2], Item(t).key[2]>> = Item(t).key
    <2>1. dq[t].todo \in Seq(OwnDocuments) /\ dq[t].todo # <<>>
      BY <1>0, <1>2 DEF QueuesOK
    <2>2. Item(t) \in Topic(dq[t].todo) /\ Item(t) \in OwnDocuments
      BY <2>1, HeadAndTail DEF Item
    <2>3. Item(t).kind = "joined" /\ Item(t).key[1] = t[2]
      BY <1>0, <2>2 DEF JoinsWait
    <2>4. Item(t).key \in Keys
      BY <2>2 DEF OwnDocuments, Documents
    <2>5. QED
      BY <2>2, <2>3, <2>4 DEF Keys
  <1>3. CASE rows' = rows /\ egress' = egress
    <2>1. \A k \in Keys : Grows(k)
      BY <1>0, <1>1, <1>3, KeysGrow
    <2>2. QED
      BY <1>0, <1>1, <1>3, <2>1, FollowMoves
  <1>4. CASE rows' = rows /\ Produce(Item(t)) /\ dq[t].pc = "publish"
    <2>1. egress \in Seq(OwnDocuments)
      BY <1>0 DEF LogsOK
    <2>2. Topic(egress') = Topic(egress) \cup {Item(t)}
      BY <1>2, <1>4, <2>1, Appended DEF Produce
    <2>3. \A k \in Keys : Grows(k)
      BY <1>0, <1>1, <1>4, KeysGrow
    <2>4. \A d \in Topic(egress') : d \in Topic(egress) \/ d.kind # "partial"
      BY <1>2, <1>4, <2>2
    <2>5. QED
      BY <1>0, <1>1, <2>3, <2>4, FollowMoves
  <1>5. CASE egress' = egress /\ dq[t].pc = "delete" /\ DeleteState(<<t[2], Item(t).key[2]>>)
    <2>1. PICK k \in Keys : k = Item(t).key /\ DeleteState(k)
      BY <1>2, <1>5
    <2>2. Item(t) \in Topic(egress) /\ Item(t).kind = "joined"
      BY <1>0, <1>2, <1>5 DEF ItemsKept
    <2>3. Settles(k)
      BY <2>1, <2>2 DEF Settles
    <2>4. \A j \in Keys : Grows(j)
      BY <1>0, <1>1, <2>1, <2>3, KeysGrow
    <2>5. QED
      BY <1>0, <1>1, <1>5, <2>4, FollowMoves
  <1>6. QED
    BY <1>0, <1>3, <1>4, <1>5, FlushMoves

\* Every other step changes no store and no topic.
LEMMA OthersFollow ==
    ASSUME Answering, FollowInv, OwnInv', [Next]_vars, UNCHANGED <<storeVars, untracked>>,
           \A t \in Tasks : tm'[t] = tm[t] \/ tm'[t] = Waiting,
           \A w \in Workers : h'[w] = h[w] \/ h'[w].pc \in {"idle", "err", "bloom", "upsert"}
    PROVE  TimeoutsDue' /\ HandlersDue' /\ PartialsDue'
  <1>0. /\ RowsOK /\ TopicsStay /\ NoData \notin Keys
        /\ UNCHANGED <<rows, partials, timeouts, egress, corrections>>
    BY TopicsGrow, StoreConstants
       DEF FollowInv, DurableInv, OwnInv, SharedInv, TopicsStay, storeVars
  <1>1. \A k \in Keys : Grows(k)
    BY <1>0, KeysGrow
  <1>2. ASSUME NEW t \in Tasks, tm'[t] = Waiting PROVE TaskDue(t)'
    BY <1>2 DEF TaskDue, Waiting
  <1>3. ASSUME NEW w \in Workers, h'[w].pc \in {"idle", "err", "bloom", "upsert"}
        PROVE  HandlerDue(w)'
    BY <1>3 DEF HandlerDue
  <1>4. QED
    BY <1>0, <1>1, <1>2, <1>3, FollowMoves

\* Only joins are ever delayed.
LEMMA WaitStep ==
    ASSUME Answering, FollowInv, [Next]_vars
    PROVE  JoinsWait'
  <1>0. /\ Durable /\ DurableInv /\ OwnInv /\ JoinsWait /\ QueuesOK /\ OwnQueues
    BY DEF FollowInv, DurableInv, OwnInv, SharedInv, Answering
  <1>1. CASE UNCHANGED <<pending, dq, delayed>>
    BY <1>0, <1>1 DEF JoinsWait
  <1>2. ASSUME NEW w \in Workers, dq' = dq, delayed' = delayed \cup {Joined(w)}
        PROVE  JoinsWait'
    BY <1>0, <1>2 DEF JoinsWait, Joined, Document
  <1>3. ASSUME NEW w \in Workers, ProcessEnds(w), delayed' = delayed PROVE JoinsWait'
    <2>1. \A t \in Tasks : dq'[t] = dq[t] \/ dq'[t] = Resting
      BY <1>3 DEF ProcessEnds, DelayKilled
    <2>2. Topic(<<>>) = {}
      BY EmptySeq DEF Topic
    <2>3. \A t \in Tasks : Topic(dq'[t].todo) = Topic(dq[t].todo) \/ Topic(dq'[t].todo) = {}
      BY <2>1, <2>2 DEF Resting
    <2>4. QED
      BY <1>0, <1>3, <2>3 DEF JoinsWait
  <1>4. ASSUME NEW w \in Workers, NEW c \in Configs, Delay(<<w, c>>) PROVE JoinsWait'
    <2> DEFINE t == <<w, c>>
    <2>0. t \in Tasks /\ DelaySteps(t, RedisOpen(t[1]))
      BY <1>4 DEF Tasks, Delay
    <2> HIDE DEF t
    <2>1. \A s \in Tasks \ {t} : dq'[s] = dq[s]
      BY <1>0, <2>0, FlushMoves
    <2>2. /\ delayed' \subseteq delayed
          /\ \A d \in Topic(dq'[t].todo) : d.kind = "joined" /\ d.key[1] = t[2]
      <3>1. CASE delayed' = delayed /\ Topic(dq'[t].todo) \subseteq InQueue(t[2])
        <4>1. ASSUME NEW d \in InQueue(t[2]) PROVE d.kind = "joined" /\ d.key[1] = t[2]
          <5>1. d \in delayed /\ NameOf[d.key[1]] = NameOf[t[2]] /\ t[2] \in Configs
            BY <2>0 DEF InQueue, Tasks
          <5>2. d.key[1] \in Configs
            BY <1>0, <5>1 DEF QueuesOK, OwnDocuments, Documents, Keys
          <5>3. QED
            BY <1>0, <5>1, <5>2 DEF OwnQueues, JoinsWait
        <4>2. QED
          BY <3>1, <4>1
      <3>2. CASE delayed' = delayed /\ dq'[t].todo = dq[t].todo
        BY <1>0, <2>0, <3>2 DEF JoinsWait
      <3>3. CASE /\ dq[t].pc = "zrem" /\ dq'[t].todo = Tail(dq[t].todo)
                 /\ delayed' = delayed \/ delayed' = delayed \ {Item(t)}
        <4>1. dq[t].todo \in Seq(OwnDocuments) /\ dq[t].todo # <<>>
          BY <1>0, <2>0, <3>3 DEF QueuesOK
        <4>2. Topic(Tail(dq[t].todo)) \subseteq Topic(dq[t].todo)
          BY <4>1, HeadAndTail
        <4>3. QED
          BY <1>0, <2>0, <3>3, <4>2 DEF JoinsWait
      <3>4. QED
        BY <1>0, <2>0, <3>1, <3>2, <3>3, FlushMoves
    <2>3. QED
      BY <1>0, <2>1, <2>2 DEF JoinsWait
  <1>5. QED
    BY <1>0, <1>1, <1>2, <1>3, <1>4, QueueMoves

\* The invariant is preserved.
LEMMA FollowStep == Answering /\ FollowInv /\ [Next]_vars => FollowInv'
  <1> SUFFICES ASSUME Answering, FollowInv, [Next]_vars PROVE FollowInv'
    OBVIOUS
  <1> DEFINE Goal == TimeoutsDue' /\ HandlersDue' /\ PartialsDue'
  <1>0. DurableInv' /\ OwnInv' /\ HandlerOK /\ h \in [Workers -> HandleStates]
    BY ItemsStep DEF FollowInv, DurableInv, Answering, OwnInv, SharedInv, HandlerOK
  <1>1. ASSUME NEW w \in Workers, LoopStep(w) \/ GroupStep(w) PROVE Goal
    <2>1. UNCHANGED <<storeVars, tm, untracked, h>>
      BY <1>1 DEF LoopStep, GroupStep, timeoutVars
    <2>2. QED
      BY <1>0, <2>1, OthersFollow
  <1>2. ASSUME NEW w \in Workers, CrashStep(w) \/ KillStep(w) PROVE Goal
    <2>1. ProcessEnds(w)
      BY <1>2 DEF CrashStep, KillStep
    <2>2. /\ \A t \in Tasks : tm'[t] = tm[t] \/ tm'[t] = Waiting
          /\ UNCHANGED <<storeVars, untracked>>
      BY <2>1 DEF ProcessEnds, TimeoutKilled, Tasks
    <2>3. \A v \in Workers : h'[v] = h[v] \/ h'[v].pc = "idle"
      BY <1>0, <2>1 DEF ProcessEnds, Ready
    <2>4. QED
      BY <1>0, <2>2, <2>3, OthersFollow
  <1>3. ASSUME NEW w \in Workers, Call(w) \/ Return(w) PROVE Goal
    <2>1. /\ UNCHANGED <<storeVars, tm, untracked>>
          /\ \A v \in Workers \ {w} : h'[v] = h[v]
          /\ h'[w].pc \in {"idle", "err", "bloom", "upsert"}
      <3>1. CASE Call(w)
        BY <1>0, <3>1 DEF Call, StartHandle, Ready, timeoutVars
      <3>2. CASE Return(w)
        BY <1>0, <3>2 DEF Return, Ready, timeoutVars
      <3>3. QED
        BY <1>3, <3>1, <3>2
    <2>2. QED
      BY <1>0, <2>1, OthersFollow
  <1>4. ASSUME NEW w \in Workers, Handle(w) PROVE Goal
    BY <1>0, <1>4, HandlesFollow
  <1>5. ASSUME NEW w \in Workers, NEW c \in Configs,
               Timeouts(<<w, c>>) \/ Delay(<<w, c>>)
        PROVE  Goal
    <2>1. PICK t \in Tasks : Timeouts(t) \/ Delay(t)
      BY <1>5 DEF Tasks
    <2>2. QED
      BY <1>0, <2>1, TimeoutsFollow, DelaysFollow
  <1>6. ASSUME UNCHANGED vars PROVE Goal
    <2>1. UNCHANGED <<storeVars, tm, untracked, h>>
      BY <1>6 DEF vars, storeVars, timeoutVars
    <2>2. QED
      BY <1>0, <2>1, OthersFollow
  <1> HIDE DEF Goal
  <1>7. Goal
    BY <1>1, <1>2, <1>3, <1>4, <1>5, <1>6 DEF Next
  <1>8. JoinsWait'
    BY WaitStep
  <1>9. QED
    BY <1>0, <1>7, <1>8 DEF FollowInv, Goal

\* Nothing is due at the start.
LEMMA FollowInit == Init => FollowInv
  <1> SUFFICES ASSUME Init PROVE FollowInv
    OBVIOUS
  <1>1. /\ timeouts = {} /\ delayed = {} /\ egress = <<>>
        /\ \A t \in Tasks : tm[t] = Waiting /\ dq[t] = Resting
        /\ \A w \in Workers : h[w].pc = "idle"
    BY DEF Init, StoreInit, TimeoutInit, DelayInit, HandlerInit, Ready, Tasks
  <1>2. Topic(<<>>) = {}
    BY EmptySeq DEF Topic
  <1>3. JoinsWait
    BY <1>1, <1>2 DEF JoinsWait, Resting
  <1>4. TimeoutsDue
    BY <1>1 DEF TimeoutsDue, TaskDue, Waiting
  <1>5. HandlersDue /\ PartialsDue
    BY <1>1, <1>2 DEF HandlersDue, HandlerDue, PartialsDue
  <1>6. QED
    BY <1>3, <1>4, <1>5, ItemsInit DEF FollowInv

\* A partial egress is followed up: as long as no call fails, the key is
\* tracked, or is still scheduled, or has been corrected or joined, whichever
\* instances crash between the produce and the tracking of the key.
THEOREM PartialsAnswered ==
    ASSUME Answering
    PROVE  Spec => []PartialsFollowedUp
  <1>1. FollowInv => PartialsFollowedUp
    BY DEF FollowInv, PartialsDue, PartialsFollowedUp, Due, Settles
  <1>2. FollowInv /\ [Next]_vars => FollowInv'
    BY FollowStep
  <1>3. QED
    BY <1>1, <1>2, FollowInit, PTL DEF Spec
================================================================================
