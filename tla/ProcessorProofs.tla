---------------------------- MODULE ProcessorProofs ----------------------------
(***************************************************************************)
(* Proofs about Processor, for every number of instances, partitions,      *)
(* records and streams and every configuration.                            *)
(***************************************************************************)
EXTENDS Processor, FiniteSetTheorems, SequenceTheorems, TLAPS

\* A step of the processor is a step of the consumer loop, or leaves the loop
\* alone: the handler, the timeout manager and the delay queue touch nothing
\* of it, and Handle returns only while the loop waits for it.
LEMMA LoopStepsOnly == [Next]_vars => [Loop!LoopNext]_(Loop!loopVars)
  <1> SUFFICES ASSUME [Next]_vars PROVE [Loop!LoopNext]_(Loop!loopVars)
    OBVIOUS
  <1> USE DEF Loop!LoopNext
  <1>1. ASSUME NEW w \in Workers, LoopStep(w) PROVE Loop!LoopNext
    BY <1>1 DEF LoopStep
  <1>2. ASSUME NEW w \in Workers, CrashStep(w) \/ KillStep(w) PROVE Loop!LoopNext
    BY <1>2 DEF CrashStep, KillStep
  <1>3. ASSUME NEW w \in Workers, GroupStep(w) PROVE Loop!LoopNext
    BY <1>3 DEF GroupStep
  <1>4. ASSUME NEW w \in Workers, Return(w) PROVE Loop!LoopNext
    <2>1. Loop!HandleReturns(w, h[w].pc = "ok")
      BY <1>4 DEF Return
    <2>2. Loop!HandlerSteps(w)
      BY <2>1 DEF Loop!HandlerSteps, Loop!HandleReturns
    <2>3. QED
      BY <2>2
  <1>5. ASSUME NEW w \in Workers,
               \/ Call(w) \/ Handle(w)
               \/ \E c \in Configs : Timeouts(<<w, c>>) \/ Delay(<<w, c>>)
        PROVE  UNCHANGED Loop!loopVars
    BY <1>5 DEF Call, Handle, Timeouts, Delay, loopVars, Loop!loopVars
  <1>6. CASE UNCHANGED vars
    BY <1>6 DEF vars, loopVars, Loop!loopVars
  <1>7. QED
    BY <1>1, <1>2, <1>3, <1>4, <1>5, <1>6 DEF Next

----------------------------------------------------------------------------
(* What is proved of the loop in ConsumerLoopProofs and PartitionProofs.   *)

LP == INSTANCE PartitionProofs WITH
          None <- NoData, Reliable <- {}, NoHandler <- {}

\* The constants of the loop are those of the processor.
LEMMA LoopAssumption == LP!LoopConstants
  BY ProcessorConstants DEF LP!LoopConstants, Loop!LoopConstants

\* The two instances of the loop are one.
LEMMA SameLoop ==
    /\ LP!LoopInit <=> Loop!LoopInit
    /\ LP!LoopNext <=> Loop!LoopNext
  <1>1. LP!LoopNext <=> Loop!LoopNext
    BY DEF LP!LoopNext, LP!LoopSteps, LP!HandlerSteps, LP!GroupSteps, LP!Poll,
           LP!FetchFails, LP!EachPartition, LP!Dispatch, LP!StepOver, LP!LeavePartition,
           LP!HandleReturns, LP!Accepts, LP!CommitOffset, LP!CommitOk, LP!CommitFails,
           LP!Exit, LP!EndFetch, LP!Crash, LP!Kill, LP!Restart, LP!RebalanceAllowed,
           LP!Assign, LP!Revoke, LP!Evict, LP!Idle, LP!Closing, LP!Stopped, LP!Fault,
           LP!Current, LP!Fetchable, LP!Ends,
           Loop!LoopNext, Loop!LoopSteps, Loop!HandlerSteps, Loop!GroupSteps, Loop!Poll,
           Loop!FetchFails, Loop!EachPartition, Loop!Dispatch, Loop!StepOver,
           Loop!LeavePartition, Loop!HandleReturns, Loop!Accepts, Loop!CommitOffset,
           Loop!CommitOk, Loop!CommitFails, Loop!Exit, Loop!EndFetch, Loop!Crash,
           Loop!Kill, Loop!Restart, Loop!RebalanceAllowed, Loop!Assign, Loop!Revoke,
           Loop!Evict, Loop!Idle, Loop!Closing, Loop!Stopped, Loop!Fault, Loop!Current,
           Loop!Fetchable, Loop!Ends
  <1>2. LP!LoopInit <=> Loop!LoopInit
    BY DEF LP!LoopInit, Loop!LoopInit, LP!Idle, Loop!Idle
  <1>3. QED
    BY <1>1, <1>2

\* The processor starts with a loop that starts, ...
LEMMA LoopStarts == Init => LP!LoopInit
  BY SameLoop DEF Init

\* ... and moves it as the loop moves.
LEMMA LoopMovesOn == [Next]_vars => [LP!LoopNext]_(LP!loopVars)
  BY LoopStepsOnly, SameLoop DEF LP!loopVars, Loop!loopVars

\* A behaviour of the processor is one of the consumer loop.
LEMMA LoopSpecified == Spec => LP!LoopSpec
  BY LoopStarts, LoopMovesOn, PTL DEF Spec, LP!LoopSpec

\* Unless the broker evicts a busy member, the handlers of the processor work on
\* a partition one at a time.
THEOREM ProcessorExclusive ==
    ASSUME MayEvict = FALSE
    PROVE  Spec => []OneHandlerPerPartition
  <1>1. LP!OneHandlerPerPartition => OneHandlerPerPartition
    BY DEF OneHandlerPerPartition, LP!OneHandlerPerPartition, Loop!OneHandlerPerPartition,
         LP!Busy, Loop!Busy
  <1>2. LP!LoopSpec => []LP!OneHandlerPerPartition
    BY LP!HandlersExclusive, LoopAssumption
  <1>3. QED
    BY <1>1, <1>2, LoopSpecified, PTL

\* The record in hand is a record of the log.
LEMMA CurrentIsRecord ==
    ASSUME LP!FetchedInv, NEW w \in Workers, loop[w].pc \in {"record", "handle", "commit"}
    PROVE  /\ loop[w].part \in Partitions
           /\ cursor[w][loop[w].part] \in Nat
           /\ cursor[w][loop[w].part] < position[w][loop[w].part]
           /\ Loop!Current(w) = <<loop[w].part, cursor[w][loop[w].part]>>
           /\ Loop!Current(w) \in Records
  <1> DEFINE p == loop[w].part
             o == cursor[w][p]
  <1>1. /\ LP!TypeInv /\ LP!InBatch(w) /\ LP!WithinLog
    BY DEF LP!FetchedInv, LP!MonotoneInv
  <1>2. p \in Partitions
    BY <1>1 DEF LP!TypeInv, LP!BusyOnPartition, LP!Busy
  <1>3. /\ o \in Nat /\ position[w][p] \in Nat /\ LogLen[p] \in Nat
        /\ o < position[w][p] /\ position[w][p] <= LogLen[p]
    BY <1>1, <1>2, LoopAssumption
       DEF LP!TypeInv, LP!LoopTypeOK, LP!InBatch, LP!WithinLog, LP!Busy, LP!LoopConstants
  <1>4. o \in 0 .. LogLen[p] - 1
    BY <1>3
  <1>5. <<p, o>> \in Records
    BY <1>2, <1>4, ProcessorConstants
  <1>6. QED
    BY <1>2, <1>3, <1>5 DEF Loop!Current

----------------------------------------------------------------------------
(* Types, and events under their own key.                                  *)

\* A row of a key has events of that key only, each in the place of its stream.
RowsOf(k) ==
    {row \in Row : \A s \in StreamIDs :
        row[s] # NoData => KeyOf[row[s]] = k /\ StreamOf[row[s]] = s}

\* A document has events of its key only.
OwnDocuments == {d \in Documents : \A r \in d.data : KeyOf[r] = d.key}

HandlePcs == {"idle", "bloom", "first", "add", "schedule", "upsert", "read",
              "contains", "correct", "untrack", "drop", "enqueue",
              "publish", "delete", "ok", "err"}

HandleStates == [pc : HandlePcs, rec : Records \cup {NoData}, row : Row]

TimeoutPcs == {"idle", "next", "publish", "track", "delete", "zrem"}

TimeoutStates == [pc : TimeoutPcs, todo : SUBSET Keys, key : Keys \cup {NoData}, row : Row]

FlushPcs == {"idle", "publish", "delete", "zrem"}

RowsOK == rows \in [Keys -> Row] /\ \A k \in Keys : rows[k] \in RowsOf(k)

SetsOK ==
    /\ bloom \subseteq UNION {BitsOf[k] : k \in Keys}
    /\ timeouts \subseteq Keys
    /\ partials \subseteq Keys
    /\ untracked \subseteq Keys
    /\ callFaults \in 0 .. MaxCallFaults

LogsOK == egress \in Seq(OwnDocuments) /\ corrections \in Seq(OwnDocuments)

\* An instance at work has a record in hand, and what it read of its key.
HandlerOK ==
    /\ h \in [Workers -> HandleStates]
    /\ \A w \in Workers :
         h[w].pc # "idle" => h[w].rec \in Records /\ h[w].row \in RowsOf(Key(w))

\* A timeout task at work on a key has what it read of that key.
TimeoutsOK ==
    /\ tm \in [Tasks -> TimeoutStates]
    /\ \A t \in Tasks :
         tm[t].pc \in {"publish", "track", "delete", "zrem"} =>
             tm[t].key \in Keys /\ tm[t].row \in RowsOf(tm[t].key)

\* A flush under way has an item.
QueuesOK ==
    /\ delayed \subseteq OwnDocuments /\ IsFiniteSet(delayed)
    /\ pending \in [Tasks -> Seq(OwnDocuments)]
    /\ dq \in [Tasks -> [pc : FlushPcs, todo : Seq(OwnDocuments)]]
    /\ \A t \in Tasks : dq[t].pc # "idle" => dq[t].todo # <<>>

SharedInv == RowsOK /\ SetsOK /\ LogsOK /\ HandlerOK /\ TimeoutsOK /\ QueuesOK

OwnInv == SharedInv /\ LP!FetchedInv

\* An empty row belongs to every key; what is read of a key makes a document
\* of it.
LEMMA RowFacts ==
    /\ NoRow \in Row
    /\ \A k \in Keys : NoRow \in RowsOf(k)
    /\ \A k \in Keys : \A row \in RowsOf(k) : \A kind \in {"joined", "partial", "late"} :
         Document(kind, k, Apply(row)) \in OwnDocuments
  <1>1. NoRow \in Row /\ \A k \in Keys : NoRow \in RowsOf(k)
    BY DEF NoRow, Row, RowsOf
  <1>2. ASSUME NEW k \in Keys, NEW row \in RowsOf(k),
               NEW kind \in {"joined", "partial", "late"}
        PROVE  Document(kind, k, Apply(row)) \in OwnDocuments
    <2>1. Apply(row) \in SUBSET Records /\ \A r \in Apply(row) : KeyOf[r] = k
      BY <1>2 DEF Apply, Arrived, RowsOf, Row
    <2>2. Document(kind, k, Apply(row)) \in Documents
      BY <2>1 DEF Document, Documents
    <2>3. QED
      BY <2>1, <2>2 DEF OwnDocuments, Document
  <1>3. QED
    BY <1>1, <1>2

\* A record is stored under its own key and stream.
LEMMA UpsertKeeps ==
    ASSUME RowsOK, NEW r \in Records, Upsert(KeyOf[r], StreamOf[r], r)
    PROVE  RowsOK'
  <1>1. KeyOf[r] \in Keys /\ StreamOf[r] \in StreamIDs
    BY HandlerConstants
  <1>2. ASSUME NEW k \in Keys
        PROVE  /\ rows'[k] \in Row
               /\ \A s \in StreamIDs :
                    rows'[k][s] = IF k = KeyOf[r] /\ s = StreamOf[r] THEN r ELSE rows[k][s]
    BY <1>1 DEF RowsOK, Upsert, Row
  <1>3. rows' \in [Keys -> Row]
    BY <1>1, <1>2 DEF RowsOK, Upsert
  <1>4. QED
    BY <1>2, <1>3 DEF RowsOK, RowsOf

\* A call that deletes a row keeps the types of the store.
LEMMA DeleteKeeps ==
    ASSUME RowsOK, NEW k \in Keys, DeleteState(k)
    PROVE  RowsOK'
  BY RowFacts DEF RowsOK, DeleteState

\* What is appended to a log is on it, with all that was.
LEMMA Appended ==
    ASSUME NEW S, NEW s \in Seq(S), NEW e \in S
    PROVE  /\ Append(s, e) \in Seq(S)
           /\ Topic(Append(s, e)) = Topic(s) \cup {e}
  <1>1. /\ Append(s, e) \in Seq(S) /\ Len(s) \in Nat
        /\ Len(Append(s, e)) = Len(s) + 1
        /\ \A i \in 1 .. Len(s) : Append(s, e)[i] = s[i]
        /\ Append(s, e)[Len(s) + 1] = e
    BY AppendProperties, LenProperties
  <1>2. ASSUME NEW i \in 1 .. Len(s) + 1 PROVE Append(s, e)[i] \in Topic(s) \cup {e}
    <2>1. i \in 1 .. Len(s) \/ i = Len(s) + 1
      BY <1>1
    <2>2. QED
      BY <1>1, <2>1 DEF Topic
  <1>3. ASSUME NEW x \in Topic(s) \cup {e} PROVE x \in Topic(Append(s, e))
    <2>1. CASE x = e
      <3>1. Len(s) + 1 \in 1 .. Len(s) + 1
        BY <1>1
      <3>2. QED
        BY <1>1, <2>1, <3>1 DEF Topic
    <2>2. CASE x \in Topic(s)
      <3>1. PICK i \in 1 .. Len(s) : x = s[i]
        BY <2>2 DEF Topic
      <3>2. i \in 1 .. Len(s) + 1
        BY <1>1
      <3>3. QED
        BY <1>1, <3>1, <3>2 DEF Topic
    <2>3. QED
      BY <2>1, <2>2
  <1>4. Topic(Append(s, e)) \subseteq Topic(s) \cup {e}
    BY <1>1, <1>2 DEF Topic
  <1>5. QED
    BY <1>1, <1>3, <1>4

\* A document that is on a topic stays there.
LEMMA TopicGrows ==
    ASSUME LogsOK, NEW d \in OwnDocuments, egress' = egress \/ Produce(d)
    PROVE  /\ Topic(egress) \subseteq Topic(egress')
           /\ Produce(d) => d \in Topic(egress')
  <1>1. egress \in Seq(OwnDocuments)
    BY DEF LogsOK
  <1>2. Topic(Append(egress, d)) = Topic(egress) \cup {d}
    BY <1>1, Appended
  <1>3. CASE egress' = egress
    <2>1. Topic(egress') = Topic(egress)
      BY <1>3
    <2>2. ~ Produce(d)
      <3> SUFFICES ASSUME Produce(d) PROVE FALSE
        OBVIOUS
      <3>1. Append(egress, d) = egress
        BY <1>3 DEF Produce
      <3>2. Len(Append(egress, d)) = Len(egress) + 1 /\ Len(egress) \in Nat
        BY <1>1, AppendProperties, LenProperties
      <3>3. QED
        BY <3>1, <3>2
    <2>3. QED
      BY <2>1, <2>2
  <1>4. CASE Produce(d)
    BY <1>2, <1>4 DEF Produce
  <1>5. QED
    BY <1>3, <1>4

\* A document is appended to one of the topics.
LEMMA ProduceKeeps ==
    ASSUME LogsOK, NEW d \in OwnDocuments,
           \/ Produce(d) /\ UNCHANGED corrections
           \/ Correct(d) /\ UNCHANGED egress
           \/ UNCHANGED <<egress, corrections>>
    PROVE  LogsOK'
  <1>1. CASE Produce(d) /\ UNCHANGED corrections
    BY <1>1, Appended DEF LogsOK, Produce
  <1>2. CASE Correct(d) /\ UNCHANGED egress
    BY <1>2, Appended DEF LogsOK, Correct
  <1>3. QED
    BY <1>1, <1>2 DEF LogsOK

\* The handler of an instance goes to another place with the same record.
LEMMA GotoKeeps ==
    ASSUME HandlerOK, NEW w \in Workers, h[w].pc # "idle", NEW pc \in HandlePcs, Goto(w, pc)
    PROVE  HandlerOK'
  <1>1. h[w].rec \in Records /\ h[w].row \in RowsOf(Key(w))
    BY DEF HandlerOK
  <1>2. h' = [h EXCEPT ![w] = [h[w] EXCEPT !.pc = pc]]
    BY DEF Goto, HandlerOK
  <1>3. /\ h'[w] = [h[w] EXCEPT !.pc = pc] /\ h'[w] \in HandleStates
        /\ h'[w].rec = h[w].rec /\ h'[w].row = h[w].row
        /\ \A v \in Workers \ {w} : h'[v] = h[v]
    BY <1>2 DEF HandlerOK, HandleStates
  <1>4. h' \in [Workers -> HandleStates]
    BY <1>2, <1>3 DEF HandlerOK
  <1>5. QED
    BY <1>1, <1>3, <1>4 DEF HandlerOK, Key

\* A handler reads and writes the row of its own record only.
LEMMA HandleKeeps ==
    ASSUME SharedInv, NEW w \in Workers, HandleSteps(w), UNCHANGED timeoutVars
    PROVE  SharedInv'
  <1>0. /\ RowsOK /\ SetsOK /\ LogsOK /\ HandlerOK /\ TimeoutsOK /\ QueuesOK
        /\ callFaults \in 0 .. MaxCallFaults /\ MaxCallFaults \in Nat
    BY StoreConstants DEF SharedInv, SetsOK
  <1>a. h[w].pc # "idle"
    BY DEF HandleSteps, BloomExists, UpsertParticipantOnly, AddToBloom, ScheduleFirst,
           UpsertParticipant, ReadBack, Contains, PublishCorrection, Untrack, DropLate,
           Enqueue, Publish, DeleteAfterEgress
  <1>b. /\ h[w].rec \in Records /\ h[w].row \in RowsOf(Key(w)) /\ Key(w) \in Keys
        /\ <<w, Key(w)[1]>> \in Tasks
    BY <1>0, <1>a, HandlerConstants DEF HandlerOK, Key, Tasks, Keys
  <1>1. HandlerOK'
    <2>1. CASE ReadBack(w)
      <3>1. PICK row, pc : /\ row \in RowsOf(Key(w)) /\ row \in Row /\ pc \in HandlePcs
                           /\ h' = [h EXCEPT ![w].row = row, ![w].pc = pc]
        BY <1>0, <1>b, <2>1, RowFacts DEF ReadBack, RowsOK, AfterRead, HandlePcs
      <3>2. h' = [h EXCEPT ![w] = [h[w] EXCEPT !.row = row, !.pc = pc]]
        BY <1>0, <3>1 DEF HandlerOK
      <3>3. /\ h'[w] \in HandleStates /\ h'[w].rec = h[w].rec /\ h'[w].row = row
            /\ \A v \in Workers \ {w} : h'[v] = h[v]
        BY <1>0, <3>1, <3>2 DEF HandlerOK, HandleStates
      <3>4. h' \in [Workers -> HandleStates]
        BY <1>0, <3>2, <3>3 DEF HandlerOK
      <3>5. QED
        BY <1>0, <1>b, <3>1, <3>3, <3>4 DEF HandlerOK, Key
    <2>2. CASE ~ ReadBack(w)
      <3>1. \E pc \in HandlePcs : Goto(w, pc)
        BY <2>2 DEF HandleSteps, BloomExists, UpsertParticipantOnly, AddToBloom,
           ScheduleFirst, UpsertParticipant, Contains, PublishCorrection, Untrack,
           DropLate, Enqueue, Publish, DeleteAfterEgress, HandlePcs
      <3>2. QED
        BY <1>0, <1>a, <3>1, GotoKeeps
    <2>3. QED
      BY <2>1, <2>2
  <1>2. RowsOK'
    <2>1. \/ UNCHANGED rows
          \/ Upsert(KeyOf[h[w].rec], StreamOf[h[w].rec], h[w].rec)
          \/ DeleteState(Key(w))
      BY DEF HandleSteps, BloomExists, UpsertParticipantOnly, AddToBloom, ScheduleFirst,
             UpsertParticipant, ReadBack, Contains, PublishCorrection, Untrack, DropLate,
             Enqueue, Publish, DeleteAfterEgress, Calls, Key, Stream
    <2>2. CASE UNCHANGED rows
      BY <1>0, <2>2 DEF RowsOK
    <2>3. QED
      BY <1>0, <1>b, <2>1, <2>2, UpsertKeeps, DeleteKeeps
  <1>3. SetsOK'
    <2>1. callFaults' \in 0 .. MaxCallFaults
      <3>1. callFaults' = callFaults \/ CallFault
        BY DEF HandleSteps, BloomExists, UpsertParticipantOnly, AddToBloom, ScheduleFirst,
               UpsertParticipant, ReadBack, Contains, PublishCorrection, Untrack, DropLate,
               Enqueue, Publish, DeleteAfterEgress, Calls, Reads, Schedule
      <3>2. QED
        BY <1>0, <3>1 DEF CallFault
    <2>2. bloom' = bloom \/ bloom' = bloom \cup BitsOf[Key(w)]
      BY DEF HandleSteps, BloomExists, UpsertParticipantOnly, AddToBloom, ScheduleFirst,
             UpsertParticipant, ReadBack, Contains, PublishCorrection, Untrack, DropLate,
             Enqueue, Publish, DeleteAfterEgress, Calls, BloomAdd
    <2>3. timeouts' = timeouts \/ timeouts' = timeouts \cup {Key(w)}
      BY DEF HandleSteps, BloomExists, UpsertParticipantOnly, AddToBloom, ScheduleFirst,
             UpsertParticipant, ReadBack, Contains, PublishCorrection, Untrack, DropLate,
             Enqueue, Publish, DeleteAfterEgress, Calls, ScheduleTimeout
    <2>4. partials' = partials \/ partials' = partials \ {Key(w)}
      BY DEF HandleSteps, BloomExists, UpsertParticipantOnly, AddToBloom, ScheduleFirst,
             UpsertParticipant, ReadBack, Contains, PublishCorrection, Untrack, DropLate,
             Enqueue, Publish, DeleteAfterEgress, Calls
    <2>5. untracked' = untracked
      BY DEF timeoutVars
    <2>6. QED
      BY <1>0, <1>b, <2>1, <2>2, <2>3, <2>4, <2>5 DEF SetsOK
  <1>4. LogsOK'
    <2>1. /\ Joined(w) \in OwnDocuments
          /\ Document("late", Key(w), Apply(h[w].row)) \in OwnDocuments
      BY <1>b, RowFacts DEF Joined
    <2>2. \/ Produce(Joined(w)) /\ UNCHANGED corrections
          \/ Correct(Document("late", Key(w), Apply(h[w].row))) /\ UNCHANGED egress
          \/ UNCHANGED <<egress, corrections>>
      BY DEF HandleSteps, BloomExists, UpsertParticipantOnly, AddToBloom, ScheduleFirst,
             UpsertParticipant, ReadBack, Contains, PublishCorrection, Untrack, DropLate,
             Enqueue, Publish, DeleteAfterEgress, Calls
    <2>3. QED
      BY <1>0, <2>1, <2>2, ProduceKeeps
  <1>5. TimeoutsOK'
    BY <1>0 DEF TimeoutsOK, timeoutVars
  <1>6. QueuesOK'
    <2>1. dq' = dq
      BY DEF HandleSteps, BloomExists, UpsertParticipantOnly, AddToBloom, ScheduleFirst,
             UpsertParticipant, ReadBack, Contains, PublishCorrection, Untrack, DropLate,
             Enqueue, Publish, DeleteAfterEgress, delayVars
    <2>2. \/ UNCHANGED <<delayed, pending>>
          \/ delayed' = delayed \cup {Joined(w)} /\ UNCHANGED pending
          \/ /\ pending' = [pending EXCEPT ![<<w, Key(w)[1]>>] = Append(@, Joined(w))]
             /\ UNCHANGED delayed
      BY DEF HandleSteps, BloomExists, UpsertParticipantOnly, AddToBloom, ScheduleFirst,
             UpsertParticipant, ReadBack, Contains, PublishCorrection, Untrack, DropLate,
             Enqueue, Publish, DeleteAfterEgress, delayVars, Schedule, Calls
    <2>3. Joined(w) \in OwnDocuments
      BY <1>b, RowFacts DEF Joined
    <2>4. delayed' \subseteq OwnDocuments /\ IsFiniteSet(delayed')
      <3>1. IsFiniteSet(delayed) => IsFiniteSet(delayed \cup {Joined(w)})
        BY FS_AddElement
      <3>2. QED
        BY <1>0, <2>2, <2>3, <3>1 DEF QueuesOK
    <2>5. pending' \in [Tasks -> Seq(OwnDocuments)]
      <3>1. pending[<<w, Key(w)[1]>>] \in Seq(OwnDocuments)
        BY <1>0, <1>b DEF QueuesOK
      <3>2. Append(pending[<<w, Key(w)[1]>>], Joined(w)) \in Seq(OwnDocuments)
        BY <2>3, <3>1, Appended
      <3>3. QED
        BY <1>0, <2>2, <3>2 DEF QueuesOK
    <2>6. QED
      BY <1>0, <2>1, <2>4, <2>5 DEF QueuesOK
  <1>7. QED
    BY <1>1, <1>2, <1>3, <1>4, <1>5, <1>6 DEF SharedInv

\* A timeout task that is not in a round, or goes on with the next key.
LEMMA TmKeeps ==
    ASSUME TimeoutsOK, NEW t \in Tasks, NEW r \in TimeoutStates,
           r.pc \in {"publish", "track", "delete", "zrem"} =>
               r.key \in Keys /\ r.row \in RowsOf(r.key),
           tm' = [tm EXCEPT ![t] = r]
    PROVE  TimeoutsOK'
  BY DEF TimeoutsOK

\* A timeout task reads and deletes the row of the key in hand only.
LEMMA TimeoutKeeps ==
    ASSUME SharedInv, NEW t \in Tasks, NEW open, TimeoutSteps(t, open), UNCHANGED <<delayVars, h>>
    PROVE  SharedInv'
  <1>0. /\ RowsOK /\ SetsOK /\ LogsOK /\ HandlerOK /\ TimeoutsOK /\ QueuesOK
        /\ callFaults \in 0 .. MaxCallFaults /\ MaxCallFaults \in Nat
        /\ tm[t] \in TimeoutStates
    BY StoreConstants DEF SharedInv, SetsOK, TimeoutsOK
  <1>a. tm[t].pc \in {"publish", "track", "delete", "zrem"} =>
            tm[t].key \in Keys /\ tm[t].row \in RowsOf(tm[t].key)
    BY <1>0 DEF TimeoutsOK
  <1> USE DEF TimeoutSteps
  <1>1. TimeoutsOK'
    <2>1. Waiting \in TimeoutStates /\ Waiting.pc = "idle"
      BY RowFacts DEF Waiting, TimeoutStates, TimeoutPcs
    <2>2. ASSUME NEW pc \in TimeoutPcs \ {"idle", "next"},
                 tm[t].pc \in {"publish", "track", "delete", "zrem"}, TmGoto(t, pc)
          PROVE  TimeoutsOK'
      <3>1. tm' = [tm EXCEPT ![t] = [tm[t] EXCEPT !.pc = pc]]
        BY <1>0, <2>2 DEF TmGoto, TimeoutsOK
      <3>2. /\ [tm[t] EXCEPT !.pc = pc] \in TimeoutStates
            /\ [tm[t] EXCEPT !.pc = pc].key = tm[t].key
            /\ [tm[t] EXCEPT !.pc = pc].row = tm[t].row
        BY <1>0, <2>2 DEF TimeoutStates
      <3>3. QED
        BY <1>0, <1>a, <2>2, <3>1, <3>2, TmKeeps
    <2>3. ASSUME NEW due \in SUBSET Keys,
                 tm' = [tm EXCEPT ![t] = [Waiting EXCEPT !.pc = "next", !.todo = due]]
          PROVE  TimeoutsOK'
      <3>1. /\ [Waiting EXCEPT !.pc = "next", !.todo = due] \in TimeoutStates
            /\ [Waiting EXCEPT !.pc = "next", !.todo = due].pc = "next"
        BY <2>1, <2>3 DEF Waiting, TimeoutStates, TimeoutPcs
      <3>2. QED
        BY <1>0, <2>3, <3>1, TmKeeps
    <2>4. ASSUME Settled(t) PROVE TimeoutsOK'
      <3>1. tm[t].todo \in SUBSET Keys
        BY <1>0 DEF TimeoutStates
      <3>2. CASE tm[t].todo = {}
        BY <1>0, <2>1, <2>4, <3>2, TmKeeps DEF Settled
      <3>3. CASE tm[t].todo # {}
        BY <2>3, <2>4, <3>1, <3>3 DEF Settled
      <3>4. QED
        BY <3>2, <3>3
    <2>5. CASE PollDue(t, open)
      BY <1>0, <2>3, <2>5 DEF PollDue, SetsOK
    <2>6. CASE CheckDue(t)
      <3>0. PICK k \in tm[t].todo, ok \in BOOLEAN :
              tm' = [tm EXCEPT
                      ![t].key = k, ![t].todo = @ \ {k},
                      ![t].row = IF ok THEN rows[k] ELSE NoRow,
                      ![t].pc = IF ~ok \/ Arrived(rows[k]) = {} \/ IsComplete(rows[k])
                                THEN "zrem"
                                ELSE IF PartialEgress THEN "publish" ELSE "delete"]
        BY <2>6 DEF CheckDue
      <3> DEFINE row == IF ok THEN rows[k] ELSE NoRow
                 pc == IF ~ok \/ Arrived(rows[k]) = {} \/ IsComplete(rows[k])
                       THEN "zrem" ELSE IF PartialEgress THEN "publish" ELSE "delete"
      <3>1. /\ row \in {rows[k], NoRow} /\ pc \in {"zrem", "publish", "delete"}
            /\ tm' = [tm EXCEPT ![t].key = k, ![t].todo = @ \ {k},
                                ![t].row = row, ![t].pc = pc]
        BY <3>0
      <3> HIDE DEF row, pc
      <3>2. k \in Keys /\ row \in RowsOf(k) /\ row \in Row
        BY <1>0, <3>1, RowFacts DEF TimeoutStates, RowsOK
      <3> DEFINE r == [tm[t] EXCEPT !.key = k, !.todo = @ \ {k}, !.row = row, !.pc = pc]
      <3>3. tm' = [tm EXCEPT ![t] = r]
        BY <1>0, <3>1 DEF TimeoutsOK
      <3>4. r \in TimeoutStates /\ r.key = k /\ r.row = row
        BY <1>0, <3>1, <3>2 DEF TimeoutStates, TimeoutPcs
      <3>5. QED
        BY <1>0, <3>2, <3>3, <3>4, TmKeeps
    <2>7. CASE PublishPartial(t) \/ TrackPartial(t, open) \/ DeleteExpired(t) \/ RemoveDue(t, open)
      BY <2>2, <2>4, <2>7
         DEF PublishPartial, TrackPartial, DeleteExpired, RemoveDue, TimeoutPcs
    <2>8. QED
      BY <2>5, <2>6, <2>7
  <1>2. RowsOK'
    <2>1. \/ UNCHANGED rows
          \/ DeleteState(tm[t].key) /\ tm[t].pc = "delete"
      BY DEF PollDue, CheckDue, PublishPartial, TrackPartial, DeleteExpired, RemoveDue,
             Calls, storeVars
    <2>2. QED
      BY <1>0, <1>a, <2>1, DeleteKeeps DEF RowsOK
  <1>3. SetsOK'
    <2>1. callFaults' \in 0 .. MaxCallFaults
      <3>1. callFaults' = callFaults \/ CallFault
        BY DEF PollDue, CheckDue, PublishPartial, TrackPartial, DeleteExpired, RemoveDue,
               Calls, Reads, RedisCalls, storeVars
      <3>2. QED
        BY <1>0, <3>1 DEF CallFault
    <2>2. /\ bloom' = bloom
          /\ timeouts' = timeouts \/ timeouts' = timeouts \ {tm[t].key}
      BY DEF PollDue, CheckDue, PublishPartial, TrackPartial, DeleteExpired, RemoveDue,
             Calls, RedisCalls, storeVars, ZRem
    <2>3. /\ \/ partials' = partials
             \/ partials' = partials \cup {tm[t].key} /\ tm[t].pc = "track"
          /\ \/ untracked' = untracked
             \/ untracked' = untracked \cup {tm[t].key} /\ tm[t].pc = "track"
      BY DEF PollDue, CheckDue, PublishPartial, TrackPartial, DeleteExpired, RemoveDue,
             Calls, RedisCalls, storeVars
    <2>4. QED
      BY <1>0, <1>a, <2>1, <2>2, <2>3 DEF SetsOK
  <1>4. LogsOK'
    <2>1. \/ /\ Produce(Document("partial", tm[t].key, Apply(tm[t].row)))
             /\ UNCHANGED corrections /\ tm[t].pc = "publish"
          \/ UNCHANGED <<egress, corrections>>
      BY DEF PollDue, CheckDue, PublishPartial, TrackPartial, DeleteExpired, RemoveDue,
             Calls, storeVars
    <2>2. tm[t].pc = "publish" =>
              Document("partial", tm[t].key, Apply(tm[t].row)) \in OwnDocuments
      BY <1>a, RowFacts
    <2>3. CASE UNCHANGED <<egress, corrections>>
      BY <1>0, <2>3 DEF LogsOK
    <2>4. QED
      BY <1>0, <2>1, <2>2, <2>3, ProduceKeeps
  <1>5. HandlerOK'
    BY <1>0 DEF HandlerOK, Key
  <1>6. QueuesOK'
    <2>1. delayed' = delayed
      BY DEF PollDue, CheckDue, PublishPartial, TrackPartial, DeleteExpired, RemoveDue,
             storeVars
    <2>2. QED
      BY <1>0, <2>1 DEF QueuesOK, delayVars
  <1>7. QED
    BY <1>1, <1>2, <1>3, <1>4, <1>5, <1>6 DEF SharedInv

FlushStates == [pc : FlushPcs, todo : Seq(OwnDocuments)]

\* An order of a finite set is a sequence, and lists what is in the set.
LEMMA OrdersList ==
    ASSUME NEW S, IsFiniteSet(S), NEW b \in Orders(S)
    PROVE  b \in Seq(S) /\ Len(b) = Cardinality(S) /\ (S # {} => b # <<>>)
  <1>1. Cardinality(S) \in Nat
    BY FS_CardinalityType
  <1>2. b \in [1 .. Cardinality(S) -> S]
    BY DEF Orders
  <1>3. b \in Seq(S) /\ Len(b) = Cardinality(S)
    BY <1>1, <1>2
  <1>4. S # {} => Cardinality(S) # 0
    BY FS_EmptySet
  <1>5. QED
    BY <1>3, <1>4

\* What a flush does with the items it has, in any state of it.
LEMMA DqKeeps ==
    ASSUME QueuesOK, NEW t \in Tasks, NEW r \in FlushStates,
           r.pc # "idle" => r.todo # <<>>,
           dq' = [dq EXCEPT ![t] = r],
           delayed' \subseteq delayed, pending' \in [Tasks -> Seq(OwnDocuments)]
    PROVE  QueuesOK'
  <1>1. IsFiniteSet(delayed')
    BY FS_Subset DEF QueuesOK
  <1>2. QED
    BY <1>1 DEF QueuesOK, FlushStates

\* The item in hand, and the items after it.
LEMMA ItemFacts ==
    ASSUME QueuesOK, NEW t \in Tasks, dq[t].pc # "idle"
    PROVE  /\ Item(t) \in OwnDocuments
           /\ dq[t] \in FlushStates
           /\ Tail(dq[t].todo) \in Seq(OwnDocuments)
           /\ Len(dq[t].todo) # 1 => Tail(dq[t].todo) # <<>>
  <1>1. dq[t].todo \in Seq(OwnDocuments) /\ dq[t].todo # <<>> /\ dq[t] \in FlushStates
    BY DEF QueuesOK, FlushStates
  <1>2. /\ Head(dq[t].todo) \in OwnDocuments
        /\ Tail(dq[t].todo) \in Seq(OwnDocuments)
        /\ Len(Tail(dq[t].todo)) = Len(dq[t].todo) - 1
        /\ Len(dq[t].todo) \in Nat \ {0}
    BY <1>1, HeadTailProperties, EmptySeq
  <1>3. Tail(dq[t].todo) = <<>> => Len(Tail(dq[t].todo)) = 0
    BY EmptySeq
  <1>4. Len(dq[t].todo) # 1 => Len(Tail(dq[t].todo)) # 0
    BY <1>2
  <1>5. QED
    BY <1>1, <1>2, <1>3, <1>4 DEF Item

\* A flush publishes and deletes by the key of its items only.
LEMMA DelayKeeps ==
    ASSUME SharedInv, NEW t \in Tasks, NEW open, DelaySteps(t, open),
           UNCHANGED <<h, timeoutVars>>
    PROVE  SharedInv'
  <1>0. /\ RowsOK /\ SetsOK /\ LogsOK /\ HandlerOK /\ TimeoutsOK /\ QueuesOK
        /\ callFaults \in 0 .. MaxCallFaults /\ MaxCallFaults \in Nat
    BY StoreConstants DEF SharedInv, SetsOK
  <1>a. /\ \/ FlushMemory(t) \/ FlushRedis(t, open) \/ DelayPublish(t)
           \/ DelayDelete(t) \/ DelayZRem(t, open)
        /\ dq[t] \in FlushStates
    BY <1>0 DEF DelaySteps, QueuesOK, FlushStates
  <1>b. CASE FlushMemory(t)
    <2>1. PICK n \in 1 .. Len(pending[t]) :
            /\ dq' = [dq EXCEPT ![t] = [pc |-> "publish", todo |-> SubSeq(pending[t], 1, n)]]
            /\ pending' = [pending EXCEPT ![t] = SubSeq(@, n + 1, Len(@))]
      BY <1>b DEF FlushMemory
    <2>2. pending[t] \in Seq(OwnDocuments) /\ Len(pending[t]) \in Nat /\ n \in Nat
      BY <1>0, LenProperties DEF QueuesOK
    <2>3. /\ SubSeq(pending[t], 1, n) \in Seq(OwnDocuments)
          /\ Len(SubSeq(pending[t], 1, n)) = n
          /\ SubSeq(pending[t], n + 1, Len(pending[t])) \in Seq(OwnDocuments)
      <3>1. \A i \in 1 .. Len(pending[t]) : pending[t][i] \in OwnDocuments
        BY <2>2, ElementOfSeq
      <3>2. /\ \A i \in 1 .. n : pending[t][i] \in OwnDocuments
            /\ \A i \in n + 1 .. Len(pending[t]) : pending[t][i] \in OwnDocuments
        BY <2>2, <3>1
      <3>3. 1 \in Int /\ n \in Int /\ n + 1 \in Int /\ Len(pending[t]) \in Int /\ 1 <= n
        BY <2>2
      <3>4. /\ SubSeq(pending[t], 1, n) \in Seq(OwnDocuments)
            /\ Len(SubSeq(pending[t], 1, n)) = IF 1 <= n THEN n - 1 + 1 ELSE 0
        BY <3>2, <3>3, SubSeqProperties
      <3>5. SubSeq(pending[t], n + 1, Len(pending[t])) \in Seq(OwnDocuments)
        BY <3>2, <3>3, SubSeqProperties
      <3>6. QED
        BY <3>3, <3>4, <3>5
    <2>4. SubSeq(pending[t], 1, n) # <<>>
      BY <2>2, <2>3
    <2>5. QueuesOK'
      <3> DEFINE r == [pc |-> "publish", todo |-> SubSeq(pending[t], 1, n)]
      <3>1. r \in FlushStates /\ r.todo # <<>>
        BY <2>3, <2>4 DEF FlushStates, FlushPcs
      <3>2. pending' \in [Tasks -> Seq(OwnDocuments)] /\ delayed' = delayed
        BY <1>0, <1>b, <2>1, <2>3 DEF QueuesOK, FlushMemory, storeVars
      <3>3. QED
        BY <1>0, <2>1, <3>1, <3>2, DqKeeps
    <2>6. QED
      BY <1>0, <1>b, <2>5
         DEF SharedInv, FlushMemory, storeVars, timeoutVars, RowsOK, SetsOK, LogsOK,
             HandlerOK, TimeoutsOK, Key
  <1>c. CASE FlushRedis(t, open)
    <2>1. PICK due \in SUBSET InQueue(t[2]) : \E batch \in Orders(due) :
            due # {} /\ dq' = [dq EXCEPT ![t] = [pc |-> "publish", todo |-> batch]]
      BY <1>c DEF FlushRedis
    <2>2. PICK batch \in Orders(due) :
            due # {} /\ dq' = [dq EXCEPT ![t] = [pc |-> "publish", todo |-> batch]]
      BY <2>1
    <2>3. due \in SUBSET delayed /\ due \subseteq OwnDocuments
      BY <1>0, <2>1 DEF InQueue, QueuesOK
    <2>4. IsFiniteSet(due)
      BY <1>0, <2>3, FS_Subset DEF QueuesOK
    <2>5. batch \in Seq(OwnDocuments) /\ batch # <<>>
      <3>1. batch \in Seq(due) /\ batch # <<>>
        BY <2>2, <2>4, OrdersList
      <3>2. QED
        BY <2>3, <3>1, SeqMonotonic
    <2>6. QueuesOK'
      <3> DEFINE r == [pc |-> "publish", todo |-> batch]
      <3>1. r \in FlushStates /\ r.todo # <<>>
        BY <2>5 DEF FlushStates, FlushPcs
      <3>2. pending' \in [Tasks -> Seq(OwnDocuments)] /\ delayed' = delayed
        BY <1>0, <1>c DEF QueuesOK, FlushRedis, storeVars
      <3>3. QED
        BY <1>0, <2>2, <3>1, <3>2, DqKeeps
    <2>7. QED
      BY <1>0, <1>c, <2>6
         DEF SharedInv, FlushRedis, storeVars, timeoutVars, RowsOK, SetsOK, LogsOK,
             HandlerOK, TimeoutsOK, Key
  <1>d. CASE DelayPublish(t) \/ DelayDelete(t) \/ DelayZRem(t, open)
    <2>1. /\ dq[t].pc \in {"publish", "delete", "zrem"}
          /\ Item(t) \in OwnDocuments /\ Tail(dq[t].todo) \in Seq(OwnDocuments)
          /\ dq[t].todo # <<>>
          /\ Len(dq[t].todo) # 1 => Tail(dq[t].todo) # <<>>
      BY <1>0, <1>d, ItemFacts DEF DelayPublish, DelayDelete, DelayZRem, QueuesOK
    <2>2. <<t[2], Item(t).key[2]>> \in Keys
      BY <2>1 DEF OwnDocuments, Documents, Tasks, Keys
    <2>3. QueuesOK'
      <3>1. delayed' \subseteq delayed /\ pending' = pending
        BY <1>d DEF DelayPublish, DelayDelete, DelayZRem, RedisCalls, Calls
      <3>2. CASE NextItem(t)
        <4> DEFINE r == [dq[t] EXCEPT !.todo = Tail(@),
                           !.pc = IF Len(dq[t].todo) = 1 THEN "idle" ELSE "publish"]
        <4>1. dq' = [dq EXCEPT ![t] = r]
          BY <1>0, <3>2 DEF NextItem, QueuesOK
        <4>2. r \in FlushStates /\ (r.pc # "idle" => r.todo # <<>>)
          BY <1>a, <2>1 DEF FlushStates, FlushPcs
        <4>3. QED
          BY <1>0, <3>1, <4>1, <4>2, DqKeeps DEF QueuesOK
      <3>3. ASSUME NEW pc \in {"delete", "zrem"}, dq' = [dq EXCEPT ![t].pc = pc]
            PROVE  QueuesOK'
        <4> DEFINE r == [dq[t] EXCEPT !.pc = pc]
        <4>1. dq' = [dq EXCEPT ![t] = r]
          BY <1>0, <3>3 DEF QueuesOK
        <4>2. r \in FlushStates /\ r.todo # <<>>
          BY <1>a, <2>1, <3>3 DEF FlushStates, FlushPcs
        <4>3. QED
          BY <1>0, <3>1, <4>1, <4>2, DqKeeps DEF QueuesOK
      <3>4. QED
        BY <1>d, <3>2, <3>3 DEF DelayPublish, DelayDelete, DelayZRem, ItemDone
    <2>4. RowsOK'
      <3>1. UNCHANGED rows \/ DeleteState(<<t[2], Item(t).key[2]>>)
        BY <1>d DEF DelayPublish, DelayDelete, DelayZRem, Calls
      <3>2. QED
        BY <1>0, <2>2, <3>1, DeleteKeeps DEF RowsOK
    <2>5. LogsOK'
      <3>1. \/ Produce(Item(t)) /\ UNCHANGED corrections
            \/ UNCHANGED <<egress, corrections>>
        BY <1>d DEF DelayPublish, DelayDelete, DelayZRem, Calls
      <3>2. CASE UNCHANGED <<egress, corrections>>
        BY <1>0, <3>2 DEF LogsOK
      <3>3. QED
        BY <1>0, <2>1, <3>1, <3>2, ProduceKeeps
    <2>6. SetsOK'
      <3>1. callFaults' = callFaults \/ CallFault
        BY <1>d DEF DelayPublish, DelayDelete, DelayZRem, Calls, RedisCalls
      <3>2. UNCHANGED <<bloom, timeouts, partials, untracked>>
        BY <1>d DEF DelayPublish, DelayDelete, DelayZRem, timeoutVars
      <3>3. QED
        BY <1>0, <3>1, <3>2 DEF SetsOK, CallFault
    <2>7. HandlerOK' /\ TimeoutsOK'
      BY <1>0 DEF HandlerOK, TimeoutsOK, timeoutVars, Key
    <2>8. QED
      BY <2>3, <2>4, <2>5, <2>6, <2>7 DEF SharedInv
  <1>1. QED
    BY <1>a, <1>b, <1>c, <1>d

\* When a process ends, nothing is left of its goroutines.
LEMMA EndKeeps ==
    ASSUME SharedInv, NEW w \in Workers, ProcessEnds(w)
    PROVE  SharedInv'
  <1>0. RowsOK /\ SetsOK /\ LogsOK /\ HandlerOK /\ TimeoutsOK /\ QueuesOK
    BY DEF SharedInv
  <1>1. HandlerOK'
    <2>1. Ready \in HandleStates /\ Ready.pc = "idle" /\ h' = [h EXCEPT ![w] = Ready]
      BY RowFacts DEF Ready, HandleStates, HandlePcs, ProcessEnds
    <2>2. QED
      BY <1>0, <2>1 DEF HandlerOK, Key
  <1>2. TimeoutsOK'
    <2>1. Waiting \in TimeoutStates /\ Waiting.pc = "idle"
      BY RowFacts DEF Waiting, TimeoutStates, TimeoutPcs
    <2>2. tm' = [t \in Tasks |-> IF t[1] = w THEN Waiting ELSE tm[t]]
      BY DEF ProcessEnds, TimeoutKilled, Tasks
    <2>3. QED
      BY <1>0, <2>1, <2>2 DEF TimeoutsOK
  <1>3. QueuesOK'
    <2>1. Resting \in FlushStates /\ Resting.pc = "idle" /\ <<>> \in Seq(OwnDocuments)
      BY EmptySeq DEF Resting, FlushStates, FlushPcs
    <2>2. /\ pending' = [t \in Tasks |-> IF t[1] = w THEN <<>> ELSE pending[t]]
          /\ dq' = [t \in Tasks |-> IF t[1] = w THEN Resting ELSE dq[t]]
          /\ delayed' = delayed
      BY DEF ProcessEnds, DelayKilled, storeVars
    <2>3. QED
      BY <1>0, <2>1, <2>2 DEF QueuesOK, FlushStates
  <1>4. QED
    BY <1>0, <1>1, <1>2, <1>3
       DEF SharedInv, ProcessEnds, storeVars, TimeoutKilled, RowsOK, SetsOK, LogsOK

\* Every step of the processor keeps the types and the keys apart.
LEMMA OwnStep == OwnInv /\ [Next]_vars => OwnInv'
  <1> SUFFICES ASSUME OwnInv, [Next]_vars PROVE OwnInv'
    OBVIOUS
  <1>0. /\ SharedInv /\ LP!FetchedInv /\ HandlerOK
    BY DEF OwnInv, SharedInv
  <1>1. LP!FetchedInv'
    BY <1>0, LoopMovesOn, LP!FetchedStep, LoopAssumption
  <1>2. ASSUME UNCHANGED <<storeVars, delayVars, h, timeoutVars>> PROVE SharedInv'
    BY <1>0, <1>2
       DEF SharedInv, storeVars, delayVars, timeoutVars, RowsOK, SetsOK, LogsOK,
           HandlerOK, TimeoutsOK, QueuesOK, Key
  <1>3. ASSUME UNCHANGED <<storeVars, delayVars, timeoutVars>>, HandlerOK' PROVE SharedInv'
    BY <1>0, <1>3
       DEF SharedInv, storeVars, delayVars, timeoutVars, RowsOK, SetsOK, LogsOK,
           TimeoutsOK, QueuesOK
  <1>4. ASSUME NEW w \in Workers, Call(w) PROVE SharedInv'
    <2> DEFINE r == Loop!Current(w)
               st == [Ready EXCEPT !.rec = r,
                        !.pc = IF r \in Malformed THEN "err"
                               ELSE IF HasRedis THEN "bloom" ELSE "upsert"]
    <2>1. r \in Records
      BY <1>0, <1>4, CurrentIsRecord DEF Call
    <2>2. h' = [h EXCEPT ![w] = st] /\ UNCHANGED <<storeVars, delayVars, timeoutVars>>
      BY <1>4 DEF Call, StartHandle
    <2>3. st \in HandleStates /\ st.rec = r /\ st.row = NoRow
      BY <2>1, RowFacts DEF Ready, HandleStates, HandlePcs
    <2>4. NoRow \in RowsOf(KeyOf[r])
      BY <2>1, RowFacts, HandlerConstants
    <2>5. HandlerOK'
      BY <1>0, <2>1, <2>2, <2>3, <2>4 DEF HandlerOK, Key
    <2>6. QED
      BY <1>3, <2>2, <2>5
  <1>5. ASSUME NEW w \in Workers, Return(w) PROVE SharedInv'
    <2>1. Ready \in HandleStates /\ Ready.pc = "idle" /\ h' = [h EXCEPT ![w] = Ready]
      BY <1>5, RowFacts DEF Ready, HandleStates, HandlePcs, Return
    <2>2. HandlerOK'
      BY <1>0, <2>1 DEF HandlerOK, Key
    <2>3. QED
      BY <1>3, <1>5, <2>2 DEF Return
  <1>6. ASSUME NEW w \in Workers, NEW c \in Configs, Timeouts(<<w, c>>) \/ Delay(<<w, c>>)
        PROVE  SharedInv'
    <2>1. <<w, c>> \in Tasks
      BY DEF Tasks
    <2>2. CASE Timeouts(<<w, c>>)
      BY <1>0, <2>1, <2>2, TimeoutKeeps DEF Timeouts
    <2>3. CASE Delay(<<w, c>>)
      BY <1>0, <2>1, <2>3, DelayKeeps DEF Delay
    <2>4. QED
      BY <1>6, <2>2, <2>3
  <1>7. ASSUME NEW w \in Workers, Handle(w) PROVE SharedInv'
    BY <1>0, <1>7, HandleKeeps DEF Handle
  <1>8. ASSUME NEW w \in Workers, CrashStep(w) \/ KillStep(w) PROVE SharedInv'
    BY <1>0, <1>8, EndKeeps DEF CrashStep, KillStep
  <1>9. ASSUME NEW w \in Workers, LoopStep(w) \/ GroupStep(w) PROVE SharedInv'
    BY <1>2, <1>9 DEF LoopStep, GroupStep
  <1>10. CASE UNCHANGED vars
    BY <1>1, <1>2, <1>10 DEF vars, OwnInv
  <1>11. CASE Next
    BY <1>1, <1>4, <1>5, <1>6, <1>7, <1>8, <1>9, <1>11 DEF Next, OwnInv
  <1>12. QED
    BY <1>10, <1>11

\* It holds in the beginning.
LEMMA OwnInit == Init => OwnInv
  <1> SUFFICES ASSUME Init PROVE OwnInv
    OBVIOUS
  <1>1. LP!FetchedInv
    BY LoopStarts, LP!FetchedInit, LoopAssumption
  <1>2. RowsOK /\ SetsOK /\ LogsOK
    BY RowFacts, StoreConstants, EmptySeq DEF Init, StoreInit, TimeoutInit, RowsOK, SetsOK, LogsOK
  <1>3. HandlerOK
    <2>1. Ready \in HandleStates /\ Ready.pc = "idle"
      BY RowFacts DEF Ready, HandleStates, HandlePcs
    <2>2. QED
      BY <2>1 DEF Init, HandlerInit, HandlerOK
  <1>4. TimeoutsOK
    <2>1. Waiting \in TimeoutStates /\ Waiting.pc = "idle"
      BY RowFacts DEF Waiting, TimeoutStates, TimeoutPcs
    <2>2. QED
      BY <2>1 DEF Init, TimeoutInit, TimeoutsOK, Tasks
  <1>5. QueuesOK
    <2>1. Resting \in FlushStates /\ Resting.pc = "idle" /\ <<>> \in Seq(OwnDocuments)
      BY EmptySeq DEF Resting, FlushStates, FlushPcs
    <2>2. QED
      BY <2>1, FS_EmptySet DEF Init, DelayInit, StoreInit, QueuesOK, FlushStates
  <1>6. QED
    BY <1>1, <1>2, <1>3, <1>4, <1>5 DEF OwnInv, SharedInv

\* The invariant holds of every reachable state, whatever the configuration.
LEMMA OwnAlways == Spec => []OwnInv
  BY OwnInit, OwnStep, PTL DEF Spec

\* The shared state and the goroutines keep their types, in every
\* configuration of the processor.
THEOREM StateTypeCorrect == Spec => []TypeOK
  <1>1. OwnInv => TypeOK
    <2> SUFFICES ASSUME OwnInv PROVE TypeOK
      OBVIOUS
    <2>1. RowsOK /\ SetsOK /\ LogsOK /\ HandlerOK /\ TimeoutsOK /\ QueuesOK
      BY DEF OwnInv, SharedInv
    <2>2. OwnDocuments \subseteq Documents
      BY DEF OwnDocuments
    <2>3. \A s \in Seq(OwnDocuments) : s \in Seq(Documents)
      BY <2>2, SeqMonotonic
    <2>4. egress \in Seq(Documents) /\ corrections \in Seq(Documents)
      BY <2>1, <2>3 DEF LogsOK
    <2>5. /\ delayed \subseteq Documents
          /\ pending \in [Tasks -> Seq(Documents)]
      BY <2>1, <2>2, <2>3 DEF QueuesOK
    <2>6. dq \in [Tasks -> [pc : FlushPcs, todo : Seq(Documents)]]
      BY <2>1, <2>3 DEF QueuesOK
    <2>7. QED
      BY <2>1, <2>4, <2>5, <2>6
         DEF TypeOK, RowsOK, SetsOK, HandlerOK, HandleStates, HandlePcs,
             TimeoutsOK, TimeoutStates, TimeoutPcs, FlushPcs
  <1>2. QED
    BY <1>1, OwnAlways, PTL

\* Events that are joined agree on every field of a composite key: whatever
\* the row, the queue or the batch a document was built from, its events have
\* one key, and the key tells apart which field has which value.
THEOREM EventsAgree ==
    ASSUME KeyDef.field = ""
    PROVE  Spec => []JoinsAgree
  <1>1. OwnInv => JoinsAgree
    <2> SUFFICES ASSUME OwnInv, NEW d \in Topic(egress), NEW q \in d.data, NEW r \in d.data
                 PROVE  \A f \in Range(KeyDef.fields) :
                          /\ f \in DOMAIN PayloadOf[q] <=> f \in DOMAIN PayloadOf[r]
                          /\ f \in DOMAIN PayloadOf[q] => PayloadOf[q][f] = PayloadOf[r][f]
      BY DEF JoinsAgree
    <2>1. d \in OwnDocuments
      BY ElementOfSeq DEF OwnInv, SharedInv, LogsOK, Topic
    <2>2. q \in Records /\ r \in Records /\ KeyOf[q] = KeyOf[r]
      BY <2>1 DEF OwnDocuments, Documents
    <2>3. Sha256[ExtractRaw(KeyDef, PayloadOf[q])] = Sha256[ExtractRaw(KeyDef, PayloadOf[r])]
      BY <2>2 DEF KeyOf, ExtractKey, HashRaw
    <2>4. ExtractRaw(KeyDef, PayloadOf[q]) = ExtractRaw(KeyDef, PayloadOf[r])
      BY <2>2, <2>3, HashInjective, HandlerConstants
    <2>5. Restrict(PayloadOf[q], Range(KeyDef.fields) \cap DOMAIN PayloadOf[q])
            = Restrict(PayloadOf[r], Range(KeyDef.fields) \cap DOMAIN PayloadOf[r])
      BY <2>4 DEF ExtractRaw, KeyFromFields, Raw
    <2>6. QED
      BY <2>5 DEF Restrict
  <1>2. QED
    BY <1>1, OwnAlways, PTL

----------------------------------------------------------------------------
(* The loop with handlers that succeed.                                    *)

\* One partition, no failed calls and no malformed records.
SureHandlers ==
    /\ \A p, q \in Partitions : p = q
    /\ MaxCallFaults = 0
    /\ Malformed = {}

\* No call has failed, so that no handler is to return an error.
NoneFails == \A w \in Workers : h[w].pc # "err"

SureInv == OwnInv /\ NoneFails /\ LP!UpToDateInv

\* Every call succeeds.
LEMMA NoFaults ==
    ASSUME OwnInv, MaxCallFaults = 0
    PROVE  ~ CallFault
  <1>1. callFaults \in 0 .. 0
    BY DEF OwnInv, SharedInv, SetsOK
  <1>2. QED
    BY <1>1 DEF CallFault

\* A handler whose calls succeed returns nil, ...
LEMMA NoneFailsStep ==
    ASSUME SureHandlers, SureInv, [Next]_vars
    PROVE  NoneFails'
  <1>0. /\ h \in [Workers -> HandleStates] /\ NoneFails /\ ~ CallFault /\ Malformed = {}
    BY NoFaults DEF SureHandlers, SureInv, OwnInv, SharedInv, HandlerOK
  <1>1. ASSUME NEW w \in Workers, NEW st, h' = [h EXCEPT ![w] = st], st.pc # "err"
        PROVE  NoneFails'
    BY <1>0, <1>1 DEF NoneFails
  <1>2. ASSUME NEW w \in Workers, Call(w) PROVE NoneFails'
    <2> DEFINE st == [Ready EXCEPT !.rec = Loop!Current(w),
                        !.pc = IF Loop!Current(w) \in Malformed THEN "err"
                               ELSE IF HasRedis THEN "bloom" ELSE "upsert"]
    <2>1. h' = [h EXCEPT ![w] = st]
      BY <1>2 DEF Call, StartHandle
    <2>2. st.pc # "err"
      BY <1>0 DEF Ready
    <2>3. QED
      BY <1>1, <2>1, <2>2
  <1>3. ASSUME NEW w \in Workers, Handle(w) PROVE NoneFails'
    <2>1. CASE ReadBack(w)
      <3>1. AfterRead(rows[Key(w)]) # "err"
        BY DEF AfterRead
      <3>2. PICK row, pc : pc # "err" /\ h' = [h EXCEPT ![w].row = row, ![w].pc = pc]
        BY <1>0, <2>1, <3>1 DEF ReadBack, Reads
      <3>3. h' = [h EXCEPT ![w] = [h[w] EXCEPT !.row = row, !.pc = pc]]
        BY <1>0, <3>2
      <3>4. h[w] \in HandleStates
        BY <1>0
      <3>5. [h[w] EXCEPT !.row = row, !.pc = pc].pc # "err"
        BY <3>2, <3>4 DEF HandleStates
      <3>6. QED
        BY <1>1, <3>3, <3>5
    <2>2. CASE ~ ReadBack(w)
      <3>1. PICK pc : pc # "err" /\ Goto(w, pc)
        <4>1. ASSUME NEW ok \in BOOLEAN, Reads(ok) PROVE ok
          BY <1>0, <4>1 DEF Reads
        <4>2. CASE BloomExists(w)
          BY <4>1, <4>2 DEF BloomExists
        <4>3. CASE Contains(w)
          BY <4>3 DEF Contains
        <4>4. CASE UpsertParticipantOnly(w) \/ AddToBloom(w) \/ UpsertParticipant(w)
                   \/ Publish(w) \/ DeleteAfterEgress(w)
          BY <1>0, <4>4 DEF UpsertParticipantOnly, AddToBloom, UpsertParticipant, Publish,
               DeleteAfterEgress, Calls
        <4>5. CASE ScheduleFirst(w) \/ PublishCorrection(w) \/ Untrack(w) \/ DropLate(w)
                   \/ Enqueue(w)
          BY <4>5 DEF ScheduleFirst, PublishCorrection, Untrack, DropLate, Enqueue
        <4>6. QED
          BY <1>3, <2>2, <4>2, <4>3, <4>4, <4>5 DEF Handle, HandleSteps
      <3>2. h' = [h EXCEPT ![w] = [h[w] EXCEPT !.pc = pc]]
        BY <1>0, <3>1 DEF Goto
      <3>3. h[w] \in HandleStates
        BY <1>0
      <3>4. [h[w] EXCEPT !.pc = pc].pc # "err"
        BY <3>1, <3>3 DEF HandleStates
      <3>5. QED
        BY <1>1, <3>2, <3>4
    <2>3. QED
      BY <2>1, <2>2
  <1>4. ASSUME NEW w \in Workers, Return(w) \/ CrashStep(w) \/ KillStep(w) PROVE NoneFails'
    <2>1. h' = [h EXCEPT ![w] = Ready]
      BY <1>4 DEF Return, CrashStep, KillStep, ProcessEnds
    <2>2. Ready.pc # "err"
      BY DEF Ready
    <2>3. QED
      BY <1>1, <2>1, <2>2
  <1>5. ASSUME h' = h PROVE NoneFails'
    BY <1>0, <1>5 DEF NoneFails
  <1>6. ASSUME NEW w \in Workers, LoopStep(w) \/ GroupStep(w) PROVE h' = h
    BY <1>6 DEF LoopStep, GroupStep
  <1>7. ASSUME NEW t, Timeouts(t) \/ Delay(t) PROVE h' = h
    BY <1>7 DEF Timeouts, Delay
  <1>8. QED
    BY <1>2, <1>3, <1>4, <1>5, <1>6, <1>7 DEF Next, vars

\* ... and the loop sees no error of it.
LEMMA NoErrorReturned ==
    ASSUME SureInv, [Next]_vars
    PROVE  errored' = {}
  <1>0. errored = {} /\ NoneFails
    BY DEF SureInv, LP!UpToDateInv
  <1>1. ASSUME NEW w \in Workers, Return(w) PROVE errored' = errored
    <2>1. Loop!HandleReturns(w, h[w].pc = "ok") /\ h[w].pc = "ok"
      BY <1>0, <1>1 DEF Return, HandleReturned, NoneFails
    <2>2. QED
      BY <2>1 DEF Loop!HandleReturns
  <1>2. ASSUME NEW w \in Workers,
               LoopStep(w) \/ GroupStep(w) \/ CrashStep(w) \/ KillStep(w)
        PROVE  errored' = errored
    BY <1>2 DEF LoopStep, GroupStep, CrashStep, KillStep, Loop!LoopSteps, Loop!GroupSteps,
         Loop!Poll, Loop!FetchFails, Loop!EachPartition, Loop!Dispatch, Loop!CommitOk,
         Loop!CommitFails, Loop!EndFetch, Loop!Crash, Loop!Kill, Loop!Restart,
         Loop!Assign, Loop!Revoke, Loop!Evict
  <1>3. ASSUME NEW w \in Workers,
               \/ Call(w) \/ Handle(w)
               \/ \E c \in Configs : Timeouts(<<w, c>>) \/ Delay(<<w, c>>)
        PROVE  errored' = errored
    BY <1>3 DEF Call, Handle, Timeouts, Delay, loopVars
  <1>4. CASE UNCHANGED vars
    BY <1>0, <1>4 DEF vars, loopVars
  <1>5. QED
    BY <1>0, <1>1, <1>2, <1>3, <1>4 DEF Next

\* The owner of the partition is up to date in every reachable state.
LEMMA SureAlways ==
    ASSUME SureHandlers
    PROVE  Spec => []SureInv
  <1>1. LP!SinglePartition
    BY DEF SureHandlers, LP!SinglePartition
  <1>2. Init => SureInv
    <2>1. Init => LP!UpToDateInv
      BY LoopStarts, LP!UpToDateInit, LoopAssumption
    <2>2. Init => NoneFails
      BY DEF Init, HandlerInit, Ready, NoneFails
    <2>3. QED
      BY <2>1, <2>2, OwnInit DEF SureInv
  <1>3. SureInv /\ [Next]_vars => SureInv'
    <2> SUFFICES ASSUME SureInv, [Next]_vars PROVE SureInv'
      OBVIOUS
    <2>1. errored' = {} /\ [LP!LoopNext]_(LP!loopVars)
      BY NoErrorReturned, LoopMovesOn
    <2>2. LP!UpToDateInv'
      BY <1>1, <2>1, LP!UpToDateStep, LoopAssumption DEF SureInv
    <2>3. QED
      BY <2>2, NoneFailsStep, OwnStep DEF SureInv
  <1>4. QED
    BY <1>2, <1>3, PTL DEF Spec

\* At-least-once of the processor: whatever its handlers, timeout managers and
\* queues are at when an instance ends, is evicted or fails to commit, every
\* record below the committed offset was handled.
THEOREM ProcessorSkipsNothing ==
    ASSUME SureHandlers
    PROVE  Spec => []NoRecordSkipped
  <1>1. SureInv => NoRecordSkipped
    BY LP!UpToDateHolds, LoopAssumption
       DEF SureInv, NoRecordSkipped, LP!NoRecordSkipped, Loop!NoRecordSkipped
  <1>2. QED
    BY <1>1, SureAlways, PTL

\* An instance that polls again has committed all it fetched.
THEOREM ProcessorPollsUpToDate ==
    ASSUME SureHandlers
    PROVE  Spec => []PollsOnlyWhenCommitted
  <1>1. SureInv => PollsOnlyWhenCommitted
    BY LP!UpToDateHolds, LoopAssumption
       DEF SureInv, PollsOnlyWhenCommitted, LP!PollsOnlyWhenCommitted,
           Loop!PollsOnlyWhenCommitted
  <1>2. QED
    BY <1>1, SureAlways, PTL
=============================================================================
