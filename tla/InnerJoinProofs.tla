---------------------------- MODULE InnerJoinProofs ----------------------------
(***************************************************************************)
(* Proofs about the processor as an inner join: neither Redis nor a settle *)
(* delay, no evictions, all valid records of a key in one partition.  What *)
(* a handler has read of its key is what the store has until it returns,   *)
(* so that what it publishes and deletes is the state of the key.          *)
(***************************************************************************)
EXTENDS ProcessorProofs

\* The records of a key are in one partition (the producers key by join key).
KeyAffinity ==
    \A q, r \in Records \ Malformed : KeyOf[q] = KeyOf[r] => q[1] = r[1]

\* No Redis: no timeouts, no corrections; no settle delay; no evictions.
InnerJoin == HasRedis = FALSE /\ HasDelay = FALSE /\ MayEvict = FALSE /\ KeyAffinity

\* A handler works on the record in hand, as long as the loop waits for it.
WorksOnCurrent ==
    \A w \in Workers :
        h[w].pc # "idle" => loop[w].pc = "handle" /\ h[w].rec = Loop!Current(w)

AtWork == {"upsert", "read", "publish", "delete"}

\* The handler of w knows what the store has for its key.
UpToDateRow(w) ==
    /\ h[w].pc \in AtWork \cup {"idle", "ok", "err"}
    /\ h[w].pc \in AtWork \cup {"ok"} => h[w].rec \notin Malformed
    /\ h[w].pc = "read" => rows[Key(w)][Stream(w)] = h[w].rec
    /\ h[w].pc \in {"publish", "delete"} =>
         /\ h[w].row = rows[Key(w)] /\ IsComplete(h[w].row)
         /\ h[w].row[Stream(w)] = h[w].rec
    /\ h[w].pc = "delete" => Joined(w) \in Topic(egress)
    /\ h[w].pc = "ok" => ~ IsComplete(rows[Key(w)])

\* What a handler has in hand is the record of an instance that owns its
\* partition.
HandInv == OwnInv /\ LP!ExclusiveInv /\ WorksOnCurrent

InnerInv == HandInv /\ \A w \in Workers : UpToDateRow(w)

\* An inner join works on what it has in hand.
LEMMA InnerInHand == InnerInv => HandInv
  BY DEF InnerInv

----------------------------------------------------------------------------
(* The four things a handler does.                                         *)

\* The control state of a handler, and that of the others.
HandlerGoes(w, pc, row) ==
    /\ h'[w].pc = pc /\ h'[w].rec = h[w].rec /\ h'[w].row = row
    /\ \A v \in Workers \ {w} : h'[v] = h[v]

Stores(w) ==
    /\ h[w].pc = "upsert" /\ UNCHANGED <<egress, corrections>>
    /\ \/ rows' = rows /\ HandlerGoes(w, "err", h[w].row)
       \/ /\ Upsert(Key(w), Stream(w), h[w].rec)
          /\ \E pc \in {"read", "err"} : HandlerGoes(w, pc, h[w].row)

ReadsRow(w) ==
    /\ h[w].pc = "read" /\ UNCHANGED <<rows, egress, corrections>>
    /\ \/ HandlerGoes(w, "err", NoRow)
       \/ HandlerGoes(w, "ok", rows[Key(w)]) /\ ~ IsComplete(rows[Key(w)])
       \/ HandlerGoes(w, "publish", rows[Key(w)]) /\ IsComplete(rows[Key(w)])

Publishes(w) ==
    /\ h[w].pc = "publish" /\ UNCHANGED <<rows, corrections>>
    /\ \/ egress' = egress /\ HandlerGoes(w, "err", h[w].row)
       \/ Produce(Joined(w)) /\ \E pc \in {"delete", "err"} : HandlerGoes(w, pc, h[w].row)

Deletes(w) ==
    /\ h[w].pc = "delete" /\ UNCHANGED <<egress, corrections>>
    /\ \/ rows' = rows /\ HandlerGoes(w, "err", h[w].row)
       \/ DeleteState(Key(w)) /\ \E pc \in {"ok", "err"} : HandlerGoes(w, pc, h[w].row)

\* Without Redis and a delay, a handler does nothing else.
LEMMA InnerMoves ==
    ASSUME InnerJoin, InnerInv, NEW w \in Workers, Handle(w)
    PROVE  Stores(w) \/ ReadsRow(w) \/ Publishes(w) \/ Deletes(w)
  <1>0. /\ h \in [Workers -> HandleStates] /\ UpToDateRow(w)
        /\ HasRedis = FALSE /\ HasDelay = FALSE
    BY DEF InnerInv, HandInv, OwnInv, SharedInv, HandlerOK, InnerJoin
  <1>1. ASSUME NEW pc, Goto(w, pc) PROVE HandlerGoes(w, pc, h[w].row)
    BY <1>0, <1>1 DEF Goto, HandlerGoes, HandleStates
  <1>2. \/ UpsertParticipant(w) \/ ReadBack(w) \/ Publish(w) \/ DeleteAfterEgress(w)
    BY <1>0 DEF Handle, HandleSteps, UpToDateRow, AtWork, BloomExists,
         UpsertParticipantOnly, AddToBloom, ScheduleFirst, Contains, PublishCorrection,
         Untrack, DropLate, Enqueue
  <1>3. CASE UpsertParticipant(w)
    BY <1>1, <1>3 DEF UpsertParticipant, Calls, Stores
  <1>4. CASE ReadBack(w)
    <2>1. PICK ok \in BOOLEAN :
            h' = [h EXCEPT ![w].row = IF ok THEN rows[Key(w)] ELSE NoRow,
                           ![w].pc = IF ok THEN AfterRead(rows[Key(w)]) ELSE "err"]
      BY <1>4 DEF ReadBack
    <2>2. HandlerGoes(w, IF ok THEN AfterRead(rows[Key(w)]) ELSE "err",
                      IF ok THEN rows[Key(w)] ELSE NoRow)
      BY <1>0, <2>1 DEF HandlerGoes, HandleStates
    <2>3. \/ AfterRead(rows[Key(w)]) = "ok" /\ ~ IsComplete(rows[Key(w)])
          \/ AfterRead(rows[Key(w)]) = "publish" /\ IsComplete(rows[Key(w)])
      BY <1>0 DEF AfterRead, IsComplete
    <2>4. QED
      BY <1>4, <2>2, <2>3 DEF ReadBack, ReadsRow
  <1>5. CASE Publish(w)
    BY <1>1, <1>5 DEF Publish, Calls, Publishes
  <1>6. CASE DeleteAfterEgress(w)
    BY <1>1, <1>6 DEF DeleteAfterEgress, Calls, Deletes
  <1>7. QED
    BY <1>2, <1>3, <1>4, <1>5, <1>6

\* The handler and the record of a busy instance.
LEMMA InnerFacts ==
    ASSUME HandInv, NEW w \in Workers, h[w].pc # "idle"
    PROVE  /\ loop[w].pc = "handle" /\ loop[w].part \in Partitions
           /\ h[w].rec = Loop!Current(w)
           /\ h[w].rec = <<loop[w].part, cursor[w][loop[w].part]>>
           /\ h[w].rec \in Records /\ Key(w) \in Keys /\ Stream(w) \in StreamIDs
           /\ rows[Key(w)] \in RowsOf(Key(w)) /\ rows[Key(w)] \in Row
           /\ owner[loop[w].part] = w
  <1>1. loop[w].pc = "handle" /\ h[w].rec = Loop!Current(w) /\ LP!FetchedInv
    BY DEF HandInv, WorksOnCurrent, OwnInv
  <1>2. /\ loop[w].part \in Partitions /\ h[w].rec \in Records
        /\ h[w].rec = <<loop[w].part, cursor[w][loop[w].part]>>
    BY <1>1, CurrentIsRecord
  <1>3. Key(w) \in Keys /\ Stream(w) \in StreamIDs
    BY <1>2, HandlerConstants DEF Key, Stream
  <1>4. rows[Key(w)] \in RowsOf(Key(w)) /\ rows[Key(w)] \in Row
    BY <1>3 DEF HandInv, OwnInv, SharedInv, RowsOK
  <1>5. owner[loop[w].part] = w
    BY <1>1 DEF HandInv, LP!ExclusiveInv, LP!OwnsBatch, LP!Busy
  <1>6. QED
    BY <1>1, <1>2, <1>3, <1>4, <1>5

\* Two instances never have valid records of one key in hand.
LEMMA KeysApart ==
    ASSUME KeyAffinity, HandInv, NEW v \in Workers, NEW w \in Workers, v # w,
           h[v].pc # "idle", h[w].pc # "idle",
           h[v].rec \notin Malformed, h[w].rec \notin Malformed
    PROVE  Key(v) # Key(w)
  <1>1. /\ h[v].rec = <<loop[v].part, cursor[v][loop[v].part]>> /\ h[v].rec \in Records
        /\ h[w].rec = <<loop[w].part, cursor[w][loop[w].part]>> /\ h[w].rec \in Records
        /\ owner[loop[v].part] = v /\ owner[loop[w].part] = w
    BY InnerFacts
  <1>2. loop[v].part # loop[w].part
    BY <1>1
  <1>3. h[v].rec[1] # h[w].rec[1]
    BY <1>1, <1>2
  <1>4. QED
    BY <1>1, <1>3 DEF KeyAffinity, Key

\* What a handler joins is a document of its key.
LEMMA JoinedIsOwn ==
    ASSUME OwnInv, NEW w \in Workers, h[w].pc # "idle"
    PROVE  Joined(w) \in OwnDocuments
  <1>1. h[w].row \in RowsOf(Key(w)) /\ Key(w) \in Keys
    BY HandlerConstants DEF OwnInv, SharedInv, HandlerOK, Key
  <1>2. QED
    BY <1>1, RowFacts DEF Joined

\* What a handler does leaves alone what the others have read.
LEMMA OthersUpToDate ==
    ASSUME InnerJoin, InnerInv, NEW w \in Workers, h[w].pc \in AtWork,
           \A k \in Keys \ {Key(w)} : rows'[k] = rows[k],
           \A v \in Workers \ {w} : h'[v] = h[v],
           Topic(egress) \subseteq Topic(egress')
    PROVE  \A v \in Workers \ {w} : UpToDateRow(v)'
  <1> SUFFICES ASSUME NEW v \in Workers \ {w} PROVE UpToDateRow(v)'
    OBVIOUS
  <1>1. UpToDateRow(v) /\ UpToDateRow(w) /\ h'[v] = h[v]
    BY DEF InnerInv, HandInv
  <1>2. CASE h[v].pc \in {"idle", "err"}
    BY <1>1, <1>2 DEF UpToDateRow, AtWork
  <1>3. CASE h[v].pc \in AtWork \cup {"ok"}
    <2>1. Key(v) # Key(w) /\ Key(v) \in Keys
      BY <1>1, <1>3, KeysApart, InnerFacts, InnerInHand DEF UpToDateRow, AtWork, InnerJoin
    <2>2. Key(v)' = Key(v) /\ Stream(v)' = Stream(v) /\ rows'[Key(v)] = rows[Key(v)]
          /\ Joined(v)' = Joined(v)
      BY <1>1, <2>1 DEF Key, Stream, Joined
    <2>3. QED
      BY <1>1, <2>2 DEF UpToDateRow, AtWork
  <1>4. QED
    BY <1>1, <1>2, <1>3 DEF UpToDateRow

\* A handler keeps its knowledge of the row up to date.
LEMMA InnerHandle ==
    ASSUME InnerJoin, InnerInv, NEW w \in Workers, Handle(w)
    PROVE  WorksOnCurrent' /\ \A v \in Workers : UpToDateRow(v)'
  <1>0. /\ UpToDateRow(w) /\ OwnInv /\ LogsOK /\ RowsOK /\ WorksOnCurrent
        /\ UNCHANGED <<loop, cursor>> /\ h[w].pc # "idle"
        /\ h[w].rec \notin Malformed /\ h[w].pc \in AtWork
    BY InnerMoves
       DEF InnerInv, HandInv, OwnInv, SharedInv, Handle, loopVars, Stores, ReadsRow, Publishes,
           Deletes, UpToDateRow, AtWork
  <1>1. /\ Key(w) \in Keys /\ Stream(w) \in StreamIDs /\ h[w].rec \in Records
        /\ rows \in [Keys -> Row] /\ rows[Key(w)] \in [StreamIDs -> Records \cup {NoData}]
        /\ Joined(w) \in OwnDocuments
    BY <1>0, InnerFacts, InnerInHand, JoinedIsOwn DEF RowsOK, Row
  <1>2. /\ \A v \in Workers \ {w} : h'[v] = h[v]
        /\ h'[w].rec = h[w].rec /\ h'[w].pc # "idle"
        /\ Key(w)' = Key(w) /\ Stream(w)' = Stream(w)
    BY InnerMoves DEF Stores, ReadsRow, Publishes, Deletes, HandlerGoes, Key, Stream
  <1>3. WorksOnCurrent'
    BY <1>0, <1>2 DEF WorksOnCurrent, Loop!Current
  <1>4. \A k \in Keys \ {Key(w)} : rows'[k] = rows[k]
    BY <1>1, InnerMoves DEF Stores, ReadsRow, Publishes, Deletes, Upsert, DeleteState
  <1>5. /\ Topic(egress) \subseteq Topic(egress')
        /\ Produce(Joined(w)) => Joined(w) \in Topic(egress')
    BY <1>0, <1>1, InnerMoves, TopicGrows DEF Stores, ReadsRow, Publishes, Deletes
  <1>6. UpToDateRow(w)'
    <2>1. CASE Stores(w)
      <3>1. Upsert(Key(w), Stream(w), h[w].rec) => rows'[Key(w)][Stream(w)] = h[w].rec
        BY <1>1 DEF Upsert
      <3>2. \/ h'[w].pc = "err"
            \/ h'[w].pc = "read" /\ rows'[Key(w)][Stream(w)] = h[w].rec
        BY <2>1, <3>1 DEF Stores, HandlerGoes
      <3>3. QED
        BY <1>0, <1>2, <3>2 DEF UpToDateRow, AtWork
    <2>2. CASE ReadsRow(w)
      BY <1>0, <1>2, <2>2 DEF ReadsRow, HandlerGoes, UpToDateRow, AtWork
    <2>3. CASE Publishes(w)
      <3>1. h'[w].row = h[w].row /\ rows' = rows
        BY <2>3 DEF Publishes, HandlerGoes
      <3>2. Joined(w)' = Joined(w)
        BY <1>2, <3>1 DEF Joined
      <3>3. \/ h'[w].pc = "err"
            \/ h'[w].pc = "delete" /\ Joined(w) \in Topic(egress')
        BY <1>5, <2>3 DEF Publishes, HandlerGoes
      <3>4. QED
        BY <1>0, <1>2, <2>3, <3>1, <3>2, <3>3 DEF Publishes, UpToDateRow, AtWork
    <2>4. CASE Deletes(w)
      <3>1. DeleteState(Key(w)) => ~ IsComplete(rows'[Key(w)])
        <4> SUFFICES ASSUME DeleteState(Key(w)) PROVE ~ IsComplete(rows'[Key(w)])
          OBVIOUS
        <4>1. \A s \in StreamIDs : rows'[Key(w)][s] = NoData
          BY <1>1 DEF DeleteState, NoRow
        <4>2. Arrived(rows'[Key(w)]) = {}
          BY <4>1 DEF Arrived
        <4>3. QED
          BY <4>2 DEF IsComplete
      <3>2. h'[w].pc = "err" \/ (h'[w].pc = "ok" /\ DeleteState(Key(w)))
        BY <2>4 DEF Deletes, HandlerGoes
      <3>3. CASE h'[w].pc = "err"
        BY <3>3 DEF UpToDateRow, AtWork
      <3>4. CASE h'[w].pc = "ok" /\ DeleteState(Key(w))
        <4>1. h'[w].rec \notin Malformed
          BY <1>0, <1>2
        <4>2. ~ IsComplete(rows[Key(w)])'
          BY <1>2, <3>1, <3>4
        <4>3. QED
          BY <3>4, <4>1, <4>2 DEF UpToDateRow, AtWork
      <3>5. QED
        BY <3>2, <3>3, <3>4
    <2>5. QED
      BY <2>1, <2>2, <2>3, <2>4, InnerMoves
  <1>7. QED
    BY <1>0, <1>2, <1>3, <1>4, <1>5, <1>6, OthersUpToDate

----------------------------------------------------------------------------
(* The steps of the loop, and the invariant.                               *)

\* A step of an instance leaves the others alone; the loop and the group do
\* nothing with an instance that waits for its handler.
LEMMA OthersStay ==
    ASSUME LP!FetchedInv, NEW w \in Workers,
           \/ Loop!LoopSteps(w) \/ Loop!GroupSteps(w) \/ Loop!Crash(w) \/ Loop!Kill(w)
           \/ \E ok \in BOOLEAN : Loop!HandleReturns(w, ok)
    PROVE  /\ \A v \in Workers \ {w} : loop'[v] = loop[v] /\ cursor'[v] = cursor[v]
           /\ Loop!LoopSteps(w) \/ Loop!GroupSteps(w) =>
                loop[w].pc # "handle" \/ UNCHANGED <<loop, cursor>>
  <1>1. /\ loop \in [Workers -> LP!LoopState]
        /\ cursor \in [Workers -> [Partitions -> Nat]]
    BY DEF LP!FetchedInv, LP!MonotoneInv, LP!TypeInv, LP!LoopTypeOK
  <1>2. CASE Loop!LoopSteps(w)
    BY <1>1, <1>2
       DEF Loop!LoopSteps, Loop!Poll, Loop!FetchFails, Loop!EachPartition, Loop!Dispatch,
           Loop!CommitOk, Loop!CommitFails, Loop!EndFetch, Loop!StepOver, Loop!LeavePartition
  <1>3. CASE Loop!GroupSteps(w)
    BY <1>1, <1>3
       DEF Loop!GroupSteps, Loop!Restart, Loop!Assign, Loop!Revoke, Loop!Evict,
           Loop!RebalanceAllowed
  <1>4. CASE Loop!Crash(w) \/ Loop!Kill(w)
    <2>1. /\ loop' = [loop EXCEPT ![w] = Loop!Stopped] /\ cursor' = cursor
          /\ loop[w].pc # "handle" \/ Loop!Crash(w)
      BY <1>4 DEF Loop!Crash, Loop!Kill, Loop!Exit
    <2>2. \A v \in Workers \ {w} : loop'[v] = loop[v]
      BY <1>1, <2>1
    <2>3. loop'[w].pc = "stopped" /\ loop[w].pc # "stopped"
      BY <1>1, <1>4, <2>1 DEF Loop!Crash, Loop!Kill, Loop!Stopped, Loop!Idle
    <2>4. Loop!LoopSteps(w) \/ Loop!GroupSteps(w) =>
            loop[w].pc # "handle" \/ UNCHANGED <<loop, cursor>>
      BY DEF Loop!LoopSteps, Loop!Poll, Loop!FetchFails, Loop!EachPartition,
             Loop!Dispatch, Loop!CommitOk, Loop!CommitFails, Loop!EndFetch,
             Loop!GroupSteps, Loop!Restart, Loop!Assign, Loop!Revoke, Loop!Evict,
             Loop!RebalanceAllowed
    <2>5. QED
      BY <2>1, <2>2, <2>4
  <1>5. CASE \E ok \in BOOLEAN : Loop!HandleReturns(w, ok)
    <2>1. loop[w].pc = "handle"
      BY <1>5 DEF Loop!HandleReturns
    <2>2. \A v \in Workers \ {w} : loop'[v] = loop[v] /\ cursor'[v] = cursor[v]
      BY <1>1, <1>5 DEF Loop!HandleReturns, Loop!StepOver
    <2>3. Loop!LoopSteps(w) \/ Loop!GroupSteps(w) =>
            loop[w].pc # "handle" \/ UNCHANGED <<loop, cursor>>
      BY DEF Loop!LoopSteps, Loop!Poll, Loop!FetchFails, Loop!EachPartition,
             Loop!Dispatch, Loop!CommitOk, Loop!CommitFails, Loop!EndFetch,
             Loop!GroupSteps, Loop!Restart, Loop!Assign, Loop!Revoke, Loop!Evict,
             Loop!RebalanceAllowed
    <2>4. QED
      BY <2>2, <2>3
  <1>6. QED
    BY <1>2, <1>3, <1>4, <1>5

\* A handler is called with the record in hand, in every mode, and the loop
\* waits for it.
LEMMA WorksStep == OwnInv /\ WorksOnCurrent /\ [Next]_vars => WorksOnCurrent'
  <1> SUFFICES ASSUME OwnInv, WorksOnCurrent, [Next]_vars PROVE WorksOnCurrent'
    OBVIOUS
  <1>0. LP!FetchedInv /\ h \in [Workers -> HandleStates]
    BY DEF OwnInv, SharedInv, HandlerOK
  <1>1. ASSUME UNCHANGED <<loop, cursor>>,
               \A v \in Workers : h'[v].pc # "idle" =>
                   h[v].pc # "idle" /\ h'[v].rec = h[v].rec
        PROVE  WorksOnCurrent'
    BY <1>1 DEF WorksOnCurrent, Loop!Current
  <1>2. ASSUME NEW w \in Workers,
               \A v \in Workers \ {w} :
                  h'[v] = h[v] /\ loop'[v] = loop[v] /\ cursor'[v] = cursor[v],
               h'[w].pc # "idle" => loop'[w].pc = "handle" /\ h'[w].rec = Loop!Current(w)'
        PROVE  WorksOnCurrent'
    BY <1>2 DEF WorksOnCurrent, Loop!Current
  <1>3. ASSUME NEW w \in Workers, LoopStep(w) \/ GroupStep(w) PROVE WorksOnCurrent'
    <2>1. h' = h /\ (Loop!LoopSteps(w) \/ Loop!GroupSteps(w))
      BY <1>3 DEF LoopStep, GroupStep
    <2>2. /\ \A v \in Workers \ {w} : loop'[v] = loop[v] /\ cursor'[v] = cursor[v]
          /\ loop[w].pc # "handle" \/ UNCHANGED <<loop, cursor>>
      BY <1>0, <2>1, OthersStay
    <2>3. CASE UNCHANGED <<loop, cursor>>
      BY <1>1, <2>1, <2>3
    <2>4. CASE loop[w].pc # "handle"
      BY <1>2, <2>1, <2>2, <2>4 DEF WorksOnCurrent
    <2>5. QED
      BY <2>2, <2>3, <2>4
  <1>4. ASSUME NEW w \in Workers, CrashStep(w) \/ KillStep(w) \/ Return(w)
        PROVE  WorksOnCurrent'
    <2>1. /\ h' = [h EXCEPT ![w] = Ready]
          /\ \/ Loop!Crash(w) \/ Loop!Kill(w)
             \/ \E ok \in BOOLEAN : Loop!HandleReturns(w, ok)
      BY <1>4 DEF CrashStep, KillStep, Return, ProcessEnds
    <2>2. h'[w].pc = "idle" /\ \A v \in Workers \ {w} : h'[v] = h[v]
      BY <1>0, <2>1 DEF Ready
    <2>3. \A v \in Workers \ {w} : loop'[v] = loop[v] /\ cursor'[v] = cursor[v]
      BY <1>0, <2>1, OthersStay
    <2>4. QED
      BY <1>2, <2>2, <2>3
  <1>5. ASSUME NEW w \in Workers, Call(w) PROVE WorksOnCurrent'
    <2>1. /\ UNCHANGED <<loop, cursor>> /\ loop[w].pc = "handle"
          /\ h'[w].rec = Loop!Current(w) /\ \A v \in Workers \ {w} : h'[v] = h[v]
      BY <1>0, <1>5 DEF Call, StartHandle, loopVars, Ready
    <2>2. Loop!Current(w)' = Loop!Current(w)
      BY <2>1 DEF Loop!Current
    <2>3. QED
      BY <1>2, <2>1, <2>2
  <1>6. ASSUME NEW t, Timeouts(t) \/ Delay(t) PROVE WorksOnCurrent'
    BY <1>1, <1>6 DEF Timeouts, Delay, loopVars
  <1>7. ASSUME NEW w \in Workers, Handle(w) PROVE WorksOnCurrent'
    <2> DEFINE Stays == h'[w].rec = h[w].rec /\ \A v \in Workers \ {w} : h'[v] = h[v]
    <2>1. h[w].pc # "idle" /\ UNCHANGED <<loop, cursor>> /\ HandleSteps(w)
      BY <1>7 DEF Handle, loopVars, HandleSteps, BloomExists, UpsertParticipantOnly,
         AddToBloom, ScheduleFirst, UpsertParticipant, ReadBack, Contains,
         PublishCorrection, Untrack, DropLate, Enqueue, Publish, DeleteAfterEgress
    <2>2. ASSUME NEW pc, Goto(w, pc) PROVE Stays
      BY <1>0, <2>2 DEF Goto, HandleStates
    <2>3. ASSUME ReadBack(w) PROVE Stays
      BY <1>0, <2>3 DEF ReadBack, HandleStates
    <2>4. ASSUME BloomExists(w) \/ UpsertParticipantOnly(w) \/ AddToBloom(w) \/ ScheduleFirst(w)
         PROVE  Stays
      BY <2>2, <2>4 DEF BloomExists, UpsertParticipantOnly, AddToBloom, ScheduleFirst
    <2>5. ASSUME UpsertParticipant(w) \/ Contains(w) \/ PublishCorrection(w) \/ Untrack(w)
         PROVE  Stays
      BY <2>2, <2>5 DEF UpsertParticipant, Contains, PublishCorrection, Untrack
    <2>6. ASSUME DropLate(w) \/ Enqueue(w) \/ Publish(w) \/ DeleteAfterEgress(w)
         PROVE  Stays
      BY <2>2, <2>6 DEF DropLate, Enqueue, Publish, DeleteAfterEgress
    <2>7. Stays
      BY <2>1, <2>3, <2>4, <2>5, <2>6 DEF HandleSteps
    <2>8. QED
      BY <1>1, <2>1, <2>7
  <1>8. CASE UNCHANGED vars
    BY <1>1, <1>8 DEF vars, loopVars
  <1>9. QED
    BY <1>3, <1>4, <1>5, <1>6, <1>7, <1>8 DEF Next

\* No handler is at work in the beginning.
LEMMA WorksInit == Init => WorksOnCurrent
  BY DEF Init, HandlerInit, Ready, WorksOnCurrent

\* A step that leaves the rows and the topic alone, and all instances but one.
LEMMA QuietKeeps ==
    ASSUME InnerInv, UNCHANGED <<rows, egress>>, NEW w \in Workers,
           \A v \in Workers \ {w} :
              h'[v] = h[v] /\ loop'[v] = loop[v] /\ cursor'[v] = cursor[v],
           h'[w].pc # "idle" => loop'[w].pc = "handle" /\ h'[w].rec = Loop!Current(w)',
           UpToDateRow(w)'
    PROVE  WorksOnCurrent' /\ \A v \in Workers : UpToDateRow(v)'
  <1>1. WorksOnCurrent /\ \A v \in Workers : UpToDateRow(v)
    BY DEF InnerInv, HandInv
  <1>2. WorksOnCurrent'
    BY <1>1 DEF WorksOnCurrent, Loop!Current
  <1>3. ASSUME NEW v \in Workers \ {w} PROVE UpToDateRow(v)'
    BY <1>1, <1>3 DEF UpToDateRow, Key, Stream, Joined
  <1>4. QED
    BY <1>2, <1>3

\* Every step keeps the invariant, ...
LEMMA InnerStep ==
    ASSUME InnerJoin
    PROVE  InnerInv /\ [Next]_vars => InnerInv'
  <1> SUFFICES ASSUME InnerInv, [Next]_vars PROVE InnerInv'
    OBVIOUS
  <1> DEFINE Goal == WorksOnCurrent' /\ \A v \in Workers : UpToDateRow(v)'
  <1>0. /\ OwnInv /\ LP!ExclusiveInv /\ WorksOnCurrent /\ LP!FetchedInv
        /\ \A v \in Workers : UpToDateRow(v)
        /\ h \in [Workers -> HandleStates]
        /\ HasRedis = FALSE /\ HasDelay = FALSE /\ MayEvict = FALSE
    BY DEF InnerInv, HandInv, OwnInv, SharedInv, HandlerOK, InnerJoin
  <1>1. OwnInv' /\ LP!ExclusiveInv'
    BY <1>0, OwnStep, LoopMovesOn, LP!ExclusiveStep, LoopAssumption
  <1>2. ASSUME UNCHANGED <<rows, egress, h, loop, cursor>> PROVE Goal
    BY <1>0, <1>2 DEF WorksOnCurrent, UpToDateRow, Key, Stream, Joined, Loop!Current
  <1>3. ASSUME NEW w \in Workers, LoopStep(w) \/ GroupStep(w) PROVE Goal
    <2>1. /\ UNCHANGED <<rows, egress, h>>
          /\ Loop!LoopSteps(w) \/ Loop!GroupSteps(w)
      BY <1>3 DEF LoopStep, GroupStep, storeVars
    <2>2. /\ \A v \in Workers \ {w} : loop'[v] = loop[v] /\ cursor'[v] = cursor[v]
          /\ loop[w].pc # "handle" \/ UNCHANGED <<loop, cursor>>
      BY <1>0, <2>1, OthersStay
    <2>3. CASE UNCHANGED <<loop, cursor>>
      BY <1>2, <2>1, <2>3
    <2>4. CASE loop[w].pc # "handle"
      <3>1. h[w].pc = "idle"
        BY <1>0, <2>4 DEF WorksOnCurrent
      <3>2. UpToDateRow(w)'
        BY <2>1, <3>1 DEF UpToDateRow, AtWork
      <3>3. QED
        BY <2>1, <2>2, <3>1, <3>2, QuietKeeps
    <2>5. QED
      BY <2>2, <2>3, <2>4
  <1>4. ASSUME NEW w \in Workers, CrashStep(w) \/ KillStep(w) \/ Return(w) PROVE Goal
    <2>1. /\ UNCHANGED <<rows, egress>> /\ h' = [h EXCEPT ![w] = Ready]
          /\ \/ Loop!Crash(w) \/ Loop!Kill(w)
             \/ \E ok \in BOOLEAN : Loop!HandleReturns(w, ok)
      BY <1>4 DEF CrashStep, KillStep, Return, ProcessEnds, storeVars
    <2>2. h'[w].pc = "idle" /\ \A v \in Workers \ {w} : h'[v] = h[v]
      BY <1>0, <2>1 DEF Ready
    <2>3. UpToDateRow(w)'
      BY <2>2 DEF UpToDateRow, AtWork
    <2>4. \A v \in Workers \ {w} : loop'[v] = loop[v] /\ cursor'[v] = cursor[v]
      BY <1>0, <2>1, OthersStay
    <2>5. QED
      BY <2>1, <2>2, <2>3, <2>4, QuietKeeps
  <1>5. ASSUME NEW w \in Workers, Call(w) PROVE Goal
    <2>1. /\ UNCHANGED <<rows, egress, loop, cursor>> /\ loop[w].pc = "handle"
          /\ h' = [h EXCEPT ![w] = [Ready EXCEPT !.rec = Loop!Current(w),
                     !.pc = IF Loop!Current(w) \in Malformed THEN "err"
                            ELSE IF HasRedis THEN "bloom" ELSE "upsert"]]
      BY <1>5 DEF Call, StartHandle, storeVars, loopVars
    <2>2. /\ h'[w].rec = Loop!Current(w)
          /\ h'[w].pc = IF Loop!Current(w) \in Malformed THEN "err" ELSE "upsert"
          /\ \A v \in Workers \ {w} : h'[v] = h[v]
      BY <1>0, <2>1 DEF Ready
    <2>3. UpToDateRow(w)'
      BY <2>2 DEF UpToDateRow, AtWork
    <2>4. Loop!Current(w)' = Loop!Current(w)
      BY <2>1 DEF Loop!Current
    <2>5. QED
      BY <2>1, <2>2, <2>3, <2>4, QuietKeeps
  <1>6. ASSUME NEW w \in Workers, NEW c \in Configs, Timeouts(<<w, c>>) \/ Delay(<<w, c>>)
        PROVE  Goal
    BY <1>0, <1>6 DEF Timeouts, TimeoutSteps, Delay, DelaySteps
  <1>7. ASSUME NEW w \in Workers, Handle(w) PROVE Goal
    BY <1>7, InnerHandle
  <1>9. Goal
    BY <1>2, <1>3, <1>4, <1>5, <1>6, <1>7 DEF Next, vars, storeVars, loopVars
  <1>10. QED
    BY <1>1, <1>9 DEF InnerInv, HandInv

\* ... it holds in the beginning, ...
LEMMA InnerInit == Init => InnerInv
  <1> SUFFICES ASSUME Init PROVE InnerInv
    OBVIOUS
  <1>1. OwnInv
    BY OwnInit
  <1>2. LP!ExclusiveInv
    BY LoopStarts, LP!ExclusiveInit, LoopAssumption
  <1>3. \A w \in Workers : h[w].pc = "idle"
    BY DEF Init, HandlerInit, Ready
  <1>4. WorksOnCurrent /\ \A w \in Workers : UpToDateRow(w)
    BY <1>3 DEF WorksOnCurrent, UpToDateRow, AtWork
  <1>5. QED
    BY <1>1, <1>2, <1>4 DEF InnerInv, HandInv

\* ... and so always.
LEMMA InnerAlways ==
    ASSUME InnerJoin
    PROVE  Spec => []InnerInv
  BY InnerInit, InnerStep, PTL DEF Spec

----------------------------------------------------------------------------
(* The refinement of JoinSpec.                                             *)

\* The processor's words for the state of a key, and the specification's.
LEMMA SameWords ==
    ASSUME NEW k \in Keys
    PROVE  /\ Join!Complete(k) <=> IsComplete(rows[k])
           /\ Join!Snapshot(k) = Document("joined", k, Apply(rows[k]))
  <1>1. Join!Present(k) = Arrived(rows[k])
    BY DEF Join!Present, Arrived
  <1>2. QED
    <2>1. Join!Complete(k) <=> IsComplete(rows[k])
      <3>1. Join!Cardinality(Arrived(rows[k])) = Cardinality(Arrived(rows[k]))
        BY DEF Join!Cardinality, Cardinality
      <3>2. QED
        BY <1>1, <3>1 DEF Join!Complete, IsComplete
    <2>2. Join!Snapshot(k).data = Apply(rows[k])
      BY <1>1 DEF Join!Snapshot, Apply
    <2>3. QED
      BY <2>1, <2>2 DEF Join!Snapshot, Document

\* Only a handler touches the rows and the topic.
LEMMA OnlyHandlers ==
    ASSUME InnerJoin, [Next]_vars
    PROVE  UNCHANGED <<rows, egress, corrections>> \/ \E w \in Workers : Handle(w)
  <1>1. HasRedis = FALSE /\ HasDelay = FALSE
    BY DEF InnerJoin
  <1>2. ASSUME NEW t, Timeouts(t) \/ Delay(t) PROVE FALSE
    BY <1>1, <1>2 DEF Timeouts, TimeoutSteps, Delay, DelaySteps
  <1>3. ASSUME NEW w \in Workers,
               \/ LoopStep(w) \/ CrashStep(w) \/ KillStep(w) \/ GroupStep(w)
               \/ Call(w) \/ Return(w)
        PROVE  UNCHANGED <<rows, egress, corrections>>
    BY <1>3 DEF storeVars, LoopStep, CrashStep, KillStep, GroupStep, Call, StartHandle,
                Return, ProcessEnds
  <1>4. CASE UNCHANGED vars
    BY <1>4 DEF vars, storeVars
  <1>5. CASE Next
    BY <1>2, <1>3, <1>5 DEF Next
  <1>6. QED
    BY <1>4, <1>5

\* What a handler does is one step of the specification.
LEMMA HandleRefined ==
    ASSUME InnerJoin, InnerInv, NEW w \in Workers, Handle(w)
    PROVE  Join!JoinNext \/ UNCHANGED <<rows, egress>>
  <1>1. Stores(w) \/ ReadsRow(w) \/ Publishes(w) \/ Deletes(w)
    BY InnerMoves
  <1>2. h[w].pc # "idle" /\ UpToDateRow(w) /\ LogsOK
    BY <1>1 DEF Stores, ReadsRow, Publishes, Deletes, InnerInv, HandInv, OwnInv, SharedInv
  <1>3. h[w].rec \in Records /\ Key(w) \in Keys /\ Stream(w) \in StreamIDs
    BY <1>2, InnerFacts, InnerInHand
  <1>4. CASE Stores(w)
    <2>1. Upsert(Key(w), Stream(w), h[w].rec) /\ egress' = egress => Join!Accept(h[w].rec)
      BY DEF Upsert, Join!Accept, Key, Stream
    <2>2. QED
      BY <1>3, <1>4, <2>1 DEF Stores, Join!JoinNext
  <1>5. CASE ReadsRow(w)
    BY <1>5 DEF ReadsRow
  <1>6. CASE Publishes(w)
    <2>1. Join!Snapshot(Key(w)) = Joined(w) /\ Join!Complete(Key(w))
      BY <1>2, <1>3, <1>6, SameWords DEF Publishes, UpToDateRow, AtWork, Joined
    <2>2. Produce(Joined(w)) /\ rows' = rows => Join!PublishJoin(Key(w))
      BY <2>1 DEF Produce, Join!PublishJoin
    <2>3. QED
      BY <1>3, <1>6, <2>2 DEF Publishes, Join!JoinNext
  <1>7. CASE Deletes(w)
    <2>1. /\ Join!Snapshot(Key(w)) = Joined(w) /\ Join!Complete(Key(w))
          /\ Joined(w) \in Topic(egress)
      BY <1>2, <1>3, <1>7, SameWords DEF Deletes, UpToDateRow, AtWork, Joined
    <2>2. DeleteState(Key(w)) /\ egress' = egress => Join!Clear(Key(w))
      BY <2>1 DEF DeleteState, NoRow, Join!Clear, Topic
    <2>3. QED
      BY <1>3, <1>7, <2>2 DEF Deletes, Join!JoinNext
  <1>8. QED
    BY <1>1, <1>4, <1>5, <1>6, <1>7

\* Without Redis, a settle delay and evictions, and with the records of a key
\* in one partition, the processor implements the inner join of JoinSpec.
THEOREM JoinImplemented ==
    ASSUME InnerJoin
    PROVE  Spec => JoinRefined
  <1>1. Init => Join!JoinInit
    BY DEF Init, StoreInit, NoRow, Join!JoinInit
  <1>2. InnerInv /\ [Next]_vars => [Join!JoinNext]_(Join!joinVars)
    BY OnlyHandlers, HandleRefined DEF Join!joinVars
  <1>3. QED
    BY <1>1, <1>2, InnerAlways, PTL DEF Spec, JoinRefined, Join!JoinSafety

\* In such a processor that projects every stream, a participant leaves its row
\* only when a document that carries it is on a topic.
THEOREM DeletesAfterEgress ==
    ASSUME InnerJoin, Projected = StreamIDs
    PROVE  Spec => DeletedOnlyAfterEgress
  <1> DEFINE Keeps == \A k \in Keys : \A s \in StreamIDs :
               (rows[k][s] # NoData /\ rows'[k][s] = NoData) => rows[k][s] \in Delivered
  <1>1. InnerInv /\ [Next]_vars => [Keeps]_vars
    <2> SUFFICES ASSUME InnerInv, [Next]_vars PROVE Keeps
      OBVIOUS
    <2>0. rows \in [Keys -> Row]
      BY DEF InnerInv, HandInv, OwnInv, SharedInv, RowsOK
    <2>1. CASE UNCHANGED <<rows, egress>>
      BY <2>1
    <2>2. CASE \E w \in Workers : Handle(w)
      <3>1. PICK w \in Workers : Stores(w) \/ ReadsRow(w) \/ Publishes(w) \/ Deletes(w)
        BY <2>2, InnerMoves
      <3>2. h[w].pc # "idle" /\ UpToDateRow(w)
        BY <3>1 DEF Stores, ReadsRow, Publishes, Deletes, InnerInv, HandInv
      <3>3. /\ h[w].rec \in Records /\ Key(w) \in Keys /\ Stream(w) \in StreamIDs
            /\ h[w].rec # NoData
        BY <3>2, InnerFacts, InnerInHand, StoreConstants
      <3>4. CASE rows' = rows
        BY <3>4
      <3>5. CASE Upsert(Key(w), Stream(w), h[w].rec)
        <4>1. \A k \in Keys : \A s \in StreamIDs : rows'[k][s] \in {rows[k][s], h[w].rec}
          BY <2>0, <3>3, <3>5 DEF Upsert, Row
        <4>2. QED
          BY <3>3, <4>1
      <3>6. CASE Deletes(w) /\ DeleteState(Key(w))
        <4>1. /\ Joined(w) \in Topic(egress)
              /\ Joined(w).data = {rows[Key(w)][s] : s \in Arrived(rows[Key(w)])}
          BY <3>2, <3>6
             DEF Deletes, UpToDateRow, AtWork, Joined, Document, Apply, Arrived
        <4>2. \A s \in StreamIDs :
                rows[Key(w)][s] # NoData => rows[Key(w)][s] \in Delivered
          BY <4>1 DEF Arrived, Delivered
        <4>3. \A k \in Keys \ {Key(w)} : rows'[k] = rows[k]
          BY <2>0, <3>3, <3>6 DEF DeleteState
        <4>4. QED
          BY <4>2, <4>3
      <3>7. QED
        BY <3>1, <3>4, <3>5, <3>6 DEF Stores, ReadsRow, Publishes, Deletes
    <2>3. QED
      BY <2>1, <2>2, OnlyHandlers
  <1>2. QED
    BY <1>1, InnerAlways, PTL DEF Spec, DeletedOnlyAfterEgress

----------------------------------------------------------------------------
(* One partition: nothing is dropped, and no complete join is stranded.    *)

\* One partition; its records are in the order in which they are handled.
SingleInner ==
    /\ HasRedis = FALSE /\ HasDelay = FALSE /\ MayEvict = FALSE
    /\ \A p, q \in Partitions : p = q

\* A complete join that Run has not given up has an event that Run has not put
\* behind it.
Pending(k) ==
    \E r \in Records \ Malformed : KeyOf[r] = k /\ ~ LP!Passed(r[1], r[2])

NotStranded == \A k \in Keys : IsComplete(rows[k]) => GivenUp(k) \/ Pending(k)

\* Record r is in the state of its key or in a document, or a later one is in
\* its place, or Handle returned an error for it.
Safe(r) ==
    \/ r \in Kept \cup Delivered \cup errored
    \/ Later(r) \cap (Kept \cup Delivered) # {}

\* What Run has put behind it is safe, and so is a record whose handler is done.
SafeBehind ==
    /\ \A r \in Records : LP!Passed(r[1], r[2]) => Safe(r)
    /\ \A w \in Workers : h[w].pc = "ok" => h[w].rec \in Kept \cup Delivered

SingleInnerInv == InnerInv /\ LP!SingleInv /\ NotStranded

SafeInv == SingleInnerInv /\ SafeBehind

\* One partition holds all records of a key.
LEMMA SingleIsInner ==
    ASSUME SingleInner
    PROVE  InnerJoin /\ LP!SinglePartition
  <1>1. \A r \in Records : r[1] \in Partitions
    BY ProcessorConstants
  <1>2. KeyAffinity
    BY <1>1 DEF SingleInner, KeyAffinity
  <1>3. QED
    BY <1>2 DEF SingleInner, InnerJoin, LP!SinglePartition

\* A record is a place in a log.
LEMMA RecordPlaces ==
    ASSUME NEW r \in Records
    PROVE  r[1] \in Partitions /\ r[2] \in Nat /\ r = <<r[1], r[2]>>
  <1>1. PICK p \in Partitions : \E o \in 0 .. LogLen[p] - 1 : r = <<p, o>>
    BY ProcessorConstants
  <1>2. QED
    BY <1>1

\* The record of a busy handler is not behind the loop, and all records of the
\* topic that are come before it.
LEMMA NotBehind ==
    ASSUME LP!SinglePartition, HandInv, LP!SingleInv, NEW w \in Workers, h[w].pc # "idle",
           NEW r \in Records
    PROVE  /\ r[1] = h[w].rec[1]
           /\ LP!Passed(r[1], r[2]) <=> r[2] < h[w].rec[2]
           /\ \A v \in Workers \ {w} : h[v].pc = "idle"
  <1>0. /\ loop[w].pc = "handle" /\ loop[w].part \in Partitions
        /\ h[w].rec = <<loop[w].part, cursor[w][loop[w].part]>>
        /\ owner[loop[w].part] = w
    BY InnerFacts
  <1>1. r[1] = loop[w].part /\ r[2] \in Nat
    BY <1>0, RecordPlaces DEF LP!SinglePartition
  <1>2. LP!Passed(r[1], r[2]) <=> r[2] < cursor[w][loop[w].part]
    BY <1>0, <1>1, LP!PassedBelow, LoopAssumption DEF HandInv
  <1>3. ASSUME NEW v \in Workers, h[v].pc # "idle" PROVE v = w
    <2>1. owner[loop[v].part] = v /\ loop[v].part \in Partitions
      BY <1>3, InnerFacts
    <2>2. QED
      BY <1>0, <2>1 DEF LP!SinglePartition
  <1>4. QED
    BY <1>0, <1>1, <1>2, <1>3

\* Only a Handle that returns puts its record behind the loop.
LEMMA ReturnedWith ==
    ASSUME OwnInv, [Next]_vars, NEW w \in Workers,
           loop[w].pc = "handle", loop'[w].pc \in {"commit", "record", "each"}
    PROVE  Return(w)
  <1>1. LP!FetchedInv /\ loop \in [Workers -> LP!LoopState]
    BY DEF OwnInv, LP!FetchedInv, LP!MonotoneInv, LP!TypeInv, LP!LoopTypeOK
  <1>2. ASSUME NEW v \in Workers, LoopStep(v) \/ GroupStep(v) PROVE loop'[w] = loop[w]
    <2>1. Loop!LoopSteps(v) \/ Loop!GroupSteps(v)
      BY <1>2 DEF LoopStep, GroupStep
    <2>2. QED
      BY <1>1, <2>1, OthersStay
  <1>3. ASSUME NEW v \in Workers, CrashStep(v) \/ KillStep(v) PROVE FALSE
    <2>1. loop' = [loop EXCEPT ![v] = Loop!Stopped]
      BY <1>3 DEF CrashStep, KillStep, Loop!Crash, Loop!Kill, Loop!Exit
    <2>2. QED
      BY <1>1, <2>1 DEF Loop!Stopped, Loop!Idle
  <1>4. ASSUME NEW v \in Workers, Return(v), v # w PROVE loop'[w] = loop[w]
    <2>1. \E ok \in BOOLEAN : Loop!HandleReturns(v, ok)
      BY <1>4 DEF Return
    <2>2. QED
      BY <1>1, <1>4, <2>1, OthersStay
  <1>5. ASSUME NEW v \in Workers,
               \/ Call(v) \/ Handle(v)
               \/ \E c \in Configs : Timeouts(<<v, c>>) \/ Delay(<<v, c>>)
        PROVE  loop'[w] = loop[w]
    BY <1>5 DEF Call, Handle, Timeouts, Delay, loopVars
  <1>6. ~ UNCHANGED vars
    BY DEF vars, loopVars
  <1>7. QED
    BY <1>2, <1>3, <1>4, <1>5, <1>6 DEF Next

\* A record that is behind the loop now was so before, or a Handle has just
\* returned with it: without an error, or with one that Run counts.
LEMMA NewlyBehind ==
    ASSUME LP!SinglePartition, HandInv, LP!SingleInv, [Next]_vars,
           NEW r \in Records, LP!Passed(r[1], r[2])'
    PROVE  \/ LP!Passed(r[1], r[2])
           \/ \E w \in Workers :
                /\ UNCHANGED <<rows, egress, corrections>>
                /\ h[w].rec = r
                /\ h[w].pc = "ok" \/ (h[w].pc = "err" /\ r \in errored')
  <1>1. CASE ~ LP!Passed(r[1], r[2])
    <2>1. PICK w \in Workers : LP!Returned(w, r[1], r[2])
      BY <1>1, RecordPlaces, LoopMovesOn, LoopAssumption, LP!PassedStep
    <2>2. /\ loop[w].pc = "handle" /\ LP!Current(w) = r
          /\ loop'[w].pc \in {"commit", "record", "each"}
      BY <2>1, RecordPlaces DEF LP!Returned
    <2>3. Return(w)
      BY <2>2, ReturnedWith DEF HandInv
    <2>4. h[w].pc \in {"ok", "err"} /\ UNCHANGED <<rows, egress, corrections>>
      BY <2>3 DEF Return, HandleReturned, storeVars
    <2>5. h[w].rec = r
      BY <2>2, <2>4, InnerFacts DEF LP!Current, Loop!Current
    <2>6. h[w].pc = "err" => r \in errored'
      <3>1. LP!Current(w) = Loop!Current(w)
        BY DEF LP!Current, Loop!Current
      <3>2. QED
        BY <2>2, <2>3, <3>1 DEF Return, Loop!HandleReturns
    <2>7. QED
      BY <2>4, <2>5, <2>6
  <1>2. QED
    BY <1>1

\* What Run counts as an error stays one.
LEMMA ErrorsGrow == [Next]_vars => errored \subseteq errored'
  <1>1. ASSUME LP!LoopNext PROVE errored \subseteq errored'
    BY <1>1
       DEF LP!LoopNext, LP!LoopSteps, LP!HandlerSteps, LP!GroupSteps, LP!Poll,
           LP!FetchFails, LP!EachPartition, LP!Dispatch, LP!HandleReturns, LP!CommitOk,
           LP!CommitFails, LP!EndFetch, LP!Crash, LP!Kill, LP!Restart, LP!Assign,
           LP!Revoke, LP!Evict
  <1>2. QED
    BY <1>1, LoopMovesOn DEF LP!loopVars

----------------------------------------------------------------------------
(* A complete join is never stranded.                                      *)

\* Every step keeps the invariant ...
LEMMA StrandedStep ==
    ASSUME SingleInner
    PROVE  SingleInnerInv /\ [Next]_vars => SingleInnerInv'
  <1> SUFFICES ASSUME SingleInnerInv, [Next]_vars PROVE SingleInnerInv'
    OBVIOUS
  <1>0. /\ InnerInv /\ LP!SingleInv /\ NotStranded /\ InnerJoin /\ LP!SinglePartition
        /\ rows \in [Keys -> Row]
    BY SingleIsInner DEF SingleInnerInv, InnerInv, HandInv, OwnInv, SharedInv, RowsOK
  <1>1. InnerInv' /\ LP!SingleInv'
    BY <1>0, InnerStep, LP!SingleStep, LoopMovesOn, LoopAssumption
  <1>2. ASSUME NEW k \in Keys, IsComplete(rows'[k]) PROVE GivenUp(k)' \/ Pending(k)'
    <2>1. GivenUp(k) => GivenUp(k)'
      BY ErrorsGrow DEF GivenUp
    <2>2. ASSUME IsComplete(rows[k]) PROVE GivenUp(k)' \/ Pending(k)'
      <3>1. CASE GivenUp(k)
        BY <2>1, <3>1
      <3>2. CASE Pending(k)
        <4>1. PICK r \in Records \ Malformed :
                KeyOf[r] = k /\ ~ LP!Passed(r[1], r[2])
          BY <3>2 DEF Pending
        <4>2. CASE ~ LP!Passed(r[1], r[2])'
          BY <4>1, <4>2 DEF Pending
        <4>3. CASE LP!Passed(r[1], r[2])'
          <5>1. PICK w \in Workers :
                  /\ h[w].rec = r
                  /\ h[w].pc = "ok" \/ (h[w].pc = "err" /\ r \in errored')
            BY <1>0, <4>1, <4>3, NewlyBehind, InnerInHand
          <5>2. Key(w) = k /\ UpToDateRow(w)
            BY <1>0, <4>1, <5>1 DEF Key, InnerInv, HandInv
          <5>3. h[w].pc # "ok"
            BY <2>2, <5>2 DEF UpToDateRow
          <5>4. QED
            BY <4>1, <5>1, <5>3 DEF GivenUp
        <4>4. QED
          BY <4>2, <4>3
      <3>3. QED
        BY <1>0, <2>2, <3>1, <3>2 DEF NotStranded
    <2>3. CASE rows' = rows
      BY <1>2, <2>2, <2>3
    <2>4. ASSUME NEW w \in Workers, Handle(w) PROVE GivenUp(k)' \/ Pending(k)'
      <3>1. Stores(w) \/ ReadsRow(w) \/ Publishes(w) \/ Deletes(w)
        BY <1>0, <2>4, InnerMoves
      <3>2. h[w].pc # "idle" /\ UpToDateRow(w)
        BY <1>0, <3>1 DEF Stores, ReadsRow, Publishes, Deletes, InnerInv, HandInv
      <3>3. /\ h[w].rec \in Records /\ Key(w) \in Keys /\ Stream(w) \in StreamIDs
            /\ h[w].rec[2] \in Nat
        BY <1>0, <3>2, InnerFacts, InnerInHand, RecordPlaces
      <3>4. CASE h[w].pc = "upsert" /\ Upsert(Key(w), Stream(w), h[w].rec)
        <4>1. CASE k = Key(w)
          <5>1. ~ LP!Passed(h[w].rec[1], h[w].rec[2])
            BY <1>0, <3>2, <3>3, NotBehind, InnerInHand
          <5>2. UNCHANGED <<committed, owner, cursor, loop>>
            BY <2>4 DEF Handle, loopVars
          <5>3. ~ LP!Passed(h[w].rec[1], h[w].rec[2])'
            <6>1. h'[w].rec = h[w].rec
              BY <3>1, <3>4 DEF Stores, ReadsRow, Publishes, Deletes, HandlerGoes
            <6>2. QED
              BY <5>1, <5>2, <6>1 DEF LP!Passed, LP!GoesOn
          <5>4. h[w].rec \notin Malformed /\ KeyOf[h[w].rec] = k
            BY <3>2, <3>4, <4>1 DEF UpToDateRow, AtWork, Key
          <5>5. h'[w].rec = h[w].rec
            BY <3>1, <3>4 DEF Stores, ReadsRow, Publishes, Deletes, HandlerGoes
          <5>6. QED
            BY <3>3, <5>3, <5>4, <5>5 DEF Pending
        <4>2. CASE k # Key(w)
          <5>1. rows'[k] = rows[k]
            BY <1>0, <3>3, <3>4, <4>2 DEF Upsert
          <5>2. QED
            BY <1>2, <2>2, <5>1
        <4>3. QED
          BY <4>1, <4>2
      <3>5. CASE DeleteState(Key(w))
        <4>1. CASE k = Key(w)
          <5>1. \A s \in StreamIDs : rows'[k][s] = NoData
            BY <1>0, <3>3, <3>5, <4>1 DEF DeleteState, NoRow
          <5>2. Arrived(rows'[k]) = {}
            BY <5>1 DEF Arrived
          <5>3. QED
            BY <1>2, <5>2 DEF IsComplete
        <4>2. CASE k # Key(w)
          <5>1. rows'[k] = rows[k]
            BY <1>0, <3>3, <3>5, <4>2 DEF DeleteState
          <5>2. QED
            BY <1>2, <2>2, <5>1
        <4>3. QED
          BY <4>1, <4>2
      <3>6. QED
        BY <2>3, <3>1, <3>4, <3>5 DEF Stores, ReadsRow, Publishes, Deletes
    <2>5. QED
      BY <1>0, <2>3, <2>4, OnlyHandlers
  <1>3. NotStranded'
    BY <1>2 DEF NotStranded
  <1>4. QED
    BY <1>1, <1>3 DEF SingleInnerInv

\* ... that holds in the beginning.
LEMMA StrandedInit == Init => SingleInnerInv
  <1> SUFFICES ASSUME Init PROVE SingleInnerInv
    OBVIOUS
  <1>1. InnerInv /\ LP!SingleInv
    BY InnerInit, LoopStarts, LP!SingleInit, LoopAssumption
  <1>2. \A k \in Keys : ~ IsComplete(rows[k])
    <2> SUFFICES ASSUME NEW k \in Keys PROVE ~ IsComplete(rows[k])
      OBVIOUS
    <2>1. \A s \in StreamIDs : rows[k][s] = NoData
      BY DEF Init, StoreInit, NoRow
    <2>2. Arrived(rows[k]) = {}
      BY <2>1 DEF Arrived
    <2>3. QED
      BY <2>2 DEF IsComplete
  <1>3. QED
    BY <1>1, <1>2 DEF SingleInnerInv, NotStranded

\* In an inner join over one partition, a complete join whose key Run has not
\* given up has an event that is not committed: a handler is at work on it, or
\* will be, through crashes, hand-overs and failed calls.
THEOREM JoinsNotStranded ==
    ASSUME SingleInner
    PROVE  Spec => []NoStrandedJoin
  <1>1. SingleInnerInv => NoStrandedJoin
    <2> SUFFICES ASSUME SingleInnerInv, NEW k \in Keys, Pending(k)
                 PROVE  \E r \in Records : KeyOf[r] = k /\ committed[r[1]] <= r[2]
      BY DEF NoStrandedJoin, SingleInnerInv, NotStranded
    <2>1. PICK r \in Records : KeyOf[r] = k /\ ~ LP!Passed(r[1], r[2])
      BY DEF Pending
    <2>2. committed[r[1]] \in Nat /\ r[2] \in Nat
      BY RecordPlaces
         DEF SingleInnerInv, InnerInv, HandInv, OwnInv, LP!FetchedInv, LP!MonotoneInv, LP!TypeInv,
             LP!LoopTypeOK
    <2>3. committed[r[1]] <= r[2]
      BY <2>1, <2>2 DEF LP!Passed
    <2>4. QED
      BY <2>1, <2>3
  <1>2. SingleInnerInv /\ [Next]_vars => SingleInnerInv'
    BY StrandedStep
  <1>3. QED
    BY <1>1, <1>2, StrandedInit, PTL DEF Spec

----------------------------------------------------------------------------
(* Nothing is dropped.                                                     *)

\* A document that is on a topic stays there.
LEMMA DeliveredGrows ==
    ASSUME InnerInv, NEW w \in Workers, h[w].pc # "idle", corrections' = corrections,
           egress' = egress \/ Produce(Joined(w))
    PROVE  Delivered \subseteq Delivered'
  <1>1. LogsOK /\ Joined(w) \in OwnDocuments
    BY JoinedIsOwn DEF InnerInv, HandInv, OwnInv, SharedInv
  <1>2. Topic(egress) \subseteq Topic(egress')
    BY <1>1, TopicGrows
  <1>3. QED
    BY <1>2 DEF Delivered

\* What a handler that deletes has of its key is in the document it published.
LEMMA DeletesDelivered ==
    ASSUME InnerInv, Projected = StreamIDs, NEW w \in Workers, h[w].pc = "delete",
           NEW s \in StreamIDs, rows[Key(w)][s] # NoData
    PROVE  rows[Key(w)][s] \in Delivered
  <1>1. Joined(w) \in Topic(egress) /\ h[w].row = rows[Key(w)]
    BY DEF InnerInv, HandInv, UpToDateRow, AtWork
  <1>2. Joined(w).data = {rows[Key(w)][q] : q \in Arrived(rows[Key(w)])}
    BY <1>1 DEF Joined, Document, Apply, Arrived
  <1>3. rows[Key(w)][s] \in Joined(w).data
    BY <1>2 DEF Arrived
  <1>4. QED
    BY <1>1, <1>3 DEF Delivered

\* The record that a handler stores takes the place of what was in its cell.
LEMMA StoredInstead ==
    ASSUME InnerInv, NEW w \in Workers, h[w].pc # "idle",
           Upsert(Key(w), Stream(w), h[w].rec)
    PROVE  /\ h[w].rec \in Kept'
           /\ \A x \in Kept : \/ x \in Kept'
                              \/ KeyOf[x] = Key(w) /\ StreamOf[x] = Stream(w)
  <1>1. /\ h[w].rec \in Records /\ Key(w) \in Keys /\ Stream(w) \in StreamIDs
        /\ h[w].rec # NoData
    BY InnerFacts, InnerInHand, StoreConstants
  <1>2. /\ rows \in [Keys -> Row] /\ \A k \in Keys : rows[k] \in RowsOf(k)
    BY DEF InnerInv, HandInv, OwnInv, SharedInv, RowsOK
  <1>3. \A k \in Keys : \A s \in StreamIDs :
          rows'[k][s] = IF k = Key(w) /\ s = Stream(w) THEN h[w].rec ELSE rows[k][s]
    BY <1>1, <1>2 DEF Upsert, Row
  <1>4. ASSUME NEW k \in Keys, NEW s \in StreamIDs, rows'[k][s] # NoData
        PROVE  rows'[k][s] \in Kept'
    BY <1>4 DEF Kept, Payloads, Arrived
  <1>5. h[w].rec \in Kept'
    BY <1>1, <1>3, <1>4
  <1>6. ASSUME NEW x \in Kept, x \notin Kept'
        PROVE  KeyOf[x] = Key(w) /\ StreamOf[x] = Stream(w)
    <2>1. PICK k \in Keys : \E s \in StreamIDs : rows[k][s] # NoData /\ x = rows[k][s]
      BY DEF Kept, Payloads, Arrived
    <2>2. PICK s \in StreamIDs : rows[k][s] # NoData /\ x = rows[k][s]
      BY <2>1
    <2>3. k = Key(w) /\ s = Stream(w)
      BY <1>3, <1>4, <1>6, <2>2
    <2>4. QED
      BY <1>2, <2>2, <2>3 DEF RowsOf
  <1>7. QED
    BY <1>5, <1>6

\* A record that is behind the loop stays safe when the one in hand is stored:
\* if that took its place, it is a later one of the same key and stream.
LEMMA SafeWhenStored ==
    ASSUME SingleInner, InnerInv, LP!SingleInv, NEW w \in Workers, h[w].pc # "idle",
           Upsert(Key(w), Stream(w), h[w].rec), Delivered \subseteq Delivered',
           errored \subseteq errored',
           NEW r \in Records, LP!Passed(r[1], r[2]), Safe(r)
    PROVE  Safe(r)'
  <1>1. h[w].rec \in Kept' /\ h[w].rec \in Records
    BY StoredInstead, InnerFacts, InnerInHand
  <1>2. r[1] = h[w].rec[1] /\ r[2] < h[w].rec[2] /\ r[2] \in Nat /\ h[w].rec[2] \in Nat
    BY <1>1, NotBehind, InnerInHand, SingleIsInner, RecordPlaces
  <1>3. CASE r \in errored
    BY <1>3 DEF Safe
  <1>4. CASE r \notin errored
    <2>1. PICK x \in {r} \cup Later(r) : x \in Kept \cup Delivered
      BY <1>4 DEF Safe
    <2>2. KeyOf[x] = KeyOf[r] /\ StreamOf[x] = StreamOf[r]
      BY DEF Later
    <2>3. CASE x \in Kept' \cup Delivered'
      BY <2>1, <2>3 DEF Safe, Later
    <2>4. CASE x \notin Kept' \cup Delivered'
      <3>1. KeyOf[x] = Key(w) /\ StreamOf[x] = Stream(w)
        BY <2>1, <2>4, StoredInstead
      <3>2. h[w].rec \in Later(r)
        BY <1>1, <1>2, <2>2, <3>1 DEF Later, Key, Stream
      <3>3. QED
        BY <1>1, <3>2 DEF Safe, Later
    <2>5. QED
      BY <2>3, <2>4
  <1>5. QED
    BY <1>3, <1>4

\* Every step keeps committed events safe.
LEMMA SafeStep ==
    ASSUME SingleInner, Projected = StreamIDs
    PROVE  SafeInv /\ [Next]_vars => SafeInv'
  <1> SUFFICES ASSUME SafeInv, [Next]_vars PROVE SafeInv'
    OBVIOUS
  <1>0. /\ SingleInnerInv /\ InnerInv /\ LP!SingleInv /\ SafeBehind /\ InnerJoin
        /\ LP!SinglePartition
        /\ rows \in [Keys -> Row] /\ h \in [Workers -> HandleStates]
        /\ errored \subseteq errored'
    BY SingleIsInner, ErrorsGrow
       DEF SafeInv, SingleInnerInv, InnerInv, HandInv, OwnInv, SharedInv, RowsOK, HandlerOK
  <1>1. SingleInnerInv'
    BY <1>0, StrandedStep
  <1>2. ASSUME NEW r, r \in Kept \cup Delivered => r \in Kept' \cup Delivered',
               \A x \in Later(r) : x \in Kept \cup Delivered => x \in Kept' \cup Delivered',
               Safe(r)
        PROVE  Safe(r)'
    BY <1>0, <1>2 DEF Safe, Later
  <1>3. CASE UNCHANGED <<rows, egress, corrections>>
    <2>1. Kept' = Kept /\ Delivered' = Delivered
      BY <1>3 DEF Kept, Delivered
    <2>2. ASSUME NEW r \in Records, LP!Passed(r[1], r[2])' PROVE Safe(r)'
      <3>1. CASE LP!Passed(r[1], r[2])
        BY <1>0, <1>2, <2>1, <3>1 DEF SafeBehind
      <3>2. ASSUME NEW w \in Workers, h[w].rec = r,
                   h[w].pc = "ok" \/ (h[w].pc = "err" /\ r \in errored')
            PROVE  Safe(r)'
        BY <1>0, <2>1, <3>2 DEF SafeBehind, Safe
      <3>3. QED
        BY <1>0, <2>2, <3>1, <3>2, NewlyBehind, InnerInHand
    <2>3. ASSUME NEW w \in Workers, h'[w].pc = "ok" PROVE h'[w].rec \in Kept' \cup Delivered'
      <3>1. ASSUME h[w].pc = "ok", h'[w] = h[w] PROVE h'[w].rec \in Kept' \cup Delivered'
        BY <1>0, <2>1, <3>1 DEF SafeBehind
      <3>2. CASE \E v \in Workers : Handle(v)
        <4>1. PICK v \in Workers : Stores(v) \/ ReadsRow(v) \/ Publishes(v) \/ Deletes(v)
          BY <1>0, <3>2, InnerMoves
        <4>2. CASE v = w
          <5>1. CASE ReadsRow(w)
            <6>1. /\ h[w].pc = "read" /\ h'[w].rec = h[w].rec /\ h[w].rec \in Records
                  /\ Key(w) \in Keys /\ Stream(w) \in StreamIDs /\ h[w].rec # NoData
              BY <1>0, <5>1, InnerFacts, InnerInHand, StoreConstants DEF ReadsRow, HandlerGoes
            <6>2. rows[Key(w)][Stream(w)] = h[w].rec
              BY <1>0, <6>1 DEF InnerInv, HandInv, UpToDateRow
            <6>3. h[w].rec \in Kept
              BY <6>1, <6>2 DEF Kept, Payloads, Arrived
            <6>4. QED
              BY <2>1, <6>1, <6>3
          <5>2. CASE Deletes(w)
            <6>1. /\ h[w].pc = "delete" /\ h'[w].rec = h[w].rec /\ h[w].rec \in Records
                  /\ Key(w) \in Keys /\ Stream(w) \in StreamIDs /\ h[w].rec # NoData
              BY <1>0, <5>2, InnerFacts, InnerInHand, StoreConstants DEF Deletes, HandlerGoes
            <6>2. rows[Key(w)][Stream(w)] = h[w].rec
              BY <1>0, <6>1 DEF InnerInv, HandInv, UpToDateRow, AtWork
            <6>3. h[w].rec \in Delivered
              BY <1>0, <6>1, <6>2, DeletesDelivered
            <6>4. QED
              BY <2>1, <6>1, <6>3
          <5>3. QED
            BY <2>3, <4>1, <4>2, <5>1, <5>2 DEF Stores, Publishes, HandlerGoes
        <4>3. CASE v # w
          BY <2>3, <3>1, <4>1, <4>3 DEF Stores, ReadsRow, Publishes, Deletes, HandlerGoes
        <4>4. QED
          BY <4>2, <4>3
      <3>3. CASE \A v \in Workers : ~ Handle(v)
        <4>1. \/ h' = h
              \/ \E v \in Workers : h' = [h EXCEPT ![v] = Ready]
              \/ \E v \in Workers : Call(v)
          BY <1>0, <3>3
             DEF Next, vars, LoopStep, CrashStep, KillStep, GroupStep, Return, ProcessEnds,
                 Timeouts, Delay
        <4>2. ASSUME NEW v \in Workers, h' = [h EXCEPT ![v] = Ready]
              PROVE  h[w].pc = "ok" /\ h'[w] = h[w]
          BY <1>0, <2>3, <4>2 DEF Ready
        <4>3. ASSUME NEW v \in Workers, Call(v) PROVE h[w].pc = "ok" /\ h'[w] = h[w]
          <5>1. /\ v # w => h'[w] = h[w]
                /\ h'[v].pc \in {"err", "bloom", "upsert"}
            BY <1>0, <4>3 DEF Call, StartHandle, Ready
          <5>2. QED
            BY <2>3, <5>1
        <4>4. QED
          BY <2>3, <3>1, <4>1, <4>2, <4>3
      <3>4. QED
        BY <3>2, <3>3
    <2>4. SafeBehind'
      BY <2>2, <2>3 DEF SafeBehind
    <2>5. QED
      BY <1>1, <2>4 DEF SafeInv
  <1>4. ASSUME NEW w \in Workers, Handle(w) PROVE SafeBehind'
    <2>1. Stores(w) \/ ReadsRow(w) \/ Publishes(w) \/ Deletes(w)
      BY <1>0, <1>4, InnerMoves
    <2>2. /\ h[w].pc # "idle" /\ UpToDateRow(w) /\ corrections' = corrections
          /\ egress' = egress \/ Produce(Joined(w))
      BY <1>0, <2>1 DEF Stores, ReadsRow, Publishes, Deletes, InnerInv, HandInv
    <2>3. Delivered \subseteq Delivered'
      BY <1>0, <2>2, DeliveredGrows
    <2>4. /\ h[w].rec \in Records /\ Key(w) \in Keys /\ Stream(w) \in StreamIDs
          /\ h'[w].rec = h[w].rec /\ \A v \in Workers \ {w} : h'[v] = h[v]
          /\ \A v \in Workers \ {w} : h[v].pc = "idle"
      BY <1>0, <2>1, <2>2, InnerFacts, NotBehind, InnerInHand
         DEF Stores, ReadsRow, Publishes, Deletes, HandlerGoes
    <2>5. CASE Upsert(Key(w), Stream(w), h[w].rec) /\ h'[w].pc # "ok"
      <3>1. ASSUME NEW r \in Records, LP!Passed(r[1], r[2])' PROVE Safe(r)'
        <4>1. LP!Passed(r[1], r[2])
          <5>1. UNCHANGED <<committed, owner, cursor, loop>>
            BY <1>4 DEF Handle, loopVars
          <5>2. QED
            BY <3>1, <5>1 DEF LP!Passed, LP!GoesOn
        <4>2. Safe(r)
          BY <1>0, <4>1 DEF SafeBehind
        <4>3. QED
          BY <1>0, <2>2, <2>3, <2>5, <4>1, <4>2, SafeWhenStored
      <3>2. \A v \in Workers : h'[v].pc # "ok"
        BY <2>4, <2>5
      <3>3. QED
        BY <3>1, <3>2 DEF SafeBehind
    <2>6. ASSUME Kept \subseteq Kept' \cup Delivered',
                 h'[w].pc = "ok" => h[w].rec \in Kept' \cup Delivered'
          PROVE  SafeBehind'
      <3>1. ASSUME NEW r \in Records, LP!Passed(r[1], r[2])' PROVE Safe(r)'
        <4>1. LP!Passed(r[1], r[2])
          <5>1. UNCHANGED <<committed, owner, cursor, loop>>
            BY <1>4 DEF Handle, loopVars
          <5>2. QED
            BY <3>1, <5>1 DEF LP!Passed, LP!GoesOn
        <4>2. Safe(r)
          BY <1>0, <4>1 DEF SafeBehind
        <4>3. QED
          BY <1>2, <2>3, <2>6, <4>2
      <3>2. \A v \in Workers : h'[v].pc = "ok" => h'[v].rec \in Kept' \cup Delivered'
        BY <2>4, <2>6
      <3>3. QED
        BY <3>1, <3>2 DEF SafeBehind
    <2>7. CASE rows' = rows
      <3>1. Kept' = Kept
        BY <2>7 DEF Kept
      <3>2. h'[w].pc = "ok" => ReadsRow(w) \/ Deletes(w)
        BY <2>1 DEF Stores, Publishes, HandlerGoes
      <3>3. CASE UNCHANGED <<rows, egress, corrections>>
        BY <1>3, <3>3 DEF SafeInv
      <3>4. CASE Publishes(w)
        BY <2>6, <3>1, <3>4 DEF Publishes, HandlerGoes
      <3>5. QED
        BY <2>1, <2>7, <3>3, <3>4 DEF Stores, ReadsRow, Deletes
    <2>8. CASE Deletes(w) /\ DeleteState(Key(w))
      <3>1. h[w].pc = "delete"
        BY <2>8 DEF Deletes
      <3>2. \A s \in StreamIDs :
              rows[Key(w)][s] # NoData => rows[Key(w)][s] \in Delivered'
        BY <1>0, <2>3, <3>1, DeletesDelivered
      <3>3. h[w].rec \in Delivered'
        <4>1. rows[Key(w)][Stream(w)] = h[w].rec /\ h[w].rec # NoData
          BY <2>2, <2>4, <3>1, StoreConstants DEF UpToDateRow, AtWork
        <4>2. QED
          BY <2>4, <3>2, <4>1
      <3>4. \A k \in Keys \ {Key(w)} : rows'[k] = rows[k]
        BY <1>0, <2>4, <2>8 DEF DeleteState
      <3>5. Kept \subseteq Kept' \cup Delivered'
        BY <3>2, <3>4 DEF Kept, Payloads, Arrived
      <3>6. QED
        BY <2>6, <3>3, <3>5
    <2>9. QED
      <3>1. \/ rows' = rows
            \/ Upsert(Key(w), Stream(w), h[w].rec) /\ h'[w].pc # "ok"
            \/ Deletes(w) /\ DeleteState(Key(w))
        BY <2>1 DEF Stores, ReadsRow, Publishes, Deletes, HandlerGoes
      <3>2. QED
        BY <2>5, <2>7, <2>8, <3>1
  <1>5. QED
    BY <1>0, <1>1, <1>3, <1>4, OnlyHandlers DEF SafeInv

\* In an inner join over one partition that projects every stream, a record
\* whose offset is committed is in the state of its key or in a document, or a
\* later event of its stream is, or Handle returned an error for it.
THEOREM NothingDropped ==
    ASSUME SingleInner, Projected = StreamIDs
    PROVE  Spec => []NoSilentDrop
  <1>1. Init => SafeInv
    <2> SUFFICES ASSUME Init PROVE SafeInv
      OBVIOUS
    <2>1. SingleInnerInv /\ LP!LoopInit
      BY StrandedInit, LoopStarts
    <2>2. \A w \in Workers : h[w].pc # "ok"
      BY DEF Init, HandlerInit, Ready
    <2>3. \A p \in Partitions : \A o \in Nat : ~ LP!Passed(p, o)
      BY <2>1 DEF LP!Passed, LP!LoopInit, LP!Idle
    <2>4. SafeBehind
      BY <2>2, <2>3, RecordPlaces DEF SafeBehind
    <2>5. QED
      BY <2>1, <2>4 DEF SafeInv
  <1>2. SafeInv /\ [Next]_vars => SafeInv'
    BY SafeStep
  <1>3. SafeInv => NoSilentDrop
    <2> SUFFICES ASSUME SafeInv, NEW p \in Partitions, NEW o \in 0 .. committed[p] - 1
                 PROVE  \/ <<p, o>> \in Kept \cup Delivered \cup errored
                        \/ Later(<<p, o>>) \cap (Kept \cup Delivered) # {}
      BY DEF NoSilentDrop
    <2>1. committed[p] \in Nat /\ committed[p] <= LogLen[p] /\ LogLen[p] \in Nat
      BY LoopAssumption
         DEF SafeInv, SingleInnerInv, InnerInv, HandInv, OwnInv, LP!FetchedInv, LP!WithinLog,
             LP!MonotoneInv, LP!TypeInv, LP!LoopTypeOK, LP!LoopConstants
    <2>2. o \in 0 .. LogLen[p] - 1 /\ o < committed[p]
      BY <2>1
    <2>3. <<p, o>> \in Records
      BY <2>2, ProcessorConstants
    <2>4. LP!Passed(p, o)
      BY <2>2 DEF LP!Passed
    <2>5. Safe(<<p, o>>)
      BY <2>3, <2>4 DEF SafeInv, SafeBehind
    <2>6. QED
      BY <2>5 DEF Safe
  <1>4. QED
    BY <1>1, <1>2, <1>3, PTL DEF Spec

================================================================================
