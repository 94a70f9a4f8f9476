-------------------------- MODULE ConsumerLoopProofs --------------------------
(***************************************************************************)
(* Proofs about ConsumerLoop, for every number of instances, partitions,   *)
(* records, attempts and faults.                                           *)
(***************************************************************************)
EXTENDS ConsumerLoop, TLAPS

Accounted == handled \cup errored \cup NoHandler \cup abandoned

\* An instance at work is at work on a partition.
BusyOnPartition ==
    \A w \in Workers : loop[w].pc \in Busy => loop[w].part \in Partitions

\* Whatever an instance has left behind its cursor is accounted for.
SeenAccounted ==
    \A w \in Workers : \A p \in Partitions : \A o \in 0 .. cursor[w][p] - 1 :
        <<p, o>> \in Accounted

\* A record is committed only once its Handle returned nil, or getHandler
\* rejected it.
CommitPending ==
    \A w \in Workers :
        loop[w].pc = "commit" => Current(w) \in handled \cup NoHandler

TypeInv == LoopTypeOK /\ BusyOnPartition

LossInv == TypeInv /\ SeenAccounted /\ CommitPending /\ LossAccounted

\* The cursor of an instance is inside the batch it fetched: in front of a
\* record when it is at work on the partition or still has to start on it.
InBatch(w) ==
    /\ loop[w].pc = "poll" => loop[w].todo = {}
    /\ \A p \in Partitions :
         /\ cursor[w][p] <= position[w][p]
         /\ p \in loop[w].todo => cursor[w][p] < position[w][p]
         /\ (loop[w].pc \in Busy /\ p = loop[w].part) =>
              cursor[w][p] < position[w][p] /\ p \notin loop[w].todo

\* The owner of a partition has committed nothing beyond the record in hand.
BehindCursor(w) ==
    \A p \in Partitions :
        owner[p] = w =>
            committed[p] <= cursor[w][p]
                + (IF loop[w].pc = "commit" /\ loop[w].part = p THEN 1 ELSE 0)

MonotoneInv ==
    TypeInv /\ \A w \in Workers : InBatch(w) /\ BehindCursor(w)

\* Without evictions, an instance owns what it works on.
OwnsBatch ==
    \A w \in Workers :
        /\ loop[w].pc = "poll" => loop[w].todo = {}
        /\ \A p \in loop[w].todo : owner[p] = w
        /\ loop[w].pc \in Busy => owner[loop[w].part] = w

ExclusiveInv == TypeInv /\ OwnsBatch

----------------------------------------------------------------------------
(* Type correctness.                                                       *)

\* commitWithRetry makes at least one attempt.
LEMMA Attempts == 0 \in 0 .. MaxAttempts /\ 1 \in 0 .. MaxAttempts
  BY LoopConstants

\* The states in which Run polls, in which it has returned and in which the
\* process has ended are loop states.
LEMMA Idling ==
    Idle \in LoopState /\ Closing \in LoopState /\ Stopped \in LoopState
  BY Attempts DEF LoopState, Pcs, Idle, Closing, Stopped

\* Every state the loop starts in has its types.
LEMMA TypeInit == LoopInit => TypeInv
  BY Idling, LoopConstants DEF LoopInit, TypeInv, LoopTypeOK, BusyOnPartition,
     Idle, Busy

\* The fields of the control state of an instance have their types.
LEMMA LoopRecord ==
    ASSUME NEW r \in LoopState
    PROVE  /\ r.pc \in Pcs /\ r.todo \in SUBSET Partitions
           /\ r.part \in Partitions \cup {None}
           /\ r.attempt \in 0 .. MaxAttempts
           /\ r.commitErr \in BOOLEAN
  BY DEF LoopState

\* An instance that changes to a loop state leaves every instance in one.
LEMMA LoopMoves ==
    ASSUME TypeInv, NEW w \in Workers, NEW r \in LoopState,
           r.pc \in Busy => r.part \in Partitions,
           loop' = [loop EXCEPT ![w] = r]
    PROVE  loop' \in [Workers -> LoopState] /\ BusyOnPartition'
  BY DEF TypeInv, LoopTypeOK, BusyOnPartition

\* Moving on to the next record or partition keeps the types.
LEMMA StepOverTypes ==
    ASSUME TypeInv, NEW w \in Workers, loop[w].pc \in Busy,
           NEW err \in BOOLEAN, StepOver(w, err)
    PROVE  /\ loop' \in [Workers -> LoopState] /\ BusyOnPartition'
           /\ cursor' \in [Workers -> [Partitions -> Nat]]
  <1> DEFINE p == loop[w].part
             more == cursor[w][p] + 1 < position[w][p]
             r == [loop[w] EXCEPT !.pc = IF more THEN "record" ELSE "each",
                                  !.part = IF more THEN p ELSE None,
                                  !.attempt = 0, !.commitErr = err]
  <1>1. loop[w] \in LoopState /\ p \in Partitions
    BY DEF TypeInv, LoopTypeOK, BusyOnPartition
  <1>2. loop' = [loop EXCEPT ![w] = r]
    BY DEF StepOver
  <1>3. r \in LoopState /\ (r.pc \in Busy => r.part \in Partitions)
    BY <1>1, Attempts DEF LoopState, Pcs, Busy
  <1>4. cursor' \in [Workers -> [Partitions -> Nat]]
    BY <1>1 DEF StepOver, TypeInv, LoopTypeOK
  <1> HIDE DEF r
  <1>5. QED
    BY <1>2, <1>3, <1>4, LoopMoves

\* Leaving the rest of a partition's batch behind keeps the types.
LEMMA LeaveTypes ==
    ASSUME TypeInv, NEW w \in Workers, loop[w].pc \in Busy,
           NEW err \in BOOLEAN, LeavePartition(w, err)
    PROVE  /\ loop' \in [Workers -> LoopState] /\ BusyOnPartition'
           /\ cursor' \in [Workers -> [Partitions -> Nat]]
           /\ abandoned' \subseteq Partitions \X Nat
  <1> DEFINE p == loop[w].part
             r == [loop[w] EXCEPT !.pc = "each", !.part = None,
                                  !.attempt = 0, !.commitErr = err]
  <1>1. loop[w] \in LoopState /\ p \in Partitions
    BY DEF TypeInv, LoopTypeOK, BusyOnPartition
  <1>2. loop' = [loop EXCEPT ![w] = r]
    BY DEF LeavePartition
  <1>3. r \in LoopState /\ r.pc \notin Busy
    BY <1>1, Attempts DEF LoopState, Pcs, Busy
  <1>4. cursor' \in [Workers -> [Partitions -> Nat]]
    BY <1>1 DEF LeavePartition, TypeInv, LoopTypeOK
  <1>5. abandoned' \subseteq Partitions \X Nat
    BY <1>1 DEF LeavePartition, TypeInv, LoopTypeOK
  <1> HIDE DEF r
  <1>6. QED
    BY <1>2, <1>3, <1>4, <1>5, LoopMoves

\* Every step of the loop and of the group keeps the types.
LEMMA TypeStep == TypeInv /\ [LoopNext]_loopVars => TypeInv'
  <1> SUFFICES ASSUME TypeInv, [LoopNext]_loopVars PROVE TypeInv'
    OBVIOUS
  <1> USE LoopConstants
  <1>1. ASSUME NEW w \in Workers, Poll(w) PROVE TypeInv'
    <2>a. PICK ps \in (SUBSET Fetchable(w)) \ {{}} : \E end \in [ps -> Ends] :
            /\ position' = [position EXCEPT ![w] =
                              [p \in Partitions |->
                                 IF p \in ps THEN end[p] ELSE position[w][p]]]
            /\ loop' = [loop EXCEPT ![w] = [Idle EXCEPT !.pc = "each", !.todo = ps]]
      BY <1>1 DEF Poll
    <2>1. PICK end \in [ps -> Ends] :
            /\ position' = [position EXCEPT ![w] =
                              [p \in Partitions |->
                                 IF p \in ps THEN end[p] ELSE position[w][p]]]
            /\ loop' = [loop EXCEPT ![w] = [Idle EXCEPT !.pc = "each", !.todo = ps]]
      BY <2>a
    <2>2. position' \in [Workers -> [Partitions -> Nat]]
      <3>1. Ends \subseteq Nat
        BY DEF Ends
      <3>2. QED
        BY <2>1, <3>1 DEF TypeInv, LoopTypeOK, Fetchable
    <2>3. [Idle EXCEPT !.pc = "each", !.todo = ps] \in LoopState
      BY <2>1, Idling DEF LoopState, Pcs, Fetchable
    <2>4. loop' \in [Workers -> LoopState] /\ BusyOnPartition'
      BY <2>1, <2>3, LoopMoves DEF Idle, Busy
    <2>5. QED
      BY <1>1, <2>2, <2>4 DEF TypeInv, LoopTypeOK, Poll
  <1>2. ASSUME NEW w \in Workers, EachPartition(w) PROVE TypeInv'
    <2>1. PICK p \in loop[w].todo :
            loop' = [loop EXCEPT ![w] = [loop[w] EXCEPT !.pc = "record", !.part = p,
                                                        !.todo = @ \ {p}]]
      BY <1>2 DEF EachPartition
    <2>2. loop[w] \in LoopState /\ p \in Partitions
      BY <2>1, LoopRecord DEF TypeInv, LoopTypeOK
    <2>3. [loop[w] EXCEPT !.pc = "record", !.part = p, !.todo = @ \ {p}] \in LoopState
      BY <2>2, LoopRecord DEF LoopState, Pcs
    <2>4. loop' \in [Workers -> LoopState] /\ BusyOnPartition'
      BY <2>1, <2>2, <2>3 DEF TypeInv, LoopTypeOK, BusyOnPartition, LoopState
    <2>5. QED
      BY <1>2, <2>4 DEF TypeInv, LoopTypeOK, EachPartition
  <1>3. ASSUME NEW w \in Workers, Dispatch(w) PROVE TypeInv'
    <2> DEFINE r == [loop[w] EXCEPT
                       !.pc = IF Current(w) \in NoHandler THEN "commit" ELSE "handle",
                       !.attempt = IF Current(w) \in NoHandler THEN 1 ELSE 0]
    <2>1. loop[w] \in LoopState /\ loop[w].part \in Partitions
      BY <1>3 DEF TypeInv, LoopTypeOK, BusyOnPartition, Dispatch, Busy
    <2>2. loop' = [loop EXCEPT ![w] = r]
      BY <1>3 DEF Dispatch
    <2>3. r \in LoopState /\ r.part \in Partitions
      <3>1. CASE Current(w) \in NoHandler
        BY <2>1, <3>1, Attempts DEF LoopState, Pcs
      <3>2. CASE Current(w) \notin NoHandler
        BY <2>1, <3>2, Attempts DEF LoopState, Pcs
      <3>3. QED
        BY <3>1, <3>2
    <2> HIDE DEF r
    <2>4. loop' \in [Workers -> LoopState] /\ BusyOnPartition'
      BY <2>2, <2>3, LoopMoves
    <2>5. QED
      BY <1>3, <2>4 DEF TypeInv, LoopTypeOK, Dispatch
  <1>4. ASSUME NEW w \in Workers, NEW ok \in BOOLEAN, HandleReturns(w, ok) PROVE TypeInv'
    <2>1. loop[w] \in LoopState /\ loop[w].pc \in Busy /\ loop[w].part \in Partitions
      BY <1>4 DEF TypeInv, LoopTypeOK, BusyOnPartition, HandleReturns, Busy
    <2>2. Current(w) \in Partitions \X Nat
      BY <2>1 DEF Current, TypeInv, LoopTypeOK
    <2>3. CASE ok
      <3>1. loop' = [loop EXCEPT ![w] = [loop[w] EXCEPT !.pc = "commit", !.attempt = 1]]
        BY <1>4, <2>3 DEF HandleReturns
      <3>2. [loop[w] EXCEPT !.pc = "commit", !.attempt = 1] \in LoopState
        BY <2>1, Attempts DEF LoopState, Pcs
      <3>3. loop' \in [Workers -> LoopState] /\ BusyOnPartition'
        BY <2>1, <3>1, <3>2, LoopMoves DEF LoopState
      <3>4. QED
        BY <1>4, <2>2, <2>3, <3>3 DEF TypeInv, LoopTypeOK, HandleReturns
    <2>4. CASE ~ok
      <3>1. StepOver(w, loop[w].commitErr)
        BY <1>4, <2>4 DEF HandleReturns
      <3>2. loop[w].commitErr \in BOOLEAN
        BY <2>1, LoopRecord
      <3>3. loop' \in [Workers -> LoopState] /\ BusyOnPartition' /\ cursor' \in [Workers -> [Partitions -> Nat]]
        BY <2>1, <3>1, <3>2, StepOverTypes
      <3>4. QED
        BY <1>4, <2>2, <2>4, <3>3 DEF TypeInv, LoopTypeOK, HandleReturns
    <2>5. QED
      BY <2>3, <2>4
  <1>5. ASSUME NEW w \in Workers, CommitOk(w) PROVE TypeInv'
    <2>1. loop[w].pc \in Busy /\ loop[w].part \in Partitions
      BY <1>5 DEF TypeInv, BusyOnPartition, CommitOk, Busy
    <2>2. committed' \in [Partitions -> Nat]
      BY <1>5, <2>1 DEF CommitOk, CommitOffset, TypeInv, LoopTypeOK
    <2>3. /\ loop' \in [Workers -> LoopState] /\ BusyOnPartition'
          /\ cursor' \in [Workers -> [Partitions -> Nat]]
          /\ abandoned' \subseteq Partitions \X Nat
      <3>1. CASE LeavePartition(w, FALSE)
        BY <2>1, <3>1, LeaveTypes
      <3>2. CASE StepOver(w, FALSE) /\ UNCHANGED abandoned
        BY <2>1, <3>2, StepOverTypes DEF TypeInv, LoopTypeOK
      <3>3. QED
        BY <1>5, <3>1, <3>2 DEF CommitOk
    <2>4. QED
      BY <1>5, <2>2, <2>3 DEF CommitOk, TypeInv, LoopTypeOK
  <1>6. ASSUME NEW w \in Workers, CommitFails(w) PROVE TypeInv'
    <2>1. loop[w] \in LoopState /\ loop[w].pc \in Busy /\ loop[w].part \in Partitions
      BY <1>6 DEF TypeInv, LoopTypeOK, BusyOnPartition, CommitFails, Busy
    <2>2. committed' \in [Partitions -> Nat] /\ faults' \in 0 .. MaxFaults
      BY <1>6, <2>1 DEF CommitFails, CommitOffset, Fault, TypeInv, LoopTypeOK
    <2>3. /\ loop' \in [Workers -> LoopState] /\ BusyOnPartition'
          /\ cursor' \in [Workers -> [Partitions -> Nat]]
          /\ abandoned' \subseteq Partitions \X Nat
      <3>1. CASE loop[w].attempt < MaxAttempts
        <4>1. loop' = [loop EXCEPT ![w] = [loop[w] EXCEPT !.attempt = @ + 1]]
          BY <1>6, <3>1 DEF CommitFails
        <4>2. [loop[w] EXCEPT !.attempt = @ + 1] \in LoopState
          BY <2>1, <3>1, LoopRecord DEF LoopState
        <4>3. loop' \in [Workers -> LoopState] /\ BusyOnPartition'
          BY <2>1, <4>1, <4>2, LoopMoves DEF LoopState
        <4>4. QED
          BY <1>6, <3>1, <4>3 DEF CommitFails, TypeInv, LoopTypeOK
      <3>2. CASE ~(loop[w].attempt < MaxAttempts)
        BY <1>6, <2>1, <3>2, LeaveTypes DEF CommitFails
      <3>3. QED
        BY <3>1, <3>2
    <2>4. QED
      BY <1>6, <2>2, <2>3 DEF CommitFails, TypeInv, LoopTypeOK
  <1>7. ASSUME NEW w \in Workers, Exit(w) PROVE
               loop' \in [Workers -> LoopState] /\ BusyOnPartition' /\ owner' \in [Partitions -> Workers \cup {None}]
    <2>1. loop' \in [Workers -> LoopState] /\ BusyOnPartition'
      BY <1>7, Idling, LoopMoves DEF Exit, Stopped, Idle, Busy
    <2>2. owner' \in [Partitions -> Workers \cup {None}]
      BY <1>7 DEF Exit, TypeInv, LoopTypeOK
    <2>3. QED
      BY <2>1, <2>2
  <1>8. ASSUME NEW w \in Workers, EndFetch(w) PROVE TypeInv'
    <2>1. loop' = [loop EXCEPT ![w] = Idle] \/ loop' = [loop EXCEPT ![w] = Closing]
      BY <1>8 DEF EndFetch
    <2>2. loop' \in [Workers -> LoopState] /\ BusyOnPartition'
      BY <2>1, Idling, LoopMoves DEF Idle, Closing, Busy
    <2>3. QED
      BY <1>8, <2>2 DEF EndFetch, TypeInv, LoopTypeOK
  <1>f. ASSUME NEW w \in Workers, FetchFails(w) PROVE TypeInv'
    <2>1. loop' \in [Workers -> LoopState] /\ BusyOnPartition'
      BY <1>f, Idling, LoopMoves DEF FetchFails, Idle, Closing, Busy
    <2>2. QED
      BY <1>f, <2>1 DEF FetchFails, Fault, TypeInv, LoopTypeOK
  <1>9. ASSUME NEW w \in Workers, Crash(w) \/ Kill(w) PROVE TypeInv'
    <2>1. Exit(w)
      BY <1>9 DEF Crash, Kill
    <2>2. faults' \in 0 .. MaxFaults
      BY <1>9 DEF Crash, Kill, Fault, TypeInv, LoopTypeOK
    <2>3. QED
      BY <1>7, <1>9, <2>1, <2>2 DEF Crash, Kill, TypeInv, LoopTypeOK
  <1>10. ASSUME NEW w \in Workers, Restart(w) PROVE TypeInv'
    BY <1>10 DEF Restart, Idle, LoopState, Pcs, Busy, TypeInv, LoopTypeOK, BusyOnPartition
  <1>11. ASSUME NEW w \in Workers, NEW p \in Partitions, Assign(w, p) PROVE TypeInv'
    BY <1>11 DEF Assign, TypeInv, LoopTypeOK, BusyOnPartition
  <1>12. ASSUME NEW w \in Workers, NEW p \in Partitions, Revoke(w, p) \/ Evict(w, p)
         PROVE TypeInv'
    <2>1. /\ faults' \in 0 .. MaxFaults /\ owner' = [owner EXCEPT ![p] = None]
          /\ UNCHANGED <<committed, position, cursor, loop, handled, errored, abandoned>>
      BY <1>12 DEF Revoke, Evict, Fault, TypeInv, LoopTypeOK
    <2>2. QED
      BY <2>1 DEF TypeInv, LoopTypeOK, BusyOnPartition
  <1>13. CASE UNCHANGED loopVars
    BY <1>13 DEF loopVars, TypeInv, LoopTypeOK, BusyOnPartition
  <1>14. QED
    <2>1. ASSUME NEW w \in Workers, HandlerSteps(w) PROVE TypeInv'
      BY <1>4, <2>1 DEF HandlerSteps
    <2>2. QED
    BY <1>1, <1>2, <1>3, <2>1, <1>5, <1>6, <1>8, <1>f, <1>9, <1>10, <1>11, <1>12, <1>13
       DEF LoopNext, LoopSteps, GroupSteps

\* The loop keeps its types in every behaviour.
THEOREM LoopTypeCorrect == LoopSpec => []LoopTypeOK
  <1>1. LoopInit => TypeInv
    BY TypeInit
  <1>2. TypeInv => LoopTypeOK
    BY DEF TypeInv
  <1>3. QED
    BY <1>1, <1>2, TypeStep, PTL DEF LoopSpec

----------------------------------------------------------------------------
(* Losses are accounted for.                                               *)

\* An instance that moved to the next record left only accounted ones behind.
LEMMA StepOverSeen ==
    ASSUME TypeInv, SeenAccounted, NEW w \in Workers, loop[w].pc \in Busy,
           NEW err, StepOver(w, err),
           Current(w) \in Accounted', Accounted \subseteq Accounted'
    PROVE  SeenAccounted'
  <1>1. loop[w].part \in Partitions
    BY DEF TypeInv, BusyOnPartition
  <1>2. cursor' = [cursor EXCEPT ![w][loop[w].part] = @ + 1]
    BY DEF StepOver
  <1>3. SUFFICES ASSUME NEW v \in Workers, NEW p \in Partitions,
                        NEW o \in 0 .. cursor'[v][p] - 1
                 PROVE  <<p, o>> \in Accounted'
    BY DEF SeenAccounted
  <1>4. CASE o \in 0 .. cursor[v][p] - 1
    BY <1>4 DEF SeenAccounted
  <1>5. CASE o \notin 0 .. cursor[v][p] - 1
    <2>1. cursor[v][p] \in Nat
      BY DEF TypeInv, LoopTypeOK
    <2>2. cursor'[v][p] = IF v = w /\ p = loop[w].part THEN cursor[v][p] + 1
                                                       ELSE cursor[v][p]
      BY <1>1, <1>2 DEF TypeInv, LoopTypeOK
    <2>3. v = w /\ p = loop[w].part /\ o = cursor[v][p]
      BY <1>5, <2>1, <2>2
    <2>4. QED
      BY <2>3 DEF Current
  <1>6. QED
    BY <1>4, <1>5

\* An instance that left a batch accounted for what remained of it.
LEMMA LeaveSeen ==
    ASSUME TypeInv, SeenAccounted, NEW w \in Workers, loop[w].pc \in Busy,
           NEW err, LeavePartition(w, err),
           Current(w) \in Accounted', Accounted \subseteq Accounted'
    PROVE  SeenAccounted'
  <1>1. loop[w].part \in Partitions
    BY DEF TypeInv, BusyOnPartition
  <1>2. cursor' = [cursor EXCEPT ![w][loop[w].part] = position[w][loop[w].part]]
    BY DEF LeavePartition
  <1>3. SUFFICES ASSUME NEW v \in Workers, NEW p \in Partitions,
                        NEW o \in 0 .. cursor'[v][p] - 1
                 PROVE  <<p, o>> \in Accounted'
    BY DEF SeenAccounted
  <1>4. CASE o \in 0 .. cursor[v][p] - 1
    BY <1>4 DEF SeenAccounted
  <1>5. CASE o \notin 0 .. cursor[v][p] - 1
    <2>a. cursor[v][p] \in Nat /\ position[v][p] \in Nat
      BY DEF TypeInv, LoopTypeOK
    <2>b. cursor'[v][p] = IF v = w /\ p = loop[w].part THEN position[v][p]
                                                       ELSE cursor[v][p]
      BY <1>1, <1>2 DEF TypeInv, LoopTypeOK
    <2>1. v = w /\ p = loop[w].part
      BY <1>5, <2>a, <2>b
    <2>2. o = cursor[w][p] \/ o \in (cursor[w][p] + 1) .. (position[w][p] - 1)
      BY <1>5, <2>1, <2>a, <2>b
    <2>3. CASE o = cursor[w][p]
      BY <2>1, <2>3 DEF Current
    <2>4. CASE o \in (cursor[w][p] + 1) .. (position[w][p] - 1)
      <3>1. <<p, o>> \in abandoned'
        BY <2>1, <2>4 DEF LeavePartition
      <3>2. QED
        BY <3>1 DEF Accounted
    <2>5. QED
      BY <2>2, <2>3, <2>4
  <1>6. QED
    BY <1>4, <1>5

\* The commit point moves only past accounted records.
LEMMA CommitAccounts ==
    ASSUME TypeInv, SeenAccounted, LossAccounted, NEW w \in Workers,
           loop[w].pc \in Busy, CommitOffset(w) \/ UNCHANGED committed,
           Current(w) \in Accounted', Accounted \subseteq Accounted'
    PROVE  LossAccounted'
  <1>1. loop[w].part \in Partitions
    BY DEF TypeInv, BusyOnPartition
  <1>2. SUFFICES ASSUME NEW p \in Partitions, NEW o \in 0 .. committed'[p] - 1
                 PROVE  <<p, o>> \in Accounted'
    BY DEF LossAccounted, Accounted
  <1>3. CASE o \in 0 .. committed[p] - 1
    BY <1>3 DEF LossAccounted, Accounted
  <1>4. CASE o \notin 0 .. committed[p] - 1
    <2>a. cursor[w][p] \in Nat /\ committed[p] \in Nat
      BY DEF TypeInv, LoopTypeOK
    <2>b. committed'[p] = committed[p] \/ (p = loop[w].part /\ committed'[p] = cursor[w][p] + 1)
      BY <1>1 DEF CommitOffset, TypeInv, LoopTypeOK
    <2>1. p = loop[w].part /\ (o \in 0 .. cursor[w][p] - 1 \/ o = cursor[w][p])
      BY <1>4, <2>a, <2>b
    <2>2. CASE o \in 0 .. cursor[w][p] - 1
      BY <2>2 DEF SeenAccounted
    <2>3. CASE o = cursor[w][p]
      BY <2>1, <2>3 DEF Current
    <2>4. QED
      BY <2>1, <2>2, <2>3
  <1>5. QED
    BY <1>3, <1>4

\* The record about to be committed stays the one that was handled.
LEMMA PendingKept ==
    ASSUME TypeInv, CommitPending, NEW w \in Workers,
           \A v \in Workers \ {w} : loop'[v] = loop[v] /\ cursor'[v] = cursor[v],
           handled \subseteq handled',
           loop'[w].pc = "commit" => Current(w)' \in handled' \cup NoHandler
    PROVE  CommitPending'
  <1> SUFFICES ASSUME NEW v \in Workers, loop'[v].pc = "commit"
               PROVE  Current(v)' \in handled' \cup NoHandler
    BY DEF CommitPending
  <1>1. CASE v = w
    BY <1>1
  <1>2. CASE v # w
    BY <1>2 DEF CommitPending, Current
  <1>3. QED
    BY <1>1, <1>2

\* What the instance does after a record, ...
LEMMA SteppedOver ==
    ASSUME TypeInv, NEW w \in Workers, NEW err, StepOver(w, err),
           NEW part \in Partitions, loop[w].part = part
    PROVE  /\ loop'[w].pc \in {"record", "each"} /\ loop'[w].todo = loop[w].todo
           /\ loop'[w].commitErr = err
           /\ loop'[w].pc = "record" =>
                loop'[w].part = part /\ cursor[w][part] + 1 < position[w][part]
           /\ cursor'[w][part] = cursor[w][part] + 1
           /\ \A p \in Partitions : p # part => cursor'[w][p] = cursor[w][p]
           /\ \A v \in Workers \ {w} : loop'[v] = loop[v] /\ cursor'[v] = cursor[v]
  <1>1. loop \in [Workers -> LoopState] /\ cursor \in [Workers -> [Partitions -> Nat]]
    BY DEF TypeInv, LoopTypeOK
  <1>2. /\ loop'[w].pc \in {"record", "each"} /\ loop'[w].todo = loop[w].todo
        /\ loop'[w].commitErr = err
        /\ loop'[w].pc = "record" =>
             loop'[w].part = part /\ cursor[w][part] + 1 < position[w][part]
    BY <1>1 DEF StepOver, LoopState
  <1>3. /\ cursor'[w][part] = cursor[w][part] + 1
        /\ \A p \in Partitions : p # part => cursor'[w][p] = cursor[w][p]
    BY <1>1 DEF StepOver
  <1>4. \A v \in Workers \ {w} : loop'[v] = loop[v] /\ cursor'[v] = cursor[v]
    BY <1>1 DEF StepOver
  <1>5. QED
    BY <1>2, <1>3, <1>4

\* ... or when it leaves its partition.
LEMMA LeftBehind ==
    ASSUME TypeInv, NEW w \in Workers, NEW err, LeavePartition(w, err),
           NEW part \in Partitions, loop[w].part = part
    PROVE  /\ loop'[w].pc = "each" /\ loop'[w].todo = loop[w].todo
           /\ loop'[w].commitErr = err
           /\ cursor'[w][part] = position[w][part]
           /\ \A p \in Partitions : p # part => cursor'[w][p] = cursor[w][p]
           /\ \A v \in Workers \ {w} : loop'[v] = loop[v] /\ cursor'[v] = cursor[v]
  <1>1. loop \in [Workers -> LoopState] /\ cursor \in [Workers -> [Partitions -> Nat]]
    BY DEF TypeInv, LoopTypeOK
  <1>2. /\ loop'[w].pc = "each" /\ loop'[w].todo = loop[w].todo
        /\ loop'[w].commitErr = err
    BY <1>1 DEF LeavePartition, LoopState
  <1>3. /\ cursor'[w][part] = position[w][part]
        /\ \A p \in Partitions : p # part => cursor'[w][p] = cursor[w][p]
    BY <1>1 DEF LeavePartition
  <1>4. \A v \in Workers \ {w} : loop'[v] = loop[v] /\ cursor'[v] = cursor[v]
    BY <1>1 DEF LeavePartition
  <1>5. QED
    BY <1>2, <1>3, <1>4

\* After a record or a batch, the instance is not at a commit.
LEMMA MovedOn ==
    ASSUME TypeInv, CommitPending, NEW w \in Workers, loop[w].pc \in Busy,
           NEW err, StepOver(w, err) \/ LeavePartition(w, err),
           handled \subseteq handled'
    PROVE  CommitPending'
  <1>1. PICK part \in Partitions : loop[w].part = part
    BY DEF TypeInv, BusyOnPartition
  <1>2. loop'[w].pc \in {"record", "each"}
    BY <1>1, SteppedOver, LeftBehind
  <1>3. \A v \in Workers \ {w} : loop'[v] = loop[v] /\ cursor'[v] = cursor[v]
    BY <1>1, SteppedOver, LeftBehind
  <1>4. QED
    BY <1>2, <1>3, PendingKept

\* Every step of the loop keeps the losses accounted for.
LEMMA LossStep == LossInv /\ [LoopNext]_loopVars => LossInv'
  <1> SUFFICES ASSUME LossInv, [LoopNext]_loopVars PROVE LossInv'
    OBVIOUS
  <1>0. TypeInv /\ TypeInv' /\ SeenAccounted /\ CommitPending /\ LossAccounted
    BY TypeStep DEF LossInv
  <1>1. ASSUME UNCHANGED <<committed, cursor, handled, errored, abandoned>>,
               \A w \in Workers : loop'[w].pc = "commit" =>
                  \/ loop'[w].part = loop[w].part /\ loop[w].pc = "commit"
                  \/ Current(w)' \in handled' \cup NoHandler
        PROVE  LossInv'
    BY <1>0, <1>1 DEF LossInv, SeenAccounted, CommitPending, LossAccounted,
                      Accounted, Current
  <1>2. ASSUME NEW w \in Workers, NEW r \in LoopState, loop' = [loop EXCEPT ![w] = r],
               r.pc # "commit",
               UNCHANGED <<committed, cursor, handled, errored, abandoned>>
        PROVE  LossInv'
    BY <1>0, <1>1, <1>2 DEF TypeInv, LoopTypeOK
  <1>3. ASSUME NEW w \in Workers, Poll(w) PROVE LossInv'
    <2>1. loop \in [Workers -> LoopState]
      BY <1>0 DEF TypeInv, LoopTypeOK
    <2>2. \E ps \in SUBSET Fetchable(w) : loop' = [loop EXCEPT ![w] = [Idle EXCEPT !.pc = "each", !.todo = ps]]
      BY <1>3 DEF Poll
    <2>3. \A v \in Workers : loop'[v] = loop[v] \/ loop'[v].pc = "each"
      BY <2>1, <2>2 DEF Idle
    <2>4. QED
      BY <1>1, <1>3, <2>3 DEF Poll
  <1>4. ASSUME NEW w \in Workers, EachPartition(w) PROVE LossInv'
    <2>1. \A v \in Workers : loop'[v] = loop[v] \/ loop'[v].pc = "record"
      BY <1>0, <1>4 DEF EachPartition, TypeInv, LoopTypeOK, LoopState
    <2>2. QED
      BY <1>1, <1>4, <2>1 DEF EachPartition
  <1>5. ASSUME NEW w \in Workers, Dispatch(w) PROVE LossInv'
    <2>1. \A v \in Workers : loop'[v] = loop[v] \/ v = w
      BY <1>0, <1>5 DEF Dispatch, TypeInv, LoopTypeOK
    <2>2. loop'[w].part = loop[w].part
      BY <1>0, <1>5 DEF Dispatch, TypeInv, LoopTypeOK, LoopState
    <2>3. loop'[w].pc = "commit" => Current(w) \in NoHandler
      BY <1>0, <1>5 DEF Dispatch, TypeInv, LoopTypeOK, LoopState
    <2>4. Current(w)' = Current(w)
      BY <1>5, <2>2 DEF Dispatch, Current
    <2>5. QED
      BY <1>1, <1>5, <2>1, <2>3, <2>4 DEF Dispatch
  <1>6. ASSUME NEW w \in Workers, NEW ok \in BOOLEAN, HandleReturns(w, ok) PROVE LossInv'
    <2>1. loop[w].pc \in Busy /\ Accounted \subseteq Accounted' /\ handled \subseteq handled'
      BY <1>6 DEF HandleReturns, Busy, Accounted
    <2>2. Current(w) \in Accounted'
      BY <1>6 DEF HandleReturns, Accounted
    <2>3. LossAccounted'
      BY <1>0, <1>6, <2>1, <2>2, CommitAccounts DEF HandleReturns
    <2>4. CASE ok
      <3>1. SeenAccounted'
        BY <1>0, <1>6, <2>1, <2>4 DEF HandleReturns, SeenAccounted
      <3>2. \A v \in Workers \ {w} : loop'[v] = loop[v] /\ cursor'[v] = cursor[v]
        BY <1>0, <1>6, <2>4 DEF HandleReturns, TypeInv, LoopTypeOK
      <3>3. loop'[w].part = loop[w].part
        BY <1>0, <1>6, <2>4 DEF HandleReturns, TypeInv, LoopTypeOK, LoopState
      <3>4. Current(w)' \in handled'
        BY <1>6, <2>4, <3>3 DEF HandleReturns, Current
      <3>5. QED
        BY <1>0, <2>1, <2>3, <3>1, <3>2, <3>4, PendingKept DEF LossInv
    <2>5. CASE ~ok
      <3>1. StepOver(w, loop[w].commitErr)
        BY <1>6, <2>5 DEF HandleReturns
      <3>2. SeenAccounted'
        BY <1>0, <2>1, <2>2, <3>1, StepOverSeen
      <3>3. CommitPending'
        BY <1>0, <2>1, <3>1, MovedOn
      <3>4. QED
        BY <1>0, <2>3, <3>2, <3>3 DEF LossInv
    <2>6. QED
      BY <2>4, <2>5
  <1>7. ASSUME NEW w \in Workers, CommitOk(w) \/ CommitFails(w) PROVE LossInv'
    <2>1. loop[w].pc \in Busy /\ Current(w) \in Accounted
      BY <1>0, <1>7 DEF CommitOk, CommitFails, Busy, CommitPending, Accounted
    <2>2. UNCHANGED <<handled, errored>> /\ (CommitOffset(w) \/ UNCHANGED committed)
      BY <1>7 DEF CommitOk, CommitFails
    <2>3. \/ \E err \in BOOLEAN : StepOver(w, err) /\ UNCHANGED abandoned
          \/ \E err \in BOOLEAN : LeavePartition(w, err)
          \/ /\ loop' = [loop EXCEPT ![w].attempt = @ + 1]
             /\ UNCHANGED <<cursor, abandoned>>
      BY <1>7 DEF CommitOk, CommitFails
    <2>4. Accounted \subseteq Accounted'
      BY <2>2, <2>3 DEF Accounted, LeavePartition
    <2>5. LossAccounted'
      BY <1>0, <2>1, <2>2, <2>4, CommitAccounts
    <2>6. CASE \E err \in BOOLEAN : StepOver(w, err) /\ UNCHANGED abandoned
      <3>1. SeenAccounted'
        BY <1>0, <2>1, <2>4, <2>6, StepOverSeen
      <3>2. CommitPending'
        BY <1>0, <2>1, <2>2, <2>6, MovedOn
      <3>3. QED
        BY <1>0, <2>5, <3>1, <3>2 DEF LossInv
    <2>7. CASE \E err \in BOOLEAN : LeavePartition(w, err)
      <3>1. SeenAccounted'
        BY <1>0, <2>1, <2>4, <2>7, LeaveSeen
      <3>2. CommitPending'
        BY <1>0, <2>1, <2>2, <2>7, MovedOn
      <3>3. QED
        BY <1>0, <2>5, <3>1, <3>2 DEF LossInv
    <2>8. CASE /\ loop' = [loop EXCEPT ![w].attempt = @ + 1]
               /\ UNCHANGED <<cursor, abandoned>>
      <3>1. \A v \in Workers : loop'[v].pc = loop[v].pc /\ loop'[v].part = loop[v].part
        BY <1>0, <2>8 DEF TypeInv, LoopTypeOK, LoopState
      <3>2. CommitPending'
        BY <1>0, <2>2, <2>8, <3>1 DEF CommitPending, Current
      <3>3. SeenAccounted'
        BY <1>0, <2>4, <2>8 DEF SeenAccounted
      <3>4. QED
        BY <1>0, <2>5, <3>2, <3>3 DEF LossInv
    <2>9. QED
      BY <2>3, <2>6, <2>7, <2>8
  <1>8. ASSUME NEW w \in Workers,
               FetchFails(w) \/ EndFetch(w) \/ Crash(w) \/ Kill(w) \/ Restart(w)
        PROVE  LossInv'
    <2>1. \E r \in {Idle, Closing, Stopped} : loop' = [loop EXCEPT ![w] = r]
      BY <1>8 DEF FetchFails, EndFetch, Crash, Kill, Restart, Exit
    <2>2. UNCHANGED <<committed, cursor, handled, errored, abandoned>>
      BY <1>8 DEF FetchFails, EndFetch, Crash, Kill, Restart
    <2>3. \A r \in {Idle, Closing, Stopped} : r.pc # "commit"
      BY DEF Idle, Closing, Stopped
    <2>4. QED
      BY <1>2, <2>1, <2>2, <2>3, Idling
  <1>9. ASSUME NEW w \in Workers, NEW p \in Partitions, Assign(w, p) PROVE LossInv'
    <2>1. SeenAccounted'
      <3>1. SUFFICES ASSUME NEW v \in Workers, NEW q \in Partitions,
                            NEW o \in 0 .. cursor'[v][q] - 1
                     PROVE  <<q, o>> \in Accounted
        BY <1>9 DEF Assign, SeenAccounted, Accounted
      <3>2. CASE v = w /\ q = p
        <4>1. cursor'[v][q] = committed[q]
          BY <1>0, <1>9, <3>2 DEF Assign, TypeInv, LoopTypeOK
        <4>2. QED
          BY <1>0, <4>1 DEF LossAccounted, Accounted
      <3>3. CASE ~(v = w /\ q = p)
        <4>1. cursor'[v][q] = cursor[v][q]
          BY <1>0, <1>9, <3>3 DEF Assign, TypeInv, LoopTypeOK
        <4>2. QED
          BY <1>0, <4>1 DEF SeenAccounted
      <3>4. QED
        BY <3>2, <3>3
    <2>2. CommitPending'
      <3>1. \A v \in Workers \ {w} : loop'[v] = loop[v] /\ cursor'[v] = cursor[v]
        BY <1>0, <1>9 DEF Assign, TypeInv, LoopTypeOK
      <3>2. loop'[w].pc # "commit" /\ handled' = handled
        BY <1>9 DEF Assign, RebalanceAllowed
      <3>3. QED
        BY <1>0, <3>1, <3>2, PendingKept
    <2>3. LossAccounted'
      BY <1>0, <1>9 DEF Assign, LossAccounted
    <2>4. QED
      BY <1>0, <2>1, <2>2, <2>3 DEF LossInv
  <1>10. ASSUME NEW w \in Workers, NEW p \in Partitions, Revoke(w, p) \/ Evict(w, p)
         PROVE  LossInv'
    BY <1>1, <1>10 DEF Revoke, Evict
  <1>11. CASE UNCHANGED loopVars
    BY <1>1, <1>11 DEF loopVars
  <1>12. ASSUME NEW w \in Workers, HandlerSteps(w) PROVE LossInv'
    BY <1>6, <1>12 DEF HandlerSteps
  <1>13. QED
    BY <1>3, <1>4, <1>5, <1>7, <1>8, <1>9, <1>10, <1>11, <1>12
       DEF LoopNext, LoopSteps, GroupSteps

\* A loop that starts has dropped nothing.
LEMMA LossInit == LoopInit => LossInv
  <1> SUFFICES ASSUME LoopInit PROVE LossInv
    OBVIOUS
  <1>1. TypeInv
    BY TypeInit
  <1>2. SeenAccounted /\ LossAccounted
    BY DEF LoopInit, SeenAccounted, LossAccounted
  <1>3. CommitPending
    BY DEF LoopInit, CommitPending, Idle
  <1>4. QED
    BY <1>1, <1>2, <1>3 DEF LossInv

\* Whatever crashes, rebalances and commit failures do, a record below the
\* committed offset was handled or dropped by the loop itself.
THEOREM LossesAccounted == LoopSpec => []LossAccounted
  <1>1. LoopInit => LossInv
    BY LossInit
  <1>2. LossInv => LossAccounted
    BY DEF LossInv
  <1>3. QED
    BY <1>1, <1>2, LossStep, PTL DEF LoopSpec

----------------------------------------------------------------------------
(* Commits never go back.                                                  *)

\* An instance that takes a step of its own leaves the others alone.
OthersKept(w) ==
    \A v \in Workers \ {w} :
        /\ loop'[v] = loop[v] /\ cursor'[v] = cursor[v] /\ position'[v] = position[v]
        /\ \A p \in Partitions :
             owner'[p] = v => owner[p] = v /\ committed'[p] = committed[p]

\* It suffices to look at the instance that moves.
LEMMA OneMoves ==
    ASSUME MonotoneInv, TypeInv', NEW w \in Workers,
           OthersKept(w), InBatch(w)', BehindCursor(w)'
    PROVE  MonotoneInv'
  <1> SUFFICES ASSUME NEW v \in Workers PROVE InBatch(v)' /\ BehindCursor(v)'
    BY DEF MonotoneInv
  <1>1. CASE v = w
    BY <1>1
  <1>2. CASE v # w
    BY <1>2 DEF MonotoneInv, OthersKept, InBatch, BehindCursor
  <1>3. QED
    BY <1>1, <1>2

\* The step itself: the invariant is kept and no commit goes back.
LEMMA MonotoneStep ==
    MonotoneInv /\ [LoopNext]_loopVars =>
        MonotoneInv' /\ (\A p \in Partitions : committed'[p] >= committed[p])
  <1> DEFINE Forward == \A p \in Partitions : committed'[p] >= committed[p]
             Goal == MonotoneInv' /\ Forward
  <1> SUFFICES ASSUME MonotoneInv, [LoopNext]_loopVars PROVE Goal
    OBVIOUS
  <1>0. TypeInv /\ TypeInv'
    BY TypeStep DEF MonotoneInv
  <1>a. /\ \A v \in Workers, p \in Partitions :
              cursor[v][p] \in Nat /\ position[v][p] \in Nat
        /\ \A p \in Partitions : committed[p] \in Nat
        /\ \A v \in Workers : loop[v] \in LoopState
        /\ \A v \in Workers : loop[v].todo \subseteq Partitions
    BY <1>0, LoopRecord DEF TypeInv, LoopTypeOK
  <1>b. \A v \in Workers, p \in Partitions :
            /\ loop[v].pc = "poll" => loop[v].todo = {}
            /\ cursor[v][p] <= position[v][p]
            /\ p \in loop[v].todo => cursor[v][p] < position[v][p]
            /\ (loop[v].pc \in Busy /\ p = loop[v].part) =>
                  cursor[v][p] < position[v][p] /\ p \notin loop[v].todo
            /\ owner[p] = v =>
                  committed[p] <= cursor[v][p]
                      + (IF loop[v].pc = "commit" /\ loop[v].part = p THEN 1 ELSE 0)
    BY DEF MonotoneInv, InBatch, BehindCursor
  <1>c. committed' = committed => Forward
    BY <1>a
  <1>1. ASSUME NEW w \in Workers, Poll(w) PROVE Goal
    <2>a. PICK ps \in (SUBSET Fetchable(w)) \ {{}} : \E end \in [ps -> Ends] :
            /\ \A p \in ps : position[w][p] < end[p]
            /\ position' = [position EXCEPT ![w] =
                              [p \in Partitions |->
                                 IF p \in ps THEN end[p] ELSE position[w][p]]]
            /\ loop' = [loop EXCEPT ![w] = [Idle EXCEPT !.pc = "each", !.todo = ps]]
      BY <1>1 DEF Poll
    <2>b. PICK end \in [ps -> Ends] :
            /\ \A p \in ps : position[w][p] < end[p]
            /\ position' = [position EXCEPT ![w] =
                              [p \in Partitions |->
                                 IF p \in ps THEN end[p] ELSE position[w][p]]]
            /\ loop' = [loop EXCEPT ![w] = [Idle EXCEPT !.pc = "each", !.todo = ps]]
      BY <2>a
    <2>1. \A p \in Partitions : /\ position'[w][p] \in Nat
                                /\ position'[w][p] >= position[w][p]
                                /\ p \in ps => position'[w][p] > position[w][p]
      <3>1. \A p \in Partitions : position'[w][p] = IF p \in ps THEN end[p] ELSE position[w][p]
        BY <1>0, <2>b DEF TypeInv, LoopTypeOK
      <3>2. \A p \in Partitions : position'[w][p] \in Nat
        BY <1>0 DEF TypeInv, LoopTypeOK
      <3>3. QED
        BY <1>a, <2>b, <3>1, <3>2
    <2>2. loop'[w].pc = "each" /\ loop'[w].todo = ps
      BY <1>0, <2>b DEF TypeInv, LoopTypeOK, Idle
    <2>3. \A v \in Workers \ {w} : loop'[v] = loop[v] /\ position'[v] = position[v]
      BY <1>0, <2>b DEF TypeInv, LoopTypeOK
    <2>4. cursor' = cursor /\ owner' = owner /\ committed' = committed /\ loop[w].pc = "poll"
      BY <1>1 DEF Poll
    <2>5. \A p \in Partitions :
               /\ cursor'[w][p] <= position'[w][p]
               /\ p \in loop'[w].todo => cursor'[w][p] < position'[w][p]
               /\ owner'[p] = w => committed'[p] <= cursor'[w][p]
      BY <1>a, <1>b, <2>1, <2>2, <2>4
    <2>6. MonotoneInv'
      <3>1. OthersKept(w)
        BY <1>0, <1>a, <2>2, <2>3, <2>4, <2>5 DEF OthersKept
      <3>2. InBatch(w)'
        BY <1>0, <1>a, <2>2, <2>3, <2>4, <2>5 DEF InBatch, Busy
      <3>3. BehindCursor(w)'
        BY <1>0, <1>a, <2>2, <2>3, <2>4, <2>5 DEF BehindCursor
      <3>4. QED
        BY <1>0, <3>1, <3>2, <3>3, OneMoves
    <2>7. QED
      BY <1>0, <1>c, <2>4, <2>6 DEF MonotoneInv
  <1>2. ASSUME NEW w \in Workers, NEW p \in loop[w].todo, loop[w].pc = "each",
               loop' = [loop EXCEPT ![w].pc = "record", ![w].part = p,
                                    ![w].todo = @ \ {p}],
               UNCHANGED <<cursor, position, owner, committed>>
        PROVE  Goal
    <2>1. loop'[w].pc = "record" /\ loop'[w].part = p /\ loop'[w].todo = loop[w].todo \ {p}
      BY <1>0, <1>2 DEF TypeInv, LoopTypeOK, LoopState
    <2>2. \A v \in Workers \ {w} : loop'[v] = loop[v]
      BY <1>0, <1>2 DEF TypeInv, LoopTypeOK
    <2>3. MonotoneInv'
      <3>1. OthersKept(w)
        BY <1>0, <1>a, <1>b, <1>2, <2>1, <2>2 DEF OthersKept
      <3>2. InBatch(w)'
        BY <1>0, <1>a, <1>b, <1>2, <2>1, <2>2 DEF InBatch, Busy
      <3>3. BehindCursor(w)'
        BY <1>0, <1>a, <1>b, <1>2, <2>1, <2>2 DEF BehindCursor
      <3>4. QED
        BY <1>0, <3>1, <3>2, <3>3, OneMoves
    <2>4. QED
      BY <1>0, <1>2, <1>c, <2>3 DEF MonotoneInv
  <1>3. ASSUME NEW w \in Workers, Dispatch(w) PROVE Goal
    <2>1. /\ loop'[w].part = loop[w].part /\ loop'[w].todo = loop[w].todo
          /\ loop[w].pc = "record" /\ loop'[w].pc \in {"handle", "commit"}
      BY <1>0, <1>3 DEF Dispatch, TypeInv, LoopTypeOK, LoopState
    <2>2. \A v \in Workers \ {w} : loop'[v] = loop[v]
      BY <1>0, <1>3 DEF Dispatch, TypeInv, LoopTypeOK
    <2>3. UNCHANGED <<cursor, position, owner, committed>>
      BY <1>3 DEF Dispatch
    <2>4. \A p \in Partitions :
             owner[p] = w => committed[p] <= cursor[w][p]
                                 + (IF loop'[w].pc = "commit" /\ loop'[w].part = p THEN 1 ELSE 0)
      BY <1>a, <1>b, <2>1
    <2>5. MonotoneInv'
      <3>1. OthersKept(w)
        BY <1>0, <1>b, <2>1, <2>2, <2>3, <2>4 DEF OthersKept
      <3>2. InBatch(w)'
        BY <1>0, <1>b, <2>1, <2>2, <2>3, <2>4 DEF InBatch, Busy
      <3>3. BehindCursor(w)'
        BY <1>0, <1>b, <2>1, <2>2, <2>3, <2>4 DEF BehindCursor
      <3>4. QED
        BY <1>0, <3>1, <3>2, <3>3, OneMoves
    <2>6. QED
      BY <1>0, <1>c, <2>3, <2>5 DEF MonotoneInv
  <1>4. ASSUME NEW w \in Workers, loop[w].pc \in Busy, NEW err \in BOOLEAN,
               StepOver(w, err) \/ LeavePartition(w, err),
               UNCHANGED <<position, owner>>,
               committed' = committed \/ (CommitOffset(w) /\ owner[loop[w].part] = w)
        PROVE  Goal
    <2> DEFINE part == loop[w].part
    <2>1. part \in Partitions
      BY <1>0, <1>4 DEF TypeInv, BusyOnPartition
    <2>2. /\ loop'[w].pc \in {"record", "each"} /\ loop'[w].todo = loop[w].todo
          /\ loop'[w].pc = "record" =>
               /\ loop'[w].part = part /\ cursor'[w][part] = cursor[w][part] + 1
               /\ cursor[w][part] + 1 < position[w][part]
      BY <1>0, <1>4, <2>1, SteppedOver, LeftBehind
    <2>3. \A v \in Workers \ {w} : loop'[v] = loop[v] /\ cursor'[v] = cursor[v]
      BY <1>0, <1>4, <2>1, SteppedOver, LeftBehind
    <2>4. \A p \in Partitions : p # part => cursor'[w][p] = cursor[w][p]
      BY <1>0, <1>4, <2>1, SteppedOver, LeftBehind
    <2>5. cursor'[w][part] = cursor[w][part] + 1 \/ cursor'[w][part] = position[w][part]
      BY <1>0, <1>4, <2>1, SteppedOver, LeftBehind
    <2>6. /\ \A p \in Partitions : p # part => committed'[p] = committed[p]
          /\ committed'[part] = committed[part]
             \/ (committed'[part] = cursor[w][part] + 1 /\ owner[part] = w)
      BY <1>0, <1>4, <2>1 DEF CommitOffset, TypeInv, LoopTypeOK
    <2>7. /\ cursor[w][part] < position[w][part] /\ part \notin loop[w].todo
          /\ owner[part] = w => committed[part] <= cursor[w][part] + 1
      BY <1>a, <1>b, <1>4, <2>1
    <2>8. cursor'[w][part] <= position[w][part] /\ cursor'[w][part] >= cursor[w][part] + 1
      BY <1>a, <2>1, <2>5, <2>7
    <2>9. \A p \in Partitions :
             /\ cursor'[w][p] <= position'[w][p]
             /\ p \in loop'[w].todo => cursor'[w][p] < position'[w][p]
             /\ (loop'[w].pc \in Busy /\ p = loop'[w].part) =>
                  cursor'[w][p] < position'[w][p] /\ p \notin loop'[w].todo
      <3> SUFFICES ASSUME NEW p \in Partitions
                   PROVE /\ cursor'[w][p] <= position'[w][p]
                         /\ p \in loop'[w].todo => cursor'[w][p] < position'[w][p]
                         /\ (loop'[w].pc \in Busy /\ p = loop'[w].part) =>
                              cursor'[w][p] < position'[w][p] /\ p \notin loop'[w].todo
        OBVIOUS
      <3>1. CASE p = part
        BY <1>a, <1>4, <2>1, <2>2, <2>7, <2>8, <3>1 DEF Busy
      <3>2. CASE p # part
        BY <1>a, <1>b, <1>4, <2>2, <2>4, <3>2 DEF Busy
      <3>3. QED
        BY <3>1, <3>2
    <2>10. \A p \in Partitions : owner'[p] = w => committed'[p] <= cursor'[w][p]
      <3> SUFFICES ASSUME NEW p \in Partitions, owner'[p] = w
                   PROVE committed'[p] <= cursor'[w][p]
        OBVIOUS
      <3>0. committed'[p] \in Nat /\ cursor'[w][p] \in Nat
        BY <1>0 DEF TypeInv, LoopTypeOK
      <3>1. CASE p = part
        BY <1>a, <1>4, <2>1, <2>6, <2>7, <2>8, <3>0, <3>1
      <3>2. CASE p # part
        BY <1>b, <1>a, <1>4, <2>4, <2>6, <3>0, <3>2
      <3>3. QED
        BY <3>1, <3>2
    <2>11. \A v \in Workers \ {w} : \A p \in Partitions :
               owner'[p] = v => owner[p] = v /\ committed'[p] = committed[p]
      BY <1>4, <2>1, <2>6
    <2>12. Forward
      <3> SUFFICES ASSUME NEW p \in Partitions PROVE committed'[p] >= committed[p]
        OBVIOUS
      <3>1. CASE p = part
        BY <1>a, <2>1, <2>6, <2>7, <3>1
      <3>2. CASE p # part
        BY <1>a, <2>6, <3>2
      <3>3. QED
        BY <3>1, <3>2
    <2>13. MonotoneInv'
      <3>1. OthersKept(w)
        BY <1>4, <2>3, <2>11 DEF OthersKept
      <3>2. InBatch(w)'
        BY <2>2, <2>9 DEF InBatch
      <3>3. BehindCursor(w)'
        <4>1. \A p \in Partitions : cursor'[w][p] \in Nat
          BY <1>0 DEF TypeInv, LoopTypeOK
        <4>2. loop'[w].pc # "commit"
          BY <2>2
        <4>3. QED
          BY <2>10, <4>1, <4>2 DEF BehindCursor
      <3>4. QED
        BY <1>0, <3>1, <3>2, <3>3, OneMoves
    <2>14. QED
      BY <1>0, <2>12, <2>13 DEF MonotoneInv
  <1>5. ASSUME NEW w \in Workers, loop[w].pc = "commit",
               loop' = [loop EXCEPT ![w].attempt = @ + 1],
               UNCHANGED <<cursor, position, owner>>,
               committed' = committed \/ (CommitOffset(w) /\ owner[loop[w].part] = w)
        PROVE  Goal
    <2> DEFINE part == loop[w].part
    <2>1. part \in Partitions
      BY <1>0, <1>5 DEF TypeInv, BusyOnPartition, Busy
    <2>2. /\ loop'[w].pc = "commit" /\ loop'[w].part = part
          /\ loop'[w].todo = loop[w].todo
      BY <1>0, <1>5 DEF TypeInv, LoopTypeOK, LoopState
    <2>3. \A v \in Workers \ {w} : loop'[v] = loop[v]
      BY <1>0, <1>5 DEF TypeInv, LoopTypeOK
    <2>4. /\ \A p \in Partitions : p # part => committed'[p] = committed[p]
          /\ committed'[part] = committed[part]
             \/ (committed'[part] = cursor[w][part] + 1 /\ owner[part] = w)
      BY <1>0, <1>5, <2>1 DEF CommitOffset, TypeInv, LoopTypeOK
    <2>5. \A v \in Workers \ {w} : \A p \in Partitions :
               owner'[p] = v => owner[p] = v /\ committed'[p] = committed[p]
      BY <1>5, <2>1, <2>4
    <2>6. \A p \in Partitions :
             owner[p] = w => committed'[p] <= cursor[w][p] + (IF p = part THEN 1 ELSE 0)
      BY <1>a, <1>b, <1>5, <2>1, <2>4
    <2>7. Forward
      BY <1>a, <1>b, <1>5, <2>1, <2>4
    <2>8. MonotoneInv'
      <3>1. OthersKept(w)
        BY <1>0, <1>b, <1>5, <2>2, <2>3, <2>5, <2>6 DEF OthersKept
      <3>2. InBatch(w)'
        BY <1>0, <1>b, <1>5, <2>2, <2>3, <2>5, <2>6 DEF InBatch, Busy
      <3>3. BehindCursor(w)'
        BY <1>0, <1>b, <1>5, <2>2, <2>3, <2>5, <2>6 DEF BehindCursor
      <3>4. QED
        BY <1>0, <3>1, <3>2, <3>3, OneMoves
    <2>9. QED
      BY <1>0, <2>7, <2>8 DEF MonotoneInv
  <1>6. ASSUME NEW w \in Workers, NEW ok \in BOOLEAN, HandleReturns(w, ok) PROVE Goal
    <2>1. CASE ok
      <3>1. /\ loop'[w].pc = "commit" /\ loop'[w].part = loop[w].part
            /\ loop'[w].todo = loop[w].todo /\ loop[w].pc = "handle"
        BY <1>0, <1>6, <2>1 DEF HandleReturns, TypeInv, LoopTypeOK, LoopState
      <3>2. \A v \in Workers \ {w} : loop'[v] = loop[v]
        BY <1>0, <1>6, <2>1 DEF HandleReturns, TypeInv, LoopTypeOK
      <3>3. UNCHANGED <<cursor, position, owner, committed>>
        BY <1>6, <2>1 DEF HandleReturns
      <3>4. \A p \in Partitions :
               owner[p] = w => committed[p] <= cursor[w][p]
                                   + (IF p = loop[w].part THEN 1 ELSE 0)
        BY <1>a, <1>b, <3>1
      <3>5. MonotoneInv'
        <4>1. OthersKept(w)
          BY <1>0, <1>b, <3>1, <3>2, <3>3, <3>4 DEF OthersKept
        <4>2. InBatch(w)'
          BY <1>0, <1>b, <3>1, <3>2, <3>3, <3>4 DEF InBatch, Busy
        <4>3. BehindCursor(w)'
          BY <1>0, <1>b, <3>1, <3>2, <3>3, <3>4 DEF BehindCursor
        <4>4. QED
          BY <1>0, <4>1, <4>2, <4>3, OneMoves
      <3>6. QED
        BY <1>0, <1>c, <3>3, <3>5 DEF MonotoneInv
    <2>2. CASE ~ok
      <3>1. loop[w].commitErr \in BOOLEAN
        BY <1>a, LoopRecord
      <3>2. /\ StepOver(w, loop[w].commitErr) /\ loop[w].pc \in Busy
            /\ UNCHANGED <<position, owner>> /\ committed' = committed
        BY <1>6, <2>2 DEF HandleReturns, Busy
      <3>3. QED
        BY <1>4, <3>1, <3>2
    <2>3. QED
      BY <2>1, <2>2
  <1>7. ASSUME NEW w \in Workers, CommitOk(w) PROVE Goal
    <2>1. /\ loop[w].pc \in Busy /\ UNCHANGED <<position, owner>>
          /\ CommitOffset(w) /\ owner[loop[w].part] = w
      BY <1>7 DEF CommitOk, Accepts, Busy
    <2>2. StepOver(w, FALSE) \/ LeavePartition(w, FALSE)
      BY <1>7 DEF CommitOk
    <2>3. QED
      BY <1>4, <2>1, <2>2
  <1>8. ASSUME NEW w \in Workers, CommitFails(w) PROVE Goal
    <2>1. /\ loop[w].pc = "commit" /\ UNCHANGED <<position, owner>>
          /\ committed' = committed \/ (CommitOffset(w) /\ owner[loop[w].part] = w)
      <3>1. loop[w].pc = "commit" /\ UNCHANGED <<position, owner>>
        BY <1>8 DEF CommitFails
      <3>2. CASE UNCHANGED committed
        BY <3>1, <3>2
      <3>3. CASE CommitOffset(w) /\ Accepts(w)
        BY <3>1, <3>3 DEF Accepts
      <3>4. QED
        BY <1>8, <3>2, <3>3 DEF CommitFails
    <2>2. CASE loop[w].attempt < MaxAttempts
      BY <1>5, <1>8, <2>1, <2>2 DEF CommitFails
    <2>3. CASE ~(loop[w].attempt < MaxAttempts)
      <3>1. LeavePartition(w, TRUE)
        BY <1>8, <2>3 DEF CommitFails
      <3>2. QED
        BY <1>4, <2>1, <3>1 DEF Busy
    <2>4. QED
      BY <2>2, <2>3
  <1>9. ASSUME NEW w \in Workers,
               NEW r \in {Idle, Closing, Stopped}, loop' = [loop EXCEPT ![w] = r],
               \A p \in Partitions : owner'[p] = owner[p] \/ owner'[p] = None,
               loop[w].pc # "commit",
               UNCHANGED <<cursor, position, committed>>
        PROVE  Goal
    <2>1. loop'[w].pc \in {"poll", "closing", "stopped"} /\ loop'[w].todo = {}
      <3>1. loop'[w] = r
        BY <1>0, <1>9 DEF TypeInv, LoopTypeOK
      <3>2. r.pc \in {"poll", "closing", "stopped"} /\ r.todo = {}
        BY DEF Idle, Closing, Stopped
      <3>3. QED
        BY <3>1, <3>2
    <2>2. \A v \in Workers \ {w} : loop'[v] = loop[v]
      BY <1>0, <1>9 DEF TypeInv, LoopTypeOK
    <2>3. MonotoneInv'
      <3>1. OthersKept(w)
        BY <1>0, <1>a, <1>b, <1>9, <2>1, <2>2, LoopConstants DEF OthersKept
      <3>2. InBatch(w)'
        BY <1>0, <1>a, <1>b, <1>9, <2>1, <2>2, LoopConstants DEF InBatch, Busy
      <3>3. BehindCursor(w)'
        BY <1>0, <1>a, <1>b, <1>9, <2>1, <2>2, LoopConstants DEF BehindCursor
      <3>4. QED
        BY <1>0, <3>1, <3>2, <3>3, OneMoves
    <2>4. QED
      BY <1>0, <1>c, <1>9, <2>3 DEF MonotoneInv
  <1>10. ASSUME NEW w \in Workers, Exit(w), UNCHANGED <<cursor, position, committed>>
         PROVE  Goal
    <2>1. loop'[w].pc = "stopped" /\ loop'[w].todo = {}
      BY <1>0, <1>10 DEF TypeInv, LoopTypeOK, Exit, Idle, Stopped
    <2>2. \A v \in Workers \ {w} : loop'[v] = loop[v]
      BY <1>0, <1>10 DEF TypeInv, LoopTypeOK, Exit
    <2>3. \A p \in Partitions : owner'[p] # w /\ (owner'[p] = owner[p] \/ owner'[p] = None)
      BY <1>10, LoopConstants DEF Exit
    <2>4. MonotoneInv'
      <3>1. OthersKept(w)
        BY <1>0, <1>a, <1>b, <1>10, <2>1, <2>2, <2>3, LoopConstants DEF OthersKept
      <3>2. InBatch(w)'
        BY <1>0, <1>a, <1>b, <1>10, <2>1, <2>2, <2>3, LoopConstants DEF InBatch, Busy
      <3>3. BehindCursor(w)'
        BY <1>0, <1>a, <1>b, <1>10, <2>1, <2>2, <2>3, LoopConstants DEF BehindCursor
      <3>4. QED
        BY <1>0, <3>1, <3>2, <3>3, OneMoves
    <2>5. QED
      BY <1>0, <1>c, <1>10, <2>4 DEF MonotoneInv
  <1>11. ASSUME NEW w \in Workers,
                FetchFails(w) \/ EndFetch(w) \/ Crash(w) \/ Kill(w) \/ Restart(w)
         PROVE  Goal
    <2>1. CASE FetchFails(w)
      BY <1>9, <2>1 DEF FetchFails
    <2>2. CASE EndFetch(w)
      BY <1>9, <2>2 DEF EndFetch
    <2>3. CASE Crash(w) \/ Kill(w)
      BY <1>10, <2>3 DEF Crash, Kill
    <2>4. CASE Restart(w)
      BY <1>9, <2>4 DEF Restart
    <2>5. QED
      BY <1>11, <2>1, <2>2, <2>3, <2>4
  <1>12. ASSUME NEW w \in Workers, NEW p \in Partitions, Assign(w, p) PROVE Goal
    <2>1. /\ loop[w].pc = "poll" /\ loop' = loop /\ committed' = committed
          /\ owner' = [owner EXCEPT ![p] = w]
      BY <1>12 DEF Assign, RebalanceAllowed
    <2>2. \A q \in Partitions :
             /\ cursor'[w][q] = IF q = p THEN committed[p] ELSE cursor[w][q]
             /\ position'[w][q] = IF q = p THEN committed[p] ELSE position[w][q]
      BY <1>0, <1>12 DEF Assign, TypeInv, LoopTypeOK
    <2>3. \A v \in Workers \ {w} : cursor'[v] = cursor[v] /\ position'[v] = position[v]
      BY <1>0, <1>12 DEF Assign, TypeInv, LoopTypeOK
    <2>4. \A q \in Partitions : owner'[q] = IF q = p THEN w ELSE owner[q]
      BY <1>0, <2>1 DEF TypeInv, LoopTypeOK
    <2>5. \A v \in Workers \ {w} : \A q \in Partitions : owner'[q] = v => owner[q] = v
      BY <2>4
    <2>6. \A q \in Partitions : q \in loop[w].todo => cursor'[w][q] < position'[w][q]
      BY <1>b, <2>1
    <2>7. MonotoneInv'
      <3>1. OthersKept(w)
        BY <1>0, <1>a, <1>b, <2>1, <2>2, <2>3, <2>4, <2>5, <2>6 DEF OthersKept
      <3>2. InBatch(w)'
        BY <1>0, <1>a, <1>b, <2>1, <2>2, <2>3, <2>4, <2>5, <2>6 DEF InBatch, Busy
      <3>3. BehindCursor(w)'
        BY <1>0, <1>a, <1>b, <2>1, <2>2, <2>3, <2>4, <2>5, <2>6 DEF BehindCursor
      <3>4. QED
        BY <1>0, <3>1, <3>2, <3>3, OneMoves
    <2>8. QED
      BY <1>0, <1>c, <2>1, <2>7 DEF MonotoneInv
  <1>13. ASSUME NEW w \in Workers, NEW p \in Partitions, Revoke(w, p) \/ Evict(w, p)
         PROVE  Goal
    <2>1. /\ owner' = [owner EXCEPT ![p] = None]
          /\ UNCHANGED <<committed, position, cursor, loop>>
      BY <1>13 DEF Revoke, Evict
    <2>2. \A v \in Workers, q \in Partitions : owner'[q] = v => owner[q] = v
      BY <1>0, <2>1, LoopConstants DEF TypeInv, LoopTypeOK
    <2>3. ASSUME NEW v \in Workers PROVE InBatch(v)' /\ BehindCursor(v)'
      BY <2>1, <2>2 DEF MonotoneInv, InBatch, BehindCursor
    <2>4. QED
      BY <1>0, <1>c, <2>1, <2>3 DEF MonotoneInv
  <1>14. CASE UNCHANGED loopVars
    <2>1. ASSUME NEW v \in Workers PROVE InBatch(v)' /\ BehindCursor(v)'
      BY <1>14 DEF loopVars, MonotoneInv, InBatch, BehindCursor
    <2>2. QED
      BY <1>0, <1>c, <1>14, <2>1 DEF MonotoneInv, loopVars
  <1>15. ASSUME NEW w \in Workers, EachPartition(w) PROVE Goal
    BY <1>2, <1>15 DEF EachPartition
  <1>16. ASSUME NEW w \in Workers, HandlerSteps(w) PROVE Goal
    BY <1>6, <1>16 DEF HandlerSteps
  <1>17. QED
    BY <1>1, <1>3, <1>7, <1>8, <1>11, <1>12, <1>13, <1>14, <1>15, <1>16
       DEF LoopNext, LoopSteps, GroupSteps

\* A loop that starts has committed nothing and works on nothing.
LEMMA MonotoneInit == LoopInit => MonotoneInv
  <1> SUFFICES ASSUME LoopInit PROVE MonotoneInv
    OBVIOUS
  <1>1. TypeInv
    BY TypeInit
  <1>2. ASSUME NEW w \in Workers PROVE InBatch(w) /\ BehindCursor(w)
    BY LoopConstants DEF LoopInit, InBatch, BehindCursor, Idle, Busy
  <1>3. QED
    BY <1>1, <1>2 DEF MonotoneInv

\* Across crashes, evictions and retried commits, the committed offset of a
\* partition only grows.
THEOREM CommitsMonotone == LoopSpec => CommitMonotone
  <1>1. LoopInit => MonotoneInv
    BY MonotoneInit
  <1>2. MonotoneInv /\ [LoopNext]_loopVars => MonotoneInv'
    BY MonotoneStep
  <1>3. MonotoneInv /\ [LoopNext]_loopVars =>
          [\A p \in Partitions : committed'[p] >= committed[p]]_loopVars
    BY MonotoneStep
  <1>4. QED
    BY <1>1, <1>2, <1>3, PTL DEF LoopSpec, CommitMonotone

----------------------------------------------------------------------------
(* No offset is beyond the end of the log.                                 *)

\* What is fetched and what is committed is in the log.
WithinLog ==
    \A p \in Partitions :
        /\ committed[p] <= LogLen[p]
        /\ \A w \in Workers : position[w][p] <= LogLen[p]

FetchedInv == MonotoneInv /\ WithinLog

\* Poll fetches what is in the log, and a commit is at most one beyond a
\* record that was fetched.
LEMMA FetchedStep == FetchedInv /\ [LoopNext]_loopVars => FetchedInv'
  <1> SUFFICES ASSUME FetchedInv, [LoopNext]_loopVars PROVE FetchedInv'
    OBVIOUS
  <1>0. MonotoneInv /\ MonotoneInv' /\ TypeInv /\ WithinLog
    BY MonotoneStep DEF FetchedInv, MonotoneInv
  <1>a. /\ committed \in [Partitions -> Nat] /\ owner \in [Partitions -> Workers \cup {None}]
        /\ position \in [Workers -> [Partitions -> Nat]]
        /\ cursor \in [Workers -> [Partitions -> Nat]]
        /\ LogLen \in [Partitions -> Nat]
    BY <1>0, LoopConstants DEF TypeInv, LoopTypeOK
  <1>1. ASSUME UNCHANGED <<committed, position>> PROVE WithinLog'
    BY <1>0, <1>1 DEF WithinLog
  <1>2. ASSUME NEW w \in Workers, Poll(w) PROVE WithinLog'
    <2>1. PICK ps \in (SUBSET Fetchable(w)) \ {{}} : \E end \in [ps -> Ends] :
            /\ \A p \in ps : end[p] <= LogLen[p]
            /\ position' = [position EXCEPT ![w] =
                              [p \in Partitions |->
                                 IF p \in ps THEN end[p] ELSE position[w][p]]]
      BY <1>2 DEF Poll
    <2>2. PICK end \in [ps -> Ends] :
            /\ \A p \in ps : end[p] <= LogLen[p]
            /\ position' = [position EXCEPT ![w] =
                              [p \in Partitions |->
                                 IF p \in ps THEN end[p] ELSE position[w][p]]]
      BY <2>1
    <2>3. \A v \in Workers, p \in Partitions :
             position'[v][p] = IF v = w /\ p \in ps THEN end[p] ELSE position[v][p]
      BY <1>a, <2>2
    <2>4. committed' = committed
      BY <1>2 DEF Poll
    <2>5. QED
      BY <1>0, <2>2, <2>3, <2>4 DEF WithinLog
  <1>3. ASSUME NEW w \in Workers, NEW p \in Partitions, Assign(w, p) PROVE WithinLog'
    <2>1. committed' = committed /\ position' = [position EXCEPT ![w][p] = committed[p]]
      BY <1>3 DEF Assign
    <2>2. \A v \in Workers, q \in Partitions :
             position'[v][q] = IF v = w /\ q = p THEN committed[p] ELSE position[v][q]
      BY <1>a, <2>1
    <2>3. QED
      BY <1>0, <2>1, <2>2 DEF WithinLog
  <1>4. ASSUME NEW w \in Workers, CommitOk(w) \/ CommitFails(w) PROVE WithinLog'
    <2>1. /\ position' = position /\ loop[w].pc = "commit"
          /\ committed' = committed \/ CommitOffset(w)
      BY <1>4 DEF CommitOk, CommitFails
    <2>2. loop[w].part \in Partitions /\ cursor[w][loop[w].part] < position[w][loop[w].part]
      BY <1>0, <2>1 DEF TypeInv, BusyOnPartition, Busy, MonotoneInv, InBatch
    <2>3. ASSUME NEW p \in Partitions, CommitOffset(w) PROVE committed'[p] <= LogLen[p]
      <3>1. committed'[p] = IF p = loop[w].part THEN cursor[w][p] + 1 ELSE committed[p]
        BY <1>a, <2>2, <2>3 DEF CommitOffset
      <3>2. cursor[w][p] \in Nat /\ position[w][p] \in Nat /\ LogLen[p] \in Nat
            /\ position[w][p] <= LogLen[p] /\ committed[p] <= LogLen[p]
        BY <1>0, <1>a DEF WithinLog
      <3>3. QED
        BY <2>2, <3>1, <3>2
    <2>4. QED
      BY <1>0, <2>1, <2>3 DEF WithinLog
  <1>5. WithinLog'
    <2>1. CASE \E w \in Workers : LoopSteps(w)
      BY <1>1, <1>2, <1>4, <2>1
         DEF LoopSteps, FetchFails, EachPartition, Dispatch, EndFetch
    <2>2. CASE \E w \in Workers : HandlerSteps(w)
      BY <1>1, <2>2 DEF HandlerSteps, HandleReturns
    <2>3. CASE \E w \in Workers : GroupSteps(w) \/ Crash(w) \/ Kill(w)
      BY <1>1, <1>3, <2>3 DEF GroupSteps, Restart, Revoke, Evict, Crash, Kill
    <2>4. CASE UNCHANGED loopVars
      BY <1>1, <2>4 DEF loopVars
    <2>5. QED
      BY <2>1, <2>2, <2>3, <2>4 DEF LoopNext
  <1>6. QED
    BY <1>0, <1>5 DEF FetchedInv

\* A loop that starts has fetched nothing.
LEMMA FetchedInit == LoopInit => FetchedInv
  BY MonotoneInit, LoopConstants DEF LoopInit, FetchedInv, WithinLog

\* The loop always keeps the types, the order of offsets and the bounds.
LEMMA FetchedAlways == LoopSpec => []FetchedInv
  BY FetchedInit, FetchedStep, PTL DEF LoopSpec

----------------------------------------------------------------------------
(* One handler per partition.                                              *)

\* In every step but an eviction an instance keeps what it works on.
LEMMA OwnedStep ==
    ASSUME ExclusiveInv, [LoopNext]_loopVars,
           ~ \E w \in Workers, p \in Partitions : Evict(w, p)
    PROVE  ExclusiveInv'
  <1>0. TypeInv /\ TypeInv' /\ OwnsBatch
    BY TypeStep DEF ExclusiveInv
  <1>a. /\ loop \in [Workers -> LoopState] /\ owner \in [Partitions -> Workers \cup {None}]
        /\ \A v \in Workers : loop[v].todo \subseteq Partitions
        /\ \A v \in Workers : loop[v].pc \in Busy => loop[v].part \in Partitions
    BY <1>0, LoopRecord DEF TypeInv, LoopTypeOK, BusyOnPartition
  <1>1. ASSUME NEW w \in Workers, UNCHANGED owner,
               \A v \in Workers \ {w} : loop'[v] = loop[v],
               \A p \in loop'[w].todo : owner[p] = w,
               loop'[w].pc = "poll" => loop'[w].todo = {},
               loop'[w].pc \in Busy => owner[loop'[w].part] = w
        PROVE  ExclusiveInv'
    BY <1>0, <1>1 DEF ExclusiveInv, OwnsBatch
  <1>2. ASSUME NEW w \in Workers, Poll(w) PROVE ExclusiveInv'
    <2>1. PICK ps \in SUBSET Fetchable(w) :
            loop' = [loop EXCEPT ![w] = [Idle EXCEPT !.pc = "each", !.todo = ps]]
      BY <1>2 DEF Poll
    <2>2. loop'[w].pc = "each" /\ loop'[w].todo = ps
      BY <1>a, <2>1 DEF Idle
    <2>3. \A v \in Workers \ {w} : loop'[v] = loop[v]
      BY <1>a, <2>1
    <2>4. QED
      BY <1>1, <1>2, <2>1, <2>2, <2>3 DEF Poll, Fetchable, Busy
  <1>3. ASSUME NEW w \in Workers, EachPartition(w) PROVE ExclusiveInv'
    <2>1. PICK p \in loop[w].todo :
            loop' = [loop EXCEPT ![w].pc = "record", ![w].part = p, ![w].todo = @ \ {p}]
      BY <1>3 DEF EachPartition
    <2>2. /\ loop'[w].part = p /\ loop'[w].todo \subseteq loop[w].todo
          /\ loop'[w].pc = "record"
      BY <1>a, <2>1 DEF LoopState
    <2>3. \A v \in Workers \ {w} : loop'[v] = loop[v]
      BY <1>a, <2>1
    <2>4. QED
      BY <1>0, <1>1, <1>3, <2>2, <2>3 DEF EachPartition, OwnsBatch
  <1>4. ASSUME NEW w \in Workers, loop[w].pc \in Busy, UNCHANGED owner,
               \A v \in Workers \ {w} : loop'[v] = loop[v],
               loop'[w].todo = loop[w].todo, loop'[w].pc # "poll",
               loop'[w].part = loop[w].part \/ loop'[w].pc = "each"
        PROVE  ExclusiveInv'
    BY <1>0, <1>1, <1>4 DEF OwnsBatch, Busy
  <1>5. ASSUME NEW w \in Workers, Dispatch(w) PROVE ExclusiveInv'
    <2>1. /\ \A v \in Workers \ {w} : loop'[v] = loop[v]
          /\ loop'[w].todo = loop[w].todo /\ loop'[w].pc # "poll"
          /\ loop'[w].part = loop[w].part
      BY <1>a, <1>5 DEF Dispatch, LoopState
    <2>2. QED
      BY <1>4, <1>5, <2>1 DEF Dispatch, Busy
  <1>s. ASSUME NEW w \in Workers, NEW err, loop[w].pc \in Busy, UNCHANGED owner,
               StepOver(w, err) \/ LeavePartition(w, err)
        PROVE  ExclusiveInv'
    <2>1. PICK part \in Partitions : loop[w].part = part
      BY <1>0, <1>s DEF TypeInv, BusyOnPartition
    <2>2. /\ \A v \in Workers \ {w} : loop'[v] = loop[v]
          /\ loop'[w].todo = loop[w].todo /\ loop'[w].pc \in {"record", "each"}
          /\ loop'[w].part = loop[w].part \/ loop'[w].pc = "each"
      BY <1>0, <1>s, <2>1, SteppedOver, LeftBehind
    <2>3. QED
      BY <1>4, <1>s, <2>2
  <1>6. ASSUME NEW w \in Workers, NEW ok \in BOOLEAN, HandleReturns(w, ok)
        PROVE  ExclusiveInv'
    <2>0. loop[w].pc \in Busy /\ UNCHANGED owner
      BY <1>6 DEF HandleReturns, Busy
    <2>1. CASE ok
      <3>1. /\ \A v \in Workers \ {w} : loop'[v] = loop[v]
            /\ loop'[w].todo = loop[w].todo /\ loop'[w].pc # "poll"
            /\ loop'[w].part = loop[w].part
        BY <1>a, <1>6, <2>1 DEF HandleReturns, LoopState
      <3>2. QED
        BY <1>4, <2>0, <3>1
    <2>2. CASE ~ok
      BY <1>s, <1>6, <2>0, <2>2 DEF HandleReturns
    <2>3. QED
      BY <2>1, <2>2
  <1>7. ASSUME NEW w \in Workers, CommitOk(w) \/ CommitFails(w) PROVE ExclusiveInv'
    <2>0. loop[w].pc \in Busy /\ loop[w].pc = "commit" /\ UNCHANGED owner
      BY <1>7 DEF CommitOk, CommitFails, Busy
    <2>1. CASE loop' = [loop EXCEPT ![w].attempt = @ + 1]
      <3>1. /\ \A v \in Workers \ {w} : loop'[v] = loop[v]
            /\ loop'[w].todo = loop[w].todo /\ loop'[w].pc # "poll"
            /\ loop'[w].part = loop[w].part
        BY <1>a, <2>0, <2>1 DEF LoopState
      <3>2. QED
        BY <1>4, <2>0, <3>1
    <2>2. CASE \E err \in BOOLEAN : StepOver(w, err) \/ LeavePartition(w, err)
      BY <1>s, <2>0, <2>2
    <2>3. QED
      BY <1>7, <2>1, <2>2 DEF CommitOk, CommitFails
  <1>8. ASSUME NEW w \in Workers, NEW r \in {Idle, Closing},
               loop' = [loop EXCEPT ![w] = r], UNCHANGED owner
        PROVE  ExclusiveInv'
    <2>1. loop'[w].todo = {} /\ loop'[w].pc \notin Busy
      BY <1>a, <1>8 DEF Idle, Closing, Busy
    <2>2. QED
      BY <1>a, <1>1, <1>8, <2>1
  <1>9. ASSUME NEW w \in Workers, Exit(w) PROVE ExclusiveInv'
    <2>1. loop'[w].todo = {} /\ loop'[w].pc \notin Busy
      BY <1>a, <1>9 DEF Exit, Stopped, Idle, Busy
    <2>2. \A v \in Workers \ {w} : loop'[v] = loop[v]
      BY <1>a, <1>9 DEF Exit
    <2>3. \A p \in Partitions : owner[p] # w => owner'[p] = owner[p]
      BY <1>9 DEF Exit
    <2>4. QED
      BY <1>0, <1>a, <2>1, <2>2, <2>3 DEF ExclusiveInv, OwnsBatch
  <1>10. ASSUME NEW w \in Workers,
                FetchFails(w) \/ EndFetch(w) \/ Crash(w) \/ Kill(w) \/ Restart(w)
         PROVE  ExclusiveInv'
    BY <1>8, <1>9, <1>10 DEF FetchFails, EndFetch, Crash, Kill, Restart
  <1>11. ASSUME NEW w \in Workers, NEW p \in Partitions, Assign(w, p)
         PROVE  ExclusiveInv'
    <2>1. owner[p] = None /\ loop' = loop /\ owner' = [owner EXCEPT ![p] = w]
      BY <1>11 DEF Assign
    <2>2. \A q \in Partitions : owner[q] \in Workers => owner'[q] = owner[q]
      BY <1>a, <2>1, LoopConstants
    <2>3. QED
      BY <1>0, <1>a, <2>1, <2>2 DEF ExclusiveInv, OwnsBatch
  <1>12. ASSUME NEW w \in Workers, NEW p \in Partitions, Revoke(w, p)
         PROVE  ExclusiveInv'
    <2>1. /\ owner[p] = w /\ loop' = loop /\ owner' = [owner EXCEPT ![p] = None]
          /\ loop[w].pc = "poll"
      BY <1>12 DEF Revoke, RebalanceAllowed
    <2>2. \A q \in Partitions : owner'[q] = owner[q] \/ owner[q] = w
      BY <1>a, <2>1
    <2>3. loop[w].todo = {}
      BY <1>0, <2>1 DEF OwnsBatch
    <2>4. QED
      BY <1>0, <1>a, <2>1, <2>2, <2>3 DEF ExclusiveInv, OwnsBatch, Busy
  <1>13. CASE UNCHANGED loopVars
    BY <1>0, <1>13 DEF loopVars, ExclusiveInv, OwnsBatch
  <1>14. ASSUME NEW w \in Workers, HandlerSteps(w) PROVE ExclusiveInv'
    BY <1>6, <1>14 DEF HandlerSteps
  <1>15. QED
    BY <1>2, <1>3, <1>5, <1>7, <1>10, <1>11, <1>12, <1>13, <1>14
       DEF LoopNext, LoopSteps, GroupSteps

\* Without evictions an instance keeps what it works on.
LEMMA ExclusiveStep ==
    ASSUME MayEvict = FALSE
    PROVE  ExclusiveInv /\ [LoopNext]_loopVars => ExclusiveInv'
  BY OwnedStep DEF Evict

\* An instance that has just started has no batch.
LEMMA ExclusiveInit == LoopInit => ExclusiveInv
  BY TypeInit DEF LoopInit, ExclusiveInv, OwnsBatch, Idle, Busy

\* Without evictions every instance always owns what it works on.
LEMMA ExclusiveAlways ==
    ASSUME MayEvict = FALSE
    PROVE  LoopSpec => []ExclusiveInv
  <1>1. LoopInit => ExclusiveInv
    BY ExclusiveInit
  <1>2. ExclusiveInv /\ [LoopNext]_loopVars => ExclusiveInv'
    BY ExclusiveStep
  <1>3. QED
    BY <1>1, <1>2, PTL DEF LoopSpec

\* Unless the broker evicts a busy member, no two instances handle records of
\* one partition at the same time.
THEOREM HandlersExclusive ==
    ASSUME MayEvict = FALSE
    PROVE  LoopSpec => []OneHandlerPerPartition
  <1>1. ExclusiveInv => OneHandlerPerPartition
    BY DEF ExclusiveInv, OwnsBatch, OneHandlerPerPartition
  <1>2. LoopSpec => []ExclusiveInv
    BY ExclusiveAlways
  <1>3. QED
    BY <1>1, <1>2, PTL

----------------------------------------------------------------------------
(* Without a fault, every record is handled at most once.                  *)

\* The instance has gone past the record, or is about to commit it.
Behind(w, p, o) ==
    \/ o < cursor[w][p]
    \/ loop[w].pc = "commit" /\ loop[w].part = p /\ o = cursor[w][p]

\* Every instance polls or handles, and no commit of it has failed.
Steady ==
    \A w \in Workers :
        loop[w].pc \notin {"closing", "stopped"} /\ ~loop[w].commitErr

\* The owner of the partition has gone past every record that was handled.
HandledBehind ==
    \A p \in Partitions, o \in Nat :
        <<p, o>> \in handled \cup errored =>
            \E w \in Workers : owner[p] = w /\ Behind(w, p, o)

OnceInv ==
    FetchedInv /\ (faults = 0 => Steady /\ OwnsBatch /\ HandledBehind)

\* As long as nothing failed, a partition that has an owner keeps it, and what
\* was handled stays so.
LEMMA QuietStep ==
    ASSUME OnceInv, [LoopNext]_loopVars, faults' = 0
    PROVE  /\ faults = 0 /\ ~Fault
           /\ \A p \in Partitions : owner[p] \in Workers => owner'[p] = owner[p]
           /\ handled \subseteq handled' /\ errored \subseteq errored'
  <1>a. /\ faults \in Nat /\ owner \in [Partitions -> Workers \cup {None}]
        /\ None \notin Workers
    BY LoopConstants DEF OnceInv, FetchedInv, MonotoneInv, TypeInv, LoopTypeOK
  <1>b. ~Fault
    BY <1>a DEF Fault
  <1>c. faults = 0 /\ handled \subseteq handled' /\ errored \subseteq errored'
    <2>1. CASE \E w \in Workers : LoopSteps(w) \/ HandlerSteps(w)
      BY <1>a, <1>b, <2>1 DEF LoopSteps, HandlerSteps, Poll, FetchFails, EachPartition,
         Dispatch, HandleReturns, CommitOk, CommitFails, EndFetch
    <2>2. CASE \E w \in Workers : GroupSteps(w) \/ Crash(w) \/ Kill(w)
      BY <1>b, <2>2 DEF GroupSteps, Restart, Assign, Revoke, Evict, Crash, Kill
    <2>3. QED
      BY <2>1, <2>2 DEF LoopNext, loopVars
  <1>d. \A p \in Partitions : owner[p] \in Workers => owner'[p] = owner[p]
    <2>1. CASE \E w \in Workers : LoopSteps(w) \/ HandlerSteps(w)
      BY <2>1 DEF LoopSteps, HandlerSteps, Poll, FetchFails, EachPartition,
         Dispatch, HandleReturns, CommitOk, CommitFails, EndFetch
    <2>2. ASSUME NEW w \in Workers, GroupSteps(w)
          PROVE  \A p \in Partitions : owner[p] \in Workers => owner'[p] = owner[p]
      BY <1>a, <1>b, <2>2 DEF GroupSteps, Restart, Assign, Revoke, Evict
    <2>3. ASSUME NEW w \in Workers, Crash(w) \/ Kill(w) PROVE FALSE
      BY <1>b, <1>c, <2>3 DEF Crash, Kill, OnceInv, Steady
    <2>4. QED
      BY <2>1, <2>2, <2>3 DEF LoopNext, loopVars
  <1>e. QED
    BY <1>b, <1>c, <1>d

\* As long as nothing failed, no step makes an instance meet a record again.
LEMMA OnceStep == OnceInv /\ [LoopNext]_loopVars => OnceInv'
  <1> DEFINE Goal == Steady' /\ HandledBehind'
  <1> SUFFICES ASSUME OnceInv, [LoopNext]_loopVars, faults' = 0
               PROVE  OwnsBatch' /\ Goal
    BY FetchedStep DEF OnceInv
  <1>0. FetchedInv /\ MonotoneInv /\ TypeInv
    BY DEF OnceInv, FetchedInv, MonotoneInv
  <1>a. /\ loop \in [Workers -> LoopState] /\ owner \in [Partitions -> Workers \cup {None}]
        /\ cursor \in [Workers -> [Partitions -> Nat]]
        /\ position \in [Workers -> [Partitions -> Nat]]
        /\ faults \in Nat
        /\ \A v \in Workers : loop[v].pc \in Busy => loop[v].part \in Partitions
    BY <1>0, LoopConstants DEF TypeInv, LoopTypeOK, BusyOnPartition
  <1>b. ~Fault /\ faults = 0
    BY QuietStep
  <1>d. Steady /\ OwnsBatch /\ HandledBehind
    BY <1>b DEF OnceInv
  <1>e. OwnsBatch'
    <2>1. ExclusiveInv /\ ~ \E w \in Workers, p \in Partitions : Evict(w, p)
      BY <1>0, <1>b, <1>d DEF ExclusiveInv, Evict
    <2>2. QED
      BY <2>1, OwnedStep DEF ExclusiveInv
  <1>1. ASSUME NEW w \in Workers, UNCHANGED owner,
               \A v \in Workers \ {w} : loop'[v] = loop[v] /\ cursor'[v] = cursor[v],
               loop'[w].pc \notin {"closing", "stopped"}, ~loop'[w].commitErr,
               \A p \in Partitions, o \in Nat :
                   owner[p] = w /\ Behind(w, p, o) => Behind(w, p, o)',
               \A p \in Partitions, o \in Nat :
                   <<p, o>> \in handled' \cup errored' =>
                       \/ <<p, o>> \in handled \cup errored
                       \/ owner[p] = w /\ Behind(w, p, o)'
        PROVE  Goal
    <2>1. Steady'
      BY <1>1, <1>d DEF Steady
    <2>2. ASSUME NEW p \in Partitions, NEW o \in Nat, <<p, o>> \in handled' \cup errored'
          PROVE  \E v \in Workers : owner'[p] = v /\ Behind(v, p, o)'
      <3>1. CASE owner[p] = w /\ Behind(w, p, o)'
        BY <1>1, <3>1
      <3>2. CASE <<p, o>> \in handled \cup errored
        <4>1. PICK v \in Workers : owner[p] = v /\ Behind(v, p, o)
          BY <1>d, <3>2 DEF HandledBehind
        <4>2. CASE v = w
          BY <1>1, <4>1, <4>2
        <4>3. CASE v # w
          BY <1>1, <4>1, <4>3 DEF Behind
        <4>4. QED
          BY <4>2, <4>3
      <3>3. QED
        BY <1>1, <2>2, <3>1, <3>2
    <2>3. QED
      BY <2>1, <2>2 DEF HandledBehind
  <1>2. ASSUME NEW w \in Workers, NEW r \in LoopState,
               loop' = [loop EXCEPT ![w] = r], loop[w].pc # "commit",
               r.pc \notin {"closing", "stopped"}, ~r.commitErr,
               UNCHANGED <<owner, cursor, handled, errored>>
        PROVE  Goal
    <2>1. /\ \A v \in Workers \ {w} : loop'[v] = loop[v] /\ cursor'[v] = cursor[v]
          /\ loop'[w] = r
      BY <1>a, <1>2
    <2>2. \A p \in Partitions, o \in Nat :
             owner[p] = w /\ Behind(w, p, o) => Behind(w, p, o)'
      BY <1>2 DEF Behind
    <2>3. QED
      BY <1>1, <1>2, <2>1, <2>2
  <1>3. ASSUME NEW w \in Workers, Poll(w) PROVE Goal
    <2>1. PICK ps \in SUBSET Fetchable(w) :
            loop' = [loop EXCEPT ![w] = [Idle EXCEPT !.pc = "each", !.todo = ps]]
      BY <1>3 DEF Poll
    <2> DEFINE r == [Idle EXCEPT !.pc = "each", !.todo = ps]
    <2>2. r \in LoopState /\ r.pc = "each" /\ ~r.commitErr
      BY Idling DEF LoopState, Pcs, Fetchable, Idle
    <2> HIDE DEF r
    <2>3. QED
      BY <1>2, <1>3, <2>1, <2>2 DEF Poll, r
  <1>4. ASSUME NEW w \in Workers, EachPartition(w) PROVE Goal
    <2>1. PICK p \in loop[w].todo :
            loop' = [loop EXCEPT ![w] = [loop[w] EXCEPT !.pc = "record", !.part = p,
                                                        !.todo = @ \ {p}]]
      BY <1>4 DEF EachPartition
    <2> DEFINE r == [loop[w] EXCEPT !.pc = "record", !.part = p, !.todo = @ \ {p}]
    <2>2. loop[w] \in LoopState /\ p \in Partitions
      BY <1>a, <2>1, LoopRecord
    <2>3. r \in LoopState /\ r.pc = "record" /\ r.commitErr = loop[w].commitErr
      BY <2>2, LoopRecord DEF LoopState, Pcs
    <2> HIDE DEF r
    <2>4. QED
      BY <1>2, <1>4, <1>d, <2>1, <2>3 DEF EachPartition, Steady, r
  <1>5. ASSUME NEW w \in Workers, Dispatch(w) PROVE Goal
    <2> DEFINE r == [loop[w] EXCEPT
                       !.pc = IF Current(w) \in NoHandler THEN "commit" ELSE "handle",
                       !.attempt = IF Current(w) \in NoHandler THEN 1 ELSE 0]
    <2>1. loop[w] \in LoopState /\ loop' = [loop EXCEPT ![w] = r]
      BY <1>a, <1>5 DEF Dispatch
    <2>2. /\ r.pc \in {"commit", "handle"} /\ r.commitErr = loop[w].commitErr
          /\ r \in LoopState
      <3>1. CASE Current(w) \in NoHandler
        BY <2>1, <3>1, Attempts DEF LoopState, Pcs
      <3>2. CASE Current(w) \notin NoHandler
        BY <2>1, <3>2, Attempts DEF LoopState, Pcs
      <3>3. QED
        BY <3>1, <3>2
    <2> HIDE DEF r
    <2>3. QED
      BY <1>2, <1>5, <1>d, <2>1, <2>2 DEF Dispatch, Steady
  <1>6. ASSUME NEW w \in Workers, NEW err, ~err, loop[w].pc \in Busy,
               StepOver(w, err) \/ LeavePartition(w, err), UNCHANGED owner,
               handled' \cup errored' \subseteq handled \cup errored \cup {Current(w)}
        PROVE  Goal
    <2> DEFINE p == loop[w].part
    <2>1. /\ p \in Partitions /\ owner[p] = w /\ cursor[w][p] < position[w][p]
          /\ loop[w] \in LoopState
      BY <1>0, <1>6, <1>a, <1>d DEF OwnsBatch, MonotoneInv, InBatch
    <2>2. /\ \A v \in Workers \ {w} : loop'[v] = loop[v] /\ cursor'[v] = cursor[v]
          /\ loop'[w].pc \in {"record", "each"} /\ ~loop'[w].commitErr
      BY <1>0, <1>6, <2>1, SteppedOver, LeftBehind
    <2>3. \A q \in Partitions :
             cursor'[w][q] = IF q = p THEN cursor'[w][p] ELSE cursor[w][q]
      BY <1>0, <1>6, <2>1, SteppedOver, LeftBehind
    <2>4. cursor'[w][p] > cursor[w][p] /\ cursor'[w][p] \in Nat
      BY <1>0, <1>6, <1>a, <2>1, SteppedOver, LeftBehind
    <2> HIDE DEF p
    <2>5. ASSUME NEW q \in Partitions, NEW o \in Nat,
                 Behind(w, q, o) \/ <<q, o>> = <<p, cursor[w][p]>>
          PROVE  Behind(w, q, o)'
      <3>1. PICK c \in Nat : c = cursor'[w][q]
        BY <1>a, <2>3, <2>4
      <3>2. cursor[w][q] \in Nat /\ cursor[w][q] <= c /\ (q = p => cursor[w][q] < c)
        BY <1>a, <2>1, <2>3, <2>4, <3>1
      <3>3. o < c
        BY <2>5, <3>2 DEF Behind, p
      <3>4. QED
        BY <3>1, <3>3 DEF Behind
    <2>6. Current(w) = <<p, cursor[w][p]>>
      BY DEF Current, p
    <2>7. \A q \in Partitions, o \in Nat :
             <<q, o>> \in handled' \cup errored' =>
                 \/ <<q, o>> \in handled \cup errored
                 \/ owner[q] = w /\ Behind(w, q, o)'
      BY <1>6, <2>1, <2>5, <2>6
    <2>8. QED
      BY <1>1, <1>6, <2>2, <2>5, <2>7
  <1>7. ASSUME NEW w \in Workers, NEW ok \in BOOLEAN, HandleReturns(w, ok) PROVE Goal
    <2>0. loop[w].pc = "handle" /\ loop[w].pc \in Busy /\ UNCHANGED owner
          /\ loop[w] \in LoopState /\ ~loop[w].commitErr
      BY <1>a, <1>d, <1>7 DEF HandleReturns, Busy, Steady
    <2>1. CASE ok
      <3>1. /\ loop' = [loop EXCEPT ![w] = [loop[w] EXCEPT !.pc = "commit", !.attempt = 1]]
            /\ handled' = handled \cup {Current(w)} /\ UNCHANGED <<cursor, errored>>
        BY <1>7, <2>1 DEF HandleReturns
      <3>2. /\ loop'[w].pc = "commit" /\ loop'[w].part = loop[w].part
            /\ loop'[w].commitErr = loop[w].commitErr
            /\ \A v \in Workers \ {w} : loop'[v] = loop[v] /\ cursor'[v] = cursor[v]
        BY <1>a, <2>0, <3>1 DEF LoopState
      <3>3. \A p \in Partitions, o \in Nat :
               Behind(w, p, o) \/ <<p, o>> = Current(w) => Behind(w, p, o)'
        BY <2>0, <3>1, <3>2 DEF Behind, Current
      <3>4. owner[loop[w].part] = w
        BY <1>d, <2>0 DEF OwnsBatch
      <3>5. \A p \in Partitions, o \in Nat : <<p, o>> = Current(w) => owner[p] = w
        BY <3>4 DEF Current
      <3>6. \A p \in Partitions, o \in Nat :
               <<p, o>> \in handled' \cup errored' =>
                   \/ <<p, o>> \in handled \cup errored
                   \/ owner[p] = w /\ Behind(w, p, o)'
        BY <3>1, <3>3, <3>5
      <3>7. QED
        BY <1>1, <2>0, <3>2, <3>3, <3>6
    <2>2. CASE ~ok
      <3>1. StepOver(w, loop[w].commitErr) /\ errored' = errored \cup {Current(w)}
            /\ handled' = handled
        BY <1>7, <2>2 DEF HandleReturns
      <3>2. QED
        BY <1>6, <2>0, <3>1
    <2>3. QED
      BY <2>1, <2>2
  <1>8. ASSUME NEW w \in Workers, CommitOk(w) PROVE Goal
    BY <1>6, <1>8 DEF CommitOk, Busy
  <1>9. ASSUME NEW w \in Workers, CommitFails(w) PROVE Goal
    BY <1>9, <1>b, <1>d DEF CommitFails, Accepts, OwnsBatch, Busy
  <1>10. ASSUME NEW w \in Workers, EndFetch(w) PROVE Goal
    BY <1>2, <1>10, <1>d, Idling DEF EndFetch, Steady, Idle
  <1>11. ASSUME NEW w \in Workers, NEW p \in Partitions, Assign(w, p) PROVE Goal
    <2>1. /\ owner[p] = None /\ owner' = [owner EXCEPT ![p] = w]
          /\ cursor' = [cursor EXCEPT ![w][p] = committed[p]]
          /\ UNCHANGED <<loop, handled, errored>>
      BY <1>11 DEF Assign
    <2>2. ASSUME NEW q \in Partitions, NEW o \in Nat, <<q, o>> \in handled \cup errored
          PROVE  \E v \in Workers : owner'[q] = v /\ Behind(v, q, o)'
      <3>1. PICK v \in Workers : owner[q] = v /\ Behind(v, q, o)
        BY <1>d, <2>2 DEF HandledBehind
      <3>2. q # p
        BY <2>1, <3>1, LoopConstants
      <3>3. owner'[q] = v /\ cursor'[v][q] = cursor[v][q]
        BY <1>a, <2>1, <3>1, <3>2
      <3>4. QED
        BY <2>1, <3>1, <3>3 DEF Behind
    <2>3. QED
      BY <1>d, <2>1, <2>2 DEF HandledBehind, Steady
  <1>12. ASSUME UNCHANGED loopVars PROVE Goal
    BY <1>12, <1>d DEF loopVars, Steady, HandledBehind, Behind
  <1>13. ASSUME NEW w \in Workers, HandlerSteps(w) PROVE Goal
    BY <1>7, <1>13 DEF HandlerSteps
  <1>14. ASSUME NEW w \in Workers, FetchFails(w) \/ Crash(w) \/ Kill(w) \/ Restart(w)
         PROVE  Goal
    BY <1>14, <1>b, <1>d DEF FetchFails, Crash, Kill, Restart, Steady
  <1>15. ASSUME NEW w \in Workers, NEW p \in Partitions, Revoke(w, p) \/ Evict(w, p)
         PROVE  Goal
    BY <1>15, <1>b DEF Revoke, Evict
  <1>16. Goal
    BY <1>3, <1>4, <1>5, <1>8, <1>9, <1>10, <1>11, <1>12, <1>13, <1>14, <1>15
       DEF LoopNext, LoopSteps, GroupSteps
  <1>17. QED
    BY <1>e, <1>16

\* A loop that starts has handled nothing and nothing has failed.
LEMMA OnceInit == LoopInit => OnceInv
  BY FetchedInit, ExclusiveInit DEF LoopInit, OnceInv, Steady, HandledBehind, Idle,
     ExclusiveInv

\* As long as no fault happened, an instance that calls Handle does so with a
\* record that no instance has handled before, however the partitions were
\* assigned and however many batches they were fetched in.
THEOREM HandledOnce ==
    LoopSpec => [](faults = 0 =>
                     \A w \in Workers : loop[w].pc = "handle" =>
                         Current(w) \notin handled \cup errored)
  <1> DEFINE Fresh == faults = 0 =>
                        \A w \in Workers : loop[w].pc = "handle" =>
                            Current(w) \notin handled \cup errored
  <1>1. OnceInv => Fresh
    <2> SUFFICES ASSUME OnceInv, faults = 0, NEW w \in Workers, loop[w].pc = "handle",
                        Current(w) \in handled \cup errored
                 PROVE  FALSE
      OBVIOUS
    <2>1. /\ loop[w].part \in Partitions /\ owner[loop[w].part] = w
          /\ cursor[w][loop[w].part] \in Nat
      BY DEF OnceInv, OwnsBatch, Busy, FetchedInv, MonotoneInv, TypeInv, LoopTypeOK,
         BusyOnPartition
    <2>2. Behind(w, loop[w].part, cursor[w][loop[w].part])
      BY <2>1 DEF OnceInv, HandledBehind, Current
    <2>3. QED
      BY <2>1, <2>2 DEF Behind
  <1>2. QED
    BY <1>1, OnceInit, OnceStep, PTL DEF LoopSpec
=============================================================================
