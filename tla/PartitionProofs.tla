----------------------------- MODULE PartitionProofs -----------------------------
(***************************************************************************)
(* Proofs about ConsumerLoop for a topic of one partition.  With several   *)
(* of them, the outcome of a later partition of a batch overwrites the     *)
(* commit error of an earlier one, and Run polls on past records that it   *)
(* left behind; with one, a failed commit stops Run, and nothing is ever   *)
(* skipped.                                                                *)
(***************************************************************************)
EXTENDS ConsumerLoopProofs

\* One partition, and a handler for every record.
SinglePartition ==
    /\ \A p, q \in Partitions : p = q
    /\ NoHandler = {}

\* Handle returns no error for the records of the topic.
AllReliable ==
    \A p \in Partitions : \A o \in 0 .. LogLen[p] - 1 : <<p, o>> \in Reliable

\* No record before o has been left behind.
AllDone(p, o) == \A i \in 0 .. o - 1 : <<p, i>> \in handled \cup errored

\* The commit error of a batch is known only at its end: the loop does not go
\* on after it.
StopsOnError ==
    \A w \in Workers :
        /\ loop[w].pc \in Busy => loop[w].todo = {} /\ ~ loop[w].commitErr
        /\ loop[w].pc = "each" /\ loop[w].commitErr => loop[w].todo = {}

\* An instance that may still commit something of the partition.
GoesOn(w, p) ==
    \/ loop[w].pc = "poll" /\ owner[p] = w
    \/ loop[w].pc = "each" /\ ~ loop[w].commitErr
    \/ loop[w].pc \in Busy

\* Such an instance has left nothing behind its cursor, and nobody has
\* committed anything that was left behind.
NothingLeft ==
    \A p \in Partitions :
        /\ AllDone(p, committed[p])
        /\ \A w \in Workers : GoesOn(w, p) => AllDone(p, cursor[w][p])

\* A process that has ended is no member of the group.
LeftGroup ==
    \A w \in Workers, p \in Partitions : loop[w].pc = "stopped" => owner[p] # w

SingleInv ==
    FetchedInv /\ LossInv /\ StopsOnError /\ NothingLeft /\ LeftGroup

\* The owner of the partition has committed all records before its cursor, and
\* all it has fetched when it is done with its batch.
UpToDate(w, p) ==
    owner[p] = w =>
        /\ loop[w].pc \in {"record", "handle"} => committed[p] = cursor[w][p]
        /\ loop[w].pc = "commit" => committed[p] \in {cursor[w][p], cursor[w][p] + 1}
        /\ loop[w].pc = "each" /\ ~ loop[w].commitErr =>
             /\ committed[p] = cursor[w][p]
             /\ loop[w].todo = {} => cursor[w][p] = position[w][p]
        /\ loop[w].pc = "poll" =>
             committed[p] = cursor[w][p] /\ cursor[w][p] = position[w][p]

UpToDateInv ==
    /\ SingleInv
    /\ errored = {}
    /\ \A w \in Workers, p \in Partitions : UpToDate(w, p)

----------------------------------------------------------------------------
(* Nothing is skipped.                                                     *)

\* The types of the state, as the proofs below use them.
LEMMA Types ==
    ASSUME TypeInv
    PROVE  /\ committed \in [Partitions -> Nat]
           /\ owner \in [Partitions -> Workers \cup {None}]
           /\ position \in [Workers -> [Partitions -> Nat]]
           /\ cursor \in [Workers -> [Partitions -> Nat]]
           /\ loop \in [Workers -> LoopState]
           /\ \A w \in Workers : loop[w].todo \subseteq Partitions
           /\ \A w \in Workers : loop[w].commitErr \in BOOLEAN
           /\ \A w \in Workers : loop[w].pc \in Busy => loop[w].part \in Partitions
  BY LoopRecord DEF TypeInv, LoopTypeOK, BusyOnPartition

\* It suffices to look at the instance that moves, and at the committed offset.
LEMMA SingleMoves ==
    ASSUME StopsOnError, NothingLeft, LeftGroup, NEW w \in Workers,
           \A v \in Workers \ {w} :
              /\ loop'[v] = loop[v] /\ cursor'[v] = cursor[v]
              /\ \A p \in Partitions : owner'[p] = v => owner[p] = v,
           handled \subseteq handled', errored \subseteq errored',
           \A p \in Partitions : AllDone(p, committed[p])',
           loop'[w].pc \in Busy => loop'[w].todo = {} /\ ~ loop'[w].commitErr,
           loop'[w].pc = "each" /\ loop'[w].commitErr => loop'[w].todo = {},
           \A p \in Partitions : GoesOn(w, p)' => AllDone(p, cursor[w][p])',
           \A p \in Partitions : loop'[w].pc = "stopped" => owner'[p] # w
    PROVE  StopsOnError' /\ NothingLeft' /\ LeftGroup'
  <1>1. StopsOnError'
    BY DEF StopsOnError
  <1>2. LeftGroup'
    BY DEF LeftGroup
  <1>3. NothingLeft'
    <2> SUFFICES ASSUME NEW p \in Partitions, NEW v \in Workers, GoesOn(v, p)'
                 PROVE  AllDone(p, cursor[v][p])'
      BY DEF NothingLeft
    <2>1. CASE v = w
      BY <2>1
    <2>2. CASE v # w
      BY <2>2 DEF NothingLeft, GoesOn, AllDone
    <2>3. QED
      BY <2>1, <2>2
  <1>4. QED
    BY <1>1, <1>2, <1>3

\* What is done stays done.
LEMMA StaysDone ==
    ASSUME NEW p, NEW o, AllDone(p, o), handled \subseteq handled', errored \subseteq errored'
    PROVE  \A i \in 0 .. o - 1 : <<p, i>> \in handled' \cup errored'
  BY DEF AllDone

\* With the record in hand, one more record is done.
LEMMA OneMoreDone ==
    ASSUME NEW p, NEW o \in Nat, AllDone(p, o),
           handled \subseteq handled', errored \subseteq errored',
           <<p, o>> \in handled' \cup errored'
    PROVE  \A i \in 0 .. (o + 1) - 1 : <<p, i>> \in handled' \cup errored'
  BY DEF AllDone

\* Going on with the next record keeps the invariant.
LEMMA SingleStepOver ==
    ASSUME SingleInv, SinglePartition, TypeInv, NEW w \in Workers,
           NEW err \in BOOLEAN, ~err, loop[w].pc \in Busy, StepOver(w, err),
           handled \subseteq handled', errored \subseteq errored',
           Current(w) \in handled' \cup errored', owner' = owner,
           committed' = committed \/ CommitOffset(w)
    PROVE  StopsOnError' /\ NothingLeft' /\ LeftGroup'
  <1> DEFINE p == loop[w].part
  <1>1. p \in Partitions /\ \A q \in Partitions : q = p
    BY Types DEF SinglePartition
  <1>2. loop[w].todo = {} /\ AllDone(p, cursor[w][p]) /\ AllDone(p, committed[p])
    BY <1>1 DEF SingleInv, StopsOnError, NothingLeft, GoesOn
  <1>3. /\ cursor'[w][p] = cursor[w][p] + 1 /\ cursor[w][p] \in Nat
        /\ loop'[w].pc \in {"record", "each"} /\ loop'[w].todo = {}
        /\ loop'[w].commitErr = FALSE
        /\ committed'[p] = committed[p] \/ committed'[p] = cursor[w][p] + 1
    <2>1. /\ committed'[p] = committed[p] \/ committed'[p] = cursor[w][p] + 1
          /\ cursor[w][p] \in Nat
      BY <1>1, Types DEF CommitOffset
    <2>2. QED
      BY <1>1, <1>2, <2>1, SteppedOver
  <1>4. \A i \in 0 .. (cursor[w][p] + 1) - 1 : <<p, i>> \in handled' \cup errored'
    BY <1>2, <1>3, OneMoreDone DEF Current
  <1>5. \A i \in 0 .. committed'[p] - 1 : <<p, i>> \in handled' \cup errored'
    BY <1>2, <1>3, <1>4, StaysDone
  <1>6. \A v \in Workers \ {w} :
           /\ loop'[v] = loop[v] /\ cursor'[v] = cursor[v]
           /\ \A q \in Partitions : owner'[q] = v => owner[q] = v
    BY Types DEF StepOver
  <1>7. /\ \A q \in Partitions : AllDone(q, committed[q])'
        /\ \A q \in Partitions : AllDone(q, cursor[w][q])'
    BY <1>1, <1>3, <1>4, <1>5 DEF AllDone
  <1>8. QED
    BY <1>3, <1>6, <1>7, SingleMoves DEF SingleInv, Busy

\* Every step of the loop keeps the invariant.
LEMMA SingleStep ==
    ASSUME SinglePartition
    PROVE  SingleInv /\ [LoopNext]_loopVars => SingleInv'
  <1> SUFFICES ASSUME SingleInv, [LoopNext]_loopVars PROVE SingleInv'
    OBVIOUS
  <1> DEFINE Goal == StopsOnError' /\ NothingLeft' /\ LeftGroup'
  <1>0. /\ FetchedInv /\ FetchedInv' /\ MonotoneInv /\ TypeInv /\ TypeInv'
        /\ StopsOnError /\ NothingLeft /\ LeftGroup /\ CommitPending
        /\ \A p, q \in Partitions : p = q
    BY FetchedStep DEF SingleInv, FetchedInv, MonotoneInv, LossInv, SinglePartition
  <1>a. /\ loop \in [Workers -> LoopState] /\ owner \in [Partitions -> Workers \cup {None}]
        /\ cursor \in [Workers -> [Partitions -> Nat]]
        /\ \A v \in Workers : loop[v].pc \in Busy => loop[v].part \in Partitions
        /\ \A v \in Workers : loop[v].todo \subseteq Partitions
        /\ \A v \in Workers : loop[v].commitErr \in BOOLEAN
    BY <1>0, Types
  <1>b. LossInv'
    BY LossStep DEF SingleInv
  <1>1. ASSUME NEW w \in Workers, UNCHANGED <<committed, cursor, handled, errored>>,
               \A v \in Workers \ {w} : loop'[v] = loop[v],
               \A v \in Workers, p \in Partitions : owner'[p] = v => owner[p] = v,
               loop'[w].pc \in Busy => loop'[w].todo = {} /\ ~ loop'[w].commitErr,
               loop'[w].pc = "each" /\ loop'[w].commitErr => loop'[w].todo = {},
               \A p \in Partitions : GoesOn(w, p)' => GoesOn(w, p),
               \A p \in Partitions : loop'[w].pc = "stopped" => owner'[p] # w
        PROVE  Goal
    <2>1. /\ \A p \in Partitions : AllDone(p, committed[p])'
          /\ \A p \in Partitions : GoesOn(w, p)' => AllDone(p, cursor[w][p])'
      BY <1>0, <1>1 DEF NothingLeft, AllDone
    <2>2. QED
      BY <1>0, <1>1, <2>1, SingleMoves
  <1>2. ASSUME NEW w \in Workers, Poll(w) PROVE Goal
    <2>1. PICK ps \in (SUBSET Fetchable(w)) \ {{}} :
            loop' = [loop EXCEPT ![w] = [Idle EXCEPT !.pc = "each", !.todo = ps]]
      BY <1>2 DEF Poll
    <2>2. loop'[w].pc = "each" /\ ~ loop'[w].commitErr
      BY <1>a, <2>1 DEF Idle
    <2>3. \A p \in Partitions : owner[p] = w
      BY <1>0, <2>1 DEF Fetchable
    <2>4. \A p \in Partitions : GoesOn(w, p)
      BY <1>2, <2>3 DEF Poll, GoesOn
    <2>5. UNCHANGED <<committed, cursor, handled, errored, owner>>
      BY <1>2 DEF Poll
    <2>6. \A v \in Workers \ {w} : loop'[v] = loop[v]
      BY <1>a, <2>1
    <2>7. QED
      BY <1>1, <2>2, <2>4, <2>5, <2>6 DEF Busy
  <1>3. ASSUME NEW w \in Workers, EachPartition(w) PROVE Goal
    <2>1. PICK p \in loop[w].todo :
            loop' = [loop EXCEPT ![w].pc = "record", ![w].part = p, ![w].todo = @ \ {p}]
      BY <1>3 DEF EachPartition
    <2>2. /\ loop'[w].pc = "record" /\ loop'[w].todo = loop[w].todo \ {p}
          /\ loop'[w].commitErr = loop[w].commitErr /\ loop[w].pc = "each"
      BY <1>3, <1>a, <2>1 DEF EachPartition, LoopState
    <2>3. loop'[w].todo = {} /\ ~ loop'[w].commitErr
      BY <1>0, <1>a, <2>1, <2>2 DEF StopsOnError
    <2>4. \A q \in Partitions : GoesOn(w, q)
      BY <2>2, <2>3 DEF GoesOn
    <2>5. UNCHANGED <<committed, cursor, handled, errored, owner>>
      BY <1>3 DEF EachPartition
    <2>6. \A v \in Workers \ {w} : loop'[v] = loop[v]
      BY <1>a, <2>1
    <2>7. QED
      BY <1>1, <2>2, <2>3, <2>4, <2>5, <2>6
  <1>4. ASSUME NEW w \in Workers, Dispatch(w) PROVE Goal
    <2>1. /\ loop'[w].pc \in {"handle", "commit"} /\ loop'[w].todo = loop[w].todo
          /\ loop'[w].commitErr = loop[w].commitErr /\ loop[w].pc = "record"
      BY <1>4, <1>a DEF Dispatch, LoopState
    <2>2. \A q \in Partitions : GoesOn(w, q)
      BY <2>1 DEF GoesOn, Busy
    <2>3. UNCHANGED <<committed, cursor, handled, errored, owner>>
      BY <1>4 DEF Dispatch
    <2>4. \A v \in Workers \ {w} : loop'[v] = loop[v]
      BY <1>4, <1>a DEF Dispatch
    <2>5. QED
      BY <1>0, <1>1, <2>1, <2>2, <2>3, <2>4 DEF StopsOnError, Busy
  <1>5. ASSUME NEW w \in Workers, NEW ok \in BOOLEAN, HandleReturns(w, ok) PROVE Goal
    <2>0. /\ loop[w].pc \in Busy /\ loop[w].pc = "handle" /\ owner' = owner
          /\ committed' = committed /\ handled \subseteq handled' /\ errored \subseteq errored'
      BY <1>5 DEF HandleReturns, Busy
    <2>1. CASE ok
      <3>1. /\ loop'[w].pc = "commit" /\ loop'[w].todo = loop[w].todo
            /\ loop'[w].commitErr = loop[w].commitErr
        BY <1>5, <1>a, <2>1 DEF HandleReturns, LoopState
      <3>2. /\ \A v \in Workers \ {w} : loop'[v] = loop[v]
            /\ cursor' = cursor
        BY <1>5, <1>a, <2>1 DEF HandleReturns
      <3>3. \A q \in Partitions : AllDone(q, committed[q]) /\ AllDone(q, cursor[w][q])
        BY <1>0, <2>0 DEF NothingLeft, GoesOn
      <3>4. \A q \in Partitions : AllDone(q, committed[q])' /\ AllDone(q, cursor[w][q])'
        BY <2>0, <3>2, <3>3 DEF AllDone
      <3>5. loop'[w].todo = {} /\ ~ loop'[w].commitErr
        BY <1>0, <2>0, <3>1 DEF StopsOnError
      <3>6. QED
        BY <1>0, <2>0, <3>1, <3>2, <3>4, <3>5, SingleMoves
    <2>2. CASE ~ok
      <3>1. StepOver(w, loop[w].commitErr) /\ Current(w) \in errored'
        BY <1>5, <2>2 DEF HandleReturns
      <3>2. loop[w].commitErr \in BOOLEAN /\ ~ loop[w].commitErr
        BY <1>0, <1>a, <2>0 DEF StopsOnError
      <3>3. QED
        BY <1>0, <2>0, <3>1, <3>2, SingleStepOver
    <2>3. QED
      BY <2>1, <2>2
  <1>6. ASSUME NEW w \in Workers, CommitOk(w) \/ CommitFails(w) PROVE Goal
    <2>0. /\ loop[w].pc \in Busy /\ loop[w].pc = "commit"
          /\ owner' = owner /\ handled' = handled /\ errored' = errored
          /\ committed' = committed \/ CommitOffset(w)
      BY <1>6 DEF CommitOk, CommitFails, Busy
    <2>1. Current(w) \in handled
      BY <1>0, <2>0 DEF CommitPending, SinglePartition
    <2>2. \/ StepOver(w, FALSE)
          \/ LeavePartition(w, TRUE)
          \/ loop' = [loop EXCEPT ![w].attempt = @ + 1] /\ cursor' = cursor
      BY <1>6 DEF CommitOk, CommitFails, SinglePartition
    <2>3. CASE StepOver(w, FALSE)
      BY <1>0, <2>0, <2>1, <2>3, SingleStepOver
    <2>4. \A q \in Partitions : AllDone(q, committed[q])'
      <3>1. PICK p \in Partitions : p = loop[w].part
        BY <1>a, <2>0
      <3>2. AllDone(p, cursor[w][p]) /\ AllDone(p, committed[p]) /\ cursor[w][p] \in Nat
        BY <1>0, <1>a, <2>0 DEF NothingLeft, GoesOn
      <3>3. \A i \in 0 .. (cursor[w][p] + 1) - 1 : <<p, i>> \in handled' \cup errored'
        BY <2>0, <2>1, <3>1, <3>2, OneMoreDone DEF Current
      <3>4. committed'[p] = committed[p] \/ committed'[p] = cursor[w][p] + 1
        BY <1>0, <2>0, <3>1, Types DEF CommitOffset
      <3>5. \A i \in 0 .. committed'[p] - 1 : <<p, i>> \in handled' \cup errored'
        BY <2>0, <3>2, <3>3, <3>4, StaysDone
      <3>6. QED
        BY <1>0, <3>5 DEF AllDone
    <2>5. CASE LeavePartition(w, TRUE)
      <3>1. /\ loop'[w].pc = "each" /\ loop'[w].commitErr = TRUE
            /\ loop'[w].todo = loop[w].todo
            /\ \A v \in Workers \ {w} : loop'[v] = loop[v] /\ cursor'[v] = cursor[v]
        BY <1>a, <2>5 DEF LeavePartition, LoopState
      <3>2. loop'[w].todo = {}
        BY <1>0, <2>0, <3>1 DEF StopsOnError
      <3>3. QED
        BY <1>0, <2>0, <2>4, <3>1, <3>2, SingleMoves DEF GoesOn, Busy
    <2>6. CASE loop' = [loop EXCEPT ![w].attempt = @ + 1] /\ cursor' = cursor
      <3>1. /\ loop'[w].pc = "commit" /\ loop'[w].commitErr = loop[w].commitErr
            /\ loop'[w].todo = loop[w].todo
            /\ \A v \in Workers \ {w} : loop'[v] = loop[v]
        BY <1>a, <2>0, <2>6 DEF LoopState
      <3>2. \A q \in Partitions : AllDone(q, cursor[w][q])'
        BY <1>0, <2>0, <2>6 DEF NothingLeft, GoesOn, AllDone
      <3>3. loop'[w].todo = {} /\ ~ loop'[w].commitErr
        BY <1>0, <2>0, <3>1 DEF StopsOnError
      <3>4. QED
        BY <1>0, <2>0, <2>4, <2>6, <3>1, <3>2, <3>3, SingleMoves
    <2>7. QED
      BY <2>2, <2>3, <2>5, <2>6
  <1>7. ASSUME NEW w \in Workers, NEW r \in {Idle, Closing, Stopped},
               loop' = [loop EXCEPT ![w] = r],
               UNCHANGED <<committed, cursor, handled, errored>>,
               \A v \in Workers, p \in Partitions : owner'[p] = v => owner[p] = v,
               \A p \in Partitions : r = Stopped => owner'[p] # w,
               \A p \in Partitions : r = Idle /\ owner'[p] = w => GoesOn(w, p)
        PROVE  Goal
    <2>1. /\ loop'[w] = r /\ \A v \in Workers \ {w} : loop'[v] = loop[v]
      BY <1>a, <1>7
    <2>2. /\ r.pc \in {"poll", "closing", "stopped"}
          /\ r.pc = "poll" => r = Idle
          /\ r.pc = "stopped" => r = Stopped
      <3>1. Idle.pc = "poll" /\ Closing.pc = "closing" /\ Stopped.pc = "stopped"
        BY DEF Idle, Closing, Stopped
      <3>2. QED
        BY <3>1
    <2>3. QED
      BY <1>1, <1>7, <2>1, <2>2 DEF Busy, GoesOn
  <1>8. ASSUME NEW w \in Workers,
               FetchFails(w) \/ EndFetch(w) \/ Crash(w) \/ Kill(w) \/ Restart(w)
        PROVE  Goal
    <2>0. Idle # Stopped /\ Closing # Stopped /\ Idle # Closing
      <3>1. Idle.pc = "poll" /\ Closing.pc = "closing" /\ Stopped.pc = "stopped"
        BY DEF Idle, Closing, Stopped
      <3>2. QED
        BY <3>1
    <2>1. CASE FetchFails(w)
      BY <1>7, <2>0, <2>1 DEF FetchFails
    <2>2. CASE EndFetch(w)
      <3>1. CASE loop[w].commitErr
        BY <1>7, <2>0, <2>2, <3>1 DEF EndFetch
      <3>2. CASE ~ loop[w].commitErr
        <4>1. \A p \in Partitions : GoesOn(w, p)
          BY <2>2, <3>2 DEF EndFetch, GoesOn
        <4>2. loop' = [loop EXCEPT ![w] = Idle]
              /\ UNCHANGED <<committed, cursor, handled, errored, owner>>
          BY <2>2, <3>2 DEF EndFetch
        <4>3. QED
          BY <1>7, <2>0, <4>1, <4>2
      <3>3. QED
        BY <3>1, <3>2
    <2>3. CASE Crash(w) \/ Kill(w)
      <3>1. /\ loop' = [loop EXCEPT ![w] = Stopped]
            /\ UNCHANGED <<committed, cursor, handled, errored>>
            /\ \A p \in Partitions : owner'[p] = IF owner[p] = w THEN None ELSE owner[p]
        BY <2>3 DEF Crash, Kill, Exit
      <3>2. /\ \A v \in Workers, p \in Partitions : owner'[p] = v => owner[p] = v
            /\ \A p \in Partitions : owner'[p] # w
        BY <3>1, LoopConstants
      <3>3. QED
        BY <1>7, <2>0, <3>1, <3>2
    <2>4. CASE Restart(w)
      <3>1. \A p \in Partitions : owner[p] # w
        BY <1>0, <2>4 DEF Restart, LeftGroup
      <3>2. QED
        BY <1>7, <2>0, <2>4, <3>1 DEF Restart
    <2>5. QED
      BY <1>8, <2>1, <2>2, <2>3, <2>4
  <1>9. ASSUME NEW w \in Workers, NEW p \in Partitions, Assign(w, p) PROVE Goal
    <2>1. /\ loop' = loop /\ loop[w].pc = "poll" /\ owner[p] = None
          /\ owner' = [owner EXCEPT ![p] = w]
          /\ UNCHANGED <<committed, handled, errored>>
          /\ cursor' = [cursor EXCEPT ![w][p] = committed[p]]
      BY <1>9 DEF Assign, RebalanceAllowed
    <2>2. /\ cursor'[w][p] = committed[p]
          /\ \A v \in Workers \ {w} : cursor'[v] = cursor[v]
          /\ \A v \in Workers \ {w} : \A q \in Partitions : owner'[q] = v => owner[q] = v
      BY <1>a, <2>1, LoopConstants
    <2>3. \A q \in Partitions : AllDone(q, committed[q])' /\ AllDone(q, cursor[w][q])'
      BY <1>0, <2>1, <2>2 DEF NothingLeft, AllDone
    <2>4. QED
      BY <1>0, <2>1, <2>2, <2>3, SingleMoves DEF Busy
  <1>10. ASSUME NEW w \in Workers, NEW p \in Partitions, Revoke(w, p) \/ Evict(w, p)
         PROVE  Goal
    <2>1. /\ UNCHANGED <<loop, committed, cursor, handled, errored>>
          /\ owner' = [owner EXCEPT ![p] = None]
      BY <1>10 DEF Revoke, Evict
    <2>2. \A v \in Workers, q \in Partitions : owner'[q] = v => owner[q] = v
      BY <1>a, <2>1, LoopConstants
    <2>3. \A q \in Partitions : GoesOn(w, q)' => GoesOn(w, q)
      BY <2>1, <2>2 DEF GoesOn
    <2>4. QED
      BY <1>0, <1>1, <2>1, <2>2, <2>3 DEF StopsOnError, LeftGroup
  <1>11. ASSUME UNCHANGED loopVars PROVE Goal
    <2>1. UNCHANGED <<loop, owner, committed, cursor, handled, errored>>
      BY <1>11 DEF loopVars
    <2>2. StopsOnError' /\ LeftGroup'
      BY <1>0, <2>1 DEF StopsOnError, LeftGroup
    <2>3. NothingLeft'
      BY <1>0, <2>1 DEF NothingLeft, AllDone, GoesOn
    <2>4. QED
      BY <2>2, <2>3
  <1>12. ASSUME NEW w \in Workers, HandlerSteps(w) PROVE Goal
    BY <1>5, <1>12 DEF HandlerSteps
  <1>13. ASSUME NEW w \in Workers, LoopSteps(w) PROVE Goal
    BY <1>2, <1>3, <1>4, <1>6, <1>8, <1>13 DEF LoopSteps
  <1>14. ASSUME NEW w \in Workers, GroupSteps(w) \/ Crash(w) \/ Kill(w) PROVE Goal
    BY <1>8, <1>9, <1>10, <1>14 DEF GroupSteps
  <1>15. Goal
    BY <1>11, <1>12, <1>13, <1>14 DEF LoopNext
  <1>16. QED
    BY <1>0, <1>b, <1>15 DEF SingleInv

\* A record below the committed offset was handled, or Handle returned an error
\* for it: nothing is lost to a failed commit, a crash or a rebalance.
NothingLost ==
    \A p \in Partitions : \A o \in 0 .. committed[p] - 1 : <<p, o>> \in handled \cup errored

\* A loop that starts has nothing to leave behind.
LEMMA SingleInit == LoopInit => SingleInv
  <1> SUFFICES ASSUME LoopInit PROVE SingleInv
    OBVIOUS
  <1>1. FetchedInv /\ LossInv
    BY FetchedInit, LossInit
  <1>2. \A w \in Workers : loop[w].pc = "poll"
    BY DEF LoopInit, Idle
  <1>3. StopsOnError /\ LeftGroup
    BY <1>2 DEF StopsOnError, LeftGroup, Busy
  <1>4. \A p \in Partitions : committed[p] = 0 /\ \A w \in Workers : cursor[w][p] = 0
    BY DEF LoopInit
  <1>5. NothingLeft
    <2>1. 0 .. 0 - 1 = {}
      OBVIOUS
    <2>2. \A p \in Partitions : AllDone(p, 0)
      BY <2>1 DEF AllDone
    <2>3. QED
      BY <1>4, <2>2 DEF NothingLeft
  <1>6. QED
    BY <1>1, <1>3, <1>5 DEF SingleInv

\* A topic of one partition keeps it in every reachable state.
LEMMA SingleAlways ==
    ASSUME SinglePartition
    PROVE  LoopSpec => []SingleInv
  <1>1. LoopInit => SingleInv
    BY SingleInit
  <1>2. SingleInv /\ [LoopNext]_loopVars => SingleInv'
    BY SingleStep
  <1>3. QED
    BY <1>1, <1>2, PTL DEF LoopSpec

\* With one partition, what is committed was handled or answered with an error.
LEMMA SingleLoses ==
    ASSUME SinglePartition
    PROVE  LoopSpec => []NothingLost
  <1>1. SingleInv => NothingLost
    BY DEF SingleInv, NothingLeft, AllDone, NothingLost
  <1>2. QED
    BY <1>1, SingleAlways, PTL

----------------------------------------------------------------------------
(* Run polls on only when it has committed everything.                     *)

\* It suffices to look at the instance that moves.
LEMMA MoverUpToDate ==
    ASSUME NEW w \in Workers, NEW p \in Partitions,
           \A v \in Workers : UpToDate(v, p),
           \A v \in Workers \ {w} :
              /\ loop'[v] = loop[v] /\ cursor'[v][p] = cursor[v][p]
              /\ position'[v][p] = position[v][p]
              /\ owner'[p] = v => owner[p] = v /\ committed'[p] = committed[p],
           UpToDate(w, p)'
    PROVE  \A v \in Workers : UpToDate(v, p)'
  BY DEF UpToDate

\* Every step of the loop keeps the owner up to date, unless Handle returns an
\* error.
LEMMA UpToDateStep ==
    ASSUME SinglePartition
    PROVE  UpToDateInv /\ [LoopNext]_loopVars /\ errored' = {} => UpToDateInv'
  <1> SUFFICES ASSUME UpToDateInv, [LoopNext]_loopVars, errored' = {} PROVE UpToDateInv'
    OBVIOUS
  <1> DEFINE Goal == errored' = {} /\ \A v \in Workers, q \in Partitions : UpToDate(v, q)'
  <1>0. /\ SingleInv /\ SingleInv' /\ TypeInv /\ MonotoneInv /\ WithinLog /\ errored = {}
        /\ StopsOnError /\ LeftGroup /\ NoHandler = {}
        /\ \A v \in Workers, q \in Partitions : UpToDate(v, q)
        /\ \A p, q \in Partitions : p = q
    BY SingleStep DEF UpToDateInv, SingleInv, FetchedInv, MonotoneInv, SinglePartition
  <1>a. /\ loop \in [Workers -> LoopState] /\ owner \in [Partitions -> Workers \cup {None}]
        /\ cursor \in [Workers -> [Partitions -> Nat]]
        /\ position \in [Workers -> [Partitions -> Nat]]
        /\ committed \in [Partitions -> Nat]
        /\ \A v \in Workers : loop[v].pc \in Busy => loop[v].part \in Partitions
        /\ \A v \in Workers : loop[v].todo \subseteq Partitions
    BY <1>0, Types
  <1>1. ASSUME NEW w \in Workers, errored' = errored,
               \A v \in Workers \ {w} :
                  /\ loop'[v] = loop[v] /\ cursor'[v] = cursor[v]
                  /\ position'[v] = position[v]
                  /\ \A q \in Partitions :
                       owner'[q] = v => owner[q] = v /\ committed'[q] = committed[q],
               \A q \in Partitions : UpToDate(w, q)'
        PROVE  Goal
    BY <1>0, <1>1, MoverUpToDate
  <1>2. ASSUME NEW w \in Workers, Poll(w) PROVE Goal
    <2>1. PICK ps \in (SUBSET Fetchable(w)) \ {{}} :
            /\ loop' = [loop EXCEPT ![w] = [Idle EXCEPT !.pc = "each", !.todo = ps]]
            /\ \E end \in [ps -> Ends] :
                 position' = [position EXCEPT ![w] =
                               [p \in Partitions |->
                                  IF p \in ps THEN end[p] ELSE position[w][p]]]
      BY <1>2 DEF Poll
    <2>2. loop'[w].pc = "each" /\ loop'[w].todo = ps /\ ps # {}
      BY <1>a, <2>1 DEF Idle
    <2>3. UNCHANGED <<committed, cursor, errored, owner>> /\ loop[w].pc = "poll"
      BY <1>2 DEF Poll
    <2>4. \A v \in Workers \ {w} : loop'[v] = loop[v] /\ position'[v] = position[v]
      BY <1>a, <2>1
    <2>5. \A q \in Partitions : UpToDate(w, q)'
      BY <1>0, <2>2, <2>3 DEF UpToDate
    <2>6. QED
      BY <1>1, <2>3, <2>4, <2>5
  <1>3. ASSUME NEW w \in Workers, EachPartition(w) PROVE Goal
    <2>1. PICK p \in loop[w].todo :
            loop' = [loop EXCEPT ![w].pc = "record", ![w].part = p, ![w].todo = @ \ {p}]
      BY <1>3 DEF EachPartition
    <2>2. loop'[w].pc = "record" /\ loop[w].pc = "each" /\ ~ loop[w].commitErr
      BY <1>0, <1>3, <1>a, <2>1 DEF EachPartition, LoopState, StopsOnError
    <2>3. UNCHANGED <<committed, cursor, position, errored, owner>>
      BY <1>3 DEF EachPartition
    <2>4. \A v \in Workers \ {w} : loop'[v] = loop[v]
      BY <1>a, <2>1
    <2>5. \A q \in Partitions : UpToDate(w, q)'
      BY <1>0, <2>2, <2>3 DEF UpToDate
    <2>6. QED
      BY <1>1, <2>3, <2>4, <2>5
  <1>4. ASSUME NEW w \in Workers, Dispatch(w) PROVE Goal
    <2>1. loop'[w].pc = "handle" /\ loop[w].pc = "record"
      BY <1>0, <1>4, <1>a DEF Dispatch, LoopState
    <2>2. UNCHANGED <<committed, cursor, position, errored, owner>>
      BY <1>4 DEF Dispatch
    <2>3. \A v \in Workers \ {w} : loop'[v] = loop[v]
      BY <1>a, <1>4 DEF Dispatch
    <2>4. \A q \in Partitions : UpToDate(w, q)'
      BY <1>0, <2>1, <2>2 DEF UpToDate
    <2>5. QED
      BY <1>1, <2>2, <2>3, <2>4
  <1>5. ASSUME NEW w \in Workers, HandlerSteps(w) PROVE Goal
    <2>1. loop[w].pc = "handle" /\ loop[w].part \in Partitions
      BY <1>a, <1>5 DEF HandlerSteps, Busy
    <2>2. PICK ok \in BOOLEAN : HandleReturns(w, ok)
      BY <1>5 DEF HandlerSteps
    <2>3. HandleReturns(w, TRUE)
      <3>1. ok
        BY <2>2 DEF HandleReturns
      <3>2. QED
        BY <2>2, <3>1
    <2>4. /\ loop' = [loop EXCEPT ![w].pc = "commit", ![w].attempt = 1]
          /\ UNCHANGED <<committed, cursor, position, errored, owner>>
      BY <2>3 DEF HandleReturns
    <2>5. loop'[w].pc = "commit"
      BY <1>a, <2>4 DEF LoopState
    <2>6. \A q \in Partitions : UpToDate(w, q)'
      BY <1>0, <2>1, <2>4, <2>5 DEF UpToDate
    <2>7. QED
      BY <1>1, <1>a, <2>4, <2>6
  <1>6. ASSUME NEW w \in Workers, CommitOk(w) PROVE Goal
    <2>0. PICK p \in Partitions : p = loop[w].part
      BY <1>6, <1>a DEF CommitOk, Busy
    <2>1. loop[w].pc = "commit" /\ owner[p] = w /\ loop[w].todo = {}
      BY <1>0, <1>6, <2>0 DEF CommitOk, Accepts, StopsOnError, Busy
    <2>2. /\ StepOver(w, FALSE) /\ UNCHANGED <<owner, position, errored>>
          /\ committed' = [committed EXCEPT ![p] = cursor[w][p] + 1]
      BY <1>0, <1>6, <2>0 DEF CommitOk, CommitOffset
    <2>3. /\ cursor'[w][p] = cursor[w][p] + 1 /\ committed'[p] = cursor[w][p] + 1
          /\ cursor[w][p] \in Nat /\ position[w][p] \in Nat
          /\ cursor[w][p] < position[w][p]
      BY <1>0, <1>a, <2>0, <2>1, <2>2 DEF StepOver, MonotoneInv, InBatch, Busy
    <2>4. IF cursor[w][p] + 1 < position[w][p]
          THEN loop'[w].pc = "record"
          ELSE loop'[w].pc = "each"
      BY <1>a, <2>0, <2>1, <2>2 DEF StepOver, LoopState
    <2>5. UpToDate(w, p)'
      BY <2>2, <2>3, <2>4 DEF UpToDate
    <2>6. \A v \in Workers \ {w} : loop'[v] = loop[v] /\ cursor'[v] = cursor[v]
      BY <1>a, <2>2 DEF StepOver
    <2>7. QED
      BY <1>0, <1>1, <2>1, <2>2, <2>5, <2>6
  <1>7. ASSUME NEW w \in Workers, CommitFails(w) PROVE Goal
    <2>0. PICK p \in Partitions : p = loop[w].part
      BY <1>7, <1>a DEF CommitFails, Busy
    <2>1. /\ loop[w].pc = "commit"
          /\ UNCHANGED <<owner, position, errored>>
          /\ (committed' = committed \/ (owner[p] = w /\ CommitOffset(w)))
      BY <1>7, <2>0 DEF CommitFails, Accepts
    <2>2. CASE LeavePartition(w, TRUE)
      <3>1. loop'[w].pc = "each" /\ loop'[w].commitErr = TRUE
        BY <1>a, <2>2 DEF LeavePartition, LoopState
      <3>2. \A v \in Workers \ {w} : loop'[v] = loop[v] /\ cursor'[v] = cursor[v]
        BY <1>a, <2>2 DEF LeavePartition
      <3>3. \A q \in Partitions : UpToDate(w, q)'
        BY <3>1 DEF UpToDate
      <3>4. QED
        BY <1>0, <1>1, <2>1, <3>2, <3>3
    <2>3. CASE loop' = [loop EXCEPT ![w].attempt = @ + 1] /\ cursor' = cursor
      <3>1. loop'[w].pc = "commit"
        BY <1>a, <2>1, <2>3 DEF LoopState
      <3>2. committed'[p] \in {committed[p], cursor[w][p] + 1}
        BY <1>a, <2>0, <2>1 DEF CommitOffset
      <3>3. UpToDate(w, p)'
        BY <1>0, <2>1, <2>3, <3>1, <3>2 DEF UpToDate
      <3>4. \A v \in Workers \ {w} : loop'[v] = loop[v]
        BY <1>a, <2>3
      <3>5. QED
        BY <1>0, <1>1, <2>1, <2>3, <3>3, <3>4
    <2>4. QED
      BY <1>7, <2>2, <2>3 DEF CommitFails
  <1>8. ASSUME NEW w \in Workers, EndFetch(w) PROVE Goal
    <2>1. /\ loop[w].pc = "each" /\ loop[w].todo = {}
          /\ UNCHANGED <<committed, cursor, position, errored, owner>>
          /\ loop' = [loop EXCEPT ![w] = IF loop[w].commitErr THEN Closing ELSE Idle]
      BY <1>8 DEF EndFetch
    <2>2. IF loop[w].commitErr THEN loop'[w].pc = "closing" ELSE loop'[w].pc = "poll"
      BY <1>a, <2>1 DEF Closing, Idle
    <2>3. \A q \in Partitions : UpToDate(w, q)'
      BY <1>0, <2>1, <2>2 DEF UpToDate
    <2>4. QED
      BY <1>1, <1>a, <2>1, <2>3
  <1>9. ASSUME NEW w \in Workers, FetchFails(w) \/ Crash(w) \/ Kill(w) \/ Restart(w)
        PROVE  Goal
    <2>1. /\ UNCHANGED <<committed, cursor, position, errored>>
          /\ \A v \in Workers \ {w} : loop'[v] = loop[v]
          /\ \A v \in Workers, q \in Partitions : owner'[q] = v => owner[q] = v
      BY <1>a, <1>9, LoopConstants DEF FetchFails, Crash, Kill, Restart, Exit
    <2>2. loop'[w].pc \in {"closing", "stopped"} \/ \A q \in Partitions : owner'[q] # w
      BY <1>0, <1>a, <1>9
         DEF FetchFails, Crash, Kill, Restart, Exit, Closing, Stopped, Idle, LeftGroup
    <2>3. \A q \in Partitions : UpToDate(w, q)'
      BY <2>2 DEF UpToDate
    <2>4. QED
      BY <1>1, <2>1, <2>3
  <1>10. ASSUME NEW w \in Workers, NEW p \in Partitions, Assign(w, p) PROVE Goal
    <2>1. /\ loop' = loop /\ loop[w].pc = "poll" /\ UNCHANGED <<committed, errored>>
          /\ owner' = [owner EXCEPT ![p] = w]
          /\ cursor' = [cursor EXCEPT ![w][p] = committed[p]]
          /\ position' = [position EXCEPT ![w][p] = committed[p]]
      BY <1>10 DEF Assign, RebalanceAllowed
    <2>2. /\ cursor'[w][p] = committed[p] /\ position'[w][p] = committed[p]
          /\ owner'[p] = w
          /\ \A v \in Workers \ {w} : cursor'[v] = cursor[v] /\ position'[v] = position[v]
      BY <1>a, <2>1
    <2>3. UpToDate(w, p)'
      BY <2>1, <2>2 DEF UpToDate
    <2>4. QED
      BY <1>0, <1>1, <2>1, <2>2, <2>3
  <1>11. ASSUME NEW w \in Workers, NEW p \in Partitions, Revoke(w, p) \/ Evict(w, p)
         PROVE  Goal
    <2>1. /\ UNCHANGED <<loop, committed, cursor, position, errored>>
          /\ owner' = [owner EXCEPT ![p] = None]
      BY <1>11 DEF Revoke, Evict
    <2>2. \A v \in Workers, q \in Partitions : owner'[q] = v => owner[q] = v
      BY <1>a, <2>1, LoopConstants
    <2>3. \A q \in Partitions : UpToDate(w, q)'
      BY <1>0, <2>1, <2>2 DEF UpToDate
    <2>4. QED
      BY <1>1, <2>1, <2>2, <2>3
  <1>12. ASSUME UNCHANGED loopVars PROVE Goal
    <2>1. UNCHANGED <<loop, owner, committed, cursor, position, errored>>
      BY <1>12 DEF loopVars
    <2>2. QED
      BY <1>0, <2>1 DEF UpToDate
  <1>13. Goal
    <2>1. CASE \E w \in Workers : LoopSteps(w)
      BY <1>2, <1>3, <1>4, <1>6, <1>7, <1>8, <1>9, <2>1 DEF LoopSteps
    <2>2. CASE \E w \in Workers : GroupSteps(w) \/ Crash(w) \/ Kill(w)
      BY <1>9, <1>10, <1>11, <2>2 DEF GroupSteps
    <2>3. QED
      BY <1>5, <1>12, <2>1, <2>2 DEF LoopNext
  <1>14. QED
    BY <1>0, <1>13 DEF UpToDateInv

\* Handle returns no error for a record that is in hand.
LEMMA NoErrors ==
    ASSUME AllReliable
    PROVE  UpToDateInv /\ [LoopNext]_loopVars => errored' = {}
  <1> SUFFICES ASSUME UpToDateInv, [LoopNext]_loopVars PROVE errored' = {}
    OBVIOUS
  <1>0. errored = {} /\ TypeInv /\ MonotoneInv /\ WithinLog
    BY DEF UpToDateInv, SingleInv, FetchedInv, MonotoneInv
  <1>1. ASSUME NEW w \in Workers, HandlerSteps(w) PROVE errored' = {}
    <2> DEFINE p == loop[w].part
               o == cursor[w][p]
    <2>1. p \in Partitions /\ loop[w].pc \in Busy
      BY <1>0, <1>1, Types DEF HandlerSteps, Busy
    <2>2. o \in Nat /\ position[w][p] \in Nat /\ o < position[w][p]
          /\ position[w][p] <= LogLen[p] /\ LogLen[p] \in Nat
      BY <1>0, <2>1, Types, LoopConstants DEF MonotoneInv, InBatch, WithinLog
    <2>3. o \in 0 .. LogLen[p] - 1
      BY <2>2
    <2>4. Current(w) \in Reliable
      BY <2>1, <2>3 DEF AllReliable, Current
    <2>5. QED
      BY <1>0, <1>1, <2>4 DEF HandlerSteps, HandleReturns
  <1>2. ASSUME NEW w \in Workers, LoopSteps(w) \/ GroupSteps(w) \/ Crash(w) \/ Kill(w)
        PROVE  errored' = errored
    BY <1>2 DEF LoopSteps, GroupSteps, Poll, FetchFails, EachPartition, Dispatch, CommitOk,
         CommitFails, EndFetch, Crash, Kill, Restart, Assign, Revoke, Evict
  <1>3. CASE UNCHANGED loopVars
    BY <1>0, <1>3 DEF loopVars
  <1>4. QED
    BY <1>0, <1>1, <1>2, <1>3 DEF LoopNext

\* A loop that starts is up to date.
LEMMA UpToDateInit == LoopInit => UpToDateInv
  <1> SUFFICES ASSUME LoopInit PROVE UpToDateInv
    OBVIOUS
  <1>1. SingleInv /\ errored = {}
    BY SingleInit DEF LoopInit
  <1>2. \A w \in Workers, p \in Partitions : UpToDate(w, p)
    BY LoopConstants DEF LoopInit, UpToDate
  <1>3. QED
    BY <1>1, <1>2 DEF UpToDateInv

\* The owner of the partition is up to date in every reachable state.
LEMMA UpToDateAlways ==
    ASSUME SinglePartition, AllReliable
    PROVE  LoopSpec => []UpToDateInv
  <1>1. LoopInit => UpToDateInv
    BY UpToDateInit
  <1>2. UpToDateInv /\ [LoopNext]_loopVars => UpToDateInv'
    BY UpToDateStep, NoErrors
  <1>3. QED
    BY <1>1, <1>2, PTL DEF LoopSpec

\* Of an owner that is up to date, both properties of the loop hold.
LEMMA UpToDateHolds == UpToDateInv => NoRecordSkipped /\ PollsOnlyWhenCommitted
  BY DEF UpToDateInv, SingleInv, NothingLeft, AllDone, NoRecordSkipped, UpToDate,
         PollsOnlyWhenCommitted

\* At-least-once: with one partition and a handler that returns no error, every
\* record below the committed offset was handled, whatever crashes, evictions,
\* rebalances and failed commits do.
THEOREM NothingSkipped ==
    ASSUME SinglePartition, AllReliable
    PROVE  LoopSpec => []NoRecordSkipped
  BY UpToDateHolds, UpToDateAlways, PTL

\* An instance of such a topic that polls again has committed all it fetched.
THEOREM PollsUpToDate ==
    ASSUME SinglePartition, AllReliable
    PROVE  LoopSpec => []PollsOnlyWhenCommitted
  BY UpToDateHolds, UpToDateAlways, PTL

----------------------------------------------------------------------------
(* What the loop has put behind it.                                        *)

\* Record o of p will not be handled again, unless an instance that has it
\* behind its cursor ends before it is committed.
Passed(p, o) ==
    \/ o < committed[p]
    \/ \E w \in Workers :
         /\ owner[p] = w /\ GoesOn(w, p)
         /\ o < cursor[w][p] \/ (loop[w].pc = "commit" /\ o = cursor[w][p])

\* The handler of w has just returned with record o of p.
Returned(w, p, o) ==
    /\ loop[w].pc = "handle" /\ Current(w) = <<p, o>>
    /\ loop'[w].pc \in {"commit", "record", "each"}

\* Only a handler that returns with a record puts it behind the loop.
LEMMA PassedStep ==
    ASSUME SinglePartition, SingleInv, [LoopNext]_loopVars,
           NEW p \in Partitions, NEW o \in Nat, Passed(p, o)'
    PROVE  Passed(p, o) \/ \E w \in Workers : Returned(w, p, o)
  <1> DEFINE Goal == Passed(p, o) \/ \E w \in Workers : Returned(w, p, o)
  <1>0. /\ TypeInv /\ StopsOnError /\ LeftGroup /\ NoHandler = {}
        /\ \A q \in Partitions : q = p
    BY DEF SingleInv, FetchedInv, MonotoneInv, SinglePartition
  <1>a. /\ loop \in [Workers -> LoopState] /\ owner \in [Partitions -> Workers \cup {None}]
        /\ cursor \in [Workers -> [Partitions -> Nat]]
        /\ committed \in [Partitions -> Nat]
        /\ \A v \in Workers : loop[v].pc \in Busy => loop[v].part = p
        /\ \A v \in Workers : loop[v].todo \subseteq Partitions
    BY <1>0, Types
  <1> DEFINE At(w) == /\ owner'[p] = w /\ GoesOn(w, p)'
                      /\ o < cursor'[w][p] \/ (loop'[w].pc = "commit" /\ o = cursor'[w][p])
  <1>1. ASSUME NEW w \in Workers,
               \A v \in Workers \ {w} :
                  loop'[v] = loop[v] /\ cursor'[v] = cursor[v] /\ (owner'[p] = v => owner[p] = v),
               o < committed'[p] => Goal, At(w) => Goal
        PROVE  Goal
    <2>1. o < committed'[p] \/ \E v \in Workers : At(v)
      BY DEF Passed
    <2>2. ASSUME NEW v \in Workers \ {w}, At(v) PROVE Goal
      BY <1>1, <2>2 DEF Passed, GoesOn
    <2>3. QED
      BY <1>1, <2>1, <2>2
  <1>2. ASSUME NEW w \in Workers, committed' = committed, cursor'[w] = cursor[w],
               \A v \in Workers \ {w} : loop'[v] = loop[v] /\ cursor'[v] = cursor[v],
               \A v \in Workers : owner'[p] = v => owner[p] = v,
               owner'[p] = w => (GoesOn(w, p)' => GoesOn(w, p)),
               loop'[w].pc # "commit"
        PROVE  Goal
    BY <1>1, <1>2 DEF Passed
  <1>3. ASSUME NEW w \in Workers, Poll(w) PROVE Goal
    <2>1. PICK ps \in (SUBSET Fetchable(w)) \ {{}} :
            loop' = [loop EXCEPT ![w] = [Idle EXCEPT !.pc = "each", !.todo = ps]]
      BY <1>3 DEF Poll
    <2>2. loop'[w].pc = "each" /\ \A v \in Workers \ {w} : loop'[v] = loop[v]
      BY <1>a, <2>1 DEF Idle
    <2>3. UNCHANGED <<committed, cursor, owner>> /\ loop[w].pc = "poll"
      BY <1>3 DEF Poll
    <2>4. owner'[p] = w => GoesOn(w, p)
      BY <2>3 DEF GoesOn
    <2>5. QED
      BY <1>2, <2>2, <2>3, <2>4
  <1>4. ASSUME NEW w \in Workers, EachPartition(w) PROVE Goal
    <2>1. PICK q \in loop[w].todo :
            loop' = [loop EXCEPT ![w].pc = "record", ![w].part = q, ![w].todo = @ \ {q}]
      BY <1>4 DEF EachPartition
    <2>2. /\ loop'[w].pc = "record" /\ \A v \in Workers \ {w} : loop'[v] = loop[v]
          /\ UNCHANGED <<committed, cursor, owner>>
      BY <1>4, <1>a, <2>1 DEF EachPartition, LoopState
    <2>3. GoesOn(w, p)
      BY <1>0, <1>4, <2>1 DEF EachPartition, StopsOnError, GoesOn
    <2>4. QED
      BY <1>2, <2>2, <2>3
  <1>5. ASSUME NEW w \in Workers, Dispatch(w) PROVE Goal
    <2>1. loop'[w].pc = "handle" /\ \A v \in Workers \ {w} : loop'[v] = loop[v]
      BY <1>0, <1>5, <1>a DEF Dispatch, LoopState
    <2>2. UNCHANGED <<committed, cursor, owner>> /\ GoesOn(w, p)
      BY <1>5 DEF Dispatch, GoesOn, Busy
    <2>3. QED
      BY <1>2, <2>1, <2>2
  <1>6. ASSUME NEW w \in Workers, NEW ok \in BOOLEAN, HandleReturns(w, ok) PROVE Goal
    <2>1. /\ loop[w].pc = "handle" /\ loop[w].part = p /\ GoesOn(w, p)
          /\ UNCHANGED <<committed, owner>> /\ Current(w) = <<p, cursor[w][p]>>
          /\ cursor[w][p] \in Nat
      BY <1>6, <1>a DEF HandleReturns, Busy, GoesOn, Current
    <2>2. /\ loop'[w].pc \in {"commit", "record", "each"}
          /\ cursor'[w][p] \in {cursor[w][p], cursor[w][p] + 1}
          /\ loop'[w].pc = "commit" => cursor'[w][p] = cursor[w][p]
          /\ \A v \in Workers \ {w} : loop'[v] = loop[v] /\ cursor'[v] = cursor[v]
      BY <1>6, <1>a, <2>1 DEF HandleReturns, StepOver, LoopState
    <2>3. At(w) => Goal
      <3>1. ASSUME At(w) PROVE o < cursor[w][p] \/ o = cursor[w][p]
        BY <2>1, <2>2, <3>1
      <3>2. QED
        BY <2>1, <2>2, <3>1 DEF Passed, Returned
    <2>4. QED
      BY <1>1, <2>1, <2>2, <2>3 DEF Passed
  <1>7. ASSUME NEW w \in Workers, CommitOk(w) \/ CommitFails(w) PROVE Goal
    <2>1. /\ loop[w].pc = "commit" /\ loop[w].part = p /\ GoesOn(w, p) /\ cursor[w][p] \in Nat
          /\ owner' = owner
          /\ (committed' = committed \/ (owner[p] = w /\ CommitOffset(w)))
      BY <1>7, <1>a DEF CommitOk, CommitFails, Accepts, Busy, GoesOn
    <2>2. o < committed'[p] => Goal
      <3>1. CASE committed' = committed
        BY <3>1 DEF Passed
      <3>2. CASE owner[p] = w /\ CommitOffset(w)
        <4>1. committed'[p] = cursor[w][p] + 1
          BY <1>a, <2>1, <3>2 DEF CommitOffset
        <4>2. ASSUME o < committed'[p] PROVE o < cursor[w][p] \/ o = cursor[w][p]
          BY <2>1, <4>1, <4>2
        <4>3. QED
          BY <2>1, <3>2, <4>2 DEF Passed
      <3>3. QED
        BY <2>1, <3>1, <3>2
    <2>3. At(w) => Goal
      <3>1. \/ LeavePartition(w, TRUE)
            \/ StepOver(w, FALSE)
            \/ loop' = [loop EXCEPT ![w].attempt = @ + 1] /\ cursor' = cursor
        BY <1>0, <1>7 DEF CommitOk, CommitFails
      <3>2. CASE LeavePartition(w, TRUE)
        <4>1. loop'[w].pc = "each" /\ loop'[w].commitErr = TRUE
          BY <1>a, <3>2 DEF LeavePartition, LoopState
        <4>2. ~ GoesOn(w, p)'
          BY <4>1 DEF GoesOn, Busy
        <4>3. QED
          BY <4>2
      <3>3. CASE ~ LeavePartition(w, TRUE)
        <4>1. cursor'[w][p] \in {cursor[w][p], cursor[w][p] + 1}
              /\ (loop'[w].pc = "commit" => cursor'[w][p] = cursor[w][p])
          <5>1. CASE StepOver(w, FALSE)
            <6>1. cursor'[w][p] = cursor[w][p] + 1
              BY <1>a, <2>1, <5>1 DEF StepOver
            <6>2. loop'[w].pc \in {"record", "each"}
              BY <1>a, <5>1 DEF StepOver, LoopState
            <6>3. QED
              BY <6>1, <6>2
          <5>2. QED
            BY <3>1, <3>3, <5>1
        <4>2. ASSUME At(w) PROVE o < cursor[w][p] \/ o = cursor[w][p]
          BY <2>1, <4>1, <4>2
        <4>3. QED
          BY <2>1, <4>2 DEF Passed
      <3>4. QED
        BY <3>2, <3>3
    <2>4. \A v \in Workers \ {w} : loop'[v] = loop[v] /\ cursor'[v] = cursor[v]
      <3>1. loop[w].part \in Partitions
        BY <1>7, <1>a DEF CommitOk, CommitFails, Busy
      <3>2. \/ \E err \in BOOLEAN : StepOver(w, err) \/ LeavePartition(w, err)
            \/ cursor' = cursor /\ loop' = [loop EXCEPT ![w].attempt = @ + 1]
        BY <1>7 DEF CommitOk, CommitFails
      <3>3. QED
        BY <1>0, <1>a, <3>1, <3>2, SteppedOver, LeftBehind
    <2>5. QED
      BY <1>1, <2>1, <2>2, <2>3, <2>4
  <1>8. ASSUME NEW w \in Workers, EndFetch(w) PROVE Goal
    <2>1. /\ loop[w].pc = "each" /\ UNCHANGED <<committed, cursor, owner>>
          /\ loop' = [loop EXCEPT ![w] = IF loop[w].commitErr THEN Closing ELSE Idle]
      BY <1>8 DEF EndFetch
    <2>2. IF loop[w].commitErr THEN loop'[w].pc = "closing" ELSE loop'[w].pc = "poll"
      BY <1>a, <2>1 DEF Closing, Idle
    <2>3. GoesOn(w, p)' => GoesOn(w, p)
      BY <2>1, <2>2 DEF GoesOn, Busy
    <2>4. QED
      BY <1>2, <1>a, <2>1, <2>2, <2>3
  <1>9. ASSUME NEW w \in Workers, FetchFails(w) \/ Crash(w) \/ Kill(w) \/ Restart(w)
        PROVE  Goal
    <2>1. /\ UNCHANGED <<committed, cursor>>
          /\ \A v \in Workers \ {w} : loop'[v] = loop[v]
          /\ \A v \in Workers : owner'[p] = v => owner[p] = v
      BY <1>a, <1>9, LoopConstants DEF FetchFails, Crash, Kill, Restart, Exit
    <2>2. loop'[w].pc \in {"closing", "stopped", "poll"}
      BY <1>a, <1>9
         DEF FetchFails, Crash, Kill, Restart, Exit, Closing, Stopped, Idle
    <2>3. loop'[w].pc = "poll" => owner'[p] # w
      BY <1>0, <1>a, <1>9
         DEF FetchFails, Crash, Kill, Restart, Exit, Closing, Stopped, Idle, LeftGroup
    <2>4. QED
      BY <1>2, <2>1, <2>2, <2>3 DEF GoesOn, Busy
  <1>10. ASSUME NEW w \in Workers, NEW q \in Partitions, Assign(w, q) PROVE Goal
    <2>1. /\ loop' = loop /\ loop[w].pc = "poll" /\ committed' = committed /\ q = p
          /\ owner' = [owner EXCEPT ![p] = w]
          /\ cursor' = [cursor EXCEPT ![w][p] = committed[p]]
      BY <1>0, <1>10 DEF Assign, RebalanceAllowed
    <2>2. /\ cursor'[w][p] = committed[p] /\ owner'[p] = w
          /\ \A v \in Workers \ {w} : cursor'[v] = cursor[v]
      BY <1>a, <2>1
    <2>3. QED
      BY <1>1, <2>1, <2>2 DEF Passed
  <1>11. ASSUME NEW w \in Workers, NEW q \in Partitions, Revoke(w, q) \/ Evict(w, q)
         PROVE  Goal
    <2>1. /\ UNCHANGED <<loop, committed, cursor>> /\ q = p
          /\ owner' = [owner EXCEPT ![p] = None]
      BY <1>0, <1>11 DEF Revoke, Evict
    <2>2. \A v \in Workers : owner'[p] # v
      BY <1>a, <2>1, LoopConstants
    <2>3. QED
      BY <1>1, <2>1, <2>2 DEF Passed
  <1>12. ASSUME UNCHANGED loopVars PROVE Goal
    <2>1. UNCHANGED <<loop, owner, committed, cursor>>
      BY <1>12 DEF loopVars
    <2>2. QED
      BY <2>1 DEF Passed, GoesOn
  <1>13. QED
    <2>1. CASE \E w \in Workers : LoopSteps(w)
      BY <1>3, <1>4, <1>5, <1>7, <1>8, <1>9, <2>1 DEF LoopSteps
    <2>2. CASE \E w \in Workers : GroupSteps(w) \/ Crash(w) \/ Kill(w)
      BY <1>9, <1>10, <1>11, <2>2 DEF GroupSteps
    <2>3. CASE \E w \in Workers : HandlerSteps(w)
      BY <1>6, <2>3 DEF HandlerSteps
    <2>4. QED
      BY <1>12, <2>1, <2>2, <2>3 DEF LoopNext

\* What is behind the loop is before the record that a handler is at work on,
\* and everything before that record is.
LEMMA PassedBelow ==
    ASSUME SinglePartition, SingleInv, ExclusiveInv,
           NEW w \in Workers, loop[w].pc = "handle", NEW p \in Partitions, NEW o \in Nat
    PROVE  Passed(p, o) <=> o < cursor[w][p]
  <1>1. /\ owner[p] = w /\ loop[w].part = p /\ GoesOn(w, p)
    BY Types DEF SinglePartition, ExclusiveInv, OwnsBatch, Busy, GoesOn, TypeInv
  <1>2. committed[p] <= cursor[w][p] /\ committed[p] \in Nat /\ cursor[w][p] \in Nat
    BY <1>1, Types DEF SingleInv, FetchedInv, MonotoneInv, BehindCursor
  <1>3. QED
    BY <1>1, <1>2 DEF Passed
----------------------------------------------------------------------------
(* What is behind the cursor is committed.                                 *)

\* Every record before o is committed, or Handle returned an error for it.
Covered(p, o) == \A i \in 0 .. o - 1 : i < committed[p] \/ <<p, i>> \in errored

\* An instance that goes on has committed what is behind its cursor.
CoveredInv ==
    /\ SingleInv
    /\ \A w \in Workers, p \in Partitions : GoesOn(w, p) => Covered(p, cursor[w][p])

\* What is covered stays so, ...
LEMMA StaysCovered ==
    ASSUME NEW p \in Partitions, NEW o \in Nat, Covered(p, o), TypeInv, TypeInv',
           committed'[p] >= committed[p], errored \subseteq errored'
    PROVE  \A i \in 0 .. o - 1 : i < committed'[p] \/ <<p, i>> \in errored'
  <1>1. committed[p] \in Nat /\ committed'[p] \in Nat
    BY DEF TypeInv, LoopTypeOK
  <1>2. ASSUME NEW i \in 0 .. o - 1, i < committed[p] PROVE i < committed'[p]
    BY <1>1, <1>2
  <1>3. QED
    BY <1>2 DEF Covered

\* ... and with the record in hand one more is.
LEMMA OneMoreCovered ==
    ASSUME NEW p \in Partitions, NEW o \in Nat, Covered(p, o), TypeInv, TypeInv',
           committed'[p] >= committed[p], errored \subseteq errored',
           o < committed'[p] \/ <<p, o>> \in errored'
    PROVE  \A i \in 0 .. (o + 1) - 1 : i < committed'[p] \/ <<p, i>> \in errored'
  <1>1. \A i \in 0 .. o - 1 : i < committed'[p] \/ <<p, i>> \in errored'
    BY StaysCovered
  <1>2. \A i \in 0 .. (o + 1) - 1 : i \in 0 .. o - 1 \/ i = o
    OBVIOUS
  <1>3. QED
    BY <1>1, <1>2

\* Only a commit or an error moves the cursor of an instance that goes on.
LEMMA CoveredStep ==
    ASSUME SinglePartition
    PROVE  CoveredInv /\ [LoopNext]_loopVars => CoveredInv'
  <1> SUFFICES ASSUME CoveredInv, [LoopNext]_loopVars PROVE CoveredInv'
    OBVIOUS
  <1> DEFINE At(w, p) == GoesOn(w, p)' => Covered(p, cursor[w][p])'
             Goal == \A w \in Workers, p \in Partitions : At(w, p)
  <1>0. /\ SingleInv /\ SingleInv' /\ MonotoneInv /\ TypeInv /\ TypeInv'
        /\ StopsOnError /\ LeftGroup /\ NoHandler = {}
        /\ \A w \in Workers, p \in Partitions : GoesOn(w, p) => Covered(p, cursor[w][p])
        /\ \A p, q \in Partitions : p = q
        /\ \A p \in Partitions : committed'[p] >= committed[p]
    BY SingleStep, MonotoneStep
       DEF CoveredInv, SingleInv, FetchedInv, MonotoneInv, SinglePartition
  <1>a. /\ loop \in [Workers -> LoopState] /\ owner \in [Partitions -> Workers \cup {None}]
        /\ cursor \in [Workers -> [Partitions -> Nat]]
        /\ \A v \in Workers : loop[v].pc \in Busy => loop[v].part \in Partitions
        /\ committed \in [Partitions -> Nat]
    BY <1>0, Types
  <1>k. ASSUME NEW v \in Workers, NEW p \in Partitions, cursor'[v] = cursor[v],
               errored \subseteq errored', GoesOn(v, p)' => GoesOn(v, p)
        PROVE  At(v, p)
    <2> SUFFICES ASSUME GoesOn(v, p)' PROVE Covered(p, cursor[v][p])'
      OBVIOUS
    <2>1. PICK o \in Nat : o = cursor[v][p]
      BY <1>a
    <2>2. Covered(p, o) /\ cursor'[v][p] = o
      BY <1>0, <1>k, <2>1
    <2>3. \A i \in 0 .. o - 1 : i < committed'[p] \/ <<p, i>> \in errored'
      BY <1>0, <1>k, <2>2, StaysCovered
    <2>4. QED
      BY <2>2, <2>3 DEF Covered
  <1>1. ASSUME NEW w \in Workers, errored \subseteq errored',
               \A v \in Workers \ {w} :
                  /\ loop'[v] = loop[v] /\ cursor'[v] = cursor[v]
                  /\ \A p \in Partitions : owner'[p] = v => owner[p] = v,
               \A p \in Partitions : At(w, p)
        PROVE  Goal
    <2>1. ASSUME NEW v \in Workers \ {w}, NEW p \in Partitions PROVE At(v, p)
      <3>1. GoesOn(v, p)' => GoesOn(v, p)
        BY <1>1 DEF GoesOn
      <3>2. QED
        BY <1>1, <1>k, <3>1
    <2>2. QED
      BY <1>1, <2>1
  <1>2. ASSUME NEW w \in Workers, cursor' = cursor, errored' = errored,
               \A v \in Workers \ {w} : loop'[v] = loop[v],
               \A v \in Workers, p \in Partitions : owner'[p] = v => owner[p] = v,
               \A p \in Partitions : GoesOn(w, p)' => GoesOn(w, p)
        PROVE  Goal
    <2>1. \A p \in Partitions : At(w, p)
      BY <1>2, <1>k
    <2>2. QED
      BY <1>1, <1>2, <2>1
  <1>3. ASSUME NEW w \in Workers, Poll(w) PROVE Goal
    <2>1. PICK ps \in (SUBSET Fetchable(w)) \ {{}} :
            loop' = [loop EXCEPT ![w] = [Idle EXCEPT !.pc = "each", !.todo = ps]]
      BY <1>3 DEF Poll
    <2>2. \A p \in Partitions : owner[p] = w
      BY <1>0, <2>1 DEF Fetchable
    <2>3. /\ loop[w].pc = "poll" /\ UNCHANGED <<cursor, errored, owner>>
          /\ \A v \in Workers \ {w} : loop'[v] = loop[v]
      BY <1>3, <1>a, <2>1 DEF Poll
    <2>4. QED
      BY <1>2, <2>2, <2>3 DEF GoesOn
  <1>4. ASSUME NEW w \in Workers, EachPartition(w) PROVE Goal
    <2>1. PICK p \in loop[w].todo :
            loop' = [loop EXCEPT ![w].pc = "record", ![w].part = p, ![w].todo = @ \ {p}]
      BY <1>4 DEF EachPartition
    <2>2. loop[w].pc = "each" /\ ~ loop[w].commitErr
      BY <1>0, <1>4, <2>1 DEF EachPartition, StopsOnError
    <2>3. /\ UNCHANGED <<cursor, errored, owner>>
          /\ \A v \in Workers \ {w} : loop'[v] = loop[v]
      BY <1>4, <1>a, <2>1 DEF EachPartition
    <2>4. QED
      BY <1>2, <2>2, <2>3 DEF GoesOn
  <1>5. ASSUME NEW w \in Workers, Dispatch(w) PROVE Goal
    <2>1. /\ UNCHANGED <<cursor, errored, owner>> /\ loop[w].pc = "record"
          /\ \A v \in Workers \ {w} : loop'[v] = loop[v]
      BY <1>5, <1>a DEF Dispatch
    <2>2. QED
      BY <1>2, <2>1 DEF GoesOn, Busy
  <1>6. ASSUME NEW w \in Workers, NEW ok \in BOOLEAN, HandleReturns(w, ok) PROVE Goal
    <2>1. PICK p \in Partitions : p = loop[w].part
      BY <1>6, <1>a DEF HandleReturns, Busy
    <2>2. /\ loop[w].pc = "handle" /\ GoesOn(w, p) /\ owner' = owner
          /\ cursor[w][p] \in Nat /\ Covered(p, cursor[w][p])
          /\ \A v \in Workers \ {w} : loop'[v] = loop[v] /\ cursor'[v] = cursor[v]
          /\ errored \subseteq errored'
      BY <1>0, <1>6, <1>a, <2>1 DEF HandleReturns, StepOver, GoesOn, Busy
    <2>3. CASE ok
      <3>1. UNCHANGED <<cursor, errored>>
        BY <1>6, <2>3 DEF HandleReturns
      <3>2. QED
        BY <1>0, <1>2, <2>2, <3>1 DEF GoesOn, Busy
    <2>4. CASE ~ ok
      <3>1. /\ <<p, cursor[w][p]>> \in errored' /\ cursor'[w][p] = cursor[w][p] + 1
        BY <1>6, <1>a, <2>1, <2>4 DEF HandleReturns, StepOver, Current
      <3>2. At(w, p)
        BY <1>0, <2>2, <3>1, OneMoreCovered DEF Covered
      <3>3. \A q \in Partitions : At(w, q)
        BY <1>0, <3>2
      <3>4. QED
        BY <1>1, <2>2, <3>3
    <2>5. QED
      BY <2>3, <2>4
  <1>7. ASSUME NEW w \in Workers, CommitOk(w) \/ CommitFails(w) PROVE Goal
    <2>1. PICK p \in Partitions : p = loop[w].part
      BY <1>7, <1>a DEF CommitOk, CommitFails, Busy
    <2>2. /\ loop[w].pc = "commit" /\ GoesOn(w, p) /\ owner' = owner /\ errored' = errored
          /\ cursor[w][p] \in Nat /\ Covered(p, cursor[w][p])
          /\ \A v \in Workers \ {w} : loop'[v] = loop[v] /\ cursor'[v] = cursor[v]
      <3>1. /\ loop[w].pc = "commit" /\ GoesOn(w, p) /\ owner' = owner /\ errored' = errored
            /\ cursor[w][p] \in Nat
        BY <1>7, <1>a, <2>1 DEF CommitOk, CommitFails, GoesOn, Busy
      <3>2. \/ StepOver(w, FALSE) \/ LeavePartition(w, FALSE) \/ LeavePartition(w, TRUE)
            \/ cursor' = cursor /\ loop' = [loop EXCEPT ![w].attempt = @ + 1]
        BY <1>7 DEF CommitOk, CommitFails
      <3>3. \A v \in Workers \ {w} : loop'[v] = loop[v] /\ cursor'[v] = cursor[v]
        BY <1>0, <1>a, <2>1, <3>2, SteppedOver, LeftBehind
      <3>4. QED
        BY <1>0, <3>1, <3>3
    <2>3. CASE CommitOk(w)
      <3>1. StepOver(w, FALSE) /\ committed'[p] = cursor[w][p] + 1
        BY <1>0, <1>a, <2>1, <2>3 DEF CommitOk, CommitOffset
      <3>2. cursor'[w][p] = cursor[w][p] + 1 /\ cursor[w][p] < committed'[p]
        BY <1>a, <2>1, <2>2, <3>1 DEF StepOver
      <3>3. At(w, p)
        BY <1>0, <2>2, <3>2, OneMoreCovered DEF Covered
      <3>4. \A q \in Partitions : At(w, q)
        BY <1>0, <3>3
      <3>5. QED
        BY <1>1, <2>2, <3>4
    <2>4. CASE CommitFails(w) /\ loop[w].attempt < MaxAttempts
      <3>1. cursor' = cursor
        BY <2>4 DEF CommitFails
      <3>2. \A q \in Partitions : GoesOn(w, q)
        BY <2>2 DEF GoesOn, Busy
      <3>3. QED
        BY <1>2, <2>2, <3>1, <3>2
    <2>5. CASE CommitFails(w) /\ ~ (loop[w].attempt < MaxAttempts)
      <3>1. LeavePartition(w, TRUE)
        BY <2>5 DEF CommitFails
      <3>2. loop'[w].pc = "each" /\ loop'[w].commitErr
        BY <1>a, <3>1 DEF LeavePartition, LoopState
      <3>3. \A q \in Partitions : ~ GoesOn(w, q)'
        BY <3>2 DEF GoesOn, Busy
      <3>4. QED
        BY <1>1, <2>2, <3>3
    <2>6. QED
      BY <1>7, <2>3, <2>4, <2>5
  <1>8. ASSUME NEW w \in Workers, EndFetch(w) PROVE Goal
    <2>1. /\ loop[w].pc = "each" /\ UNCHANGED <<cursor, errored, owner>>
          /\ loop' = [loop EXCEPT ![w] = IF loop[w].commitErr THEN Closing ELSE Idle]
      BY <1>8 DEF EndFetch
    <2>2. IF loop[w].commitErr THEN loop'[w].pc = "closing" ELSE loop'[w].pc = "poll"
      BY <1>a, <2>1 DEF Closing, Idle
    <2>3. \A p \in Partitions : GoesOn(w, p)' => GoesOn(w, p)
      BY <2>1, <2>2 DEF GoesOn, Busy
    <2>4. \A v \in Workers \ {w} : loop'[v] = loop[v]
      BY <1>a, <2>1
    <2>5. QED
      BY <1>2, <2>1, <2>3, <2>4
  <1>9. ASSUME NEW w \in Workers, FetchFails(w) \/ Crash(w) \/ Kill(w) \/ Restart(w)
        PROVE  Goal
    <2>1. /\ UNCHANGED <<cursor, errored>>
          /\ \A v \in Workers \ {w} : loop'[v] = loop[v]
          /\ \A v \in Workers, p \in Partitions : owner'[p] = v => owner[p] = v
      BY <1>a, <1>9, LoopConstants DEF FetchFails, Crash, Kill, Restart, Exit
    <2>2. loop'[w].pc \in {"closing", "stopped", "poll"}
      BY <1>a, <1>9 DEF FetchFails, Crash, Kill, Restart, Exit, Closing, Stopped, Idle
    <2>3. \A p \in Partitions : loop'[w].pc = "poll" => owner'[p] # w
      BY <1>0, <1>a, <1>9
         DEF FetchFails, Crash, Kill, Restart, Exit, Closing, Stopped, Idle, LeftGroup
    <2>4. \A p \in Partitions : ~ GoesOn(w, p)'
      BY <2>2, <2>3 DEF GoesOn, Busy
    <2>5. QED
      BY <1>2, <2>1, <2>4
  <1>10. ASSUME NEW w \in Workers, NEW q \in Partitions, Assign(w, q) PROVE Goal
    <2>1. /\ loop' = loop /\ committed' = committed /\ errored' = errored
          /\ owner' = [owner EXCEPT ![q] = w]
          /\ cursor' = [cursor EXCEPT ![w][q] = committed[q]]
      BY <1>10 DEF Assign
    <2>2. /\ cursor'[w][q] = committed[q]
          /\ \A v \in Workers \ {w} : cursor'[v] = cursor[v]
          /\ \A v \in Workers \ {w}, p \in Partitions : owner'[p] = v => owner[p] = v
      BY <1>a, <2>1
    <2>3. \A i \in 0 .. committed[q] - 1 : i < committed'[q]
      BY <1>a, <2>1
    <2>4. At(w, q)
      BY <2>1, <2>2, <2>3 DEF Covered
    <2>5. \A p \in Partitions : At(w, p)
      BY <1>0, <2>4
    <2>6. QED
      BY <1>1, <2>1, <2>2, <2>5
  <1>11. ASSUME NEW w \in Workers, NEW q \in Partitions, Revoke(w, q) \/ Evict(w, q)
         PROVE  Goal
    <2>1. /\ UNCHANGED <<loop, cursor, errored>> /\ owner' = [owner EXCEPT ![q] = None]
      BY <1>11 DEF Revoke, Evict
    <2>2. \A v \in Workers, p \in Partitions : owner'[p] = v => owner[p] = v
      BY <1>a, <2>1, LoopConstants
    <2>3. \A p \in Partitions : GoesOn(w, p)' => GoesOn(w, p)
      BY <2>1, <2>2 DEF GoesOn
    <2>4. QED
      BY <1>2, <2>1, <2>2, <2>3
  <1>12. ASSUME UNCHANGED loopVars PROVE Goal
    <2>1. UNCHANGED <<loop, owner, committed, cursor, errored>>
      BY <1>12 DEF loopVars
    <2>2. QED
      BY <1>0, <2>1 DEF Covered, GoesOn
  <1>13. Goal
    <2> HIDE DEF Goal
    <2>1. ASSUME NEW w \in Workers, LoopSteps(w) PROVE Goal
      BY <1>3, <1>4, <1>5, <1>7, <1>8, <1>9, <2>1 DEF LoopSteps
    <2>2. ASSUME NEW w \in Workers, GroupSteps(w) \/ Crash(w) \/ Kill(w) PROVE Goal
      BY <1>9, <1>10, <1>11, <2>2 DEF GroupSteps
    <2>3. ASSUME NEW w \in Workers, HandlerSteps(w) PROVE Goal
      BY <1>6, <2>3 DEF HandlerSteps
    <2>4. QED
      BY <1>12, <2>1, <2>2, <2>3 DEF LoopNext
  <1>14. QED
    BY <1>0, <1>13 DEF CoveredInv

\* A loop that starts has nothing behind its cursor.
LEMMA CoveredInit == LoopInit => CoveredInv
  <1> SUFFICES ASSUME LoopInit PROVE CoveredInv
    OBVIOUS
  <1>1. \A w \in Workers, p \in Partitions : cursor[w][p] = 0
    BY DEF LoopInit
  <1>2. \A p \in Partitions : Covered(p, 0)
    BY DEF Covered
  <1>3. QED
    BY <1>1, <1>2, SingleInit DEF CoveredInv
=============================================================================
