---------------------------- MODULE LifecycleProofs ----------------------------
(***************************************************************************)
(* Proofs about the life of the processor instances: retry ends in time    *)
(* and waits for a Scylla that can be reached, and an instance that runs   *)
(* has its tables and configs its handlers can work with.                  *)
(***************************************************************************)
EXTENDS Lifecycle, SequenceTheorems, TLAPS

Pcs == {"stopped", "attempt", "sleep", "connect", "running", "closing"}

\* What can be left to do of the statements.
Lists == Seq(Creates \cup {"session"})

States == [pc : Pcs, elapsed : Nat, down : Int, left : Nat, backoff : Nat,
           next : Lists, cancelled : BOOLEAN, held : BOOLEAN]

\* The backoffs that retry goes through.
Backoffs == {b \in 1 .. MaxBackoff : \E i \in Nat : b = i * Backoff}

\* An instance that retries: how long its retry can last, and since when the
\* attempt may fail.  Outside of retry nothing has elapsed.
TimeOK(p) ==
    /\ p.pc \notin {"attempt", "sleep"} => p.elapsed = 0
    /\ p.pc \in {"attempt", "sleep"} => p.backoff \in Backoffs
    /\ p.pc = "sleep" => p.elapsed + p.left <= MaxDur + MaxBackoff
    /\ p.pc = "attempt" =>
         /\ p.left <= AttemptTime
         /\ p.elapsed + p.left <= MaxDur + MaxBackoff + AttemptTime
         /\ p.down = -1 \/ p.down >= p.elapsed + p.left - AttemptTime

TimeInv == proc \in [Workers -> States] /\ \A w \in Workers : TimeOK(proc[w])

----------------------------------------------------------------------------
(* Time.                                                                   *)

Enter(p, pc, left, next, down) ==
    [p EXCEPT !.pc = pc, !.left = left, !.next = next, !.down = down]

\* An instance enters an attempt, or a backoff.
LEMMA Enters ==
    ASSUME NEW p \in States, NEW pc \in Pcs, NEW left \in Nat, NEW next \in Lists,
           NEW down \in Int, NEW q, q = Enter(p, pc, left, next, down)
    PROVE  /\ q \in States
           /\ q.pc = pc /\ q.left = left /\ q.next = next /\ q.down = down
           /\ q.elapsed = p.elapsed /\ q.backoff = p.backoff /\ q.cancelled = p.cancelled
  <1>1. PICK a : a = [p EXCEPT !.pc = pc, !.left = left]
    OBVIOUS
  <1>2. PICK b : b = [a EXCEPT !.next = next, !.down = down]
    OBVIOUS
  <1>3. /\ a \in States /\ a.pc = pc /\ a.left = left
        /\ a.elapsed = p.elapsed /\ a.backoff = p.backoff /\ a.cancelled = p.cancelled
    BY <1>1 DEF States
  <1>4. /\ b \in States /\ b.next = next /\ b.down = down /\ b.pc = a.pc /\ b.left = a.left
        /\ b.elapsed = a.elapsed /\ b.backoff = a.backoff /\ b.cancelled = a.cancelled
    BY <1>2, <1>3 DEF States
  <1>5. q = b
    BY <1>1, <1>2 DEF Enter
  <1>6. QED
    BY <1>3, <1>4, <1>5

Elapse(p, elapsed, left, down) ==
    [p EXCEPT !.elapsed = elapsed, !.left = left, !.down = down]

\* An instance that retries lets time pass.
LEMMA Elapses ==
    ASSUME NEW p \in States, NEW elapsed \in Nat, NEW left \in Nat, NEW down \in Int, NEW q,
           q = Elapse(p, elapsed, left, down)
    PROVE  /\ q \in States
           /\ q.elapsed = elapsed /\ q.left = left /\ q.down = down
           /\ q.pc = p.pc /\ q.backoff = p.backoff /\ q.next = p.next
  <1>1. PICK a : a = [p EXCEPT !.elapsed = elapsed, !.left = left]
    OBVIOUS
  <1>2. /\ a \in States /\ a.elapsed = elapsed /\ a.left = left
        /\ a.pc = p.pc /\ a.backoff = p.backoff /\ a.next = p.next
    BY <1>1 DEF States
  <1>3. q = [a EXCEPT !.down = down]
    BY <1>1 DEF Elapse
  <1>4. QED
    BY <1>2, <1>3 DEF States

\* The first backoff, and the next one, are in the range.
LEMMA BackoffFacts ==
    /\ Backoff \in Backoffs
    /\ \A b \in Backoffs : NextBackoff(b) \in Backoffs
  <1>0. PICK n \in 1 .. MaxBackoff : MaxBackoff = n * Backoff
    BY LifecycleConstants
  <1>1. MaxBackoff \in Nat \ {0} /\ Backoff \in Nat \ {0} /\ n \in Nat \ {0}
    BY LifecycleConstants
  <1>2. Backoff = 1 * Backoff /\ Backoff <= n * Backoff
    BY <1>1
  <1>3. Backoff \in Backoffs
    BY <1>0, <1>1, <1>2 DEF Backoffs
  <1>4. ASSUME NEW b \in Backoffs, b < MaxBackoff PROVE b + Backoff \in Backoffs
    <2>1. PICK i \in Nat : b = i * Backoff
      BY DEF Backoffs
    <2>2. i < n
      <3>1. CASE i >= n
        <4>1. i * Backoff >= n * Backoff
          BY <1>1, <3>1
        <4>2. QED
          BY <1>0, <1>1, <1>4, <2>1, <4>1
      <3>2. QED
        BY <1>1, <3>1
    <2>3. (i + 1) * Backoff <= n * Backoff
      BY <1>1, <2>2
    <2>4. (i + 1) * Backoff = i * Backoff + Backoff
      BY <1>1
    <2>5. b + Backoff \in 1 .. MaxBackoff /\ b + Backoff = (i + 1) * Backoff /\ i + 1 \in Nat
      BY <1>0, <1>1, <2>1, <2>3, <2>4 DEF Backoffs
    <2>6. QED
      BY <2>5 DEF Backoffs
  <1>5. QED
    BY <1>3, <1>4 DEF NextBackoff

\* An instance that does not retry has nothing to keep to.
LEMMA StoppedOK == Stopped \in States /\ TimeOK(Stopped)
  <1>1. <<>> \in Lists
    BY EmptySeq DEF Lists
  <1>2. QED
    BY <1>1 DEF Stopped, States, Pcs, TimeOK

\* An attempt begins in time.
LEMMA BeginOK ==
    ASSUME NEW p \in States, p.backoff \in Backoffs, p.elapsed <= MaxDur + MaxBackoff
    PROVE  /\ Begin(p) \in States /\ TimeOK(Begin(p))
           /\ Begin(p).pc = "attempt" /\ Begin(p).next = Statements
  <1>1. Statements \in Lists
    <2>1. Statements \in [1 .. 4 -> Creates \cup {"session"}]
      BY DEF Statements, Creates
    <2>2. QED
      BY <2>1, SeqDef DEF Lists
  <1>2. /\ AttemptTime \in Nat /\ MaxDur \in Nat /\ MaxBackoff \in Nat
        /\ p.elapsed \in Nat /\ "attempt" \in Pcs
    BY LifecycleConstants DEF States, Pcs
  <1>3. PICK down \in {-1, p.elapsed} :
          Begin(p) = Enter(p, "attempt", AttemptTime, Statements, down)
    BY DEF Begin, Enter
  <1>4. PICK q : q = Begin(p)
    OBVIOUS
  <1>a. down \in Int
    BY <1>2
  <1>5. /\ q \in States /\ q.pc = "attempt" /\ q.left = AttemptTime /\ q.down = down
        /\ q.next = Statements
        /\ q.elapsed = p.elapsed /\ q.backoff = p.backoff
    BY <1>1, <1>2, <1>3, <1>4, <1>a, Enters
  <1>6. TimeOK(q)
    BY <1>2, <1>5 DEF TimeOK
  <1>7. QED
    BY <1>4, <1>5, <1>6

\* One instance moves.
LEMMA TimeMoves ==
    ASSUME TimeInv, NEW w \in Workers, NEW p \in States, TimeOK(p),
           proc' = [proc EXCEPT ![w] = p]
    PROVE  TimeInv'
  <1>1. /\ proc' \in [Workers -> States] /\ proc'[w] = p
        /\ \A v \in Workers \ {w} : proc'[v] = proc[v]
    BY DEF TimeInv
  <1>2. \A v \in Workers : TimeOK(proc'[v])
    BY <1>1 DEF TimeInv
  <1>3. QED
    BY <1>1, <1>2 DEF TimeInv

\* The times are kept by every step.
LEMMA TimeStep == TimeInv /\ [Next]_vars => TimeInv'
  <1> SUFFICES ASSUME TimeInv, [Next]_vars PROVE TimeInv'
    OBVIOUS
  <1>0. /\ proc \in [Workers -> States] /\ \A w \in Workers : TimeOK(proc[w])
        /\ {MaxDur, MaxBackoff, AttemptTime, Backoff} \subseteq Nat
        /\ <<>> \in Lists /\ {"sleep", "running", "closing"} \subseteq Pcs
    BY LifecycleConstants, EmptySeq DEF TimeInv, Lists, Pcs
  <1>1. ASSUME NEW w \in Workers, Start(w) PROVE TimeInv'
    <2> DEFINE p == [Stopped EXCEPT !.backoff = Backoff]
    <2>1. p \in States /\ p.backoff \in Backoffs /\ p.elapsed <= MaxDur + MaxBackoff
      <3>1. Stopped \in States /\ Stopped.elapsed = 0
        BY StoppedOK DEF Stopped
      <3>2. Backoff \in Nat /\ Backoff \in Backoffs
        BY <1>0, BackoffFacts
      <3>3. p \in States /\ p.backoff = Backoff /\ p.elapsed = 0
        BY <3>1, <3>2 DEF States
      <3>4. QED
        BY <1>0, <3>2, <3>3
    <2>2. Begin(p) \in States /\ TimeOK(Begin(p))
      BY <2>1, BeginOK
    <2>3. proc' = [proc EXCEPT ![w] = Begin(p)]
      BY <1>1 DEF Start
    <2>4. QED
      BY <2>2, <2>3, TimeMoves
  <1>2. ASSUME NEW w \in Workers, Succeed(w) PROVE TimeInv'
    <2>1. CASE Len(proc[w].next) > 1
      <3> DEFINE p == [proc[w] EXCEPT !.next = Tail(proc[w].next)]
      <3>1. proc[w].next \in Seq(Creates \cup {"session"}) /\ proc[w].next # <<>>
        <4>1. proc[w].next \in Lists
          BY <1>0 DEF States
        <4>2. QED
          BY <2>1, <4>1, EmptySeq DEF Lists
      <3>2. Tail(proc[w].next) \in Lists
        BY <3>1, HeadTailProperties DEF Lists
      <3>3. p \in States /\ TimeOK(p)
        BY <1>0, <3>2 DEF States, TimeOK
      <3>4. proc' = [proc EXCEPT ![w] = p]
        BY <1>0, <1>2, <2>1 DEF Succeed
      <3>5. QED
        BY <3>3, <3>4, TimeMoves
    <2>2. CASE ~ (Len(proc[w].next) > 1)
      <3> DEFINE p == [Stopped EXCEPT !.pc = "connect", !.cancelled = proc[w].cancelled]
      <3>1. p \in States /\ TimeOK(p)
        <4>1. Stopped \in States /\ Stopped.elapsed = 0 /\ "connect" \in Pcs
              /\ proc[w].cancelled \in BOOLEAN
          BY <1>0, StoppedOK DEF Stopped, States, Pcs
        <4>2. p \in States /\ p.pc = "connect" /\ p.elapsed = 0
          BY <4>1 DEF States
        <4>3. QED
          BY <4>2 DEF TimeOK
      <3>2. proc' = [proc EXCEPT ![w] = p]
        BY <1>2, <2>2 DEF Succeed
      <3>3. QED
        BY <3>1, <3>2, TimeMoves
    <2>3. QED
      BY <2>1, <2>2
  <1>3. ASSUME NEW w \in Workers, Fail(w) PROVE TimeInv'
    <2>1. CASE GivesUp(proc[w])
      <3>1. proc' = [proc EXCEPT ![w] = Stopped]
        BY <1>3, <2>1 DEF Fail
      <3>2. QED
        BY <3>1, StoppedOK, TimeMoves
    <2>2. CASE ~ GivesUp(proc[w])
      <3> DEFINE p == [proc[w] EXCEPT !.pc = "sleep", !.left = proc[w].backoff,
                                      !.next = <<>>, !.down = -1]
      <3>1. proc' = [proc EXCEPT ![w] = p]
        BY <1>3, <2>2 DEF Fail
      <3>2. proc[w].pc = "attempt" /\ proc[w].elapsed <= MaxDur
        BY <1>0, <1>3, <2>2 DEF Fail, GivesUp, PC, States
      <3>3. proc[w].backoff \in Backoffs /\ proc[w].backoff \in 1 .. MaxBackoff
        BY <1>0, <3>2 DEF TimeOK, Backoffs
      <3>4. /\ p \in States /\ p.pc = "sleep" /\ p.left = proc[w].backoff
            /\ p.elapsed = proc[w].elapsed /\ p.backoff = proc[w].backoff
        <4>1. /\ -1 \in Int /\ proc[w].backoff \in Nat /\ "sleep" \in Pcs
              /\ <<>> \in Lists /\ proc[w] \in States
          BY <1>0, <3>3
        <4>2. PICK q : q = p
          OBVIOUS
        <4>a. q = Enter(proc[w], "sleep", proc[w].backoff, <<>>, -1)
          BY <4>2 DEF Enter
        <4>3. /\ q \in States /\ q.pc = "sleep" /\ q.left = proc[w].backoff
              /\ q.elapsed = proc[w].elapsed /\ q.backoff = proc[w].backoff
          BY <4>1, <4>a, Enters
        <4>4. QED
          BY <4>2, <4>3
      <3>5. TimeOK(p)
        <4>1. proc[w].elapsed \in Nat
          BY <1>0 DEF States
        <4>2. QED
          BY <1>0, <3>2, <3>3, <3>4, <4>1 DEF TimeOK
      <3>6. QED
        BY <3>1, <3>4, <3>5, TimeMoves
    <2>3. QED
      BY <2>1, <2>2
  <1>4. ASSUME NEW w \in Workers, Wake(w) PROVE TimeInv'
    <2>1. CASE proc' = [proc EXCEPT ![w] = Stopped]
      BY <2>1, StoppedOK, TimeMoves
    <2>2. CASE /\ proc[w].left = 0
               /\ proc' = [proc EXCEPT ![w] =
                             Begin([proc[w] EXCEPT !.backoff = NextBackoff(@)])]
      <3> DEFINE p == [proc[w] EXCEPT !.backoff = NextBackoff(proc[w].backoff)]
      <3>1. proc[w].pc = "sleep"
        BY <1>4 DEF Wake, PC
      <3>2. proc[w].backoff \in Backoffs /\ proc[w].elapsed <= MaxDur + MaxBackoff
        BY <1>0, <2>2, <3>1 DEF TimeOK, States
      <3>3. NextBackoff(proc[w].backoff) \in Backoffs
        BY <3>2, BackoffFacts
      <3>4. NextBackoff(proc[w].backoff) \in Nat
        BY <1>0, <3>3 DEF Backoffs
      <3>5. p \in States /\ p.backoff \in Backoffs /\ p.elapsed <= MaxDur + MaxBackoff
        BY <1>0, <3>2, <3>3, <3>4 DEF States
      <3>6. Begin(p) \in States /\ TimeOK(Begin(p))
        BY <3>5, BeginOK
      <3>7. proc' = [proc EXCEPT ![w] = Begin(p)]
        BY <2>2
      <3>8. QED
        BY <3>6, <3>7, TimeMoves
    <2>3. QED
      BY <1>4, <2>1, <2>2 DEF Wake
  <1>5. ASSUME NEW w \in Workers, Connect(w) \/ Stop(w) \/ RunFails(w) \/ Signal(w)
        PROVE  TimeInv'
    <2>1. PICK p \in States :
            /\ proc' = [proc EXCEPT ![w] = p]
            /\ \E pc \in {"running", "closing"}, held \in BOOLEAN :
                   \/ /\ proc[w].pc \notin {"attempt", "sleep"}
                      /\ p = [proc[w] EXCEPT !.pc = pc, !.held = held]
                   \/ p = [proc[w] EXCEPT !.cancelled = TRUE]
      <3>1. CASE Signal(w)
        <4>1. /\ [proc[w] EXCEPT !.cancelled = TRUE] \in States
              /\ proc' = [proc EXCEPT ![w] = [proc[w] EXCEPT !.cancelled = TRUE]]
          BY <1>0, <3>1 DEF Signal, States
        <4>2. QED
          BY <4>1
      <3>2. CASE Connect(w)
        <4> DEFINE p == [proc[w] EXCEPT !.pc = "running", !.held = proc[w].held]
        <4>1. p \in States /\ proc' = [proc EXCEPT ![w] = p]
              /\ proc[w].pc \notin {"attempt", "sleep"} /\ proc[w].held \in BOOLEAN
          BY <1>0, <3>2 DEF Connect, States, Pcs, PC
        <4>2. QED
          BY <4>1
      <3>3. CASE Stop(w) \/ RunFails(w)
        <4>1. PICK held \in BOOLEAN :
                proc' = [proc EXCEPT ![w].pc = "closing", ![w].held = held]
          BY <3>3 DEF Stop, RunFails, RunReturns
        <4> DEFINE p == [proc[w] EXCEPT !.pc = "closing", !.held = held]
        <4>2. p \in States /\ proc' = [proc EXCEPT ![w] = p]
              /\ proc[w].pc \notin {"attempt", "sleep"}
          BY <1>0, <3>3, <4>1 DEF Stop, RunFails, RunReturns, States, Pcs, PC
        <4>3. QED
          BY <4>2
      <3>4. QED
        BY <1>5, <3>1, <3>2, <3>3
    <2>2. TimeOK(p)
      BY <1>0, <2>1 DEF TimeOK, States
    <2>3. QED
      BY <2>1, <2>2, TimeMoves
  <1>6. ASSUME NEW w \in Workers, Close(w) PROVE TimeInv'
    BY <1>6 DEF Close, TimeInv
  <1>7. ASSUME NEW w \in Workers, Exit(w) \/ Kill(w) PROVE TimeInv'
    <2>1. proc' = [proc EXCEPT ![w] = Stopped]
      BY <1>7 DEF Exit, Kill
    <2>2. QED
      BY <2>1, StoppedOK, TimeMoves
  <1>8. ASSUME GoesDown PROVE TimeInv'
    <2>1. ASSUME NEW w \in Workers PROVE proc'[w] \in States /\ TimeOK(proc'[w])
      <3>1. proc'[w] = proc[w] \/ proc'[w] = [proc[w] EXCEPT !.down = proc[w].elapsed]
        BY <1>8 DEF GoesDown
      <3>2. proc[w] \in States /\ TimeOK(proc[w]) /\ proc[w].elapsed \in Nat
        BY <1>0 DEF States
      <3>3. CASE proc'[w] = [proc[w] EXCEPT !.down = proc[w].elapsed]
        <4>1. /\ proc'[w] \in States /\ proc'[w].pc = proc[w].pc
              /\ proc'[w].elapsed = proc[w].elapsed /\ proc'[w].left = proc[w].left
              /\ proc'[w].backoff = proc[w].backoff /\ proc'[w].down = proc[w].elapsed
              /\ proc[w].left \in Nat
          BY <3>2, <3>3 DEF States
        <4>2. QED
          BY <1>0, <3>2, <4>1 DEF TimeOK
      <3>4. QED
        BY <3>1, <3>2, <3>3
    <2>2. proc' \in [Workers -> States]
      BY <1>8, <2>1 DEF GoesDown
    <2>3. QED
      BY <2>1, <2>2 DEF TimeInv
  <1>9. ASSUME Tick PROVE TimeInv'
    <2>1. ASSUME NEW w \in Workers PROVE proc'[w] \in States /\ TimeOK(proc'[w])
      <3>1. CASE ~ Retrying(w)
        <4>1. proc'[w] = proc[w]
          BY <1>9, <3>1 DEF Tick
        <4>2. QED
          BY <1>0, <4>1
      <3>2. CASE Retrying(w)
        <4>0. PICK p \in States : p = proc[w] /\ TimeOK(p) /\ Retrying(w)
          BY <1>0, <3>2
        <4>1. p.left > 0 /\ p.pc \in {"attempt", "sleep"}
          BY <1>9, <3>2, <4>0 DEF Tick, Retrying, PC
        <4>2. p.elapsed \in Nat /\ p.left \in Nat /\ p.down \in Int
          BY DEF States
        <4>a. PICK elapsed \in Nat, left \in Nat, down \in Int :
                /\ elapsed = p.elapsed + 1 /\ left = p.left - 1
                /\ down = p.down \/ down = p.elapsed + 1
                /\ proc'[w] = Elapse(p, elapsed, left, down)
          <5>1. PICK elapsed \in Nat, left \in Nat : elapsed = p.elapsed + 1 /\ left = p.left - 1
            BY <4>1, <4>2
          <5>2. PICK down \in {p.down, p.elapsed + 1} :
                  /\ down = p.down \/ down = p.elapsed + 1
                  /\ proc'[w] = [p EXCEPT !.elapsed = p.elapsed + 1, !.left = p.left - 1,
                                          !.down = down]
            BY <1>9, <3>2, <4>0, <4>2 DEF Tick
          <5>3. proc'[w] = Elapse(p, elapsed, left, down)
            BY <5>1, <5>2 DEF Elapse
          <5>4. down \in Int
            BY <4>2
          <5>5. QED
            BY <5>1, <5>2, <5>3, <5>4
        <4>b. PICK q : q = proc'[w]
          OBVIOUS
        <4>c. q = Elapse(p, elapsed, left, down)
          BY <4>a, <4>b
        <4>3. /\ q \in States
              /\ q.elapsed = elapsed /\ q.left = left
              /\ q.down = down /\ q.pc = p.pc /\ q.backoff = p.backoff
          BY <4>c, Elapses
        <4>4. TimeOK(q)
          <5>1. TimeOK(p) /\ q.backoff \in Backoffs /\ q.pc = p.pc
                /\ q.pc \in {"attempt", "sleep"}
            BY <4>0, <4>1, <4>3 DEF TimeOK
          <5>2. /\ q.elapsed + q.left = p.elapsed + p.left
                /\ q.left <= p.left /\ q.elapsed = p.elapsed + 1
                /\ q.down = p.down \/ q.down = q.elapsed
            BY <4>2, <4>a, <4>3
          <5>3. q.left \in Nat /\ q.elapsed \in Nat /\ q.down \in Int
            BY <4>3 DEF States
          <5>4. q.pc = "sleep" => q.elapsed + q.left <= MaxDur + MaxBackoff
            BY <5>1, <5>2 DEF TimeOK
          <5>5. ASSUME q.pc = "attempt"
                PROVE  /\ q.left <= AttemptTime
                       /\ q.elapsed + q.left <= MaxDur + MaxBackoff + AttemptTime
                       /\ q.down = -1 \/ q.down >= q.elapsed + q.left - AttemptTime
            <6>1. /\ p.left <= AttemptTime
                  /\ p.elapsed + p.left <= MaxDur + MaxBackoff + AttemptTime
                  /\ p.down = -1 \/ p.down >= p.elapsed + p.left - AttemptTime
              BY <5>1, <5>5 DEF TimeOK
            <6>2. AttemptTime \in Nat
              BY <1>0
            <6>3. QED
              BY <4>2, <5>2, <5>3, <6>1, <6>2
          <5>6. QED
            BY <5>1, <5>4, <5>5 DEF TimeOK
        <4>5. QED
          BY <4>b, <4>3, <4>4
      <3>3. QED
        BY <3>1, <3>2
    <2>2. proc' \in [Workers -> States]
      BY <1>9, <2>1 DEF Tick
    <2>3. QED
      BY <2>1, <2>2 DEF TimeInv
  <1>10. CASE ComesUp \/ UNCHANGED vars
    BY <1>10 DEF ComesUp, vars, TimeInv
  <1>11. QED
    BY <1>1, <1>2, <1>3, <1>4, <1>5, <1>6, <1>7, <1>8, <1>9, <1>10 DEF Next, Steps

\* At the start no instance retries.
LEMMA TimeInit == Init => TimeInv
  BY StoppedOK DEF Init, TimeInv

\* The retry of an instance never lasts longer than maxDur, one backoff and one
\* attempt, whenever Scylla goes and comes back.
THEOREM RetryEnds == Spec => []GivesUpInTime
  <1>1. TimeInv => GivesUpInTime
    <2> SUFFICES ASSUME TimeInv, NEW w \in Workers
                 PROVE  proc[w].elapsed <= MaxDur + MaxBackoff + AttemptTime
      BY DEF GivesUpInTime
    <2>1. /\ proc[w] \in States /\ TimeOK(proc[w])
          /\ MaxDur \in Nat /\ MaxBackoff \in Nat /\ AttemptTime \in Nat
      BY LifecycleConstants DEF TimeInv
    <2>2. /\ proc[w].pc \in Pcs /\ proc[w].elapsed \in Nat /\ proc[w].left \in Nat
      BY <2>1 DEF States
    <2>3. QED
      BY <2>1, <2>2 DEF TimeOK
  <1>2. QED
    BY <1>1, TimeInit, TimeStep, PTL DEF Spec

\* An instance that was not cancelled, and had no other fault, gives up only on a
\* Scylla that was not reachable at some moment less than one attempt before
\* maxDur had passed, or later.
THEOREM ReachableAwaited == Spec => ReachableIsAwaited
  <1> DEFINE Awaits(w) ==
        (Retrying(w) /\ PC(w)' = "stopped" /\ ~proc[w].cancelled /\ faults' = faults)
            => proc[w].down > MaxDur - AttemptTime
  <1>1. ASSUME TimeInv, [Next]_vars, NEW w \in Workers PROVE Awaits(w)
    <2> SUFFICES ASSUME proc[w].pc \in {"attempt", "sleep"}, proc'[w].pc = "stopped",
                        ~ proc[w].cancelled, faults' = faults
                 PROVE  proc[w].down > MaxDur - AttemptTime
      BY DEF Retrying, PC
    <2>0. /\ proc \in [Workers -> States] /\ proc[w] \in States /\ TimeOK(proc[w])
          /\ {MaxDur, AttemptTime, MaxFaults} \subseteq Nat
      BY <1>1, LifecycleConstants DEF TimeInv
    <2>a. /\ proc[w].elapsed \in Nat /\ proc[w].left \in Nat /\ proc[w].down \in Int
          /\ proc'[w] # proc[w]
      BY <2>0 DEF States
    <2>1. CASE Fail(w)
      <3>1. proc[w].pc = "attempt"
        BY <2>1 DEF Fail, PC
      <3>2. GivesUp(proc[w])
        <4>1. CASE ~ GivesUp(proc[w])
          <5> DEFINE p == [proc[w] EXCEPT !.pc = "sleep", !.left = proc[w].backoff,
                                          !.next = <<>>, !.down = -1]
          <5>1. proc' = [proc EXCEPT ![w] = p]
            BY <2>1, <4>1 DEF Fail
          <5>2. proc'[w].pc = "sleep"
            BY <2>0, <5>1 DEF States
          <5>3. QED
            BY <5>2
        <4>2. QED
          BY <4>1
      <3>3. proc[w].elapsed > MaxDur
        BY <3>2 DEF GivesUp
      <3>4. proc[w].down >= 0
        <4>1. proc[w].down >= 0 \/ Fault
          BY <2>1 DEF Fail, Doomed
        <4>2. ASSUME Fault PROVE FALSE
          BY <4>2 DEF Fault
        <4>3. QED
          BY <4>1, <4>2
      <3>5. proc[w].down >= proc[w].elapsed + proc[w].left - AttemptTime
        BY <2>0, <2>a, <3>1, <3>4 DEF TimeOK
      <3>6. QED
        BY <2>0, <2>a, <3>3, <3>5
    <2>2. ASSUME NEW v \in Workers,
                 \/ Start(v) \/ Succeed(v) \/ (v # w /\ Fail(v)) \/ Wake(v) \/ Connect(v)
                 \/ Stop(v) \/ Close(v) \/ Exit(v) \/ Signal(v) \/ RunFails(v) \/ Kill(v)
          PROVE  FALSE
      <3>1. CASE v # w
        <4>1. proc'[w] = proc[w]
          BY <2>0, <2>2, <3>1
             DEF Start, Succeed, Fail, Wake, Connect, Stop, Close, Exit, Signal, RunFails,
                 RunReturns, Kill
        <4>2. QED
          BY <2>a, <4>1
      <3>2. CASE v = w /\ (Start(v) \/ Connect(v) \/ Stop(v) \/ RunFails(v) \/ Exit(v) \/ Kill(v))
        BY <3>2 DEF Start, Connect, Stop, RunFails, RunReturns, Exit, Kill, PC
      <3>3. CASE v = w /\ (Close(v) \/ Signal(v))
        BY <2>0, <3>3 DEF Close, Signal, PC, States
      <3>4. CASE v = w /\ Succeed(v)
        <4>1. \/ proc' = [proc EXCEPT ![w].next = Tail(@)]
              \/ proc' = [proc EXCEPT ![w] = [Stopped EXCEPT !.pc = "connect",
                                                  !.cancelled = proc[w].cancelled]]
          BY <3>4 DEF Succeed
        <4>2. proc'[w].pc \in {proc[w].pc, "connect"}
          BY <2>0, <4>1 DEF States, Stopped
        <4>3. QED
          BY <4>2
      <3>5. CASE v = w /\ Wake(v)
        <4>1. proc' = [proc EXCEPT ![w] =
                         Begin([proc[w] EXCEPT !.backoff = NextBackoff(@)])]
          BY <3>5 DEF Wake
        <4> DEFINE p == [proc[w] EXCEPT !.backoff = NextBackoff(proc[w].backoff)]
        <4>2. proc[w].pc = "sleep" /\ proc[w].left = 0
          BY <2>0, <3>5 DEF Wake, PC, Stopped
        <4>3. proc[w].backoff \in Backoffs /\ proc[w].elapsed <= MaxDur + MaxBackoff
          BY <2>0, <2>a, <4>2 DEF TimeOK
        <4>4. NextBackoff(proc[w].backoff) \in Backoffs /\ NextBackoff(proc[w].backoff) \in Nat
          BY <4>3, BackoffFacts DEF Backoffs
        <4>5. p \in States /\ p.backoff \in Backoffs /\ p.elapsed <= MaxDur + MaxBackoff
          BY <2>0, <4>3, <4>4 DEF States
        <4>6. Begin(p).pc = "attempt"
          BY <4>5, BeginOK
        <4>7. proc'[w] = Begin(p)
          BY <2>0, <4>1
        <4>8. QED
          BY <4>6, <4>7
      <3>6. QED
        BY <2>2, <3>1, <3>2, <3>3, <3>4, <3>5
    <2>3. ASSUME GoesDown \/ Tick PROVE FALSE
      <3>1. CASE GoesDown
        <4>1. proc'[w].pc = proc[w].pc
          BY <2>0, <3>1 DEF GoesDown, States
        <4>2. QED
          BY <4>1
      <3>2. CASE Tick
        <4>1. PICK down :
                proc'[w] = [[proc[w] EXCEPT !.elapsed = @ + 1, !.left = @ - 1]
                              EXCEPT !.down = down]
          <5>1. CASE Retrying(w)
            BY <3>2, <5>1 DEF Tick
          <5>2. CASE ~ Retrying(w)
            BY <5>2 DEF Retrying, PC
          <5>3. QED
            BY <5>1, <5>2
        <4>2. PICK p : p = [proc[w] EXCEPT !.elapsed = @ + 1, !.left = @ - 1]
          OBVIOUS
        <4>3. p.pc = proc[w].pc
          BY <2>0, <4>2 DEF States
        <4>4. proc'[w] = [p EXCEPT !.down = down]
          BY <4>1, <4>2
        <4>5. proc'[w].pc = p.pc
          BY <2>0, <4>2, <4>4 DEF States
        <4>6. QED
          BY <4>3, <4>5
      <3>3. QED
        BY <2>3, <3>1, <3>2
    <2>4. ASSUME ComesUp \/ UNCHANGED vars PROVE FALSE
      BY <2>a, <2>4 DEF ComesUp, vars
    <2>5. Fail(w)
      BY <1>1, <2>2, <2>3, <2>4 DEF Next, Steps
    <2>6. QED
      BY <2>1, <2>5
  <1>2. TimeInv /\ [Next]_vars => [\A w \in Workers : Awaits(w)]_vars
    BY <1>1
  <1>3. QED
    BY <1>2, TimeInit, TimeStep, PTL DEF Spec, ReachableIsAwaited

----------------------------------------------------------------------------
(* Configs.                                                                *)

\* A list that is not empty has a first element.
LEMMA NotEmpty ==
    ASSUME NEW S, NEW s \in Seq(S), s # <<>>
    PROVE  Len(s) \in Nat \ {0} /\ 1 \in DOMAIN s
  <1>1. Len(s) \in Nat /\ DOMAIN s = 1 .. Len(s) /\ Len(s) # 0
    BY EmptySeq, LenProperties
  <1>2. QED
    BY <1>1

\* Key fields that validate tell events apart: two events with different texts
\* in them all have different keys.
LEMMA KeysSeparate ==
    ASSUME NEW key, key.fields \in Seq(STRING),
           key.field # "" \/ key.fields # <<>>, "" \notin Range(key.fields)
    PROVE  Separates(key)
  <1> DEFINE Names == ({key.field} \cup Range(key.fields)) \ {""}
             Texts == {[type |-> "string", text |-> t] : t \in {"1", "2"}}
             p == [f \in Names |-> [type |-> "string", text |-> "1"]]
             q == [f \in Names |-> [type |-> "string", text |-> "2"]]
  <1>1. p \in [Names -> Texts] /\ q \in [Names -> Texts]
    OBVIOUS
  <1>2. Keys!ExtractRaw(key, p) # Keys!ExtractRaw(key, q)
    <2>1. CASE key.field # ""
      <3>1. key.field \in Names
        BY <2>1
      <3>2. /\ Keys!ExtractRaw(key, p) = Keys!Raw("1", Keys!NoFields)
            /\ Keys!ExtractRaw(key, q) = Keys!Raw("2", Keys!NoFields)
        BY <2>1, <3>1 DEF Keys!ExtractRaw, Keys!StringField
      <3>3. Keys!Raw("1", Keys!NoFields).text # Keys!Raw("2", Keys!NoFields).text
        BY DEF Keys!Raw
      <3>4. QED
        BY <3>2, <3>3
    <2>2. CASE key.field = ""
      <3>1. PICK f \in Range(key.fields) : f \in Names
        <4>1. 1 \in DOMAIN key.fields
          BY <2>2, NotEmpty
        <4>2. key.fields[1] \in Range(key.fields)
          BY <4>1 DEF Range
        <4>3. QED
          BY <4>2
      <3>2. /\ Keys!ExtractRaw(key, p).fields[f] = p[f]
            /\ Keys!ExtractRaw(key, q).fields[f] = q[f]
        <4>1. f \in Keys!Range(key.fields)
          BY <3>1 DEF Range, Keys!Range
        <4>2. f \in Keys!Range(key.fields) \cap DOMAIN p /\ f \in Keys!Range(key.fields) \cap DOMAIN q
          BY <3>1, <4>1
        <4>3. QED
          BY <2>2, <4>2 DEF Keys!ExtractRaw, Keys!KeyFromFields, Keys!Raw, Keys!Restrict
      <3>3. p[f].text # q[f].text
        BY <3>1
      <3>4. QED
        BY <3>2, <3>3
    <2>3. QED
      BY <2>1, <2>2
  <1>3. QED
    BY <1>1, <1>2 DEF Separates

\* The handlers and the timeout manager can work with a config that validates.
LEMMA ValidRuns ==
    ASSUME NEW c \in AnyJoinConfig, ValidateJoinConfig(c)
    PROVE  Runnable(c)
  <1>1. /\ c.stream_ids \in Seq(STRING) /\ c.key.fields \in Seq(STRING)
    BY DEF AnyJoinConfig
  <1>2. /\ c.stream_ids # <<>> /\ Range(c.projection) \subseteq Range(c.stream_ids)
        /\ c.key.field # "" \/ c.key.fields # <<>>
        /\ "" \notin Range(c.key.fields)
        /\ c.egress = "partial" => Duration(c.ttl) > 0
    BY DEF ValidateJoinConfig
  <1>3. NumStreams(c) > 0
    <2>1. Len(c.stream_ids) \in Nat \ {0}
      BY <1>1, <1>2, NotEmpty
    <2>2. QED
      BY <2>1 DEF NumStreams
  <1>4. \A i \in DOMAIN c.projection : \E j \in DOMAIN c.stream_ids :
            c.projection[i] = c.stream_ids[j]
    BY <1>2 DEF Range
  <1>5. Separates(c.key)
    BY <1>1, <1>2, KeysSeparate
  <1>6. c.egress = "partial" => c.ttl.type \in {"number", "string"} /\ c.ttl.value > 0
    <2>1. CASE c.ttl.type \in {"number", "string"}
      <3>1. Duration(c.ttl) = c.ttl.value
        BY <2>1 DEF Duration
      <3>2. QED
        BY <1>2, <2>1, <3>1
    <2>2. CASE c.ttl.type \notin {"number", "string"}
      <3>1. Duration(c.ttl) = 0
        BY <2>2 DEF Duration
      <3>2. ~ (0 > 0)
        OBVIOUS
      <3>3. QED
        BY <1>2, <3>1, <3>2
    <2>3. QED
      BY <2>1, <2>2
  <1>7. QED
    BY <1>3, <1>4, <1>5, <1>6 DEF Runnable

\* Whatever an accepted instance is configured with, inline or in files, its
\* handlers can work with.
LEMMA AcceptedRuns ==
    ASSUME NEW d \in AnyProcessorConfig, Accepted(d), NEW c \in JoinConfigs(d)
    PROVE  Runnable(c)
  <1>1. /\ d.join_config \in AnyJoinConfig \cup {None}
        /\ d.join_configs \in Seq(AnyJoinConfig \cup {None})
        /\ d.config_paths \in Seq(STRING)
    BY DEF AnyProcessorConfig
  <1>2. /\ LoadProcessorConfig(d) /\ ValidateJoinConfig(c) /\ c # None
    BY DEF Accepted, ValidateJoinConfig
  <1>3. \A path \in PathsRead(d) : Files[path] \in AnyJoinConfig \cup {None}
    BY <1>2, ConfigFiles DEF LoadProcessorConfig, LoadJoinConfig
  <1>4. c \in AnyJoinConfig \cup {None}
    <2>1. CASE MultiConfig(d) /\ d.join_configs = <<>>
      <3>1. PICK i \in DOMAIN d.config_paths : c = Files[d.config_paths[i]]
        BY <2>1 DEF JoinConfigs, SeveralConfigs, Range
      <3>2. d.config_paths[i] \in PathsRead(d)
        BY <2>1, <3>1 DEF PathsRead, Range
      <3>3. QED
        BY <1>3, <3>1, <3>2
    <2>2. CASE MultiConfig(d) /\ d.join_configs # <<>>
      <3>1. PICK i \in DOMAIN d.join_configs : c = d.join_configs[i]
        BY <2>2 DEF JoinConfigs, SeveralConfigs, Range
      <3>2. QED
        BY <1>1, <3>1, ElementOfSeq, LenProperties
    <2>3. CASE ~ MultiConfig(d)
      <3>1. c = SingleConfig(d)
        BY <2>3 DEF JoinConfigs
      <3>2. CASE d.join_config = None /\ d.config_path # ""
        BY <1>3, <3>1, <3>2 DEF SingleConfig, PathsRead
      <3>3. CASE ~ (d.join_config = None /\ d.config_path # "")
        BY <1>1, <3>1, <3>3 DEF SingleConfig
      <3>4. QED
        BY <3>2, <3>3
    <2>4. QED
      BY <2>1, <2>2, <2>3
  <1>5. QED
    BY <1>2, <1>4, ValidRuns

----------------------------------------------------------------------------
(* Start-up.                                                               *)

\* An attempt still has to create what is not in the schema, and an instance
\* that is past it finds everything there.  Its config was accepted.
Prepared(w) ==
    /\ proc[w].pc # "stopped" => Accepted(cfg[w])
    /\ proc[w].pc = "attempt" =>
         proc[w].next # <<>> /\ Creates \subseteq schema \cup Range(proc[w].next)
    /\ proc[w].pc \in {"connect", "running", "closing"} => Creates \subseteq schema

PreparedInv ==
    /\ TimeInv
    /\ \A w \in Workers : cfg[w] \in AnyProcessorConfig
    /\ \A w \in Workers : Prepared(w)

\* A list has its head and what follows.
LEMMA HeadOrTail ==
    ASSUME NEW S, NEW s \in Seq(S), s # <<>>
    PROVE  /\ Range(s) \subseteq {Head(s)} \cup Range(Tail(s))
           /\ Len(s) = 1 => Range(s) = {Head(s)}
           /\ Len(s) > 1 => Tail(s) # <<>>
  <1>1. /\ Len(s) \in Nat \ {0} /\ Head(s) = s[1] /\ DOMAIN s = 1 .. Len(s)
        /\ Tail(s) \in Seq(S) /\ Len(Tail(s)) = Len(s) - 1
        /\ DOMAIN Tail(s) = 1 .. Len(s) - 1
        /\ \A i \in 1 .. Len(s) - 1 : Tail(s)[i] = s[i + 1]
    BY NotEmpty, HeadTailProperties, LenProperties
  <1>2. ASSUME NEW i \in DOMAIN s PROVE s[i] \in {Head(s)} \cup Range(Tail(s))
    <2>1. CASE i = 1
      BY <1>1, <2>1
    <2>2. CASE i # 1
      <3>1. i - 1 \in DOMAIN Tail(s) /\ Tail(s)[i - 1] = s[(i - 1) + 1] /\ (i - 1) + 1 = i
        BY <1>1, <2>2
      <3>2. QED
        BY <3>1 DEF Range
    <2>3. QED
      BY <2>1, <2>2
  <1>3. Len(s) = 1 => Range(s) = {Head(s)}
    <2> SUFFICES ASSUME Len(s) = 1 PROVE Range(s) = {Head(s)}
      OBVIOUS
    <2>1. DOMAIN s = 1 .. 1
      BY <1>1
    <2>2. DOMAIN s = {1}
      BY <2>1
    <2>3. QED
      BY <1>1, <2>2 DEF Range
  <1>4. Len(s) > 1 => Tail(s) # <<>>
    <2>1. Len(s) > 1 => Len(Tail(s)) # 0
      BY <1>1
    <2>2. Len(<<>>) = 0
      OBVIOUS
    <2>3. QED
      BY <2>1, <2>2
  <1>5. QED
    BY <1>2, <1>3, <1>4 DEF Range

\* The statements create the whole schema.
LEMMA StatementsCreate == Statements # <<>> /\ Creates \subseteq Range(Statements)
  <1>1. /\ DOMAIN Statements = 1 .. 4
        /\ Statements[1] = "keyspace" /\ Statements[2] = "join_state"
        /\ Statements[3] = "join_state_v2"
    BY DEF Statements
  <1>2. 1 \in 1 .. 4 /\ 2 \in 1 .. 4 /\ 3 \in 1 .. 4
    OBVIOUS
  <1>3. Creates \subseteq Range(Statements)
    <2>1. \A i \in 1 .. 4 : Statements[i] \in Range(Statements)
      BY <1>1 DEF Range
    <2>2. /\ "keyspace" \in Range(Statements) /\ "join_state" \in Range(Statements)
          /\ "join_state_v2" \in Range(Statements)
      BY <1>1, <1>2, <2>1
    <2>3. QED
      BY <2>2 DEF Creates
  <1>4. QED
    BY <1>3 DEF Statements

\* One instance moves, and nothing is dropped from the schema.
LEMMA PreparedMoves ==
    ASSUME PreparedInv, TimeInv', cfg' = cfg, schema \subseteq schema', NEW w \in Workers,
           \A v \in Workers \ {w} : proc'[v] = proc[v], Prepared(w)'
    PROVE  PreparedInv'
  <1>1. \A v \in Workers \ {w} : Prepared(v)'
    BY DEF PreparedInv, Prepared
  <1>2. QED
    BY <1>1 DEF PreparedInv

\* Every step keeps what start-up has prepared.
LEMMA PreparedStep == PreparedInv /\ [Next]_vars => PreparedInv'
  <1> SUFFICES ASSUME PreparedInv, [Next]_vars PROVE PreparedInv'
    OBVIOUS
  <1>0. /\ TimeInv /\ TimeInv' /\ proc \in [Workers -> States]
        /\ \A w \in Workers : Prepared(w)
        /\ \A w \in Workers : proc[w] \in States /\ TimeOK(proc[w])
        /\ {MaxDur, MaxBackoff} \subseteq Nat
    BY TimeStep, LifecycleConstants DEF PreparedInv, TimeInv
  \* An instance that has stopped is free.
  <1>s. ASSUME NEW w \in Workers, proc' = [proc EXCEPT ![w] = Stopped],
               cfg' = cfg, schema \subseteq schema'
        PROVE  PreparedInv'
    <2>1. proc'[w].pc = "stopped" /\ \A v \in Workers \ {w} : proc'[v] = proc[v]
      BY <1>0, <1>s DEF Stopped
    <2>2. Prepared(w)'
      BY <2>1 DEF Prepared
    <2>3. QED
      BY <1>0, <1>s, <2>1, <2>2, PreparedMoves
  \* An attempt begins with all statements.
  <1>b. ASSUME NEW w \in Workers, NEW p \in States, p.backoff \in Backoffs,
               p.elapsed <= MaxDur + MaxBackoff, Accepted(cfg[w]),
               proc' = [proc EXCEPT ![w] = Begin(p)], cfg' = cfg, schema' = schema
        PROVE  PreparedInv'
    <2>1. Begin(p).pc = "attempt" /\ Begin(p).next = Statements
      BY <1>b, BeginOK
    <2>2. /\ proc'[w].pc = "attempt" /\ proc'[w].next = Statements
          /\ \A v \in Workers \ {w} : proc'[v] = proc[v]
      BY <1>0, <1>b, <2>1
    <2>3. Prepared(w)'
      BY <1>b, <2>2, StatementsCreate DEF Prepared
    <2>4. QED
      BY <1>0, <1>b, <2>2, <2>3, PreparedMoves
  <1>1. ASSUME NEW w \in Workers, Start(w) PROVE PreparedInv'
    <2> DEFINE p == [Stopped EXCEPT !.backoff = Backoff]
    <2>1. Stopped \in States /\ Stopped.elapsed = 0
      BY StoppedOK DEF Stopped
    <2>2. Backoff \in Nat /\ Backoff \in Backoffs
      BY LifecycleConstants, BackoffFacts
    <2>3. p \in States /\ p.backoff = Backoff /\ p.elapsed = 0
      BY <2>1, <2>2 DEF States
    <2>4. p \in States /\ p.backoff \in Backoffs /\ p.elapsed <= MaxDur + MaxBackoff
      BY <1>0, <2>2, <2>3
    <2>5. /\ proc' = [proc EXCEPT ![w] = Begin(p)] /\ cfg' = cfg /\ schema' = schema
          /\ Accepted(cfg[w])
      BY <1>1 DEF Start
    <2>6. QED
      BY <1>b, <2>4, <2>5
  <1>2. ASSUME NEW w \in Workers, Succeed(w) PROVE PreparedInv'
    <2>0. /\ proc[w].pc = "attempt" /\ proc[w].next \in Seq(Creates \cup {"session"})
          /\ proc[w].next # <<>> /\ Creates \subseteq schema \cup Range(proc[w].next)
          /\ Accepted(cfg[w])
      BY <1>0, <1>2 DEF Succeed, PC, Prepared, States, Lists
    <2> DEFINE next == proc[w].next
    <2>1. /\ cfg' = cfg /\ schema' = schema \cup ({Head(next)} \cap Creates)
      BY <1>2 DEF Succeed
    <2>2. CASE Len(next) > 1
      <3>1. proc' = [proc EXCEPT ![w] = [proc[w] EXCEPT !.next = Tail(next)]]
        BY <1>0, <1>2, <2>2 DEF Succeed
      <3>2. /\ proc'[w].pc = "attempt" /\ proc'[w].next = Tail(next)
            /\ \A v \in Workers \ {w} : proc'[v] = proc[v]
        BY <1>0, <2>0, <3>1 DEF States
      <3>3. Tail(next) # <<>> /\ Creates \subseteq schema' \cup Range(Tail(next))
        BY <2>0, <2>1, <2>2, HeadOrTail
      <3>4. Prepared(w)'
        BY <2>0, <2>1, <3>2, <3>3 DEF Prepared
      <3>5. QED
        BY <1>0, <2>1, <3>2, <3>4, PreparedMoves
    <2>3. CASE ~ (Len(next) > 1)
      <3>1. /\ proc'[w].pc = "connect" /\ \A v \in Workers \ {w} : proc'[v] = proc[v]
        BY <1>0, <1>2, <2>3 DEF Succeed, Stopped
      <3>2. Len(next) = 1
        <4>1. PICK n \in Nat \ {0} : n = Len(next)
          BY <2>0, NotEmpty
        <4>2. ~ (n > 1)
          BY <2>3, <4>1
        <4>3. n = 1
          BY <4>2
        <4>4. QED
          BY <4>1, <4>3
      <3>3. Creates \subseteq schema'
        BY <2>0, <2>1, <3>2, HeadOrTail
      <3>4. Prepared(w)'
        BY <2>0, <2>1, <3>1, <3>3 DEF Prepared
      <3>5. QED
        BY <1>0, <2>1, <3>1, <3>4, PreparedMoves
    <2>4. QED
      BY <2>2, <2>3
  <1>3. ASSUME NEW w \in Workers, Fail(w) PROVE PreparedInv'
    <2>1. cfg' = cfg /\ schema \subseteq schema' /\ Accepted(cfg[w])
      BY <1>0, <1>3 DEF Fail, PC, Prepared
    <2>2. CASE GivesUp(proc[w])
      <3>1. proc' = [proc EXCEPT ![w] = Stopped]
        BY <1>3, <2>2 DEF Fail
      <3>2. QED
        BY <1>s, <2>1, <3>1
    <2>3. CASE ~ GivesUp(proc[w])
      <3>1. proc' = [proc EXCEPT ![w] = Enter(proc[w], "sleep", proc[w].backoff, <<>>, -1)]
        BY <1>3, <2>3 DEF Fail, Enter
      <3>2. /\ proc'[w].pc = "sleep" /\ \A v \in Workers \ {w} : proc'[v] = proc[v]
        <4>1. PICK q : q = Enter(proc[w], "sleep", proc[w].backoff, <<>>, -1)
          OBVIOUS
        <4>2. /\ -1 \in Int /\ proc[w].backoff \in Nat /\ "sleep" \in Pcs
              /\ <<>> \in Lists /\ proc[w] \in States
          BY <1>0, EmptySeq DEF States, Pcs, Lists
        <4>3. q.pc = "sleep"
          BY <4>1, <4>2, Enters
        <4>4. QED
          BY <1>0, <3>1, <4>1, <4>3
      <3>3. Prepared(w)'
        BY <2>1, <3>2 DEF Prepared
      <3>4. QED
        BY <1>0, <2>1, <3>2, <3>3, PreparedMoves
    <2>4. QED
      BY <2>2, <2>3
  <1>4. ASSUME NEW w \in Workers, Wake(w) PROVE PreparedInv'
    <2>0. proc[w].pc = "sleep" /\ Accepted(cfg[w]) /\ cfg' = cfg /\ schema' = schema
      BY <1>0, <1>4 DEF Wake, PC, Prepared
    <2>1. CASE proc' = [proc EXCEPT ![w] = Stopped]
      BY <1>s, <2>0, <2>1
    <2>2. CASE /\ proc[w].left = 0
               /\ proc' = [proc EXCEPT ![w] =
                             Begin([proc[w] EXCEPT !.backoff = NextBackoff(@)])]
      <3> DEFINE p == [proc[w] EXCEPT !.backoff = NextBackoff(proc[w].backoff)]
      <3>1. proc[w].backoff \in Backoffs /\ proc[w].elapsed <= MaxDur + MaxBackoff
        BY <1>0, <2>0, <2>2 DEF TimeOK, States
      <3>2. NextBackoff(proc[w].backoff) \in Backoffs /\ NextBackoff(proc[w].backoff) \in Nat
        BY <3>1, BackoffFacts DEF Backoffs
      <3>3. p \in States /\ p.backoff \in Backoffs /\ p.elapsed <= MaxDur + MaxBackoff
        BY <1>0, <3>1, <3>2 DEF States
      <3>4. proc' = [proc EXCEPT ![w] = Begin(p)]
        BY <2>2
      <3>5. QED
        BY <1>b, <2>0, <3>3, <3>4
    <2>3. QED
      BY <1>4, <2>1, <2>2 DEF Wake
  <1>5. ASSUME NEW w \in Workers, Connect(w) \/ Stop(w) \/ RunFails(w)
        PROVE  PreparedInv'
    <2>1. /\ cfg' = cfg /\ schema' = schema /\ proc[w].pc \in {"connect", "running"}
          /\ \A v \in Workers \ {w} : proc'[v] = proc[v]
      BY <1>0, <1>5 DEF Connect, Stop, RunFails, RunReturns, PC
    <2>2. proc'[w].pc \in {"running", "closing"}
      <3>1. CASE Connect(w)
        <4>1. proc' = [proc EXCEPT ![w] = [proc[w] EXCEPT !.pc = "running"]]
          BY <1>0, <3>1 DEF Connect
        <4>2. QED
          BY <1>0, <4>1 DEF States
      <3>2. CASE Stop(w) \/ RunFails(w)
        <4>1. PICK held :
                proc' = [proc EXCEPT ![w] = [proc[w] EXCEPT !.pc = "closing", !.held = held]]
          BY <1>0, <3>2 DEF Stop, RunFails, RunReturns
        <4>2. QED
          BY <1>0, <4>1 DEF States
      <3>3. QED
        BY <1>5, <3>1, <3>2
    <2>3. Prepared(w)'
      BY <1>0, <2>1, <2>2 DEF Prepared
    <2>4. QED
      BY <1>0, <2>1, <2>3, PreparedMoves
  <1>6. ASSUME NEW w \in Workers, Exit(w) \/ Kill(w) PROVE PreparedInv'
    <2>1. proc' = [proc EXCEPT ![w] = Stopped] /\ cfg' = cfg /\ schema' = schema
      BY <1>6 DEF Exit, Kill
    <2>2. QED
      BY <1>s, <2>1
  \* What a signal, an outage and the clock change is nothing that start-up prepares.
  <1>k. ASSUME cfg' = cfg, schema' = schema,
               \A w \in Workers : proc'[w].pc = proc[w].pc /\ proc'[w].next = proc[w].next
        PROVE  PreparedInv'
    BY <1>0, <1>k DEF PreparedInv, Prepared
  <1>7. ASSUME NEW w \in Workers, Signal(w) PROVE PreparedInv'
    <2>1. proc' = [proc EXCEPT ![w] = [proc[w] EXCEPT !.cancelled = TRUE]]
      BY <1>0, <1>7 DEF Signal
    <2>2. \A v \in Workers : proc'[v].pc = proc[v].pc /\ proc'[v].next = proc[v].next
      BY <1>0, <2>1 DEF States
    <2>3. QED
      BY <1>7, <1>k, <2>2 DEF Signal
  <1>8. ASSUME NEW w \in Workers, Close(w) PROVE PreparedInv'
    BY <1>8, <1>k DEF Close
  <1>9. ASSUME GoesDown PROVE PreparedInv'
    <2>1. \A v \in Workers : proc'[v].pc = proc[v].pc /\ proc'[v].next = proc[v].next
      BY <1>0, <1>9 DEF GoesDown, States
    <2>2. QED
      BY <1>9, <1>k, <2>1 DEF GoesDown
  <1>10. ASSUME Tick PROVE PreparedInv'
    <2>1. ASSUME NEW w \in Workers
          PROVE  proc'[w].pc = proc[w].pc /\ proc'[w].next = proc[w].next
      <3>1. CASE ~ Retrying(w)
        BY <1>10, <3>1 DEF Tick
      <3>2. CASE Retrying(w)
        <4>1. PICK down :
                proc'[w] = [[proc[w] EXCEPT !.elapsed = @ + 1, !.left = @ - 1]
                              EXCEPT !.down = down]
          BY <1>10, <3>2 DEF Tick
        <4>2. PICK p : p = [proc[w] EXCEPT !.elapsed = @ + 1, !.left = @ - 1]
          OBVIOUS
        <4>3. p.pc = proc[w].pc /\ p.next = proc[w].next
          BY <1>0, <4>2 DEF States
        <4>4. proc'[w] = [p EXCEPT !.down = down]
          BY <4>1, <4>2
        <4>5. proc'[w].pc = p.pc /\ proc'[w].next = p.next
          BY <1>0, <4>2, <4>4 DEF States
        <4>6. QED
          BY <4>3, <4>5
      <3>3. QED
        BY <3>1, <3>2
    <2>2. QED
      BY <1>10, <1>k, <2>1 DEF Tick
  <1>11. CASE ComesUp
    BY <1>11, <1>k DEF ComesUp
  <1>12. CASE UNCHANGED vars
    BY <1>12, <1>k DEF vars
  <1>13. QED
    BY <1>1, <1>2, <1>3, <1>4, <1>5, <1>6, <1>7, <1>8, <1>9, <1>10, <1>11, <1>12
       DEF Next, Steps

\* At the start no instance has accepted anything.
LEMMA PreparedInit == Init => PreparedInv
  <1> SUFFICES ASSUME Init PROVE PreparedInv
    OBVIOUS
  <1>1. \A w \in Workers : cfg[w] \in AnyProcessorConfig
    BY LifecycleConstants DEF Init
  <1>2. \A w \in Workers : proc[w].pc = "stopped"
    BY DEF Init, Stopped
  <1>3. QED
    BY <1>1, <1>2, TimeInit DEF PreparedInv, Prepared

\* An instance that runs has the tables of its mode, whoever created them and
\* whoever failed in between, and configs that its handlers can work with.
THEOREM RunsPrepared == Spec => []RunsOnlyPrepared
  <1>1. PreparedInv => RunsOnlyPrepared
    <2> SUFFICES ASSUME PreparedInv, NEW w \in Workers, proc[w].pc = "running"
                 PROVE  /\ {"keyspace", IF MultiConfig(cfg[w]) THEN "join_state_v2"
                                                               ELSE "join_state"}
                              \subseteq schema
                        /\ \A c \in JoinConfigs(cfg[w]) : Runnable(c)
      BY DEF RunsOnlyPrepared, PC
    <2>1. Creates \subseteq schema /\ Accepted(cfg[w]) /\ cfg[w] \in AnyProcessorConfig
      BY DEF PreparedInv, Prepared
    <2>2. QED
      BY <2>1, AcceptedRuns DEF Creates
  <1>2. QED
    BY <1>1, PreparedInit, PreparedStep, PTL DEF Spec
================================================================================
