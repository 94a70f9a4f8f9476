------------------------------ MODULE TimingProofs ------------------------------
(***************************************************************************)
(* Proofs about the deadlines: events that arrive in time are joined, a    *)
(* key is answered within Bound of its first event, and no event is left   *)
(* to the table TTL.                                                       *)
(***************************************************************************)
EXTENDS Timing, FiniteSetTheorems, TLAPS

\* An event that waits in a row has arrived, and at what time.
ClockInv ==
    /\ now \in Nat
    /\ cell \in [Keys -> [StreamIDs -> Int]]
    /\ IsFiniteSet(arrived)
    /\ arrived \subseteq Keys \X StreamIDs \X Nat
    /\ \A e \in arrived : e[3] <= now
    /\ \A k \in Keys : \A s \in StreamIDs :
         cell[k][s] # Never => <<k, s, cell[k][s]>> \in arrived

----------------------------------------------------------------------------
(* The clock and the rows.                                                 *)

\* The handler records an event that has not arrived before.
LEMMA HandleArrives ==
    ASSUME ClockInv, NEW k \in Keys, NEW s \in StreamIDs, Handle(k, s)
    PROVE  /\ now' = now /\ <<k, s, now>> \notin arrived
           /\ arrived' = arrived \cup {<<k, s, now>>} /\ IsFiniteSet(arrived')
           /\ arrived' \subseteq Keys \X StreamIDs \X Nat
           /\ \A e \in arrived' : e[3] <= now
  <1>1. /\ now' = now /\ <<k, s, now>> \notin arrived
        /\ arrived' = arrived \cup {<<k, s, now>>}
    BY DEF Handle
  <1>2. IsFiniteSet(arrived')
    BY <1>1, FS_AddElement DEF ClockInv
  <1>3. <<k, s, now>> \in Keys \X StreamIDs \X Nat /\ <<k, s, now>>[3] <= now
    BY DEF ClockInv
  <1>4. QED
    BY <1>1, <1>2, <1>3 DEF ClockInv

\* What becomes of the row of an event.
LEMMA RowMoves ==
    ASSUME ClockInv, NEW k \in Keys, NEW s \in StreamIDs, Handle(k, s),
           NEW row, row = [cell[k] EXCEPT ![s] = now]
    PROVE  /\ cell' = [cell EXCEPT ![k] = row] \/ cell' = [cell EXCEPT ![k] = Empty]
           /\ row \in [StreamIDs -> Int] /\ row[s] = now
           /\ \A r \in StreamIDs \ {s} : row[r] = cell[k][r]
           /\ cell' \in [Keys -> [StreamIDs -> Int]]
           /\ \A j \in Keys \ {k} : cell'[j] = cell[j]
           /\ cell'[k] = row \/ cell'[k] = Empty
  <1>1. /\ row \in [StreamIDs -> Int] /\ row[s] = now
        /\ \A r \in StreamIDs \ {s} : row[r] = cell[k][r]
    BY DEF ClockInv
  <1>2. Empty \in [StreamIDs -> Int]
    BY DEF Empty, Never
  <1>3. cell' = [cell EXCEPT ![k] = row] \/ cell' = [cell EXCEPT ![k] = Empty]
    <2>1. CASE FirstArrival(k, s)
      <3>1. cell' = [cell EXCEPT ![k] = [cell[k] EXCEPT ![s] = now]]
        BY <2>1 DEF FirstArrival, ClockInv
      <3>2. QED
        BY <3>1
    <2>2. CASE LaterArrival(k, s)
      BY <2>2 DEF LaterArrival
    <2>3. QED
      BY <2>1, <2>2 DEF Handle
  <1>4. QED
    BY <1>1, <1>2, <1>3 DEF ClockInv

\* The clock invariant is kept.
LEMMA ClockStep == ClockInv /\ [TimingNext]_clockVars => ClockInv'
  <1> SUFFICES ASSUME ClockInv, [TimingNext]_clockVars PROVE ClockInv'
    OBVIOUS
  <1>1. ASSUME NEW k \in Keys, NEW s \in StreamIDs, Handle(k, s) PROVE ClockInv'
    <2>1. PICK row :
            /\ row \in [StreamIDs -> Int] /\ row[s] = now
            /\ \A r \in StreamIDs \ {s} : row[r] = cell[k][r]
            /\ cell' \in [Keys -> [StreamIDs -> Int]]
            /\ \A j \in Keys \ {k} : cell'[j] = cell[j]
            /\ cell'[k] = row \/ cell'[k] = Empty
      <3>1. PICK row : row = [cell[k] EXCEPT ![s] = now]
        OBVIOUS
      <3>2. QED
        BY <1>1, <3>1, RowMoves
    <2>2. /\ now' = now /\ arrived' = arrived \cup {<<k, s, now>>}
          /\ IsFiniteSet(arrived') /\ arrived' \subseteq Keys \X StreamIDs \X Nat
          /\ \A e \in arrived' : e[3] <= now
      BY <1>1, HandleArrives
    <2>3. \A r \in StreamIDs : Empty[r] = Never
      BY DEF Empty
    <2>4. \A j \in Keys, r \in StreamIDs :
            cell[j][r] # Never => <<j, r, cell[j][r]>> \in arrived
      BY DEF ClockInv
    <2>5. ASSUME NEW j \in Keys, NEW r \in StreamIDs, cell'[j][r] # Never
          PROVE  <<j, r, cell'[j][r]>> \in arrived'
      <3>1. CASE j # k
        BY <2>1, <2>2, <2>4, <2>5, <3>1
      <3>2. CASE j = k
        <4>1. cell'[k] = row
          BY <2>1, <2>3, <2>5, <3>2
        <4>2. CASE r = s
          BY <2>1, <2>2, <3>2, <4>1, <4>2
        <4>3. CASE r # s
          <5>1. cell'[j][r] = cell[j][r]
            BY <2>1, <3>2, <4>1, <4>3
          <5>2. QED
            BY <2>2, <2>4, <2>5, <5>1
        <4>4. QED
          BY <4>2, <4>3
      <3>3. QED
        BY <3>1, <3>2
    <2>6. now \in Nat
      BY DEF ClockInv
    <2>7. QED
      BY <2>1, <2>2, <2>5, <2>6 DEF ClockInv
  <1>2. ASSUME ProcessDue PROVE ClockInv'
    <2>1. now' = now /\ arrived' = arrived
      BY <1>2 DEF ProcessDue
    <2>2. PICK answered :
            cell' = [k \in Keys |-> IF k \in answered THEN Empty ELSE cell[k]]
      BY <1>2 DEF ProcessDue, Round
    <2>3. Empty \in [StreamIDs -> Int] /\ \A s \in StreamIDs : Empty[s] = Never
      BY DEF Empty, Never
    <2>4. QED
      BY <2>1, <2>2, <2>3 DEF ClockInv
  <1>3. ASSUME Crash \/ Restart PROVE ClockInv'
    BY <1>3 DEF Crash, Restart, ClockInv
  <1>4. ASSUME Tick PROVE ClockInv'
    <2>1. now' = now + 1 /\ now \in Nat /\ UNCHANGED <<cell, arrived>>
      BY <1>4 DEF Tick, ClockInv
    <2>2. \A e \in arrived' : e[3] <= now'
      BY <2>1 DEF ClockInv
    <2>3. QED
      BY <2>1, <2>2 DEF ClockInv
  <1>5. CASE UNCHANGED clockVars
    BY <1>5 DEF clockVars, ClockInv
  <1>6. QED
    BY <1>1, <1>2, <1>3, <1>4, <1>5 DEF TimingNext

----------------------------------------------------------------------------
(* In time is joined.                                                      *)

Waiting(k) == {s \in StreamIDs : cell[k][s] # Never}

\* The events of a key are in its row, and do not complete it, ...
Waits(k) ==
    /\ \A e \in arrived : e[1] = k => cell[k][e[2]] = e[3]
    /\ Cardinality(Waiting(k)) < N

Joined(k) == \E d \in out : d.key = k /\ d.kind = "joined"

\* ... or they are joined, or some stream has missed one of them.
Missed(k) ==
    \E s \in StreamIDs, f \in arrived :
        /\ f[1] = k
        /\ now > f[3] + TTL - Second
        /\ \A e \in arrived : (e[1] = k /\ e[2] = s) => e[3] > f[3] + TTL - Second

OneRound == \A e, f \in arrived : (e[1] = f[1] /\ e[2] = f[2]) => e = f

KnownArrivals == \A e \in arrived : Known(e[1])

DeadlineOfEvent ==
    /\ deadline \in [Keys -> Int]
    /\ \A k \in Keys : deadline[k] # Never =>
         \E f \in arrived : f[1] = k /\ deadline[k] = (f[3] + TTL) \div Second

TrackedSettled == \A k \in tracked : Joined(k) \/ Missed(k)

InTimeInv ==
    /\ ClockInv
    /\ OneRound
    /\ KnownArrivals
    /\ DeadlineOfEvent
    /\ TrackedSettled
    /\ \A k \in Keys : Joined(k) \/ Missed(k) \/ Waits(k)

\* One event per key and stream, and a join of two streams or more, all of
\* which are streams of the config.
OneEventEach ==
    /\ Rounds = 1
    /\ IsFiniteSet(StreamIDs)
    /\ N \in 2 .. Cardinality(StreamIDs)

\* What truncation to seconds can lose.
LEMMA DivLess ==
    ASSUME NEW a \in Nat, NEW b \in Nat, NEW c \in Nat \ {0}, a \div c <= b \div c
    PROVE  a < b + c
  OBVIOUS

\* Products of natural numbers are natural numbers.
LEMMA ProductNat == \A a, b \in Nat : a * b \in Nat
  OBVIOUS

\* So are their quotients.
LEMMA QuotientNat ==
    ASSUME NEW a \in Nat, NEW b \in Nat \ {0} PROVE a \div b \in Nat
  OBVIOUS

\* The table remembers a row for longer than the TTL of the join.
LEMMA RowOutlivesJoin == TTL < RowTTL /\ Bound \in Int
  <1>1. PICK keys \in Nat : keys = Cardinality(Keys)
    BY TimingConstants, FS_CardinalityType
  <1>2. /\ PollInterval \in Nat /\ TTL \in Nat /\ BatchSize \in Nat \ {0}
        /\ MaxRefusals \in Nat /\ MaxCrashes \in Nat /\ MaxDown \in Nat
    BY TimingConstants
  <1>3. PICK polls \in Nat : polls = (Cardinality(Keys) + BatchSize - 1) \div BatchSize
    <2>1. keys + BatchSize - 1 \in Nat
      BY <1>1, <1>2
    <2>2. QED
      BY <1>1, <1>2, <2>1, QuotientNat
  <1>4. polls + MaxRefusals + MaxCrashes \in Nat
    BY <1>2, <1>3
  <1>5. PollInterval * (polls + MaxRefusals + MaxCrashes) \in Nat
    BY <1>2, <1>4, ProductNat
  <1>6. MaxCrashes * MaxDown \in Nat
    BY <1>2, ProductNat
  <1>7. TTL <= Bound
    BY <1>2, <1>3, <1>5, <1>6 DEF Bound
  <1>8. Bound \in Int
    BY <1>2, <1>3, <1>5, <1>6 DEF Bound
  <1>9. QED
    BY <1>2, <1>7, <1>8, TimingConstants

\* A stream that has missed an event has missed it for good.
LEMMA MissedStays ==
    ASSUME ClockInv, ClockInv', arrived \subseteq arrived', now <= now',
           \A e \in arrived' \ arrived : e[3] = now,
           NEW k, Missed(k)
    PROVE  Missed(k)'
  <1>1. PICK s \in StreamIDs, f \in arrived :
          /\ f[1] = k
          /\ now > f[3] + TTL - Second
          /\ \A e \in arrived : (e[1] = k /\ e[2] = s) => e[3] > f[3] + TTL - Second
    BY DEF Missed
  <1>2. f[3] \in Nat /\ now \in Nat /\ now' \in Nat /\ TTL \in Nat /\ Second \in Nat
    BY TimingConstants DEF ClockInv
  <1>3. now' > f[3] + TTL - Second
    BY <1>1, <1>2
  <1>4. ASSUME NEW e \in arrived', e[1] = k, e[2] = s
        PROVE  e[3] > f[3] + TTL - Second
    BY <1>1, <1>4
  <1>5. QED
    BY <1>1, <1>3, <1>4 DEF Missed

\* With one round, the handler takes the first event of a stream.
LEMMA FirstOfStream ==
    ASSUME ClockInv, Rounds = 1, NEW k \in Keys, NEW s \in StreamIDs, Handle(k, s)
    PROVE  \A e \in arrived : e[1] = k => e[2] # s
  <1>1. PICK es : es = {e \in arrived : e[1] = k /\ e[2] = s}
    OBVIOUS
  <1>2. Cardinality(es) < 1
    BY <1>1 DEF Handle
  <1>3. IsFiniteSet(es) /\ Cardinality(es) \in Nat
    <2>1. es \in SUBSET arrived /\ IsFiniteSet(arrived)
      BY <1>1 DEF ClockInv
    <2>2. IsFiniteSet(es)
      BY <2>1, FS_Subset
    <2>3. QED
      BY <2>2, FS_CardinalityType
  <1>4. Cardinality(es) = 0
    BY <1>2, <1>3
  <1>5. es = {}
    BY <1>3, <1>4, FS_EmptySet
  <1>6. QED
    BY <1>1, <1>5

\* After a first arrival the key waits, for its only event.
LEMMA FirstWaits ==
    ASSUME InTimeInv, ClockInv', OneEventEach, NEW k \in Keys, NEW s \in StreamIDs,
           Handle(k, s), FirstArrival(k, s)
    PROVE  Waits(k)'
  <1>1. /\ ClockInv /\ arrived' = arrived \cup {<<k, s, now>>} /\ now \in Nat
        /\ cell \in [Keys -> [StreamIDs -> Int]]
    BY HandleArrives DEF InTimeInv, ClockInv
  <1>2. \A e \in arrived : e[1] # k
    BY DEF InTimeInv, KnownArrivals, FirstArrival
  <1>3. \A r \in StreamIDs : cell[k][r] = Never
    <2> SUFFICES ASSUME NEW r \in StreamIDs, cell[k][r] # Never PROVE FALSE
      OBVIOUS
    <2>1. <<k, r, cell[k][r]>> \in arrived
      BY <1>1 DEF ClockInv
    <2>2. QED
      BY <1>2, <2>1
  <1>4. /\ cell'[k][s] = now
        /\ \A r \in StreamIDs \ {s} : cell'[k][r] = Never
    BY <1>1, <1>3 DEF FirstArrival
  <1>5. \A r \in StreamIDs : cell'[k][r] # Never => r = s
    BY <1>4
  <1>6. now # Never
    BY <1>1 DEF Never
  <1>7. Waiting(k)' = {s}
    BY <1>4, <1>5, <1>6 DEF Waiting
  <1>8. Cardinality(Waiting(k)') < N
    <2>1. Cardinality({s}) = 1
      BY FS_Singleton
    <2>2. N \in Nat /\ 2 <= N
      BY TimingConstants DEF OneEventEach
    <2>3. QED
      BY <1>7, <2>1, <2>2
  <1>9. \A e \in arrived' : e[1] = k => cell'[k][e[2]] = e[3]
    BY <1>1, <1>2, <1>4
  <1>10. QED
    BY <1>8, <1>9 DEF Waits

\* A later arrival of a key that waits completes it, waits as well, or comes
\* when the table has forgotten an earlier event.
LEMMA LaterInTime ==
    ASSUME InTimeInv, ClockInv', OneEventEach, NEW k \in Keys, NEW s \in StreamIDs,
           Handle(k, s), LaterArrival(k, s)
    PROVE  (Joined(k) \/ Missed(k) \/ Waits(k))'
  <1>1. /\ ClockInv /\ arrived' = arrived \cup {<<k, s, now>>} /\ now \in Nat
        /\ cell \in [Keys -> [StreamIDs -> Int]] /\ now' = now
        /\ \A e \in arrived : e[1] = k => e[2] # s
        /\ \A e \in arrived : e[3] \in Nat
    BY HandleArrives, FirstOfStream DEF InTimeInv, ClockInv, OneEventEach
  <1>2. PICK row : row = [cell[k] EXCEPT ![s] = now]
    OBVIOUS
  <1>3. /\ row \in [StreamIDs -> Int] /\ row[s] = now
        /\ \A r \in StreamIDs \ {s} : row[r] = cell[k][r]
    BY <1>1, <1>2
  <1>4. PICK complete \in BOOLEAN, late \in BOOLEAN :
          /\ complete <=> Cardinality(Live(row)) >= N
          /\ late <=> (~complete /\ k \in tracked)
          /\ out' = out \cup (IF complete THEN {Document("joined", k, row)}
                              ELSE IF late THEN {Document("late", k, row)} ELSE {})
          /\ cell' = [cell EXCEPT ![k] = IF complete \/ late THEN Empty ELSE row]
    BY <1>2 DEF LaterArrival
  <1>5. ASSUME Missed(k) PROVE Missed(k)'
    <2>1. arrived \subseteq arrived' /\ now <= now'
          /\ \A e \in arrived' \ arrived : e[3] = now
      BY <1>1
    <2>2. QED
      BY <1>1, <1>5, <2>1, MissedStays
  <1>6. ASSUME Joined(k) PROVE Joined(k)'
    BY <1>4, <1>6 DEF Joined
  <1>7. ASSUME Waits(k), complete PROVE Joined(k)'
    <2>1. Document("joined", k, row) \in out'
      BY <1>4, <1>7
    <2>2. Document("joined", k, row).key = k /\ Document("joined", k, row).kind = "joined"
      BY DEF Document
    <2>3. QED
      BY <2>1, <2>2 DEF Joined
  <1>8. ASSUME late PROVE (Joined(k) \/ Missed(k))'
    BY <1>4, <1>5, <1>6, <1>8 DEF InTimeInv, TrackedSettled
  <1>9. ASSUME Waits(k), ~complete, ~late PROVE (Missed(k) \/ Waits(k))'
    <2>1. cell'[k] = row
      BY <1>1, <1>4, <1>9
    <2>2. CASE \A r \in StreamIDs : row[r] # Never => now < row[r] + RowTTL
      <3>1. Live(row) = Waiting(k)'
        BY <2>1, <2>2 DEF Live, Waiting
      <3>2. Waiting(k)' \in SUBSET StreamIDs
        BY DEF Waiting
      <3>3. Cardinality(Waiting(k)') \in Nat
        BY <3>2, FS_Subset, FS_CardinalityType DEF OneEventEach
      <3>4. N \in Nat
        BY TimingConstants
      <3>5. Cardinality(Waiting(k)') < N
        BY <1>4, <1>9, <3>1, <3>3, <3>4
      <3>6. \A e \in arrived' : e[1] = k => cell'[k][e[2]] = e[3]
        <4>1. \A e \in arrived : e[1] = k => cell[k][e[2]] = e[3] /\ e[2] \in StreamIDs
          BY <1>1, <1>9 DEF Waits, ClockInv
        <4>2. QED
          BY <1>1, <1>3, <2>1, <4>1
      <3>7. QED
        BY <3>5, <3>6 DEF Waits
    <2>3. CASE \E r \in StreamIDs : row[r] # Never /\ ~(now < row[r] + RowTTL)
      <3>1. PICK r \in StreamIDs : row[r] # Never /\ ~(now < row[r] + RowTTL)
        BY <2>3
      <3>2. /\ RowTTL \in Nat /\ TTL \in Nat \ {0} /\ Second \in Nat \ {0}
            /\ TTL < RowTTL
        BY RowOutlivesJoin, TimingConstants
      <3>3. r # s
        BY <1>1, <1>3, <3>1, <3>2
      <3>4. PICK f : f = <<k, r, row[r]>>
        OBVIOUS
      <3>5. f \in arrived /\ f[1] = k /\ f[3] = row[r] /\ f[3] \in Nat
        BY <1>1, <1>3, <3>1, <3>3, <3>4 DEF ClockInv
      <3>6. now > f[3] + TTL - Second
        BY <1>1, <3>1, <3>2, <3>5
      <3>7. \A e \in arrived' : (e[1] = k /\ e[2] = s) => e[3] > f[3] + TTL - Second
        BY <1>1, <3>6
      <3>8. f \in arrived' /\ now' > f[3] + TTL - Second
        BY <1>1, <3>5, <3>6
      <3>9. Missed(k)'
        BY <3>5, <3>7, <3>8 DEF Missed
      <3>10. QED
        BY <3>9
    <2>4. QED
      BY <2>2, <2>3
  <1>10. Joined(k) \/ Missed(k) \/ Waits(k)
    BY DEF InTimeInv
  <1>11. QED
    BY <1>4, <1>5, <1>6, <1>7, <1>8, <1>9, <1>10

\* The manager answers a key that waits after its deadline only, which lies at
\* most a second before the end of the TTL.
LEMMA AnsweredHasMissed ==
    ASSUME InTimeInv, OneEventEach, NEW k \in DueKeys, Waits(k)
    PROVE  Missed(k)
  <1>1. k \in Keys /\ deadline[k] # Never /\ deadline[k] <= now \div Second
    BY DEF DueKeys
  <1>2. PICK f \in arrived : f[1] = k /\ deadline[k] = (f[3] + TTL) \div Second
    BY <1>1 DEF InTimeInv, DeadlineOfEvent
  <1>3. /\ f[3] \in Nat /\ now \in Nat /\ f[3] + TTL \in Nat /\ TTL \in Nat
        /\ Second \in Nat \ {0}
    BY TimingConstants DEF InTimeInv, ClockInv
  <1>4. now > f[3] + TTL - Second
    <2>1. PICK due \in Nat : due = f[3] + TTL
      BY <1>3
    <2>2. due \div Second <= now \div Second
      BY <1>1, <1>2, <2>1
    <2>3. due < now + Second
      BY <1>3, <2>1, <2>2, DivLess
    <2>4. QED
      BY <1>3, <2>1, <2>3
  <1>5. PICK s \in StreamIDs : cell[k][s] = Never
    <2>1. Cardinality(Waiting(k)) < N
      BY DEF Waits
    <2>2. Waiting(k) # StreamIDs
      <3>1. Cardinality(StreamIDs) \in Nat /\ N \in Nat /\ N <= Cardinality(StreamIDs)
        BY FS_CardinalityType DEF OneEventEach
      <3>2. ~(Cardinality(StreamIDs) < N)
        BY <3>1
      <3>3. QED
        BY <2>1, <3>2
    <2>3. QED
      BY <2>2 DEF Waiting
  <1>6. ASSUME NEW e \in arrived, e[1] = k, e[2] = s PROVE FALSE
    <2>1. e[3] \in Nat /\ cell[k][s] = e[3]
      BY <1>6 DEF Waits, InTimeInv, ClockInv
    <2>2. QED
      BY <1>5, <2>1 DEF Never
  <1>7. QED
    BY <1>2, <1>4, <1>6 DEF Missed

\* Every step keeps the invariant.
LEMMA InTimeStep ==
    ASSUME OneEventEach, InTimeInv, [TimingNext]_clockVars PROVE InTimeInv'
  <1>0. ClockInv /\ ClockInv'
    BY ClockStep DEF InTimeInv
  <1>1. ASSUME NEW k \in Keys, NEW s \in StreamIDs, Handle(k, s) PROVE InTimeInv'
    <2>1. /\ now' = now /\ <<k, s, now>> \notin arrived /\ now \in Nat
          /\ arrived' = arrived \cup {<<k, s, now>>}
          /\ \A e \in arrived : e[1] = k => e[2] # s
          /\ \A e \in arrived : e[1] \in Keys
      BY <1>0, <1>1, HandleArrives, FirstOfStream DEF ClockInv, OneEventEach
    <2>2. OneRound'
      <3>1. OneRound
        BY DEF InTimeInv
      <3>2. QED
        BY <2>1, <3>1 DEF OneRound
    <2>3. KnownArrivals'
      <3>1. KnownArrivals
        BY DEF InTimeInv
      <3>2. filter \subseteq filter' /\ BitsOf[k] \subseteq filter'
        BY <1>1 DEF Handle, FirstArrival, LaterArrival, Known
      <3>3. QED
        BY <2>1, <3>1, <3>2 DEF KnownArrivals, Known
    <2>4. DeadlineOfEvent'
      <3>0. DeadlineOfEvent
        BY DEF InTimeInv
      <3>1. ASSUME FirstArrival(k, s) PROVE DeadlineOfEvent'
        <4>1. /\ deadline' = [deadline EXCEPT ![k] = (now + TTL) \div Second]
              /\ deadline \in [Keys -> Int]
          BY <3>0, <3>1 DEF FirstArrival, Deadline, DeadlineOfEvent
        <4>2. (now + TTL) \div Second \in Int
          <5>1. now + TTL \in Nat /\ Second \in Nat \ {0}
            BY <2>1, TimingConstants
          <5>2. QED
            BY <5>1, QuotientNat
        <4>3. deadline' \in [Keys -> Int]
          BY <4>1, <4>2
        <4>4. ASSUME NEW j \in Keys, deadline'[j] # Never
              PROVE  \E f \in arrived' :
                       f[1] = j /\ deadline'[j] = (f[3] + TTL) \div Second
          <5>1. CASE j = k
            <6>1. PICK f : f = <<k, s, now>>
              OBVIOUS
            <6>2. f \in arrived' /\ f[1] = k /\ f[3] = now
              BY <2>1, <6>1
            <6>3. deadline'[j] = (f[3] + TTL) \div Second
              BY <4>1, <5>1, <6>2
            <6>4. QED
              BY <5>1, <6>2, <6>3
          <5>2. CASE j # k
            <6>1. deadline'[j] = deadline[j]
              BY <4>1, <5>2
            <6>2. PICK f \in arrived :
                    f[1] = j /\ deadline[j] = (f[3] + TTL) \div Second
              BY <3>0, <4>4, <6>1 DEF DeadlineOfEvent
            <6>3. QED
              BY <2>1, <6>1, <6>2
          <5>3. QED
            BY <5>1, <5>2
        <4>5. QED
          BY <4>3, <4>4 DEF DeadlineOfEvent
      <3>2. ASSUME LaterArrival(k, s) PROVE DeadlineOfEvent'
        <4>1. deadline' = deadline
          BY <3>2 DEF LaterArrival
        <4>2. QED
          BY <2>1, <3>0, <4>1 DEF DeadlineOfEvent
      <3>3. QED
        BY <1>1, <3>1, <3>2 DEF Handle
    <2>5. ASSUME NEW j, Missed(j) PROVE Missed(j)'
      <3>1. arrived \subseteq arrived' /\ now <= now'
            /\ \A e \in arrived' \ arrived : e[3] = now
        BY <2>1
      <3>2. QED
        BY <1>0, <2>5, <3>1, MissedStays
    <2>6. TrackedSettled'
      <3>1. tracked' \subseteq tracked /\ out \subseteq out'
        BY <1>1 DEF Handle, FirstArrival, LaterArrival
      <3>2. \A j \in tracked : Joined(j) \/ Missed(j)
        BY DEF InTimeInv, TrackedSettled
      <3>3. \A j : Joined(j) => Joined(j)'
        BY <3>1 DEF Joined
      <3>4. QED
        BY <2>5, <3>1, <3>2, <3>3 DEF TrackedSettled
    <2>7. ASSUME NEW j \in Keys PROVE (Joined(j) \/ Missed(j) \/ Waits(j))'
      <3>1. CASE j = k
        <4>1. ASSUME FirstArrival(k, s) PROVE Waits(k)'
          BY <1>0, <1>1, <4>1, FirstWaits
        <4>2. ASSUME LaterArrival(k, s) PROVE (Joined(k) \/ Missed(k) \/ Waits(k))'
          BY <1>0, <1>1, <4>2, LaterInTime
        <4>3. QED
          BY <1>1, <3>1, <4>1, <4>2 DEF Handle
      <3>2. CASE j # k
        <4>1. cell'[j] = cell[j]
          <5>1. PICK row : row = [cell[k] EXCEPT ![s] = now]
            OBVIOUS
          <5>2. \A i \in Keys \ {k} : cell'[i] = cell[i]
            BY <1>0, <1>1, <5>1, RowMoves
          <5>3. QED
            BY <3>2, <5>2
        <4>2. ASSUME Joined(j) PROVE Joined(j)'
          <5>1. out \subseteq out'
            BY <1>1 DEF Handle, FirstArrival, LaterArrival
          <5>2. QED
            BY <4>2, <5>1 DEF Joined
        <4>3. ASSUME Waits(j) PROVE Waits(j)'
          <5>1. Waiting(j)' = Waiting(j)
            BY <4>1 DEF Waiting
          <5>2. Cardinality(Waiting(j)') < N
            BY <4>3, <5>1 DEF Waits
          <5>3. \A e \in arrived' : e[1] = j => cell'[j][e[2]] = e[3]
            BY <2>1, <3>2, <4>1, <4>3 DEF Waits
          <5>4. QED
            BY <5>2, <5>3 DEF Waits
        <4>4. Joined(j) \/ Missed(j) \/ Waits(j)
          BY DEF InTimeInv
        <4>5. QED
          BY <2>5, <4>2, <4>3, <4>4
      <3>3. QED
        BY <3>1, <3>2
    <2>8. QED
      BY <1>0, <2>2, <2>3, <2>4, <2>6, <2>7 DEF InTimeInv
  <1>2. ASSUME ProcessDue PROVE InTimeInv'
    <2>1. now' = now /\ arrived' = arrived /\ filter' = filter
      BY <1>2 DEF ProcessDue
    <2>2. PICK answered \in SUBSET DueKeys :
            /\ out \subseteq out'
            /\ tracked' = tracked \cup answered
            /\ cell' = [k \in Keys |-> IF k \in answered THEN Empty ELSE cell[k]]
            /\ \E left : deadline' = [k \in Keys |-> IF k \in left THEN Never
                                                                   ELSE deadline[k]]
      <3>1. PICK batch \in Batches :
              \E refused \in SUBSET {k \in batch : Answerable(k)} : Round(batch, refused)
        BY <1>2 DEF ProcessDue
      <3>2. PICK refused : Round(batch, refused)
        BY <3>1
      <3>3. PICK answered : answered = {k \in batch \ refused : Answerable(k)}
        OBVIOUS
      <3>4. answered \in SUBSET DueKeys
        BY <3>1, <3>3 DEF Batches
      <3>5. /\ out \subseteq out'
            /\ tracked' = tracked \cup answered
            /\ cell' = [k \in Keys |-> IF k \in answered THEN Empty ELSE cell[k]]
            /\ \E left : deadline' = [k \in Keys |-> IF k \in left THEN Never
                                                                   ELSE deadline[k]]
        BY <3>2, <3>3 DEF Round
      <3>6. QED
        BY <3>4, <3>5
    <2>3. ASSUME NEW k, Missed(k) PROVE Missed(k)'
      BY <2>1, <2>3 DEF Missed
    <2>4. ASSUME NEW k, Joined(k) PROVE Joined(k)'
      BY <2>2, <2>4 DEF Joined
    <2>5. ASSUME NEW k \in Keys, k \notin answered, Waits(k) PROVE Waits(k)'
      <3>1. cell'[k] = cell[k]
        BY <2>2, <2>5
      <3>2. Waiting(k)' = Waiting(k)
        BY <3>1 DEF Waiting
      <3>3. Cardinality(Waiting(k)') < N
        BY <2>5, <3>2 DEF Waits
      <3>4. QED
        BY <2>1, <2>5, <3>1, <3>3 DEF Waits
    <2>6. ASSUME NEW k \in answered PROVE (Joined(k) \/ Missed(k))'
      <3>1. k \in DueKeys /\ k \in Keys
        BY <2>2 DEF DueKeys
      <3>2. Joined(k) \/ Missed(k)
        BY <3>1, AnsweredHasMissed DEF InTimeInv
      <3>3. QED
        BY <2>3, <2>4, <3>2
    <2>7. ASSUME NEW k \in Keys PROVE (Joined(k) \/ Missed(k) \/ Waits(k))'
      <3>1. Joined(k) \/ Missed(k) \/ Waits(k)
        BY DEF InTimeInv
      <3>2. QED
        BY <2>3, <2>4, <2>5, <2>6, <3>1
    <2>8. TrackedSettled'
      <3>1. \A k \in tracked : Joined(k) \/ Missed(k)
        BY DEF InTimeInv, TrackedSettled
      <3>2. QED
        BY <2>2, <2>3, <2>4, <2>6, <3>1 DEF TrackedSettled
    <2>9. DeadlineOfEvent'
      <3>1. DeadlineOfEvent
        BY DEF InTimeInv
      <3>2. PICK left : deadline' = [k \in Keys |-> IF k \in left THEN Never
                                                                 ELSE deadline[k]]
        BY <2>2
      <3>3. Never \in Int
        BY DEF Never
      <3>4. QED
        BY <2>1, <3>1, <3>2, <3>3 DEF DeadlineOfEvent
    <2>10. OneRound' /\ KnownArrivals'
      BY <2>1 DEF InTimeInv, OneRound, KnownArrivals, Known
    <2>11. QED
      BY <1>0, <2>7, <2>8, <2>9, <2>10 DEF InTimeInv
  <1>3. ASSUME now <= now', UNCHANGED <<cell, out, arrived, filter, deadline, tracked>>
        PROVE  InTimeInv'
    <2>1. ASSUME NEW k, Missed(k) PROVE Missed(k)'
      BY <1>0, <1>3, <2>1, MissedStays
    <2>2. \A k : Joined(k) => Joined(k)'
      BY <1>3 DEF Joined
    <2>3. \A k : Waits(k) => Waits(k)'
      BY <1>3 DEF Waits, Waiting
    <2>4. OneRound' /\ KnownArrivals' /\ DeadlineOfEvent'
      BY <1>3 DEF InTimeInv, OneRound, KnownArrivals, Known, DeadlineOfEvent
    <2>5. TrackedSettled'
      BY <1>3, <2>1, <2>2 DEF InTimeInv, TrackedSettled
    <2>6. QED
      BY <1>0, <2>1, <2>2, <2>3, <2>4, <2>5 DEF InTimeInv
  <1>4. ASSUME Crash \/ Restart \/ Tick \/ UNCHANGED clockVars
        PROVE  now <= now' /\ UNCHANGED <<cell, out, arrived, filter, deadline, tracked>>
    BY <1>0, <1>4 DEF Crash, Restart, Tick, clockVars, ClockInv
  <1>5. QED
    BY <1>1, <1>2, <1>3, <1>4 DEF TimingNext

\* Events of all streams that arrive within the TTL, less the second that the
\* deadline loses to truncation, are joined, whatever the manager, the filter,
\* refused produces and crashes do in between; for any number of keys and
\* streams, with one event per key and stream.
THEOREM InTimeJoined ==
    ASSUME OneEventEach PROVE TimingSpec => []JoinedWhenInTime
  <1>1. TimingInit => InTimeInv
    <2> SUFFICES ASSUME TimingInit PROVE InTimeInv
      OBVIOUS
    <2>1. Empty \in [StreamIDs -> Int] /\ \A r \in StreamIDs : Empty[r] = Never
      BY DEF Empty, Never
    <2>2. ClockInv
      BY <2>1, FS_EmptySet DEF TimingInit, ClockInv
    <2>3. ASSUME NEW k \in Keys PROVE Waits(k)
      <3>1. Waiting(k) = {}
        BY <2>1 DEF TimingInit, Waiting
      <3>2. Cardinality({}) = 0 /\ N \in Nat \ {0}
        BY FS_EmptySet, TimingConstants
      <3>3. Cardinality(Waiting(k)) < N
        BY <3>1, <3>2
      <3>4. QED
        BY <3>3 DEF Waits, TimingInit
    <2>4. DeadlineOfEvent
      BY DEF TimingInit, DeadlineOfEvent, Never
    <2>5. QED
      BY <2>2, <2>3, <2>4
         DEF TimingInit, InTimeInv, OneRound, KnownArrivals, TrackedSettled
  <1>2. InTimeInv => JoinedWhenInTime
    <2> SUFFICES ASSUME InTimeInv, NEW k \in Keys,
                        NEW es \in SUBSET {e \in arrived : e[1] = k},
                        \A s \in StreamIDs : \E e \in es : e[2] = s,
                        \A e, f \in es : f[3] - e[3] <= TTL - Second
                 PROVE  Joined(k)
      BY DEF JoinedWhenInTime, Joined
    <2>1. /\ \A e \in arrived : e[2] \in StreamIDs /\ e[3] \in Nat
          /\ TTL \in Nat /\ Second \in Nat
      BY TimingConstants DEF InTimeInv, ClockInv
    <2>2. ASSUME Missed(k) PROVE FALSE
      <3>1. PICK s \in StreamIDs, f \in arrived :
              /\ f[1] = k
              /\ \A e \in arrived : (e[1] = k /\ e[2] = s) => e[3] > f[3] + TTL - Second
        BY <2>2 DEF Missed
      <3>2. PICK e \in es : e[2] = s
        BY <3>1
      <3>3. PICK g \in es : g[2] = f[2]
        BY <2>1, <3>1
      <3>4. g = f
        BY <3>1, <3>3 DEF InTimeInv, OneRound
      <3>5. e[3] - f[3] <= TTL - Second
        BY <3>2, <3>3, <3>4
      <3>6. e[3] > f[3] + TTL - Second
        BY <3>1, <3>2
      <3>7. QED
        BY <2>1, <3>1, <3>2, <3>5, <3>6
    <2>3. ASSUME Waits(k) PROVE FALSE
      <3>1. \A s \in StreamIDs : cell[k][s] # Never
        BY <2>1, <2>3 DEF Waits, Never
      <3>2. Waiting(k) = StreamIDs
        BY <3>1 DEF Waiting
      <3>3. Cardinality(StreamIDs) \in Nat /\ N \in Nat /\ N <= Cardinality(StreamIDs)
        BY FS_CardinalityType DEF OneEventEach
      <3>4. QED
        BY <2>3, <3>2, <3>3 DEF Waits
    <2>4. QED
      BY <2>2, <2>3 DEF InTimeInv
  <1>3. InTimeInv /\ [TimingNext]_clockVars => InTimeInv'
    BY InTimeStep
  <1>4. QED
    BY <1>1, <1>2, <1>3, PTL DEF TimingSpec

----------------------------------------------------------------------------
(* Every key is answered in time.                                          *)
\* A product grows with its factor.
LEMMA ProductGrows == \A a, b, c \in Nat : a <= b => c * a <= c * b
  <1> SUFFICES ASSUME NEW a \in Nat, NEW b \in Nat, NEW c \in Nat, a <= b
               PROVE  c * a <= c * b
    OBVIOUS
  <1>1. PICK d \in Nat : b = a + d
    <2>1. b - a \in Nat /\ b = a + (b - a)
      OBVIOUS
    <2>2. QED
      BY <2>1
  <1>2. c * b = c * a + c * d /\ c * d \in Nat /\ c * a \in Nat
    BY <1>1
  <1>3. QED
    BY <1>2

\* ... by as much as the factor is multiplied with.
LEMMA OneMore == \A a, c \in Nat : c * (a + 1) = c * a + c
  OBVIOUS

\* A quotient grows with its dividend, by one if that grows by the divisor.
LEMMA QuotientGrows ==
    ASSUME NEW a \in Nat, NEW b \in Nat, NEW c \in Nat \ {0}
    PROVE  /\ a <= b => a \div c <= b \div c
           /\ (a + c) \div c = (a \div c) + 1
           /\ a + c <= b => (a \div c) + 1 <= b \div c
  OBVIOUS

Allowance(g, r, c) ==
    TTL + PollInterval * (1 + (g \div BatchSize) + r + c) + c * MaxDown

\* What the polls, refused produces and crashes so far may cost, and how it grows.
LEMMA AllowanceGrows ==
    ASSUME NEW g \in Nat, NEW r \in Nat, NEW c \in Nat,
           NEW h \in Nat, NEW q \in Nat, NEW d \in Nat, g <= h, r <= q, c <= d
    PROVE  /\ Allowance(g, r, c) \in Nat
           /\ TTL + PollInterval <= Allowance(g, r, c)
           /\ Allowance(g, r, c) <= Allowance(h, q, d)
           /\ (g + BatchSize <= h \/ r + 1 <= q) =>
                Allowance(g, r, c) + PollInterval <= Allowance(h, q, d)
           /\ c + 1 <= d =>
                Allowance(g, r, c) + PollInterval + MaxDown <= Allowance(h, q, d)
  <1>1. /\ PollInterval \in Nat /\ TTL \in Nat /\ BatchSize \in Nat \ {0}
        /\ MaxDown \in Nat
    BY TimingConstants
  <1>2. PICK m \in Nat : m = g \div BatchSize
    BY <1>1, QuotientNat
  <1>3. PICK n \in Nat : n = h \div BatchSize
    BY <1>1, QuotientNat
  <1>4. m <= n /\ (g + BatchSize <= h => m + 1 <= n)
    BY <1>1, <1>2, <1>3, QuotientGrows
  <1>5. PICK i \in Nat : i = 1 + m + r + c
    OBVIOUS
  <1>6. PICK j \in Nat : j = 1 + n + q + d
    OBVIOUS
  <1>7. PICK x \in Nat : x = PollInterval * i
    BY <1>1, ProductNat
  <1>8. PICK y \in Nat : y = PollInterval * j
    BY <1>1, ProductNat
  <1>9. PICK u \in Nat : u = c * MaxDown
    BY <1>1, ProductNat
  <1>10. PICK v \in Nat : v = d * MaxDown
    BY <1>1, ProductNat
  <1>11. Allowance(g, r, c) = TTL + x + u /\ Allowance(h, q, d) = TTL + y + v
    BY <1>2, <1>3, <1>5, <1>6, <1>7, <1>8, <1>9, <1>10 DEF Allowance
  <1>12. PollInterval <= x
    <2>1. PollInterval * 1 <= PollInterval * i
      BY <1>1, <1>5, ProductGrows
    <2>2. QED
      BY <1>1, <1>7, <2>1
  <1>13. x <= y
    BY <1>1, <1>4, <1>5, <1>6, <1>7, <1>8, ProductGrows
  <1>14. i + 1 <= j => x + PollInterval <= y
    <2> SUFFICES ASSUME i + 1 <= j PROVE x + PollInterval <= y
      OBVIOUS
    <2>1. PollInterval * (i + 1) <= PollInterval * j
      BY <1>1, ProductGrows
    <2>2. PollInterval * (i + 1) = PollInterval * i + PollInterval
      BY <1>1, OneMore
    <2>3. QED
      BY <1>7, <1>8, <2>1, <2>2
  <1>15. u <= v
    <2>1. MaxDown * c <= MaxDown * d
      BY <1>1, ProductGrows
    <2>2. MaxDown * c = c * MaxDown /\ MaxDown * d = d * MaxDown
      BY <1>1
    <2>3. QED
      BY <1>9, <1>10, <2>1, <2>2
  <1>16. c + 1 <= d => u + MaxDown <= v
    <2> SUFFICES ASSUME c + 1 <= d PROVE u + MaxDown <= v
      OBVIOUS
    <2>1. MaxDown * (c + 1) <= MaxDown * d
      BY <1>1, ProductGrows
    <2>2. MaxDown * (c + 1) = MaxDown * c + MaxDown
      BY <1>1, OneMore
    <2>3. MaxDown * c = c * MaxDown /\ MaxDown * d = d * MaxDown
      BY <1>1
    <2>4. QED
      BY <1>9, <1>10, <2>1, <2>2, <2>3
  <1>17. (g + BatchSize <= h \/ r + 1 <= q) => i + 1 <= j
    BY <1>4, <1>5, <1>6
  <1>18. c + 1 <= d => i + 1 <= j
    BY <1>4, <1>5, <1>6
  <1>19. QED
    BY <1>1, <1>11, <1>12, <1>13, <1>14, <1>15, <1>16, <1>17, <1>18


\* Keys that have no deadline, and will not get one.
Gone == {k \in Keys : Known(k) /\ deadline[k] = Never}

Horizon == Allowance(Cardinality(Gone), refusals, crashes)

\* The next poll is on time for a key whose first event arrived at t.
OnTime(t) ==
    IF Running THEN nextPoll <= t + Horizon ELSE back + PollInterval <= t + Horizon

Ticker ==
    /\ nextPoll \in Nat /\ back \in Nat \cup {Never}
    /\ refusals \in 0 .. MaxRefusals /\ crashes \in 0 .. MaxCrashes
    /\ Running => now <= nextPoll /\ nextPoll <= now + PollInterval
    /\ ~Running => now <= back

\* The event that scheduled the timeout of a key is its first one.
FirstEvent(k, f) ==
    /\ f[1] = k
    /\ deadline[k] = (f[3] + TTL) \div Second
    /\ \A e \in arrived : e[1] = k => f[3] <= e[3]

Schedule ==
    /\ deadline \in [Keys -> Int]
    /\ \A k \in Keys : deadline[k] # Never =>
         Known(k) /\ \E f \in arrived : FirstEvent(k, f) /\ OnTime(f[3])

Incomplete == \A k \in Keys : Cardinality(Live(cell[k])) < N

\* A key is answered, or it has a deadline and an event in its row.
Unanswered ==
    \A k \in Keys \ shadowed : (\E e \in arrived : e[1] = k) =>
        \/ \E d \in out : d.key = k
        \/ deadline[k] # Never /\ \E s \in StreamIDs : cell[k][s] # Never

AnswerInv ==
    ClockInv /\ Ticker /\ KnownArrivals /\ Schedule /\ Incomplete /\ Unanswered

\* A join of two streams or more.
SeveralStreams == IsFiniteSet(StreamIDs) /\ 2 <= N

\* There are finitely many keys without a deadline.
LEMMA GoneFinite == IsFiniteSet(Gone) /\ Cardinality(Gone) \in Nat
  <1>1. Gone \in SUBSET Keys /\ IsFiniteSet(Keys)
    BY TimingConstants DEF Gone
  <1>2. IsFiniteSet(Gone)
    BY <1>1, FS_Subset
  <1>3. QED
    BY <1>2, FS_CardinalityType

\* The polls take long enough for a key to come due.
LEMMA HorizonLeast == ASSUME Ticker PROVE Horizon \in Nat /\ TTL + PollInterval <= Horizon
  <1>1. PICK g \in Nat : g = Cardinality(Gone)
    BY GoneFinite
  <1>2. refusals \in Nat /\ crashes \in Nat
    BY TimingConstants DEF Ticker
  <1>3. /\ Allowance(g, refusals, crashes) \in Nat
        /\ TTL + PollInterval <= Allowance(g, refusals, crashes)
    BY <1>2, AllowanceGrows
  <1>4. QED
    BY <1>1, <1>3 DEF Horizon

\* A key that has a deadline is not among the keys without one.
LEMMA HorizonBound ==
    ASSUME Ticker, NEW k \in Keys, deadline[k] # Never PROVE Horizon <= Bound
  <1>1. PICK g \in Nat : g = Cardinality(Gone)
    BY GoneFinite
  <1>2. PICK n \in Nat : n = Cardinality(Keys)
    BY FS_CardinalityType, TimingConstants
  <1>3. g + 1 <= n
    <2>1. k \notin Gone /\ IsFiniteSet(Gone) /\ Gone \cup {k} \in SUBSET Keys
      BY GoneFinite DEF Gone
    <2>2. Cardinality(Gone \cup {k}) = g + 1
      BY <1>1, <2>1, FS_AddElement
    <2>3. Cardinality(Gone \cup {k}) <= n
      BY <1>2, <2>1, FS_Subset, TimingConstants
    <2>4. QED
      BY <2>2, <2>3
  <1>4. refusals \in Nat /\ crashes \in Nat /\ refusals <= MaxRefusals
        /\ crashes <= MaxCrashes /\ MaxRefusals \in Nat /\ MaxCrashes \in Nat
        /\ BatchSize \in Nat \ {0} /\ PollInterval \in Nat /\ MaxDown \in Nat /\ TTL \in Nat
    BY TimingConstants DEF Ticker
  <1>5. PICK h \in Nat : n = h + 1
    <2>1. n - 1 \in Nat /\ n = (n - 1) + 1
      BY <1>3
    <2>2. QED
      BY <2>1
  <1>6. Allowance(g, refusals, crashes) <= Allowance(h, MaxRefusals, MaxCrashes)
    BY <1>3, <1>4, <1>5, AllowanceGrows
  <1>7. PICK m \in Nat : m = h \div BatchSize
    BY <1>4, QuotientNat
  <1>8. (n + BatchSize - 1) \div BatchSize = 1 + m
    <2>1. n + BatchSize - 1 = h + BatchSize
      BY <1>4, <1>5
    <2>2. (h + BatchSize) \div BatchSize = m + 1
      BY <1>4, <1>7, QuotientGrows
    <2>3. QED
      BY <2>1, <2>2
  <1>9. Bound = Allowance(h, MaxRefusals, MaxCrashes)
    BY <1>2, <1>7, <1>8 DEF Bound, Allowance
  <1>10. QED
    BY <1>1, <1>6, <1>9 DEF Horizon

\* The next poll comes in time for every deadline, before its events expire.
LEMMA WithinBound ==
    ASSUME AnswerInv, NEW k \in Keys, deadline[k] # Never
    PROVE  /\ \A e \in arrived : e[1] = k => now <= e[3] + Bound
           /\ \A s \in StreamIDs : cell[k][s] # Never => now < cell[k][s] + RowTTL
  <1>1. PICK f \in arrived : FirstEvent(k, f) /\ OnTime(f[3])
    BY DEF AnswerInv, Schedule
  <1>2. /\ now \in Nat /\ f[3] \in Nat /\ nextPoll \in Nat
        /\ PollInterval \in Nat /\ RowTTL \in Nat /\ Bound < RowTTL
        /\ \A e \in arrived : e[3] \in Nat
    BY TimingConstants DEF AnswerInv, ClockInv, Ticker
  <1>3. Horizon \in Nat /\ Horizon <= Bound
    BY HorizonLeast, HorizonBound DEF AnswerInv
  <1>b. Bound \in Int
    BY RowOutlivesJoin
  <1>4. now <= f[3] + Horizon
    <2>1. CASE Running
      BY <1>1, <1>2, <1>3, <2>1 DEF OnTime, AnswerInv, Ticker
    <2>2. CASE ~Running
      <3>1. back \in Nat /\ now <= back /\ back + PollInterval <= f[3] + Horizon
        BY <1>1, <2>2 DEF OnTime, AnswerInv, Ticker, Running
      <3>2. QED
        BY <1>2, <1>3, <3>1
    <2>3. QED
      BY <2>1, <2>2
  <1>5. now <= f[3] + Bound
    BY <1>2, <1>3, <1>b, <1>4
  <1>6. ASSUME NEW e \in arrived, e[1] = k PROVE now <= e[3] + Bound
    <2>1. f[3] <= e[3] /\ e[3] \in Nat
      BY <1>1, <1>2, <1>6 DEF FirstEvent
    <2>2. QED
      BY <1>2, <1>b, <1>5, <2>1
  <1>7. ASSUME NEW s \in StreamIDs, cell[k][s] # Never
        PROVE  now < cell[k][s] + RowTTL
    <2>1. PICK e \in arrived : e[1] = k /\ e[3] = cell[k][s]
      <3>1. <<k, s, cell[k][s]>> \in arrived
        BY <1>7 DEF AnswerInv, ClockInv
      <3>2. QED
        BY <3>1
    <2>2. now <= e[3] + Bound /\ e[3] \in Nat
      BY <1>2, <1>6, <2>1
    <2>3. QED
      BY <1>2, <1>b, <2>1, <2>2
  <1>8. QED
    BY <1>6, <1>7

\* A key that will get no deadline stays without one.
LEMMA GoneStays ==
    ASSUME Schedule, [TimingNext]_clockVars PROVE Gone \subseteq Gone'
  <1>1. ASSUME NEW k \in Keys, NEW s \in StreamIDs, Handle(k, s) PROVE Gone \subseteq Gone'
    <2>1. filter \subseteq filter' /\ \A j \in Gone : deadline'[j] = Never
      <3>1. CASE FirstArrival(k, s)
        BY <3>1 DEF FirstArrival, Gone, Known, Schedule
      <3>2. CASE LaterArrival(k, s)
        BY <3>2 DEF LaterArrival, Gone
      <3>3. QED
        BY <1>1, <3>1, <3>2 DEF Handle
    <2>2. QED
      BY <2>1 DEF Gone, Known
  <1>2. ASSUME ProcessDue PROVE Gone \subseteq Gone'
    <2>1. PICK left :
            deadline' = [k \in Keys |-> IF k \in left THEN Never ELSE deadline[k]]
      BY <1>2 DEF ProcessDue, Round
    <2>2. filter' = filter
      BY <1>2 DEF ProcessDue
    <2>3. QED
      BY <2>1, <2>2 DEF Gone, Known
  <1>3. ASSUME UNCHANGED <<filter, deadline>> PROVE Gone \subseteq Gone'
    BY <1>3 DEF Gone, Known
  <1>4. QED
    BY <1>1, <1>2, <1>3 DEF TimingNext, Crash, Restart, Tick, clockVars

\* What a step adds to the horizon.
LEMMA HorizonGrows ==
    ASSUME Ticker, Ticker', Gone \subseteq Gone',
           refusals <= refusals', crashes <= crashes'
    PROVE  /\ Horizon \in Nat /\ Horizon' \in Nat
           /\ TTL + PollInterval <= Horizon'
           /\ Horizon <= Horizon'
           /\ (\/ Cardinality(Gone) + BatchSize <= Cardinality(Gone')
               \/ refusals + 1 <= refusals') => Horizon + PollInterval <= Horizon'
           /\ crashes + 1 <= crashes' => Horizon + PollInterval + MaxDown <= Horizon'
  <1>1. PICK g \in Nat : g = Cardinality(Gone)
    BY GoneFinite
  <1>2. Gone' \in SUBSET Keys /\ IsFiniteSet(Keys)
    BY TimingConstants DEF Gone
  <1>3. IsFiniteSet(Gone')
    BY <1>2, FS_Subset
  <1>4. PICK h \in Nat : h = Cardinality(Gone')
    BY <1>3, FS_CardinalityType
  <1>5. g <= h
    BY <1>1, <1>3, <1>4, FS_Subset
  <1>6. /\ refusals \in Nat /\ crashes \in Nat /\ refusals' \in Nat /\ crashes' \in Nat
        /\ MaxDown \in Nat /\ PollInterval \in Nat /\ TTL \in Nat
    BY TimingConstants DEF Ticker
  <1>7. PICK r \in Nat, q \in Nat, c \in Nat, d \in Nat :
          r = refusals /\ q = refusals' /\ c = crashes /\ d = crashes'
    BY <1>6
  <1>8. Horizon = Allowance(g, r, c) /\ Horizon' = Allowance(h, q, d)
    BY <1>1, <1>4, <1>7 DEF Horizon, Allowance
  <1>9. r <= q /\ c <= d
    BY <1>7
  <1>10. /\ Allowance(g, r, c) \in Nat
         /\ Allowance(g, r, c) <= Allowance(h, q, d)
         /\ (g + BatchSize <= h \/ r + 1 <= q) =>
              Allowance(g, r, c) + PollInterval <= Allowance(h, q, d)
         /\ c + 1 <= d =>
              Allowance(g, r, c) + PollInterval + MaxDown <= Allowance(h, q, d)
    BY <1>5, <1>9, AllowanceGrows
  <1>11. Allowance(h, q, d) \in Nat /\ TTL + PollInterval <= Allowance(h, q, d)
    BY AllowanceGrows
  <1>12. QED
    BY <1>1, <1>4, <1>7, <1>8, <1>10, <1>11

\* The ticker and the bounded faults.
LEMMA TickerStep ==
    ASSUME ClockInv, Ticker, [TimingNext]_clockVars
    PROVE  Ticker' /\ refusals <= refusals' /\ crashes <= crashes'
  <1>1. /\ now \in Nat /\ nextPoll \in Nat /\ refusals \in Nat /\ crashes \in Nat
        /\ PollInterval \in Nat /\ MaxRefusals \in Nat /\ MaxCrashes \in Nat
        /\ MaxDown \in Nat
    BY TimingConstants DEF ClockInv, Ticker
  <1>2. CASE UNCHANGED <<now, nextPoll, back, refusals, crashes>>
    BY <1>1, <1>2 DEF Ticker, Running
  <1>3. CASE ProcessDue
    <2>1. PICK refused \in SUBSET Keys :
            refusals' = refusals + Cardinality(refused) /\ refusals' <= MaxRefusals
      <3>1. PICK batch \in Batches :
              \E refused \in SUBSET {k \in batch : Answerable(k)} :
                /\ refusals' = refusals + Cardinality(refused)
                /\ refusals' <= MaxRefusals
        BY <1>3 DEF ProcessDue
      <3>2. batch \in SUBSET Keys
        BY <3>1 DEF Batches, DueKeys
      <3>3. QED
        BY <3>1, <3>2
    <2>2. Cardinality(refused) \in Nat
      BY FS_Subset, FS_CardinalityType, TimingConstants
    <2>3. UNCHANGED <<now, back, crashes>> /\ nextPoll' = now + PollInterval /\ Running
      BY <1>3 DEF ProcessDue
    <2>4. QED
      BY <1>1, <2>1, <2>2, <2>3 DEF Ticker, Running
  <1>4. CASE Crash
    <2>1. PICK d \in 0 .. MaxDown : back' = now + d
      BY <1>4 DEF Crash
    <2>2. back' \in Nat /\ back' # Never /\ now <= back'
      BY <1>1, <2>1 DEF Never
    <2>3. QED
      BY <1>1, <1>4, <2>2 DEF Crash, Ticker, Running
  <1>5. CASE Restart
    BY <1>1, <1>5 DEF Restart, Ticker, Running
  <1>6. CASE Tick
    <2>1. CASE Running
      BY <1>1, <1>6, <2>1 DEF Tick, Ticker, Running
    <2>2. CASE ~Running
      <3>1. back \in Nat /\ now < back
        BY <1>6, <2>2 DEF Tick, Ticker, Running
      <3>2. QED
        BY <1>1, <1>6, <2>2, <3>1 DEF Tick, Ticker, Running
    <2>3. QED
      BY <2>1, <2>2
  <1>7. QED
    BY <1>2, <1>3, <1>4, <1>5, <1>6 DEF TimingNext, Handle, clockVars

\* A row has finitely many live cells.
LEMMA LiveFinite ==
    ASSUME SeveralStreams, NEW row
    PROVE  /\ IsFiniteSet(Live(row)) /\ Cardinality(Live(row)) \in Nat
           /\ \A cells \in SUBSET Live(row) :
                Cardinality(cells) \in Nat /\ Cardinality(cells) <= Cardinality(Live(row))
  <1>1. Live(row) \in SUBSET StreamIDs
    BY DEF Live
  <1>2. IsFiniteSet(Live(row))
    BY <1>1, FS_Subset DEF SeveralStreams
  <1>3. Cardinality(Live(row)) \in Nat
    BY <1>2, FS_CardinalityType
  <1>4. ASSUME NEW cells \in SUBSET Live(row)
        PROVE  Cardinality(cells) \in Nat /\ Cardinality(cells) <= Cardinality(Live(row))
    BY <1>2, FS_Subset, FS_CardinalityType
  <1>5. QED
    BY <1>2, <1>3, <1>4

\* A row that loses cells stays incomplete, ...
LEMMA FewerCells ==
    ASSUME SeveralStreams, NEW row, Cardinality(Live(row)) < N,
           NEW cells \in SUBSET Live(row)
    PROVE  Cardinality(cells) < N
  <1>1. /\ Cardinality(cells) \in Nat /\ Cardinality(Live(row)) \in Nat /\ N \in Nat
        /\ Cardinality(cells) <= Cardinality(Live(row))
    BY LiveFinite, TimingConstants
  <1>2. QED
    BY <1>1

\* ... and every complete row is emptied by the handler that sees it.
LEMMA IncompleteStep ==
    ASSUME SeveralStreams, ClockInv, ClockInv', KnownArrivals, Incomplete,
           [TimingNext]_clockVars
    PROVE  Incomplete'
  <1>0. /\ now \in Nat /\ cell \in [Keys -> [StreamIDs -> Int]] /\ RowTTL \in Nat
        /\ N \in Nat /\ 2 <= N
    BY TimingConstants DEF ClockInv, SeveralStreams
  <1>1. ASSUME NEW k \in Keys, NEW s \in StreamIDs, Handle(k, s), NEW j \in Keys
        PROVE  Cardinality(Live(cell[j])') < N
    <2>0. now' = now
      BY <1>1, HandleArrives
    <2>1. PICK row :
            /\ row = [cell[k] EXCEPT ![s] = now]
            /\ row \in [StreamIDs -> Int] /\ row[s] = now
            /\ \A r \in StreamIDs \ {s} : row[r] = cell[k][r]
            /\ cell' \in [Keys -> [StreamIDs -> Int]]
            /\ \A i \in Keys \ {k} : cell'[i] = cell[i]
            /\ cell'[k] = row \/ cell'[k] = Empty
      <3>1. PICK row : row = [cell[k] EXCEPT ![s] = now]
        OBVIOUS
      <3>2. QED
        BY <1>1, <3>1, RowMoves
    <2>2. CASE j # k
      <3>1. Live(cell[j])' = Live(cell[j])
        BY <2>0, <2>1, <2>2 DEF Live
      <3>2. QED
        BY <3>1 DEF Incomplete
    <2>3. CASE j = k /\ cell'[k] = Empty
      <3>1. Live(cell[j])' = {}
        BY <2>3 DEF Live, Empty
      <3>2. Cardinality({}) = 0
        BY FS_EmptySet
      <3>3. QED
        BY <1>0, <3>1, <3>2
    <2>4. CASE j = k /\ cell'[k] # Empty
      <3>1. cell'[k] = row
        BY <2>1, <2>4
      <3>2. Live(cell[j])' = Live(row)
        BY <2>0, <2>4, <3>1 DEF Live
      <3>3. CASE FirstArrival(k, s)
        <4>1. \A r \in StreamIDs : cell[k][r] = Never
          <5> SUFFICES ASSUME NEW r \in StreamIDs, cell[k][r] # Never PROVE FALSE
            OBVIOUS
          <5>1. <<k, r, cell[k][r]>> \in arrived
            BY DEF ClockInv
          <5>2. Known(k)
            BY <5>1 DEF KnownArrivals
          <5>3. QED
            BY <3>3, <5>2 DEF FirstArrival
        <4>2. \A r \in Live(row) : r = s
          BY <2>1, <4>1 DEF Live
        <4>3. Live(row) = {} \/ Live(row) = {s}
          BY <4>2
        <4>4. Cardinality({}) = 0 /\ Cardinality({s}) = 1
          BY FS_EmptySet, FS_Singleton
        <4>5. CASE Live(row) = {}
          BY <1>0, <3>2, <4>4, <4>5
        <4>6. CASE Live(row) = {s}
          BY <1>0, <3>2, <4>4, <4>6
        <4>7. QED
          BY <4>3, <4>5, <4>6
      <3>4. CASE LaterArrival(k, s)
        <4>1. PICK complete \in BOOLEAN, late \in BOOLEAN :
                /\ complete <=> Cardinality(Live(row)) >= N
                /\ cell' = [cell EXCEPT ![k] = IF complete \/ late THEN Empty
                                                                   ELSE row]
          BY <2>1, <3>4 DEF LaterArrival
        <4>2. ~complete
          <5>1. complete => cell'[k] = Empty
            BY <1>0, <4>1
          <5>2. QED
            BY <2>4, <5>1
        <4>3. Cardinality(Live(row)) \in Nat
          BY LiveFinite
        <4>4. QED
          BY <1>0, <3>2, <4>1, <4>2, <4>3
      <3>5. QED
        BY <1>1, <3>3, <3>4 DEF Handle
    <2>5. QED
      BY <2>2, <2>3, <2>4
  <1>2. ASSUME ProcessDue, NEW j \in Keys PROVE Cardinality(Live(cell[j])') < N
    <2>1. PICK answered :
            cell' = [k \in Keys |-> IF k \in answered THEN Empty ELSE cell[k]]
      BY <1>2 DEF ProcessDue, Round
    <2>2. now' = now
      BY <1>2 DEF ProcessDue
    <2>3. Live(cell[j])' \in SUBSET Live(cell[j])
      BY <2>1, <2>2 DEF Live, Empty
    <2>4. QED
      BY <2>3, FewerCells DEF Incomplete
  <1>3. ASSUME UNCHANGED cell, now' = now \/ now' = now + 1, NEW j \in Keys
        PROVE  Cardinality(Live(cell[j])') < N
    <2>1. Live(cell[j])' \in SUBSET Live(cell[j])
      BY <1>0, <1>3 DEF Live
    <2>2. QED
      BY <2>1, FewerCells DEF Incomplete
  <1>4. ASSUME NEW j \in Keys PROVE Cardinality(Live(cell[j])') < N
    BY <1>1, <1>2, <1>3 DEF TimingNext, Crash, Restart, Tick, clockVars
  <1>5. QED
    BY <1>4 DEF Incomplete

\* Whatever happens between two polls, the next one is on time.
LEMMA OnTimeStays ==
    ASSUME ClockInv, Ticker, Ticker', Gone \subseteq Gone',
           refusals <= refusals', crashes <= crashes',
           \/ UNCHANGED <<nextPoll, back>>
           \/ Crash
           \/ Restart,
           NEW t \in Nat, OnTime(t)
    PROVE  OnTime(t)'
  <1>0. PICK h \in Nat, i \in Nat :
          /\ h = Horizon /\ i = Horizon' /\ h <= i
          /\ crashes + 1 <= crashes' => h + PollInterval + MaxDown <= i
    BY HorizonGrows
  <1>1. h <= i /\ (crashes + 1 <= crashes' => h + PollInterval + MaxDown <= i)
    BY <1>0
  <1>2. /\ now \in Nat /\ nextPoll \in Nat /\ PollInterval \in Nat /\ MaxDown \in Nat
        /\ crashes \in Nat
    BY TimingConstants DEF ClockInv, Ticker
  <1>3. CASE UNCHANGED <<nextPoll, back>>
    <2>1. CASE Running
      <3>1. nextPoll <= t + h /\ nextPoll' = nextPoll /\ Running'
        BY <1>0, <1>3, <2>1 DEF OnTime, Running
      <3>2. nextPoll' <= t + i
        BY <1>1, <1>2, <3>1
      <3>3. QED
        BY <1>0, <3>1, <3>2 DEF OnTime
    <2>2. CASE ~Running
      <3>1. back \in Nat
        BY <2>2 DEF Ticker, Running
      <3>2. back + PollInterval <= t + h /\ back' = back /\ ~Running'
        BY <1>0, <1>3, <2>2 DEF OnTime, Running
      <3>3. back' + PollInterval <= t + i
        BY <1>1, <1>2, <3>1, <3>2
      <3>4. QED
        BY <1>0, <3>2, <3>3 DEF OnTime
    <2>3. QED
      BY <2>1, <2>2
  <1>4. CASE Crash
    <2>1. PICK d \in 0 .. MaxDown : back' = now + d
      BY <1>4 DEF Crash
    <2>2. Running /\ now <= nextPoll /\ nextPoll <= t + h /\ crashes' = crashes + 1
      BY <1>0, <1>4 DEF Crash, OnTime, Ticker
    <2>3. h + PollInterval + MaxDown <= i
      BY <1>1, <1>2, <2>2
    <2>4. back' + PollInterval <= t + i /\ back' # Never
      BY <1>1, <1>2, <2>1, <2>2, <2>3 DEF Never
    <2>5. QED
      BY <1>0, <2>4 DEF OnTime, Running
  <1>5. CASE Restart
    <2>1. back = now /\ back' = Never /\ nextPoll' = now + PollInterval
      BY <1>5 DEF Restart
    <2>2. ~Running
      BY <1>2, <2>1 DEF Running, Never
    <2>3. back + PollInterval <= t + h
      BY <1>0, <2>2 DEF OnTime
    <2>4. nextPoll' <= t + i
      BY <1>1, <1>2, <2>1, <2>3
    <2>5. QED
      BY <1>0, <2>1, <2>4 DEF OnTime, Running
  <1>6. QED
    BY <1>3, <1>4, <1>5

\* What a poll takes out of the set: a whole batch, or what is due; a key that is
\* left was refused, or is not in front.
LEMMA PollTakes ==
    ASSUME ClockInv, Schedule, Ticker, ProcessDue
    PROVE  \E batch \in SUBSET DueKeys : \E refused \in SUBSET batch :
             /\ Round(batch, refused)
             /\ \A k \in refused : Answerable(k)
             /\ refusals' = refusals + Cardinality(refused)
             /\ IsFiniteSet(batch) /\ IsFiniteSet(refused)
             /\ batch # DueKeys => Cardinality(batch) = BatchSize
  <1>0. PICK batch \in Batches :
          \E refused \in SUBSET {k \in batch : Answerable(k)} :
            refusals' = refusals + Cardinality(refused) /\ Round(batch, refused)
    BY DEF ProcessDue
  <1>1. PICK refused \in SUBSET batch :
          /\ Round(batch, refused)
          /\ \A k \in refused : Answerable(k)
          /\ refusals' = refusals + Cardinality(refused)
    BY <1>0
  <1>2. batch \in SUBSET DueKeys /\ batch \in SUBSET Keys /\ refused \in SUBSET Keys
    BY <1>0, <1>1 DEF Batches, DueKeys
  <1>3. IsFiniteSet(batch) /\ IsFiniteSet(refused) /\ Cardinality(batch) \in Nat
    BY <1>2, FS_Subset, FS_CardinalityType, TimingConstants
  <1>4. /\ Cardinality(batch) <= BatchSize
        /\ Cardinality(batch) < BatchSize => batch = DueKeys
    BY <1>0 DEF Batches
  <1>5. BatchSize \in Nat
    BY TimingConstants
  <1>6. batch # DueKeys => Cardinality(batch) = BatchSize
    BY <1>3, <1>4, <1>5
  <1>7. QED
    BY <1>1, <1>2, <1>3, <1>6

\* A poll that leaves a due key in the set was held up by refused produces, or by
\* a whole batch of other keys, which will not come back.
LEMMA PollOnTime ==
    ASSUME ClockInv, Ticker, Ticker', Schedule, ProcessDue, Gone \subseteq Gone',
           refusals <= refusals', crashes <= crashes',
           NEW k \in Keys, deadline'[k] # Never,
           NEW f \in arrived, FirstEvent(k, f), OnTime(f[3])
    PROVE  OnTime(f[3])'
  <1>0. PICK h \in Nat, i \in Nat :
          /\ h = Horizon /\ i = Horizon' /\ TTL + PollInterval <= i
          /\ (\/ Cardinality(Gone) + BatchSize <= Cardinality(Gone')
              \/ refusals + 1 <= refusals') => h + PollInterval <= i
    BY HorizonGrows
  <1>1. /\ TTL + PollInterval <= i
        /\ (\/ Cardinality(Gone) + BatchSize <= Cardinality(Gone')
            \/ refusals + 1 <= refusals') => h + PollInterval <= i
    BY <1>0
  <1>2. /\ now \in Nat /\ PollInterval \in Nat /\ TTL \in Nat /\ Second \in Nat \ {0}
        /\ f[3] \in Nat /\ refusals \in Nat /\ BatchSize \in Nat \ {0}
    BY TimingConstants DEF ClockInv, Ticker
  <1>3. Running /\ now = nextPoll /\ nextPoll' = now + PollInterval /\ back' = back
    BY DEF ProcessDue
  <1>4. now <= f[3] + h
    BY <1>0, <1>3 DEF OnTime
  <1>5. PICK batch \in SUBSET DueKeys :
          \E refused \in SUBSET batch :
             /\ Round(batch, refused)
             /\ \A j \in refused : Answerable(j)
             /\ refusals' = refusals + Cardinality(refused)
             /\ IsFiniteSet(batch) /\ IsFiniteSet(refused)
             /\ batch # DueKeys => Cardinality(batch) = BatchSize
    BY PollTakes
  <1>6. PICK refused \in SUBSET batch :
             /\ Round(batch, refused)
             /\ refusals' = refusals + Cardinality(refused)
             /\ IsFiniteSet(batch) /\ IsFiniteSet(refused)
             /\ batch # DueKeys => Cardinality(batch) = BatchSize
    BY <1>5
  <1>7. deadline' = [j \in Keys |-> IF j \in batch \ refused THEN Never ELSE deadline[j]]
    BY <1>6 DEF Round
  <1>8. k \notin batch \ refused /\ deadline[k] # Never
    BY <1>7
  <1>9. CASE k \notin DueKeys
    <2>1. ~(deadline[k] <= now \div Second)
      BY <1>8, <1>9 DEF DueKeys
    <2>2. PICK due \in Nat : due = f[3] + TTL
      BY <1>2
    <2>3. deadline[k] = due \div Second
      BY <2>2 DEF FirstEvent
    <2>4. ~(due <= now)
      BY <1>2, <2>1, <2>3, QuotientGrows
    <2>5. nextPoll' <= f[3] + i
      BY <1>1, <1>2, <1>3, <2>2, <2>4
    <2>6. QED
      BY <1>0, <1>3, <2>5 DEF OnTime, Running
  <1>10. CASE refused # {}
    <2>1. Cardinality(refused) \in Nat /\ Cardinality(refused) # 0
      BY <1>6, <1>10, FS_EmptySet, FS_CardinalityType
    <2>2. refusals + 1 <= refusals'
      BY <1>2, <1>6, <2>1
    <2>3. nextPoll' <= f[3] + i
      BY <1>1, <1>2, <1>3, <1>4, <2>2
    <2>4. QED
      BY <1>0, <1>3, <2>3 DEF OnTime, Running
  <1>11. CASE k \in DueKeys /\ refused = {}
    <2>1. Cardinality(batch) = BatchSize
      BY <1>6, <1>8, <1>11
    <2>2. batch \subseteq Gone' /\ batch \cap Gone = {}
      <3>1. \A j \in batch : j \in Keys /\ deadline[j] # Never
        BY DEF DueKeys
      <3>2. \A j \in batch : Known(j)
        BY <3>1 DEF Schedule
      <3>3. filter' = filter
        BY DEF ProcessDue
      <3>4. \A j \in batch : deadline'[j] = Never
        BY <1>7, <1>11, <3>1
      <3>5. QED
        BY <3>1, <3>2, <3>3, <3>4 DEF Gone, Known
    <2>3. Cardinality(Gone \cup batch) = Cardinality(Gone) + BatchSize
      <3>1. IsFiniteSet(Gone) /\ Cardinality(Gone) \in Nat /\ Cardinality({}) = 0
        BY GoneFinite, FS_EmptySet
      <3>2. Cardinality(Gone \cup batch)
              = Cardinality(Gone) + Cardinality(batch) - Cardinality(Gone \cap batch)
        BY <1>6, <3>1, FS_Union
      <3>3. Cardinality(Gone \cap batch) = 0
        <4>1. PICK both : both = Gone \cap batch
          OBVIOUS
        <4>2. both = {}
          BY <2>2, <4>1
        <4>3. QED
          BY <3>1, <4>1, <4>2
      <3>4. PICK g, n, c, z :
              /\ g \in Nat /\ n \in Nat
              /\ g = Cardinality(Gone) /\ n = Cardinality(batch)
              /\ c = Cardinality(Gone \cup batch) /\ z = Cardinality(Gone \cap batch)
        BY <1>2, <2>1, <3>1
      <3>5. c = g + n - z /\ z = 0 /\ n = BatchSize
        BY <2>1, <3>2, <3>3, <3>4
      <3>6. c = g + BatchSize
        <4>1. g \in Nat /\ n \in Nat
          BY <3>4
        <4>2. QED
          BY <3>5, <4>1
      <3>7. QED
        BY <3>4, <3>6
    <2>4. Cardinality(Gone \cup batch) <= Cardinality(Gone')
      <3>1. Gone' \in SUBSET Keys /\ IsFiniteSet(Keys)
        BY TimingConstants DEF Gone
      <3>2. IsFiniteSet(Gone')
        BY <3>1, FS_Subset
      <3>3. Gone \cup batch \in SUBSET Gone'
        BY <2>2
      <3>4. QED
        BY <3>2, <3>3, FS_Subset
    <2>5. Cardinality(Gone) + BatchSize <= Cardinality(Gone')
      BY <2>3, <2>4
    <2>6. nextPoll' <= f[3] + i
      BY <1>1, <1>2, <1>3, <1>4, <2>5
    <2>7. QED
      BY <1>0, <1>3, <2>6 DEF OnTime, Running
  <1>12. QED
    BY <1>9, <1>10, <1>11

\* The events of a key come with the Bloom filter knowing it.
LEMMA KnownStep ==
    ASSUME ClockInv, KnownArrivals, [TimingNext]_clockVars PROVE KnownArrivals'
  <1>1. ASSUME NEW k \in Keys, NEW s \in StreamIDs, Handle(k, s) PROVE KnownArrivals'
    <2>1. arrived' = arrived \cup {<<k, s, now>>}
      BY <1>1, HandleArrives
    <2>2. filter \subseteq filter' /\ BitsOf[k] \subseteq filter'
      BY <1>1 DEF Handle, FirstArrival, LaterArrival, Known
    <2>3. QED
      BY <2>1, <2>2 DEF KnownArrivals, Known
  <1>2. CASE UNCHANGED <<filter, arrived>>
    BY <1>2 DEF KnownArrivals, Known
  <1>3. QED
    BY <1>1, <1>2 DEF TimingNext, ProcessDue, Crash, Restart, Tick, clockVars

\* Every step keeps the polls on time.
LEMMA ScheduleStep ==
    ASSUME ClockInv, ClockInv', Ticker, KnownArrivals, Schedule, [TimingNext]_clockVars
    PROVE  Schedule'
  <1>0. /\ Ticker' /\ Gone \subseteq Gone' /\ refusals <= refusals'
        /\ crashes <= crashes'
    BY TickerStep, GoneStays
  <1>a. /\ deadline \in [Keys -> Int]
        /\ \A k \in Keys : deadline[k] # Never =>
             Known(k) /\ \E f \in arrived : FirstEvent(k, f) /\ OnTime(f[3])
    BY DEF Schedule
  <1>b. /\ now \in Nat /\ PollInterval \in Nat /\ TTL \in Nat /\ Second \in Nat \ {0}
        /\ nextPoll \in Nat /\ \A e \in arrived : e[3] \in Nat /\ e[3] <= now
        /\ Never \in Int /\ now + TTL \in Nat
    BY TimingConstants DEF ClockInv, Ticker, Never
  <1>1. ASSUME NEW k \in Keys, NEW s \in StreamIDs, Handle(k, s) PROVE Schedule'
    <2>1. /\ now' = now /\ nextPoll' = nextPoll /\ back' = back /\ Running
          /\ arrived' = arrived \cup {<<k, s, now>>}
      BY <1>1, HandleArrives DEF Handle
    <2>2. filter \subseteq filter' /\ BitsOf[k] \subseteq filter'
      BY <1>1 DEF Handle, FirstArrival, LaterArrival, Known
    <2>3. PICK f : f = <<k, s, now>>
      OBVIOUS
    <2>4. f \in arrived' /\ f[1] = k /\ f[3] = now /\ arrived' = arrived \cup {f}
      BY <2>1, <2>3
    <2>5. ASSUME NEW j \in Keys, deadline[j] # Never, deadline'[j] = deadline[j]
          PROVE  Known(j)' /\ \E e \in arrived' : FirstEvent(j, e)' /\ OnTime(e[3])'
      <3>1. PICK e \in arrived : FirstEvent(j, e) /\ OnTime(e[3])
        BY <1>a, <2>5
      <3>2. e[3] \in Nat /\ e[3] <= now
        BY <1>b
      <3>3. PICK t \in Nat : t = e[3]
        BY <3>2
      <3>4. OnTime(t)'
        BY <1>0, <2>1, <3>1, <3>3, OnTimeStays
      <3>5. OnTime(e[3])'
        BY <3>3, <3>4
      <3>6. \A g \in arrived' : g[1] = j => e[3] <= g[3]
        BY <2>4, <3>1, <3>2 DEF FirstEvent
      <3>7. FirstEvent(j, e)'
        BY <2>5, <3>1, <3>6 DEF FirstEvent
      <3>8. Known(j)'
        BY <1>a, <2>2, <2>5 DEF Known
      <3>9. e \in arrived'
        BY <2>4
      <3>10. QED
        BY <3>5, <3>7, <3>8, <3>9
    <2>6. CASE FirstArrival(k, s)
      <3>1. deadline' = [deadline EXCEPT ![k] = (now + TTL) \div Second]
        BY <2>6 DEF FirstArrival, Deadline
      <3>2. (now + TTL) \div Second \in Int
        BY <1>b, QuotientNat
      <3>3. deadline' \in [Keys -> Int]
        BY <1>a, <3>1, <3>2
      <3>4. \A e \in arrived : e[1] # k
        BY <2>6 DEF KnownArrivals, FirstArrival
      <3>5. FirstEvent(k, f)'
        <4>1. deadline'[k] = (f[3] + TTL) \div Second
          BY <1>a, <2>4, <3>1
        <4>2. \A g \in arrived' : g[1] = k => f[3] <= g[3]
          BY <1>b, <2>4, <3>4
        <4>3. QED
          BY <2>4, <4>1, <4>2 DEF FirstEvent
      <3>6. OnTime(f[3])'
        <4>1. PICK h : h = Horizon' /\ h \in Nat /\ TTL + PollInterval <= h
          BY <1>0, HorizonGrows
        <4>2. nextPoll <= now + PollInterval
          BY <2>1 DEF Ticker
        <4>3. h \in Nat /\ TTL + PollInterval <= h
          BY <4>1
        <4>4. nextPoll' <= f[3] + h
          BY <1>b, <2>1, <2>4, <4>2, <4>3
        <4>5. QED
          BY <2>1, <4>1, <4>4 DEF OnTime, Running
      <3>7. Known(k)'
        BY <2>2 DEF Known
      <3>8. ASSUME NEW j \in Keys, deadline'[j] # Never
            PROVE  Known(j)' /\ \E e \in arrived' : FirstEvent(j, e)' /\ OnTime(e[3])'
        <4>1. CASE j = k
          BY <2>4, <3>5, <3>6, <3>7, <4>1
        <4>2. CASE j # k
          <5>1. deadline'[j] = deadline[j]
            BY <1>a, <3>1, <4>2
          <5>2. QED
            BY <2>5, <3>8, <5>1
        <4>3. QED
          BY <4>1, <4>2
      <3>9. QED
        BY <3>3, <3>8 DEF Schedule
    <2>7. CASE LaterArrival(k, s)
      <3>1. deadline' = deadline
        BY <2>7 DEF LaterArrival
      <3>2. QED
        BY <1>a, <2>5, <3>1 DEF Schedule
    <2>8. QED
      BY <1>1, <2>6, <2>7 DEF Handle
  <1>2. ASSUME ProcessDue PROVE Schedule'
    <2>1. arrived' = arrived /\ filter' = filter
      BY <1>2 DEF ProcessDue
    <2>2. PICK left :
            deadline' = [k \in Keys |-> IF k \in left THEN Never ELSE deadline[k]]
      BY <1>2 DEF ProcessDue, Round
    <2>3. deadline' \in [Keys -> Int]
      BY <1>a, <1>b, <2>2
    <2>4. ASSUME NEW k \in Keys, deadline'[k] # Never
          PROVE  Known(k)' /\ \E f \in arrived' : FirstEvent(k, f)' /\ OnTime(f[3])'
      <3>1. deadline'[k] = deadline[k] /\ deadline[k] # Never
        BY <2>2, <2>4
      <3>2. PICK f \in arrived : FirstEvent(k, f) /\ OnTime(f[3])
        BY <1>a, <3>1
      <3>3. OnTime(f[3])'
        BY <1>0, <1>2, <2>4, <3>2, PollOnTime
      <3>4. FirstEvent(k, f)'
        BY <2>1, <3>1, <3>2 DEF FirstEvent
      <3>5. Known(k)'
        BY <1>a, <2>1, <3>1 DEF Known
      <3>6. QED
        BY <2>1, <3>3, <3>4, <3>5
    <2>5. QED
      BY <2>3, <2>4 DEF Schedule
  <1>3. ASSUME UNCHANGED <<arrived, filter, deadline>>,
               UNCHANGED <<nextPoll, back>> \/ Crash \/ Restart
        PROVE  Schedule'
    <2>1. ASSUME NEW k \in Keys, deadline'[k] # Never
          PROVE  Known(k)' /\ \E f \in arrived' : FirstEvent(k, f)' /\ OnTime(f[3])'
      <3>1. PICK f \in arrived : FirstEvent(k, f) /\ OnTime(f[3])
        BY <1>a, <1>3, <2>1
      <3>2. PICK t \in Nat : t = f[3]
        BY <1>b
      <3>3. OnTime(t)'
        BY <1>0, <1>3, <3>1, <3>2, OnTimeStays
      <3>4. FirstEvent(k, f)' /\ Known(k)' /\ OnTime(f[3])'
        BY <1>a, <1>3, <2>1, <3>1, <3>2, <3>3 DEF FirstEvent, Known
      <3>5. QED
        BY <1>3, <3>4
    <2>2. QED
      BY <1>3, <1>a, <2>1 DEF Schedule
  <1>4. QED
    BY <1>1, <1>2, <1>3 DEF TimingNext, Crash, Restart, Tick, clockVars

\* What a poll removes from the set without an answer has nothing in its row.
LEMMA RemovedIsAnswered ==
    ASSUME AnswerInv, SeveralStreams, NEW k \in Keys, deadline[k] # Never,
           ~Answerable(k)
    PROVE  \A s \in StreamIDs : cell[k][s] = Never
  <1>1. Cardinality(Live(cell[k])) < N
    BY DEF AnswerInv, Incomplete
  <1>2. Live(cell[k]) = {}
    BY <1>1 DEF Answerable
  <1>3. ASSUME NEW s \in StreamIDs, cell[k][s] # Never PROVE FALSE
    <2>1. now < cell[k][s] + RowTTL
      BY <1>3, WithinBound
    <2>2. s \in Live(cell[k])
      BY <1>3, <2>1 DEF Live
    <2>3. QED
      BY <1>2, <2>2
  <1>4. QED
    BY <1>3

\* What a handler leaves of a row: nothing, and a document, or the new event.
LEMMA LaterKeeps ==
    ASSUME ClockInv, NEW k \in Keys, NEW s \in StreamIDs,
           Handle(k, s), LaterArrival(k, s)
    PROVE  /\ (\E d \in out' : d.key = k) \/ cell'[k][s] # Never
           /\ k \in tracked => \A r \in StreamIDs : cell'[k][r] = Never
           /\ deadline' = deadline /\ shadowed \subseteq shadowed'
           /\ k \notin shadowed' => \E e \in arrived : e[1] = k
           /\ out \subseteq out'
           /\ tracked \ {k} \subseteq tracked'
  <1>1. PICK row : row = [cell[k] EXCEPT ![s] = now]
    OBVIOUS
  <1>2. cell \in [Keys -> [StreamIDs -> Int]] /\ row[s] = now /\ now # Never
    BY <1>1 DEF ClockInv, Never
  <1>3. PICK complete \in BOOLEAN, late \in BOOLEAN :
          /\ late <=> (~complete /\ k \in tracked)
          /\ out' = out \cup (IF complete THEN {Document("joined", k, row)}
                              ELSE IF late THEN {Document("late", k, row)} ELSE {})
          /\ cell' = [cell EXCEPT ![k] = IF complete \/ late THEN Empty ELSE row]
          /\ tracked' = IF late THEN tracked \ {k} ELSE tracked
    BY <1>1 DEF LaterArrival
  <1>4. \A kind : Document(kind, k, row).key = k
    BY DEF Document
  <1>5. (\E d \in out' : d.key = k) \/ cell'[k][s] # Never
    <2>1. CASE complete
      <3>1. Document("joined", k, row) \in out'
        BY <1>3, <2>1
      <3>2. QED
        BY <1>4, <3>1
    <2>2. CASE ~complete /\ late
      <3>1. Document("late", k, row) \in out'
        BY <1>3, <2>2
      <3>2. QED
        BY <1>4, <3>1
    <2>3. CASE ~complete /\ ~late
      BY <1>2, <1>3, <2>3
    <2>4. QED
      BY <2>1, <2>2, <2>3
  <1>6. k \in tracked => \A r \in StreamIDs : cell'[k][r] = Never
    <2>1. k \in tracked => cell'[k] = Empty
      BY <1>2, <1>3
    <2>2. QED
      BY <2>1 DEF Empty
  <1>7. /\ deadline' = deadline /\ shadowed \subseteq shadowed'
        /\ k \notin shadowed' => \E e \in arrived : e[1] = k
    BY DEF LaterArrival
  <1>8. out \subseteq out' /\ tracked \ {k} \subseteq tracked'
    BY <1>3
  <1>9. QED
    BY <1>5, <1>6, <1>7, <1>8

\* Every step keeps a key answered, or waiting for its timeout.
LEMMA UnansweredStep ==
    ASSUME AnswerInv, SeveralStreams, [TimingNext]_clockVars PROVE Unanswered'
  <1>0. /\ ClockInv /\ Schedule /\ Unanswered
        /\ cell \in [Keys -> [StreamIDs -> Int]] /\ now \in Nat
        /\ deadline \in [Keys -> Int]
    BY DEF AnswerInv, ClockInv, Schedule
  <1>1. ASSUME NEW k \in Keys, NEW s \in StreamIDs, Handle(k, s), NEW j \in Keys,
               j \notin shadowed', NEW e \in arrived', e[1] = j
        PROVE  \/ \E d \in out' : d.key = j
               \/ deadline'[j] # Never /\ \E r \in StreamIDs : cell'[j][r] # Never
    <2>1. arrived' = arrived \cup {<<k, s, now>>}
      BY <1>0, <1>1, HandleArrives
    <2>2. shadowed \subseteq shadowed' /\ out \subseteq out'
      BY <1>1 DEF Handle, FirstArrival, LaterArrival
    <2>3. CASE j # k
      <3>1. cell'[j] = cell[j]
        <4>1. PICK row : row = [cell[k] EXCEPT ![s] = now]
          OBVIOUS
        <4>2. \A i \in Keys \ {k} : cell'[i] = cell[i]
          BY <1>0, <1>1, <4>1, RowMoves
        <4>3. QED
          BY <2>3, <4>2
      <3>2. deadline'[j] = deadline[j]
        BY <1>0, <1>1, <2>3 DEF Handle, FirstArrival, LaterArrival
      <3>3. e \in arrived /\ j \notin shadowed
        BY <1>1, <2>1, <2>2, <2>3
      <3>4. \/ \E d \in out : d.key = j
            \/ deadline[j] # Never /\ \E r \in StreamIDs : cell[j][r] # Never
        BY <1>0, <1>1, <3>3 DEF Unanswered
      <3>5. QED
        BY <2>2, <3>1, <3>2, <3>4
    <2>4. CASE j = k /\ FirstArrival(k, s)
      <3>1. cell'[k][s] = now /\ now # Never
        BY <1>0, <2>4 DEF FirstArrival, Never
      <3>2. deadline'[k] = (now + TTL) \div Second
        BY <1>0, <2>4 DEF FirstArrival, Deadline
      <3>3. (now + TTL) \div Second \in Nat
        <4>1. now + TTL \in Nat /\ Second \in Nat \ {0}
          BY <1>0, TimingConstants
        <4>2. QED
          BY <4>1, QuotientNat
      <3>4. QED
        BY <2>4, <3>1, <3>2, <3>3 DEF Never
    <2>5. CASE j = k /\ LaterArrival(k, s)
      <3>1. /\ (\E d \in out' : d.key = k) \/ cell'[k][s] # Never
            /\ deadline' = deadline
            /\ \E g \in arrived : g[1] = k
        BY <1>0, <1>1, <2>5, LaterKeeps
      <3>2. \/ \E d \in out : d.key = k
            \/ deadline[k] # Never
        BY <1>1, <2>2, <2>5, <3>1, <1>0 DEF Unanswered
      <3>3. QED
        BY <2>2, <2>5, <3>1, <3>2
    <2>6. QED
      BY <1>1, <2>3, <2>4, <2>5 DEF Handle
  <1>2. ASSUME ProcessDue, NEW k \in Keys, k \notin shadowed',
               NEW e \in arrived', e[1] = k
        PROVE  \/ \E d \in out' : d.key = k
               \/ deadline'[k] # Never /\ \E r \in StreamIDs : cell'[k][r] # Never
    <2>1. arrived' = arrived /\ shadowed' = shadowed
      BY <1>2 DEF ProcessDue
    <2>2. \/ \E d \in out : d.key = k
          \/ deadline[k] # Never /\ \E r \in StreamIDs : cell[k][r] # Never
      BY <1>0, <1>2, <2>1 DEF Unanswered
    <2>3. PICK batch, refused : Round(batch, refused)
      BY <1>2 DEF ProcessDue
    <2>4. out \subseteq out'
      BY <2>3 DEF Round
    <2>5. CASE \E d \in out : d.key = k
      BY <2>4, <2>5
    <2>6. CASE deadline[k] # Never /\ \E r \in StreamIDs : cell[k][r] # Never
      <3>1. Answerable(k)
        BY <2>6, RemovedIsAnswered
      <3>2. CASE k \in batch \ refused
        <4>1. Document("partial", k, cell[k]) \in out'
          BY <2>3, <3>1, <3>2 DEF Round
        <4>2. Document("partial", k, cell[k]).key = k
          BY DEF Document
        <4>3. QED
          BY <4>1, <4>2
      <3>3. CASE k \notin batch \ refused
        <4>1. cell'[k] = cell[k] /\ deadline'[k] = deadline[k]
          BY <2>3, <3>3 DEF Round
        <4>2. QED
          BY <2>6, <4>1
      <3>4. QED
        BY <3>2, <3>3
    <2>7. QED
      BY <2>2, <2>5, <2>6
  <1>3. CASE UNCHANGED <<cell, out, arrived, deadline, shadowed>>
    BY <1>0, <1>3 DEF Unanswered
  <1>4. ASSUME (\E k \in Keys, s \in StreamIDs : Handle(k, s)) \/ ProcessDue
        PROVE  Unanswered'
    BY <1>1, <1>2, <1>4 DEF Unanswered
  <1>5. QED
    BY <1>3, <1>4 DEF TimingNext, Crash, Restart, Tick, clockVars

\* The invariant holds in all states.
LEMMA AnswerAlways == ASSUME SeveralStreams PROVE TimingSpec => []AnswerInv
  <1>1. TimingInit => AnswerInv
    <2> SUFFICES ASSUME TimingInit PROVE AnswerInv
      OBVIOUS
    <2>1. Empty \in [StreamIDs -> Int] /\ \A r \in StreamIDs : Empty[r] = Never
      BY DEF Empty, Never
    <2>2. ClockInv
      BY <2>1, FS_EmptySet DEF TimingInit, ClockInv
    <2>3. Ticker
      BY TimingConstants DEF TimingInit, Ticker, Running
    <2>4. Incomplete
      <3>1. \A k \in Keys : Live(cell[k]) = {}
        BY <2>1 DEF TimingInit, Live
      <3>2. Cardinality({}) = 0 /\ N \in Nat \ {0}
        BY FS_EmptySet, TimingConstants
      <3>3. ASSUME NEW k \in Keys PROVE Cardinality(Live(cell[k])) < N
        BY <3>1, <3>2
      <3>4. QED
        BY <3>3 DEF Incomplete
    <2>5. Schedule
      BY DEF TimingInit, Schedule, Never
    <2>6. QED
      BY <2>2, <2>3, <2>4, <2>5 DEF TimingInit, AnswerInv, KnownArrivals, Unanswered
  <1>2. AnswerInv /\ [TimingNext]_clockVars => AnswerInv'
    <2> SUFFICES ASSUME AnswerInv, [TimingNext]_clockVars PROVE AnswerInv'
      OBVIOUS
    <2>1. ClockInv /\ Ticker /\ KnownArrivals /\ Schedule /\ Incomplete
      BY DEF AnswerInv
    <2>2. ClockInv'
      BY <2>1, ClockStep
    <2>3. Ticker' /\ KnownArrivals'
      BY <2>1, TickerStep, KnownStep
    <2>4. Schedule' /\ Incomplete'
      BY <2>1, <2>2, ScheduleStep, IncompleteStep
    <2>5. QED
      BY <2>2, <2>3, <2>4, UnansweredStep DEF AnswerInv
  <1>3. QED
    BY <1>1, <1>2, PTL DEF TimingSpec

\* A key is answered, by a join or by a partial document, at most Bound after its
\* first event: through full batches, refused produces and crashes, however many
\* there are, of any number of keys (processDue, ScheduleTimeout).
THEOREM EveryKeyAnswered ==
    ASSUME SeveralStreams PROVE TimingSpec => []AnsweredInTime
  <1>1. AnswerInv => AnsweredInTime
    <2> SUFFICES ASSUME AnswerInv, NEW e \in arrived, now > e[3] + Bound,
                        e[1] \notin shadowed
                 PROVE  \E d \in out : d.key = e[1]
      BY DEF AnsweredInTime
    <2>1. e[1] \in Keys /\ e[3] \in Nat /\ now \in Nat /\ Bound \in Int
      BY RowOutlivesJoin DEF AnswerInv, ClockInv
    <2>2. CASE deadline[e[1]] # Never
      <3>1. now <= e[3] + Bound
        BY <2>1, <2>2, WithinBound
      <3>2. QED
        BY <2>1, <3>1
    <2>3. CASE deadline[e[1]] = Never
      BY <2>1, <2>3 DEF AnswerInv, Unanswered
    <2>4. QED
      BY <2>2, <2>3
  <1>2. QED
    BY <1>1, AnswerAlways, PTL

----------------------------------------------------------------------------
(* No event is left to the table TTL.                                      *)

\* With two streams, the correction that follows a partial document brings the
\* last event of a round.
TwoStreams ==
    /\ Rounds = 1
    /\ IsFiniteSet(StreamIDs) /\ Cardinality(StreamIDs) = 2
    /\ N = 2

\* The events of a key are of one stream.
Lone(k, s) ==
    /\ \E e \in arrived : e[1] = k /\ e[2] = s
    /\ \A e \in arrived : e[1] = k => e[2] = s

WaitsForTimeout ==
    \A k \in Keys \ shadowed : \A s \in StreamIDs :
        cell[k][s] # Never => deadline[k] # Never

LoneWaits ==
    \A k \in Keys \ shadowed : \A s \in StreamIDs :
        Lone(k, s) => \/ k \in tracked
                      \/ deadline[k] # Never /\ cell[k][s] # Never

ExpiryInv == AnswerInv /\ WaitsForTimeout /\ LoneWaits

\* Two streams that differ from a third one are the same.
LEMMA NoThird ==
    ASSUME TwoStreams, NEW a \in StreamIDs, NEW b \in StreamIDs, NEW c \in StreamIDs,
           a # c, b # c
    PROVE  a = b
  <1> SUFFICES ASSUME a # b PROVE FALSE
    OBVIOUS
  <1>1. IsFiniteSet({a}) /\ Cardinality({a}) = 1
    BY FS_Singleton
  <1>2. IsFiniteSet({a} \cup {b}) /\ Cardinality({a} \cup {b}) = 2
    BY <1>1, FS_AddElement
  <1>3. Cardinality(({a} \cup {b}) \cup {c}) = 3
    BY <1>2, FS_AddElement
  <1>4. Cardinality(({a} \cup {b}) \cup {c}) <= Cardinality(StreamIDs)
    <2>1. ({a} \cup {b}) \cup {c} \in SUBSET StreamIDs
      OBVIOUS
    <2>2. QED
      BY <2>1, FS_Subset DEF TwoStreams
  <1>5. QED
    BY <1>3, <1>4 DEF TwoStreams

\* Every step keeps an event that waits in a row with a deadline.
LEMMA ExpiryStep ==
    ASSUME TwoStreams, ExpiryInv, [TimingNext]_clockVars
    PROVE  WaitsForTimeout' /\ LoneWaits'
  <1>0. /\ ClockInv /\ Schedule /\ AnswerInv /\ SeveralStreams
        /\ cell \in [Keys -> [StreamIDs -> Int]] /\ now \in Nat
        /\ deadline \in [Keys -> Int]
        /\ \A e \in arrived : e[2] \in StreamIDs
    BY DEF ExpiryInv, AnswerInv, ClockInv, Schedule, TwoStreams, SeveralStreams
  <1>1. ASSUME NEW k \in Keys, NEW s \in StreamIDs, Handle(k, s), NEW j \in Keys,
               j \notin shadowed', NEW r \in StreamIDs
        PROVE  /\ cell'[j][r] # Never => deadline'[j] # Never
               /\ Lone(j, r)' => \/ j \in tracked'
                                 \/ deadline'[j] # Never /\ cell'[j][r] # Never
    <2>1. arrived' = arrived \cup {<<k, s, now>>}
      BY <1>0, <1>1, HandleArrives
    <2>2. \A e \in arrived : e[1] = k => e[2] # s
      BY <1>0, <1>1, FirstOfStream DEF TwoStreams
    <2>3. shadowed \subseteq shadowed'
      BY <1>1 DEF Handle, FirstArrival, LaterArrival
    <2>4. CASE j # k
      <3>1. cell'[j] = cell[j]
        <4>1. PICK row : row = [cell[k] EXCEPT ![s] = now]
          OBVIOUS
        <4>2. \A i \in Keys \ {k} : cell'[i] = cell[i]
          BY <1>0, <1>1, <4>1, RowMoves
        <4>3. QED
          BY <2>4, <4>2
      <3>2. deadline'[j] = deadline[j] /\ (j \in tracked => j \in tracked')
        BY <1>0, <1>1, <2>4 DEF Handle, FirstArrival, LaterArrival
      <3>3. Lone(j, r)' => Lone(j, r)
        BY <2>1, <2>4 DEF Lone
      <3>4. j \in Keys \ shadowed
        BY <1>1, <2>3
      <3>5. QED
        BY <3>1, <3>2, <3>3, <3>4 DEF ExpiryInv, WaitsForTimeout, LoneWaits
    <2>5. CASE j = k /\ FirstArrival(k, s)
      <3>1. cell'[k][s] = now /\ now # Never
        BY <1>0, <2>5 DEF FirstArrival, Never
      <3>2. deadline'[k] = (now + TTL) \div Second
        BY <1>0, <2>5 DEF FirstArrival, Deadline
      <3>3. (now + TTL) \div Second \in Nat
        <4>1. now + TTL \in Nat /\ Second \in Nat \ {0}
          BY <1>0, TimingConstants
        <4>2. QED
          BY <4>1, QuotientNat
      <3>4. deadline'[k] # Never
        BY <3>2, <3>3 DEF Never
      <3>5. ASSUME Lone(k, r)' PROVE r = s
        <4>1. PICK e : e = <<k, s, now>>
          OBVIOUS
        <4>2. e \in arrived' /\ e[1] = k /\ e[2] = s
          BY <2>1, <4>1
        <4>3. QED
          BY <3>5, <4>2 DEF Lone
      <3>6. QED
        BY <2>5, <3>1, <3>4, <3>5
    <2>6. CASE j = k /\ LaterArrival(k, s)
      <3>1. /\ k \in tracked => \A q \in StreamIDs : cell'[k][q] = Never
            /\ deadline' = deadline
            /\ \E g \in arrived : g[1] = k
        BY <1>0, <1>1, <2>6, LaterKeeps
      <3>2. PICK g \in arrived : g[1] = k
        BY <3>1
      <3>3. g[2] \in StreamIDs /\ g[2] # s
        BY <1>0, <2>2, <3>2
      <3>4. Lone(k, g[2])
        <4>1. ASSUME NEW e \in arrived, e[1] = k PROVE e[2] = g[2]
          BY <1>0, <2>2, <3>3, <4>1, NoThird
        <4>2. QED
          BY <3>2, <4>1 DEF Lone
      <3>5. k \in tracked \/ deadline[k] # Never
        BY <1>1, <2>3, <2>6, <3>3, <3>4 DEF ExpiryInv, LoneWaits
      <3>6. cell'[k][r] # Never => deadline'[k] # Never
        BY <3>1, <3>5
      <3>7. ASSUME Lone(k, r)' PROVE FALSE
        <4>1. PICK e : e = <<k, s, now>>
          OBVIOUS
        <4>2. e \in arrived' /\ e[1] = k /\ e[2] = s /\ g \in arrived'
          BY <2>1, <4>1
        <4>3. QED
          BY <3>2, <3>3, <3>7, <4>2 DEF Lone
      <3>8. QED
        BY <2>6, <3>6, <3>7
    <2>7. QED
      BY <1>1, <2>4, <2>5, <2>6 DEF Handle
  <1>2. ASSUME ProcessDue, NEW k \in Keys, k \notin shadowed', NEW s \in StreamIDs
        PROVE  /\ cell'[k][s] # Never => deadline'[k] # Never
               /\ Lone(k, s)' => \/ k \in tracked'
                                 \/ deadline'[k] # Never /\ cell'[k][s] # Never
    <2>1. arrived' = arrived /\ shadowed' = shadowed
      BY <1>2 DEF ProcessDue
    <2>2. PICK batch, refused : Round(batch, refused)
      BY <1>2 DEF ProcessDue
    <2>3. PICK answered : answered = {j \in batch \ refused : Answerable(j)}
      OBVIOUS
    <2>4. /\ tracked' = tracked \cup answered
          /\ cell' = [j \in Keys |-> IF j \in answered THEN Empty ELSE cell[j]]
          /\ deadline' = [j \in Keys |-> IF j \in batch \ refused THEN Never
                                                                 ELSE deadline[j]]
      BY <2>2, <2>3 DEF Round
    <2>5. /\ cell[k][s] # Never => deadline[k] # Never
          /\ Lone(k, s) => \/ k \in tracked
                           \/ deadline[k] # Never /\ cell[k][s] # Never
      BY <1>2, <2>1 DEF ExpiryInv, WaitsForTimeout, LoneWaits
    <2>6. Lone(k, s)' => Lone(k, s)
      BY <2>1 DEF Lone
    <2>7. CASE k \in answered
      <3>1. cell'[k][s] = Never /\ k \in tracked'
        BY <2>4, <2>7 DEF Empty
      <3>2. QED
        BY <3>1
    <2>8. CASE k \notin batch \ refused
      <3>1. cell'[k] = cell[k] /\ deadline'[k] = deadline[k] /\ tracked \subseteq tracked'
        BY <2>3, <2>4, <2>8
      <3>2. QED
        BY <2>5, <2>6, <3>1
    <2>9. CASE k \in batch \ refused /\ k \notin answered
      <3>1. ~Answerable(k) /\ cell'[k] = cell[k] /\ tracked \subseteq tracked'
        BY <2>3, <2>4, <2>9
      <3>2. cell[k][s] = Never
        BY <1>0, <2>5, <3>1, RemovedIsAnswered
      <3>3. QED
        BY <2>5, <2>6, <3>1, <3>2
    <2>10. QED
      BY <2>7, <2>8, <2>9
  <1>3. CASE UNCHANGED <<cell, tracked, arrived, deadline, shadowed>>
    BY <1>3 DEF ExpiryInv, WaitsForTimeout, LoneWaits, Lone
  <1>4. ASSUME (\E k \in Keys, s \in StreamIDs : Handle(k, s)) \/ ProcessDue
        PROVE  WaitsForTimeout' /\ LoneWaits'
    BY <1>1, <1>2, <1>4 DEF WaitsForTimeout, LoneWaits
  <1>5. QED
    BY <1>3, <1>4 DEF TimingNext, Crash, Restart, Tick, clockVars

\* No event that waits in a row is left to the table TTL: a join, a correction or
\* the timeout of its key takes it out in time, as long as Bound < RowTTL
\* (TimingConstants); for two streams and one event of each.
THEOREM NothingExpires ==
    ASSUME TwoStreams PROVE TimingSpec => []NoEventExpires
  <1>1. SeveralStreams
    BY DEF TwoStreams, SeveralStreams
  <1>2. TimingInit => WaitsForTimeout /\ LoneWaits
    <2> SUFFICES ASSUME TimingInit PROVE WaitsForTimeout /\ LoneWaits
      OBVIOUS
    <2>1. \A k \in Keys, s \in StreamIDs : cell[k][s] = Never
      BY DEF TimingInit, Empty
    <2>2. \A k, s : ~Lone(k, s)
      BY DEF TimingInit, Lone
    <2>3. QED
      BY <2>1, <2>2 DEF WaitsForTimeout, LoneWaits
  <1>3. AnswerInv /\ WaitsForTimeout /\ LoneWaits /\ [TimingNext]_clockVars
          => WaitsForTimeout' /\ LoneWaits'
    BY ExpiryStep DEF ExpiryInv
  <1>4. AnswerInv /\ WaitsForTimeout => NoEventExpires
    <2> SUFFICES ASSUME AnswerInv, WaitsForTimeout, NEW k \in Keys \ shadowed,
                        NEW s \in StreamIDs, cell[k][s] # Never
                 PROVE  now < cell[k][s] + RowTTL
      BY DEF NoEventExpires
    <2>1. k \in Keys /\ deadline[k] # Never
      BY DEF WaitsForTimeout
    <2>2. QED
      BY <2>1, WithinBound
  <1>5. TimingSpec => []AnswerInv
    BY <1>1, AnswerAlways
  <1>6. QED
    BY <1>2, <1>3, <1>4, <1>5, PTL DEF TimingSpec
================================================================================
