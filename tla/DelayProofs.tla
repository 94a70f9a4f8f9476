------------------------------- MODULE DelayProofs -------------------------------
(***************************************************************************)
(* Proofs about what a settle delay does to the joins.  While one waits,   *)
(* further events may arrive and complete it again: without a fault no     *)
(* document repeats what is in those before it.  And the flush deletes the *)
(* row as it is then, not as it was when the join was queued: with one     *)
(* event of each stream nothing is deleted that was not published.         *)
(***************************************************************************)
EXTENDS InnerJoinProofs, EgressProofs

\* What the flush of a task in memory still has to publish.
Rest(t) ==
    IF dq[t].pc = "publish" THEN dq[t].todo
    ELSE IF dq[t].pc = "delete" THEN Tail(dq[t].todo) ELSE <<>>

\* The joins of a task that are not published yet.
InLine(t) == Topic(Rest(t)) \cup Topic(pending[t])

\* The records of the documents of a list.
Data(s) == UNION {d.data : d \in Topic(s)}

\* Every document of the list has a record that is neither in D nor in a
\* document before it.
Fresh(s, D) ==
    \A j \in 1 .. Len(s) : \E r \in s[j].data :
        r \notin D /\ \A i \in 1 .. j - 1 : r \notin s[i].data

----------------------------------------------------------------------------
(* Lists of documents.                                                     *)

\* The records of a list that grows, and of one that shrinks.
LEMMA DataFacts ==
    ASSUME NEW S, NEW s \in Seq(S)
    PROVE  /\ \A d \in S : Data(Append(s, d)) = Data(s) \cup d.data
           /\ s # <<>> => Data(s) = Head(s).data \cup Data(Tail(s))
           /\ Data(<<>>) = {}
           /\ \A i \in 1 .. Len(s) : s[i].data \subseteq Data(s)
  <1>1. ASSUME NEW d \in S PROVE Data(Append(s, d)) = Data(s) \cup d.data
    BY Appended DEF Data
  <1>2. s # <<>> => Data(s) = Head(s).data \cup Data(Tail(s))
    BY HeadAndTail DEF Data
  <1>3. Data(<<>>) = {}
    <2>1. Topic(<<>>) = {}
      BY EmptySeq DEF Topic
    <2>2. QED
      BY <2>1 DEF Data
  <1>4. \A i \in 1 .. Len(s) : s[i].data \subseteq Data(s)
    BY DEF Data, Topic
  <1>5. QED
    BY <1>1, <1>2, <1>3, <1>4

\* A document with a new record may follow.
LEMMA FreshAppend ==
    ASSUME NEW S, NEW s \in Seq(S), NEW D, Fresh(s, D), NEW d \in S,
           NEW r \in d.data, r \notin D, r \notin Data(s)
    PROVE  Fresh(Append(s, d), D)
  <1>1. /\ Len(s) \in Nat /\ Len(Append(s, d)) = Len(s) + 1
        /\ \A i \in 1 .. Len(s) : Append(s, d)[i] = s[i]
        /\ Append(s, d)[Len(s) + 1] = d
    BY AppendProperties, LenProperties
  <1>2. \A i \in 1 .. Len(s) : r \notin s[i].data
    BY DataFacts
  <1>3. ASSUME NEW j \in 1 .. Len(s) + 1
        PROVE  \E x \in Append(s, d)[j].data :
                  x \notin D /\ \A i \in 1 .. j - 1 : x \notin Append(s, d)[i].data
    <2>1. CASE j = Len(s) + 1
      <3>1. \A i \in 1 .. j - 1 : r \notin Append(s, d)[i].data
        BY <1>1, <1>2, <2>1
      <3>2. QED
        BY <1>1, <2>1, <3>1
    <2>2. CASE j \in 1 .. Len(s)
      <3>1. PICK x \in s[j].data : x \notin D /\ \A i \in 1 .. j - 1 : x \notin s[i].data
        BY <2>2 DEF Fresh
      <3>2. \A i \in 1 .. j - 1 : Append(s, d)[i] = s[i]
        BY <1>1, <2>2
      <3>3. QED
        BY <1>1, <2>2, <3>1, <3>2
    <2>3. QED
      BY <1>1, <2>1, <2>2
  <1>4. QED
    BY <1>1, <1>3 DEF Fresh

\* When the first document leaves the list, the others are new after it.
LEMMA FreshTail ==
    ASSUME NEW S, NEW s \in Seq(S), s # <<>>, NEW D, Fresh(s, D)
    PROVE  /\ \E r \in Head(s).data : r \notin D
           /\ Fresh(Tail(s), D \cup Head(s).data)
  <1>1. /\ Len(s) \in Nat \ {0} /\ Head(s) = s[1] /\ Len(Tail(s)) = Len(s) - 1
        /\ \A i \in 1 .. Len(s) - 1 : Tail(s)[i] = s[i + 1]
    BY HeadTailProperties, EmptySeq, LenProperties
  <1>2. \E r \in Head(s).data : r \notin D
    <2>1. 1 \in 1 .. Len(s)
      BY <1>1
    <2>2. QED
      BY <1>1, <2>1 DEF Fresh
  <1>3. ASSUME NEW j \in 1 .. Len(Tail(s))
        PROVE  \E r \in Tail(s)[j].data :
                  /\ r \notin D \cup Head(s).data
                  /\ \A i \in 1 .. j - 1 : r \notin Tail(s)[i].data
    <2>1. j + 1 \in 1 .. Len(s) /\ Tail(s)[j] = s[j + 1] /\ (j + 1) - 1 = j
      BY <1>1
    <2>2. PICK r \in s[j + 1].data : r \notin D /\ \A i \in 1 .. j : r \notin s[i].data
      BY <2>1 DEF Fresh
    <2>3. r \notin s[1].data
      <3>1. 1 \in 1 .. j
        OBVIOUS
      <3>2. QED
        BY <2>2, <3>1
    <2>4. ASSUME NEW i \in 1 .. j - 1 PROVE r \notin Tail(s)[i].data
      <3>1. i + 1 \in 1 .. j /\ Tail(s)[i] = s[i + 1]
        BY <1>1
      <3>2. QED
        BY <2>2, <3>1
    <2>5. QED
      BY <1>1, <2>1, <2>2, <2>3, <2>4
  <1>4. QED
    BY <1>2, <1>3 DEF Fresh

\* Records that are not in the list make nothing in it old.
LEMMA FreshBeside ==
    ASSUME NEW S, NEW s \in Seq(S), NEW D, Fresh(s, D), NEW E,
           \A x \in E : x \in D \/ x \notin Data(s)
    PROVE  Fresh(s, E)
  <1>1. ASSUME NEW j \in 1 .. Len(s)
        PROVE  \E r \in s[j].data : r \notin E /\ \A i \in 1 .. j - 1 : r \notin s[i].data
    <2>1. PICK r \in s[j].data : r \notin D /\ \A i \in 1 .. j - 1 : r \notin s[i].data
      BY DEF Fresh
    <2>2. r \in Data(s)
      BY DataFacts
    <2>3. QED
      BY <2>1, <2>2
  <1>2. QED
    BY <1>1 DEF Fresh

\* A list cut in two has the same documents.
LEMMA CutInTwo ==
    ASSUME NEW S, NEW s \in Seq(S), NEW n \in 1 .. Len(s)
    PROVE  /\ SubSeq(s, 1, n) \in Seq(S) /\ Len(SubSeq(s, 1, n)) = n
           /\ \A i \in 1 .. n : SubSeq(s, 1, n)[i] = s[i]
           /\ SubSeq(s, n + 1, Len(s)) \in Seq(S)
           /\ Len(SubSeq(s, n + 1, Len(s))) = Len(s) - n
           /\ \A i \in 1 .. Len(s) - n : SubSeq(s, n + 1, Len(s))[i] = s[n + i]
           /\ Topic(s) = Topic(SubSeq(s, 1, n)) \cup Topic(SubSeq(s, n + 1, Len(s)))
  <1>a. PICK a : a = SubSeq(s, 1, n)
    OBVIOUS
  <1>b. PICK b : b = SubSeq(s, n + 1, Len(s))
    OBVIOUS
  <1>1. /\ Len(s) \in Nat /\ n \in Nat /\ n <= Len(s)
        /\ a \in Seq(S) /\ Len(a) = n /\ \A i \in 1 .. n : a[i] = s[i]
        /\ b \in Seq(S) /\ Len(b) = Len(s) - n
        /\ \A i \in 1 .. Len(s) - n : b[i] = s[n + i]
    <2>1. Len(s) \in Nat
      BY LenProperties
    <2>2. /\ \A i \in 1 .. Len(s) : s[i] \in S
      BY ElementOfSeq
    <2>3. /\ a \in Seq(S) /\ Len(a) = n /\ \A i \in 1 .. n : a[i] = s[i]
      BY <1>a, <2>1, <2>2, SubSeqProperties
    <2>4. /\ b \in Seq(S) /\ Len(b) = Len(s) - n
          /\ \A i \in 1 .. Len(s) - n : b[i] = s[n + i]
      <3> DEFINE m == n + 1
      <3>1. m \in Int /\ Len(s) \in Int /\ \A i \in m .. Len(s) : s[i] \in S
        BY <2>1, <2>2
      <3> HIDE DEF m
      <3>2. /\ SubSeq(s, m, Len(s)) \in Seq(S)
            /\ Len(SubSeq(s, m, Len(s))) = IF m <= Len(s) THEN Len(s) - m + 1 ELSE 0
            /\ \A i \in 1 .. Len(s) - m + 1 : SubSeq(s, m, Len(s))[i] = s[m + i - 1]
        BY <3>1, SubSeqProperties
      <3>3. \A i \in 1 .. Len(s) - n : m + i - 1 = n + i
        BY <2>1 DEF m
      <3>4. Len(s) - m + 1 = Len(s) - n /\ (~ (m <= Len(s)) => Len(s) - n = 0)
        BY <2>1 DEF m
      <3>5. QED
        BY <1>b, <3>2, <3>3, <3>4 DEF m
    <2>5. QED
      BY <2>1, <2>3, <2>4
  <1>2. Topic(s) = Topic(a) \cup Topic(b)
    <2>1. ASSUME NEW i \in 1 .. Len(s) PROVE s[i] \in Topic(a) \cup Topic(b)
      <3>1. CASE i <= n
        <4>1. i \in 1 .. n /\ s[i] = a[i]
          BY <1>1, <3>1
        <4>2. QED
          BY <1>1, <4>1 DEF Topic
      <3>2. CASE ~ (i <= n)
        <4>1. i - n \in 1 .. Len(s) - n /\ n + (i - n) = i
          BY <1>1, <3>2
        <4>2. b[i - n] = s[i]
          BY <1>1, <4>1
        <4>3. QED
          BY <1>1, <4>1, <4>2 DEF Topic
      <3>3. QED
        BY <3>1, <3>2
    <2>2. ASSUME NEW i \in 1 .. n PROVE a[i] \in Topic(s)
      <3>1. i \in 1 .. Len(s) /\ a[i] = s[i]
        BY <1>1
      <3>2. QED
        BY <3>1 DEF Topic
    <2>3. ASSUME NEW i \in 1 .. Len(s) - n PROVE b[i] \in Topic(s)
      <3>1. n + i \in 1 .. Len(s) /\ b[i] = s[n + i]
        BY <1>1
      <3>2. QED
        BY <3>1 DEF Topic
    <2>4. /\ Topic(s) = {s[i] : i \in 1 .. Len(s)} /\ Topic(a) = {a[i] : i \in 1 .. n}
          /\ Topic(b) = {b[i] : i \in 1 .. Len(s) - n}
      BY <1>1 DEF Topic
    <2>5. Topic(s) \subseteq Topic(a) \cup Topic(b)
      BY <2>1, <2>4
    <2>6. Topic(a) \subseteq Topic(s) /\ Topic(b) \subseteq Topic(s)
      BY <2>2, <2>3, <2>4
    <2>7. QED
      BY <2>5, <2>6
  <1>3. QED
    BY <1>a, <1>b, <1>1, <1>2

\* A list of new documents is one after it was cut in two.
LEMMA FreshCut ==
    ASSUME NEW S, NEW s \in Seq(S), NEW D, Fresh(s, D), NEW n \in 1 .. Len(s)
    PROVE  /\ Fresh(SubSeq(s, 1, n), D)
           /\ Fresh(SubSeq(s, n + 1, Len(s)), D \cup Data(SubSeq(s, 1, n)))
           /\ Topic(s) = Topic(SubSeq(s, 1, n)) \cup Topic(SubSeq(s, n + 1, Len(s)))
  <1>a. PICK a : a = SubSeq(s, 1, n)
    OBVIOUS
  <1>b. PICK b : b = SubSeq(s, n + 1, Len(s))
    OBVIOUS
  <1>1. /\ Len(s) \in Nat /\ n \in Nat /\ n <= Len(s)
        /\ a \in Seq(S) /\ Len(a) = n /\ \A i \in 1 .. n : a[i] = s[i]
        /\ b \in Seq(S) /\ Len(b) = Len(s) - n
        /\ \A i \in 1 .. Len(s) - n : b[i] = s[n + i]
        /\ Topic(s) = Topic(a) \cup Topic(b)
    <2>1. Len(s) \in Nat /\ n \in Nat /\ n <= Len(s)
      BY LenProperties
    <2>2. /\ a \in Seq(S) /\ Len(a) = n /\ \A i \in 1 .. n : a[i] = s[i]
          /\ b \in Seq(S) /\ Len(b) = Len(s) - n
          /\ \A i \in 1 .. Len(s) - n : b[i] = s[n + i]
          /\ Topic(s) = Topic(a) \cup Topic(b)
      BY <1>a, <1>b, CutInTwo
    <2>3. QED
      BY <2>1, <2>2
  <1>2. Fresh(a, D)
    <2>1. ASSUME NEW j \in 1 .. n
          PROVE  \E r \in a[j].data : r \notin D /\ \A i \in 1 .. j - 1 : r \notin a[i].data
      <3>1. j \in 1 .. Len(s) /\ a[j] = s[j] /\ \A i \in 1 .. j - 1 : a[i] = s[i]
        BY <1>1
      <3>2. PICK r \in s[j].data : r \notin D /\ \A i \in 1 .. j - 1 : r \notin s[i].data
        BY <3>1 DEF Fresh
      <3>3. QED
        BY <3>1, <3>2
    <2>2. QED
      BY <1>1, <2>1 DEF Fresh
  <1>3. Fresh(b, D \cup Data(a))
    <2>1. ASSUME NEW j \in 1 .. Len(s) - n
          PROVE  \E r \in b[j].data :
                    r \notin D \cup Data(a) /\ \A i \in 1 .. j - 1 : r \notin b[i].data
      <3>1. n + j \in 1 .. Len(s) /\ b[j] = s[n + j]
        BY <1>1
      <3>2. PICK r \in s[n + j].data :
              r \notin D /\ \A i \in 1 .. (n + j) - 1 : r \notin s[i].data
        BY <3>1 DEF Fresh
      <3>3. ASSUME NEW i \in 1 .. n PROVE r \notin a[i].data
        <4>1. i \in 1 .. (n + j) - 1 /\ a[i] = s[i]
          BY <1>1
        <4>2. QED
          BY <3>2, <4>1
      <3>4. r \notin Data(a)
        BY <1>1, <3>3 DEF Data, Topic
      <3>5. ASSUME NEW i \in 1 .. j - 1 PROVE r \notin b[i].data
        <4>1. n + i \in 1 .. (n + j) - 1 /\ i \in 1 .. Len(s) - n
          BY <1>1
        <4>2. QED
          BY <1>1, <3>2, <4>1
      <3>6. QED
        BY <3>1, <3>2, <3>4, <3>5
    <2>2. QED
      BY <1>1, <2>1 DEF Fresh
  <1>4. QED
    BY <1>a, <1>b, <1>1, <1>2, <1>3

----------------------------------------------------------------------------
(* Without Redis: what handlers and flushes do.                            *)

AtMem == {"upsert", "read", "enqueue", "publish"}

\* What waits in the memory of an instance is published, then deleted; a
\* handler either queues its join or publishes it.
MemShape ==
    /\ \A t \in Tasks :
         /\ dq[t].pc # "zrem"
         /\ dq[t].pc = "idle" => dq[t].todo = <<>>
         /\ HasDelay = FALSE => dq[t].pc = "idle" /\ pending[t] = <<>>
    /\ \A w \in Workers :
         /\ h[w].pc \in AtMem \cup {"idle", "delete", "ok", "err"}
         /\ h[w].pc \in AtMem \cup {"delete"} => h[w].rec \notin Malformed
         /\ h[w].pc = "publish" => HasDelay = FALSE
         /\ h[w].pc = "enqueue" => HasDelay = TRUE

ReadsBack(w) ==
    /\ h[w].pc = "read" /\ UNCHANGED <<rows, egress>>
    /\ \/ HandlerGoes(w, "err", NoRow)
       \/ HandlerGoes(w, "ok", rows[Key(w)])
       \/ \E pc \in {"enqueue", "publish"} :
            /\ pc = "publish" => HasDelay = FALSE
            /\ pc = "enqueue" => HasDelay = TRUE
            /\ HandlerGoes(w, pc, rows[Key(w)]) /\ IsComplete(rows[Key(w)])

Queues(w) ==
    /\ h[w].pc = "enqueue" /\ UNCHANGED <<rows, egress>>
    /\ pending' = [pending EXCEPT ![<<w, Key(w)[1]>>] = Append(@, Joined(w))]
    /\ HandlerGoes(w, "ok", h[w].row)

\* What a handler does.
LEMMA MemMoves ==
    ASSUME HasRedis = FALSE, OwnInv, MemShape, NEW w \in Workers, Handle(w)
    PROVE  /\ dq' = dq
           /\ \/ Queues(w)
              \/ /\ pending' = pending
                 /\ Stores(w) \/ ReadsBack(w) \/ Publishes(w) \/ Deletes(w)
  <1>0. /\ h \in [Workers -> HandleStates] /\ HasDelay \in BOOLEAN
        /\ h[w].pc \in AtMem \cup {"idle", "delete", "ok", "err"}
    BY StoreConstants DEF OwnInv, SharedInv, HandlerOK, MemShape
  <1>1. ASSUME NEW pc, Goto(w, pc) PROVE HandlerGoes(w, pc, h[w].row)
    BY <1>0, <1>1 DEF Goto, HandlerGoes, HandleStates
  <1>2. \/ UpsertParticipant(w) \/ ReadBack(w) \/ Enqueue(w) \/ Publish(w)
        \/ DeleteAfterEgress(w)
    BY <1>0 DEF Handle, HandleSteps, AtMem, BloomExists,
         UpsertParticipantOnly, AddToBloom, ScheduleFirst, Contains, PublishCorrection,
         Untrack, DropLate
  <1>3. CASE UpsertParticipant(w)
    BY <1>1, <1>3 DEF UpsertParticipant, Calls, Stores, delayVars
  <1>4. CASE ReadBack(w)
    <2>1. PICK ok \in BOOLEAN :
            h' = [h EXCEPT ![w].row = IF ok THEN rows[Key(w)] ELSE NoRow,
                           ![w].pc = IF ok THEN AfterRead(rows[Key(w)]) ELSE "err"]
      BY <1>4 DEF ReadBack
    <2>2. HandlerGoes(w, IF ok THEN AfterRead(rows[Key(w)]) ELSE "err",
                      IF ok THEN rows[Key(w)] ELSE NoRow)
      BY <1>0, <2>1 DEF HandlerGoes, HandleStates
    <2>3. \/ AfterRead(rows[Key(w)]) = "ok"
          \/ /\ AfterRead(rows[Key(w)]) = "publish" /\ HasDelay = FALSE
             /\ IsComplete(rows[Key(w)])
          \/ /\ AfterRead(rows[Key(w)]) = "enqueue" /\ HasDelay = TRUE
             /\ IsComplete(rows[Key(w)])
      BY <1>0 DEF AfterRead, IsComplete
    <2>4. QED
      BY <1>4, <2>2, <2>3 DEF ReadBack, ReadsBack, delayVars
  <1>5. CASE Publish(w)
    BY <1>1, <1>5 DEF Publish, Calls, Publishes, delayVars
  <1>6. CASE DeleteAfterEgress(w)
    BY <1>1, <1>6 DEF DeleteAfterEgress, Calls, Deletes, delayVars
  <1>7. CASE Enqueue(w)
    BY <1>1, <1>7 DEF Enqueue, Schedule, Queues
  <1>8. QED
    BY <1>2, <1>3, <1>4, <1>5, <1>6, <1>7

\* A flush takes the first items from the queue, or publishes the first of
\* those it has, or deletes a row.
Takes(t) ==
    /\ UNCHANGED <<rows, egress>> /\ Rest(t) = <<>>
    /\ \E n \in 1 .. Len(pending[t]) :
         /\ Rest(t)' = SubSeq(pending[t], 1, n)
         /\ pending'[t] = SubSeq(pending[t], n + 1, Len(pending[t]))

Sends(t) ==
    /\ UNCHANGED <<rows, pending>> /\ Rest(t) # <<>>
    /\ Rest(t)' = Tail(Rest(t))
    /\ egress' = egress \/ Produce(Head(Rest(t)))

Clears(t) ==
    /\ UNCHANGED <<egress, pending>>
    /\ Rest(t)' = Rest(t)
    /\ rows' = rows \/ \E k \in Keys : DeleteState(k)

\* What a flush does.
LEMMA MemFlush ==
    ASSUME HasRedis = FALSE, OwnInv, MemShape, NEW t \in Tasks, NEW open,
           DelaySteps(t, open)
    PROVE  /\ \A s \in Tasks \ {t} : dq'[s] = dq[s] /\ pending'[s] = pending[s]
           /\ dq'[t].pc # "zrem" /\ (dq'[t].pc = "idle" => dq'[t].todo = <<>>)
           /\ Takes(t) \/ Sends(t) \/ Clears(t)
  <1>0. /\ dq \in [Tasks -> FlushStates] /\ QueuesOK /\ t \in Tasks
        /\ pending \in [Tasks -> Seq(OwnDocuments)]
        /\ dq[t].pc = "idle" => dq[t].todo = <<>>
    BY DEF OwnInv, SharedInv, QueuesOK, FlushStates, MemShape
  <1>1. CASE FlushMemory(t)
    <2>1. PICK n \in 1 .. Len(pending[t]) :
            /\ dq' = [dq EXCEPT ![t] = [pc |-> "publish", todo |-> SubSeq(pending[t], 1, n)]]
            /\ pending' = [pending EXCEPT ![t] = SubSeq(@, n + 1, Len(@))]
      BY <1>1 DEF FlushMemory
    <2>2. /\ dq'[t].pc = "publish" /\ dq'[t].todo = SubSeq(pending[t], 1, n)
          /\ pending'[t] = SubSeq(pending[t], n + 1, Len(pending[t]))
          /\ \A s \in Tasks \ {t} : dq'[s] = dq[s] /\ pending'[s] = pending[s]
      BY <1>0, <2>1
    <2>3. Rest(t) = <<>> /\ Rest(t)' = SubSeq(pending[t], 1, n)
      BY <1>1, <2>2 DEF FlushMemory, Rest
    <2>4. UNCHANGED <<rows, egress>>
      BY <1>1 DEF FlushMemory, storeVars
    <2>5. QED
      BY <2>2, <2>3, <2>4 DEF Takes
  <1>n. ASSUME dq[t].pc \in {"publish", "delete"}, NextItem(t)
        PROVE  /\ dq'[t].pc \in {"idle", "publish"} /\ dq'[t].todo = Tail(dq[t].todo)
               /\ dq'[t].pc = "idle" => dq'[t].todo = <<>>
               /\ Rest(t)' = Tail(dq[t].todo)
               /\ \A s \in Tasks \ {t} : dq'[s] = dq[s]
    <2>1. /\ dq'[t].todo = Tail(dq[t].todo)
          /\ dq'[t].pc = IF Len(dq[t].todo) = 1 THEN "idle" ELSE "publish"
          /\ \A s \in Tasks \ {t} : dq'[s] = dq[s]
      BY <1>0, <1>n DEF NextItem, FlushStates
    <2>2. dq[t].todo \in Seq(OwnDocuments) /\ dq[t].todo # <<>>
      BY <1>0, <1>n DEF QueuesOK
    <2>3. Len(dq[t].todo) = 1 => Tail(dq[t].todo) = <<>>
      <3>1. Tail(dq[t].todo) \in Seq(OwnDocuments) /\ Len(Tail(dq[t].todo)) = Len(dq[t].todo) - 1
        BY <2>2, HeadTailProperties
      <3>2. QED
        <4> DEFINE s == Tail(dq[t].todo)
        <4>1. s \in Seq(OwnDocuments) /\ (Len(dq[t].todo) = 1 => Len(s) = 0)
          BY <3>1
        <4> HIDE DEF s
        <4>2. s # <<>> => Len(s) # 0
          BY <4>1, EmptySeq
        <4>3. QED
          BY <4>1, <4>2 DEF s
    <2>4. QED
      BY <2>1, <2>3 DEF Rest
  <1>2. CASE DelayPublish(t)
    <2>1. /\ dq[t].pc = "publish" /\ UNCHANGED <<rows, pending>>
          /\ egress' = egress \/ Produce(Item(t))
          /\ \/ dq' = [dq EXCEPT ![t].pc = "delete"]
             \/ NextItem(t)
      BY <1>2, <1>0 DEF DelayPublish, Calls, ItemDone
    <2>2. /\ Rest(t) = dq[t].todo /\ Item(t) = Head(Rest(t)) /\ Rest(t) # <<>>
      BY <1>0, <2>1 DEF Rest, Item, QueuesOK
    <2>3. /\ \A s \in Tasks \ {t} : dq'[s] = dq[s]
          /\ dq'[t].pc # "zrem" /\ (dq'[t].pc = "idle" => dq'[t].todo = <<>>)
          /\ Rest(t)' = Tail(dq[t].todo)
      <3>1. CASE dq' = [dq EXCEPT ![t].pc = "delete"]
        <4>1. /\ dq'[t].pc = "delete" /\ dq'[t].todo = dq[t].todo
              /\ \A s \in Tasks \ {t} : dq'[s] = dq[s]
          BY <1>0, <3>1 DEF FlushStates
        <4>2. QED
          BY <4>1 DEF Rest
      <3>2. CASE NextItem(t)
        BY <1>n, <2>1, <3>2
      <3>3. QED
        BY <2>1, <3>1, <3>2
    <2>4. QED
      BY <2>1, <2>2, <2>3 DEF Sends
  <1>3. CASE DelayDelete(t)
    <2>1. /\ dq[t].pc = "delete" /\ NextItem(t) /\ UNCHANGED <<egress, pending>>
          /\ rows' = rows \/ DeleteState(<<t[2], Item(t).key[2]>>)
      BY <1>3, <1>0 DEF DelayDelete, Calls, ItemDone
    <2>2. <<t[2], Item(t).key[2]>> \in Keys
      BY <1>0, <2>1, ItemFacts DEF Tasks, Keys, OwnDocuments, Documents
    <2>3. Rest(t) = Tail(dq[t].todo)
      BY <2>1 DEF Rest
    <2>4. QED
      BY <1>n, <2>1, <2>2, <2>3 DEF Clears
  <1>4. QED
    BY <1>0, <1>1, <1>2, <1>3 DEF DelaySteps, FlushRedis, DelayZRem, MemShape

\* Without Redis there is no timeout manager, and nobody else touches the rows,
\* the topic and the queues.
LEMMA MemCases ==
    ASSUME HasRedis = FALSE, [Next]_vars
    PROVE  \/ \E w \in Workers : LoopStep(w) \/ GroupStep(w)
           \/ \E w \in Workers : CrashStep(w) \/ KillStep(w)
           \/ \E w \in Workers : Call(w)
           \/ \E w \in Workers : Handle(w)
           \/ \E w \in Workers : Return(w)
           \/ \E t \in Tasks : Delay(t)
           \/ UNCHANGED vars
  BY DEF Next, Timeouts, TimeoutSteps, Tasks

\* Every step keeps the shape.
LEMMA ShapeStep ==
    ASSUME HasRedis = FALSE, OwnInv, MemShape, [Next]_vars
    PROVE  MemShape'
  <1>0. /\ h \in [Workers -> HandleStates] /\ dq \in [Tasks -> FlushStates]
        /\ HasDelay \in BOOLEAN
    BY StoreConstants DEF OwnInv, SharedInv, HandlerOK, QueuesOK, FlushStates
  <1> DEFINE Queue(t) == /\ dq[t].pc # "zrem"
                         /\ dq[t].pc = "idle" => dq[t].todo = <<>>
                         /\ HasDelay = FALSE => dq[t].pc = "idle" /\ pending[t] = <<>>
             Hand(w) == /\ h[w].pc \in AtMem \cup {"idle", "delete", "ok", "err"}
                        /\ h[w].pc \in AtMem \cup {"delete"} => h[w].rec \notin Malformed
                        /\ h[w].pc = "publish" => HasDelay = FALSE
                        /\ h[w].pc = "enqueue" => HasDelay = TRUE
  <1>a. (\A t \in Tasks : Queue(t)) /\ (\A w \in Workers : Hand(w))
    BY DEF MemShape
  <1>b. ASSUME \A t \in Tasks : Queue(t)', \A w \in Workers : Hand(w)'
        PROVE  MemShape'
    BY <1>b DEF MemShape
  <1>1. ASSUME UNCHANGED <<dq, pending>>, NEW w \in Workers, Hand(w)',
               \A v \in Workers \ {w} : h'[v] = h[v]
        PROVE  MemShape'
    BY <1>1, <1>a, <1>b
  <1>2. ASSUME UNCHANGED <<h, dq, pending>> PROVE MemShape'
    BY <1>2, <1>a, <1>b
  <1>3. ASSUME NEW w \in Workers, LoopStep(w) \/ GroupStep(w) PROVE MemShape'
    BY <1>2, <1>3 DEF LoopStep, GroupStep, delayVars
  <1>4. ASSUME NEW w \in Workers, CrashStep(w) \/ KillStep(w) PROVE MemShape'
    <2>1. /\ h' = [h EXCEPT ![w] = Ready] /\ DelayKilled(w)
      BY <1>4 DEF CrashStep, KillStep, ProcessEnds
    <2>2. h'[w].pc = "idle" /\ \A v \in Workers \ {w} : h'[v] = h[v]
      BY <1>0, <2>1 DEF Ready
    <2>3. \A t \in Tasks : \/ dq'[t] = dq[t] /\ pending'[t] = pending[t]
                           \/ dq'[t] = Resting /\ pending'[t] = <<>>
      BY <2>1 DEF DelayKilled
    <2>4. \A t \in Tasks : Queue(t)'
      BY <1>a, <2>3 DEF Resting
    <2>5. \A v \in Workers : Hand(v)'
      BY <1>a, <2>2 DEF AtMem
    <2>6. QED
      BY <1>b, <2>4, <2>5
  <1>5. ASSUME NEW w \in Workers, Call(w) PROVE MemShape'
    <2>1. /\ UNCHANGED <<dq, pending>>
          /\ h'[w].rec = Loop!Current(w) /\ \A v \in Workers \ {w} : h'[v] = h[v]
          /\ h'[w].pc = IF Loop!Current(w) \in Malformed THEN "err" ELSE "upsert"
      BY <1>0, <1>5 DEF Call, StartHandle, delayVars, Ready
    <2>2. QED
      BY <1>1, <2>1 DEF AtMem
  <1>6. ASSUME NEW w \in Workers, Return(w) PROVE MemShape'
    <2>1. /\ UNCHANGED <<dq, pending>>
          /\ h'[w].pc = "idle" /\ \A v \in Workers \ {w} : h'[v] = h[v]
      BY <1>0, <1>6 DEF Return, delayVars, Ready
    <2>2. QED
      BY <1>1, <2>1 DEF AtMem
  <1>7. ASSUME NEW w \in Workers, Handle(w) PROVE MemShape'
    <2>1. CASE Queues(w)
      <3>1. /\ h'[w].pc = "ok" /\ h[w].pc = "enqueue" /\ dq' = dq
            /\ \A v \in Workers \ {w} : h'[v] = h[v]
        BY <1>7, <2>1, MemMoves DEF Queues, HandlerGoes
      <3>2. HasDelay = TRUE
        BY <1>a, <3>1
      <3>3. \A t \in Tasks : Queue(t)'
        BY <1>a, <3>1, <3>2
      <3>4. \A v \in Workers : Hand(v)'
        BY <1>a, <3>1 DEF AtMem
      <3>5. QED
        BY <1>b, <3>3, <3>4
    <2>2. CASE ~ Queues(w)
      <3>1. /\ UNCHANGED <<dq, pending>>
            /\ Stores(w) \/ ReadsBack(w) \/ Publishes(w) \/ Deletes(w)
        BY <1>7, <2>2, MemMoves
      <3>2. \A v \in Workers \ {w} : h'[v] = h[v]
        BY <3>1 DEF Stores, ReadsBack, Publishes, Deletes, HandlerGoes
      <3>3. Hand(w)'
        <4>1. h[w].pc \in AtMem \cup {"delete"} /\ h'[w].rec = h[w].rec
          BY <3>1 DEF Stores, ReadsBack, Publishes, Deletes, HandlerGoes, AtMem
        <4>2. /\ h'[w].pc \in {"err", "ok", "read", "delete", "enqueue", "publish"}
              /\ h'[w].pc = "publish" => HasDelay = FALSE
              /\ h'[w].pc = "enqueue" => HasDelay = TRUE
          BY <3>1 DEF Stores, ReadsBack, Publishes, Deletes, HandlerGoes
        <4>3. QED
          BY <1>a, <4>1, <4>2 DEF AtMem
      <3>4. QED
        BY <1>1, <3>1, <3>2, <3>3
    <2>3. QED
      BY <2>1, <2>2
  <1>8. ASSUME NEW t \in Tasks, Delay(t) PROVE MemShape'
    <2>1. /\ HasDelay = TRUE /\ DelaySteps(t, RedisOpen(t[1])) /\ h' = h
      BY <1>0, <1>8 DEF Delay, DelaySteps
    <2>2. /\ \A s \in Tasks \ {t} : dq'[s] = dq[s] /\ pending'[s] = pending[s]
          /\ dq'[t].pc # "zrem" /\ (dq'[t].pc = "idle" => dq'[t].todo = <<>>)
      BY <2>1, MemFlush
    <2>3. \A s \in Tasks : Queue(s)'
      BY <1>a, <2>1, <2>2
    <2>4. \A w \in Workers : Hand(w)'
      BY <1>a, <2>1
    <2>5. QED
      BY <1>b, <2>3, <2>4
  <1>9. CASE UNCHANGED vars
    BY <1>2, <1>9 DEF vars, delayVars
  <1>10. QED
    BY <1>3, <1>4, <1>5, <1>6, <1>7, <1>8, <1>9, MemCases

\* Nothing waits, and no handler is at work, in the beginning.
LEMMA ShapeInit == Init => MemShape
  BY DEF Init, DelayInit, HandlerInit, Ready, Resting, MemShape, AtMem

----------------------------------------------------------------------------
(* Without Redis and without a fault, no document repeats others.          *)

\* A valid record whose handler has stored it, or has at least tried to.
Taken(r) ==
    /\ r \notin Malformed
    /\ \/ r \in handled \cup errored
       \/ \E w \in Workers : h[w].rec = r /\ h[w].pc \notin {"idle", "upsert"}

RowTaken(row) == \A s \in StreamIDs : row[s] # NoData => Taken(row[s])

\* Every document has something new, those that wait in memory too.
NewDocs ==
    /\ Fresh(egress, {})
    /\ \A t \in Tasks :
         /\ Fresh(Rest(t), Data(egress))
         /\ Fresh(pending[t], Data(egress) \cup Data(Rest(t)))

\* What is in a row or in a document was taken; what waits in the memory of
\* an instance came from a partition that the instance owns.
Line(t, d) ==
    d.key[1] = t[2] /\ \A r \in d.data : Taken(r) /\ owner[r[1]] = t[1]

TakenData ==
    /\ \A k \in Keys : RowTaken(rows[k])
    /\ \A r \in Data(egress) : Taken(r)
    /\ \A t \in Tasks : \A d \in InLine(t) : Line(t, d)

\* The record in hand is in no document yet; if the row is still there when it
\* is read back, the record is in it.
HandNew(w) ==
    /\ h[w].pc \in AtMem =>
         /\ h[w].rec \notin Data(egress)
         /\ \A t \in Tasks : \A d \in InLine(t) : h[w].rec \notin d.data
    /\ h[w].pc = "read" => rows[Key(w)] = NoRow \/ rows[Key(w)][Stream(w)] = h[w].rec
    /\ h[w].pc \in {"enqueue", "publish"} =>
         h[w].row[Stream(w)] = h[w].rec /\ RowTaken(h[w].row)

NewInv == NewDocs /\ TakenData /\ \A w \in Workers : HandNew(w)

FreshInv ==
    /\ OwnInv /\ WorksOnCurrent /\ MemShape /\ LP!OnceInv
    /\ faults = 0 => NewInv

\* As long as nothing failed, an instance owns the partition of the record in
\* hand.
LEMMA QuietHand == FreshInv /\ faults = 0 => HandInv
  BY DEF FreshInv, HandInv, LP!OnceInv, LP!ExclusiveInv, LP!FetchedInv, LP!MonotoneInv

\* A step without a fault is no crash, takes no partition from an instance, and
\* what was taken stays so.
LEMMA QuietMoves ==
    ASSUME HasRedis = FALSE, FreshInv, [Next]_vars, faults' = 0
    PROVE  /\ faults = 0
           /\ ~ \E w \in Workers : CrashStep(w) \/ KillStep(w)
           /\ \A p \in Partitions : owner[p] \in Workers => owner'[p] = owner[p]
           /\ \A r : Taken(r) => Taken(r)'
  <1>1. /\ faults = 0 /\ ~LP!Fault
        /\ \A p \in Partitions : owner[p] \in Workers => owner'[p] = owner[p]
        /\ handled \subseteq handled' /\ errored \subseteq errored'
    BY LoopMovesOn, LP!QuietStep, LoopAssumption DEF FreshInv
  <1>2. ASSUME NEW w \in Workers, CrashStep(w) \/ KillStep(w) PROVE FALSE
    <2>1. ~Loop!Fault /\ loop[w].pc # "closing"
      BY <1>1 DEF LP!Fault, Loop!Fault, FreshInv, LP!OnceInv, LP!Steady
    <2>2. QED
      BY <1>2, <2>1 DEF CrashStep, KillStep, Loop!Crash, Loop!Kill
  <1>3. \A r : Taken(r) => Taken(r)'
    <2> SUFFICES ASSUME NEW r, Taken(r), r \notin handled \cup errored PROVE Taken(r)'
      BY <1>1 DEF Taken
    <2>1. PICK w \in Workers : h[w].rec = r /\ h[w].pc \notin {"idle", "upsert"}
      BY DEF Taken
    <2>2. r \notin Malformed /\ h \in [Workers -> HandleStates]
      BY DEF Taken, FreshInv, OwnInv, SharedInv, HandlerOK
    <2>3. CASE h'[w] = h[w]
      BY <2>1, <2>2, <2>3 DEF Taken
    <2>4. CASE h'[w] # h[w]
      <3>1. Call(w) \/ Handle(w) \/ Return(w)
        <4>1. ASSUME NEW v \in Workers, Call(v) \/ Return(v) \/ Handle(v), v # w
              PROVE  h'[w] = h[w]
          BY <2>2, <4>1, MemMoves
             DEF Call, StartHandle, Return, Queues, Stores, ReadsBack, Publishes, Deletes,
                 HandlerGoes, FreshInv
        <4>2. ASSUME \/ \E v \in Workers : LoopStep(v) \/ GroupStep(v)
                     \/ \E t \in Tasks : Delay(t)
                     \/ UNCHANGED vars
              PROVE  h' = h
          BY <4>2 DEF LoopStep, GroupStep, Delay, vars
        <4>3. QED
          BY <1>2, <2>4, <4>1, <4>2, MemCases
      <3>2. CASE Call(w)
        BY <2>1, <3>2 DEF Call, StartHandle
      <3>3. CASE Handle(w)
        <4>1. h'[w].rec = r /\ h'[w].pc \notin {"idle", "upsert"}
          BY <2>1, <3>3, MemMoves
             DEF Queues, Stores, ReadsBack, Publishes, Deletes, HandlerGoes, FreshInv
        <4>2. QED
          BY <2>2, <4>1 DEF Taken
      <3>4. CASE Return(w)
        <4>1. r = Loop!Current(w)
          BY <2>1 DEF FreshInv, WorksOnCurrent
        <4>2. r \in handled' \cup errored'
          BY <3>4, <4>1 DEF Return, Loop!HandleReturns
        <4>3. QED
          BY <2>2, <4>2 DEF Taken
      <3>5. QED
        BY <3>1, <3>2, <3>3, <3>4
    <2>5. QED
      BY <2>3, <2>4
  <1>4. QED
    BY <1>1, <1>2, <1>3

\* What the documents that wait are made of.
LEMMA LineFacts ==
    ASSUME FreshInv, faults = 0, NEW t \in Tasks
    PROVE  /\ Rest(t) \in Seq(OwnDocuments) /\ pending[t] \in Seq(OwnDocuments)
           /\ Data(Rest(t)) \subseteq Records /\ Data(pending[t]) \subseteq Records
           /\ InLine(t) \subseteq OwnDocuments
           /\ \A x \in Data(Rest(t)) \cup Data(pending[t]) :
                owner[x[1]] = t[1] /\ KeyOf[x][1] = t[2] /\ Taken(x)
  <1>1. /\ dq[t] \in FlushStates /\ pending[t] \in Seq(OwnDocuments)
        /\ dq[t].todo \in Seq(OwnDocuments)
        /\ dq[t].pc # "idle" => Tail(dq[t].todo) \in Seq(OwnDocuments)
    BY ItemFacts DEF FreshInv, OwnInv, SharedInv, QueuesOK, FlushStates
  <1>2. Rest(t) \in Seq(OwnDocuments)
    BY <1>1, EmptySeq DEF Rest
  <1>3. InLine(t) \subseteq OwnDocuments
    BY <1>1, <1>2, ElementOfSeq DEF InLine, Topic
  <1>4. /\ Data(Rest(t)) \cup Data(pending[t]) = UNION {d.data : d \in InLine(t)}
    BY DEF Data, InLine
  <1>5. ASSUME NEW d \in InLine(t), NEW x \in d.data
        PROVE  x \in Records /\ owner[x[1]] = t[1] /\ KeyOf[x][1] = t[2] /\ Taken(x)
    BY <1>3, <1>5 DEF OwnDocuments, Documents, FreshInv, NewInv, TakenData, Line
  <1>6. QED
    BY <1>1, <1>2, <1>3, <1>4, <1>5

\* A step that publishes and queues nothing.
LEMMA NewSame ==
    ASSUME FreshInv, faults = 0, UNCHANGED <<egress, dq, pending>>,
           \A p \in Partitions : owner[p] \in Workers => owner'[p] = owner[p],
           \A r : Taken(r) => Taken(r)',
           \A k \in Keys, s \in StreamIDs : \A r :
              rows'[k][s] = r => r \in {NoData, rows[k][s]} \/ Taken(r)',
           \A w \in Workers : HandNew(w)'
    PROVE  NewInv'
  <1>1. NewInv
    BY DEF FreshInv
  <1>2. \A t \in Tasks : Rest(t)' = Rest(t) /\ InLine(t)' = InLine(t)
    BY DEF Rest, InLine
  <1>3. NewDocs'
    BY <1>1, <1>2 DEF NewInv, NewDocs
  <1>4. ASSUME NEW k \in Keys PROVE RowTaken(rows[k])'
    <2>1. ASSUME NEW s \in StreamIDs, NEW r, rows'[k][s] = r, r # NoData PROVE Taken(r)'
      <3>1. r = rows[k][s] \/ Taken(r)'
        BY <2>1
      <3>2. r = rows[k][s] => Taken(r)
        BY <1>1, <2>1 DEF NewInv, TakenData, RowTaken
      <3>3. QED
        BY <3>1, <3>2
    <2>2. QED
      BY <2>1 DEF RowTaken
  <1>5. \A r \in Data(egress') : Taken(r)'
    BY <1>1 DEF NewInv, TakenData
  <1>6. ASSUME NEW t \in Tasks, NEW d \in InLine(t)' PROVE Line(t, d)'
    <2>1. Line(t, d) /\ d \in OwnDocuments
      BY <1>1, <1>2, <1>6, LineFacts DEF NewInv, TakenData
    <2>2. \A r \in d.data : r[1] \in Partitions /\ t[1] \in Workers
      BY <2>1, RecordPlaces DEF OwnDocuments, Documents, Tasks
    <2>3. QED
      BY <2>1, <2>2 DEF Line
  <1>7. QED
    BY <1>3, <1>4, <1>5, <1>6 DEF NewInv, TakenData

\* A handler that does not move has nothing to fear of rows that are not its
\* own, and of records of other keys.
LEMMA HandStays ==
    ASSUME FreshInv, faults = 0, NEW w \in Workers, h'[w] = h[w],
           \A r : Taken(r) => Taken(r)',
           h[w].pc = "read" => rows'[Key(w)] \in {NoRow, rows[Key(w)]},
           h[w].pc \in AtMem =>
               /\ h[w].rec \notin Data(egress') \ Data(egress)
               /\ \A t \in Tasks : \A d \in InLine(t)' \ InLine(t) : h[w].rec \notin d.data
    PROVE  HandNew(w)'
  <1>1. HandNew(w)
    BY DEF FreshInv, NewInv
  <1>2. Key(w)' = Key(w) /\ Stream(w)' = Stream(w)
    BY DEF Key, Stream
  <1>3. h[w].pc \in AtMem => /\ h[w].rec \notin Data(egress')
                             /\ \A t \in Tasks : \A d \in InLine(t)' : h[w].rec \notin d.data
    BY <1>1 DEF HandNew
  <1>4. h[w].pc = "read" => rows'[Key(w)] = NoRow \/ rows'[Key(w)][Stream(w)] = h[w].rec
    BY <1>1 DEF HandNew
  <1>5. RowTaken(h[w].row) => RowTaken(h[w].row)'
    BY DEF RowTaken
  <1>6. QED
    BY <1>1, <1>2, <1>3, <1>4, <1>5 DEF HandNew

\* The record that a handler is called with is new: nobody has taken it.
LEMMA CalledWithNew ==
    ASSUME FreshInv, faults = 0, NEW w \in Workers, h[w].pc = "idle",
           loop[w].pc = "handle"
    PROVE  ~ Taken(Loop!Current(w))
  <1> DEFINE p == loop[w].part
             o == cursor[w][p]
  <1>1. /\ p \in Partitions /\ o \in Nat /\ Loop!Current(w) = <<p, o>>
        /\ owner[p] = w
    BY CurrentIsRecord
       DEF FreshInv, OwnInv, LP!OnceInv, LP!OwnsBatch, LP!Busy
  <1>2. <<p, o>> \notin handled \cup errored
    <2> SUFFICES ASSUME <<p, o>> \in handled \cup errored PROVE FALSE
      OBVIOUS
    <2>1. LP!Behind(w, p, o)
      BY <1>1 DEF FreshInv, LP!OnceInv, LP!HandledBehind
    <2>2. QED
      BY <1>1, <2>1 DEF LP!Behind
  <1>3. ASSUME NEW v \in Workers, h[v].rec = <<p, o>>, h[v].pc # "idle" PROVE FALSE
    <2>1. loop[v].part = p /\ owner[loop[v].part] = v
      BY <1>3, QuietHand, InnerFacts
    <2>2. QED
      BY <1>1, <1>3, <2>1
  <1>4. QED
    BY <1>1, <1>2, <1>3 DEF Taken

\* A handler that is called, or that stores its record or reads the row back.
LEMMA NewHand ==
    ASSUME HasRedis = FALSE, KeyAffinity, FreshInv, [Next]_vars, faults' = 0,
           NEW w \in Workers,
           \/ Call(w)
           \/ Handle(w) /\ (Stores(w) \/ ReadsBack(w) \/ Deletes(w))
    PROVE  NewInv'
  <1>0. /\ faults = 0 /\ NewInv /\ HandNew(w) /\ MemShape /\ OwnInv /\ HandInv
        /\ \A p \in Partitions : owner[p] \in Workers => owner'[p] = owner[p]
        /\ \A r : Taken(r) => Taken(r)'
        /\ h \in [Workers -> HandleStates] /\ rows \in [Keys -> Row]
    BY QuietMoves, QuietHand DEF FreshInv, NewInv, OwnInv, SharedInv, HandlerOK, RowsOK
  <1>1. CASE Call(w)
    <2>1. /\ UNCHANGED <<rows, egress, dq, pending>> /\ loop[w].pc = "handle"
          /\ h[w].pc = "idle" /\ h'[w].rec = Loop!Current(w)
          /\ h'[w].pc = IF Loop!Current(w) \in Malformed THEN "err" ELSE "upsert"
          /\ \A v \in Workers \ {w} : h'[v] = h[v]
      BY <1>0, <1>1 DEF Call, StartHandle, storeVars, delayVars, Ready
    <2>2. /\ Loop!Current(w) \notin Data(egress)
          /\ \A t \in Tasks : \A d \in InLine(t) : Loop!Current(w) \notin d.data
      BY <1>0, <2>1, CalledWithNew DEF NewInv, TakenData, Line
    <2>3. HandNew(w)'
      BY <2>1, <2>2 DEF HandNew, AtMem, Rest, InLine
    <2>4. \A v \in Workers \ {w} : HandNew(v)'
      BY <1>0, <2>1, HandStays DEF Rest, InLine
    <2>5. QED
      BY <1>0, <2>1, <2>3, <2>4, NewSame
  <1>2. CASE Handle(w) /\ (Stores(w) \/ ReadsBack(w) \/ Deletes(w))
    <2>0. /\ UNCHANGED <<egress, dq, pending>> /\ h'[w].rec = h[w].rec
          /\ \A v \in Workers \ {w} : h'[v] = h[v]
          /\ \A t \in Tasks : InLine(t)' = InLine(t)
      BY <1>0, <1>2, MemMoves
         DEF Stores, ReadsBack, Deletes, Queues, Publishes, HandlerGoes, Rest, InLine
    <2>a. /\ Key(w)' = Key(w) /\ Stream(w)' = Stream(w) /\ h[w].rec \in Records
          /\ Key(w) \in Keys /\ Stream(w) \in StreamIDs /\ h[w].rec \notin Malformed
          /\ rows[Key(w)] \in [StreamIDs -> Records \cup {NoData}]
      BY <1>0, <1>2, <2>0, InnerFacts
         DEF Key, Stream, Stores, ReadsBack, Deletes, MemShape, AtMem, Row
    <2>1. CASE Stores(w)
      <3>1. /\ h[w].pc = "upsert" /\ h'[w].pc \in {"read", "err"}
            /\ \/ rows' = rows /\ h'[w].pc = "err"
               \/ Upsert(Key(w), Stream(w), h[w].rec)
        BY <2>1 DEF Stores, HandlerGoes
      <3>2. Taken(h[w].rec)'
        BY <2>0, <2>a, <3>1 DEF Taken
      <3>3. \A k \in Keys, s \in StreamIDs :
              rows'[k][s] = rows[k][s] \/ rows'[k][s] = h[w].rec
        BY <1>0, <2>a, <3>1 DEF Upsert, Row
      <3>4. HandNew(w)'
        <4>1. h'[w].pc = "read" => rows'[Key(w)][Stream(w)] = h[w].rec
          BY <1>0, <2>a, <3>1 DEF Upsert, Row
        <4>2. /\ h'[w].pc \in AtMem => /\ h'[w].rec \notin Data(egress')
                                       /\ \A t \in Tasks : \A d \in InLine(t)' : h'[w].rec \notin d.data
          BY <1>0, <2>0, <3>1 DEF HandNew, AtMem
        <4>3. QED
          BY <2>0, <2>a, <3>1, <4>1, <4>2 DEF HandNew
      <3>5. ASSUME NEW v \in Workers \ {w} PROVE HandNew(v)'
        <4>1. h[v].pc = "read" => rows'[Key(v)] = rows[Key(v)]
          <5> SUFFICES ASSUME h[v].pc = "read" PROVE rows'[Key(v)] = rows[Key(v)]
            OBVIOUS
          <5>1. Key(v) # Key(w) /\ Key(v) \in Keys
            BY <1>0, <2>a, <3>1, KeysApart, InnerFacts DEF MemShape, AtMem
          <5>2. QED
            BY <1>0, <2>a, <3>1, <5>1 DEF Upsert
        <4>2. QED
          BY <1>0, <2>0, <4>1, HandStays
      <3>6. QED
        BY <1>0, <2>0, <3>2, <3>3, <3>4, <3>5, NewSame
    <2>2. CASE ReadsBack(w)
      <3>1. /\ h[w].pc = "read" /\ rows' = rows
            /\ \/ h'[w].pc \in {"ok", "err"}
               \/ h'[w].pc \in {"enqueue", "publish"} /\ h'[w].row = rows[Key(w)]
                  /\ IsComplete(rows[Key(w)])
        BY <2>2 DEF ReadsBack, HandlerGoes
      <3>2. IsComplete(rows[Key(w)]) => rows[Key(w)][Stream(w)] = h[w].rec
        BY <1>0, <3>1 DEF HandNew, IsComplete, Arrived, NoRow
      <3>3. RowTaken(rows[Key(w)])'
        BY <1>0, <2>a, <3>1 DEF NewInv, TakenData, RowTaken
      <3>4. HandNew(w)'
        <4>1. /\ h'[w].rec \notin Data(egress')
              /\ \A t \in Tasks : \A d \in InLine(t)' : h'[w].rec \notin d.data
          BY <1>0, <2>0, <3>1 DEF HandNew, AtMem
        <4>2. h'[w].pc \in {"enqueue", "publish"} =>
                h'[w].row[Stream(w)] = h'[w].rec /\ RowTaken(h[w].row)'
          BY <2>0, <2>a, <3>1, <3>2, <3>3 DEF RowTaken
        <4>3. QED
          BY <2>a, <3>1, <4>1, <4>2 DEF HandNew
      <3>5. \A v \in Workers \ {w} : HandNew(v)'
        BY <1>0, <2>0, <3>1, HandStays
      <3>6. QED
        BY <1>0, <2>0, <3>1, <3>4, <3>5, NewSame
    <2>3. CASE Deletes(w)
      <3>1. h'[w].pc \in {"ok", "err"} /\ (rows' = rows \/ DeleteState(Key(w)))
        BY <2>3 DEF Deletes, HandlerGoes
      <3>2. \A k \in Keys : rows'[k] \in {NoRow, rows[k]}
        BY <1>0, <2>a, <3>1 DEF DeleteState
      <3>3. \A k \in Keys, s \in StreamIDs : rows'[k][s] \in {NoData, rows[k][s]}
        BY <3>2 DEF NoRow
      <3>4. HandNew(w)'
        BY <3>1 DEF HandNew, AtMem
      <3>5. ASSUME NEW v \in Workers \ {w} PROVE HandNew(v)'
        <4>1. h[v].pc = "read" => rows'[Key(v)] \in {NoRow, rows[Key(v)]}
          BY <1>0, <3>2, InnerFacts
        <4>2. QED
          BY <1>0, <2>0, <4>1, HandStays
      <3>6. QED
        BY <1>0, <2>0, <3>3, <3>4, <3>5, NewSame
    <2>4. QED
      BY <1>2, <2>1, <2>2, <2>3
  <1>3. QED
    BY <1>1, <1>2

\* What a handler joins has its own record, and nothing that an instance with
\* another record in hand still has to store.
LEMMA JoinIsNew ==
    ASSUME Projected = StreamIDs, KeyAffinity, FreshInv, faults = 0, NEW w \in Workers,
           h[w].pc \in {"enqueue", "publish"}
    PROVE  /\ Joined(w) \in OwnDocuments /\ Joined(w).key = Key(w) /\ Key(w) \in Keys
           /\ h[w].rec \in Joined(w).data
           /\ \A x \in Joined(w).data :
                x \in Records /\ KeyOf[x] = Key(w) /\ Taken(x) /\ owner[x[1]] = w
           /\ \A v \in Workers \ {w} : h[v].pc \in AtMem => h[v].rec \notin Joined(w).data
  <1>1. /\ HandInv /\ MemShape /\ OwnInv /\ HandNew(w)
        /\ h[w].row[Stream(w)] = h[w].rec /\ RowTaken(h[w].row)
        /\ h[w].rec \notin Malformed
    BY QuietHand DEF FreshInv, NewInv, HandNew, MemShape, AtMem
  <1>2. /\ h[w].rec \in Records /\ Key(w) \in Keys /\ Stream(w) \in StreamIDs
        /\ owner[h[w].rec[1]] = w
    BY <1>1, InnerFacts
  <1>3. /\ Joined(w) \in OwnDocuments /\ Joined(w).key = Key(w)
        /\ Joined(w).data = {h[w].row[s] : s \in Arrived(h[w].row)}
    BY <1>1, JoinedIsOwn DEF Joined, Document, Apply, Arrived
  <1>4. h[w].rec \in Joined(w).data
    <2>1. h[w].rec # NoData
      BY <1>2, StoreConstants
    <2>2. QED
      BY <1>1, <1>2, <1>3, <2>1 DEF Arrived
  <1>5. ASSUME NEW x \in Joined(w).data
        PROVE  x \in Records /\ KeyOf[x] = Key(w) /\ Taken(x) /\ owner[x[1]] = w
    <2>1. x \in Records /\ KeyOf[x] = Key(w)
      BY <1>3 DEF OwnDocuments, Documents
    <2>2. Taken(x)
      BY <1>1, <1>3 DEF RowTaken, Arrived
    <2>3. x[1] = h[w].rec[1]
      BY <1>1, <1>2, <2>1, <2>2 DEF KeyAffinity, Taken, Key
    <2>4. QED
      BY <1>2, <2>1, <2>2, <2>3
  <1>6. ASSUME NEW v \in Workers \ {w}, h[v].pc \in AtMem PROVE h[v].rec \notin Joined(w).data
    <2>1. Key(v) # Key(w)
      BY <1>1, <1>6, KeysApart DEF MemShape, AtMem
    <2>2. QED
      BY <1>5, <2>1 DEF Key
  <1>7. QED
    BY <1>2, <1>3, <1>4, <1>5, <1>6

\* A handler publishes its join, ...
LEMMA NewPublished ==
    ASSUME HasRedis = FALSE, Projected = StreamIDs, KeyAffinity, FreshInv, [Next]_vars,
           faults' = 0, NEW w \in Workers, Handle(w), Publishes(w)
    PROVE  NewInv'
  <1>0. /\ faults = 0 /\ NewInv /\ MemShape /\ OwnInv /\ h[w].pc = "publish"
        /\ \A r : Taken(r) => Taken(r)'
        /\ UNCHANGED <<rows, owner, dq, pending>> /\ egress \in Seq(OwnDocuments)
    BY QuietMoves, MemMoves
       DEF FreshInv, OwnInv, SharedInv, LogsOK, Publishes, Queues, Handle, loopVars
  <1>1. /\ \A v \in Workers \ {w} : h'[v] = h[v]
        /\ h'[w].pc \in {"delete", "err"}
        /\ egress' = egress \/ Produce(Joined(w))
    BY DEF Publishes, HandlerGoes
  <1>2. \A t \in Tasks : /\ dq[t].pc = "idle" /\ pending[t] = <<>> /\ Rest(t) = <<>>
                         /\ Rest(t)' = <<>> /\ InLine(t) = {} /\ InLine(t)' = {}
    <2>1. HasDelay = FALSE /\ Topic(<<>>) = {}
      BY <1>0, EmptySeq DEF MemShape, Topic
    <2>2. QED
      BY <1>0, <2>1 DEF MemShape, Rest, InLine
  <1>3. /\ Joined(w) \in OwnDocuments /\ h[w].rec \in Joined(w).data
        /\ \A x \in Joined(w).data : Taken(x)
        /\ \A v \in Workers \ {w} : h[v].pc \in AtMem => h[v].rec \notin Joined(w).data
        /\ h[w].rec \notin Data(egress)
    BY <1>0, JoinIsNew DEF NewInv, HandNew, AtMem
  <1>4. /\ Fresh(egress', {})
        /\ Data(egress') \subseteq Data(egress) \cup Joined(w).data
    <2>1. CASE egress' = egress
      BY <1>0, <2>1 DEF NewInv, NewDocs
    <2>2. CASE Produce(Joined(w))
      BY <1>0, <1>3, <2>2, FreshAppend, DataFacts DEF NewInv, NewDocs, Produce
    <2>3. QED
      BY <1>1, <2>1, <2>2
  <1>5. NewDocs'
    <2>1. \A D : Fresh(<<>>, D)
      BY EmptySeq DEF Fresh
    <2>2. QED
      BY <1>0, <1>2, <1>4, <2>1 DEF NewDocs
  <1>6. TakenData'
    <2>1. \A r \in Data(egress') : Taken(r)'
      BY <1>0, <1>3, <1>4 DEF NewInv, TakenData
    <2>2. \A k \in Keys : RowTaken(rows[k])'
      BY <1>0 DEF NewInv, TakenData, RowTaken
    <2>3. QED
      BY <1>2, <2>1, <2>2 DEF TakenData
  <1>7. HandNew(w)'
    BY <1>1 DEF HandNew, AtMem
  <1>8. \A v \in Workers \ {w} : HandNew(v)'
    BY <1>0, <1>1, <1>2, <1>3, <1>4, HandStays
  <1>9. QED
    BY <1>5, <1>6, <1>7, <1>8 DEF NewInv

\* ... or puts it at the end of a queue.
LEMMA NewQueued ==
    ASSUME HasRedis = FALSE, Projected = StreamIDs, KeyAffinity, FreshInv, [Next]_vars,
           faults' = 0, NEW w \in Workers, Handle(w), Queues(w)
    PROVE  NewInv'
  <1>a. h[w].pc = "enqueue" /\ faults = 0
    BY QuietMoves DEF Queues
  <1>1. /\ Joined(w) \in OwnDocuments /\ Joined(w).key = Key(w) /\ Key(w) \in Keys
        /\ h[w].rec \in Joined(w).data
        /\ \A x \in Joined(w).data : Taken(x) /\ owner[x[1]] = w
        /\ \A v \in Workers \ {w} : h[v].pc \in AtMem => h[v].rec \notin Joined(w).data
    BY <1>a, JoinIsNew
  <1>2. PICK q \in Tasks : q = <<w, Key(w)[1]>>
    BY <1>1 DEF Tasks, Keys
  <1>0. /\ faults = 0 /\ NewInv /\ OwnInv /\ h[w].pc = "enqueue" /\ HandNew(w)
        /\ \A r : Taken(r) => Taken(r)'
        /\ UNCHANGED <<rows, owner, dq, egress>>
        /\ pending \in [Tasks -> Seq(OwnDocuments)]
        /\ pending' = [pending EXCEPT ![q] = Append(@, Joined(w))]
        /\ h'[w].pc = "ok" /\ \A v \in Workers \ {w} : h'[v] = h[v]
    BY <1>2, QuietMoves, MemMoves
       DEF FreshInv, OwnInv, SharedInv, QueuesOK, Queues, HandlerGoes, Handle, loopVars, NewInv
  <1>3. /\ pending'[q] = Append(pending[q], Joined(w))
        /\ \A t \in Tasks \ {q} : pending'[t] = pending[t]
        /\ \A t \in Tasks : Rest(t)' = Rest(t)
    BY <1>0, <1>2 DEF Rest
  <1>4. /\ InLine(q)' = InLine(q) \cup {Joined(w)}
        /\ \A t \in Tasks \ {q} : InLine(t)' = InLine(t)
    <2>1. Topic(pending'[q]) = Topic(pending[q]) \cup {Joined(w)}
      BY <1>0, <1>1, <1>2, <1>3, Appended
    <2>2. QED
      BY <1>2, <1>3, <2>1 DEF InLine
  <1>5. h[w].rec \notin Data(egress) \cup Data(Rest(q)) /\ h[w].rec \notin Data(pending[q])
    BY <1>0, <1>2 DEF HandNew, AtMem, Data, InLine
  <1>6. Fresh(pending'[q], Data(egress) \cup Data(Rest(q)))
    <2>1. Fresh(pending[q], Data(egress) \cup Data(Rest(q))) /\ pending[q] \in Seq(OwnDocuments)
      BY <1>0, <1>2 DEF NewInv, NewDocs
    <2>2. QED
      BY <1>1, <1>3, <1>5, <2>1, FreshAppend
  <1>7. NewDocs'
    BY <1>0, <1>3, <1>6 DEF NewInv, NewDocs
  <1>8. TakenData'
    <2>1. \A k \in Keys : RowTaken(rows[k])'
      BY <1>0 DEF NewInv, TakenData, RowTaken
    <2>2. \A r \in Data(egress') : Taken(r)'
      BY <1>0 DEF NewInv, TakenData
    <2>3. ASSUME NEW t \in Tasks, NEW d \in InLine(t)' PROVE Line(t, d)'
      <3>1. Line(t, d)
        <4>1. CASE d \in InLine(t)
          BY <1>0, <4>1 DEF NewInv, TakenData
        <4>2. CASE t = q /\ d = Joined(w)
          <5>1. t[1] = w /\ t[2] = Key(w)[1]
            BY <1>2, <4>2
          <5>2. QED
            BY <1>1, <4>2, <5>1 DEF Line
        <4>3. QED
          BY <1>4, <2>3, <4>1, <4>2
      <3>2. QED
        BY <1>0, <3>1 DEF Line
    <2>4. QED
      BY <2>1, <2>2, <2>3 DEF TakenData
  <1>9. HandNew(w)'
    BY <1>0 DEF HandNew, AtMem
  <1>10. \A v \in Workers \ {w} : HandNew(v)'
    <2>1. \A t \in Tasks : InLine(t)' \subseteq InLine(t) \cup {Joined(w)}
      BY <1>4
    <2>2. QED
      BY <1>0, <1>1, <2>1, HandStays
  <1>11. QED
    BY <1>7, <1>8, <1>9, <1>10 DEF NewInv

\* The queues of two tasks have no record in common: they are of different
\* configs, or of partitions with different owners.
LEMMA LinesApart ==
    ASSUME FreshInv, faults = 0, NEW s \in Tasks, NEW t \in Tasks, s # t,
           NEW x \in Data(Rest(t)) \cup Data(pending[t])
    PROVE  x \notin Data(Rest(s)) \cup Data(pending[s])
  <1>1. owner[x[1]] = t[1] /\ KeyOf[x][1] = t[2]
    BY LineFacts
  <1>2. x \in Data(Rest(s)) \cup Data(pending[s]) =>
          owner[x[1]] = s[1] /\ KeyOf[x][1] = s[2]
    BY LineFacts
  <1>3. QED
    BY <1>1, <1>2 DEF Tasks

\* The flush of a queue.
LEMMA NewFlushed ==
    ASSUME HasRedis = FALSE, FreshInv, [Next]_vars, faults' = 0, NEW t \in Tasks, Delay(t)
    PROVE  NewInv'
  <1>0. /\ faults = 0 /\ NewInv /\ NewDocs /\ OwnInv /\ MemShape
        /\ UNCHANGED <<h, owner>> /\ DelaySteps(t, RedisOpen(t[1]))
        /\ \A r : Taken(r) => Taken(r)'
        /\ egress \in Seq(OwnDocuments) /\ rows \in [Keys -> Row]
    BY QuietMoves
       DEF FreshInv, NewInv, OwnInv, SharedInv, LogsOK, RowsOK, Delay, loopVars
  <1>a. /\ Rest(t) \in Seq(OwnDocuments) /\ pending[t] \in Seq(OwnDocuments)
        /\ Fresh(Rest(t), Data(egress))
        /\ Fresh(pending[t], Data(egress) \cup Data(Rest(t)))
    BY <1>0, LineFacts DEF NewDocs
  <1>b. /\ \A s \in Tasks \ {t} : /\ Rest(s)' = Rest(s) /\ pending'[s] = pending[s]
                                  /\ InLine(s)' = InLine(s)
        /\ Takes(t) \/ Sends(t) \/ Clears(t)
    <2>1. \A s \in Tasks \ {t} : dq'[s] = dq[s] /\ pending'[s] = pending[s]
      BY <1>0, MemFlush
    <2>2. QED
      BY <1>0, <2>1, MemFlush DEF Rest, InLine
  <1> DEFINE Common ==
               /\ InLine(t)' \subseteq InLine(t)
               /\ \A r \in Data(egress') : r \in Data(egress) \/ r \in Data(Rest(t))
               /\ \A k \in Keys : rows'[k] \in {NoRow, rows[k]}
  <1>c. ASSUME egress' = egress,
               Fresh(Rest(t)', Data(egress)),
               Fresh(pending'[t], Data(egress) \cup Data(Rest(t)'))
        PROVE  NewDocs'
    BY <1>0, <1>b, <1>c DEF NewDocs
  <1>1. ASSUME Takes(t) PROVE NewDocs' /\ Common
    <2>1. PICK n \in 1 .. Len(pending[t]) :
            /\ Rest(t)' = SubSeq(pending[t], 1, n)
            /\ pending'[t] = SubSeq(pending[t], n + 1, Len(pending[t]))
      BY <1>1 DEF Takes
    <2>2. UNCHANGED <<rows, egress>> /\ Data(Rest(t)) = {}
      BY <1>1, <1>a, DataFacts DEF Takes
    <2>3. /\ Fresh(Rest(t)', Data(egress))
          /\ Fresh(pending'[t], Data(egress) \cup Data(Rest(t)'))
          /\ Topic(pending[t]) = Topic(Rest(t)') \cup Topic(pending'[t])
      <3>1. Fresh(pending[t], Data(egress))
        BY <1>a, <2>2
      <3>2. /\ Fresh(SubSeq(pending[t], 1, n), Data(egress))
            /\ Fresh(SubSeq(pending[t], n + 1, Len(pending[t])),
                     Data(egress) \cup Data(SubSeq(pending[t], 1, n)))
            /\ Topic(pending[t]) = Topic(SubSeq(pending[t], 1, n))
                                     \cup Topic(SubSeq(pending[t], n + 1, Len(pending[t])))
        BY <1>a, <2>1, <3>1, FreshCut
      <3>3. QED
        BY <2>1, <3>2
    <2>4. InLine(t)' \subseteq InLine(t)
      BY <2>3 DEF InLine
    <2>5. QED
      BY <1>c, <2>2, <2>3, <2>4
  <1>2. ASSUME Sends(t) PROVE NewDocs' /\ Common
    <2>0. /\ UNCHANGED <<rows, pending>> /\ Rest(t) # <<>> /\ Rest(t)' = Tail(Rest(t))
          /\ egress' = egress \/ Produce(Head(Rest(t)))
      BY <1>2 DEF Sends
    <2>1. PICK hd \in OwnDocuments : hd = Head(Rest(t))
      BY <1>a, <2>0, HeadAndTail
    <2>2. /\ Tail(Rest(t)) \in Seq(OwnDocuments)
          /\ Topic(Rest(t)) = {hd} \cup Topic(Tail(Rest(t)))
          /\ Data(Rest(t)) = hd.data \cup Data(Tail(Rest(t)))
          /\ \E r \in hd.data : r \notin Data(egress)
          /\ Fresh(Tail(Rest(t)), Data(egress) \cup hd.data)
      <3>1. Tail(Rest(t)) \in Seq(OwnDocuments) /\ Topic(Rest(t)) = {hd} \cup Topic(Tail(Rest(t)))
        BY <1>a, <2>0, <2>1, HeadAndTail
      <3>2. Data(Rest(t)) = hd.data \cup Data(Tail(Rest(t)))
        BY <1>a, <2>0, <2>1, DataFacts
      <3>3. /\ \E r \in hd.data : r \notin Data(egress)
            /\ Fresh(Tail(Rest(t)), Data(egress) \cup hd.data)
        BY <1>a, <2>0, <2>1, FreshTail
      <3>4. QED
        BY <3>1, <3>2, <3>3
    <2>3. /\ Fresh(egress', {}) /\ Data(egress) \subseteq Data(egress')
          /\ Data(egress') \subseteq Data(egress) \cup hd.data
      <3>1. CASE egress' = egress
        BY <1>0, <3>1 DEF NewDocs
      <3>2. CASE Produce(hd)
        <4>1. PICK r \in hd.data : r \notin Data(egress)
          BY <2>2
        <4>2. Fresh(Append(egress, hd), {}) /\ Data(Append(egress, hd)) = Data(egress) \cup hd.data
          BY <1>0, <4>1, FreshAppend, DataFacts DEF NewDocs
        <4>3. QED
          BY <3>2, <4>2 DEF Produce
      <3>3. QED
        BY <2>0, <2>1, <3>1, <3>2
    <2>4. Fresh(Rest(t)', Data(egress'))
      BY <2>0, <2>2, <2>3, FreshBeside
    <2>5. Fresh(pending'[t], Data(egress') \cup Data(Rest(t)'))
      <3>1. Data(egress') \cup Data(Tail(Rest(t))) \subseteq Data(egress) \cup Data(Rest(t))
        BY <2>2, <2>3
      <3>2. Fresh(pending[t], Data(egress') \cup Data(Tail(Rest(t))))
        BY <1>a, <3>1, FreshBeside
      <3>3. QED
        BY <2>0, <3>2
    <2>6. ASSUME NEW s \in Tasks \ {t}
          PROVE  /\ Fresh(Rest(s)', Data(egress'))
                 /\ Fresh(pending'[s], Data(egress') \cup Data(Rest(s)'))
      <3>1. /\ Rest(s)' = Rest(s) /\ pending'[s] = pending[s]
            /\ Rest(s) \in Seq(OwnDocuments) /\ pending[s] \in Seq(OwnDocuments)
            /\ Fresh(Rest(s), Data(egress))
            /\ Fresh(pending[s], Data(egress) \cup Data(Rest(s)))
        BY <1>0, <1>b, LineFacts DEF NewDocs
      <3>2. \A x \in Data(egress') :
              x \in Data(egress) \/ x \notin Data(Rest(s)) \cup Data(pending[s])
        BY <1>0, <2>2, <2>3, LinesApart
      <3>3. Fresh(Rest(s), Data(egress'))
        BY <3>1, <3>2, FreshBeside
      <3>4. Fresh(pending[s], Data(egress') \cup Data(Rest(s)))
        <4>1. \A x \in Data(egress') \cup Data(Rest(s)) :
                x \in Data(egress) \cup Data(Rest(s)) \/ x \notin Data(pending[s])
          BY <3>2
        <4>2. QED
          BY <3>1, <4>1, FreshBeside
      <3>5. QED
        BY <3>1, <3>3, <3>4
    <2>7. NewDocs'
      BY <2>3, <2>4, <2>5, <2>6 DEF NewDocs
    <2>8. Common
      BY <2>0, <2>2, <2>3 DEF InLine
    <2>9. QED
      BY <2>7, <2>8
  <1>3. ASSUME Clears(t) PROVE NewDocs' /\ Common
    <2>1. /\ UNCHANGED <<egress, pending>> /\ Rest(t)' = Rest(t)
          /\ \A k \in Keys : rows'[k] \in {NoRow, rows[k]}
      BY <1>0, <1>3 DEF Clears, DeleteState
    <2>2. Fresh(Rest(t)', Data(egress)) /\ Fresh(pending'[t], Data(egress) \cup Data(Rest(t)'))
      BY <1>a, <2>1
    <2>3. InLine(t)' = InLine(t)
      BY <2>1 DEF InLine
    <2>4. QED
      BY <1>c, <2>1, <2>2, <2>3
  <1>4. NewDocs' /\ Common
    BY <1>b, <1>1, <1>2, <1>3
  <1>5. \A s \in Tasks : InLine(s)' \subseteq InLine(s)
    BY <1>4, <1>b
  <1>6. TakenData'
    <2>1. ASSUME NEW k \in Keys PROVE RowTaken(rows[k])'
      <3>1. RowTaken(rows[k]) /\ (rows'[k] = NoRow \/ rows'[k] = rows[k])
        BY <1>0, <1>4, <2>1 DEF NewInv, TakenData
      <3>2. QED
        BY <1>0, <3>1 DEF RowTaken, NoRow
    <2>2. \A r \in Data(egress') : Taken(r)'
      BY <1>0, <1>4, LineFacts DEF NewInv, TakenData
    <2>3. ASSUME NEW s \in Tasks, NEW d \in InLine(s)' PROVE Line(s, d)'
      <3>1. Line(s, d)
        BY <1>0, <1>5, <2>3 DEF NewInv, TakenData
      <3>2. QED
        BY <1>0, <3>1 DEF Line
    <2>4. QED
      BY <2>1, <2>2, <2>3 DEF TakenData
  <1>7. ASSUME NEW w \in Workers PROVE HandNew(w)'
    <2>1. h[w].pc = "read" => Key(w) \in Keys
      BY <1>0, QuietHand, InnerFacts
    <2>2. h[w].pc \in AtMem => h[w].rec \notin Data(egress') \ Data(egress)
      <3>1. h[w].pc \in AtMem => h[w].rec \notin Data(Rest(t))
        BY <1>0 DEF NewInv, HandNew, InLine, Data
      <3>2. QED
        BY <1>4, <3>1
    <2>3. h[w].pc = "read" => rows'[Key(w)] \in {NoRow, rows[Key(w)]}
      BY <1>4, <2>1
    <2>4. \A s \in Tasks : \A d \in InLine(s)' \ InLine(s) : h[w].rec \notin d.data
      BY <1>5
    <2>5. QED
      BY <1>0, <2>2, <2>3, <2>4, HandStays
  <1>8. QED
    BY <1>4, <1>6, <1>7 DEF NewInv

\* Every step keeps the invariant, ...
LEMMA FreshStep ==
    ASSUME HasRedis = FALSE, Projected = StreamIDs, KeyAffinity
    PROVE  FreshInv /\ [Next]_vars => FreshInv'
  <1> SUFFICES ASSUME FreshInv, [Next]_vars PROVE FreshInv'
    OBVIOUS
  <1>1. OwnInv' /\ WorksOnCurrent' /\ MemShape' /\ LP!OnceInv'
    BY OwnStep, WorksStep, ShapeStep, LP!OnceStep, LoopMovesOn, LoopAssumption DEF FreshInv
  <1>2. ASSUME faults' = 0 PROVE NewInv'
    <2>0. /\ faults = 0 /\ NewInv /\ h \in [Workers -> HandleStates]
          /\ ~ \E w \in Workers : CrashStep(w) \/ KillStep(w)
          /\ \A p \in Partitions : owner[p] \in Workers => owner'[p] = owner[p]
          /\ \A r : Taken(r) => Taken(r)'
      BY <1>2, QuietMoves DEF FreshInv, OwnInv, SharedInv, HandlerOK
    <2>1. ASSUME UNCHANGED <<rows, egress, dq, pending>>,
                 \A w \in Workers : h'[w] = h[w] \/ h'[w].pc = "idle"
          PROVE  NewInv'
      <3>1. ASSUME NEW w \in Workers PROVE HandNew(w)'
        <4>1. CASE h'[w] = h[w]
          BY <2>0, <2>1, <4>1, HandStays DEF Rest, InLine
        <4>2. CASE h'[w].pc = "idle"
          BY <4>2 DEF HandNew, AtMem
        <4>3. QED
          BY <2>1, <4>1, <4>2
      <3>2. QED
        BY <2>0, <2>1, <3>1, NewSame
    <2>2. CASE \E w \in Workers : LoopStep(w) \/ GroupStep(w)
      BY <2>1, <2>2 DEF LoopStep, GroupStep, storeVars, delayVars
    <2>3. ASSUME NEW w \in Workers, Return(w) PROVE NewInv'
      BY <2>0, <2>1, <2>3 DEF Return, Ready, storeVars, delayVars
    <2>4. ASSUME NEW w \in Workers, Handle(w) PROVE NewInv'
      <3>1. Queues(w) \/ Stores(w) \/ ReadsBack(w) \/ Publishes(w) \/ Deletes(w)
        BY <2>4, MemMoves DEF FreshInv
      <3>2. QED
        BY <1>2, <2>4, <3>1, NewHand, NewPublished, NewQueued
    <2>5. CASE UNCHANGED vars
      BY <2>1, <2>5 DEF vars, storeVars, delayVars
    <2>6. QED
      BY <1>2, <2>0, <2>2, <2>3, <2>4, <2>5, NewHand, NewFlushed, MemCases
  <1>3. QED
    BY <1>1, <1>2 DEF FreshInv

\* ... and it holds in the beginning.
LEMMA FreshInit == Init => FreshInv
  <1> SUFFICES ASSUME Init PROVE FreshInv
    OBVIOUS
  <1>1. OwnInv /\ WorksOnCurrent /\ MemShape /\ LP!OnceInv
    BY OwnInit, WorksInit, ShapeInit, LoopStarts, LP!OnceInit, LoopAssumption
  <1>2. /\ egress = <<>> /\ \A k \in Keys : rows[k] = NoRow
        /\ \A t \in Tasks : pending[t] = <<>> /\ Rest(t) = <<>>
        /\ \A w \in Workers : h[w].pc = "idle"
    BY DEF Init, StoreInit, DelayInit, HandlerInit, Ready, Resting, Rest
  <1>3. (\A D : Fresh(<<>>, D)) /\ Topic(<<>>) = {} /\ Data(<<>>) = {}
    <2>1. Len(<<>>) = 0
      BY EmptySeq
    <2>2. (\A D : Fresh(<<>>, D)) /\ Topic(<<>>) = {}
      BY <2>1 DEF Fresh, Topic
    <2>3. QED
      BY <2>2 DEF Data
  <1>4. NewDocs
    BY <1>2, <1>3 DEF NewDocs
  <1>5. TakenData
    BY <1>2, <1>3 DEF TakenData, RowTaken, NoRow, InLine
  <1>6. \A w \in Workers : HandNew(w)
    BY <1>2 DEF HandNew, AtMem
  <1>7. QED
    BY <1>1, <1>4, <1>5, <1>6 DEF FreshInv, NewInv

\* Without Redis, and as long as no commit failed and no instance crashed or
\* lost a partition, every document has an event that is in none before it:
\* whatever calls to the store or the topic fail, whatever arrives while a join
\* settles, and in whatever order the queues are flushed.  After a fault a
\* record may be delivered again, and complete its join once more.
THEOREM DocumentsNew ==
    ASSUME HasRedis = FALSE, Projected = StreamIDs, KeyAffinity
    PROVE  Spec => [](faults = 0 => NothingRepeated)
  <1>1. FreshInv => (faults = 0 => NothingRepeated)
    <2> SUFFICES ASSUME FreshInv, faults = 0, NEW j \in 1 .. Len(egress)
                 PROVE  ~ (egress[j].data \subseteq UNION {egress[i].data : i \in 1 .. j - 1})
      BY DEF NothingRepeated
    <2>1. PICK r \in egress[j].data : \A i \in 1 .. j - 1 : r \notin egress[i].data
      BY DEF FreshInv, NewInv, NewDocs, Fresh
    <2>2. QED
      BY <2>1
  <1>2. FreshInv /\ [Next]_vars => FreshInv'
    BY FreshStep
  <1>3. QED
    BY <1>1, <1>2, FreshInit, PTL DEF Spec
----------------------------------------------------------------------------
(* What settles is whole, and so is what is deleted.                       *)

\* Every stream sends at most one event for a key, every stream counts and is
\* projected; joins settle in the queue of their own config, and no timeout
\* publishes what has arrived.
OneEventEach ==
    /\ HasTTL = FALSE /\ OwnQueues
    /\ Projected = StreamIDs /\ Cardinality(StreamIDs) = N
    /\ \A q, r \in Records \ Malformed :
         KeyOf[q] = KeyOf[r] /\ StreamOf[q] = StreamOf[r] => q = r

\* A document that has every event its key will ever get.
Whole(d) == \A r \in Records \ Malformed : KeyOf[r] = d.key => r \in d.data

\* No timeout is scheduled, no key is tracked, and no timeout task is at work.
NoTimeouts == timeouts = {} /\ partials = {} /\ \A t \in Tasks : tm[t].pc = "idle"

\* A malformed record has no place in a row.
RowsValid == \A k \in Keys : \A s \in StreamIDs : rows[k][s] \notin Malformed

\* What waits is whole, in the queue of its config.
QueuesWhole ==
    /\ \A d \in delayed : Whole(d)
    /\ \A t \in Tasks : \A d \in Topic(pending[t]) \cup Topic(dq[t].todo) :
         Whole(d) /\ d.key[1] = t[2]

\* A flush deletes the row of a join that it published.
FlushSent == \A t \in Tasks : dq[t].pc = "delete" => Item(t) \in Topic(egress)

\* A handler stores valid records only; what it queues or publishes is whole,
\* and it deletes the row of a join that it published.
HandWhole(w) ==
    /\ h[w].pc \notin {"schedule", "correct", "untrack", "drop"}
    /\ h[w].pc \notin {"idle", "err"} => h[w].rec \notin Malformed
    /\ h[w].pc \in {"enqueue", "publish", "delete"} => Whole(Joined(w))
    /\ h[w].pc = "delete" => Joined(w) \in Topic(egress)

WholeParts ==
    /\ NoTimeouts /\ RowsValid /\ QueuesWhole /\ FlushSent
    /\ \A w \in Workers : HandWhole(w)

WholeInv == OwnInv /\ WholeParts

\* A participant leaves its row only when a topic has it.
RowKept ==
    \A k \in Keys : \A s \in StreamIDs :
        (rows[k][s] # NoData /\ rows'[k][s] = NoData) => rows[k][s] \in Delivered

\* A complete row has an event of every stream.
LEMMA CompleteIsFull ==
    ASSUME OneEventEach, NEW row, IsComplete(row)
    PROVE  Arrived(row) = StreamIDs
  <1>1. IsFiniteSet(StreamIDs) /\ Arrived(row) \subseteq StreamIDs
    BY StoreConstants DEF Arrived
  <1>2. /\ Cardinality(Arrived(row)) <= Cardinality(StreamIDs)
        /\ Cardinality(Arrived(row)) = Cardinality(StreamIDs) => Arrived(row) = StreamIDs
        /\ IsFiniteSet(Arrived(row))
    BY <1>1, FS_Subset
  <1>3. Cardinality(StreamIDs) = N /\ Cardinality(Arrived(row)) >= N
    BY DEF OneEventEach, IsComplete
  <1>4. Cardinality(StreamIDs) \in Nat /\ Cardinality(Arrived(row)) \in Nat
    BY <1>1, <1>2, FS_CardinalityType
  <1>5. QED
    BY <1>2, <1>3, <1>4

\* A complete row of valid events makes a whole join.
LEMMA CompleteIsWhole ==
    ASSUME OneEventEach, NEW k \in Keys, NEW row \in RowsOf(k), IsComplete(row),
           \A s \in StreamIDs : row[s] \notin Malformed
    PROVE  Whole(Document("joined", k, Apply(row)))
  <1>1. Arrived(row) = StreamIDs
    BY CompleteIsFull
  <1>2. ASSUME NEW r \in Records \ Malformed, KeyOf[r] = k PROVE r \in Apply(row)
    <2>1. StreamOf[r] \in StreamIDs
      BY HandlerConstants
    <2>2. /\ row[StreamOf[r]] \in Records \ Malformed
          /\ KeyOf[row[StreamOf[r]]] = k /\ StreamOf[row[StreamOf[r]]] = StreamOf[r]
      BY <1>1, <2>1 DEF Arrived, RowsOf, Row
    <2>3. row[StreamOf[r]] = r
      BY <1>2, <2>2 DEF OneEventEach
    <2>4. QED
      BY <1>1, <2>1, <2>3 DEF Apply, OneEventEach
  <1>3. QED
    BY <1>2 DEF Whole, Document

\* The row of a published whole join may be deleted.
LEMMA DeletedWhole ==
    ASSUME RowsOK, RowsValid, NEW d \in Topic(egress), Whole(d), NEW k \in Keys, d.key = k,
           DeleteState(k)
    PROVE  RowsValid' /\ RowKept
  <1>1. /\ \A j \in Keys \ {k} : rows'[j] = rows[j]
        /\ rows'[k] = NoRow /\ NoData \notin Malformed
    BY StoreConstants, HandlerConstants DEF DeleteState, RowsOK
  <1>2. ASSUME NEW s \in StreamIDs, rows[k][s] # NoData PROVE rows[k][s] \in Delivered
    <2>1. /\ rows[k][s] \in Records \ Malformed
          /\ KeyOf[rows[k][s]] = k
      BY <1>2 DEF RowsOK, RowsOf, Row, RowsValid
    <2>2. rows[k][s] \in d.data
      BY <2>1 DEF Whole
    <2>3. QED
      BY <2>2 DEF Delivered
  <1>3. QED
    BY <1>1, <1>2 DEF RowsValid, RowKept, NoRow

\* A valid record that is stored takes the place of none, or of another one.
LEMMA StoredValid ==
    ASSUME RowsOK, RowsValid, NEW r \in Records \ Malformed,
           Upsert(KeyOf[r], StreamOf[r], r)
    PROVE  RowsValid' /\ RowKept
  <1>1. KeyOf[r] \in Keys /\ StreamOf[r] \in StreamIDs /\ r # NoData
    BY HandlerConstants, StoreConstants
  <1>2. \A k \in Keys : \A s \in StreamIDs : rows'[k][s] \in {rows[k][s], r}
    BY <1>1 DEF RowsOK, Upsert, Row
  <1>3. QED
    BY <1>1, <1>2 DEF RowsValid, RowKept

\* Whatever the step, what is on the topic stays there.
LEMMA SentStays ==
    ASSUME OwnInv, [Next]_vars, NEW t \in Tasks, dq[t].pc = "delete" => Item(t) \in Topic(egress),
           dq'[t] = dq[t]
    PROVE  dq'[t].pc = "delete" => Item(t)' \in Topic(egress')
  <1>1. Topic(egress) \subseteq Topic(egress')
    BY TopicsGrow
  <1>2. QED
    BY <1>1 DEF Item

\* What a flush does to its items, in memory or in Redis, ...
LEMMA FlushCases ==
    ASSUME OwnInv, OwnQueues, NEW t \in Tasks, NEW open, DelaySteps(t, open)
    PROVE  /\ delayed' \subseteq delayed
           /\ UNCHANGED <<timeouts, partials>>
           /\ \A s \in Tasks \ {t} : dq'[s] = dq[s] /\ pending'[s] = pending[s]
           /\ \A d \in Topic(pending'[t]) \cup Topic(dq'[t].todo) :
                \/ d \in Topic(pending[t]) \cup Topic(dq[t].todo)
                \/ d \in delayed /\ d.key[1] = t[2]
           /\ dq'[t].pc = "delete" =>
                dq'[t].todo = dq[t].todo /\ dq[t].todo # <<>> /\ Produce(Item(t))
           /\ \/ UNCHANGED rows
              \/ /\ dq[t].pc = "delete" /\ dq[t].todo # <<>>
                 /\ DeleteState(<<t[2], Item(t).key[2]>>)
  <1>0. /\ dq \in [Tasks -> FlushStates] /\ QueuesOK /\ t \in Tasks
        /\ pending \in [Tasks -> Seq(OwnDocuments)] /\ pending[t] \in Seq(OwnDocuments)
        /\ delayed \subseteq OwnDocuments /\ IsFiniteSet(delayed)
        /\ dq[t].todo \in Seq(OwnDocuments)
    BY DEF OwnInv, SharedInv, QueuesOK, FlushStates
  <1>1. CASE FlushMemory(t)
    <2>1. PICK n \in 1 .. Len(pending[t]) :
            /\ dq' = [dq EXCEPT ![t] = [pc |-> "publish", todo |-> SubSeq(pending[t], 1, n)]]
            /\ pending' = [pending EXCEPT ![t] = SubSeq(@, n + 1, Len(@))]
      BY <1>1 DEF FlushMemory
    <2>2. /\ dq'[t].pc = "publish" /\ dq'[t].todo = SubSeq(pending[t], 1, n)
          /\ pending'[t] = SubSeq(pending[t], n + 1, Len(pending[t]))
          /\ \A s \in Tasks \ {t} : dq'[s] = dq[s] /\ pending'[s] = pending[s]
      BY <1>0, <2>1
    <2>3. Topic(pending[t]) = Topic(dq'[t].todo) \cup Topic(pending'[t])
      BY <1>0, <2>2, CutInTwo
    <2>4. QED
      BY <1>1, <2>2, <2>3 DEF FlushMemory, storeVars
  <1>2. CASE FlushRedis(t, open)
    <2>1. PICK due \in SUBSET InQueue(t[2]) : \E batch \in Orders(due) :
            dq' = [dq EXCEPT ![t] = [pc |-> "publish", todo |-> batch]]
      BY <1>2 DEF FlushRedis
    <2>2. PICK batch \in Orders(due) :
            dq' = [dq EXCEPT ![t] = [pc |-> "publish", todo |-> batch]]
      BY <2>1
    <2>3. due \in SUBSET delayed
      BY <2>1 DEF InQueue
    <2>4. batch \in Seq(due)
      <3>1. IsFiniteSet(due)
        BY <1>0, <2>3, FS_Subset
      <3>2. QED
        BY <2>2, <3>1, OrdersList
    <2>5. Topic(batch) \subseteq due
      BY <2>4, ElementOfSeq DEF Topic
    <2>6. ASSUME NEW d \in due PROVE d \in delayed /\ d.key[1] = t[2]
      <3>1. d \in OwnDocuments /\ NameOf[d.key[1]] = NameOf[t[2]]
        BY <1>0, <2>1, <2>3 DEF InQueue
      <3>2. d.key[1] \in Configs /\ t[2] \in Configs
        BY <3>1 DEF OwnDocuments, Documents, Keys, Tasks
      <3>3. QED
        BY <2>3, <3>1, <3>2 DEF OwnQueues
    <2>7. /\ dq'[t].pc = "publish" /\ dq'[t].todo = batch
          /\ \A s \in Tasks \ {t} : dq'[s] = dq[s]
      BY <1>0, <2>2
    <2>8. QED
      BY <1>2, <2>5, <2>6, <2>7 DEF FlushRedis, storeVars
  <1>3. CASE DelayPublish(t) \/ DelayDelete(t) \/ DelayZRem(t, open)
    <2>1. /\ dq[t].pc \in {"publish", "delete", "zrem"} /\ dq[t].todo # <<>>
      BY <1>0, <1>3 DEF DelayPublish, DelayDelete, DelayZRem, QueuesOK
    <2>2. /\ delayed' \subseteq delayed /\ UNCHANGED <<timeouts, partials, pending>>
          /\ \/ UNCHANGED rows
             \/ dq[t].pc = "delete" /\ DeleteState(<<t[2], Item(t).key[2]>>)
          /\ \/ dq' = [dq EXCEPT ![t].pc = "delete"] /\ Produce(Item(t))
             \/ dq' = [dq EXCEPT ![t].pc = "zrem"]
             \/ NextItem(t)
      BY <1>3 DEF DelayPublish, DelayDelete, DelayZRem, RedisCalls, Calls, ItemDone
    <2>3. Topic(Tail(dq[t].todo)) \subseteq Topic(dq[t].todo)
      BY <1>0, <2>1, HeadAndTail
    <2>4. /\ \A s \in Tasks \ {t} : dq'[s] = dq[s]
          /\ \/ dq'[t].todo = dq[t].todo
             \/ dq'[t].todo = Tail(dq[t].todo) /\ dq'[t].pc # "delete"
          /\ dq'[t].pc = "delete" => dq'[t].todo = dq[t].todo /\ Produce(Item(t))
      <3>1. CASE dq' = [dq EXCEPT ![t].pc = "delete"] /\ Produce(Item(t))
        BY <1>0, <3>1 DEF FlushStates
      <3>2. CASE dq' = [dq EXCEPT ![t].pc = "zrem"]
        BY <1>0, <3>2 DEF FlushStates
      <3>3. CASE NextItem(t)
        BY <1>0, <3>3 DEF NextItem, FlushStates
      <3>4. QED
        BY <2>2, <3>1, <3>2, <3>3
    <2>5. QED
      BY <2>1, <2>2, <2>3, <2>4
  <1>4. QED
    BY <1>1, <1>2, <1>3 DEF DelaySteps

\* ... and what a handler does, whose record is a valid one.
LEMMA HandlerCases ==
    ASSUME OneEventEach, WholeInv, NEW w \in Workers, Handle(w)
    PROVE  /\ h[w].rec \in Records \ Malformed /\ Key(w) \in Keys
           /\ \A v \in Workers \ {w} : h'[v] = h[v]
           /\ h'[w].rec = h[w].rec
           /\ h'[w].pc \notin {"idle", "schedule", "correct", "untrack", "drop"}
           /\ h'[w].pc \in {"enqueue", "publish"} =>
                h'[w].row = rows[Key(w)] /\ IsComplete(rows[Key(w)])
           /\ h'[w].pc = "delete" =>
                h[w].pc = "publish" /\ h'[w].row = h[w].row /\ Produce(Joined(w))
           /\ UNCHANGED <<dq, timeouts, partials, tm>>
           /\ \/ UNCHANGED <<delayed, pending>>
              \/ /\ h[w].pc = "enqueue"
                 /\ \/ delayed' = delayed \cup {Joined(w)} /\ UNCHANGED pending
                    \/ /\ pending' = [pending EXCEPT ![<<w, Key(w)[1]>>] = Append(@, Joined(w))]
                       /\ UNCHANGED delayed
           /\ \/ UNCHANGED rows
              \/ Upsert(KeyOf[h[w].rec], StreamOf[h[w].rec], h[w].rec)
              \/ h[w].pc = "delete" /\ DeleteState(Key(w))
  <1>0. /\ h \in [Workers -> HandleStates] /\ HandlerOK /\ HandWhole(w)
        /\ HasTTL = FALSE /\ partials = {} /\ HandleSteps(w) /\ UNCHANGED timeoutVars
    BY DEF WholeInv, WholeParts, NoTimeouts, OwnInv, SharedInv, HandlerOK, OneEventEach, Handle
  <1>1. /\ h[w].pc \notin {"idle", "ok", "err", "schedule", "correct", "untrack", "drop"}
        /\ h[w].rec \in Records \ Malformed
    <2>1. h[w].pc \notin {"idle", "ok", "err"}
      BY <1>0 DEF HandleSteps, BloomExists, UpsertParticipantOnly, AddToBloom, ScheduleFirst,
           UpsertParticipant, ReadBack, Contains, PublishCorrection, Untrack, DropLate,
           Enqueue, Publish, DeleteAfterEgress
    <2>2. QED
      BY <1>0, <2>1 DEF HandWhole, HandlerOK
  <1>2. Key(w) \in Keys
    BY <1>1, HandlerConstants DEF Key
  <1>3. \/ BloomExists(w) \/ UpsertParticipantOnly(w) \/ AddToBloom(w) \/ UpsertParticipant(w)
        \/ ReadBack(w) \/ Contains(w) \/ Enqueue(w) \/ Publish(w) \/ DeleteAfterEgress(w)
    BY <1>0, <1>1 DEF HandleSteps, ScheduleFirst, PublishCorrection, Untrack, DropLate
  <1>4. CASE ReadBack(w)
    <2>1. PICK row, pc :
            /\ h' = [h EXCEPT ![w].row = row, ![w].pc = pc]
            /\ \/ row = rows[Key(w)] /\ pc = AfterRead(rows[Key(w)])
               \/ pc = "err"
      BY <1>4 DEF ReadBack
    <2>2. /\ h'[w].rec = h[w].rec /\ h'[w].row = row /\ h'[w].pc = pc
          /\ \A v \in Workers \ {w} : h'[v] = h[v]
      BY <1>0, <2>1 DEF HandleStates
    <2>3. /\ pc \in {"ok", "err", "contains", "enqueue", "publish"}
          /\ pc \in {"enqueue", "publish"} => row = rows[Key(w)] /\ IsComplete(rows[Key(w)])
      BY <2>1 DEF AfterRead
    <2>4. UNCHANGED <<rows, delayed, pending, dq, timeouts, partials, tm>>
      BY <1>0, <1>4 DEF ReadBack, delayVars, timeoutVars
    <2>5. QED
      BY <1>1, <1>2, <2>2, <2>3, <2>4
  <1>5. CASE ~ ReadBack(w)
    <2>1. \E pc \in {"ok", "err", "first", "upsert", "add", "read", "delete"} :
            /\ Goto(w, pc)
            /\ pc = "delete" => h[w].pc = "publish" /\ Produce(Joined(w))
      BY <1>0, <1>3, <1>5
         DEF BloomExists, UpsertParticipantOnly, AddToBloom, UpsertParticipant, Contains,
             Enqueue, Publish, DeleteAfterEgress, Calls
    <2>2. PICK pc \in {"ok", "err", "first", "upsert", "add", "read", "delete"} :
            /\ Goto(w, pc)
            /\ pc = "delete" => h[w].pc = "publish" /\ Produce(Joined(w))
      BY <2>1
    <2>3. /\ h'[w].rec = h[w].rec /\ h'[w].row = h[w].row /\ h'[w].pc = pc
          /\ \A v \in Workers \ {w} : h'[v] = h[v]
      BY <1>0, <2>2 DEF Goto, HandleStates
    <2>4. /\ UNCHANGED <<dq, timeouts, partials, tm>>
          /\ \/ UNCHANGED <<delayed, pending>>
             \/ /\ h[w].pc = "enqueue"
                /\ \/ delayed' = delayed \cup {Joined(w)} /\ UNCHANGED pending
                   \/ /\ pending' = [pending EXCEPT ![<<w, Key(w)[1]>>] = Append(@, Joined(w))]
                      /\ UNCHANGED delayed
      BY <1>0, <1>3, <1>5
         DEF BloomExists, UpsertParticipantOnly, AddToBloom, UpsertParticipant, Contains,
             Enqueue, Publish, DeleteAfterEgress, Schedule, Calls, delayVars, timeoutVars
    <2>5. \/ UNCHANGED rows
          \/ Upsert(KeyOf[h[w].rec], StreamOf[h[w].rec], h[w].rec)
          \/ h[w].pc = "delete" /\ DeleteState(Key(w))
      BY <1>3, <1>5
         DEF BloomExists, UpsertParticipantOnly, AddToBloom, UpsertParticipant, Contains,
             Enqueue, Publish, DeleteAfterEgress, Calls, Key, Stream
    <2>6. QED
      BY <1>1, <1>2, <2>2, <2>3, <2>4, <2>5
  <1>6. QED
    BY <1>4, <1>5

\* A handler that does not move stays as it is while the topic grows.
LEMMA HandWholeStays ==
    ASSUME NEW w \in Workers, HandWhole(w), h'[w] = h[w], Topic(egress) \subseteq Topic(egress')
    PROVE  HandWhole(w)'
  BY DEF HandWhole, Joined, Key, Whole

\* What a handler stores, queues, publishes and deletes.
LEMMA WholeHandled ==
    ASSUME OneEventEach, WholeInv, [Next]_vars, NEW w \in Workers, Handle(w)
    PROVE  WholeParts' /\ RowKept
  <1>0. /\ OwnInv /\ NoTimeouts /\ RowsValid /\ QueuesWhole /\ FlushSent /\ RowsOK /\ LogsOK
        /\ (\A v \in Workers : HandWhole(v)) /\ QueuesOK /\ HandlerOK
        /\ Topic(egress) \subseteq Topic(egress')
    BY TopicsGrow DEF WholeInv, WholeParts, OwnInv, SharedInv
  <1>1. /\ h[w].rec \in Records \ Malformed /\ Key(w) \in Keys
        /\ \A v \in Workers \ {w} : h'[v] = h[v]
        /\ h'[w].rec = h[w].rec
        /\ h'[w].pc \notin {"idle", "schedule", "correct", "untrack", "drop"}
        /\ UNCHANGED <<dq, timeouts, partials, tm>>
    BY HandlerCases
  <1>2. h[w].pc \in {"enqueue", "publish", "delete"} => Joined(w) \in OwnDocuments
    <2>1. h[w].pc # "idle" => Joined(w) \in OwnDocuments
      BY <1>0, <1>1, RowFacts DEF Joined, HandlerOK
    <2>2. QED
      BY <2>1
  <1>3. HandWhole(w)'
    <2>1. CASE h'[w].pc \in {"enqueue", "publish"}
      <3>1. h'[w].row = rows[Key(w)] /\ IsComplete(rows[Key(w)])
        BY <2>1, HandlerCases
      <3>2. /\ rows[Key(w)] \in RowsOf(Key(w))
            /\ \A s \in StreamIDs : rows[Key(w)][s] \notin Malformed
        BY <1>0, <1>1 DEF RowsOK, RowsValid
      <3>3. Whole(Document("joined", Key(w), Apply(rows[Key(w)])))
        BY <1>1, <3>1, <3>2, CompleteIsWhole
      <3>4. Joined(w)' = Document("joined", Key(w), Apply(rows[Key(w)]))
        BY <1>1, <3>1 DEF Joined, Key
      <3>5. \A d : Joined(w)' = d /\ Whole(d) => Whole(Joined(w))'
        BY DEF Whole
      <3>6. QED
        BY <1>1, <2>1, <3>3, <3>4, <3>5 DEF HandWhole
    <2>2. CASE h'[w].pc = "delete"
      <3>1. h[w].pc = "publish" /\ h'[w].row = h[w].row /\ Produce(Joined(w))
        BY <2>2, HandlerCases
      <3>2. Whole(Joined(w)) /\ Joined(w) \in Topic(egress')
        BY <1>0, <1>2, <3>1, TopicGrows DEF HandWhole
      <3>3. Joined(w)' = Joined(w)
        BY <1>1, <3>1 DEF Joined, Key
      <3>4. \A d : Joined(w)' = d /\ Whole(d) => Whole(Joined(w))'
        BY DEF Whole
      <3>5. QED
        BY <1>1, <2>2, <3>2, <3>3, <3>4 DEF HandWhole
    <2>3. CASE h'[w].pc \notin {"enqueue", "publish", "delete"}
      BY <1>1, <2>3 DEF HandWhole
    <2>4. QED
      BY <2>1, <2>2, <2>3
  <1>4. \A v \in Workers : HandWhole(v)'
    BY <1>0, <1>1, <1>3, HandWholeStays
  <1>5. QueuesWhole'
    <2>1. CASE UNCHANGED <<delayed, pending>>
      BY <1>0, <1>1, <2>1 DEF QueuesWhole
    <2>2. CASE /\ h[w].pc = "enqueue"
               /\ \/ delayed' = delayed \cup {Joined(w)} /\ UNCHANGED pending
                  \/ /\ pending' = [pending EXCEPT ![<<w, Key(w)[1]>>] = Append(@, Joined(w))]
                     /\ UNCHANGED delayed
      <3>1. Whole(Joined(w)) /\ Joined(w) \in OwnDocuments /\ Joined(w).key = Key(w)
        BY <1>0, <1>2, <2>2 DEF HandWhole, Joined, Document
      <3>2. CASE delayed' = delayed \cup {Joined(w)} /\ UNCHANGED pending
        BY <1>0, <1>1, <3>1, <3>2 DEF QueuesWhole
      <3>3. CASE /\ pending' = [pending EXCEPT ![<<w, Key(w)[1]>>] = Append(@, Joined(w))]
                 /\ UNCHANGED delayed
        <4>1. PICK t \in Tasks : t = <<w, Key(w)[1]>>
          BY <1>1 DEF Tasks, Keys
        <4>2. /\ pending'[t] = Append(pending[t], Joined(w))
              /\ \A s \in Tasks \ {t} : pending'[s] = pending[s]
              /\ pending[t] \in Seq(OwnDocuments)
          BY <1>0, <3>3, <4>1 DEF QueuesOK
        <4>3. Topic(pending'[t]) = Topic(pending[t]) \cup {Joined(w)}
          BY <3>1, <4>2, Appended
        <4>4. t[2] = Key(w)[1]
          BY <4>1
        <4>5. QED
          BY <1>0, <1>1, <3>1, <3>3, <4>2, <4>3, <4>4 DEF QueuesWhole
      <3>4. QED
        BY <2>2, <3>2, <3>3
    <2>3. QED
      BY <2>1, <2>2, HandlerCases
  <1>6. FlushSent'
    BY <1>0, <1>1 DEF FlushSent, Item
  <1>7. RowsValid' /\ RowKept
    <2>1. CASE UNCHANGED rows
      BY <1>0, <2>1 DEF RowsValid, RowKept
    <2>2. CASE Upsert(KeyOf[h[w].rec], StreamOf[h[w].rec], h[w].rec)
      BY <1>0, <1>1, <2>2, StoredValid
    <2>3. CASE h[w].pc = "delete" /\ DeleteState(Key(w))
      <3>1. Joined(w) \in Topic(egress) /\ Whole(Joined(w)) /\ Joined(w).key = Key(w)
        BY <1>0, <2>3 DEF HandWhole, Joined, Document
      <3>2. QED
        BY <1>0, <1>1, <2>3, <3>1, DeletedWhole
    <2>4. QED
      BY <2>1, <2>2, <2>3, HandlerCases
  <1>8. QED
    BY <1>0, <1>1, <1>4, <1>5, <1>6, <1>7 DEF WholeParts, NoTimeouts

\* What a flush publishes and deletes.
LEMMA WholeFlushed ==
    ASSUME OneEventEach, WholeInv, [Next]_vars, NEW t \in Tasks, Delay(t)
    PROVE  WholeParts' /\ RowKept
  <1>0. /\ OwnInv /\ NoTimeouts /\ RowsValid /\ QueuesWhole /\ FlushSent /\ RowsOK /\ LogsOK
        /\ (\A v \in Workers : HandWhole(v)) /\ QueuesOK
        /\ Topic(egress) \subseteq Topic(egress') /\ OwnQueues
    BY TopicsGrow DEF WholeInv, WholeParts, OwnInv, SharedInv, OneEventEach
  <1>1. DelaySteps(t, RedisOpen(t[1])) /\ UNCHANGED <<h, tm>>
    BY DEF Delay, timeoutVars
  <1>2. /\ delayed' \subseteq delayed /\ UNCHANGED <<timeouts, partials>>
        /\ \A s \in Tasks \ {t} : dq'[s] = dq[s] /\ pending'[s] = pending[s]
        /\ \A d \in Topic(pending'[t]) \cup Topic(dq'[t].todo) :
             \/ d \in Topic(pending[t]) \cup Topic(dq[t].todo)
             \/ d \in delayed /\ d.key[1] = t[2]
    BY <1>0, <1>1, FlushCases
  <1>3. QueuesWhole'
    BY <1>0, <1>2 DEF QueuesWhole
  <1>4. dq[t].todo # <<>> => /\ Item(t) \in Topic(dq[t].todo) /\ Item(t) \in OwnDocuments
    BY <1>0, HeadAndTail DEF QueuesOK, Item
  <1>5. FlushSent'
    <2>1. ASSUME dq'[t].pc = "delete" PROVE Item(t)' \in Topic(egress')
      <3>1. dq'[t].todo = dq[t].todo /\ dq[t].todo # <<>> /\ Produce(Item(t))
        BY <1>0, <1>1, <2>1, FlushCases
      <3>2. Item(t) \in Topic(egress') /\ Item(t)' = Item(t)
        BY <1>0, <1>4, <3>1, TopicGrows DEF Item
      <3>3. QED
        BY <3>2
    <2>2. ASSUME NEW s \in Tasks \ {t} PROVE dq'[s].pc = "delete" => Item(s)' \in Topic(egress')
      BY <1>0, <1>2, SentStays DEF FlushSent
    <2>3. QED
      BY <2>1, <2>2 DEF FlushSent
  <1>6. RowsValid' /\ RowKept
    <2>1. CASE UNCHANGED rows
      BY <1>0, <2>1 DEF RowsValid, RowKept
    <2>2. CASE /\ dq[t].pc = "delete" /\ dq[t].todo # <<>>
               /\ DeleteState(<<t[2], Item(t).key[2]>>)
      <3>1. /\ Item(t) \in Topic(egress) /\ Whole(Item(t)) /\ Item(t).key[1] = t[2]
            /\ Item(t).key \in Keys
        BY <1>0, <1>4, <2>2 DEF FlushSent, QueuesWhole, OwnDocuments, Documents
      <3>2. <<t[2], Item(t).key[2]>> = Item(t).key
        BY <3>1 DEF Keys
      <3>3. DeleteState(Item(t).key)
        BY <2>2, <3>2
      <3>4. QED
        BY <1>0, <3>1, <3>3, DeletedWhole
    <2>3. QED
      BY <1>0, <1>1, <2>1, <2>2, FlushCases
  <1>7. \A v \in Workers : HandWhole(v)'
    BY <1>0, <1>1, HandWholeStays
  <1>8. QED
    BY <1>0, <1>1, <1>2, <1>3, <1>5, <1>6, <1>7 DEF WholeParts, NoTimeouts

\* No step deletes an event that no topic has.
LEMMA WholeStep ==
    ASSUME OneEventEach
    PROVE  WholeInv /\ [Next]_vars => WholeInv' /\ RowKept
  <1> SUFFICES ASSUME WholeInv, [Next]_vars PROVE WholeInv' /\ RowKept
    OBVIOUS
  <1> DEFINE Goal == WholeParts' /\ RowKept
  <1>0. /\ OwnInv /\ NoTimeouts /\ RowsValid /\ QueuesWhole /\ FlushSent
        /\ (\A v \in Workers : HandWhole(v)) /\ HandlerOK /\ QueuesOK /\ LP!FetchedInv
    BY DEF WholeInv, WholeParts, OwnInv, SharedInv
  <1>1. OwnInv'
    BY <1>0, OwnStep
  <1>2. ASSUME UNCHANGED <<storeVars, delayVars, tm>>, NEW w \in Workers,
               HandWhole(w)', \A v \in Workers \ {w} : h'[v] = h[v]
        PROVE  Goal
    <2>1. UNCHANGED <<rows, timeouts, partials, delayed, egress, pending, dq, tm>>
      BY <1>2 DEF storeVars, delayVars
    <2>2. \A v \in Workers : HandWhole(v)'
      BY <1>0, <1>2, <2>1, HandWholeStays
    <2>3. QED
      BY <1>0, <2>1, <2>2
         DEF WholeParts, NoTimeouts, RowsValid, QueuesWhole, FlushSent, Item, RowKept
  <1>3. ASSUME NEW w \in Workers, LoopStep(w) \/ GroupStep(w) PROVE Goal
    <2>1. UNCHANGED <<storeVars, delayVars, h, tm>> /\ Topic(egress') = Topic(egress)
      BY <1>3 DEF LoopStep, GroupStep, timeoutVars, storeVars
    <2>2. HandWhole(w)'
      BY <1>0, <2>1, HandWholeStays
    <2>3. QED
      BY <1>2, <2>1, <2>2
  <1>4. ASSUME NEW w \in Workers, Call(w) PROVE Goal
    <2>1. /\ h' = [h EXCEPT ![w] = [Ready EXCEPT !.rec = Loop!Current(w),
                     !.pc = IF Loop!Current(w) \in Malformed THEN "err"
                            ELSE IF HasRedis THEN "bloom" ELSE "upsert"]]
          /\ UNCHANGED <<storeVars, delayVars, tm>>
      BY <1>4 DEF Call, StartHandle, timeoutVars
    <2>2. /\ h'[w].rec = Loop!Current(w)
          /\ h'[w].pc = IF Loop!Current(w) \in Malformed THEN "err"
                        ELSE IF HasRedis THEN "bloom" ELSE "upsert"
          /\ \A v \in Workers \ {w} : h'[v] = h[v]
      BY <1>0, <2>1 DEF Ready, HandlerOK
    <2>3. HandWhole(w)'
      BY <2>2 DEF HandWhole
    <2>4. QED
      BY <1>2, <2>1, <2>2, <2>3
  <1>5. ASSUME NEW w \in Workers, Return(w) PROVE Goal
    <2>1. h' = [h EXCEPT ![w] = Ready] /\ UNCHANGED <<storeVars, delayVars, tm>>
      BY <1>5 DEF Return, timeoutVars
    <2>2. h'[w].pc = "idle" /\ \A v \in Workers \ {w} : h'[v] = h[v]
      BY <1>0, <2>1 DEF Ready, HandlerOK
    <2>3. HandWhole(w)'
      BY <2>2 DEF HandWhole
    <2>4. QED
      BY <1>2, <2>1, <2>2, <2>3
  <1>6. ASSUME NEW w \in Workers, CrashStep(w) \/ KillStep(w) PROVE Goal
    <2>1. ProcessEnds(w)
      BY <1>6 DEF CrashStep, KillStep
    <2>2. /\ h' = [h EXCEPT ![w] = Ready]
          /\ tm' = [t \in Tasks |-> IF t[1] = w THEN Waiting ELSE tm[t]]
          /\ pending' = [t \in Tasks |-> IF t[1] = w THEN <<>> ELSE pending[t]]
          /\ dq' = [t \in Tasks |-> IF t[1] = w THEN Resting ELSE dq[t]]
          /\ UNCHANGED <<rows, timeouts, partials, delayed, egress>>
      BY <2>1 DEF ProcessEnds, TimeoutKilled, DelayKilled, storeVars, Tasks
    <2>3. h'[w].pc = "idle" /\ \A v \in Workers \ {w} : h'[v] = h[v]
      BY <1>0, <2>2 DEF Ready, HandlerOK
    <2>4. \A v \in Workers : HandWhole(v)'
      <3>1. HandWhole(w)'
        BY <2>3 DEF HandWhole
      <3>2. QED
        BY <1>0, <2>2, <2>3, <3>1, HandWholeStays
    <2>5. NoTimeouts'
      BY <1>0, <2>2 DEF NoTimeouts, Waiting
    <2>6. \A t \in Tasks :
            /\ pending'[t] = pending[t] \/ pending'[t] = <<>>
            /\ dq'[t] = dq[t] \/ (dq'[t].pc = "idle" /\ dq'[t].todo = <<>>)
      BY <2>2 DEF Resting
    <2>7. Topic(<<>>) = {}
      <3>1. Len(<<>>) = 0
        BY EmptySeq
      <3>2. QED
        BY <3>1 DEF Topic
    <2>8. QueuesWhole'
      <3>1. ASSUME NEW t \in Tasks, NEW d \in Topic(pending'[t]) \cup Topic(dq'[t].todo)
            PROVE  d \in Topic(pending[t]) \cup Topic(dq[t].todo)
        BY <2>6, <2>7
      <3>2. QED
        BY <1>0, <2>2, <3>1 DEF QueuesWhole
    <2>9. FlushSent'
      BY <1>0, <2>2, <2>6, SentStays DEF FlushSent
    <2>10. QED
      BY <1>0, <2>2, <2>4, <2>5, <2>8, <2>9 DEF WholeParts, RowsValid, RowKept
  <1>7. ASSUME NEW t \in Tasks, Timeouts(t) PROVE Goal
    <2>1. tm[t].pc = "idle" /\ timeouts \cap KeysOf(t[2]) = {}
      BY <1>0 DEF NoTimeouts
    <2>2. QED
      BY <1>7, <2>1 DEF Timeouts, TimeoutSteps, PollDue, CheckDue, PublishPartial,
           TrackPartial, DeleteExpired, RemoveDue
  <1>8. ASSUME UNCHANGED vars PROVE Goal
    <2>1. /\ UNCHANGED <<rows, timeouts, partials, delayed, egress, pending, dq, tm, h>>
          /\ Topic(egress') = Topic(egress)
      BY <1>8 DEF vars, storeVars, delayVars, timeoutVars
    <2>2. \A v \in Workers : HandWhole(v)'
      BY <1>0, <2>1, HandWholeStays
    <2>3. NoTimeouts' /\ RowsValid' /\ RowKept
      BY <1>0, <2>1 DEF NoTimeouts, RowsValid, RowKept
    <2>4. QueuesWhole' /\ FlushSent'
      BY <1>0, <2>1 DEF QueuesWhole, FlushSent, Item
    <2>5. QED
      BY <2>2, <2>3, <2>4 DEF WholeParts
  <1>9. ASSUME Next PROVE Goal
    <2>1. \A w \in Workers, c \in Configs : <<w, c>> \in Tasks
      BY DEF Tasks
    <2>2. ASSUME NEW w \in Workers, Handle(w) PROVE Goal
      BY <2>2, WholeHandled
    <2>3. ASSUME NEW t \in Tasks, Delay(t) PROVE Goal
      BY <2>3, WholeFlushed
    <2> HIDE DEF Goal
    <2>4. QED
      BY <1>3, <1>4, <1>5, <1>6, <1>7, <1>9, <2>1, <2>2, <2>3 DEF Next
  <1>10. QED
    BY <1>1, <1>8, <1>9 DEF WholeInv

\* It holds in the beginning.
LEMMA WholeInit == Init => WholeInv
  <1> SUFFICES ASSUME Init PROVE WholeInv
    OBVIOUS
  <1>1. /\ rows = [k \in Keys |-> NoRow] /\ timeouts = {} /\ partials = {} /\ delayed = {}
        /\ \A t \in Tasks : pending[t] = <<>> /\ dq[t].pc = "idle" /\ dq[t].todo = <<>>
        /\ \A t \in Tasks : tm[t].pc = "idle"
        /\ \A w \in Workers : h[w].pc = "idle"
    BY DEF Init, StoreInit, DelayInit, HandlerInit, TimeoutInit, Ready, Resting, Waiting, Tasks
  <1>2. Topic(<<>>) = {}
    <2>1. Len(<<>>) = 0
      BY EmptySeq
    <2>2. QED
      BY <2>1 DEF Topic
  <1>3. NoData \notin Malformed
    BY StoreConstants, HandlerConstants
  <1>4. NoTimeouts /\ RowsValid /\ QueuesWhole /\ FlushSent
    BY <1>1, <1>2, <1>3 DEF NoTimeouts, RowsValid, QueuesWhole, FlushSent, NoRow
  <1>5. \A w \in Workers : HandWhole(w)
    BY <1>1 DEF HandWhole
  <1>6. QED
    BY <1>4, <1>5, OwnInit DEF WholeInv, WholeParts

\* With a settle delay or without one, in memory or in Redis: if every stream
\* sends at most one event for a key, an event leaves the row of its key only
\* when a topic has it, whatever faults, failed calls and hand-overs there are
\* and however often a join is queued and flushed.  With a second event of a
\* stream the flush may delete one that came after the join was queued.
THEOREM DeletesAfterSettling ==
    ASSUME OneEventEach
    PROVE  Spec => DeletedOnlyAfterEgress
  <1>1. WholeInv /\ [Next]_vars => WholeInv' /\ [RowKept]_vars
    BY WholeStep
  <1>2. QED
    BY <1>1, WholeInit, PTL DEF Spec, DeletedOnlyAfterEgress, RowKept
----------------------------------------------------------------------------
(* A join that settles in Redis is never stranded.                         *)

\* One partition, no evictions, a settle delay with Redis, no call that fails,
\* joins of several streams, each of which sends at most one event for a key.
DurableDelay ==
    /\ OneEventEach /\ Durable /\ HasDelay = TRUE /\ N > 1 /\ MayEvict = FALSE
    /\ \A p, q \in Partitions : p = q

Valid == Records \ Malformed

\* The offset of the record is committed, those of all valid ones before it are,
\* and that of one of the key is.
CommittedAt(r) == r[2] < committed[r[1]]

Before(r) == \A q \in Valid : q[2] < r[2] => CommittedAt(q)

Begun(k) == \E r \in Valid : KeyOf[r] = k /\ CommittedAt(r)

\* A join of the key is in the set.
InSet(k) == \E d \in delayed : d.key = k

\* Events are stored in the order of the log.
RowsInOrder ==
    \A k \in Keys : \A s \in StreamIDs : rows[k][s] # NoData => Before(rows[k][s])

\* A join is queued with its last event: the first one is committed.
QueuesBegun ==
    /\ \A d \in delayed : Begun(d.key)
    /\ \A t \in Tasks : \A d \in Topic(dq[t].todo) : Begun(d.key)

\* The Bloom filter knows the key of every event that was handled.
HandledKnown == \A r \in handled \cap Valid : Exists(KeyOf[r])

\* A join leaves the set when its row has lost an event that will not come again.
Emptied(t) ==
    dq[t].pc = "zrem" =>
        \E r \in Valid : /\ KeyOf[r] = Item(t).key /\ CommittedAt(r)
                         /\ rows[KeyOf[r]][StreamOf[r]] = NoData

\* A handler takes the first-arrival path for a new key only; it returns from
\* a complete row with a join in the set.
HandSettles(w) ==
    /\ h[w].pc \notin {"publish", "delete"}
    /\ h[w].pc = "err" => h[w].rec \in Malformed
    /\ h[w].pc \in {"first", "add"} => ~ Exists(Key(w))
    /\ h[w].pc \in {"upsert", "read", "contains", "enqueue", "ok"} => Exists(Key(w))
    /\ h[w].pc = "contains" => ~ IsComplete(rows[Key(w)])
    /\ h[w].pc = "enqueue" => Begun(Key(w))
    /\ h[w].pc = "ok" /\ IsComplete(rows[Key(w)]) => InSet(Key(w))

\* A complete row has a join in the set, or an event that Run has not put behind it.
Settling == \A k \in Keys : IsComplete(rows[k]) => InSet(k) \/ Pending(k)

SettleParts ==
    /\ errored \subseteq Malformed
    /\ RowsInOrder /\ QueuesBegun /\ HandledKnown /\ Settling
    /\ \A t \in Tasks : Emptied(t)
    /\ \A w \in Workers : HandSettles(w)

SettleInv ==
    WholeInv /\ DurableInv /\ LP!ExclusiveInv /\ LP!CoveredInv /\ WorksOnCurrent /\ SettleParts

\* What the invariant has of the loop.
LEMMA SettleHas ==
    ASSUME DurableDelay, SettleInv
    PROVE  /\ OneEventEach /\ Durable /\ LP!SinglePartition /\ HandInv /\ LP!SingleInv
           /\ RowsOK /\ RowsValid /\ QueuesOK /\ HandlerOK
           /\ h \in [Workers -> HandleStates] /\ rows \in [Keys -> Row]
  <1>1. LP!SinglePartition
    BY DEF DurableDelay, LP!SinglePartition
  <1>2. HandInv /\ LP!SingleInv
    BY DEF SettleInv, HandInv, WholeInv, LP!CoveredInv
  <1>3. QED
    BY <1>1, <1>2
       DEF DurableDelay, SettleInv, WholeInv, WholeParts, OwnInv, SharedInv, RowsOK, HandlerOK

\* Commits and the Bloom filter only grow, ...
LEMMA CommitsStay ==
    ASSUME OwnInv, [Next]_vars
    PROVE  /\ \A r \in Records : CommittedAt(r) => CommittedAt(r)'
           /\ \A r \in Records : Before(r) => Before(r)'
           /\ \A k : Begun(k) => Begun(k)'
  <1>1. \A p \in Partitions : committed'[p] >= committed[p]
    BY LP!MonotoneStep, LoopMovesOn, LoopAssumption DEF OwnInv, LP!FetchedInv
  <1>2. committed \in [Partitions -> Nat] /\ committed' \in [Partitions -> Nat]
    BY OwnStep DEF OwnInv, LP!FetchedInv, LP!MonotoneInv, LP!TypeInv, LP!LoopTypeOK
  <1>3. ASSUME NEW r \in Records, CommittedAt(r) PROVE CommittedAt(r)'
    <2>1. r[1] \in Partitions /\ r[2] \in Nat
      BY RecordPlaces
    <2>2. committed[r[1]] \in Nat /\ committed'[r[1]] \in Nat /\ committed'[r[1]] >= committed[r[1]]
      BY <1>1, <1>2, <2>1
    <2>3. QED
      BY <1>3, <2>1, <2>2 DEF CommittedAt
  <1>4. QED
    BY <1>3 DEF Before, Begun, Valid

LEMMA BloomGrows ==
    ASSUME [Next]_vars
    PROVE  /\ bloom \subseteq bloom'
           /\ bloom' = bloom \/ \E w \in Workers : Handle(w)
  <1>1. ASSUME NEW w \in Workers, Handle(w) PROVE bloom \subseteq bloom'
    BY <1>1
       DEF Handle, HandleSteps, BloomExists, UpsertParticipantOnly, AddToBloom,
           ScheduleFirst, UpsertParticipant, ReadBack, Contains, PublishCorrection, Untrack,
           DropLate, Enqueue, Publish, DeleteAfterEgress, BloomAdd, Calls
  <1>2. ASSUME NEW w \in Workers,
               \/ LoopStep(w) \/ GroupStep(w) \/ Call(w) \/ Return(w)
               \/ CrashStep(w) \/ KillStep(w)
        PROVE  bloom' = bloom
    BY <1>2
       DEF LoopStep, GroupStep, Call, StartHandle, Return, CrashStep, KillStep, ProcessEnds,
           storeVars
  <1>3. ASSUME NEW t, Timeouts(t) \/ Delay(t) PROVE bloom' = bloom
    BY <1>3
       DEF Timeouts, TimeoutSteps, PollDue, CheckDue, PublishPartial, TrackPartial,
           DeleteExpired, RemoveDue, Delay, DelaySteps, FlushMemory, FlushRedis,
           DelayPublish, DelayDelete, DelayZRem, storeVars
  <1>4. CASE UNCHANGED vars
    BY <1>4 DEF vars, storeVars
  <1>5. QED
    BY <1>1, <1>2, <1>3, <1>4 DEF Next

\* ... and only a Handle that returns is counted.
LEMMA AnswersOnly ==
    ASSUME HandInv, [Next]_vars
    PROVE  \/ UNCHANGED <<handled, errored>>
           \/ \E w \in Workers :
                /\ Return(w)
                /\ \/ h[w].pc = "ok" /\ handled' = handled \cup {h[w].rec} /\ UNCHANGED errored
                   \/ h[w].pc = "err" /\ errored' = errored \cup {h[w].rec} /\ UNCHANGED handled
  <1>1. ASSUME NEW w \in Workers, LoopStep(w) PROVE UNCHANGED <<handled, errored>>
    BY <1>1
       DEF LoopStep, Loop!LoopSteps, Loop!Poll, Loop!FetchFails, Loop!EachPartition,
           Loop!Dispatch, Loop!CommitOk, Loop!CommitFails, Loop!EndFetch
  <1>2. ASSUME NEW w \in Workers, GroupStep(w) \/ CrashStep(w) \/ KillStep(w)
        PROVE  UNCHANGED <<handled, errored>>
    BY <1>2
       DEF GroupStep, CrashStep, KillStep, Loop!GroupSteps, Loop!Restart, Loop!Assign,
           Loop!Revoke, Loop!Evict, Loop!Crash, Loop!Kill
  <1>3. ASSUME NEW w \in Workers, Call(w) \/ Handle(w) PROVE UNCHANGED <<handled, errored>>
    BY <1>3 DEF Call, Handle, loopVars
  <1>4. ASSUME NEW t, Timeouts(t) \/ Delay(t) PROVE UNCHANGED <<handled, errored>>
    BY <1>4 DEF Timeouts, Delay, loopVars
  <1>5. ASSUME NEW w \in Workers, Return(w)
        PROVE  \/ h[w].pc = "ok" /\ handled' = handled \cup {h[w].rec} /\ UNCHANGED errored
               \/ h[w].pc = "err" /\ errored' = errored \cup {h[w].rec} /\ UNCHANGED handled
    <2>1. h[w].pc \in {"ok", "err"}
      BY <1>5 DEF Return, HandleReturned
    <2>2. h[w].rec = Loop!Current(w)
      BY <2>1 DEF HandInv, WorksOnCurrent
    <2>3. QED
      BY <1>5, <2>1, <2>2 DEF Return, Loop!HandleReturns
  <1>6. CASE UNCHANGED vars
    BY <1>6 DEF vars, loopVars
  <1>7. QED
    BY <1>1, <1>2, <1>3, <1>4, <1>5, <1>6 DEF Next

\* The record of a busy handler is not committed, but all valid ones before it
\* are.
LEMMA InOrder ==
    ASSUME DurableDelay, SettleInv, NEW w \in Workers, h[w].pc # "idle"
    PROVE  /\ h[w].rec \in Records /\ Key(w) \in Keys
           /\ ~ LP!Passed(h[w].rec[1], h[w].rec[2]) /\ ~ CommittedAt(h[w].rec)
           /\ Before(h[w].rec)
           /\ \A v \in Workers \ {w} : h[v].pc = "idle"
  <1>0. /\ LP!SinglePartition /\ HandInv /\ LP!SingleInv
        /\ \A v \in Workers, p \in Partitions :
             LP!GoesOn(v, p) => LP!Covered(p, cursor[v][p])
        /\ errored \subseteq Malformed
    BY SettleHas DEF SettleInv, SettleParts, LP!CoveredInv
  <1>1. /\ loop[w].pc = "handle" /\ loop[w].part \in Partitions
        /\ h[w].rec = <<loop[w].part, cursor[w][loop[w].part]>>
        /\ h[w].rec \in Records /\ Key(w) \in Keys
    BY <1>0, InnerFacts
  <1>2. h[w].rec[2] \in Nat
    BY <1>1, RecordPlaces
  <1>3. /\ ~ LP!Passed(h[w].rec[1], h[w].rec[2])
        /\ \A v \in Workers \ {w} : h[v].pc = "idle"
    BY <1>0, <1>1, <1>2, NotBehind
  <1>4. ~ CommittedAt(h[w].rec)
    BY <1>3 DEF LP!Passed, CommittedAt
  <1>5. ASSUME NEW q \in Valid, q[2] < h[w].rec[2] PROVE CommittedAt(q)
    <2>1. q \in Records /\ q \notin Malformed /\ q[1] = loop[w].part /\ q[2] \in Nat
          /\ q = <<q[1], q[2]>>
      BY <1>1, RecordPlaces, <1>0 DEF Valid, LP!SinglePartition
    <2>2. LP!Covered(loop[w].part, cursor[w][loop[w].part])
      BY <1>0, <1>1 DEF LP!GoesOn, LP!Busy
    <2>3. h[w].rec[2] = cursor[w][loop[w].part]
      BY <1>1
    <2>4. q[2] \in 0 .. cursor[w][loop[w].part] - 1
      BY <1>2, <1>5, <2>1, <2>3
    <2>5. q[2] < committed[loop[w].part] \/ <<loop[w].part, q[2]>> \in errored
      BY <2>2, <2>4 DEF LP!Covered
    <2>6. QED
      BY <1>0, <2>1, <2>5 DEF CommittedAt
  <1>6. QED
    BY <1>1, <1>3, <1>4, <1>5 DEF Before

\* The Bloom filter knows every key that has begun, ...
LEMMA BegunKnown ==
    ASSUME DurableDelay, SettleInv, NEW k \in Keys, Begun(k)
    PROVE  Exists(k)
  <1>0. LP!SingleInv /\ errored \subseteq Malformed /\ HandledKnown
    BY SettleHas DEF SettleInv, SettleParts
  <1>1. PICK r \in Valid : KeyOf[r] = k /\ CommittedAt(r)
    BY DEF Begun
  <1>2. /\ r \in Records /\ r \notin Malformed
        /\ r[1] \in Partitions /\ r[2] \in Nat /\ r = <<r[1], r[2]>>
    BY RecordPlaces DEF Valid
  <1>3. committed[r[1]] \in Nat
    BY <1>2 DEF SettleInv, WholeInv, OwnInv, LP!FetchedInv, LP!MonotoneInv, LP!TypeInv,
         LP!LoopTypeOK
  <1>4. r[2] \in 0 .. committed[r[1]] - 1
    BY <1>1, <1>2, <1>3 DEF CommittedAt
  <1>5. <<r[1], r[2]>> \in handled \cup errored
    BY <1>0, <1>2, <1>4 DEF LP!SingleInv, LP!NothingLeft, LP!AllDone
  <1>6. r \in handled \cap Valid
    BY <1>0, <1>2, <1>5 DEF Valid
  <1>7. QED
    BY <1>0, <1>1, <1>6 DEF HandledKnown

\* ... as every key of a complete row has.
LEMMA BegunWhenComplete ==
    ASSUME DurableDelay, SettleInv, NEW k \in Keys, IsComplete(rows[k])
    PROVE  Begun(k)
  <1>0. /\ OneEventEach /\ LP!SinglePartition /\ RowsOK /\ RowsValid /\ RowsInOrder
        /\ N > 1
    BY SettleHas DEF SettleInv, SettleParts, DurableDelay
  <1>1. Arrived(rows[k]) = StreamIDs
    BY <1>0, CompleteIsFull
  <1>2. \E s, u \in StreamIDs : s # u
    <2> SUFFICES ASSUME \A s, u \in StreamIDs : s = u PROVE FALSE
      OBVIOUS
    <2>1. Arrived(rows[k]) # {}
      BY DEF IsComplete
    <2>2. PICK s \in StreamIDs : StreamIDs = {s}
      BY <1>1, <2>1
    <2>3. Cardinality(StreamIDs) = 1
      BY <2>2, FS_Singleton
    <2>4. QED
      BY <1>0, <2>3 DEF OneEventEach
  <1>3. PICK s \in StreamIDs, u \in StreamIDs : s # u
    BY <1>2
  <1>4. \A x \in {s, u} : /\ rows[k][x] \in Valid /\ KeyOf[rows[k][x]] = k
                          /\ StreamOf[rows[k][x]] = x /\ Before(rows[k][x])
    BY <1>0, <1>1 DEF Arrived, RowsOK, RowsOf, Row, RowsValid, RowsInOrder, Valid
  <1>5. PICK q \in Valid, r \in Valid :
          /\ KeyOf[q] = k /\ KeyOf[r] = k /\ q # r /\ Before(q) /\ Before(r)
    BY <1>3, <1>4
  <1>6. /\ q[1] \in Partitions /\ q[2] \in Nat /\ q = <<q[1], q[2]>>
        /\ r[1] \in Partitions /\ r[2] \in Nat /\ r = <<r[1], r[2]>>
    BY RecordPlaces DEF Valid
  <1>7. q[2] < r[2] \/ r[2] < q[2]
    <2>1. q[1] = r[1]
      BY <1>0, <1>6 DEF LP!SinglePartition
    <2>2. q[2] # r[2]
      BY <1>5, <1>6, <2>1
    <2>3. QED
      BY <1>6, <2>2
  <1>8. QED
    BY <1>5, <1>7 DEF Before, Begun

\* A complete row that was complete before still has a join in the set or an
\* event to come.
LEMMA StillSettling ==
    ASSUME DurableDelay, SettleInv, [Next]_vars, NEW k \in Keys, IsComplete(rows[k]),
           InSet(k) => InSet(k)'
    PROVE  InSet(k)' \/ Pending(k)'
  <1>0. LP!SinglePartition /\ HandInv /\ LP!SingleInv
    BY SettleHas
  <1>1. InSet(k) \/ Pending(k)
    BY DEF SettleInv, SettleParts, Settling
  <1>2. CASE Pending(k)
    <2>1. PICK r \in Records \ Malformed : KeyOf[r] = k /\ ~ LP!Passed(r[1], r[2])
      BY <1>2 DEF Pending
    <2>2. CASE ~ LP!Passed(r[1], r[2])'
      BY <2>1, <2>2 DEF Pending
    <2>3. CASE LP!Passed(r[1], r[2])'
      <3>1. PICK w \in Workers : h[w].rec = r /\ h[w].pc \in {"ok", "err"}
        BY <1>0, <2>1, <2>3, NewlyBehind
      <3>2. HandSettles(w) /\ Key(w) = k
        BY <2>1, <3>1 DEF SettleInv, SettleParts, Key
      <3>3. InSet(k)
        BY <2>1, <3>1, <3>2 DEF HandSettles
      <3>4. QED
        BY <3>3
    <2>4. QED
      BY <2>2, <2>3
  <1>3. QED
    BY <1>1, <1>2

\* A handler that does not move owes no more than before.
LEMMA HandSettlesStays ==
    ASSUME NEW w \in Workers, HandSettles(w), h'[w] = h[w], bloom' = bloom,
           h[w].pc # "idle" => Key(w) \in Keys,
           \A k \in Keys : /\ Begun(k) => Begun(k)'
                           /\ IsComplete(rows'[k]) =>
                                IsComplete(rows[k]) /\ (InSet(k) => InSet(k)')
    PROVE  HandSettles(w)'
  <1>1. CASE h[w].pc = "idle"
    BY <1>1 DEF HandSettles
  <1>2. CASE h[w].pc # "idle"
    <2>1. PICK k \in Keys : k = Key(w)
      BY <1>2
    <2>2. Key(w)' = k
      BY <2>1 DEF Key
    <2>3. Exists(k)' <=> Exists(k)
      BY DEF Exists
    <2>4. /\ h[w].pc \notin {"publish", "delete"}
          /\ h[w].pc = "err" => h[w].rec \in Malformed
          /\ h[w].pc \in {"first", "add"} => ~ Exists(k)
          /\ h[w].pc \in {"upsert", "read", "contains", "enqueue", "ok"} => Exists(k)
          /\ h[w].pc = "contains" => ~ IsComplete(rows'[k])
          /\ h[w].pc = "enqueue" => Begun(k)'
          /\ h[w].pc = "ok" /\ IsComplete(rows'[k]) => InSet(k)'
      BY <2>1 DEF HandSettles
    <2>5. \A j : Key(w)' = j => /\ Exists(j)' <=> Exists(Key(w))'
                                /\ Begun(j)' <=> Begun(Key(w))'
                                /\ InSet(j)' <=> InSet(Key(w))'
      BY DEF Exists, Begun, InSet
    <2>6. QED
      BY <2>2, <2>3, <2>4, <2>5 DEF HandSettles
  <1>3. QED
    BY <1>1, <1>2

\* What a handler does when no call fails, joins settle and none expires.
LEMMA SettleMoves ==
    ASSUME DurableDelay, SettleInv, NEW w \in Workers, Handle(w)
    PROVE  \/ /\ h[w].pc = "bloom" /\ UNCHANGED <<rows, bloom, delayed>>
              /\ h'[w].pc = IF Exists(Key(w)) THEN "upsert" ELSE "first"
           \/ /\ h[w].pc = "first" /\ h'[w].pc = "add" /\ UNCHANGED <<bloom, delayed>>
              /\ Upsert(KeyOf[h[w].rec], StreamOf[h[w].rec], h[w].rec)
           \/ /\ h[w].pc = "add" /\ h'[w].pc = "ok" /\ UNCHANGED <<rows, delayed>>
              /\ BloomAdd(Key(w))
           \/ /\ h[w].pc = "upsert" /\ h'[w].pc = "read" /\ UNCHANGED <<bloom, delayed>>
              /\ Upsert(KeyOf[h[w].rec], StreamOf[h[w].rec], h[w].rec)
           \/ /\ h[w].pc = "read" /\ UNCHANGED <<rows, bloom, delayed>>
              /\ IF IsComplete(rows[Key(w)]) THEN h'[w].pc = "enqueue"
                                             ELSE h'[w].pc \in {"contains", "ok"}
           \/ /\ h[w].pc = "contains" /\ h'[w].pc = "ok" /\ UNCHANGED <<rows, bloom, delayed>>
           \/ /\ h[w].pc = "enqueue" /\ h'[w].pc = "ok" /\ UNCHANGED <<rows, bloom>>
              /\ delayed' = delayed \cup {Joined(w)}
  <1>0. /\ h \in [Workers -> HandleStates] /\ HandleSteps(w) /\ ~ CallFault
        /\ HasRedis = TRUE /\ HasTTL = FALSE /\ HasDelay = TRUE /\ partials = {}
        /\ HandWhole(w) /\ HandSettles(w)
    BY SettleHas, NoFaults
       DEF DurableDelay, OneEventEach, Durable, SettleInv, SettleParts, DurableInv, WholeInv,
           WholeParts, NoTimeouts, Handle
  <1>1. h[w].pc \notin {"schedule", "correct", "untrack", "drop", "publish", "delete"}
    BY <1>0 DEF HandWhole, HandSettles
  <1>2. ASSUME NEW pc, Goto(w, pc) PROVE h'[w].pc = pc
    BY <1>0, <1>2 DEF Goto, HandleStates
  <1>3. CASE BloomExists(w)
    BY <1>0, <1>2, <1>3 DEF BloomExists, Reads
  <1>4. CASE UpsertParticipantOnly(w) \/ UpsertParticipant(w)
    BY <1>0, <1>2, <1>4 DEF UpsertParticipantOnly, UpsertParticipant, Calls, Key, Stream
  <1>5. CASE AddToBloom(w)
    BY <1>0, <1>2, <1>5 DEF AddToBloom, Calls
  <1>6. CASE ReadBack(w)
    <2>1. /\ h' = [h EXCEPT ![w].row = rows[Key(w)], ![w].pc = AfterRead(rows[Key(w)])]
          /\ h[w].pc = "read" /\ UNCHANGED <<rows, bloom, delayed>>
      BY <1>0, <1>6 DEF ReadBack, Reads
    <2>2. h'[w].pc = AfterRead(rows[Key(w)])
      BY <1>0, <2>1 DEF HandleStates
    <2>3. IF IsComplete(rows[Key(w)]) THEN AfterRead(rows[Key(w)]) = "enqueue"
                                      ELSE AfterRead(rows[Key(w)]) \in {"contains", "ok"}
      BY <1>0 DEF AfterRead, IsComplete
    <2>4. QED
      BY <2>1, <2>2, <2>3
  <1>7. CASE Contains(w)
    BY <1>0, <1>2, <1>7 DEF Contains, Reads
  <1>8. CASE Enqueue(w)
    BY <1>0, <1>2, <1>8 DEF Enqueue, Schedule, Calls
  <1>9. QED
    BY <1>0, <1>1, <1>3, <1>4, <1>5, <1>6, <1>7, <1>8
       DEF HandleSteps, ScheduleFirst, PublishCorrection, Untrack, DropLate, Publish,
           DeleteAfterEgress

\* A record that is stored lies in its cell, and completes nothing but its key.
LEMMA StoredInOrder ==
    ASSUME DurableDelay, SettleInv, [Next]_vars, NEW w \in Workers, h[w].pc # "idle",
           h[w].rec \in Valid, Upsert(KeyOf[h[w].rec], StreamOf[h[w].rec], h[w].rec)
    PROVE  /\ RowsInOrder'
           /\ \A k \in Keys \ {Key(w)} : rows'[k] = rows[k]
           /\ \A r \in Valid : CommittedAt(r) =>
                rows'[KeyOf[r]][StreamOf[r]] = rows[KeyOf[r]][StreamOf[r]]
  <1>0. /\ rows \in [Keys -> Row] /\ RowsInOrder /\ OwnInv /\ OneEventEach /\ RowsOK
    BY SettleHas DEF SettleInv, SettleParts, WholeInv
  <1>1. /\ h[w].rec \in Records /\ Before(h[w].rec) /\ ~ CommittedAt(h[w].rec)
        /\ KeyOf[h[w].rec] = Key(w) /\ Key(w) \in Keys /\ StreamOf[h[w].rec] \in StreamIDs
    BY InOrder, HandlerConstants DEF Key
  <1>2. \A k \in Keys : \A s \in StreamIDs :
          rows'[k][s] = IF k = KeyOf[h[w].rec] /\ s = StreamOf[h[w].rec]
                        THEN h[w].rec ELSE rows[k][s]
    BY <1>0, <1>1 DEF Upsert, Row
  <1>3. \A k \in Keys \ {Key(w)} : rows'[k] = rows[k]
    BY <1>0, <1>1 DEF Upsert
  <1>4. ASSUME NEW k \in Keys, NEW s \in StreamIDs, NEW r, r = rows'[k][s], r # NoData
        PROVE  Before(r)'
    <2>1. r \in Records /\ Before(r)
      BY <1>0, <1>1, <1>2, <1>4 DEF RowsInOrder, Row
    <2>2. QED
      BY <1>0, <2>1, CommitsStay
  <1>5. ASSUME NEW r \in Valid, CommittedAt(r)
        PROVE  rows'[KeyOf[r]][StreamOf[r]] = rows[KeyOf[r]][StreamOf[r]]
    <2>1. KeyOf[r] \in Keys /\ StreamOf[r] \in StreamIDs /\ r \in Records \ Malformed
      BY HandlerConstants DEF Valid
    <2>2. ~ (KeyOf[r] = KeyOf[h[w].rec] /\ StreamOf[r] = StreamOf[h[w].rec])
      BY <1>0, <1>1, <1>5, <2>1 DEF OneEventEach, Valid
    <2>3. QED
      BY <1>2, <2>1, <2>2
  <1>6. QED
    BY <1>3, <1>4, <1>5 DEF RowsInOrder, Before

\* Where the rows stay, so does their order; a row that is deleted has none.
LEMMA OrderStays ==
    ASSUME DurableDelay, SettleInv, [Next]_vars,
           \A k \in Keys : rows'[k] = rows[k] \/ rows'[k] = NoRow
    PROVE  /\ RowsInOrder'
           /\ \A k \in Keys : IsComplete(rows'[k]) => rows'[k] = rows[k]
           /\ \A r \in Valid : rows[KeyOf[r]][StreamOf[r]] = NoData =>
                rows'[KeyOf[r]][StreamOf[r]] = NoData
  <1>0. rows \in [Keys -> Row] /\ RowsInOrder /\ OwnInv
    BY SettleHas DEF SettleInv, SettleParts, WholeInv
  <1>1. ASSUME NEW k \in Keys, NEW s \in StreamIDs, NEW r, r = rows'[k][s], r # NoData
        PROVE  Before(r)'
    <2>1. rows'[k][s] = rows[k][s]
      BY <1>1 DEF NoRow
    <2>2. r \in Records /\ Before(r)
      BY <1>0, <1>1, <2>1 DEF RowsInOrder, Row
    <2>3. QED
      BY <1>0, <2>2, CommitsStay
  <1>2. ~ IsComplete(NoRow)
    BY DEF IsComplete, Arrived, NoRow
  <1>3. ASSUME NEW r \in Valid PROVE KeyOf[r] \in Keys /\ StreamOf[r] \in StreamIDs
    BY HandlerConstants DEF Valid
  <1>4. QED
    BY <1>1, <1>2, <1>3 DEF RowsInOrder, Before, NoRow

\* A handler that stores, reads, queues and returns keeps the invariant, ...
LEMMA HandlerSettles ==
    ASSUME DurableDelay, SettleInv, [Next]_vars, NEW w \in Workers, Handle(w)
    PROVE  SettleParts'
  <1>0. /\ OneEventEach /\ WholeInv /\ OwnInv /\ errored \subseteq Malformed /\ RowsInOrder
        /\ QueuesBegun /\ HandledKnown /\ HandSettles(w) /\ \A t \in Tasks : Emptied(t)
        /\ h[w].pc # "idle" /\ bloom \subseteq bloom'
    BY SettleHas, SettleMoves, BloomGrows DEF SettleInv, SettleParts, WholeInv
  <1>1. /\ h[w].rec \in Valid /\ dq' = dq /\ h'[w].rec = h[w].rec
        /\ \A v \in Workers \ {w} : h'[v] = h[v]
        /\ h'[w].pc \notin {"publish", "delete"}
    <2>1. /\ h[w].rec \in Records \ Malformed /\ dq' = dq /\ h'[w].rec = h[w].rec
          /\ \A v \in Workers \ {w} : h'[v] = h[v]
      BY <1>0, HandlerCases
    <2>2. h'[w].pc \notin {"publish", "delete"}
      BY SettleMoves
    <2>3. QED
      BY <2>1, <2>2 DEF Valid
  <1>2. /\ h[w].rec \in Records /\ Key(w) \in Keys
        /\ ~ LP!Passed(h[w].rec[1], h[w].rec[2])
        /\ \A v \in Workers \ {w} : h[v].pc = "idle"
    BY <1>0, InOrder
  <1>3. UNCHANGED <<committed, owner, cursor, loop, handled, errored>>
    BY DEF Handle, loopVars
  <1>4. PICK key \in Keys : key = Key(w) /\ key = KeyOf[h[w].rec]
    BY <1>2 DEF Key
  <1>5. \/ rows' = rows
        \/ Upsert(KeyOf[h[w].rec], StreamOf[h[w].rec], h[w].rec)
    BY SettleMoves
  <1>6. /\ RowsInOrder' /\ \A k \in Keys \ {key} : rows'[k] = rows[k]
        /\ \A r \in Valid : CommittedAt(r) /\ rows[KeyOf[r]][StreamOf[r]] = NoData =>
             rows'[KeyOf[r]][StreamOf[r]] = NoData
    <2>1. CASE rows' = rows
      BY <2>1, OrderStays
    <2>2. CASE Upsert(KeyOf[h[w].rec], StreamOf[h[w].rec], h[w].rec)
      BY <1>0, <1>1, <1>4, <2>2, StoredInOrder
    <2>3. QED
      BY <1>5, <2>1, <2>2
  <1>7. /\ \A k : Begun(k) => Begun(k)'
        /\ \A r \in Records : CommittedAt(r) => CommittedAt(r)'
    BY <1>0, CommitsStay
  <1>8. /\ delayed \subseteq delayed'
        /\ \A d \in delayed' : d \in delayed \/ (d.key = key /\ Begun(key))
    <2>1. delayed' = delayed \/ (h[w].pc = "enqueue" /\ delayed' = delayed \cup {Joined(w)})
      BY SettleMoves
    <2>2. Joined(w).key = key
      BY <1>4 DEF Joined, Document
    <2>3. h[w].pc = "enqueue" => Begun(key)
      BY <1>0, <1>4 DEF HandSettles
    <2>4. QED
      BY <2>1, <2>2, <2>3
  <1>9. QueuesBegun'
    <2>1. \A d \in delayed' : Begun(d.key)'
      BY <1>0, <1>7, <1>8 DEF QueuesBegun
    <2>2. \A t \in Tasks : \A d \in Topic(dq'[t].todo) : Begun(d.key)'
      BY <1>0, <1>1, <1>7 DEF QueuesBegun
    <2>3. QED
      BY <2>1, <2>2 DEF QueuesBegun, Begun
  <1>10. HandledKnown'
    BY <1>0, <1>3 DEF HandledKnown, Exists
  <1>11. ASSUME NEW t \in Tasks PROVE Emptied(t)'
    <2> SUFFICES ASSUME dq'[t].pc = "zrem"
                 PROVE  \E r \in Valid : /\ KeyOf[r] = Item(t)'.key /\ CommittedAt(r)'
                                         /\ rows'[KeyOf[r]][StreamOf[r]] = NoData
      BY DEF Emptied
    <2>1. Item(t)' = Item(t)
      BY <1>1 DEF Item
    <2>2. PICK r \in Valid : /\ KeyOf[r] = Item(t).key /\ CommittedAt(r)
                             /\ rows[KeyOf[r]][StreamOf[r]] = NoData
      BY <1>0, <1>1 DEF Emptied
    <2>3. r \in Records
      BY DEF Valid
    <2>4. QED
      BY <1>6, <1>7, <2>1, <2>2, <2>3
  <1>12. Settling'
    <2> SUFFICES ASSUME NEW k \in Keys, IsComplete(rows'[k]) PROVE InSet(k)' \/ Pending(k)'
      BY DEF Settling
    <2>1. CASE IsComplete(rows[k])
      BY <1>8, <2>1, StillSettling DEF InSet
    <2>2. CASE ~ IsComplete(rows[k])
      <3>1. k = key
        BY <1>6, <2>2
      <3>2. PICK r \in Records \ Malformed : r = h[w].rec
        BY <1>1 DEF Valid
      <3>3. ~ LP!Passed(r[1], r[2])'
        BY <1>2, <1>3, <3>2 DEF LP!Passed, LP!GoesOn
      <3>4. KeyOf[r] = k
        BY <1>4, <3>1, <3>2
      <3>5. QED
        BY <3>3, <3>4 DEF Pending
    <2>3. QED
      BY <2>1, <2>2
  \* Where the handler goes, and what it knows there.
  <1>13. ASSUME h'[w].pc # "err", h'[w].pc \in {"first", "add"} => ~ Exists(key)',
                h'[w].pc \in {"upsert", "read", "contains", "enqueue", "ok"} => Exists(key)',
                h'[w].pc = "contains" => ~ IsComplete(rows'[key]),
                h'[w].pc = "enqueue" => Begun(key)',
                h'[w].pc = "ok" /\ IsComplete(rows'[key]) => InSet(key)'
         PROVE  HandSettles(w)'
    <2>1. Key(w)' = key
      BY <1>1, <1>4 DEF Key
    <2>2. \A j : Key(w)' = j => /\ Exists(j)' <=> Exists(Key(w))'
                                /\ Begun(j)' <=> Begun(Key(w))'
                                /\ InSet(j)' <=> InSet(Key(w))'
      BY DEF Exists, Begun, InSet
    <2>3. QED
      BY <1>1, <1>13, <2>1, <2>2 DEF HandSettles
  <1>14. HandSettles(w)'
    <2>0. /\ h[w].pc \in {"upsert", "read", "contains", "enqueue"} => Exists(key)
          /\ h[w].pc \in {"first", "add"} => ~ Exists(key)
          /\ h[w].pc = "contains" => ~ IsComplete(rows[key])
          /\ h[w].pc = "enqueue" => Begun(key)
          /\ Exists(key) => Exists(key)'
          /\ bloom' = bloom => (Exists(key)' <=> Exists(key))
      BY <1>0, <1>4 DEF HandSettles, Exists
    <2>1. CASE /\ h[w].pc = "bloom" /\ bloom' = bloom
               /\ h'[w].pc = IF Exists(key) THEN "upsert" ELSE "first"
      BY <1>13, <2>0, <2>1
    <2>2. CASE h[w].pc = "first" /\ h'[w].pc = "add" /\ bloom' = bloom
      BY <1>13, <2>0, <2>2
    <2>3. CASE h[w].pc = "add" /\ h'[w].pc = "ok" /\ rows' = rows /\ BloomAdd(key)
      <3>1. Exists(key)'
        BY <2>3 DEF BloomAdd, Exists
      <3>2. ~ IsComplete(rows[key])
        BY <2>0, <2>3, BegunKnown, BegunWhenComplete
      <3>3. QED
        BY <1>13, <2>3, <3>1, <3>2
    <2>4. CASE h[w].pc = "upsert" /\ h'[w].pc = "read" /\ bloom' = bloom
      BY <1>13, <2>0, <2>4
    <2>5. CASE /\ h[w].pc = "read" /\ UNCHANGED <<rows, bloom>>
               /\ IF IsComplete(rows[key]) THEN h'[w].pc = "enqueue"
                                           ELSE h'[w].pc \in {"contains", "ok"}
      <3>1. IsComplete(rows[key]) => Begun(key)'
        BY <1>7, BegunWhenComplete
      <3>2. QED
        BY <1>13, <2>0, <2>5, <3>1
    <2>6. CASE h[w].pc = "contains" /\ h'[w].pc = "ok" /\ UNCHANGED <<rows, bloom>>
      BY <1>13, <2>0, <2>6
    <2>7. CASE /\ h[w].pc = "enqueue" /\ h'[w].pc = "ok" /\ bloom' = bloom
               /\ delayed' = delayed \cup {Joined(w)}
      <3>1. Joined(w).key = key
        BY <1>4 DEF Joined, Document
      <3>2. PICK d \in delayed' : d.key = key
        BY <2>7, <3>1
      <3>3. InSet(key)'
        BY <3>2 DEF InSet
      <3>4. QED
        BY <1>13, <2>0, <2>7, <3>3
    <2>8. QED
      BY <1>4, <2>1, <2>2, <2>3, <2>4, <2>5, <2>6, <2>7, SettleMoves
  <1>15. \A v \in Workers : HandSettles(v)'
    BY <1>1, <1>2, <1>14 DEF HandSettles
  <1>16. QED
    BY <1>0, <1>3, <1>6, <1>9, <1>10, <1>11, <1>12, <1>15 DEF SettleParts

\* ... and so does a flush: it deletes a whole row, whose events are in the log
\* behind the first one committed, and then removes the join of that row.
LEMMA FlushSettles ==
    ASSUME DurableDelay, SettleInv, [Next]_vars, NEW t \in Tasks, Delay(t)
    PROVE  SettleParts'
  <1>0. /\ OneEventEach /\ WholeInv /\ OwnInv /\ errored \subseteq Malformed /\ RowsInOrder
        /\ QueuesBegun /\ HandledKnown /\ (\A v \in Workers : HandSettles(v))
        /\ (\A s \in Tasks : Emptied(s)) /\ QueuesWhole /\ QueuesOK
        /\ Durable /\ DurableInv /\ rows \in [Keys -> Row] /\ HandlerOK
    BY SettleHas DEF SettleInv, SettleParts, WholeInv, WholeParts
  <1>1. /\ UNCHANGED <<h, handled, errored>> /\ DelaySteps(t, RedisOpen(t[1]))
    BY DEF Delay, loopVars
  <1>2. bloom' = bloom
    BY <1>1
       DEF DelaySteps, FlushMemory, FlushRedis, DelayPublish, DelayDelete, DelayZRem, storeVars
  <1>3. /\ \A k : Begun(k) => Begun(k)'
        /\ \A r \in Records : CommittedAt(r) => CommittedAt(r)'
    BY <1>0, CommitsStay
  <1>4. /\ \A s \in Tasks \ {t} : dq'[s] = dq[s]
        /\ \/ /\ UNCHANGED <<rows, delayed>> /\ dq'[t].pc = "publish"
              /\ Topic(dq'[t].todo) \subseteq delayed
           \/ /\ UNCHANGED <<rows, delayed>> /\ dq'[t].pc = "delete" /\ dq'[t].todo = dq[t].todo
           \/ /\ delayed' = delayed /\ dq[t].pc = "delete"
              /\ DeleteState(<<t[2], Item(t).key[2]>>)
              /\ dq'[t].pc = "zrem" /\ dq'[t].todo = dq[t].todo
           \/ /\ rows' = rows /\ dq[t].pc = "zrem"
              /\ delayed' = delayed \/ delayed' = delayed \ {Item(t)}
              /\ dq'[t].todo = Tail(dq[t].todo) /\ dq'[t].pc \in {"idle", "publish"}
    BY <1>0, <1>1, FlushMoves DEF InQueue
  <1>5. ASSUME dq[t].pc # "idle"
        PROVE  /\ dq[t].todo \in Seq(OwnDocuments) /\ dq[t].todo # <<>>
               /\ Item(t) \in Topic(dq[t].todo) /\ Topic(Tail(dq[t].todo)) \subseteq Topic(dq[t].todo)
               /\ Begun(Item(t).key) /\ Item(t).key \in Keys
               /\ <<t[2], Item(t).key[2]>> = Item(t).key
    <2>1. dq[t].todo \in Seq(OwnDocuments) /\ dq[t].todo # <<>>
      BY <1>0, <1>5 DEF QueuesOK
    <2>2. /\ Item(t) \in Topic(dq[t].todo) /\ Item(t) \in OwnDocuments
          /\ Topic(Tail(dq[t].todo)) \subseteq Topic(dq[t].todo)
      BY <2>1, HeadAndTail DEF Item
    <2>3. /\ Begun(Item(t).key) /\ Item(t).key \in Keys /\ Item(t).key[1] = t[2]
      BY <1>0, <2>2 DEF QueuesBegun, QueuesWhole, OwnDocuments, Documents
    <2>4. QED
      BY <2>1, <2>2, <2>3 DEF Keys
  <1>6. /\ \A k \in Keys : rows'[k] = rows[k] \/ rows'[k] = NoRow
        /\ dq[t].pc = "delete" /\ rows' # rows => rows'[Item(t).key] = NoRow
        /\ delayed' \subseteq delayed
    <2>1. CASE rows' = rows
      BY <1>4, <2>1
    <2>2. CASE dq[t].pc = "delete" /\ DeleteState(<<t[2], Item(t).key[2]>>) /\ delayed' = delayed
      <3>1. DeleteState(Item(t).key) /\ Item(t).key \in Keys
        BY <1>5, <2>2
      <3>2. rows' = [rows EXCEPT ![Item(t).key] = NoRow]
        BY <3>1 DEF DeleteState
      <3>3. QED
        BY <1>0, <2>2, <3>1, <3>2
    <2>3. QED
      BY <1>4, <2>1, <2>2
  <1>7. /\ RowsInOrder' /\ \A k \in Keys : IsComplete(rows'[k]) => rows'[k] = rows[k]
        /\ \A r \in Valid : rows[KeyOf[r]][StreamOf[r]] = NoData =>
             rows'[KeyOf[r]][StreamOf[r]] = NoData
    BY <1>6, OrderStays
  <1>8. QueuesBegun'
    <2>1. \A d \in delayed' : Begun(d.key)'
      BY <1>0, <1>3, <1>6 DEF QueuesBegun
    <2>2. ASSUME NEW s \in Tasks, NEW d \in Topic(dq'[s].todo) PROVE Begun(d.key)'
      <3>1. CASE s # t
        BY <1>0, <1>3, <1>4, <2>2, <3>1 DEF QueuesBegun
      <3>2. CASE s = t
        <4>1. d \in delayed \cup Topic(dq[t].todo)
          BY <1>4, <1>5, <2>2, <3>2
        <4>2. QED
          BY <1>0, <1>3, <4>1 DEF QueuesBegun
      <3>3. QED
        BY <3>1, <3>2
    <2>3. QED
      BY <2>1, <2>2 DEF QueuesBegun, Begun
  <1>9. HandledKnown'
    BY <1>0, <1>1, <1>2 DEF HandledKnown, Exists
  <1>10. ASSUME NEW s \in Tasks PROVE Emptied(s)'
    <2> SUFFICES ASSUME dq'[s].pc = "zrem"
                 PROVE  \E r \in Valid : /\ KeyOf[r] = Item(s)'.key /\ CommittedAt(r)'
                                         /\ rows'[KeyOf[r]][StreamOf[r]] = NoData
      BY DEF Emptied
    <2>1. \A r \in Valid : CommittedAt(r) => CommittedAt(r)'
      BY <1>3 DEF Valid
    <2>2. CASE s # t
      <3>1. Item(s)' = Item(s) /\ dq[s].pc = "zrem"
        BY <1>4, <2>2 DEF Item
      <3>2. PICK r \in Valid : /\ KeyOf[r] = Item(s).key /\ CommittedAt(r)
                               /\ rows[KeyOf[r]][StreamOf[r]] = NoData
        BY <1>0, <3>1 DEF Emptied
      <3>3. QED
        BY <1>7, <2>1, <3>1, <3>2
    <2>3. CASE s = t
      <3>1. /\ dq[t].pc = "delete" /\ dq'[t].todo = dq[t].todo
            /\ DeleteState(<<t[2], Item(t).key[2]>>)
        BY <1>4, <2>3
      <3>2. DeleteState(Item(t).key) /\ Item(t).key \in Keys /\ Begun(Item(t).key)
        BY <1>5, <3>1
      <3>3. rows'[Item(t).key] = NoRow
        BY <1>0, <3>2 DEF DeleteState
      <3>4. PICK r \in Valid : KeyOf[r] = Item(t).key /\ CommittedAt(r)
        BY <3>2 DEF Begun
      <3>5. StreamOf[r] \in StreamIDs
        BY HandlerConstants DEF Valid
      <3>6. Item(t)' = Item(t)
        BY <3>1 DEF Item
      <3>7. QED
        BY <2>1, <2>3, <3>3, <3>4, <3>5, <3>6 DEF NoRow
    <2>4. QED
      BY <2>2, <2>3
  <1>11. ASSUME NEW k \in Keys, IsComplete(rows'[k])
         PROVE  IsComplete(rows[k]) /\ (InSet(k) => InSet(k)')
    <2>1. IsComplete(rows[k]) /\ rows'[k] = rows[k]
      BY <1>7, <1>11
    <2>2. ASSUME InSet(k) PROVE InSet(k)'
      <3>1. PICK d \in delayed : d.key = k
        BY <2>2 DEF InSet
      <3>2. CASE d \in delayed'
        BY <3>1, <3>2 DEF InSet
      <3>3. CASE d \notin delayed'
        <4>1. dq[t].pc = "zrem" /\ d = Item(t)
          BY <1>4, <3>1, <3>3
        <4>2. PICK r \in Valid : /\ KeyOf[r] = k /\ rows[KeyOf[r]][StreamOf[r]] = NoData
          BY <1>0, <3>1, <4>1 DEF Emptied
        <4>3. StreamOf[r] \in StreamIDs
          BY HandlerConstants DEF Valid
        <4>4. Arrived(rows[k]) = StreamIDs
          BY <1>0, <2>1, CompleteIsFull
        <4>5. QED
          BY <4>2, <4>3, <4>4 DEF Arrived
      <3>4. QED
        BY <3>2, <3>3
    <2>3. QED
      BY <2>1, <2>2
  <1>12. Settling'
    BY <1>11, StillSettling DEF Settling
  <1>13. ASSUME NEW v \in Workers PROVE HandSettles(v)'
    <2>1. h[v].pc # "idle" => Key(v) \in Keys
      BY InOrder
    <2>2. QED
      BY <1>0, <1>1, <1>2, <1>3, <1>11, <2>1, HandSettlesStays
  <1>14. QED
    BY <1>0, <1>1, <1>7, <1>8, <1>9, <1>10, <1>12, <1>13 DEF SettleParts

\* Where the stores stay as they are, it is enough to look at what is counted
\* and at the handlers that come and go.
LEMMA QuietSettles ==
    ASSUME DurableDelay, SettleInv, [Next]_vars, UNCHANGED <<rows, bloom, delayed>>,
           \A t \in Tasks : dq'[t] = dq[t] \/ (dq'[t].pc = "idle" /\ dq'[t].todo = <<>>),
           errored' \subseteq Malformed,
           \A r \in handled' \cap Valid : r \in handled \/ Exists(KeyOf[r]),
           \A w \in Workers : h'[w] = h[w] \/ HandSettles(w)'
    PROVE  SettleParts'
  <1>0. /\ OwnInv /\ QueuesBegun /\ HandledKnown /\ (\A v \in Workers : HandSettles(v))
        /\ (\A t \in Tasks : Emptied(t))
    BY DEF SettleInv, SettleParts, WholeInv
  <1>1. /\ \A k : Begun(k) => Begun(k)'
        /\ \A r \in Records : CommittedAt(r) => CommittedAt(r)'
    BY <1>0, CommitsStay
  <1>2. RowsInOrder'
    BY OrderStays
  <1>3. Topic(<<>>) = {}
    <2>1. Len(<<>>) = 0
      BY EmptySeq
    <2>2. QED
      BY <2>1 DEF Topic
  <1>4. QueuesBegun'
    <2>1. ASSUME NEW t \in Tasks, NEW d \in Topic(dq'[t].todo) PROVE Begun(d.key)'
      BY <1>0, <1>1, <1>3, <2>1 DEF QueuesBegun
    <2>2. \A d \in delayed' : Begun(d.key)'
      BY <1>0, <1>1 DEF QueuesBegun
    <2>3. QED
      BY <2>1, <2>2 DEF QueuesBegun, Begun
  <1>5. HandledKnown'
    BY <1>0 DEF HandledKnown, Exists
  <1>6. Settling'
    BY StillSettling DEF Settling, InSet
  <1>7. ASSUME NEW t \in Tasks PROVE Emptied(t)'
    <2> SUFFICES ASSUME dq'[t].pc = "zrem"
                 PROVE  \E r \in Valid : /\ KeyOf[r] = Item(t)'.key /\ CommittedAt(r)'
                                         /\ rows'[KeyOf[r]][StreamOf[r]] = NoData
      BY DEF Emptied
    <2>1. dq'[t] = dq[t] /\ Item(t)' = Item(t)
      BY DEF Item
    <2>2. PICK r \in Valid : /\ KeyOf[r] = Item(t).key /\ CommittedAt(r)
                             /\ rows[KeyOf[r]][StreamOf[r]] = NoData
      BY <1>0, <2>1 DEF Emptied
    <2>3. QED
      BY <1>1, <2>1, <2>2 DEF Valid
  <1>8. ASSUME NEW w \in Workers PROVE HandSettles(w)'
    <2>1. h[w].pc # "idle" => Key(w) \in Keys
      BY InOrder
    <2>2. \A k : InSet(k) => InSet(k)'
      BY DEF InSet
    <2>3. QED
      BY <1>0, <1>1, <2>1, <2>2, HandSettlesStays
  <1>9. QED
    BY <1>2, <1>4, <1>5, <1>6, <1>7, <1>8 DEF SettleParts

\* The loops, the group and the processes that end leave the stores alone.
LEMMA OthersSettle ==
    ASSUME DurableDelay, SettleInv, [Next]_vars, \A w \in Workers : ~ Handle(w),
           \A w \in Workers, c \in Configs : ~ Delay(<<w, c>>)
    PROVE  SettleParts'
  <1>0. /\ HandInv /\ h \in [Workers -> HandleStates] /\ HasRedis = TRUE
        /\ errored \subseteq Malformed /\ NoTimeouts /\ (\A v \in Workers : HandSettles(v))
    BY SettleHas DEF SettleInv, SettleParts, WholeInv, WholeParts, Durable
  <1>a. ASSUME NEW w \in Workers, NEW c \in Configs, Timeouts(<<w, c>>) PROVE FALSE
    <2>1. <<w, c>> \in Tasks
      BY DEF Tasks
    <2>2. tm[<<w, c>>].pc = "idle" /\ timeouts = {}
      BY <1>0, <2>1 DEF NoTimeouts
    <2>3. QED
      BY <1>a, <2>2 DEF Timeouts, TimeoutSteps, PollDue, CheckDue, PublishPartial,
           TrackPartial, DeleteExpired, RemoveDue
  <1>1. /\ UNCHANGED <<rows, bloom, delayed>>
        /\ \A t \in Tasks : dq'[t] = dq[t] \/ (dq'[t].pc = "idle" /\ dq'[t].todo = <<>>)
    <2>1. ASSUME NEW w \in Workers, LoopStep(w) \/ GroupStep(w) \/ Call(w) \/ Return(w)
          PROVE  UNCHANGED <<rows, bloom, delayed, dq>>
      BY <2>1 DEF LoopStep, GroupStep, Call, StartHandle, Return, storeVars, delayVars
    <2>2. ASSUME NEW w \in Workers, CrashStep(w) \/ KillStep(w)
          PROVE  /\ UNCHANGED <<rows, bloom, delayed>>
                 /\ \A t \in Tasks :
                      dq'[t] = dq[t] \/ (dq'[t].pc = "idle" /\ dq'[t].todo = <<>>)
      BY <2>2 DEF CrashStep, KillStep, ProcessEnds, DelayKilled, Resting, storeVars
    <2>3. UNCHANGED vars => UNCHANGED <<rows, bloom, delayed, dq>>
      BY DEF vars, storeVars, delayVars
    <2>4. QED
      BY <1>a, <2>1, <2>2, <2>3 DEF Next
  <1>2. errored' \subseteq Malformed /\ \A r \in handled' \cap Valid : r \in handled \/ Exists(KeyOf[r])
    <2>1. CASE UNCHANGED <<handled, errored>>
      BY <1>0, <2>1
    <2>2. ASSUME NEW w \in Workers,
                 \/ h[w].pc = "ok" /\ handled' = handled \cup {h[w].rec} /\ UNCHANGED errored
                 \/ h[w].pc = "err" /\ errored' = errored \cup {h[w].rec} /\ UNCHANGED handled
          PROVE  /\ errored' \subseteq Malformed
                 /\ \A r \in handled' \cap Valid : r \in handled \/ Exists(KeyOf[r])
      BY <1>0, <2>2 DEF HandSettles, Key
    <2>3. QED
      BY <1>0, <2>1, <2>2, AnswersOnly
  <1>3. ASSUME NEW v \in Workers PROVE h'[v] = h[v] \/ HandSettles(v)'
    <2>1. ASSUME NEW w \in Workers, LoopStep(w) \/ GroupStep(w) PROVE h'[v] = h[v]
      BY <2>1 DEF LoopStep, GroupStep
    <2>2. ASSUME NEW w \in Workers, CrashStep(w) \/ KillStep(w) \/ Return(w)
          PROVE  h'[v] = h[v] \/ HandSettles(v)'
      <3>1. h' = [h EXCEPT ![w] = Ready]
        BY <2>2 DEF CrashStep, KillStep, ProcessEnds, Return
      <3>2. h'[v] = h[v] \/ h'[v].pc = "idle"
        BY <1>0, <3>1 DEF Ready
      <3>3. QED
        BY <3>2 DEF HandSettles
    <2>3. ASSUME NEW w \in Workers, Call(w) PROVE h'[v] = h[v] \/ HandSettles(v)'
      <3>1. h' = [h EXCEPT ![w] = [Ready EXCEPT !.rec = Loop!Current(w),
                     !.pc = IF Loop!Current(w) \in Malformed THEN "err" ELSE "bloom"]]
        BY <1>0, <2>3 DEF Call, StartHandle
      <3>2. CASE v = w
        <4>1. /\ h'[v].rec = Loop!Current(w)
              /\ h'[v].pc = IF Loop!Current(w) \in Malformed THEN "err" ELSE "bloom"
          BY <1>0, <3>1, <3>2 DEF Ready
        <4>2. HandSettles(v)'
          BY <4>1 DEF HandSettles
        <4>3. QED
          BY <4>2
      <3>3. CASE v # w
        BY <1>0, <3>1, <3>3
      <3>4. QED
        BY <3>2, <3>3
    <2>4. UNCHANGED vars => h' = h
      BY DEF vars
    <2>5. QED
      BY <1>a, <2>1, <2>2, <2>3, <2>4 DEF Next
  <1>4. QED
    BY <1>1, <1>2, <1>3, QuietSettles

\* So every step keeps the invariant, ...
LEMMA SettleStep ==
    ASSUME DurableDelay
    PROVE  SettleInv /\ [Next]_vars => SettleInv'
  <1> SUFFICES ASSUME SettleInv, [Next]_vars PROVE SettleInv'
    OBVIOUS
  <1>0. OneEventEach /\ Durable /\ LP!SinglePartition /\ MayEvict = FALSE
    BY SettleHas DEF DurableDelay
  <1>1. WholeInv' /\ DurableInv'
    BY <1>0, WholeStep, ItemsStep DEF SettleInv
  <1>2. LP!ExclusiveInv' /\ LP!CoveredInv'
    BY <1>0, LP!ExclusiveStep, LP!CoveredStep, LoopMovesOn, LoopAssumption DEF SettleInv
  <1>3. WorksOnCurrent'
    BY WorksStep DEF SettleInv, WholeInv
  <1>4. SettleParts'
    <2>1. \A w \in Workers, c \in Configs : <<w, c>> \in Tasks
      BY DEF Tasks
    <2>2. QED
      BY <2>1, HandlerSettles, FlushSettles, OthersSettle
  <1>5. QED
    BY <1>1, <1>2, <1>3, <1>4 DEF SettleInv

\* ... which holds in the beginning.
LEMMA SettleInit == Init => SettleInv
  <1> SUFFICES ASSUME Init PROVE SettleInv
    OBVIOUS
  <1>1. /\ WholeInv /\ DurableInv /\ LP!ExclusiveInv /\ LP!CoveredInv /\ WorksOnCurrent
    BY WholeInit, ItemsInit, WorksInit, LoopStarts, LP!ExclusiveInit, LP!CoveredInit,
       LoopAssumption
  <1>2. /\ rows = [k \in Keys |-> NoRow] /\ delayed = {} /\ errored = {} /\ handled = {}
        /\ \A t \in Tasks : dq[t].pc = "idle" /\ dq[t].todo = <<>>
        /\ \A w \in Workers : h[w].pc = "idle"
    BY DEF Init, StoreInit, DelayInit, HandlerInit, Loop!LoopInit, Ready, Resting
  <1>3. Topic(<<>>) = {}
    <2>1. Len(<<>>) = 0
      BY EmptySeq
    <2>2. QED
      BY <2>1 DEF Topic
  <1>4. \A k \in Keys : \A s \in StreamIDs : rows[k][s] = NoData
    BY <1>2 DEF NoRow
  <1>5. RowsInOrder /\ QueuesBegun /\ HandledKnown
    BY <1>2, <1>3, <1>4 DEF RowsInOrder, QueuesBegun, HandledKnown
  <1>6. Settling
    BY <1>4 DEF Settling, IsComplete, Arrived
  <1>7. (\A t \in Tasks : Emptied(t)) /\ \A w \in Workers : HandSettles(w)
    BY <1>2 DEF Emptied, HandSettles
  <1>8. QED
    BY <1>1, <1>2, <1>5, <1>6, <1>7 DEF SettleInv, SettleParts

\* With a settle delay in Redis over one partition, a complete join is in the
\* delay queue, or has an event that is not committed, through crashes of the
\* handler and of the flush, hand-overs and lost commits: the flush removes a
\* join only after its row, and no later event completes the row again.
THEOREM SettlingNotStranded ==
    ASSUME DurableDelay
    PROVE  Spec => []NoStrandedJoin
  <1>1. SettleInv => NoStrandedJoin
    <2> SUFFICES ASSUME SettleInv, NEW k \in Keys, IsComplete(rows[k])
                 PROVE  \/ \E r \in Records : KeyOf[r] = k /\ committed[r[1]] <= r[2]
                        \/ \E d \in Queued : d.key = k
      BY DEF NoStrandedJoin
    <2>1. InSet(k) \/ Pending(k)
      BY DEF SettleInv, SettleParts, Settling
    <2>2. CASE InSet(k)
      BY <2>2 DEF InSet, Queued
    <2>3. CASE Pending(k)
      <3>1. PICK r \in Records : KeyOf[r] = k /\ ~ LP!Passed(r[1], r[2])
        BY <2>3 DEF Pending
      <3>2. committed[r[1]] \in Nat /\ r[2] \in Nat
        BY RecordPlaces
           DEF SettleInv, WholeInv, OwnInv, LP!FetchedInv, LP!MonotoneInv, LP!TypeInv,
               LP!LoopTypeOK
      <3>3. committed[r[1]] <= r[2]
        BY <3>1, <3>2 DEF LP!Passed
      <3>4. QED
        BY <3>1, <3>3
    <2>4. QED
      BY <2>1, <2>2, <2>3
  <1>2. SettleInv /\ [Next]_vars => SettleInv'
    BY SettleStep
  <1>3. QED
    BY <1>1, <1>2, SettleInit, PTL DEF Spec
================================================================================
