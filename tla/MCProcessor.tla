------------------------------ MODULE MCProcessor ------------------------------
(***************************************************************************)
(* Instances of Processor for TLC.  A log gives every partition its events *)
(* in order, each with its config, its payload and its stream.             *)
(***************************************************************************)
EXTENDS Processor, TLC

CONSTANTS Log, p1, p2, c1, c2, k1, k2, A, B

MCLogLen == [p \in Partitions |-> Len(Log[p])]
MCRecords == UNION {{<<p, o>> : o \in 0 .. Len(Log[p]) - 1} : p \in Partitions}
Event(r) == Log[r[1]][r[2] + 1]
MCConfigOf == [r \in MCRecords |-> Event(r)[1]]
MCPayloadOf == [r \in MCRecords |-> Event(r)[2]]
MCStreamOf == [r \in MCRecords |-> Event(r)[3]]

String(x) == [type |-> "string", text |-> x]
Order(x) == [order |-> String(x)]
Region(x) == [region |-> String(x)]

SingleField == [field |-> "order", fields |-> <<>>]
Composite == [field |-> "", fields |-> <<"region", "order">>]

\* Hashes for the raw keys that occur, no two the same.
MCSha256 ==
    LET raws == {ExtractRaw(KeyDef, Event(r)[2]) : r \in MCRecords}
    IN  CHOOSE f \in [raws -> Hashes] : \A a, b \in raws : f[a] = f[b] => a = b

\* One key, one event of each stream.
OneRound == p1 :> << <<c1, Order("1"), A>>, <<c1, Order("1"), B>> >>

\* A record that is not valid, then a round and the start of the next one.
Garbled ==
    p1 :> << <<c1, Order("1"), B>>, <<c1, Order("1"), A>>, <<c1, Order("1"), B>>,
             <<c1, Order("1"), A>> >>

\* Two keys, one per partition, told apart by the name of the field they have;
\* the first one has one more event than its round needs.
TwoPartitions ==
    p1 :> << <<c1, Order("1"), A>>, <<c1, Order("1"), B>>, <<c1, Order("1"), A>> >>
    @@ p2 :> << <<c1, Region("1"), A>>, <<c1, Region("1"), B>> >>

\* The same join key in two configs, one of which completes.
TwoConfigs ==
    p1 :> << <<c2, Order("1"), A>>, <<c1, Order("1"), A>>, <<c1, Order("1"), B>> >>

NoRecords == {}
FirstRecord == {<<p1, 0>>}

OwnNames == [c \in Configs |-> c]

ExactBits == [k \in Keys |-> {k}]
=============================================================================
