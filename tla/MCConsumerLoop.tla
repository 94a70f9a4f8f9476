---------------------------- MODULE MCConsumerLoop ----------------------------
(***************************************************************************)
(* Instances of ConsumerLoop for TLC: one or two partitions of one to      *)
(* three records, one or two processor instances.                          *)
(***************************************************************************)
EXTENDS ConsumerLoop, TLC

CONSTANTS p1, p2

MCLogLen == [p \in Partitions |-> 2]

\* A partition of three records beside one of a single record.
MCLogLens == [p \in Partitions |-> IF p = p1 THEN 3 ELSE 1]

NoRecords == {}
AllRecords == {<<p, o>> : p \in Partitions, o \in 0 .. 2}
FirstRecords == {<<p, 0>> : p \in Partitions}
LaterRecords == AllRecords \ FirstRecords
MiddleRecord == {<<p1, 1>>}

WorkerSymmetry == Permutations(Workers)
=============================================================================
