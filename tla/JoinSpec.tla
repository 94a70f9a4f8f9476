-------------------------------- MODULE JoinSpec --------------------------------
(***************************************************************************)
(* What an inner join promises, without instances, calls and crashes: an   *)
(* event takes the place of its stream in the state of its key; a complete *)
(* state may be published, as it is at that moment, and once more after a  *)
(* failure; a state ends only when its own document is on the topic.       *)
(***************************************************************************)
EXTENDS Integers, Sequences, FiniteSets

CONSTANTS Keys, StreamIDs, Records, KeyOf, StreamOf, N, Projected, NoData

VARIABLES
    rows,         \* per key and stream: the event that has arrived, or NoData
    egress        \* documents on the egress topic, in order

joinVars == <<rows, egress>>

JoinInit ==
    /\ rows = [k \in Keys |-> [s \in StreamIDs |-> NoData]]
    /\ egress = <<>>

Present(k) == {s \in StreamIDs : rows[k][s] # NoData}

Complete(k) == Present(k) # {} /\ Cardinality(Present(k)) >= N

\* The document of the events that are there now.
Snapshot(k) ==
    [kind |-> "joined", key |-> k,
     data |-> {rows[k][s] : s \in Present(k) \cap Projected}]

Accept(r) == rows' = [rows EXCEPT ![KeyOf[r]][StreamOf[r]] = r] /\ UNCHANGED egress

PublishJoin(k) ==
    /\ Complete(k)
    /\ egress' = Append(egress, Snapshot(k))
    /\ UNCHANGED rows

Clear(k) ==
    /\ Complete(k)
    /\ \E i \in 1 .. Len(egress) : egress[i] = Snapshot(k)
    /\ rows' = [rows EXCEPT ![k] = [s \in StreamIDs |-> NoData]]
    /\ UNCHANGED egress

JoinNext ==
    \/ \E r \in Records : Accept(r)
    \/ \E k \in Keys : PublishJoin(k) \/ Clear(k)

JoinSafety == JoinInit /\ [][JoinNext]_joinVars
=============================================================================
