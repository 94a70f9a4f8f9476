----------------------------- MODULE TimeoutManager -----------------------------
(***************************************************************************)
(* The timeout loop of one join config (timeout.Manager): every instance   *)
(* polls the shared set of deadlines, publishes what has arrived for the   *)
(* keys that are due (egress "partial") and deletes their state.  A task   *)
(* is the loop of one config in one instance.  There is no clock: any      *)
(* scheduled key may be due.                                               *)
(***************************************************************************)
EXTENDS JoinStore

VARIABLES
    tm,           \* per task: the batch of due keys and the key in hand
    untracked     \* history: keys whose partial egress could not be recorded

Waiting == [pc |-> "idle", todo |-> {}, key |-> NoData, row |-> NoRow]

TimeoutInit ==
    /\ tm = [t \in Workers \X Configs |-> Waiting]
    /\ untracked = {}

TmGoto(t, pc) == tm' = [tm EXCEPT ![t].pc = pc]

\* The due keys, at most a batch of them; a failed query ends the round.
PollDue(t, open) ==
    /\ open
    /\ tm[t].pc = "idle"
    /\ \E due \in (SUBSET (timeouts \cap KeysOf(t[2]))) \ {{}} :
        tm' = [tm EXCEPT ![t] = [Waiting EXCEPT !.pc = "next", !.todo = due]]
    /\ UNCHANGED <<storeVars, untracked>>

\* One more member of the batch: its state is read; an error counts as gone.
\* A key with no state, or with a complete one, only leaves the set.
CheckDue(t) ==
    /\ tm[t].pc = "next"
    /\ \E k \in tm[t].todo : \E ok \in BOOLEAN :
        /\ Reads(ok)
        /\ tm' = [tm EXCEPT
             ![t].key = k,
             ![t].todo = @ \ {k},
             ![t].row = IF ok THEN rows[k] ELSE NoRow,
             ![t].pc = IF ~ok \/ Arrived(rows[k]) = {} \/ IsComplete(rows[k])
                       THEN "zrem"
                       ELSE IF PartialEgress THEN "publish" ELSE "delete"]
    /\ UNCHANGED <<rows, bloom, timeouts, partials, delayed, egress, corrections,
                   untracked>>

Settled(t) ==
    tm' = [tm EXCEPT ![t] = IF tm[t].todo = {} THEN Waiting
                            ELSE [Waiting EXCEPT !.pc = "next", !.todo = tm[t].todo]]

\* A failed produce leaves the key in the set, for the next round.
PublishPartial(t) ==
    /\ tm[t].pc = "publish"
    /\ \E ok \in BOOLEAN :
        /\ Calls(ok, Produce(Document("partial", tm[t].key, Apply(tm[t].row))),
                 UNCHANGED egress)
        /\ IF ok THEN TmGoto(t, IF Corrections THEN "track" ELSE "delete")
                 ELSE Settled(t)
    /\ UNCHANGED <<rows, bloom, timeouts, partials, delayed, corrections, untracked>>

\* Bug form: the partial egress is not recorded.
ForgetPartial(t, open) ==
    /\ tm[t].pc = "track"
    /\ TmGoto(t, "delete")
    /\ UNCHANGED <<storeVars, untracked>>

\* partialTracker.Add is best-effort.
TrackPartial(t, open) ==
    /\ tm[t].pc = "track"
    /\ \E ok \in BOOLEAN :
        /\ RedisCalls(open, ok, partials' = partials \cup {tm[t].key},
                      UNCHANGED partials)
        /\ untracked' = IF ok THEN untracked ELSE untracked \cup {tm[t].key}
    /\ TmGoto(t, "delete")
    /\ UNCHANGED <<rows, bloom, timeouts, delayed, egress, corrections>>

\* The state of the key is deleted, whatever has arrived since it was read.
DeleteExpired(t) ==
    /\ tm[t].pc = "delete"
    /\ \E ok \in BOOLEAN : Calls(ok, DeleteState(tm[t].key), UNCHANGED rows)
    /\ TmGoto(t, "zrem")
    /\ UNCHANGED <<bloom, timeouts, partials, delayed, egress, corrections, untracked>>

\* Bug form: the key stays in the set.
KeepScheduled(t, open) ==
    /\ tm[t].pc = "zrem"
    /\ Settled(t)
    /\ UNCHANGED <<storeVars, untracked>>

RemoveDue(t, open) ==
    /\ tm[t].pc = "zrem"
    /\ \E ok \in BOOLEAN : RedisCalls(open, ok, ZRem(tm[t].key), UNCHANGED timeouts)
    /\ Settled(t)
    /\ UNCHANGED <<rows, bloom, partials, delayed, egress, corrections, untracked>>

TimeoutSteps(t, open) ==
    /\ HasRedis
    /\ \/ PollDue(t, open)
       \/ CheckDue(t)
       \/ PublishPartial(t)
       \/ TrackPartial(t, open)
       \/ DeleteExpired(t)
       \/ RemoveDue(t, open)

\* The process of the instance ends.
TimeoutKilled(w) ==
    /\ tm' = [t \in Workers \X Configs |-> IF t[1] = w THEN Waiting ELSE tm[t]]
    /\ UNCHANGED untracked
=============================================================================
