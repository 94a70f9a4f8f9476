------------------------------ MODULE JoinHandler ------------------------------
(***************************************************************************)
(* Handler.Handle: what one instance does with one record.  Every call to  *)
(* a store or a topic is a step of its own, so that the timeout manager,   *)
(* the delay queue and the other instances may act between any two.        *)
(***************************************************************************)
EXTENDS DelayQueue, JoinKeys

CONSTANTS
    ConfigOf,     \* per record: its x-config-id, or the only config
    PayloadOf,    \* per record: its JSON object
    KeyDef,       \* the key definition of the join configs
    StreamOf,     \* per record: its x-stream-id
    Malformed     \* records without the header, or that are not a JSON object

\* The key of a record: the config whose handler gets it, and the hash.
KeyOf == [r \in Records |-> <<ConfigOf[r], ExtractKey(KeyDef, PayloadOf[r])>>]

ASSUME HandlerConstants ==
    /\ KeyOf \in [Records -> Keys]
    /\ \A r \in Records : ExtractRaw(KeyDef, PayloadOf[r]) \in DOMAIN Sha256
    /\ StreamOf \in [Records -> StreamIDs]
    /\ Malformed \subseteq Records

VARIABLE h        \* per instance: control state of Handle

Ready == [pc |-> "idle", rec |-> NoData, row |-> NoRow]

HandlerInit == h = [w \in Workers |-> Ready]

Key(w) == KeyOf[h[w].rec]
Stream(w) == StreamOf[h[w].rec]

Goto(w, pc) == h' = [h EXCEPT ![w].pc = pc]

----------------------------------------------------------------------------
\* Handle is called: the stream id and the join key are extracted first.
StartHandle(w, r) ==
    /\ h[w].pc = "idle"
    /\ h' = [h EXCEPT ![w] = [Ready EXCEPT !.rec = r,
                !.pc = IF r \in Malformed THEN "err"
                       ELSE IF HasRedis THEN "bloom" ELSE "upsert"]]
    /\ UNCHANGED <<storeVars, delayVars>>

BloomExists(w) ==
    /\ h[w].pc = "bloom"
    /\ \E ok \in BOOLEAN :
        /\ Reads(ok)
        /\ Goto(w, IF ~ok THEN "err" ELSE IF Exists(Key(w)) THEN "upsert" ELSE "first")
    /\ UNCHANGED <<rows, bloom, timeouts, partials, delayed, egress, corrections,
                   delayVars>>

\* UpsertParticipantOnly: the row is not read back on a first arrival.
UpsertParticipantOnly(w) ==
    /\ h[w].pc = "first"
    /\ \E ok \in BOOLEAN :
        /\ Calls(ok, Upsert(Key(w), Stream(w), h[w].rec), UNCHANGED rows)
        /\ Goto(w, IF ok THEN "add" ELSE "err")
    /\ UNCHANGED <<bloom, timeouts, partials, delayed, egress, corrections, delayVars>>

AddToBloom(w) ==
    /\ h[w].pc = "add"
    /\ \E ok \in BOOLEAN :
        /\ Calls(ok, BloomAdd(Key(w)), UNCHANGED bloom)
        /\ Goto(w, IF ~ok THEN "err" ELSE IF HasTTL THEN "schedule" ELSE "ok")
    /\ UNCHANGED <<rows, timeouts, partials, delayed, egress, corrections, delayVars>>

\* The result of ScheduleTimeout is ignored.
ScheduleFirst(w) ==
    /\ h[w].pc = "schedule"
    /\ \E ok \in BOOLEAN :
        Calls(ok, ScheduleTimeout(Key(w)), UNCHANGED timeouts)
    /\ Goto(w, "ok")
    /\ UNCHANGED <<rows, bloom, partials, delayed, egress, corrections, delayVars>>

\* UpsertParticipant, first half: the update.
UpsertParticipant(w) ==
    /\ h[w].pc = "upsert"
    /\ \E ok \in BOOLEAN :
        /\ Calls(ok, Upsert(Key(w), Stream(w), h[w].rec), UNCHANGED rows)
        /\ Goto(w, IF ok THEN "read" ELSE "err")
    /\ UNCHANGED <<bloom, timeouts, partials, delayed, egress, corrections, delayVars>>

\* What Handle does next with the row it read: an incomplete one may belong
\* to a key that had a partial egress, a complete one is egressed.
AfterRead(row) ==
    CASE Arrived(row) = {} -> "ok"
      [] IsComplete(row) -> IF HasDelay THEN "enqueue" ELSE "publish"
      [] OTHER -> IF HasRedis /\ Corrections THEN "contains" ELSE "ok"

\* UpsertParticipant, second half: the row is read back.
ReadBack(w) ==
    /\ h[w].pc = "read"
    /\ \E ok \in BOOLEAN :
        /\ Reads(ok)
        /\ h' = [h EXCEPT ![w].row = IF ok THEN rows[Key(w)] ELSE NoRow,
                          ![w].pc = IF ok THEN AfterRead(rows[Key(w)]) ELSE "err"]
    /\ UNCHANGED <<rows, bloom, timeouts, partials, delayed, egress, corrections,
                   delayVars>>

\* lateTracker.Contains: an error counts as "no".
Contains(w) ==
    /\ h[w].pc = "contains"
    /\ \E ok \in BOOLEAN :
        /\ Reads(ok)
        /\ Goto(w, IF ok /\ Key(w) \in partials THEN "correct" ELSE "ok")
    /\ UNCHANGED <<rows, bloom, timeouts, partials, delayed, egress, corrections,
                   delayVars>>

\* The correction carries the row as it was read; its failure is logged.
PublishCorrection(w) ==
    /\ h[w].pc = "correct"
    /\ \E ok \in BOOLEAN :
        Calls(ok, Correct(Document("late", Key(w), Apply(h[w].row))),
              UNCHANGED corrections)
    /\ Goto(w, "untrack")
    /\ UNCHANGED <<rows, bloom, timeouts, partials, delayed, egress, delayVars>>

Untrack(w) ==
    /\ h[w].pc = "untrack"
    /\ \E ok \in BOOLEAN :
        Calls(ok, partials' = partials \ {Key(w)}, UNCHANGED partials)
    /\ Goto(w, "drop")
    /\ UNCHANGED <<rows, bloom, timeouts, delayed, egress, corrections, delayVars>>

\* DeleteState after a correction is best-effort.
DropLate(w) ==
    /\ h[w].pc = "drop"
    /\ \E ok \in BOOLEAN : Calls(ok, DeleteState(Key(w)), UNCHANGED rows)
    /\ Goto(w, "ok")
    /\ UNCHANGED <<bloom, timeouts, partials, delayed, egress, corrections, delayVars>>

Joined(w) == Document("joined", Key(w), Apply(h[w].row))

\* post_join_delay: the completed join is queued; its row stays until then.
Enqueue(w) ==
    /\ h[w].pc = "enqueue"
    /\ Schedule(<<w, Key(w)[1]>>, Joined(w))
    /\ Goto(w, "ok")
    /\ UNCHANGED <<rows, bloom, timeouts, partials, egress, corrections, dq>>

\* Bug form: the state is deleted although the produce failed.
PublishAnyhow(w) ==
    /\ h[w].pc = "publish"
    /\ \E ok \in BOOLEAN : Calls(ok, Produce(Joined(w)), UNCHANGED egress)
    /\ Goto(w, "delete")
    /\ UNCHANGED <<rows, bloom, timeouts, partials, delayed, corrections, delayVars>>

Publish(w) ==
    /\ h[w].pc = "publish"
    /\ \E ok \in BOOLEAN :
        /\ Calls(ok, Produce(Joined(w)), UNCHANGED egress)
        /\ Goto(w, IF ok THEN "delete" ELSE "err")
    /\ UNCHANGED <<rows, bloom, timeouts, partials, delayed, corrections, delayVars>>

\* Bug form: the state is not deleted after the egress.
KeepState(w) ==
    /\ h[w].pc = "delete"
    /\ Goto(w, "ok")
    /\ UNCHANGED <<storeVars, delayVars>>

DeleteAfterEgress(w) ==
    /\ h[w].pc = "delete"
    /\ \E ok \in BOOLEAN :
        /\ Calls(ok, DeleteState(Key(w)), UNCHANGED rows)
        /\ Goto(w, IF ok THEN "ok" ELSE "err")
    /\ UNCHANGED <<bloom, timeouts, partials, delayed, egress, corrections, delayVars>>

HandleSteps(w) ==
    \/ BloomExists(w)
    \/ UpsertParticipantOnly(w)
    \/ AddToBloom(w)
    \/ ScheduleFirst(w)
    \/ UpsertParticipant(w)
    \/ ReadBack(w)
    \/ Contains(w)
    \/ PublishCorrection(w)
    \/ Untrack(w)
    \/ DropLate(w)
    \/ Enqueue(w)
    \/ Publish(w)
    \/ DeleteAfterEgress(w)

HandleReturned(w) == h[w].pc \in {"ok", "err"}
=============================================================================
