------------------------------- MODULE Consumer -------------------------------
(***************************************************************************)
(* One ConsumerWorker (src/main.py) draining one Kafka partition into one  *)
(* Postgres table through PostgresPool.execute.                            *)
(*                                                                         *)
(* The partition is an immutable log read by offset.  The client library   *)
(* stores the position after every polled message, and commit() with no    *)
(* argument commits that position, so "polled" and "will be committed" are *)
(* the same thing whatever the worker did with the message.                *)
(***************************************************************************)
EXTENDS Naturals, Sequences, FiniteSets

CONSTANTS
    Keys,        \* Kafka message keys
    Rows,        \* primary keys of the target table
    Mappings,    \* of projector_config.yaml, each with what may be on its topic
    BatchMax,    \* BATCH_MAX_MESSAGES
    MaxLog,      \* bound: messages ever produced
    MaxOutages,  \* bound: times Postgres goes away
    MaxCrashes   \* bound: times the process dies

\* What decoding and the handler make of a message, and what Postgres says.
\* "escapes" is a message whose exception nobody names: a key that is not
\* UTF-8, a decoder that raises anything but DecodeError.
Unmappable == {"undecodable", "raises", "ignored"}
Stated == {"write", "update", "rejected"}
Kinds == Stated \cup Unmappable \cup {"escapes"}
MessageType == [key : Keys, row : Rows, kind : Kinds]
MappingType == [mode : {"upsert", "append", "custom"}, topic : SUBSET MessageType]

ASSUME ConsumerAssumption ==
    /\ Mappings \subseteq MappingType
    /\ BatchMax \in Nat \ {0}
    /\ MaxLog \in Nat
    /\ MaxOutages \in Nat
    /\ MaxCrashes \in Nat

VARIABLES
    mapping,    \* this worker's mapping, for life
    log,        \* the partition: a sequence of messages
    pos,        \* last offset handed to the worker in this life
    committed,  \* last offset committed to the consumer group
    alive,      \* is the worker's task running
    phase,      \* where run() is: "poll", "persist" or "commit", or "ended"
                \* when it raised and the process goes on without it
    batch,      \* offsets in the batch being drained or persisted
    slots,      \* length of the drained list, error frames included
    pending,    \* offsets of the coalesced batch not yet persisted
    pgUp,       \* is Postgres reachable
    row,        \* the table: offset of the message each row holds, 0 if absent
    fate,       \* history: what became of each offset when last delivered
    outages, crashes   \* how often the bounded faults have happened

vars == <<mapping, log, pos, committed, alive, phase, batch, slots, pending,
          pgUp, row, fate, outages, crashes>>
workerVars == <<phase, batch, slots, pending>>

Mode == mapping.mode
Offsets == 1..MaxLog
Fates == {"none", "written", "superseded", "skipped", "discarded",
          "swallowed", "aborted"}

\* The fates that end an offset without a row of its own: not "none", and
\* not "superseded", which leaves the record to a later one of its key.
Final == Fates \ {"none", "superseded"}

SameKey(o, p) == log[o].key = log[p].key

\* The latest delivery of an offset decides its fate.
Mark(f, S, v) == [o \in Offsets |-> IF o \in S THEN v ELSE f[o]]

-----------------------------------------------------------------------------
Init ==
    /\ mapping \in Mappings
    /\ log = <<>>
    /\ pos = 0
    /\ committed = 0
    /\ alive = TRUE
    /\ phase = "poll"
    /\ batch = {}
    /\ slots = 0
    /\ pending = {}
    /\ pgUp = TRUE
    /\ row = [r \in Rows |-> 0]
    /\ fate = [o \in Offsets |-> "none"]
    /\ outages = 0
    /\ crashes = 0

\* A producer appends to the topic.
Produce(m) ==
    /\ Len(log) < MaxLog
    /\ log' = Append(log, m)
    /\ UNCHANGED <<mapping, pos, committed, alive, workerVars, pgUp, row, fate,
                   outages, crashes>>

-----------------------------------------------------------------------------
(***************************************************************************)
(* _drain_batch: poll until nothing comes back or the list is full.        *)
(***************************************************************************)
Polling == alive /\ phase = "poll"

\* The last message of each key stays; append and custom topics keep all.
Coalesce(b) ==
    IF Mode = "upsert"
    THEN {o \in b : \A p \in b : SameKey(o, p) => p <= o}
    ELSE b

\* Mutant of PollMessage: the room test is off by one.
PollMessageOffByOne ==
    /\ Polling
    /\ slots <= BatchMax
    /\ pos < Len(log)
    /\ pos' = pos + 1
    /\ batch' = batch \cup {pos + 1}
    /\ slots' = slots + 1
    /\ UNCHANGED <<mapping, log, committed, alive, phase, pending, pgUp, row,
                   fate, outages, crashes>>

\* poll() returned a message and the list has room for it.
PollMessage ==
    /\ Polling
    /\ slots < BatchMax
    /\ pos < Len(log)
    /\ pos' = pos + 1
    /\ batch' = batch \cup {pos + 1}
    /\ slots' = slots + 1
    /\ UNCHANGED <<mapping, log, committed, alive, phase, pending, pgUp, row,
                   fate, outages, crashes>>

\* poll() returned a partition-level error: it takes a place in the list and
\* run() filters it out afterwards.
PollErrorFrame ==
    /\ Polling
    /\ slots < BatchMax
    /\ slots' = slots + 1
    /\ UNCHANGED <<mapping, log, pos, committed, alive, phase, batch, pending,
                   pgUp, row, fate, outages, crashes>>

\* The drained list goes to _coalesce, or back to the loop's head when no
\* real message is in it.
EndDrain(f) ==
    /\ slots' = 0
    /\ IF batch = {}
       THEN /\ fate' = f
            /\ UNCHANGED <<phase, batch, pending>>
       ELSE /\ phase' = "persist"
            /\ pending' = Coalesce(batch)
            /\ fate' = Mark(f, batch \ Coalesce(batch), "superseded")
            /\ UNCHANGED batch

\* The list is full, and the loop's test comes after the poll at its foot:
\* the message this poll returned is in no batch.
PollOver ==
    /\ Polling
    /\ slots = BatchMax
    /\ pos < Len(log)
    /\ pos' = pos + 1
    /\ EndDrain(Mark(fate, {pos + 1}, "discarded"))
    /\ UNCHANGED <<mapping, log, committed, alive, pgUp, row, outages,
                   crashes>>

\* poll() returned nothing (or one error frame too many).  A message on the
\* broker need not be in the client's buffer yet.
PollNothing ==
    /\ Polling
    /\ EndDrain(fate)
    /\ UNCHANGED <<mapping, log, pos, committed, alive, pgUp, row, outages,
                   crashes>>

-----------------------------------------------------------------------------
(***************************************************************************)
(* _persist, one message at a time, in the order of the coalesced list: a  *)
(* dict keeps the place of a key's FIRST message and the value of its last.*)
(***************************************************************************)
Precedes(o, p) ==
    IF Mode = "upsert"
    THEN \E x \in batch : SameKey(x, o) /\ \A y \in batch : SameKey(y, p) => x < y
    ELSE o < p

Turn(o) ==
    /\ alive /\ phase = "persist"
    /\ \A p \in pending \ {o} : Precedes(o, p)

\* A kind whose statement Postgres accepts and which finds its row.
Writable(o) ==
    \/ log[o].kind = "write"
    \/ log[o].kind = "update" /\ row[log[o].row] # 0

\* Mutants of RowAfter: every INSERT does nothing on conflict, or overwrites.
RowFirstWins(o) == [row EXCEPT ![log[o].row] = IF @ # 0 THEN @ ELSE o]
RowLastWins(o) == [row EXCEPT ![log[o].row] = o]

\* build_sql: ON CONFLICT DO NOTHING for append, overwrite for the others.
RowAfter(o) ==
    [row EXCEPT ![log[o].row] = IF Mode = "append" /\ @ # 0 THEN @ ELSE o]

\* _persist returns for o, leaving the given fate.
Settle(o, v) ==
    /\ pending' = pending \ {o}
    /\ phase' = IF pending' = {} THEN "commit" ELSE "persist"
    /\ fate' = Mark(fate, {o}, v)
    /\ UNCHANGED <<mapping, log, pos, committed, alive, batch, slots, crashes>>

\* Mutant of SkipUnmappable: a handler's None is not taken for a skip.
SkipAllButNone(o) ==
    /\ Turn(o)
    /\ log[o].kind \in Unmappable \ {"ignored"}
    /\ Settle(o, "skipped")
    /\ UNCHANGED <<pgUp, row, outages>>

\* DecodeError, an exception in the handler, or a handler that returns None:
\* logged, and nothing is sent to Postgres.
SkipUnmappable(o) ==
    /\ Turn(o)
    /\ log[o].kind \in Unmappable
    /\ Settle(o, "skipped")
    /\ UNCHANGED <<pgUp, row, outages>>

\* PostgresWriteError on bad data, or an update that matched no row.
SkipWrite(o) ==
    /\ Turn(o)
    /\ pgUp
    /\ log[o].kind \in Stated
    /\ ~Writable(o)
    /\ Settle(o, "skipped")
    /\ UNCHANGED <<pgUp, row, outages>>

Write(o) ==
    /\ Turn(o)
    /\ pgUp
    /\ Writable(o)
    /\ row' = RowAfter(o)
    /\ Settle(o, "written")
    /\ UNCHANGED <<pgUp, outages>>

\* The statement commits but the connection dies before the answer: execute()
\* retries it, a custom handler's exception ends the message.
WriteLosesAnswer(o) ==
    /\ Turn(o)
    /\ pgUp
    /\ Writable(o)
    /\ outages < MaxOutages
    /\ row' = RowAfter(o)
    /\ pgUp' = FALSE
    /\ outages' = outages + 1
    /\ IF Mode = "custom"
       THEN Settle(o, "written")
       ELSE /\ fate' = Mark(fate, {o}, "written")
            /\ UNCHANGED <<mapping, log, pos, committed, alive, workerVars,
                           crashes>>

\* The server ends the statement itself while shutting down: a PostgresError
\* that is no PostgresConnectionError, so execute() takes it for bad data.
WriteAborted(o) ==
    /\ Turn(o)
    /\ pgUp
    /\ log[o].kind \in Stated
    /\ outages < MaxOutages
    /\ pgUp' = FALSE
    /\ outages' = outages + 1
    /\ Settle(o, "aborted")
    /\ UNCHANGED row

\* A custom handler does its own I/O: what it raises on a dead connection is
\* caught, logged and skipped like any bug of the handler.  The other modes
\* have no such step: execute() sleeps and retries.
SwallowOutage(o) ==
    /\ Turn(o)
    /\ ~pgUp
    /\ Mode = "custom"
    /\ log[o].kind \in Stated
    /\ Settle(o, "swallowed")
    /\ UNCHANGED <<pgUp, row, outages>>

\* Where run() is when its task is gone: nothing in hand, nothing committed.
Leave(where) ==
    /\ alive' = FALSE
    /\ phase' = where
    /\ batch' = {}
    /\ slots' = 0
    /\ pending' = {}
    /\ UNCHANGED <<mapping, log, pos, committed, pgUp, row, fate, outages>>

\* What _persist does not catch ends run().  main() holds the task only for
\* shutdown: nobody sees the exception or starts the worker again, and the
\* process lives on.
Escape(o) ==
    /\ Turn(o)
    /\ log[o].kind = "escapes"
    /\ Leave("ended")
    /\ UNCHANGED crashes

PersistStep(o) ==
    \/ SkipUnmappable(o)
    \/ SkipWrite(o)
    \/ Write(o)
    \/ WriteLosesAnswer(o)
    \/ WriteAborted(o)
    \/ SwallowOutage(o)

-----------------------------------------------------------------------------
\* Mutant of Commit: it does not wait for the batch.
CommitEager ==
    /\ alive /\ phase \in {"persist", "commit"}
    /\ committed' = pos
    /\ phase' = IF phase = "commit" THEN "poll" ELSE phase
    /\ batch' = IF phase = "commit" THEN {} ELSE batch
    /\ UNCHANGED <<mapping, log, pos, alive, slots, pending, pgUp, row, fate,
                   outages, crashes>>

\* The whole batch went through _persist: commit the position.
Commit ==
    /\ alive /\ phase = "commit"
    /\ committed' = pos
    /\ phase' = "poll"
    /\ batch' = {}
    /\ UNCHANGED <<mapping, log, pos, alive, slots, pending, pgUp, row, fate,
                   outages, crashes>>

\* The commit raises: only a warning, the next batch's commit covers it.
CommitFails ==
    /\ alive /\ phase = "commit"
    /\ phase' = "poll"
    /\ batch' = {}
    /\ UNCHANGED <<mapping, log, pos, committed, alive, slots, pending, pgUp,
                   row, fate, outages, crashes>>

\* The process dies, with the worker's task or after it, or shutdown cancels
\* the task at one of its awaits.
Crash ==
    /\ alive \/ phase = "ended"
    /\ crashes < MaxCrashes
    /\ crashes' = crashes + 1
    /\ Leave("poll")

\* main() starts the workers once pool.connect() has reached Postgres; the
\* group resumes after the committed offset.
Restart ==
    /\ ~alive /\ phase = "poll"
    /\ pgUp
    /\ alive' = TRUE
    /\ pos' = committed
    /\ UNCHANGED <<mapping, log, committed, workerVars, pgUp, row, fate,
                   outages, crashes>>

PgDown ==
    /\ pgUp
    /\ outages < MaxOutages
    /\ pgUp' = FALSE
    /\ outages' = outages + 1
    /\ UNCHANGED <<mapping, log, pos, committed, alive, workerVars, row, fate,
                   crashes>>

PgUp ==
    /\ ~pgUp
    /\ pgUp' = TRUE
    /\ UNCHANGED <<mapping, log, pos, committed, alive, workerVars, row, fate,
                   outages, crashes>>

-----------------------------------------------------------------------------
Next ==
    \/ \E m \in mapping.topic : Produce(m)
    \/ PollMessage
    \/ PollErrorFrame
    \/ PollOver
    \/ PollNothing
    \/ \E o \in pending : PersistStep(o) \/ Escape(o)
    \/ Commit
    \/ CommitFails
    \/ Crash
    \/ Restart
    \/ PgDown
    \/ PgUp

Spec == Init /\ [][Next]_vars

(***************************************************************************)
(* The event loop keeps running the worker, the client eventually hands    *)
(* over a fetched message, the process is restarted by its supervisor and  *)
(* an outage of Postgres ends.  Nothing is assumed of the producer, of     *)
(* error frames, or of a commit succeeding.                                *)
(***************************************************************************)
Fairness ==
    /\ WF_vars(PollMessage \/ PollOver)
    /\ WF_vars(PollNothing)
    /\ WF_vars(\E o \in pending : PersistStep(o) \/ Escape(o))
    /\ WF_vars(Commit \/ CommitFails)
    /\ WF_vars(Restart)
    /\ WF_vars(PgUp)

FairSpec == Spec /\ Fairness

-----------------------------------------------------------------------------
(***************************************************************************)
(* Properties.                                                             *)
(***************************************************************************)

\* Every variable has its type: the topic and the table, the worker's place
\* in the topic, the faults' budgets.
DataType ==
    /\ mapping \in Mappings
    /\ log \in Seq(mapping.topic)
    /\ row \in [Rows -> 0..MaxLog]
    /\ fate \in [Offsets -> Fates]
PlaceType ==
    /\ Len(log) <= MaxLog
    /\ pos \in 0..Len(log)
    /\ committed \in 0..pos
WorkerType ==
    /\ alive \in BOOLEAN
    /\ phase \in {"poll", "persist", "commit", "ended"}
    /\ slots \in 0..BatchMax
    /\ batch \subseteq Offsets
    /\ pending \subseteq Offsets
FaultType ==
    /\ pgUp \in BOOLEAN
    /\ outages \in 0..MaxOutages
    /\ crashes \in 0..MaxCrashes
TypeOK == DataType /\ PlaceType /\ WorkerType /\ FaultType

\* What became of o is final, by its own fate or by that of a later message
\* of its key, among the first n offsets.
Settled(o, n) ==
    \/ fate[o] \in Final
    \/ /\ fate[o] = "superseded"
       /\ \E p \in o + 1 .. n : SameKey(o, p) /\ fate[p] \in Final

\* Offsets advance only after the batch is durable (the docstring of
\* main.py): every offset at or below the committed one went through
\* _persist, or a later committed message of its key did, or it is one of
\* the losses the fates name.  No crash, failed commit or redelivery lets
\* the group move past a message nobody looked at.
CommittedSettled == \A o \in 1..committed : Settled(o, committed)

\* What the table and the group are promised, with the worker left out: the
\* committed prefix is closed, and it shows the last write of each row, also
\* while messages are redelivered after a crash, a failed commit or a lost
\* answer (latest wins, "one UPSERT, not N").
Table == INSTANCE AtLeastOnce WITH
             mapping <- mapping, log <- log, committed <- committed,
             row <- row, fate <- fate
ImplementsAtLeastOnce == Table!Spec

\* A row of an append table never changes again: a replayed event is a
\* no-op, after a crash, a lost answer or a second message with its id.
AppendedRowsStay ==
    [][Mode = "append" => \A r \in Rows : row[r] # 0 => row'[r] = row[r]]_row

\* An undecodable message, a handler's exception or refusal, an outage, a
\* crash or a failed commit never stalls the topic: from every state on,
\* each message produced is settled in the end, unless run() has ended on a
\* message whose exception nobody catches.  A restart owes it again.
EveryMessageSettled ==
    \A o \in Offsets : o <= Len(log) ~> Settled(o, Len(log)) \/ phase = "ended"

-----------------------------------------------------------------------------
(***************************************************************************)
(* What the documentation says and the code does not keep.                 *)
(***************************************************************************)

\* README: "a Kafka offset is committed only after the Postgres write is
\* durable".  Nothing that was polled is left out of the batches and then
\* committed.
NothingDiscarded == \A o \in 1..committed : fate[o] # "discarded"

\* The docstrings of ProtoDecoder.decode and the comment "handler bug must
\* not crash consumer" have a bad message logged and skipped.  None ends the
\* worker; it comes back after a restart and ends it again.
NoMessageEndsTheWorker == phase # "ended"

\* docs/topology.md: "A Postgres outage stalls the consumer rather than
\* dropping a message", for the handlers that own their I/O.
OutageSwallowsNothing == \A o \in 1..committed : fate[o] # "swallowed"

\* The same sentence for a statement the server ends by shutting down.
ShutdownAbortsNothing == \A o \in 1..committed : fate[o] # "aborted"

\* The docstring of main.py: coalescing costs a key "one UPSERT, not N".  A
\* key with a mappable message in a committed batch has had its UPSERT.
KeyGetsItsUpsert ==
    \A o \in 1..committed :
        log[o].kind = "write" /\ fate[o] # "discarded" =>
            \E p \in 1..committed : SameKey(o, p) /\ fate[p] = "written"

\* The comment in _coalesce: the kept position is "fine, we only need last
\* value".  A batch leaves each row with its last written message.
RowHoldsLastWritten ==
    \A o \in 1..committed : fate[o] = "written" => row[log[o].row] >= o
=============================================================================
