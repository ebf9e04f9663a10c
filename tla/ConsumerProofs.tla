---------------------------- MODULE ConsumerProofs ----------------------------
(***************************************************************************)
(* Consumer's type invariant, its delivery guarantee and its refinement of *)
(* AtLeastOnce, for every set of keys, rows and messages, every mode,      *)
(* batch size and bound.                                                   *)
(***************************************************************************)
EXTENDS Consumer, WellFoundedInduction, TLAPS

-----------------------------------------------------------------------------
(* Type correctness, one lemma per part of TypeOK.                          *)

\* Marking keeps fate a function from offsets to fates.
LEMMA MarkType ==
    ASSUME NEW f \in [Offsets -> Fates], NEW S, NEW v \in Fates
    PROVE  Mark(f, S, v) \in [Offsets -> Fates]
BY DEF Mark

\* The log grows by messages, rows hold offsets, fates are fates.
LEMMA DataTypeStep ==
    ASSUME TypeOK, [Next]_vars PROVE DataType'
<1> USE DEF DataType
<1>1. DataType /\ pending \subseteq Offsets
  BY DEF TypeOK, WorkerType
<1>2. ASSUME NEW m \in mapping.topic, Produce(m) PROVE DataType'
  BY <1>1, <1>2 DEF Produce
<1>3. ASSUME NEW f \in [Offsets -> Fates], EndDrain(f)
      PROVE  fate' \in [Offsets -> Fates]
  <2> "superseded" \in Fates
    BY DEF Fates
  <2> QED
    BY <1>3, MarkType DEF EndDrain
<1>4. CASE PollOver
  <2>1. Mark(fate, {pos + 1}, "discarded") \in [Offsets -> Fates]
    BY <1>1, MarkType DEF Fates
  <2> QED
    BY <1>1, <1>3, <1>4, <2>1 DEF PollOver
<1>5. CASE PollNothing
  BY <1>1, <1>3, <1>5 DEF PollNothing
<1>6. ASSUME NEW o \in pending, PersistStep(o) PROVE DataType'
  <2>1. o \in 1..MaxLog
    BY <1>1 DEF Offsets
  <2>2. RowAfter(o) \in [Rows -> 0..MaxLog]
    <3> DEFINE r == log[o].row
    <3> DEFINE v == IF Mode = "append" /\ row[r] # 0 THEN row[r] ELSE o
    <3>1. r \in Rows => v \in 0..MaxLog
      BY <1>1, <2>1, ConsumerAssumption
    <3>2. RowAfter(o) = [row EXCEPT ![r] = v]
      BY DEF RowAfter
    <3> HIDE DEF r, v
    <3> QED
      BY <1>1, <3>1, <3>2
  <2>3. \A v \in Fates : Mark(fate, {o}, v) \in [Offsets -> Fates]
    BY <1>1, MarkType
  <2>4. {"written", "skipped", "aborted", "swallowed"} \subseteq Fates
    BY DEF Fates
  <2>5. mapping' = mapping /\ log' = log
    BY <1>6 DEF PersistStep, SkipUnmappable, SkipWrite, Write,
                WriteLosesAnswer, WriteAborted, SwallowOutage, Settle
  <2>6. row' \in {row, RowAfter(o)}
    BY <1>6 DEF PersistStep, SkipUnmappable, SkipWrite, Write,
                WriteLosesAnswer, WriteAborted, SwallowOutage
  <2>7. \E v \in Fates : fate' = Mark(fate, {o}, v)
    BY <1>6, <2>4 DEF PersistStep, SkipUnmappable, SkipWrite, Write,
                WriteLosesAnswer, WriteAborted, SwallowOutage, Settle
  <2> QED
    BY <1>1, <2>2, <2>3, <2>5, <2>6, <2>7
<1>7. CASE UNCHANGED <<mapping, log, row, fate>>
  BY <1>1, <1>7
<1> QED
  BY <1>2, <1>4, <1>5, <1>6, <1>7
  DEF Next, vars, PollMessage, PollErrorFrame, Commit, CommitFails, Crash,
      Escape, Leave, Restart, PgDown, PgUp

\* The committed offset is behind the position, the position in the log.
LEMMA PlaceTypeStep ==
    ASSUME TypeOK, [Next]_vars PROVE PlaceType'
<1>1. /\ log \in Seq(mapping.topic) /\ Len(log) \in Nat
      /\ Len(log) <= MaxLog /\ pos \in 0..Len(log) /\ committed \in 0..pos
  BY DEF TypeOK, DataType, PlaceType
<1>2. ASSUME NEW m \in mapping.topic, Produce(m) PROVE PlaceType'
  <2>1. Len(log') = Len(log) + 1 /\ Len(log) < MaxLog
    BY <1>1, <1>2 DEF Produce
  <2> QED
    BY <1>1, <1>2, <2>1, ConsumerAssumption DEF Produce, PlaceType
<1>3. CASE PollMessage \/ PollOver
  BY <1>1, <1>3 DEF PollMessage, PollOver, PlaceType
<1>4. CASE Commit
  BY <1>1, <1>4 DEF Commit, PlaceType
<1>5. CASE Restart
  BY <1>1, <1>5 DEF Restart, PlaceType
<1>6. CASE UNCHANGED <<log, pos, committed>>
  BY <1>1, <1>6 DEF PlaceType
<1>7. ASSUME NEW o \in pending, PersistStep(o)
      PROVE  UNCHANGED <<log, pos, committed>>
  BY <1>7 DEF PersistStep, SkipUnmappable, SkipWrite, Write,
              WriteLosesAnswer, WriteAborted, SwallowOutage, Settle
<1> QED
  BY <1>2, <1>3, <1>4, <1>5, <1>6, <1>7
  DEF Next, vars, PollErrorFrame, PollNothing, CommitFails, Crash,
      Escape, Leave, PgDown, PgUp

\* The batch holds offsets and what is pending is part of it.
LEMMA WorkerTypeStep ==
    ASSUME TypeOK, [Next]_vars PROVE WorkerType'
<1>1. /\ WorkerType /\ BatchMax \in Nat
      /\ pos \in Nat /\ Len(log) \in Nat /\ Len(log) <= MaxLog /\ MaxLog \in Nat
  BY ConsumerAssumption DEF TypeOK, DataType, PlaceType
<1>2. CASE PollMessage
  BY <1>1, <1>2 DEF PollMessage, WorkerType, Offsets
<1>3. CASE PollErrorFrame
  BY <1>1, <1>3 DEF PollErrorFrame, WorkerType
<1>4. ASSUME NEW f, EndDrain(f), UNCHANGED alive PROVE WorkerType'
  <2>1. Coalesce(batch) \subseteq batch
    BY DEF Coalesce
  <2> QED
    BY <1>1, <1>4, <2>1 DEF EndDrain, WorkerType
<1>5. CASE PollOver \/ PollNothing
  BY <1>4, <1>5 DEF PollOver, PollNothing
<1>6. ASSUME NEW o \in pending, PersistStep(o) PROVE WorkerType'
  <2>1. ASSUME NEW v, Settle(o, v) PROVE WorkerType'
    BY <1>1, <2>1 DEF Settle, WorkerType
  <2>2. ASSUME UNCHANGED <<alive, workerVars>> PROVE WorkerType'
    BY <1>1, <2>2 DEF WorkerType, workerVars
  <2> QED
    BY <1>6, <2>1, <2>2 DEF PersistStep, SkipUnmappable, SkipWrite, Write,
              WriteLosesAnswer, WriteAborted, SwallowOutage
<1>7. CASE Commit \/ CommitFails
  BY <1>1, <1>7 DEF Commit, CommitFails, WorkerType
<1>8. CASE Crash \/ \E o \in pending : Escape(o)
  <2>1. 0 \in 0..BatchMax
    BY <1>1
  <2> QED
    BY <1>8, <2>1, Zenon DEF Crash, Escape, Leave, WorkerType
<1>9. CASE Restart
  BY <1>1, <1>9 DEF Restart, WorkerType, workerVars
<1>10. ASSUME UNCHANGED alive, UNCHANGED workerVars PROVE WorkerType'
  BY <1>1, <1>10 DEF WorkerType, workerVars
<1>11. CASE UNCHANGED vars
  BY <1>10, <1>11 DEF vars, workerVars
<1>12. ASSUME NEW m \in mapping.topic, Produce(m) PROVE WorkerType'
  BY <1>10, <1>12 DEF Produce
<1>13. CASE PgDown \/ PgUp
  BY <1>10, <1>13 DEF PgDown, PgUp
<1> QED
  BY <1>2, <1>3, <1>5, <1>6, <1>7, <1>8, <1>9, <1>11, <1>12, <1>13 DEF Next

\* One more fault stays within a budget not yet spent.
LEMMA Spent ==
    ASSUME NEW n \in Nat, NEW k \in 0..n, k < n
    PROVE  k + 1 \in 0..n
OBVIOUS

\* The faults stay within their budgets.
LEMMA FaultTypeStep ==
    ASSUME TypeOK, [Next]_vars PROVE FaultType'
<1>1. FaultType /\ MaxOutages \in Nat /\ MaxCrashes \in Nat
  BY ConsumerAssumption DEF TypeOK
<1>2. ASSUME UNCHANGED <<pgUp, outages, crashes>> PROVE FaultType'
  BY <1>1, <1>2 DEF FaultType
<1>3. ASSUME NEW o \in pending, PersistStep(o) PROVE FaultType'
  <2>1. UNCHANGED crashes
    BY <1>3 DEF PersistStep, SkipUnmappable, SkipWrite, Write,
                WriteLosesAnswer, WriteAborted, SwallowOutage, Settle
  <2>2. \/ UNCHANGED <<pgUp, outages>>
        \/ pgUp' = FALSE /\ outages < MaxOutages /\ outages' = outages + 1
    BY <1>3 DEF PersistStep, SkipUnmappable, SkipWrite, Write,
                WriteLosesAnswer, WriteAborted, SwallowOutage
  <2>3. CASE UNCHANGED <<pgUp, outages>>
    BY <1>2, <2>1, <2>3
  <2>4. CASE pgUp' = FALSE /\ outages < MaxOutages /\ outages' = outages + 1
    BY <1>1, <2>1, <2>4, Spent, Zenon DEF FaultType
  <2> QED
    BY <2>2, <2>3, <2>4
<1>4. CASE PgDown
  BY <1>1, <1>4, Spent, Zenon DEF PgDown, FaultType
<1>5. CASE PgUp
  BY <1>1, <1>5 DEF PgUp, FaultType
<1>6. CASE Crash \/ \E o \in pending : Escape(o)
  BY <1>1, <1>6, Spent, Zenon DEF Crash, Escape, Leave, FaultType
<1> QED
  BY <1>2, <1>3, <1>4, <1>5, <1>6
  DEF Next, vars, Produce, PollMessage, PollErrorFrame, PollOver, PollNothing,
      Commit, CommitFails, Restart

\* Every reachable state is well typed, whatever producers, Kafka, Postgres
\* and the process do.
THEOREM TypeCorrect == Spec => []TypeOK
<1>1. Init => TypeOK
  <2> SUFFICES ASSUME Init PROVE TypeOK
    OBVIOUS
  <2>1. DataType
    BY ConsumerAssumption DEF Init, DataType, Fates
  <2>2. PlaceType
    BY ConsumerAssumption DEF Init, PlaceType
  <2>3. WorkerType
    BY ConsumerAssumption DEF Init, WorkerType
  <2>4. FaultType
    BY ConsumerAssumption DEF Init, FaultType
  <2> QED
    BY <2>1, <2>2, <2>3, <2>4 DEF TypeOK
<1>2. TypeOK /\ [Next]_vars => TypeOK'
  BY DataTypeStep, PlaceTypeStep, WorkerTypeStep, FaultTypeStep DEF TypeOK
<1> QED
  BY <1>1, <1>2, PTL DEF Spec

-----------------------------------------------------------------------------
(***************************************************************************)
(* The delivery guarantee.  CommittedSettled says nothing of the offsets   *)
(* between the committed one and the position, which is where the next     *)
(* commit will go; the inductive invariant says what they owe.             *)
(***************************************************************************)

\* The batch lies after the committed offset; nothing is pending outside the
\* persist loop; a dead process holds no batch.
BatchInv ==
    /\ batch \subseteq committed + 1 .. pos
    /\ pending \subseteq batch
    /\ phase # "persist" => pending = {}
    /\ ~alive => batch = {}

\* What was polled and is in no batch is settled without the batch's help:
\* earlier batches whose commit failed, and the discarded message.
PolledSettled ==
    alive => \A o \in (committed + 1 .. pos) \ batch :
               \/ fate[o] \in Final
               \/ /\ fate[o] = "superseded"
                  /\ \E p \in (o + 1 .. pos) \ batch :
                        SameKey(o, p) /\ fate[p] \in Final

\* Once coalesced, what left the batch's work list is settled, or waits for
\* a later message of its key that is still on it.
BatchSettled ==
    phase # "poll" =>
      \A o \in batch \ pending :
        \/ fate[o] \in Final
        \/ /\ fate[o] = "superseded"
           /\ \E p \in batch : /\ o < p
                              /\ SameKey(o, p)
                              /\ (p \in pending \/ fate[p] \in Final)

DeliveryInv == BatchInv /\ CommittedSettled /\ PolledSettled /\ BatchSettled

\* A nonempty set of numbers below a bound has a greatest element.
LEMMA Greatest ==
    ASSUME NEW n \in Nat, NEW S \in SUBSET (1..n), S # {}
    PROVE  \E m \in S : \A s \in S : s <= m
<1> DEFINE T == {n - x : x \in S}
<1>1. T \subseteq Nat /\ T # {}
  <2>1. \A x \in S : n - x \in Nat
    OBVIOUS
  <2>2. PICK x \in S : TRUE
    OBVIOUS
  <2>3. n - x \in T
    OBVIOUS
  <2> QED
    BY <2>1, <2>3
<1>2. PICK t \in T : \A u \in T : ~(<<u, t>> \in OpToRel(<, Nat))
  <2> HIDE DEF T
  <2> QED
    BY <1>1, NatLessThanWellFounded, WFMin
<1>3. \A u \in T : t <= u
  <2> HIDE DEF T
  <2>1. \A u \in T : ~(u < t)
    BY <1>1, <1>2, Zenon DEF OpToRel
  <2> QED
    BY <1>1, <2>1
<1>4. PICK m \in S : t = n - m
  OBVIOUS
<1>5. ASSUME NEW s \in S PROVE s <= m
  <2>1. n - s \in T
    OBVIOUS
  <2>2. t <= n - s
    BY <1>3, <2>1
  <2> QED
    BY <1>4, <2>2
<1> QED
  BY <1>5

\* What coalescing takes from a batch leaves a later message of its key there.
LEMMA CoalesceKeepsLast ==
    ASSUME batch \subseteq Offsets, NEW o \in batch \ Coalesce(batch)
    PROVE  \E p \in Coalesce(batch) : o < p /\ SameKey(o, p)
<1>1. Mode = "upsert" /\ Coalesce(batch) = {q \in batch : \A p \in batch : SameKey(q, p) => p <= q}
  BY DEF Coalesce
<1> DEFINE S == {p \in batch : SameKey(o, p)}
<1>2. o \in S /\ S \in SUBSET (1..MaxLog) /\ MaxLog \in Nat
  BY ConsumerAssumption DEF Offsets, SameKey
<1>3. PICK m \in S : \A s \in S : s <= m
  <2> HIDE DEF S
  <2> QED
    BY <1>2, Greatest
<1>4. m \in Coalesce(batch)
  BY <1>1, <1>3 DEF SameKey
<1>5. o <= m /\ o # m
  BY <1>2, <1>3, <1>4
<1> QED
  BY <1>2, <1>3, <1>4, <1>5

\* What one message going through _persist changes.
LEMMA PersistEffect ==
    ASSUME TypeOK, NEW o \in pending, PersistStep(o)
    PROVE  /\ UNCHANGED <<log, pos, committed, alive, batch>>
           /\ alive /\ phase = "persist"
           /\ fate'[o] \in Final
           /\ \A q \in Offsets \ {o} : fate'[q] = fate[q]
           /\ \/ UNCHANGED <<pending, phase>>
              \/ /\ pending' = pending \ {o}
                 /\ phase' \in {"persist", "commit"}
                 /\ phase' = "commit" => pending' = {}
<1>1. pending \subseteq Offsets
  BY DEF TypeOK, WorkerType
<1>2. \A v \in {"skipped", "written", "aborted", "swallowed"} :
        /\ v \in Final
        /\ Mark(fate, {o}, v)[o] = v
        /\ \A q \in Offsets \ {o} : Mark(fate, {o}, v)[q] = fate[q]
  BY <1>1 DEF Mark, Final, Fates
<1>3. /\ UNCHANGED <<log, pos, committed, alive, batch>>
      /\ alive /\ phase = "persist"
      /\ \E v \in {"skipped", "written", "aborted", "swallowed"} :
            fate' = Mark(fate, {o}, v)
  BY DEF PersistStep, SkipUnmappable, SkipWrite, Write, WriteLosesAnswer,
         WriteAborted, SwallowOutage, Settle, Turn, workerVars
<1>4. \/ UNCHANGED <<pending, phase>>
      \/ /\ pending' = pending \ {o}
         /\ phase' = IF pending' = {} THEN "commit" ELSE "persist"
  BY DEF PersistStep, SkipUnmappable, SkipWrite, Write, WriteLosesAnswer,
         WriteAborted, SwallowOutage, Settle, workerVars
<1> QED
  BY <1>2, <1>3, <1>4

\* What the end of a drain changes, d being the discarded offset if any.
LEMMA DrainEffect ==
    ASSUME TypeOK, BatchInv, PollOver \/ PollNothing
    PROVE  /\ UNCHANGED <<mapping, log, committed, batch, alive, row>>
           /\ alive /\ phase = "poll" /\ pending = {}
           /\ pos' = pos \/ (pos' = pos + 1 /\ pos + 1 \in Offsets)
           /\ pos' = pos + 1 => fate'[pos + 1] = "discarded"
           /\ pending' = IF batch = {} THEN {} ELSE Coalesce(batch)
           /\ phase' = IF batch = {} THEN "poll" ELSE "persist"
           /\ \A q \in batch \ pending' : fate'[q] = "superseded"
           /\ \A q \in Offsets :
                q \notin batch /\ (pos' = pos + 1 => q # pos + 1) => fate'[q] = fate[q]
           /\ \A q \in Offsets : q \in pending' => fate'[q] = fate[q]
<1>1. /\ batch \subseteq Offsets /\ pos \in Nat /\ Len(log) \in Nat
      /\ Len(log) <= MaxLog /\ MaxLog \in Nat
      /\ batch \subseteq committed + 1 .. pos /\ committed \in Nat
  BY ConsumerAssumption DEF TypeOK, DataType, WorkerType, PlaceType, BatchInv
<1>2. /\ alive /\ phase = "poll" /\ pending = {}
      /\ UNCHANGED <<mapping, log, committed, batch, alive, row>>
  BY DEF PollOver, PollNothing, Polling, EndDrain, BatchInv
<1>3. pos + 1 \notin batch
  BY <1>1
<1>4. Coalesce(batch) \subseteq batch
  BY DEF Coalesce
<1>5. /\ pending' = IF batch = {} THEN {} ELSE Coalesce(batch)
      /\ phase' = IF batch = {} THEN "poll" ELSE "persist"
  BY <1>2 DEF PollOver, PollNothing, EndDrain
<1>6. ASSUME NEW f, EndDrain(f), \A q \in Offsets : q # pos + 1 => f[q] = fate[q]
      PROVE  /\ \A q \in batch \ pending' : fate'[q] = "superseded"
             /\ \A q \in Offsets : q \notin batch => fate'[q] = f[q]
             /\ \A q \in Offsets : q \in pending' => fate'[q] = fate[q]
  <2>1. CASE batch = {}
    BY <1>5, <1>6, <2>1 DEF EndDrain
  <2>2. CASE batch # {}
    <3>1. fate' = Mark(f, batch \ pending', "superseded")
      BY <1>5, <1>6, <2>2 DEF EndDrain
    <3> QED
      BY <1>1, <1>3, <1>4, <1>5, <1>6, <2>2, <3>1 DEF Mark
  <2> QED
    BY <2>1, <2>2
<1>7. CASE PollOver
  <2> DEFINE f == Mark(fate, {pos + 1}, "discarded")
  <2>1. pos + 1 \in Offsets /\ pos' = pos + 1
    BY <1>1, <1>7 DEF PollOver, Offsets
  <2>2. f[pos + 1] = "discarded" /\ \A q \in Offsets : q # pos + 1 => f[q] = fate[q]
    BY <2>1 DEF Mark
  <2>3. EndDrain(f)
    BY <1>7 DEF PollOver
  <2> HIDE DEF f
  <2> QED
    BY <1>2, <1>3, <1>5, <1>6, <2>1, <2>2, <2>3
<1>8. CASE PollNothing
  <2>1. EndDrain(fate) /\ pos' = pos /\ pos' # pos + 1
    BY <1>1, <1>8 DEF PollNothing
  <2>2. /\ \A q \in batch \ pending' : fate'[q] = "superseded"
        /\ \A q \in Offsets : q \notin batch => fate'[q] = fate[q]
        /\ \A q \in Offsets : q \in pending' => fate'[q] = fate[q]
    BY <1>6, <2>1
  <2> QED
    BY <1>2, <1>5, <2>1, <2>2
<1> QED
  BY <1>7, <1>8

\* The numbers every step below reasons about.
LEMMA Places ==
    ASSUME TypeOK
    PROVE  /\ pos \in Nat /\ committed \in Nat /\ Len(log) \in Nat /\ MaxLog \in Nat
           /\ committed <= pos /\ pos <= Len(log) /\ Len(log) <= MaxLog
           /\ batch \subseteq Offsets /\ pending \subseteq Offsets
           /\ log \in Seq(mapping.topic)
BY ConsumerAssumption DEF TypeOK, DataType, PlaceType, WorkerType

\* A message keeps its place in the log.
LEMMA ProduceKeeps ==
    ASSUME TypeOK, NEW m \in mapping.topic, Produce(m)
    PROVE  /\ \A q \in 1..pos : log'[q] = log[q]
           /\ UNCHANGED <<pos, committed, alive, phase, batch, pending, fate>>
<1>1. \A q \in 1..Len(log) : Append(log, m)[q] = log[q]
  BY Places
<1> QED
  BY <1>1, Places DEF Produce, workerVars

\* The batch stays between the committed offset and the position.
LEMMA BatchInvStep ==
    ASSUME TypeOK, BatchInv, [Next]_vars PROVE BatchInv'
<1>1. /\ pos \in Nat /\ committed \in Nat /\ committed <= pos
      /\ batch \subseteq committed + 1 .. pos
  BY Places DEF BatchInv
<1>2. ASSUME UNCHANGED <<pos, committed, alive, phase, batch, pending>>
      PROVE  BatchInv'
  BY <1>2 DEF BatchInv
<1>3. ASSUME NEW m \in mapping.topic, Produce(m) PROVE BatchInv'
  BY <1>2, <1>3, ProduceKeeps
<1>4. CASE PollMessage
  BY <1>1, <1>4 DEF PollMessage, Polling, BatchInv
<1>5. CASE PollOver \/ PollNothing
  <2>1. Coalesce(batch) \subseteq batch
    BY DEF Coalesce
  <2>2. pending' \subseteq batch' /\ (phase' # "persist" => pending' = {})
    BY <1>5, <2>1, DrainEffect
  <2>3. batch' \subseteq committed' + 1 .. pos'
    <3>1. UNCHANGED <<batch, committed>> /\ pos' \in {pos, pos + 1}
      BY <1>5, DrainEffect
    <3> QED
      BY <1>1, <3>1
  <2> QED
    BY <1>5, <2>2, <2>3, DrainEffect DEF BatchInv
<1>6. ASSUME NEW o \in pending, PersistStep(o) PROVE BatchInv'
  BY <1>6, PersistEffect DEF BatchInv
<1>7. CASE Commit
  BY <1>1, <1>7 DEF Commit, BatchInv
<1>8. CASE CommitFails
  BY <1>1, <1>8 DEF CommitFails, BatchInv
<1>9. CASE Crash \/ \E o \in pending : Escape(o)
  BY <1>9 DEF Crash, Escape, Leave, BatchInv
<1>10. CASE Restart
  <2>1. batch = {} /\ UNCHANGED <<batch, pending, phase>>
    BY <1>10 DEF Restart, BatchInv, workerVars
  <2> QED
    BY <1>10, <2>1 DEF Restart, BatchInv
<1>11. CASE PollErrorFrame \/ PgDown \/ PgUp \/ UNCHANGED vars
  BY <1>2, <1>11 DEF PollErrorFrame, PgDown, PgUp, vars, workerVars
<1> QED
  BY <1>3, <1>4, <1>5, <1>6, <1>7, <1>8, <1>9, <1>10, <1>11 DEF Next

\* What the commit covers is settled.
LEMMA CommittedStep ==
    ASSUME TypeOK, DeliveryInv, [Next]_vars PROVE CommittedSettled'
<1>1. /\ pos \in Nat /\ committed \in Nat /\ committed <= pos /\ pos <= MaxLog
      /\ MaxLog \in Nat
      /\ batch \subseteq committed + 1 .. pos /\ pending \subseteq batch
      /\ CommittedSettled
  BY Places DEF DeliveryInv, BatchInv
<1>2. ASSUME committed' = committed,
             \A q \in 1..committed : fate'[q] = fate[q] /\ log'[q] = log[q]
      PROVE  CommittedSettled'
  BY <1>1, <1>2 DEF CommittedSettled, Settled, SameKey
<1>3. ASSUME NEW m \in mapping.topic, Produce(m) PROVE CommittedSettled'
  BY <1>1, <1>2, <1>3, ProduceKeeps
<1>4. CASE PollOver \/ PollNothing
  <2>1. \A q \in 1..committed : q \in Offsets /\ q \notin batch /\ q # pos + 1
    BY <1>1 DEF Offsets
  <2> QED
    BY <1>2, <1>4, <2>1, DrainEffect DEF DeliveryInv
<1>5. ASSUME NEW o \in pending, PersistStep(o) PROVE CommittedSettled'
  <2>1. \A q \in 1..committed : q \in Offsets \ {o}
    BY <1>1 DEF Offsets
  <2> QED
    BY <1>2, <1>5, <2>1, PersistEffect
<1>6. CASE Commit
  <2>1. pending = {} /\ committed' = pos /\ UNCHANGED <<log, fate>> /\ alive /\ phase = "commit"
    BY <1>6 DEF Commit, DeliveryInv, BatchInv
  <2>2. ASSUME NEW o \in 1..pos PROVE Settled(o, pos)
    <3>1. CASE o <= committed
      BY <1>1, <3>1 DEF CommittedSettled, Settled
    <3>2. CASE o \in batch
      BY <1>1, <2>1, <3>2 DEF DeliveryInv, BatchSettled, Settled
    <3>3. CASE ~(o <= committed) /\ o \notin batch
      BY <1>1, <2>1, <3>3 DEF DeliveryInv, PolledSettled, Settled
    <3> QED
      BY <3>1, <3>2, <3>3
  <2> QED
    BY <2>1, <2>2 DEF CommittedSettled, Settled, SameKey
<1>7. CASE UNCHANGED <<log, committed, fate>>
  BY <1>2, <1>7
<1> QED
  BY <1>3, <1>4, <1>5, <1>6, <1>7
  DEF Next, vars, PollMessage, PollErrorFrame, CommitFails, Crash, Escape,
      Leave, Restart, PgDown, PgUp

\* What lies between the committed offset and the position, outside the
\* batch, is settled without it.
LEMMA PolledStep ==
    ASSUME TypeOK, DeliveryInv, [Next]_vars PROVE PolledSettled'
<1>1. /\ pos \in Nat /\ committed \in Nat /\ committed <= pos /\ pos <= MaxLog
      /\ MaxLog \in Nat
      /\ batch \subseteq committed + 1 .. pos /\ pending \subseteq batch
      /\ PolledSettled
  BY Places DEF DeliveryInv, BatchInv
\* A step that keeps fates outside the batch, and lets nothing out of it.
<1>2. ASSUME alive' = alive, committed' = committed, pos' = pos, batch' = batch,
             \A q \in 1..pos : q \notin batch => fate'[q] = fate[q],
             \A q \in 1..pos : log'[q] = log[q]
      PROVE  PolledSettled'
  <2>1. SUFFICES ASSUME alive, NEW o \in (committed + 1 .. pos) \ batch
                 PROVE  \/ fate'[o] \in Final
                        \/ /\ fate'[o] = "superseded"
                           /\ \E p \in (o + 1 .. pos) \ batch :
                                SameKey(o, p)' /\ fate'[p] \in Final
    BY <1>2 DEF PolledSettled
  <2>2. fate'[o] = fate[o] /\ log'[o] = log[o]
    BY <1>1, <1>2
  <2>3. \A p \in (o + 1 .. pos) \ batch : fate'[p] = fate[p] /\ log'[p] = log[p]
    BY <1>1, <1>2
  <2> QED
    BY <1>1, <2>1, <2>2, <2>3 DEF PolledSettled, SameKey
<1>3. ASSUME NEW m \in mapping.topic, Produce(m) PROVE PolledSettled'
  BY <1>1, <1>2, <1>3, ProduceKeeps
<1>4. CASE PollMessage
  <2>1. /\ alive' = alive /\ committed' = committed /\ fate' = fate /\ log' = log
        /\ pos' = pos + 1 /\ batch' = batch \cup {pos + 1}
    BY <1>4 DEF PollMessage
  <2>2. (committed + 1 .. pos + 1) \ batch' = (committed + 1 .. pos) \ batch
    BY <1>1, <2>1
  <2>3. \A o \in committed + 1 .. pos :
          (o + 1 .. pos + 1) \ batch' = (o + 1 .. pos) \ batch
    BY <1>1, <2>1
  <2> QED
    BY <1>1, <2>1, <2>2, <2>3 DEF PolledSettled, SameKey
<1>5. CASE PollOver \/ PollNothing
  <2>1. /\ UNCHANGED <<log, committed, batch, alive>>
        /\ pos' \in {pos, pos + 1}
        /\ pos' = pos + 1 => fate'[pos + 1] \in Final
        /\ \A q \in Offsets : q \notin batch /\ q # pos + 1 => fate'[q] = fate[q]
    BY <1>5, DrainEffect DEF DeliveryInv, Final, Fates
  <2>2. SUFFICES ASSUME alive, NEW o \in (committed + 1 .. pos') \ batch
                 PROVE  \/ fate'[o] \in Final
                        \/ /\ fate'[o] = "superseded"
                           /\ \E p \in (o + 1 .. pos') \ batch :
                                SameKey(o, p) /\ fate'[p] \in Final
    BY <2>1 DEF PolledSettled, SameKey
  <2>3. CASE o = pos + 1
    <3>1. pos' = pos + 1
      BY <1>1, <2>1, <2>3
    <3> QED
      BY <2>1, <2>3, <3>1
  <2>4. CASE o # pos + 1
    <3>1. o \in (committed + 1 .. pos) \ batch
      BY <1>1, <2>1, <2>4
    <3>2. \A p \in (o .. pos) \ batch : fate'[p] = fate[p] /\ p \in o .. pos'
      BY <1>1, <2>1, <3>1 DEF Offsets
    <3>3. fate'[o] = fate[o]
      BY <1>1, <3>1, <3>2
    <3>4. \A p \in (o + 1 .. pos) \ batch : p \in (o + 1 .. pos') \ batch /\ fate'[p] = fate[p]
      BY <1>1, <2>1, <3>1, <3>2
    <3> QED
      BY <1>1, <2>2, <3>1, <3>3, <3>4 DEF PolledSettled
  <2> QED
    BY <2>3, <2>4
<1>6. ASSUME NEW o \in pending, PersistStep(o) PROVE PolledSettled'
  <2>1. \A q \in 1..pos : q \notin batch => q \in Offsets \ {o}
    BY <1>1 DEF Offsets
  <2> QED
    BY <1>2, <1>6, <2>1, PersistEffect
<1>7. CASE Commit
  BY <1>1, <1>7 DEF Commit, PolledSettled
<1>8. CASE CommitFails
  <2>1. /\ pending = {} /\ phase = "commit" /\ batch' = {} /\ alive
        /\ UNCHANGED <<log, fate, pos, committed, alive>>
    BY <1>8 DEF CommitFails, DeliveryInv, BatchInv
  <2>2. SUFFICES ASSUME NEW o \in committed + 1 .. pos
                 PROVE  \/ fate[o] \in Final
                        \/ /\ fate[o] = "superseded"
                           /\ \E p \in o + 1 .. pos :
                                SameKey(o, p) /\ fate[p] \in Final
    BY <2>1 DEF PolledSettled, SameKey
  <2>3. CASE o \in batch
    BY <1>1, <2>1, <2>3 DEF DeliveryInv, BatchSettled
  <2>4. CASE o \notin batch
    BY <1>1, <2>1, <2>4 DEF PolledSettled
  <2> QED
    BY <2>3, <2>4
<1>9. CASE Crash \/ \E o \in pending : Escape(o)
  BY <1>9 DEF Crash, Escape, Leave, PolledSettled
<1>10. CASE Restart
  <2>1. pos' = committed /\ committed' = committed
    BY <1>10 DEF Restart
  <2> QED
    BY <1>1, <2>1 DEF PolledSettled
<1>11. CASE UNCHANGED <<log, pos, committed, alive, batch, fate>>
  BY <1>2, <1>11
<1> QED
  BY <1>3, <1>4, <1>5, <1>6, <1>7, <1>8, <1>9, <1>10, <1>11
  DEF Next, vars, PollErrorFrame, PgDown, PgUp, workerVars

\* What coalescing or _persist took from the batch's work list is settled, or
\* waits for a later message of its key.
LEMMA BatchSettledStep ==
    ASSUME TypeOK, DeliveryInv, [Next]_vars PROVE BatchSettled'
<1>1. /\ pos \in Nat /\ committed \in Nat /\ committed <= pos /\ pos <= MaxLog
      /\ MaxLog \in Nat
      /\ batch \subseteq committed + 1 .. pos /\ pending \subseteq batch
      /\ batch \subseteq Offsets
      /\ BatchSettled
  BY Places DEF DeliveryInv, BatchInv
<1>2. ASSUME phase' = phase, batch' = batch, pending' = pending, fate' = fate,
             \A q \in 1..pos : log'[q] = log[q]
      PROVE  BatchSettled'
  <2>1. \A q \in batch : log'[q] = log[q]
    BY <1>1, <1>2
  <2> QED
    BY <1>1, <1>2, <2>1 DEF BatchSettled, SameKey
<1>3. ASSUME NEW m \in mapping.topic, Produce(m) PROVE BatchSettled'
  BY <1>2, <1>3, ProduceKeeps
<1>4. CASE PollOver \/ PollNothing
  <2>1. /\ UNCHANGED <<log, batch>>
        /\ pending' = IF batch = {} THEN {} ELSE Coalesce(batch)
        /\ \A q \in batch \ pending' : fate'[q] = "superseded"
    BY <1>4, DrainEffect DEF DeliveryInv
  <2>2. ASSUME NEW o \in batch \ pending'
        PROVE  \E p \in pending' : o < p /\ SameKey(o, p)
    BY <1>1, <2>1, <2>2, CoalesceKeepsLast
  <2>3. pending' \subseteq batch
    BY <2>1 DEF Coalesce
  <2> QED
    BY <2>1, <2>2, <2>3 DEF BatchSettled, SameKey
<1>5. ASSUME NEW o \in pending, PersistStep(o) PROVE BatchSettled'
  <2>1. /\ UNCHANGED <<log, batch>> /\ phase = "persist"
        /\ fate'[o] \in Final
        /\ \A q \in batch \ {o} : fate'[q] = fate[q]
        /\ pending' = pending \/ pending' = pending \ {o}
    BY <1>1, <1>5, PersistEffect
  <2>2. SUFFICES ASSUME NEW q \in batch \ pending'
                 PROVE  \/ fate'[q] \in Final
                        \/ /\ fate'[q] = "superseded"
                           /\ \E p \in batch : /\ q < p
                                              /\ SameKey(q, p)
                                              /\ (p \in pending' \/ fate'[p] \in Final)
    BY <2>1 DEF BatchSettled, SameKey
  <2>3. CASE q = o
    BY <2>1, <2>3
  <2>4. CASE q # o
    <3>1. q \in batch \ pending /\ fate'[q] = fate[q]
      BY <2>1, <2>2, <2>4
    <3>2. \A p \in batch : p \in pending \/ fate[p] \in Final
                         => p \in pending' \/ fate'[p] \in Final
      BY <2>1
    <3> QED
      BY <1>1, <2>1, <3>1, <3>2 DEF BatchSettled
  <2> QED
    BY <2>3, <2>4
<1>6. CASE phase' = "poll" \/ batch' = {}
  BY <1>6 DEF BatchSettled
<1>7. CASE UNCHANGED <<log, phase, batch, pending, fate>>
  BY <1>2, <1>7
<1>8. CASE PollMessage
  BY <1>6, <1>8 DEF PollMessage, Polling
<1> QED
  BY <1>3, <1>4, <1>5, <1>6, <1>7, <1>8
  DEF Next, vars, PollErrorFrame, Commit, CommitFails, Crash, Escape,
      Leave, Restart, PgDown, PgUp, workerVars

\* DeliveryInv holds in every reachable state.
THEOREM DeliveryInvariant == Spec => []DeliveryInv
<1>1. Init => DeliveryInv
  BY DEF Init, DeliveryInv, BatchInv, CommittedSettled, PolledSettled,
         BatchSettled
<1>2. TypeOK /\ DeliveryInv /\ [Next]_vars => DeliveryInv'
  BY BatchInvStep, CommittedStep, PolledStep, BatchSettledStep DEF DeliveryInv
<1> QED
  BY <1>1, <1>2, TypeCorrect, PTL DEF Spec

\* Offsets advance only after the batch is durable: every committed offset
\* was persisted or skipped, or ended in one of the named losses, itself or
\* through a later committed message of its key.
THEOREM CommittedIsSettled == Spec => []CommittedSettled
<1>1. DeliveryInv => CommittedSettled
  BY DEF DeliveryInv
<1> QED
  BY <1>1, DeliveryInvariant, PTL

-----------------------------------------------------------------------------
(* Consumer implements AtLeastOnce: the promise of a closed committed       *)
(* prefix, kept by a worker that polls ahead, coalesces, retries, fails to  *)
(* commit, dies and starts over.                                            *)

\* The messages a commit will cover that are no longer on the work list.
Done == 1..committed \cup IF alive THEN (committed + 1 .. pos) \ batch ELSE {}
Worked == IF phase # "poll" THEN batch \ pending ELSE {}

\* What is behind the batch came before it, or was thrown away.
PolledInOrder ==
    alive => \A q \in (committed + 1 .. pos) \ batch, p \in batch :
                q < p \/ fate[q] = "discarded"

\* The work list shrinks in the topic's order, or holds the last of each key.
WorkedInOrder ==
    phase # "poll" =>
        IF Mode = "upsert"
        THEN pending \subseteq Coalesce(batch)
        ELSE \A q \in batch \ pending, p \in pending : q < p

RowInv ==
    /\ PolledInOrder
    /\ WorkedInOrder
    /\ \A o \in Done \cup Worked : Table!Shown(o)

-----------------------------------------------------------------------------
\* What one message going through _persist writes.
LEMMA PersistWrites ==
    ASSUME TypeOK, NEW o \in pending, PersistStep(o)
    PROVE  /\ UNCHANGED <<mapping, log, committed>>
           /\ \/ row' = row /\ \E v \in Table!Unwritten : fate' = [fate EXCEPT ![o] = v]
              \/ /\ log[o].kind \in {"write", "update"}
                 /\ row' = RowAfter(o)
                 /\ fate' = [fate EXCEPT ![o] = "written"]
<1>1. pending \subseteq Offsets /\ fate \in [Offsets -> Fates]
  BY DEF TypeOK, WorkerType, DataType
<1>2. \A v : Mark(fate, {o}, v) = [fate EXCEPT ![o] = v]
  BY <1>1 DEF Mark
<1>3. /\ UNCHANGED <<mapping, log, committed>>
      /\ \/ row' = row /\ \E v \in Table!Unwritten : fate' = Mark(fate, {o}, v)
         \/ /\ Writable(o)
            /\ row' = RowAfter(o)
            /\ fate' = Mark(fate, {o}, "written")
  BY DEF PersistStep, SkipUnmappable, SkipWrite, Write, WriteLosesAnswer,
         WriteAborted, SwallowOutage, Settle, Table!Unwritten
<1> QED
  BY <1>2, <1>3 DEF Writable

\* The types of what a row is read by.
LEMMA RowTypes ==
    ASSUME TypeOK
    PROVE  /\ row \in [Rows -> Nat]
           /\ fate \in [Offsets -> Fates]
           /\ \A o \in 1..Len(log) : log[o] \in mapping.topic /\ log[o].row \in Rows
           /\ \A m \in mapping.topic : m \in MessageType
<1>1. mapping \in MappingType /\ log \in Seq(mapping.topic)
      /\ fate \in [Offsets -> Fates] /\ row \in [Rows -> 0..MaxLog] /\ MaxLog \in Nat
  BY ConsumerAssumption DEF TypeOK, DataType
<1>2. mapping.topic \subseteq MessageType
  BY <1>1 DEF MappingType
<1>3. \A m \in MessageType : m.row \in Rows
  BY DEF MessageType
<1> QED
  BY <1>1, <1>2, <1>3

\* A written message does not cover an earlier one, of what a commit will cover.
LEMMA RowAfterShows ==
    ASSUME TypeOK, BatchInv, RowInv, NEW o \in pending, alive, phase = "persist",
           Turn(o), row' = RowAfter(o), fate' = [fate EXCEPT ![o] = "written"],
           UNCHANGED <<mapping, log, committed>>,
           NEW q \in Done \cup Worked \cup {o}
    PROVE  Table!Shown(q)'
<1>1. /\ committed \in Nat /\ pos \in Nat /\ pos <= Len(log) /\ Len(log) <= MaxLog
      /\ committed <= pos /\ MaxLog \in Nat /\ Len(log) \in Nat
      /\ batch \subseteq committed + 1 .. pos /\ pending \subseteq batch
  BY Places DEF BatchInv
<1>2. /\ o \in batch /\ q \in 1..pos /\ o \in Nat \ {0} /\ q \in Nat
      /\ q \in Offsets /\ o \in Offsets
  BY <1>1 DEF Done, Worked, Offsets
<1>3. /\ row \in [Rows -> Nat] /\ fate \in [Offsets -> Fates]
      /\ log[q].row \in Rows /\ log[o].row \in Rows
      /\ log[q] \in mapping.topic /\ log[o] \in mapping.topic
  BY <1>1, <1>2, RowTypes
<1>4. row'[log[q].row] = IF log[q].row = log[o].row
                         THEN IF Mode = "append" /\ row[log[o].row] # 0
                              THEN row[log[o].row] ELSE o
                         ELSE row[log[q].row]
  BY <1>3 DEF RowAfter
<1>5. q # o => q \in Done \cup Worked /\ fate'[q] = fate[q]
  BY <1>2, <1>3
<1>6. CASE log[q].row # log[o].row
  <2>1. Table!Shown(q) /\ fate'[q] = fate[q]
    BY <1>5, <1>6 DEF RowInv
  <2> QED
    BY <1>4, <1>6, <2>1 DEF Table!Shown, Table!Ordered
<1>7. CASE log[q].row = log[o].row /\ Mode = "append"
  BY <1>2, <1>3, <1>4, <1>7 DEF Table!Shown, Mode
<1>8. CASE log[q].row = log[o].row /\ Mode # "append"
  <2>1. row'[log[q].row] = o
    BY <1>4, <1>8
  <2>2. SUFFICES ASSUME q # o, fate[q] = "written", Table!Ordered PROVE q <= o
    BY <1>2, <1>5, <2>1 DEF Table!Shown, Table!Ordered
  <2>3. CASE q <= committed
    BY <1>1, <1>2, <2>3
  <2>4. CASE q \in (committed + 1 .. pos) \ batch
    BY <1>2, <2>2, <2>4 DEF RowInv, PolledInOrder
  <2>5. CASE q \in batch \ pending
    <3>1. CASE Mode = "upsert"
      <4>1. o \in Coalesce(batch)
        BY <3>1 DEF RowInv, WorkedInOrder
      <4>2. SameKey(o, q)
        BY <1>3, <1>8, <2>2, <3>1 DEF Table!Ordered, SameKey, Mode
      <4> QED
        BY <2>5, <3>1, <4>1, <4>2 DEF Coalesce
    <3>2. CASE Mode # "upsert"
      BY <1>2, <2>5, <3>2 DEF RowInv, WorkedInOrder
    <3> QED
      BY <3>1, <3>2
  <2> QED
    BY <1>1, <1>2, <1>5, <2>2, <2>3, <2>4, <2>5 DEF Done, Worked
<1> QED
  BY <1>6, <1>7, <1>8

\* What is behind the batch stays in order.
LEMMA PolledInOrderStep ==
    ASSUME TypeOK, DeliveryInv, PolledInOrder, [Next]_vars PROVE PolledInOrder'
<1>1. /\ pos \in Nat /\ committed \in Nat /\ committed <= pos /\ pos <= MaxLog
      /\ MaxLog \in Nat /\ batch \subseteq committed + 1 .. pos
      /\ pending \subseteq batch
  BY Places DEF DeliveryInv, BatchInv
<1>2. ASSUME UNCHANGED <<alive, committed, pos, batch>>,
             \A q \in 1..pos : q \notin batch => fate'[q] = fate[q]
      PROVE  PolledInOrder'
  BY <1>1, <1>2 DEF PolledInOrder
<1>3. ASSUME NEW m \in mapping.topic, Produce(m) PROVE PolledInOrder'
  BY <1>2, <1>3, ProduceKeeps
<1>4. CASE PollMessage
  <2>1. /\ UNCHANGED <<alive, committed, fate>>
        /\ pos' = pos + 1 /\ batch' = batch \cup {pos + 1}
    BY <1>4 DEF PollMessage
  <2> QED
    BY <1>1, <2>1 DEF PolledInOrder
<1>5. CASE PollOver \/ PollNothing
  <2>1. /\ UNCHANGED <<committed, batch, alive>> /\ pos' \in {pos, pos + 1}
        /\ pos' = pos + 1 => fate'[pos + 1] = "discarded"
        /\ \A q \in Offsets : q \notin batch /\ q # pos + 1 => fate'[q] = fate[q]
    BY <1>5, DrainEffect DEF DeliveryInv
  <2>2. SUFFICES ASSUME alive, NEW q \in (committed + 1 .. pos') \ batch,
                        NEW p \in batch
                 PROVE  q < p \/ fate'[q] = "discarded"
    BY <2>1 DEF PolledInOrder
  <2>3. CASE q = pos + 1
    BY <1>1, <2>1, <2>3
  <2>4. CASE q # pos + 1
    <3>1. q \in (committed + 1 .. pos) \ batch /\ q \in Offsets
      BY <1>1, <2>1, <2>4 DEF Offsets
    <3> QED
      BY <2>1, <2>2, <2>4, <3>1 DEF PolledInOrder
  <2> QED
    BY <2>3, <2>4
<1>6. ASSUME NEW o \in pending, PersistStep(o) PROVE PolledInOrder'
  <2>1. \A q \in 1..pos : q \notin batch => q \in Offsets \ {o}
    BY <1>1 DEF Offsets
  <2> QED
    BY <1>2, <1>6, <2>1, PersistEffect
<1>7. CASE batch' = {}
  BY <1>7 DEF PolledInOrder
<1>8. CASE Restart
  <2>1. batch' = {}
    BY <1>8 DEF Restart, workerVars, DeliveryInv, BatchInv
  <2> QED
    BY <1>7, <2>1
<1>9. CASE UNCHANGED <<alive, committed, pos, batch, fate>>
  BY <1>2, <1>9
<1> QED
  BY <1>3, <1>4, <1>5, <1>6, <1>7, <1>8, <1>9
  DEF Next, vars, PollErrorFrame, Commit, CommitFails, Crash, Escape,
      Leave, PgDown, PgUp, workerVars

\* The work list shrinks in order.
LEMMA WorkedInOrderStep ==
    ASSUME TypeOK, DeliveryInv, WorkedInOrder, [Next]_vars PROVE WorkedInOrder'
<1>1. batch \subseteq Offsets /\ pending \subseteq batch
  BY Places DEF DeliveryInv, BatchInv
<1>2. ASSUME UNCHANGED <<mapping, phase, batch, pending>>,
             \A q \in batch : log'[q] = log[q]
      PROVE  WorkedInOrder'
  BY <1>1, <1>2 DEF WorkedInOrder, Coalesce, SameKey, Mode
<1>3. ASSUME NEW m \in mapping.topic, Produce(m) PROVE WorkedInOrder'
  <2>1. batch \subseteq 1..pos /\ mapping' = mapping
    BY <1>3, Places DEF Produce, DeliveryInv, BatchInv
  <2> QED
    BY <1>2, <1>3, <2>1, ProduceKeeps
<1>4. CASE PollOver \/ PollNothing
  <2>1. /\ UNCHANGED <<mapping, log, batch>>
        /\ pending' = IF batch = {} THEN {} ELSE Coalesce(batch)
    BY <1>4, DrainEffect DEF DeliveryInv
  <2>2. Coalesce(batch)' = Coalesce(batch)
    BY <2>1 DEF Coalesce, SameKey, Mode
  <2>3. Mode # "upsert" => batch \ pending' = {}
    BY <2>1 DEF Coalesce
  <2> QED
    BY <2>1, <2>2, <2>3 DEF WorkedInOrder, Mode
<1>5. ASSUME NEW o \in pending, PersistStep(o) PROVE WorkedInOrder'
  <2>1. /\ UNCHANGED <<mapping, log, batch>> /\ phase = "persist"
        /\ pending' = pending \/ pending' = pending \ {o}
    BY <1>5, PersistEffect, PersistWrites
  <2>2. \A p \in pending \ {o} : Precedes(o, p)
    BY <1>5 DEF PersistStep, SkipUnmappable, SkipWrite, Write, WriteLosesAnswer,
                WriteAborted, SwallowOutage, Turn
  <2>3. Coalesce(batch)' = Coalesce(batch) /\ Mode' = Mode
    BY <2>1 DEF Coalesce, SameKey, Mode
  <2>4. CASE Mode = "upsert"
    BY <2>1, <2>3, <2>4 DEF WorkedInOrder
  <2>5. CASE Mode # "upsert"
    <3>1. \A p \in pending \ {o} : o < p
      BY <2>2, <2>5 DEF Precedes
    <3> QED
      BY <2>1, <2>3, <2>5, <3>1 DEF WorkedInOrder
  <2> QED
    BY <2>4, <2>5
<1>6. CASE phase' = "poll" \/ (batch' = {} /\ pending' = {})
  BY <1>6 DEF WorkedInOrder
<1>7. CASE UNCHANGED <<mapping, log, phase, batch, pending>>
  BY <1>2, <1>7
<1> QED
  BY <1>3, <1>4, <1>5, <1>6, <1>7
  DEF Next, vars, PollMessage, Polling, PollErrorFrame, Commit, CommitFails,
      Crash, Escape, Leave, Restart, PgDown, PgUp, workerVars

\* What a commit will cover is shown.
LEMMA ShownStep ==
    ASSUME TypeOK, DeliveryInv, RowInv, [Next]_vars,
           NEW q \in (Done \cup Worked)'
    PROVE  Table!Shown(q)'
<1>1. /\ pos \in Nat /\ committed \in Nat /\ committed <= pos /\ pos <= MaxLog
      /\ MaxLog \in Nat /\ Len(log) \in Nat /\ pos <= Len(log)
      /\ batch \subseteq committed + 1 .. pos /\ pending \subseteq batch
      /\ phase # "persist" => pending = {}
      /\ BatchInv
  BY Places DEF DeliveryInv, BatchInv
<1>2. ASSUME q \in Done \cup Worked, UNCHANGED <<mapping, row>>,
             fate'[q] = fate[q], log'[q] = log[q]
      PROVE  Table!Shown(q)'
  BY <1>2 DEF RowInv, Table!Shown, Table!Ordered
<1>3. ASSUME fate'[q] # "written" PROVE Table!Shown(q)'
  BY <1>3 DEF Table!Shown
<1>4. ASSUME NEW m \in mapping.topic, Produce(m) PROVE Table!Shown(q)'
  <2>1. UNCHANGED <<mapping, row, pos, committed, alive, phase, batch, pending, fate>>
    BY <1>4, ProduceKeeps DEF Produce
  <2>2. q \in Done \cup Worked /\ q \in 1..pos
    BY <1>1, <2>1 DEF Done, Worked
  <2> QED
    BY <1>2, <1>4, <2>1, <2>2, ProduceKeeps
<1>5. CASE PollMessage
  <2>1. /\ UNCHANGED <<mapping, log, row, fate, committed, alive, phase>>
        /\ phase = "poll" /\ pos' = pos + 1 /\ batch' = batch \cup {pos + 1}
    BY <1>5 DEF PollMessage, Polling
  <2>2. q \in Done \cup Worked
    BY <1>1, <2>1 DEF Done, Worked
  <2> QED
    BY <1>2, <2>1, <2>2
<1>6. CASE PollOver \/ PollNothing
  <2>1. /\ UNCHANGED <<mapping, log, committed, batch, alive, row>>
        /\ alive /\ phase = "poll" /\ pos' \in {pos, pos + 1}
        /\ pos' = pos + 1 => fate'[pos + 1] = "discarded"
        /\ phase' # "poll" => \A p \in batch \ pending' : fate'[p] = "superseded"
        /\ \A p \in Offsets : p \notin batch /\ p # pos + 1 => fate'[p] = fate[p]
    BY <1>6, DrainEffect DEF DeliveryInv
  <2>2. CASE q \in Worked'
    BY <1>3, <2>1, <2>2 DEF Worked
  <2>3. CASE q \in Done'
    <3>1. CASE q = pos + 1
      BY <1>1, <1>3, <2>1, <2>3, <3>1 DEF Done
    <3>2. CASE q # pos + 1
      <4>1. q \in Done /\ q \in Offsets /\ q \notin batch
        BY <1>1, <2>1, <2>3, <3>2 DEF Done, Offsets
      <4> QED
        BY <1>2, <2>1, <3>2, <4>1
    <3> QED
      BY <3>1, <3>2
  <2> QED
    BY <2>2, <2>3
<1>7. ASSUME NEW o \in pending, PersistStep(o) PROVE Table!Shown(q)'
  <2>1. /\ UNCHANGED <<mapping, log, pos, committed, alive, batch>>
        /\ alive /\ phase = "persist" /\ Turn(o)
        /\ pending' = pending \/ pending' = pending \ {o}
    BY <1>7, PersistEffect, PersistWrites
    DEF PersistStep, SkipUnmappable, SkipWrite, Write, WriteLosesAnswer,
        WriteAborted, SwallowOutage
  <2>2. q \in Done \cup Worked \cup {o} /\ q \in Offsets /\ o \in Offsets
    BY <1>1, <2>1 DEF Done, Worked, Offsets
  <2>3. CASE row' = RowAfter(o) /\ fate' = [fate EXCEPT ![o] = "written"]
    BY <1>1, <2>1, <2>2, <2>3, RowAfterShows
  <2>4. CASE row' = row /\ \E v \in Table!Unwritten : fate' = [fate EXCEPT ![o] = v]
    <3>1. fate \in [Offsets -> Fates]
      BY DEF TypeOK, DataType
    <3>2. CASE q = o
      BY <1>3, <2>2, <2>4, <3>1, <3>2 DEF Table!Unwritten
    <3>3. CASE q # o
      BY <1>2, <2>1, <2>2, <2>4, <3>1, <3>3
    <3> QED
      BY <3>2, <3>3
  <2> QED
    BY <1>7, <2>3, <2>4, PersistWrites
<1>8. CASE Commit \/ CommitFails
  <2>1. /\ UNCHANGED <<mapping, log, row, fate, pos, alive>>
        /\ alive /\ phase = "commit" /\ phase' = "poll" /\ batch' = {}
        /\ committed' \in {pos, committed} /\ pending = {}
    BY <1>1, <1>8 DEF Commit, CommitFails
  <2>2. q \in 1..committed' \/ q \in committed' + 1 .. pos
    BY <2>1 DEF Done, Worked
  <2>3. q \in 1..pos
    BY <1>1, <2>1, <2>2
  <2>4. \A p \in 1..pos : p \in Done \cup Worked
    BY <1>1, <2>1 DEF Done, Worked
  <2> QED
    BY <1>2, <2>1, <2>3, <2>4
<1>9. CASE Crash \/ \E o \in pending : Escape(o)
  <2>1. q \in Done /\ UNCHANGED <<mapping, log, row, fate>>
    BY <1>9 DEF Crash, Escape, Leave, Done, Worked
  <2> QED
    BY <1>2, <2>1
<1>10. CASE Restart
  <2>1. UNCHANGED <<mapping, log, row, fate, committed, phase, batch, pending>>
    BY <1>10 DEF Restart, workerVars
  <2>2. pos' = committed /\ Worked' = Worked
    BY <1>10, <2>1 DEF Restart, Worked
  <2>3. Done' \subseteq Done
    BY <1>1, <2>1, <2>2 DEF Done
  <2> QED
    BY <1>2, <2>1, <2>2, <2>3
<1>11. CASE UNCHANGED <<mapping, log, row, fate, pos, committed, alive, phase, batch, pending>>
  <2>1. q \in Done \cup Worked
    BY <1>11 DEF Done, Worked
  <2> QED
    BY <1>2, <1>11, <2>1
<1> QED
  BY <1>4, <1>5, <1>6, <1>7, <1>8, <1>9, <1>10, <1>11
  DEF Next, vars, PollErrorFrame, PgDown, PgUp, workerVars

\* RowInv holds in every reachable state.
THEOREM RowInvariant == Spec => []RowInv
<1>1. Init => RowInv
  BY DEF Init, RowInv, PolledInOrder, WorkedInOrder, Done, Worked
<1>2. TypeOK /\ DeliveryInv /\ RowInv /\ [Next]_vars => RowInv'
  <2>1. SUFFICES ASSUME TypeOK, DeliveryInv, RowInv, [Next]_vars PROVE RowInv'
    OBVIOUS
  <2>2. PolledInOrder' /\ WorkedInOrder'
    BY <2>1, PolledInOrderStep, WorkedInOrderStep DEF RowInv
  <2>3. \A q \in (Done \cup Worked)' : Table!Shown(q)'
    BY <2>1, ShownStep
  <2> QED
    BY <2>2, <2>3 DEF RowInv
<1> QED
  BY <1>1, <1>2, TypeCorrect, DeliveryInvariant, PTL DEF Spec

-----------------------------------------------------------------------------
(* Every step of the worker is one of the promise's, or none.               *)

\* Fates the two modules spell differently.
LEMMA SameFates == Final = Table!Final
BY DEF Final, Fates, Table!Final, Table!Unwritten

\* The worker's commit is a step of the offset over the settled and shown.
LEMMA CommitImplements ==
    ASSUME TypeOK, DeliveryInv, RowInv, CommittedSettled', Commit
    PROVE  [Table!Next]_(Table!vars)
<1>1. /\ UNCHANGED <<mapping, log, row, fate>> /\ committed' = pos
      /\ alive /\ phase = "commit"
  BY DEF Commit
<1>2. /\ pos \in Nat /\ committed \in Nat /\ committed <= pos /\ pos <= Len(log)
      /\ Len(log) \in Nat /\ pending = {} /\ batch \subseteq committed + 1 .. pos
  BY <1>1, Places DEF DeliveryInv, BatchInv
<1>3. \A o \in 1..pos : Table!Settled(o, pos)
  BY <1>1, SameFates DEF CommittedSettled, Settled, SameKey, Table!Settled, Table!SameKey
<1>4. \A o \in 1..pos : Table!Shown(o)
  BY <1>1, <1>2 DEF RowInv, Done, Worked
<1>5. CASE pos = committed
  BY <1>1, <1>5 DEF Table!vars
<1>6. CASE pos # committed
  <2>1. pos \in Table!Ahead
    BY <1>2, <1>6 DEF Table!Ahead
  <2> QED
    BY <1>1, <1>3, <1>4, <2>1 DEF Table!Next, Table!Commit
<1> QED
  BY <1>5, <1>6

\* Every step of the worker is a step of the promise, or leaves it alone.
LEMMA StepImplements ==
    ASSUME TypeOK, DeliveryInv, RowInv, [Next]_vars, CommittedSettled'
    PROVE  [Table!Next]_(Table!vars)
<1>1. /\ pos \in Nat /\ committed \in Nat /\ committed <= pos /\ pos <= Len(log)
      /\ Len(log) <= MaxLog /\ MaxLog \in Nat /\ Len(log) \in Nat
      /\ batch \subseteq committed + 1 .. pos /\ pending \subseteq batch
      /\ BatchInv
  BY Places DEF DeliveryInv, BatchInv
<1>2. ASSUME NEW m \in mapping.topic, Produce(m) PROVE Table!Next
  BY <1>2 DEF Produce, Table!Next, Table!Produce
<1>3. CASE PollOver \/ PollNothing
  <2>1. /\ UNCHANGED <<mapping, log, committed, batch, row>>
        /\ pos' \in {pos, pos + 1} /\ pos' <= Len(log)
        /\ pos' = pos + 1 => fate'[pos + 1] = "discarded"
        /\ \A q \in batch \ pending' : fate'[q] = "superseded"
        /\ \A q \in Offsets :
             q \notin batch /\ (pos' = pos + 1 => q # pos + 1) => fate'[q] = fate[q]
        /\ \A q \in Offsets : q \in pending' => fate'[q] = fate[q]
    BY <1>1, <1>3, DrainEffect DEF PollOver, PollNothing
  <2>2. ASSUME NEW q \in Offsets, fate'[q] # fate[q]
        PROVE  q \in Table!Ahead /\ fate'[q] \in Table!PassedOver
    <3>1. q \in batch \ pending' \/ (pos' = pos + 1 /\ q = pos + 1)
      BY <2>1, <2>2
    <3>2. q \in committed + 1 .. Len(log)
      <4>1. CASE q \in batch
        BY <1>1, <4>1
      <4>2. CASE q = pos + 1 /\ pos' = pos + 1
        BY <1>1, <2>1, <4>2
      <4> QED
        BY <3>1, <4>1, <4>2
    <3>3. fate'[q] = "superseded" \/ fate'[q] = "discarded"
      BY <2>1, <3>1
    <3> QED
      BY <3>2, <3>3 DEF Table!Ahead, Table!PassedOver
  <2> QED
    BY <2>1, <2>2 DEF Table!Next, Table!PassOver, Table!Offsets, Offsets
<1>4. ASSUME NEW o \in pending, PersistStep(o) PROVE Table!Next
  <2>1. o \in Table!Ahead
    BY <1>1 DEF Table!Ahead
  <2>2. Table!Miss(o) \/ Table!Apply(o)
    BY <1>4, PersistWrites DEF Table!Miss, Table!Apply, RowAfter, Mode
  <2> QED
    BY <2>1, <2>2 DEF Table!Next
<1>5. CASE Commit
  BY <1>5, CommitImplements
<1>6. CASE UNCHANGED <<mapping, log, committed, row, fate>>
  BY <1>6 DEF Table!vars
<1> QED
  BY <1>2, <1>3, <1>4, <1>5, <1>6
  DEF Next, vars, PollMessage, PollErrorFrame, CommitFails, Crash, Escape,
      Leave, Restart, PgDown, PgUp

\* The worker keeps what AtLeastOnce promises.
THEOREM Implementation == Spec => ImplementsAtLeastOnce
<1>1. Init => Table!Init
  BY DEF Init, Table!Init, Offsets, Table!Offsets
<1>2. TypeOK /\ DeliveryInv /\ RowInv /\ CommittedSettled' /\ [Next]_vars
        => [Table!Next]_(Table!vars)
  BY StepImplements
<1> QED
  BY <1>1, <1>2, TypeCorrect, DeliveryInvariant, RowInvariant, CommittedIsSettled,
     PTL DEF Spec, Table!Spec, ImplementsAtLeastOnce
-----------------------------------------------------------------------------
(* Append tables.                                                           *)

\* A row of an append table stands for ever: no replay, lost answer, second
\* message of its id or restart writes it again (build_sql: DO NOTHING).
THEOREM AppendedStays == Spec => AppendedRowsStay
<1>1. ASSUME TypeOK, Next, Mode = "append", NEW r \in Rows, row[r] # 0
      PROVE  row'[r] = row[r]
  <2>1. row \in [Rows -> Nat]
    BY <1>1, RowTypes
  <2>2. ASSUME NEW o \in pending, PersistStep(o)
        PROVE  row' = row \/ row' = RowAfter(o)
    BY <1>1, <2>2, PersistWrites
  <2>3. ASSUME NEW o \in pending, row' = RowAfter(o)
        PROVE  row'[r] = row[r]
    BY <1>1, <2>1, <2>3 DEF RowAfter
  <2>4. row' = row \/ \E o \in pending : PersistStep(o)
    BY <1>1 DEF Next, Produce, PollMessage, PollErrorFrame, PollOver, PollNothing,
                Commit, CommitFails, Crash, Escape, Leave, Restart, PgDown,
                PgUp
  <2> QED
    BY <2>2, <2>3, <2>4
<1>2. TypeOK /\ [Next]_vars =>
         [Mode = "append" => \A r \in Rows : row[r] # 0 => row'[r] = row[r]]_row
  BY <1>1 DEF vars
<1> QED
  BY <1>2, TypeCorrect, PTL DEF Spec, AppendedRowsStay
=============================================================================
