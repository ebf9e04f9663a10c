------------------------------- MODULE LinkProofs -------------------------------
(***************************************************************************)
(* What the link monitor shows, for any thresholds and any sequence of     *)
(* heartbeats, cuts, outages, failed writes, resets and restarts.          *)
(***************************************************************************)
EXTENDS LinkMonitor, TLAPS, SequenceTheorems

-----------------------------------------------------------------------------
(* Type correctness.                                                        *)

\* An age that grows by a unit stays within its limit.
LEMMA OlderType ==
    ASSUME NEW limit \in Nat, NEW age \in Nat \cup {None}
    PROVE  /\ age = None => Older(age, limit) = None
           /\ age # None => Older(age, limit) \in 0..limit
BY LinkAssumption DEF Older, Least

\* What the loop makes of the trackers and bands is a triple.
LEMMA BuiltType ==
    ASSUME BandType
    PROVE  HeldBand \in Bands /\ Built \in Triple
<1>1. HeldBand \in Bands
  BY DEF BandType, HeldBand, Promoted, Bands
<1>2. Classify(Reach, HeldBand) \in States
  BY DEF Classify, Reach, States
<1> QED
  BY <1>1, <1>2 DEF Built, Triple

\* What is on its way stays a queue of heartbeats that is not too long.
LEMMA TierStep ==
    ASSUME TypeOK, [Next]_vars PROVE TierType'
<1> USE DEF TypeOK, TierType
<1>0. QueueMax \in Nat /\ QueueMax > 0
  BY LinkAssumption DEF QueueMax
<1>1. ASSUME NEW age \in FirstAges, Emit(age) PROVE TierType'
  <2> DEFINE hb == [age |-> age, band |-> traffic]
             kept == IF Len(relay) = QueueMax THEN Tail(relay) ELSE relay
  <2>1. hb \in Heartbeat
    BY LinkAssumption DEF Heartbeat
  <2>2. kept \in Seq(Heartbeat) /\ Len(kept) < QueueMax
    <3>1. CASE Len(relay) = QueueMax
      <4>1. relay # <<>>
        BY <1>0, <3>1
      <4> QED
        BY <1>0, <3>1, <4>1, HeadTailProperties
    <3>2. CASE Len(relay) # QueueMax
      BY <1>0, <3>2, LenProperties
    <3> QED
      BY <3>1, <3>2
  <2>3. relay' = Append(kept, hb)
    BY <1>1 DEF Emit
  <2>4. relay' \in Seq(Heartbeat) /\ Len(relay') = Len(kept) + 1
    <3> HIDE DEF hb, kept
    <3> QED
      BY <2>1, <2>2, <2>3, AppendProperties
  <2>5. Len(kept) \in Nat
    BY <2>2, LenProperties
  <2> HIDE DEF hb, kept
  <2> QED
    BY <1>0, <1>1, <2>2, <2>4, <2>5 DEF Emit
<1>2. CASE Turn
  BY <1>2 DEF Turn
<1>3. CASE Cut \/ Heal
  BY <1>3 DEF Cut, Heal
<1>4. CASE Tick
  <2> DEFINE aged == [i \in 1..Len(relay) |->
                        [relay[i] EXCEPT !.age = Older(@, FreshMaxAge + 1)]]
  <2>1. Len(relay) \in Nat
    BY LenProperties
  <2>2. ASSUME NEW i \in 1..Len(relay) PROVE aged[i] \in Heartbeat
    <3>1. relay[i] \in Heartbeat
      BY ElementOfSeq
    <3>2. Older(relay[i].age, FreshMaxAge + 1) \in Nat \cup {None}
      <4>1. relay[i].age \in Nat \cup {None} /\ FreshMaxAge + 1 \in Nat
        BY <3>1, LinkAssumption DEF Heartbeat
      <4>2. 0..FreshMaxAge + 1 \subseteq Nat
        BY <4>1
      <4> QED
        BY <4>1, <4>2, OlderType
    <3> QED
      BY <3>1, <3>2 DEF Heartbeat
  <2>3. aged \in [1..Len(relay) -> Heartbeat]
    BY <2>2
  <2>4. aged \in Seq(Heartbeat) /\ Len(aged) = Len(relay)
    <3> HIDE DEF aged
    <3> QED
      BY <2>1, <2>3, LenProperties
  <2>5. relay' = aged /\ sent' \in BOOLEAN /\ UNCHANGED <<traffic, cut>>
    BY <1>4 DEF Tick
  <2> HIDE DEF aged
  <2> QED
    BY <2>4, <2>5
<1>5. CASE Deliver
  <2>1. relay' \in Seq(Heartbeat) /\ Len(relay') = Len(relay) - 1
    BY <1>5, HeadTailProperties DEF Deliver
  <2> QED
    BY <1>0, <1>5, <2>1, LenProperties DEF Deliver
<1>6. CASE UNCHANGED <<traffic, sent, cut, relay>>
  BY <1>6
<1> QED
  BY <1>1, <1>2, <1>3, <1>4, <1>5, <1>6
  DEF Next, Plan, WriteRow, WriteFails, PgDown, PgUp, Reset, Restart, vars, tier

\* A tracker that begins.
LEMMA ZeroType ==
    0 \in 0..DownAfter + 1 /\ 0 \in 0..RestoreArrivals - 1 /\ 0 \in 0..RestoreArrivals
BY LinkAssumption

\* An arrival leaves the latch or the count, of what they must be.
LEMMA ArrivalType ==
    ASSUME TrackerType, NEW hb \in Heartbeat, OnArrival(hb)
    PROVE  TrackerType'
<1> USE LinkAssumption DEF TrackerType
<1>1. Resumed \in [down : BOOLEAN, streak : 0..RestoreArrivals - 1]
  BY DEF Resumed
<1>2. Counted(hb) \in Nat
  BY <1>1 DEF Counted
<1>3. down' \in BOOLEAN /\ streak' \in 0..RestoreArrivals - 1
  <2>1. CASE ~Resumed.down
    BY <1>1, <2>1 DEF OnArrival
  <2>2. CASE Resumed.down
    <3>1. CASE Counted(hb) >= RestoreArrivals
      <4>1. down' = FALSE /\ streak' = 0
        BY <2>2, <3>1 DEF OnArrival
      <4> QED
        BY <4>1, ZeroType
    <3>2. CASE ~(Counted(hb) >= RestoreArrivals)
      <4>1. down' = TRUE /\ streak' = Counted(hb)
        BY <2>2, <3>2 DEF OnArrival
      <4> QED
        BY <1>2, <3>2, <4>1
    <3> QED
      BY <3>1, <3>2
  <2> QED
    BY <2>1, <2>2
<1>4. earned' \in 0..RestoreArrivals
  BY DEF OnArrival, Least
<1>5. doubted' \in BOOLEAN
  BY DEF OnArrival
<1>6. silence' = 0 /\ uptime' = uptime
  BY DEF OnArrival
<1> QED
  BY <1>3, <1>4, <1>5, <1>6

LEMMA TrackerStep ==
    ASSUME TypeOK, [Next]_vars PROVE TrackerType'
<1> USE LinkAssumption DEF TypeOK
<1>1. CASE Tick
  <2>1. UNCHANGED <<down, streak, earned, doubted>>
    BY <1>1 DEF Tick
  <2>2. silence' = Older(silence, DownAfter + 1) /\ uptime' = Older(uptime, DownAfter + 1)
    BY <1>1 DEF Tick
  <2>3. silence' \in 0..DownAfter + 1 \cup {None} /\ uptime' \in 0..DownAfter + 1
    BY <2>2, OlderType DEF TrackerType
  <2> QED
    BY <2>1, <2>3 DEF TrackerType
<1>2. CASE Deliver
  <2>1. Head(relay) \in Heartbeat
    BY <1>2, HeadTailProperties DEF Deliver, TierType
  <2> QED
    BY <1>2, <2>1, ArrivalType DEF Deliver
<1>3. CASE Plan
  <2>1. down' \in BOOLEAN /\ doubted' \in BOOLEAN
    BY <1>3 DEF Plan
  <2>2. streak' \in {0, streak} /\ UNCHANGED <<silence, uptime, earned>>
    BY <1>3 DEF Plan
  <2> QED
    BY <2>1, <2>2 DEF TrackerType
<1>4. CASE Restart
  <2>1. silence' = None /\ uptime' = 0 /\ down' = FALSE /\ streak' = 0
        /\ earned' = 0 /\ doubted' = FALSE
    BY <1>4 DEF Restart
  <2> QED
    BY <2>1, ZeroType DEF TrackerType
<1>5. CASE UNCHANGED tracker
  BY <1>5 DEF tracker, TrackerType
<1> QED
  BY <1>1, <1>2, <1>3, <1>4, <1>5
  DEF Next, Emit, Turn, Cut, Heal, WriteRow, WriteFails, PgDown, PgUp, Reset, vars

LEMMA BandStep ==
    ASSUME TypeOK, [Next]_vars PROVE BandType'
<1> USE LinkAssumption DEF TypeOK, BandType
<1>1. CASE Tick
  <2>1. UNCHANGED held
    BY <1>1 DEF Tick
  <2>2. CASE candidate = None
    BY <1>1, <2>1, <2>2 DEF Tick
  <2>3. CASE candidate # None
    <3>1. candidate' = [candidate EXCEPT !.age = Older(candidate.age, TrafficHold)]
      BY <1>1, <2>3 DEF Tick
    <3>2. candidate \in [band : Bands, age : 0..TrafficHold]
      BY <2>3
    <3>3. Older(candidate.age, TrafficHold) \in 0..TrafficHold
      BY <3>2, OlderType
    <3> QED
      BY <2>1, <3>1, <3>2, <3>3
  <2> QED
    BY <2>2, <2>3
<1>2. CASE Deliver
  <2>1. Head(relay) \in Heartbeat
    BY <1>2, HeadTailProperties DEF Deliver, TierType
  <2> QED
    BY <1>2, <2>1 DEF Deliver, ObserveBand, Heartbeat
<1>3. CASE Plan
  BY <1>3 DEF Plan, Promoted
<1>4. CASE Restart
  BY <1>4 DEF Restart
<1>5. CASE UNCHANGED bands
  BY <1>5 DEF bands
<1> QED
  BY <1>1, <1>2, <1>3, <1>4, <1>5
  DEF Next, Emit, Turn, Cut, Heal, WriteRow, WriteFails, PgDown, PgUp, Reset, vars

LEMMA LoopStep ==
    ASSUME TypeOK, [Next]_vars PROVE LoopType'
<1> USE LinkAssumption DEF TypeOK, LoopType
<1>1. CASE Tick
  <2>1. UNCHANGED <<row, pgUp>>
    BY <1>1 DEF Tick
  <2>2. written' \in [triple : Triple, age : 0..StatusHeartbeat] \cup {None}
    <3>1. CASE written = None
      BY <1>1, <3>1 DEF Tick
    <3>2. CASE written # None
      <4>1. written' = [written EXCEPT !.age = Older(written.age, StatusHeartbeat)]
        BY <1>1, <3>2 DEF Tick
      <4>2. written \in [triple : Triple, age : 0..StatusHeartbeat]
        BY <3>2
      <4>3. Older(written.age, StatusHeartbeat) \in 0..StatusHeartbeat
        BY <4>2, OlderType
      <4> QED
        BY <4>1, <4>2, <4>3
    <3> QED
      BY <3>1, <3>2
  <2>3. work' \in Pending \cup [pc : {"sleep", "done", "late", "failed"}]
    <3>1. CASE work.pc = "write"
      <4>1. work' = [work EXCEPT !.age = Older(work.age, StatusHeartbeat)]
        BY <1>1, <3>1 DEF Tick
      <4>2. work \in Pending
        BY <3>1
      <4>3. Older(work.age, StatusHeartbeat) \in 0..StatusHeartbeat
        BY <4>2, OlderType DEF Pending
      <4> QED
        BY <4>1, <4>2, <4>3 DEF Pending
    <3>2. CASE work.pc # "write"
      BY <1>1, <3>2 DEF Tick
    <3> QED
      BY <3>1, <3>2
  <2> QED
    BY <2>1, <2>2, <2>3
<1>2. CASE Plan
  <2>1. Built \in Triple
    BY BuiltType
  <2>2. work' \in Pending \cup [pc : {"sleep", "done", "late", "failed"}]
    BY <1>2, <2>1 DEF Plan, Planned, Pending
  <2> QED
    BY <1>2, <2>2 DEF Plan
<1>3. CASE WriteRow
  <2>1. work \in Pending
    BY <1>3 DEF WriteRow
  <2>2. row' \in Triple \cup {None}
    BY <1>3, <2>1 DEF WriteRow, Pending
  <2>3. written' \in [triple : Triple, age : 0..StatusHeartbeat] \cup {None}
    BY <1>3, <2>1 DEF WriteRow, Record, Pending
  <2> QED
    BY <1>3, <2>2, <2>3 DEF WriteRow, After
<1>4. CASE WriteFails
  BY <1>4 DEF WriteFails
<1>5. CASE PgDown \/ PgUp \/ Reset
  BY <1>5 DEF PgDown, PgUp, Reset, loop
<1>6. CASE Restart
  BY <1>6 DEF Restart
<1>7. CASE UNCHANGED <<loop, row, pgUp>>
  BY <1>7 DEF loop
<1> QED
  BY <1>1, <1>2, <1>3, <1>4, <1>5, <1>6, <1>7 DEF Next, Emit, Turn, Cut, Heal, Deliver, vars

\* The state of the monitor has its type, whatever the thresholds
\* (link_monitor.py: LinkTracker, LinkState, LinkWritePlanner, _upsert).
THEOREM TypeCorrect == Spec => []TypeOK
<1>1. Init => TypeOK
  <2> SUFFICES ASSUME Init PROVE TypeOK
    OBVIOUS
  <2> USE LinkAssumption
  <2>1. TierType
    <3>1. relay \in Seq(Heartbeat) /\ Len(relay) = 0
      BY EmptySeq DEF Init
    <3>2. 0 <= QueueMax
      BY DEF QueueMax
    <3>3. traffic \in Bands /\ sent = FALSE /\ cut = FALSE
      BY DEF Init
    <3> QED
      BY <3>1, <3>2, <3>3 DEF TierType
  <2>2. TrackerType
    <3>1. silence = None /\ uptime = 0 /\ down = FALSE /\ streak = 0
          /\ earned = 0 /\ doubted = FALSE
      BY DEF Init
    <3> QED
      BY <3>1, ZeroType DEF TrackerType
  <2>3. BandType
    BY DEF Init, BandType
  <2>4. LoopType
    BY DEF Init, LoopType
  <2> QED
    BY <2>1, <2>2, <2>3, <2>4 DEF TypeOK
<1>2. TypeOK /\ [Next]_vars => TypeOK'
  BY TierStep, TrackerStep, BandStep, LoopStep DEF TypeOK
<1> QED
  BY <1>1, <1>2, PTL DEF Spec

-----------------------------------------------------------------------------
(* A restore is earned.                                                     *)

\* The count belongs to a latched tracker, and never runs ahead of the
\* heartbeats that came in a row, fresh and close to each other.
Behind ==
    /\ ~down => streak = 0
    /\ streak <= earned

EarnedInv == Behind /\ RestoreEarned

\* Each arrival that is counted is one that earns the restore.
LEMMA ArrivalEarned ==
    ASSUME TrackerType, EarnedInv, NEW hb \in Heartbeat, OnArrival(hb)
    PROVE  EarnedInv'
<1> USE LinkAssumption DEF TrackerType, EarnedInv, Behind, RestoreEarned
<1>1. CASE ~Resumed.down
  <2>1. ~down /\ ~Stale
    BY <1>1 DEF Resumed
  <2>2. down' = FALSE /\ streak' = streak /\ earned' \in Nat
    <3>1. Resumed.streak = streak
      BY <2>1 DEF Resumed
    <3>2. down' = FALSE /\ streak' = streak
      BY <1>1, <3>1 DEF OnArrival
    <3>3. earned' \in Nat
      BY ArrivalType
    <3> QED
      BY <3>2, <3>3
  <2>3. ~doubted
    BY <2>1
  <2>4. doubted' = FALSE
    BY <2>1, <2>3 DEF OnArrival
  <2>5. streak = 0
    BY <2>1
  <2> QED
    BY <2>2, <2>4, <2>5
<1>2. CASE Resumed.down
  <2>1. Resumed.streak \in 0..earned
    BY DEF Resumed
  <2>2. Counted(hb) \in Nat /\ (Counted(hb) <= earned' \/ earned' = RestoreArrivals)
    BY <2>1 DEF Counted, OnArrival, Least
  <2>3. CASE Counted(hb) >= RestoreArrivals
    <3>1. down' = FALSE /\ streak' = 0
      BY <1>2, <2>3 DEF OnArrival
    <3>2. earned' \in Nat /\ ~(earned' < RestoreArrivals)
      BY <2>2, <2>3, ArrivalType
    <3>3. ~doubted'
      BY <3>2 DEF OnArrival
    <3> QED
      BY <3>1, <3>2, <3>3
  <2>4. CASE ~(Counted(hb) >= RestoreArrivals)
    <3>1. down' = TRUE /\ streak' = Counted(hb)
      BY <1>2, <2>4 DEF OnArrival
    <3> QED
      BY <2>2, <2>4, <3>1
  <2> QED
    BY <2>2, <2>3, <2>4
<1> QED
  BY <1>1, <1>2

\* After a long silence the link stays down until RestoreArrivals heartbeats
\* came in a row, none from the backlog and each soon after the one before,
\* whether a tick or an arrival noticed the silence (link_monitor.py:
\* LinkTracker.on_arrival, _count_toward_restore, tick).
THEOREM RestoresAreEarned == Spec => []RestoreEarned
<1>1. Init => EarnedInv
  BY DEF Init, EarnedInv, Behind, RestoreEarned
<1>2. ASSUME TypeOK, EarnedInv, [Next]_vars PROVE EarnedInv'
  <2>1. CASE Deliver
    <3>1. Head(relay) \in Heartbeat
      BY <1>2, <2>1, HeadTailProperties DEF Deliver, TypeOK, TierType
    <3> QED
      BY <1>2, <2>1, <3>1, ArrivalEarned DEF Deliver, TypeOK
  <2>2. CASE Plan
    <3>1. streak' <= earned' /\ (~down' => streak' = 0)
      <4>1. streak' \in {0, streak} /\ earned' = earned
        BY <2>2 DEF Plan
      <4>2. ~down' => ~down
        BY <2>2 DEF Plan
      <4> QED
        BY <1>2, <4>1, <4>2 DEF TypeOK, TrackerType, EarnedInv, Behind
    <3>2. doubted' => down'
      BY <1>2, <2>2 DEF Plan, EarnedInv, RestoreEarned
    <3> QED
      BY <3>1, <3>2 DEF EarnedInv, Behind, RestoreEarned
  <2>3. CASE Restart
    BY <2>3 DEF Restart, EarnedInv, Behind, RestoreEarned
  <2>4. CASE UNCHANGED <<down, streak, earned, doubted>>
    BY <1>2, <2>4 DEF EarnedInv, Behind, RestoreEarned
  <2> QED
    BY <1>2, <2>1, <2>2, <2>3, <2>4
    DEF Next, Emit, Turn, Cut, Heal, Tick, WriteRow, WriteFails, PgDown, PgUp, Reset,
        vars, tracker
<1> QED
  BY <1>1, <1>2, TypeCorrect, PTL DEF Spec, EarnedInv

-----------------------------------------------------------------------------
(* The row is what the planner believes.                                    *)

\* A pending refresh of the liveness columns belongs to the row that is there,
\* if one still is.
RefreshFits ==
    work.pc = "write" /\ work.kind = "heartbeat" /\ row # None => row = work.built

WrittenInv == RowAsWritten /\ RefreshFits

\* What the planner takes to be written is what the row shows, through failed
\* writes, outages in which the trackers move on, emptied tables and restarts
\* (link_monitor.py: LinkWritePlanner.plan and record, _upsert).
THEOREM RowsAreAsWritten == Spec => []RowAsWritten
<1>1. Init => WrittenInv
  BY DEF Init, WrittenInv, RowAsWritten, RefreshFits
<1>2. ASSUME TypeOK, WrittenInv, [Next]_vars PROVE WrittenInv'
  <2> USE <1>2 DEF WrittenInv, RowAsWritten, RefreshFits
  <2>1. CASE Tick
    <3>1. row' = row /\ (written' # None => written # None /\ written'.triple = written.triple)
      BY <2>1 DEF Tick, TypeOK, LoopType
    <3>2. work'.pc = "write" => /\ work.pc = "write"
                                /\ work'.kind = work.kind /\ work'.built = work.built
      BY <2>1 DEF Tick, TypeOK, LoopType, Pending
    <3> QED
      BY <3>1, <3>2
  <2>2. CASE Plan
    <3>1. UNCHANGED <<row, written>>
      BY <2>2 DEF Plan
    <3>2. ASSUME work'.pc = "write", work'.kind = "heartbeat"
          PROVE  work'.built = Built /\ written # None /\ written.triple = Built
      BY <2>2, <3>2 DEF Plan, Planned
    <3> QED
      BY <3>1, <3>2
  <2>3. CASE WriteRow
    <3>1. work \in Pending /\ work'.pc # "write"
      BY <2>3 DEF WriteRow, After, TypeOK, LoopType
    <3>2. CASE work.kind = "change"
      BY <2>3, <3>1, <3>2 DEF WriteRow, Record
    <3>3. CASE work.kind = "heartbeat"
      BY <2>3, <3>1, <3>3 DEF WriteRow, Record
    <3> QED
      BY <3>1, <3>2, <3>3 DEF Pending
  <2>4. CASE WriteFails \/ Reset \/ Restart
    BY <2>4 DEF WriteFails, Reset, Restart, loop
  <2>5. CASE UNCHANGED <<loop, row>>
    BY <2>5 DEF loop
  <2> QED
    BY <2>1, <2>2, <2>3, <2>4, <2>5
    DEF Next, Emit, Turn, Cut, Heal, Deliver, PgDown, PgUp, vars
<1> QED
  BY <1>1, <1>2, TypeCorrect, PTL DEF Spec, WrittenInv
=============================================================================
