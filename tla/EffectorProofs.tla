---------------------------- MODULE EffectorProofs ----------------------------
(***************************************************************************)
(* The finality of effector rounds and munition tracks: what any number of *)
(* instances, messages, sweeps, crashes and swallowed statements can do to *)
(* a row of effector_launch and munition_track, in any order, and what of  *)
(* it is lost.                                                             *)
(***************************************************************************)
EXTENDS EffectorTracks, TLAPS

-----------------------------------------------------------------------------
(* Messages.                                                                *)

\* The type field tells the three kinds of message apart.
LEMMA MsgType ==
    ASSUME TypeOK, NEW i \in Instances, NEW pc, NEW type, Handling(i, pc, type)
    PROVE  /\ enext[i] \in 1..Len(elog) /\ enext[i] + 1 \in 1..Len(elog) + 1
           /\ Msg(i) \in EffectorMsg /\ Msg(i).type = type
           /\ type = "fire" => Msg(i) \in FireMsg
           /\ type = "detonation" => Msg(i) \in DetonationMsg
           /\ type = "resupply" => Msg(i) \in ResupplyMsg
<1>1. elog \in Seq(EffectorMsg) /\ enext[i] \in 1..Len(elog) + 1
  BY DEF TypeOK, DataType, EWorkType
<1>2. enext[i] \in 1..Len(elog) /\ enext[i] + 1 \in 1..Len(elog) + 1
  BY <1>1 DEF Handling
<1>3. Msg(i) \in EffectorMsg /\ Msg(i).type = type
  BY <1>1, <1>2 DEF Handling, Msg
<1> QED
  BY <1>2, <1>3 DEF EffectorMsg, FireMsg, DetonationMsg, ResupplyMsg

\* No step writes to the topics, which are there from the start.
LEMMA LogsStay ==
    ASSUME [Next]_vars PROVE elog' = elog /\ tlog' = tlog
BY DEF Next, vars, EffectorStep, TrackStep, FireAdmit, Refuse, FireAppend,
       FireJoin, DetonationApply, DetonationTerminate, ResupplyAdmit,
       ResupplyAppend, TrackAdvance, TrackReadLaunch, TrackInsert,
       SwallowEffector, SwallowSample, Crash, EffectorSweep, SilenceSweep,
       HealSweep, Tick, Admission

\* A sample is read from the topic.
LEMMA SampleType ==
    ASSUME TypeOK, NEW i \in Instances, NEW pc, Sampling(i, pc)
    PROVE  /\ tlog[tnext[i]] \in Sample
           /\ tnext[i] + 1 \in 1..Len(tlog) + 1
BY DEF TypeOK, DataType, TWorkType, Sampling

\* Healing labels a row with an event, and changes nothing else of it.
LEMMA HealedRow ==
    ASSUME NEW m \in Munitions, NEW row \in TrackRow, NEW healed \in Healed(m, row)
    PROVE  /\ healed \in TrackRow
           /\ healed.state = row.state /\ healed.result = row.result
           /\ healed.late = row.late
           /\ row.event # None => healed.event = row.event
<1>1. NewestLaunch(m) \subseteq Events
  BY DEF NewestLaunch
<1> QED
  BY <1>1 DEF Healed, TrackRow

\* A detonation gives a row a result, or leaves the one it has.
LEMMA ResolvedRow ==
    ASSUME NEW R \in {LaunchRow, TrackRow}, NEW row \in R, NEW r \in Results
    PROVE  /\ Resolved(row, r) \in R
           /\ Resolved(row, r).state = "real"
           /\ row.state = "real" => Resolved(row, r) = row
           /\ row.state # "real" => /\ Resolved(row, r).result = r
                                    /\ Resolved(row, r).late = (row.state = "inferred")
<1>1. CASE row.state = "real"
  BY <1>1 DEF Resolved
<1>2. CASE row.state # "real"
  <2> DEFINE late == row.state = "inferred"
  <2>1. late \in BOOLEAN
    OBVIOUS
  <2>2. Resolved(row, r) =
          [row EXCEPT !.state = "real", !.result = r, !.late = late]
    BY <1>2 DEF Resolved
  <2> HIDE DEF late
  <2>3. /\ Resolved(row, r) \in R /\ Resolved(row, r).state = "real"
        /\ Resolved(row, r).result = r /\ Resolved(row, r).late = late
    <3>1. CASE R = LaunchRow
      BY <2>1, <2>2, <3>1 DEF LaunchRow, States
    <3>2. CASE R = TrackRow
      BY <2>1, <2>2, <3>2 DEF TrackRow, States
    <3> QED
      BY <3>1, <3>2
  <2>4. Resolved(row, r).late = (row.state = "inferred")
    BY <2>3, Zenon DEF late
  <2> QED
    BY <1>2, <2>3, <2>4, Zenon
<1> QED
  BY <1>1, <1>2

-----------------------------------------------------------------------------
(* Type correctness, one lemma per part of TypeOK.                          *)

\* A worker that goes to another place keeps its type, if only a resupply
\* goes among its lines.
LEMMA PlaceStep ==
    ASSUME TypeOK, NEW i \in Instances, ework[i].left = {},
           NEW pc \in {"append", "join", "terminate"}, GoTo(i, pc), elog' = elog
    PROVE  EWorkType'
<1>1. EWorkType
  BY DEF TypeOK
<1>2. /\ ework[i] \in EWork
      /\ ework' = [ework EXCEPT ![i] = [ework[i] EXCEPT !.pc = pc]]
  BY <1>1 DEF GoTo, EWorkType
<1>3. /\ [ework[i] EXCEPT !.pc = pc] \in EWork
      /\ [ework[i] EXCEPT !.pc = pc].pc # "supply"
      /\ [ework[i] EXCEPT !.pc = pc].left = {}
  BY <1>2 DEF EWork
<1> QED
  BY <1>1, <1>2, <1>3 DEF GoTo, EWorkType

\* A worker that returns is idle before the next message.
LEMMA ReturnStep ==
    ASSUME TypeOK, NEW i \in Instances, enext[i] + 1 \in 1..Len(elog) + 1,
           Return(i), elog' = elog
    PROVE  EWorkType'
<1>1. EWorkType
  BY DEF TypeOK
<1>2. EIdle \in EWork /\ EIdle.pc # "supply" /\ EIdle.left = {}
  BY DEF EIdle, EWork
<1> QED
  BY <1>1, <1>2 DEF Return, EWorkType

LEMMA EWorkTypeStep ==
    ASSUME TypeOK, [Next]_vars PROVE EWorkType'
<1>1. EWorkType /\ elog \in Seq(EffectorMsg)
  BY DEF TypeOK, DataType
<1>2. elog' = elog
  BY LogsStay
<1>3. ASSUME NEW i \in Instances, EffectorStep(i) PROVE EWorkType'
  <2>1. CASE FireAdmit(i)
    <3>1. Handling(i, "idle", "fire") /\ ework[i].left = {}
      BY <1>1, <2>1 DEF FireAdmit, Handling, EWorkType
    <3> QED
      BY <1>2, <2>1, <3>1, MsgType, PlaceStep, ReturnStep DEF FireAdmit, Refuse
  <2>2. CASE FireAppend(i)
    <3>1. Handling(i, "append", "fire") /\ ework[i].left = {}
      BY <1>1, <2>2 DEF FireAppend, Handling, EWorkType
    <3> QED
      BY <1>2, <2>2, <3>1, MsgType, PlaceStep, ReturnStep DEF FireAppend
  <2>3. CASE FireJoin(i)
    BY <1>2, <2>3, MsgType, ReturnStep DEF FireJoin
  <2>4. CASE DetonationApply(i)
    <3>1. Handling(i, "idle", "detonation") /\ ework[i].left = {}
      BY <1>1, <2>4 DEF DetonationApply, Handling, EWorkType
    <3> QED
      BY <1>2, <2>4, <3>1, PlaceStep DEF DetonationApply
  <2>5. CASE DetonationTerminate(i)
    BY <1>2, <2>5, MsgType, ReturnStep DEF DetonationTerminate
  <2>6. CASE ResupplyAdmit(i)
    <3>1. Handling(i, "idle", "resupply") /\ Msg(i).lines \subseteq Types
      BY <2>6, MsgType DEF ResupplyAdmit, ResupplyMsg
    <3>2. ASSUME Msg(i).lines # {},
                 ework' = [ework EXCEPT ![i] = [pc |-> "supply", left |-> Msg(i).lines]],
                 UNCHANGED enext
          PROVE  EWorkType'
      <4>1. [pc |-> "supply", left |-> Msg(i).lines] \in EWork
        BY <3>1 DEF EWork
      <4> QED
        BY <1>1, <1>2, <3>2, <4>1 DEF EWorkType
    <3> QED
      BY <1>2, <2>6, <3>1, <3>2, MsgType, ReturnStep DEF ResupplyAdmit, Refuse
  <2>7. CASE ResupplyAppend(i)
    <3>1. Handling(i, "supply", "resupply")
      BY <2>7 DEF ResupplyAppend
    <3>2. ASSUME NEW t \in ework[i].left, ework[i].left # {t},
                 ework' = [ework EXCEPT ![i].left = @ \ {t}], UNCHANGED enext
          PROVE  EWorkType'
      <4> DEFINE w == [ework[i] EXCEPT !.left = @ \ {t}]
      <4>1. ework[i] \in EWork /\ ework' = [ework EXCEPT ![i] = w]
        BY <1>1, <3>2 DEF EWorkType
      <4>2. w \in EWork /\ w.pc = "supply" /\ w.left # {}
        BY <3>1, <3>2, <4>1 DEF EWork, Handling
      <4> HIDE DEF w
      <4> QED
        BY <1>1, <1>2, <3>2, <4>1, <4>2 DEF EWorkType
    <3> QED
      BY <1>2, <2>7, <3>1, <3>2, MsgType, ReturnStep DEF ResupplyAppend
  <2> QED
    BY <1>3, <2>1, <2>2, <2>3, <2>4, <2>5, <2>6, <2>7 DEF EffectorStep
<1>4. ASSUME NEW i \in Instances, SwallowEffector(i) PROVE EWorkType'
  <2>1. PICK type : Handling(i, ework[i].pc, type)
    BY <1>4 DEF SwallowEffector
  <2> QED
    BY <1>2, <1>4, <2>1, MsgType, ReturnStep DEF SwallowEffector
<1>5. ASSUME NEW i \in Instances, Crash(i) PROVE EWorkType'
  <2>1. EIdle \in EWork /\ EIdle.pc # "supply" /\ EIdle.left = {}
    BY DEF EIdle, EWork
  <2>2. PICK k \in 1..enext[i] : enext' = [enext EXCEPT ![i] = k]
    BY <1>5 DEF Crash
  <2>3. Len(elog) \in Nat /\ k \in 1..Len(elog) + 1
    BY <1>1, <2>2 DEF EWorkType
  <2> QED
    BY <1>1, <1>2, <1>5, <2>1, <2>2, <2>3 DEF Crash, EWorkType
<1>6. CASE UNCHANGED ewvars
  BY <1>1, <1>2, <1>6 DEF ewvars, EWorkType
<1> QED
  BY <1>3, <1>4, <1>5, <1>6
  DEF Next, vars, ewvars, TrackStep, TrackAdvance, TrackReadLaunch, TrackInsert,
      SwallowSample, EffectorSweep, SilenceSweep, HealSweep, Tick, Admission

LEMMA TWorkTypeStep ==
    ASSUME TypeOK, [Next]_vars PROVE TWorkType'
<1>1. TWorkType /\ tlog \in Seq(Sample)
  BY DEF TypeOK, DataType
<1>2. tlog' = tlog
  BY LogsStay
<1>3. TIdle \in TWork
  BY DEF TIdle, TWork
<1>4. ASSUME NEW i \in Instances, NEW pc, Sampling(i, pc), SampleReturn(i)
      PROVE  TWorkType'
  BY <1>1, <1>2, <1>3, <1>4, SampleType DEF SampleReturn, TWorkType
<1>5. ASSUME NEW i \in Instances, TrackStep(i) PROVE TWorkType'
  <2>1. CASE TrackReadLaunch(i)
    <3>1. PICK e \in Events \cup {None} :
            twork' = [twork EXCEPT ![i] = [pc |-> "insert", seen |-> e]]
      BY <2>1 DEF TrackReadLaunch, NewestLaunch
    <3>2. [pc |-> "insert", seen |-> e] \in TWork
      BY DEF TWork
    <3> QED
      BY <1>1, <1>2, <2>1, <3>1, <3>2 DEF TrackReadLaunch, TWorkType
  <2> QED
    BY <1>4, <1>5, <2>1 DEF TrackStep, TrackAdvance, TrackInsert, Advance
<1>6. ASSUME NEW i \in Instances, SwallowSample(i) PROVE TWorkType'
  BY <1>4, <1>6 DEF SwallowSample
<1>7. ASSUME NEW i \in Instances, Crash(i) PROVE TWorkType'
  <2>1. PICK k \in 1..tnext[i] : tnext' = [tnext EXCEPT ![i] = k]
    BY <1>7 DEF Crash
  <2>2. Len(tlog) \in Nat /\ k \in 1..Len(tlog) + 1
    BY <1>1, <2>1 DEF TWorkType
  <2> QED
    BY <1>1, <1>2, <1>3, <1>7, <2>1, <2>2 DEF Crash, TWorkType
<1>8. CASE UNCHANGED twvars
  BY <1>1, <1>2, <1>8 DEF twvars, TWorkType
<1> QED
  BY <1>5, <1>6, <1>7, <1>8
  DEF Next, vars, twvars, EffectorStep, FireAdmit, Refuse, FireAppend,
      FireJoin, DetonationApply, DetonationTerminate, ResupplyAdmit,
      ResupplyAppend, SwallowEffector, EffectorSweep, SilenceSweep, HealSweep,
      Tick, Admission

LEMMA DataTypeStep ==
    ASSUME TypeOK, [Next]_vars PROVE DataType'
<1>1. DataType /\ MaxTime \in Nat /\ MaxFaults \in Nat
  BY EffectorAssumption DEF TypeOK
<1>2. CASE Tick
  BY <1>1, <1>2 DEF Tick, DataType, Time
<1>3. ASSUME NEW i \in Instances,
             SwallowEffector(i) \/ SwallowSample(i) \/ Crash(i)
      PROVE  DataType'
  BY <1>1, <1>3 DEF SwallowEffector, SwallowSample, Crash, DataType
<1>4. ASSUME NEW l \in Launchers, Admission(l) PROVE DataType'
  BY <1>1, <1>4 DEF Admission, DataType
<1>5. CASE UNCHANGED <<elog, tlog, now, admitted, faults>>
  BY <1>1, <1>5 DEF DataType
<1> QED
  BY <1>2, <1>3, <1>4, <1>5
  DEF Next, vars, EffectorStep, TrackStep, FireAdmit, Refuse, FireAppend,
      FireJoin, DetonationApply, DetonationTerminate, ResupplyAdmit,
      ResupplyAppend, TrackAdvance, TrackReadLaunch, TrackInsert, EffectorSweep,
      SilenceSweep, HealSweep

LEMMA HistoryTypeStep ==
    ASSUME TypeOK, [Next]_vars PROVE HistoryType'
<1>1. HistoryType /\ elog \in Seq(EffectorMsg)
  BY DEF TypeOK, DataType
<1>2. elog' = elog
  BY LogsStay
<1>3. ASSUME NEW i \in Instances, NEW pc, NEW type, Handling(i, pc, type),
             refused' = refused \cup Forgone(i),
             UNCHANGED <<resupply, inferred>>
      PROVE  HistoryType'
  <2>1. Forgone(i) \subseteq {<<i, enext[i]>>}
    BY DEF Forgone
  <2> QED
    BY <1>1, <1>2, <1>3, <2>1, MsgType DEF HistoryType
<1>4. ASSUME NEW i \in Instances, FireAdmit(i) \/ ResupplyAdmit(i)
      PROVE  HistoryType'
  <2>1. CASE Refuse(i)
    BY <1>3, <1>4, <2>1 DEF Refuse, FireAdmit, ResupplyAdmit, store
  <2>2. CASE UNCHANGED <<store, history>>
    BY <1>1, <1>2, <2>2 DEF HistoryType, store, history
  <2> QED
    BY <1>4, <2>1, <2>2 DEF FireAdmit, ResupplyAdmit, store, history
<1>5. ASSUME NEW i \in Instances, ResupplyAppend(i) PROVE HistoryType'
  <2>1. /\ ework[i] \in EWork /\ Msg(i).event \in Events
    BY <1>5, MsgType DEF ResupplyAppend, TypeOK, EWorkType, ResupplyMsg
  <2>2. PICK t \in ework[i].left : resupply' = resupply \cup {<<Msg(i).event, t>>}
    BY <1>5 DEF ResupplyAppend
  <2>3. t \in Types
    BY <2>1, <2>2 DEF EWork
  <2> QED
    BY <1>1, <1>2, <1>5, <2>1, <2>2, <2>3 DEF ResupplyAppend, HistoryType, history
<1>6. ASSUME NEW i \in Instances, SwallowEffector(i) PROVE HistoryType'
  BY <1>3, <1>6 DEF SwallowEffector, store
<1>7. CASE EffectorSweep \/ SilenceSweep
  BY <1>1, <1>2, <1>7 DEF EffectorSweep, SilenceSweep, HistoryType
<1>8. CASE UNCHANGED <<resupply, history>>
  BY <1>1, <1>2, <1>8 DEF HistoryType, history
<1> QED
  BY <1>4, <1>5, <1>6, <1>7, <1>8
  DEF Next, vars, store, history, EffectorStep, TrackStep, FireAppend, FireJoin,
      DetonationApply, DetonationTerminate, TrackAdvance, TrackReadLaunch,
      TrackInsert, SwallowSample, Crash, HealSweep, Tick, Admission

-----------------------------------------------------------------------------
(* What a step does to one row.                                             *)

\* The launch row of e stays, is appended, is resolved by a detonation, or is
\* given up on by the sweep.
LaunchMove(e) ==
    \/ launch'[e] = launch[e] /\ (e \in inferred' <=> e \in inferred)
    \/ /\ launch[e] = None
       /\ launch'[e] \in LaunchRow /\ launch'[e].state = "flight"
       /\ e \in inferred' <=> e \in inferred
    \/ /\ launch[e] \in LaunchRow
       /\ \E r \in Results : launch'[e] = Resolved(launch[e], r)
       /\ e \in inferred' <=> e \in inferred
    \/ /\ launch[e] \in LaunchRow /\ launch[e].state = "flight"
       /\ launch'[e] = [launch[e] EXCEPT !.state = "inferred"]
       /\ e \in inferred'

\* A row that was at most heard of, advanced and labelled.
SameTrack(row, old) ==
    /\ row \in TrackRow
    /\ row.state = old.state /\ row.result = old.result /\ row.late = old.late
    /\ old.event # None => row.event = old.event

\* The detonation at k is of this munition.
Detonates(k, m) ==
    /\ k \in 1..Len(elog)
    /\ elog[k].type = "detonation" /\ elog[k].result \in Results
    /\ DetonatedMunition(elog[k]) = m

\* The track of m stays, is inserted, is advanced or labelled, is ended by a
\* detonation of its munition, or is given up on by the sweep.
TrackMove(m) ==
    \/ track'[m] = track[m] /\ (m \in inferred' <=> m \in inferred)
    \/ /\ track[m] = None
       /\ track'[m] \in TrackRow /\ track'[m].state = "flight"
       /\ m \in inferred' <=> m \in inferred
    \/ /\ track[m] \in TrackRow
       /\ SameTrack(track'[m], track[m])
       /\ m \in inferred' <=> m \in inferred
    \/ /\ track[m] \in TrackRow
       /\ \E k \in 1..Len(elog), row \in TrackRow :
            /\ Detonates(k, m) /\ SameTrack(row, track[m])
            /\ track'[m] = Resolved(row, elog[k].result)
       /\ m \in inferred' <=> m \in inferred
    \/ /\ track[m] \in TrackRow /\ track[m].state = "flight"
       /\ track'[m] = [track[m] EXCEPT !.state = "inferred"]
       /\ m \in inferred'

LEMMA LaunchStep ==
    ASSUME TypeOK, [Next]_vars
    PROVE  /\ launch' \in [Events -> LaunchRow \cup {None}]
           /\ \A e \in Events : LaunchMove(e)
<1>1. /\ launch \in [Events -> LaunchRow \cup {None}]
      /\ None \notin LaunchRow
      /\ inferred \subseteq Events \cup Munitions
  BY EffectorAssumption DEF TypeOK, LaunchType, HistoryType
<1>2. CASE UNCHANGED launch /\ \A e \in Events : e \in inferred' <=> e \in inferred
  BY <1>1, <1>2 DEF LaunchMove
<1>3. ASSUME NEW i \in Instances, FireAppend(i)
      PROVE  /\ launch' \in [Events -> LaunchRow \cup {None}]
             /\ \A e \in Events : LaunchMove(e)
  <2> DEFINE new == [munition |-> Msg(i).munition, at |-> Msg(i).at,
                     state |-> "flight", result |-> None, late |-> FALSE]
  <2>1. Msg(i) \in FireMsg /\ UNCHANGED inferred
    BY <1>3, MsgType DEF FireAppend, history
  <2>2. new \in LaunchRow /\ new.state = "flight" /\ Msg(i).event \in Events
    BY <2>1 DEF FireMsg, LaunchRow, States
  <2>3. launch' = IF launch[Msg(i).event] # None THEN launch
                  ELSE [launch EXCEPT ![Msg(i).event] = new]
    BY <1>3 DEF FireAppend
  <2> HIDE DEF new
  <2> QED
    BY <1>1, <2>1, <2>2, <2>3 DEF LaunchMove
<1>4. ASSUME NEW i \in Instances, DetonationApply(i)
      PROVE  /\ launch' \in [Events -> LaunchRow \cup {None}]
             /\ \A e \in Events : LaunchMove(e)
  <2> DEFINE ev == Msg(i).event
             new == Resolved(launch[ev], Msg(i).result)
  <2>1. Msg(i) \in DetonationMsg /\ UNCHANGED inferred
    BY <1>4, MsgType DEF DetonationApply, history
  <2>2. ev \in Events /\ Msg(i).result \in Results
    BY <2>1 DEF DetonationMsg
  <2>3. launch' = IF launch[ev] = None THEN launch
                  ELSE [launch EXCEPT ![ev] = new]
    BY <1>4 DEF DetonationApply
  <2>4. launch[ev] # None => new \in LaunchRow
    BY <1>1, <2>2, ResolvedRow
  <2>5. \A e \in Events : e # ev \/ launch[ev] = None => launch'[e] = launch[e]
    BY <1>1, <2>2, <2>3
  <2>6. launch[ev] # None =>
          launch[ev] \in LaunchRow /\ launch'[ev] = Resolved(launch[ev], Msg(i).result)
    BY <1>1, <2>2, <2>3
  <2>7. launch' \in [Events -> LaunchRow \cup {None}]
    <3> HIDE DEF new
    <3> QED
      BY <1>1, <2>2, <2>3, <2>4
  <2> QED
    BY <2>1, <2>2, <2>5, <2>6, <2>7 DEF LaunchMove
<1>5. CASE EffectorSweep
  <2>1. \A e \in Events :
          launch'[e] = IF Overdue(e) THEN [launch[e] EXCEPT !.state = "inferred"]
                       ELSE launch[e]
    BY <1>5 DEF EffectorSweep
  <2>2. \A e \in Events :
          e \in inferred' <=> e \in inferred \/ Overdue(e)
    BY <1>5 DEF EffectorSweep
  <2>3. ASSUME NEW e \in Events, Overdue(e)
        PROVE  /\ launch[e] \in LaunchRow /\ launch[e].state = "flight"
               /\ launch'[e] \in LaunchRow
    BY <1>1, <2>1, <2>3 DEF Overdue, LaunchRow, States
  <2>4. launch' \in [Events -> LaunchRow \cup {None}]
    <3>1. launch' = [e \in Events |-> launch'[e]]
      BY <1>5 DEF EffectorSweep
    <3>2. \A e \in Events : launch'[e] \in LaunchRow \cup {None}
      BY <1>1, <2>1, <2>3
    <3> QED
      BY <3>1, <3>2
  <2> QED
    BY <2>1, <2>2, <2>3, <2>4 DEF LaunchMove
<1>6. CASE SilenceSweep
  <2>1. \A e \in Events : e \notin Munitions
    BY EffectorAssumption
  <2> QED
    BY <1>2, <1>6, <2>1 DEF SilenceSweep
<1> QED
  BY <1>2, <1>3, <1>4, <1>5, <1>6
  DEF Next, vars, store, history, EffectorStep, TrackStep, FireAdmit, Refuse,
      FireJoin, DetonationTerminate, ResupplyAdmit, ResupplyAppend,
      TrackAdvance, TrackReadLaunch, TrackInsert, SwallowEffector,
      SwallowSample, Crash, HealSweep, Tick, Admission

\* One track changes to a row that is a move of it, and the others stay.
LEMMA OneTrack ==
    ASSUME TypeOK, NEW m \in Munitions, NEW new \in TrackRow,
           track' = [track EXCEPT ![m] = new], UNCHANGED inferred,
           TrackMove(m)
    PROVE  /\ track' \in [Munitions -> TrackRow \cup {None}]
           /\ \A n \in Munitions : TrackMove(n)
<1>1. track \in [Munitions -> TrackRow \cup {None}]
  BY DEF TypeOK, TrackType
<1>2. \A n \in Munitions : n # m => track'[n] = track[n]
  BY <1>1
<1> QED
  BY <1>1, <1>2 DEF TrackMove

\* What the handler makes of a row it found: heard, perhaps advanced, healed.
LEMMA AdvanceStep ==
    ASSUME TypeOK, NEW i \in Instances, NEW s \in Sample, Advance(i, s),
           track[s.munition] # None, UNCHANGED inferred
    PROVE  /\ track' \in [Munitions -> TrackRow \cup {None}]
           /\ \A n \in Munitions : TrackMove(n)
<1> DEFINE m == s.munition
           old == track[m]
           row == IF old.state # "flight" THEN old
                  ELSE [old EXCEPT !.heardAt = now,
                          !.sampleAt = IF s.at > @ THEN s.at ELSE @]
<1>1. /\ m \in Munitions /\ s.at \in Time
      /\ now \in Time
      /\ track \in [Munitions -> TrackRow \cup {None}]
  BY DEF TypeOK, DataType, TrackType, Sample
<1>2. old \in TrackRow
  BY <1>1
<1>3. row \in TrackRow /\ SameTrack(row, old)
  <2> DEFINE at == IF s.at > old.sampleAt THEN s.at ELSE old.sampleAt
  <2>1. at \in Time
    BY <1>1, <1>2 DEF TrackRow
  <2>2. row = IF old.state # "flight" THEN old
              ELSE [old EXCEPT !.heardAt = now, !.sampleAt = at]
    BY <1>2 DEF TrackRow
  <2> HIDE DEF row, old, at
  <2> QED
    BY <1>1, <1>2, <2>1, <2>2 DEF TrackRow, SameTrack
<1>4. PICK healed \in Healed(m, row) : track' = [track EXCEPT ![m] = healed]
  BY DEF Advance
<1> HIDE DEF row
<1>5. healed \in TrackRow /\ SameTrack(healed, old)
  <2> HIDE DEF m, old
  <2> QED
    BY <1>1, <1>3, HealedRow DEF SameTrack
<1>6. TrackMove(m)
  <2>1. track'[m] = healed
    BY <1>1, <1>4
  <2> QED
    BY <1>2, <1>5, <2>1 DEF TrackMove
<1> QED
  BY <1>1, <1>4, <1>5, <1>6, OneTrack

LEMMA TrackStepMoves ==
    ASSUME TypeOK, [Next]_vars
    PROVE  /\ track' \in [Munitions -> TrackRow \cup {None}]
           /\ \A m \in Munitions : TrackMove(m)
<1> DEFINE Goal == /\ track' \in [Munitions -> TrackRow \cup {None}]
                   /\ \A m \in Munitions : TrackMove(m)
<1>1. /\ track \in [Munitions -> TrackRow \cup {None}]
      /\ None \notin TrackRow /\ None \notin Munitions
  BY EffectorAssumption DEF TypeOK, TrackType
<1>2. CASE UNCHANGED track /\ \A m \in Munitions : m \in inferred' <=> m \in inferred
  BY <1>1, <1>2 DEF TrackMove
<1>3. ASSUME NEW i \in Instances, FireJoin(i) PROVE Goal
  <2> DEFINE m == Msg(i).munition
             new == [track[m] EXCEPT !.event = Msg(i).event]
  <2>1. Msg(i) \in FireMsg /\ UNCHANGED inferred
    BY <1>3, MsgType DEF FireJoin, history
  <2>2. CASE ~Unlabelled(m)
    BY <1>2, <1>3, <2>1, <2>2 DEF FireJoin
  <2>3. CASE Unlabelled(m) /\ m \in Munitions
    <3>1. Msg(i).event \in Events /\ track[m] \in TrackRow /\ track[m].event = None
      BY <1>1, <2>1, <2>3 DEF FireMsg, Unlabelled
    <3>2. new \in TrackRow /\ SameTrack(new, track[m])
      BY <3>1 DEF TrackRow, SameTrack
    <3>3. track' = [track EXCEPT ![m] = new]
      BY <1>3, <2>3 DEF FireJoin
    <3>4. track'[m] = new
      BY <1>1, <2>3, <3>3
    <3> HIDE DEF new, m
    <3>5. TrackMove(m)
      BY <2>1, <3>1, <3>2, <3>4 DEF TrackMove
    <3> QED
      BY <2>1, <2>3, <3>2, <3>3, <3>5, OneTrack
  <2>4. CASE m \notin Munitions
    <3>1. track' = track
      BY <1>1, <1>3, <2>4 DEF FireJoin
    <3> QED
      BY <1>2, <2>1, <3>1
  <2> QED
    BY <2>2, <2>3, <2>4
<1>4. ASSUME NEW i \in Instances, DetonationTerminate(i) PROVE Goal
  <2> DEFINE m == DetonatedMunition(Msg(i))
             k == enext[i]
  <2>1. /\ Msg(i) \in DetonationMsg /\ k \in 1..Len(elog) /\ UNCHANGED inferred
        /\ Msg(i).type = "detonation"
    BY <1>4, MsgType DEF DetonationTerminate, history
  <2>2. m \in Munitions \cup {None}
    BY <2>1 DEF DetonatedMunition, DetonationMsg, TypeOK, LaunchType, LaunchRow
  <2>3. CASE m = None \/ track[m] = None
    <3>1. track' = track
      BY <1>4, <2>3 DEF DetonationTerminate
    <3> QED
      BY <1>2, <2>1, <3>1
  <2>4. CASE m # None /\ track[m] # None
    <3>1. m \in Munitions /\ track[m] \in TrackRow
      BY <1>1, <2>2, <2>4
    <3>2. PICK row \in Healed(m, track[m]) :
            track' = [track EXCEPT ![m] = Resolved(row, Msg(i).result)]
      BY <1>4, <2>4 DEF DetonationTerminate
    <3>3. Detonates(k, m) /\ elog[k] = Msg(i) /\ Msg(i).result \in Results
      BY <2>1 DEF Detonates, Msg, DetonationMsg
    <3> HIDE DEF m, k
    <3>4. row \in TrackRow /\ SameTrack(row, track[m])
      BY <3>1, HealedRow DEF SameTrack
    <3>5. Resolved(row, Msg(i).result) \in TrackRow
      BY <3>3, <3>4, ResolvedRow
    <3>6. track'[m] = Resolved(row, elog[k].result)
      BY <1>1, <3>1, <3>2, <3>3
    <3>7. TrackMove(m)
      BY <2>1, <3>1, <3>3, <3>4, <3>6 DEF TrackMove
    <3> QED
      BY <2>1, <3>1, <3>2, <3>5, <3>7, OneTrack
  <2> QED
    BY <2>3, <2>4
<1>5. ASSUME NEW i \in Instances, TrackAdvance(i) PROVE Goal
  BY <1>5, SampleType, AdvanceStep DEF TrackAdvance, history
<1>6. ASSUME NEW i \in Instances, TrackInsert(i) PROVE Goal
  <2> DEFINE s == tlog[tnext[i]]
             m == s.munition
             new == [event |-> twork[i].seen, sampleAt |-> s.at, heardAt |-> now,
                     state |-> "flight", result |-> None, late |-> FALSE]
  <2>1. s \in Sample /\ UNCHANGED inferred
    BY <1>6, SampleType DEF TrackInsert, history
  <2>2. CASE track[m] # None
    BY <1>6, <2>1, <2>2, AdvanceStep DEF TrackInsert
  <2>3. CASE track[m] = None
    <3>1. track' = [track EXCEPT ![m] = new]
      BY <1>6, <2>3 DEF TrackInsert
    <3>2. /\ twork[i].seen \in Events \cup {None} /\ now \in Time
          /\ m \in Munitions /\ s.at \in Time
      BY <2>1 DEF TypeOK, TWorkType, TWork, DataType, Sample
    <3>3. new \in TrackRow /\ new.state = "flight"
      BY <3>2 DEF TrackRow, States
    <3>4. track'[m] = new
      BY <1>1, <3>1, <3>2
    <3> HIDE DEF s, m, new
    <3>5. TrackMove(m)
      BY <2>1, <2>3, <3>3, <3>4 DEF TrackMove
    <3> QED
      BY <2>1, <3>1, <3>2, <3>3, <3>5, OneTrack
  <2> QED
    BY <2>2, <2>3
<1>7. CASE SilenceSweep
  <2>1. \A m \in Munitions :
          track'[m] = IF Quiet(m) THEN [track[m] EXCEPT !.state = "inferred"]
                      ELSE track[m]
    BY <1>7 DEF SilenceSweep
  <2>2. \A m \in Munitions : m \in inferred' <=> m \in inferred \/ Quiet(m)
    BY <1>7 DEF SilenceSweep
  <2>3. ASSUME NEW m \in Munitions, Quiet(m)
        PROVE  /\ track[m] \in TrackRow /\ track[m].state = "flight"
               /\ track'[m] \in TrackRow
    BY <1>1, <2>1, <2>3 DEF Quiet, TrackRow, States
  <2>4. track' \in [Munitions -> TrackRow \cup {None}]
    <3>1. track' = [m \in Munitions |-> track'[m]]
      BY <1>7 DEF SilenceSweep
    <3>2. \A m \in Munitions : track'[m] \in TrackRow \cup {None}
      BY <1>1, <2>1, <2>3
    <3> QED
      BY <3>1, <3>2
  <2> QED
    BY <2>1, <2>2, <2>3, <2>4 DEF TrackMove
<1>8. CASE HealSweep
  <2>1. PICK pick \in [Healable -> Events] :
          track' = [m \in Munitions |-> IF m \in Healable
                                        THEN [track[m] EXCEPT !.event = pick[m]]
                                        ELSE track[m]]
    BY <1>8 DEF HealSweep
  <2>2. ASSUME NEW m \in Munitions, m \in Healable
        PROVE  track[m] \in TrackRow /\ SameTrack(track'[m], track[m])
    <3>1. track[m] \in TrackRow /\ track[m].event = None /\ pick[m] \in Events
      BY <1>1, <2>2 DEF Healable, Unlabelled
    <3>2. track'[m] = [track[m] EXCEPT !.event = pick[m]]
      BY <2>1, <2>2
    <3> QED
      BY <3>1, <3>2 DEF SameTrack, TrackRow
  <2>3. \A m \in Munitions : m \notin Healable => track'[m] = track[m]
    BY <2>1
  <2>4. track' \in [Munitions -> TrackRow \cup {None}]
    <3>1. track' = [m \in Munitions |-> track'[m]]
      BY <2>1
    <3>2. \A m \in Munitions : track'[m] \in TrackRow \cup {None}
      BY <1>1, <2>2, <2>3 DEF SameTrack
    <3> QED
      BY <3>1, <3>2
  <2>5. UNCHANGED inferred
    BY <1>8 DEF HealSweep, history
  <2> QED
    BY <2>2, <2>3, <2>4, <2>5 DEF TrackMove
<1>9. CASE EffectorSweep
  <2>1. \A m \in Munitions : m \notin Events
    BY EffectorAssumption
  <2> QED
    BY <1>2, <1>9, <2>1 DEF EffectorSweep
<1> QED
  BY <1>2, <1>3, <1>4, <1>5, <1>6, <1>7, <1>8, <1>9
  DEF Next, vars, store, history, EffectorStep, TrackStep, FireAdmit, Refuse,
      FireAppend, DetonationApply, ResupplyAdmit, ResupplyAppend,
      TrackReadLaunch, SwallowEffector, SwallowSample, Crash, Tick, Admission

-----------------------------------------------------------------------------
(* The theorems.                                                            *)

\* Whatever instances, sweeps and faults do, every row, place and position of
\* the model keeps its type: no message makes a row the schema does not have.
THEOREM TypeCorrect == Spec => []TypeOK
<1>1. Init => TypeOK
  <2> SUFFICES ASSUME Init PROVE TypeOK
    OBVIOUS
  <2> USE EffectorAssumption DEF Init
  <2>1. DataType
    BY DEF DataType, Time
  <2>2. LaunchType /\ TrackType
    BY DEF LaunchType, TrackType
  <2>3. EWorkType
    <3>1. EIdle \in EWork /\ EIdle.pc # "supply" /\ EIdle.left = {}
      BY DEF EIdle, EWork
    <3>2. 1 \in 1..Len(elog) + 1
      BY <2>1 DEF DataType
    <3> QED
      BY <3>1, <3>2 DEF EWorkType
  <2>4. TWorkType
    <3>1. TIdle \in TWork
      BY DEF TIdle, TWork
    <3>2. 1 \in 1..Len(tlog) + 1
      BY <2>1 DEF DataType
    <3> QED
      BY <3>1, <3>2 DEF TWorkType
  <2>5. HistoryType
    BY DEF HistoryType
  <2> QED
    BY <2>1, <2>2, <2>3, <2>4, <2>5 DEF TypeOK
<1>2. TypeOK /\ [Next]_vars => TypeOK'
  BY DataTypeStep, LaunchStep, TrackStepMoves, EWorkTypeStep, TWorkTypeStep,
     HistoryTypeStep DEF TypeOK, LaunchType, TrackType
<1> QED
  BY <1>1, <1>2, PTL DEF Spec

\* A result is final, for any number of instances, replays and sweeps, in any
\* order of their statements: a launch row that carries a detonation never
\* changes again, and a track keeps its outcome.
THEOREM ResultsAreFinal == Spec => RealOutcomesStay
<1>1. ASSUME TypeOK, [Next]_vars
      PROVE  /\ \A e \in Events : Real(launch[e]) => launch'[e] = launch[e]
             /\ \A m \in Munitions : Real(track[m]) =>
                  /\ Real(track'[m])
                  /\ track'[m].result = track[m].result
                  /\ track'[m].late = track[m].late
  <2>1. None \notin TrackRow /\ \A e \in Events : LaunchMove(e)
    BY <1>1, LaunchStep, EffectorAssumption
  <2>2. ASSUME NEW e \in Events, Real(launch[e]) PROVE launch'[e] = launch[e]
    <3>1. ASSUME NEW r \in Results, launch[e] \in LaunchRow,
                 launch'[e] = Resolved(launch[e], r)
          PROVE  launch'[e] = launch[e]
      BY <2>2, <3>1, ResolvedRow DEF Real
    <3> QED
      BY <2>1, <2>2, <3>1 DEF LaunchMove, Real
  <2>3. ASSUME NEW m \in Munitions, Real(track[m])
        PROVE  /\ Real(track'[m])
               /\ track'[m].result = track[m].result
               /\ track'[m].late = track[m].late
    <3>1. TrackMove(m)
      BY <1>1, TrackStepMoves
    <3>2. ASSUME NEW row, SameTrack(row, track[m]), track'[m] = row
          PROVE  /\ Real(track'[m])
                 /\ track'[m].result = track[m].result
                 /\ track'[m].late = track[m].late
      BY <2>1, <2>3, <3>2 DEF SameTrack, Real
    <3>3. ASSUME NEW row \in TrackRow, SameTrack(row, track[m]), NEW r \in Results,
                 track'[m] = Resolved(row, r)
          PROVE  track'[m] = row
      BY <2>3, <3>3, ResolvedRow DEF SameTrack, Real
    <3> QED
      BY <2>3, <3>1, <3>2, <3>3 DEF TrackMove, Real, Detonates
  <2> QED
    BY <2>2, <2>3
<1>2. TypeOK /\ [Next]_vars =>
        [/\ \A e \in Events : Real(launch[e]) => launch'[e] = launch[e]
         /\ \A m \in Munitions : Real(track[m]) =>
              /\ Real(track'[m])
              /\ track'[m].result = track[m].result
              /\ track'[m].late = track[m].late]_vars
  BY <1>1
<1> QED
  BY <1>2, TypeCorrect, PTL DEF Spec, RealOutcomesStay

\* A joined track is never re-homed, whichever of the Fire, the insert, the
\* terminating heal and the sweep labelled it, and no track row goes away.
THEOREM LabelsAreFinal == Spec => NeverRehomed
<1>1. ASSUME TypeOK, [Next]_vars, NEW m \in Munitions, track[m] # None
      PROVE  /\ track'[m] # None
             /\ track[m].event # None => track'[m].event = track[m].event
  <2>1. TrackMove(m) /\ None \notin TrackRow
    BY <1>1, TrackStepMoves, EffectorAssumption
  <2>2. ASSUME NEW row \in TrackRow, SameTrack(row, track[m]), NEW r \in Results,
               track'[m] = Resolved(row, r)
        PROVE  track'[m] \in TrackRow /\ track'[m].event = row.event
    <3>1. Resolved(row, r).event = row.event
      BY DEF Resolved, TrackRow
    <3> QED
      BY <2>2, <3>1, ResolvedRow
  <2>3. ASSUME track[m] \in TrackRow,
               track'[m] = [track[m] EXCEPT !.state = "inferred"]
        PROVE  track'[m] \in TrackRow /\ track'[m].event = track[m].event
    BY <2>3 DEF TrackRow, States
  <2> QED
    BY <1>1, <2>1, <2>2, <2>3 DEF TrackMove, SameTrack, Detonates
<1>2. TypeOK /\ [Next]_vars =>
        [\A m \in Munitions :
            /\ track[m] # None => track'[m] # None
            /\ track[m] # None /\ track[m].event # None
               => track'[m].event = track[m].event]_vars
  BY <1>1
<1> QED
  BY <1>2, TypeCorrect, PTL DEF Spec, NeverRehomed

-----------------------------------------------------------------------------
(* What a sweep gave up on.                                                 *)

\* inferred is what the rows say: not of a row in flight or not there, always
\* of one that carries the inference, and of a real one as late_terminal says.
Told(x, row) ==
    /\ row = None \/ row.state = "flight" => x \notin inferred
    /\ row # None /\ row.state = "inferred" => x \in inferred
    /\ Real(row) => (row.late <=> x \in inferred)

LateInv ==
    /\ \A e \in Events : Told(e, launch[e])
    /\ \A m \in Munitions : Told(m, track[m])

\* A resolved row is told of as before.
LEMMA ToldResolved ==
    ASSUME NEW R \in {LaunchRow, TrackRow}, NEW row \in R, NEW r \in Results,
           NEW x, Told(x, row), None \notin R, x \in inferred' <=> x \in inferred
    PROVE  /\ Resolved(row, r) # None /\ Resolved(row, r).state = "real"
           /\ Resolved(row, r).late <=> x \in inferred'
<1>1. /\ row # None /\ row.state \in States
      /\ Resolved(row, r) \in R /\ Resolved(row, r).state = "real"
  <2>1. Resolved(row, r) \in R /\ Resolved(row, r).state = "real"
    BY ResolvedRow
  <2>2. row.state \in States
    <3>1. CASE row \in LaunchRow
      BY <3>1 DEF LaunchRow
    <3>2. CASE row \in TrackRow
      BY <3>2 DEF TrackRow
    <3> QED
      BY <3>1, <3>2
  <2> QED
    BY <2>1, <2>2
<1>2. CASE row.state = "real"
  <2>1. Resolved(row, r) = row
    BY <1>2, ResolvedRow
  <2> QED
    BY <1>1, <1>2, <2>1 DEF Told, Real
<1>3. CASE row.state # "real"
  <2>1. Resolved(row, r).late = (row.state = "inferred")
    BY <1>3, ResolvedRow
  <2>2. row.state = "inferred" <=> x \in inferred
    BY <1>1, <1>3 DEF Told, States
  <2>3. Resolved(row, r).late <=> row.state = "inferred"
    BY <2>1, Zenon
  <2> QED
    BY <1>1, <2>2, <2>3, Zenon
<1> QED
  BY <1>2, <1>3

LEMMA LateStep ==
    ASSUME TypeOK, LateInv, [Next]_vars PROVE LateInv'
<1>1. /\ None \notin LaunchRow /\ None \notin TrackRow
      /\ \A e \in Events : LaunchMove(e) /\ launch'[e] \in LaunchRow \cup {None}
      /\ \A m \in Munitions : TrackMove(m) /\ track'[m] \in TrackRow \cup {None}
  BY LaunchStep, TrackStepMoves, EffectorAssumption
<1>2. ASSUME NEW e \in Events PROVE Told(e, launch[e])'
  <2>1. LaunchMove(e) /\ Told(e, launch[e])
    BY <1>1 DEF LateInv
  <2>2. ASSUME launch[e] \in LaunchRow, NEW r \in Results,
               launch'[e] = Resolved(launch[e], r),
               e \in inferred' <=> e \in inferred
        PROVE  Told(e, launch[e])'
    BY <1>1, <2>1, <2>2, ToldResolved DEF Told, Real
  <2>3. ASSUME launch[e] \in LaunchRow,
               launch'[e] = [launch[e] EXCEPT !.state = "inferred"], e \in inferred'
        PROVE  Told(e, launch[e])'
    <3>1. launch'[e] \in LaunchRow /\ launch'[e].state = "inferred"
      BY <2>3 DEF LaunchRow, States
    <3> QED
      BY <1>1, <2>3, <3>1 DEF Told, Real
  <2>4. ASSUME launch'[e] = launch[e], e \in inferred' <=> e \in inferred
        PROVE  Told(e, launch[e])'
    BY <2>1, <2>4 DEF Told, Real
  <2>5. ASSUME launch[e] = None, launch'[e] \in LaunchRow,
               launch'[e].state = "flight", e \in inferred' <=> e \in inferred
        PROVE  Told(e, launch[e])'
    BY <1>1, <2>1, <2>5 DEF Told, Real
  <2> QED
    BY <2>1, <2>2, <2>3, <2>4, <2>5 DEF LaunchMove
<1>3. ASSUME NEW m \in Munitions PROVE Told(m, track[m])'
  <2>1. TrackMove(m) /\ Told(m, track[m])
    BY <1>1 DEF LateInv
  <2>2. ASSUME track[m] \in TrackRow, NEW row, SameTrack(row, track[m])
        PROVE  Told(m, row) /\ row \in TrackRow
    BY <1>1, <2>1, <2>2 DEF Told, Real, SameTrack
  <2>3. ASSUME track[m] \in TrackRow, NEW row, SameTrack(row, track[m]),
               NEW r \in Results, track'[m] = Resolved(row, r),
               m \in inferred' <=> m \in inferred
        PROVE  Told(m, track[m])'
    <3>1. Told(m, row) /\ row \in TrackRow
      BY <2>2, <2>3
    <3> QED
      BY <1>1, <2>3, <3>1, ToldResolved DEF Told, Real
  <2>4. ASSUME track[m] \in TrackRow,
               track'[m] = [track[m] EXCEPT !.state = "inferred"], m \in inferred'
        PROVE  Told(m, track[m])'
    <3>1. track'[m] \in TrackRow /\ track'[m].state = "inferred"
      BY <2>4 DEF TrackRow, States
    <3> QED
      BY <1>1, <2>4, <3>1 DEF Told, Real
  <2>5. ASSUME Told(m, track'[m]), m \in inferred' <=> m \in inferred
        PROVE  Told(m, track[m])'
    BY <2>5 DEF Told, Real
  <2>6. ASSUME track[m] = None, track'[m] \in TrackRow,
               track'[m].state = "flight", m \in inferred' <=> m \in inferred
        PROVE  Told(m, track[m])'
    BY <1>1, <2>1, <2>6 DEF Told, Real
  <2>7. ASSUME track[m] \in TrackRow, SameTrack(track'[m], track[m]),
               m \in inferred' <=> m \in inferred
        PROVE  Told(m, track[m])'
    BY <2>2, <2>5, <2>7
  <2>8. ASSUME track'[m] = track[m], m \in inferred' <=> m \in inferred
        PROVE  Told(m, track[m])'
    BY <2>1, <2>5, <2>8
  <2> QED
    BY <2>1, <2>3, <2>4, <2>6, <2>7, <2>8 DEF TrackMove, Detonates
<1> QED
  BY <1>2, <1>3 DEF LateInv

\* late_terminal is truthful: a launch or track row that carries a detonation
\* is flagged late exactly when a sweep had given up on it, however often the
\* detonation is replayed and whichever instance applied it.
THEOREM LateIsTruthful == Spec => []LateIffInferred
<1>1. Init => LateInv
  <2> SUFFICES ASSUME Init PROVE LateInv
    OBVIOUS
  <2>1. inferred = {} /\ \A x : Told(x, None)
    BY DEF Init, Told, Real
  <2> QED
    BY <2>1 DEF Init, LateInv
<1>2. LateInv => LateIffInferred
  BY DEF LateInv, Told, LateIffInferred
<1>3. TypeOK /\ LateInv /\ [Next]_vars => LateInv'
  BY LateStep
<1> QED
  BY <1>1, <1>2, <1>3, TypeCorrect, PTL DEF Spec

-----------------------------------------------------------------------------
(* Whose result a track has, and what of a resupply is lost.                *)

\* The munition a detonation is of does not change once it is known.
LEMMA DetonationKeepsMunition ==
    ASSUME TypeOK, [Next]_vars, NEW k \in 1..Len(elog), NEW m \in Munitions,
           elog[k].type = "detonation", DetonatedMunition(elog[k]) = m
    PROVE  DetonatedMunition(elog[k])' = m
<1>1. elog' = elog /\ None \notin LaunchRow /\ None \notin Munitions
  BY LogsStay, EffectorAssumption
<1>2. elog[k] \in DetonationMsg
  BY DEF TypeOK, DataType, EffectorMsg, FireMsg, ResupplyMsg
<1>3. CASE elog[k].munition # None
  BY <1>1, <1>3 DEF DetonatedMunition
<1>4. CASE elog[k].munition = None
  <2> DEFINE e == elog[k].event
  <2>1. /\ e \in Events /\ LaunchMove(e)
        /\ launch[e] # None /\ launch[e].munition = m
        /\ launch[e] \in LaunchRow
    BY <1>1, <1>2, <1>4, LaunchStep
    DEF DetonatedMunition, DetonationMsg, TypeOK, LaunchType
  <2>2. launch'[e] # None /\ launch'[e].munition = m
    <3>1. ASSUME NEW r \in Results, launch'[e] = Resolved(launch[e], r)
          PROVE  launch'[e] \in LaunchRow /\ launch'[e].munition = m
      <4>1. Resolved(launch[e], r).munition = launch[e].munition
        BY <2>1 DEF Resolved, LaunchRow
      <4> QED
        BY <2>1, <3>1, <4>1, ResolvedRow
    <3>2. ASSUME launch'[e] = [launch[e] EXCEPT !.state = "inferred"]
          PROVE  launch'[e] \in LaunchRow /\ launch'[e].munition = m
      BY <2>1, <3>2 DEF LaunchRow, States
    <3> QED
      BY <1>1, <2>1, <3>1, <3>2 DEF LaunchMove
  <2> QED
    BY <1>1, <1>4, <2>2 DEF DetonatedMunition
<1> QED
  BY <1>3, <1>4

\* A track ends with the result of a detonation of its own munition, also when
\* the message names none and the launch row has to be asked for it.
THEOREM ResultIsItsOwn == Spec => []TrackResultIsItsOwn
<1>1. Init => TrackResultIsItsOwn
  BY DEF Init, TrackResultIsItsOwn, Real
<1>2. ASSUME TypeOK, TrackResultIsItsOwn, [Next]_vars,
             NEW m \in Munitions, Real(track'[m])
      PROVE  \E k \in 1..Len(elog) :
                /\ elog[k].type = "detonation"
                /\ elog[k].result = track'[m].result
                /\ DetonatedMunition(elog[k])' = m
  <2>1. TrackMove(m)
    BY <1>2, TrackStepMoves
  <2>2. ASSUME Real(track[m]), track'[m].result = track[m].result
        PROVE  \E k \in 1..Len(elog) :
                  /\ elog[k].type = "detonation"
                  /\ elog[k].result = track'[m].result
                  /\ DetonatedMunition(elog[k])' = m
    BY <1>2, <2>2, DetonationKeepsMunition DEF TrackResultIsItsOwn
  <2>3. ASSUME track[m] \in TrackRow, NEW k \in 1..Len(elog), NEW row \in TrackRow,
               Detonates(k, m), SameTrack(row, track[m]),
               track'[m] = Resolved(row, elog[k].result)
        PROVE  \E j \in 1..Len(elog) :
                  /\ elog[j].type = "detonation"
                  /\ elog[j].result = track'[m].result
                  /\ DetonatedMunition(elog[j])' = m
    <3>1. elog[k].result \in Results /\ None \notin TrackRow
      BY <2>3, EffectorAssumption DEF Detonates
    <3>2. CASE row.state = "real"
      <4>1. track'[m] = row
        BY <2>3, <3>1, <3>2, ResolvedRow
      <4> QED
        BY <2>2, <2>3, <3>1, <3>2, <4>1 DEF SameTrack, Real
    <3>3. CASE row.state # "real"
      <4>1. track'[m].result = elog[k].result
        BY <2>3, <3>1, <3>3, ResolvedRow
      <4> QED
        BY <1>2, <2>3, <4>1, DetonationKeepsMunition DEF Detonates
    <3> QED
      BY <3>2, <3>3
  <2>4. ASSUME track[m] \in TrackRow, SameTrack(track'[m], track[m])
        PROVE  Real(track[m]) /\ track'[m].result = track[m].result
    BY <1>2, <2>4, EffectorAssumption DEF SameTrack, Real
  <2>5. ASSUME track[m] \in TrackRow,
               track'[m] = [track[m] EXCEPT !.state = "inferred"]
        PROVE  track'[m].state = "inferred"
    BY <2>5 DEF TrackRow
  <2> QED
    BY <1>2, <2>1, <2>2, <2>3, <2>4, <2>5 DEF TrackMove, Real
<1>3. TypeOK /\ TrackResultIsItsOwn /\ [Next]_vars => TrackResultIsItsOwn'
  BY <1>2, LogsStay DEF TrackResultIsItsOwn, Real
<1> QED
  BY <1>1, <1>3, TypeCorrect, PTL DEF Spec

\* A worker among the lines of a resupply has appended those it left behind.
AmongLines(i) ==
    ework[i].pc = "supply" =>
        /\ enext[i] <= Len(elog) /\ Msg(i).type = "resupply"
        /\ \A t \in Msg(i).lines \ ework[i].left : <<Msg(i).event, t>> \in resupply

\* The message at k is no resupply, was refused, or has all its rows.
Complete(i, k) ==
    elog[k].type = "resupply" /\ <<i, k>> \notin refused =>
        \A t \in elog[k].lines : <<elog[k].event, t>> \in resupply

SupplyInv == ConsumedResupplyComplete /\ \A i \in Instances : AmongLines(i)

\* A worker that goes back, stays, or returns from a complete message leaves
\* only complete ones behind.
LEMMA BehindStep ==
    ASSUME TypeOK, SupplyInv, [Next]_vars, NEW i \in Instances,
           resupply \subseteq resupply', refused \subseteq refused',
           NEW j, j = enext[i],
           \/ enext'[i] \in 1..j
           \/ j \in 1..Len(elog) /\ enext'[i] = j + 1 /\ Complete(i, j)'
    PROVE  \A k \in 1..Len(elog) : k < enext'[i] => Complete(i, k)'
<1>1. elog' = elog /\ enext[i] \in Nat
  BY LogsStay DEF TypeOK, EWorkType
<1>2. ASSUME NEW k \in 1..Len(elog), k < enext[i] PROVE Complete(i, k)'
  BY <1>1, <1>2 DEF SupplyInv, ConsumedResupplyComplete, Complete
<1> QED
  BY <1>1, <1>2

\* The rows of a resupply and the refusals only grow.
LEMMA SupplyGrows ==
    ASSUME [Next]_vars PROVE resupply \subseteq resupply' /\ refused \subseteq refused'
BY DEF Next, vars, store, history, EffectorStep, TrackStep, FireAdmit, Refuse,
       FireAppend, FireJoin, DetonationApply, DetonationTerminate,
       ResupplyAdmit, ResupplyAppend, TrackAdvance, TrackReadLaunch,
       TrackInsert, SwallowEffector, SwallowSample, Crash, EffectorSweep,
       SilenceSweep, HealSweep, Tick, Admission

\* What instance i does keeps its own part, and it does nothing to another's.
InstanceSupply(i) ==
    /\ \A k \in 1..Len(elog) : k < enext[i] => Complete(i, k)
    /\ AmongLines(i)

LEMMA OwnSupplyStep ==
    ASSUME TypeOK, SupplyInv, [Next]_vars, NEW i \in Instances,
           EffectorStep(i) \/ SwallowEffector(i) \/ Crash(i)
    PROVE  InstanceSupply(i)'
<1>1. /\ elog' = elog /\ resupply \subseteq resupply' /\ refused \subseteq refused'
      /\ enext \in [Instances -> 1..Len(elog) + 1] /\ Len(elog) \in Nat
      /\ ework \in [Instances -> EWork] /\ enext[i] \in 1..enext[i]
      /\ ework[i].pc = "supply" <=> ework[i].left # {}
  BY LogsStay, SupplyGrows DEF TypeOK, EWorkType, DataType
<1>2. ASSUME Return(i), NEW j, j = enext[i], j \in 1..Len(elog), Complete(i, j)'
      PROVE  InstanceSupply(i)'
  <2>1. enext'[i] = enext[i] + 1 /\ ework'[i].pc = "idle"
    BY <1>1, <1>2 DEF Return, EIdle
  <2> QED
    BY <1>1, <1>2, <2>1, BehindStep DEF InstanceSupply, AmongLines
<1>3. ASSUME NEW pc \in {"append", "join", "terminate"}, GoTo(i, pc)
      PROVE  InstanceSupply(i)'
  <2>1. enext' = enext /\ ework'[i].pc = pc
    BY <1>1, <1>3 DEF GoTo, EWork
  <2> QED
    BY <1>1, <1>3, <2>1, BehindStep DEF InstanceSupply, AmongLines
<1>4. ASSUME Refuse(i), NEW type, Handling(i, "idle", type) PROVE InstanceSupply(i)'
  <2>1. PICK j : j = enext[i]
    OBVIOUS
  <2>2. Complete(i, j)'
    BY <1>1, <1>4, <2>1 DEF Refuse, Forgone, Msg, Complete
  <2> QED
    BY <1>2, <1>4, <2>1, <2>2, MsgType DEF Refuse
<1>5. ASSUME NEW pc, NEW type \in {"fire", "detonation"}, Handling(i, pc, type), Return(i)
      PROVE  InstanceSupply(i)'
  <2>1. PICK j : j = enext[i]
    OBVIOUS
  <2>2. elog[j].type # "resupply"
    BY <1>5, <2>1 DEF Handling
  <2>3. Complete(i, j)'
    BY <1>1, <2>2 DEF Complete
  <2> QED
    BY <1>2, <1>5, <2>1, <2>3, MsgType
<1>6. CASE FireAdmit(i)
  BY <1>3, <1>4, <1>6 DEF FireAdmit
<1>7. CASE FireAppend(i) \/ FireJoin(i)
  BY <1>3, <1>5, <1>7 DEF FireAppend, FireJoin
<1>8. CASE DetonationApply(i) \/ DetonationTerminate(i)
  BY <1>3, <1>5, <1>8 DEF DetonationApply, DetonationTerminate
<1>9. CASE ResupplyAdmit(i)
  <2>1. enext[i] \in 1..Len(elog) /\ Msg(i).type = "resupply"
    BY <1>9, MsgType DEF ResupplyAdmit
  <2>2. CASE Msg(i).lines = {} /\ Return(i)
    <3>1. PICK j : j = enext[i]
      OBVIOUS
    <3>2. Complete(i, j)'
      BY <1>1, <2>2, <3>1 DEF Complete, Msg
    <3> QED
      BY <1>2, <2>1, <2>2, <3>1, <3>2
  <2>3. CASE /\ ework' = [ework EXCEPT ![i] = [pc |-> "supply", left |-> Msg(i).lines]]
             /\ UNCHANGED enext
    <3>1. ework'[i].left = Msg(i).lines /\ Msg(i)' = Msg(i)
      BY <1>1, <2>3 DEF Msg
    <3> QED
      BY <1>1, <2>1, <2>3, <3>1, BehindStep DEF InstanceSupply, AmongLines
  <2> QED
    BY <1>4, <1>9, <2>2, <2>3 DEF ResupplyAdmit
<1>10. CASE ResupplyAppend(i)
  <2>1. /\ enext[i] \in 1..Len(elog) /\ Msg(i).type = "resupply"
        /\ ework[i].pc = "supply"
    BY <1>10, MsgType DEF ResupplyAppend, Handling
  <2>2. PICK t \in ework[i].left :
          /\ resupply' = resupply \cup {<<Msg(i).event, t>>}
          /\ IF ework[i].left = {t} THEN Return(i)
             ELSE /\ ework' = [ework EXCEPT ![i].left = @ \ {t}]
                  /\ UNCHANGED enext
    BY <1>10 DEF ResupplyAppend
  <2>3. \A u \in Msg(i).lines \ (ework[i].left \ {t}) :
          <<Msg(i).event, u>> \in resupply'
    BY <2>1, <2>2 DEF SupplyInv, AmongLines
  <2>4. CASE ework[i].left = {t}
    <3>1. PICK j : j = enext[i]
      OBVIOUS
    <3>2. Complete(i, j)'
      BY <1>1, <2>3, <2>4, <3>1 DEF Complete, Msg
    <3> QED
      BY <1>2, <2>1, <2>2, <2>4, <3>1, <3>2
  <2>5. CASE ework[i].left # {t}
    <3>1. /\ ework'[i].left = ework[i].left \ {t} /\ enext' = enext
          /\ Msg(i)' = Msg(i)
      BY <1>1, <2>2, <2>5 DEF EWork, Msg
    <3> QED
      BY <1>1, <2>1, <2>3, <3>1, BehindStep DEF InstanceSupply, AmongLines
  <2> QED
    BY <2>4, <2>5
<1>11. CASE SwallowEffector(i)
  <2>1. PICK type : Handling(i, ework[i].pc, type)
    BY <1>11 DEF SwallowEffector
  <2>2. PICK j : j = enext[i]
    OBVIOUS
  <2>3. Complete(i, j)'
    BY <1>1, <1>11, <2>2 DEF SwallowEffector, Forgone, Msg, Complete
  <2> QED
    BY <1>2, <1>11, <2>1, <2>2, <2>3, MsgType DEF SwallowEffector
<1>12. CASE Crash(i)
  <2>1. enext'[i] \in 1..enext[i] /\ ework'[i].pc = "idle"
    BY <1>1, <1>12 DEF Crash, EIdle
  <2> QED
    BY <1>1, <2>1, BehindStep DEF InstanceSupply, AmongLines
<1> QED
  BY <1>6, <1>7, <1>8, <1>9, <1>10, <1>11, <1>12 DEF EffectorStep

LEMMA OtherSupplyStep ==
    ASSUME TypeOK, SupplyInv, [Next]_vars, NEW i \in Instances,
           ework'[i] = ework[i], enext'[i] = enext[i]
    PROVE  InstanceSupply(i)'
<1>1. /\ elog' = elog /\ resupply \subseteq resupply' /\ refused \subseteq refused'
      /\ enext[i] \in 1..enext[i]
  BY LogsStay, SupplyGrows DEF TypeOK, EWorkType
<1> QED
  BY <1>1, BehindStep DEF InstanceSupply, AmongLines, SupplyInv, Msg

\* A resupply that was neither refused nor swallowed has a row for each munition
\* type on its lines once a worker is past it, wherever processes died.
THEOREM ResuppliesAreComplete == Spec => []ConsumedResupplyComplete
<1>1. Init => SupplyInv
  BY DEF Init, SupplyInv, ConsumedResupplyComplete, AmongLines, EIdle
<1>2. ASSUME TypeOK, SupplyInv, [Next]_vars PROVE SupplyInv'
  <2>1. ASSUME NEW i \in Instances PROVE InstanceSupply(i)'
    <3>1. CASE EffectorStep(i) \/ SwallowEffector(i) \/ Crash(i)
      BY <1>2, <3>1, OwnSupplyStep
    <3>2. CASE ~(EffectorStep(i) \/ SwallowEffector(i) \/ Crash(i))
      <4>1. ework'[i] = ework[i] /\ enext'[i] = enext[i]
        <5>1. ASSUME NEW j \in Instances, j # i,
                     EffectorStep(j) \/ SwallowEffector(j) \/ Crash(j)
              PROVE  ework'[i] = ework[i] /\ enext'[i] = enext[i]
          BY <1>2, <5>1
          DEF TypeOK, EWorkType, EffectorStep, FireAdmit, Refuse, FireAppend,
              FireJoin, DetonationApply, DetonationTerminate, ResupplyAdmit,
              ResupplyAppend, SwallowEffector, Crash, GoTo, Return
        <5> QED
          BY <1>2, <3>2, <5>1
          DEF Next, vars, ewvars, TrackStep, TrackAdvance, TrackReadLaunch,
              TrackInsert, SwallowSample, EffectorSweep, SilenceSweep, HealSweep,
              Tick, Admission
      <4> QED
        BY <1>2, <4>1, OtherSupplyStep
    <3> QED
      BY <3>1, <3>2
  <2> QED
    BY <1>2, <2>1, LogsStay
    DEF SupplyInv, InstanceSupply, ConsumedResupplyComplete, Complete
<1>3. SupplyInv => ConsumedResupplyComplete
  BY DEF SupplyInv
<1> QED
  BY <1>1, <1>2, <1>3, TypeCorrect, PTL DEF Spec

-----------------------------------------------------------------------------
(* What a reader is promised: the effector tables implement Outcomes.       *)

\* A launch row names the munition of a Fire of its event, and a place in the
\* sample handler holds the event of a Fire of the sample's munition.
FiredInv ==
    /\ \A e \in Events : launch[e] # None /\ launch[e].munition # None =>
          e \in FiresOf(launch[e].munition)
    /\ \A i \in Instances : twork[i].pc = "insert" /\ twork[i].seen # None =>
          twork[i].seen \in FiresOf(tlog[tnext[i]].munition)

\* A row without a detonation has no result and is not late.
Blank(row) == row = None \/ row.state = "real" \/ (row.result = None /\ row.late = FALSE)
BlankInv ==
    /\ \A e \in Events : Blank(launch[e])
    /\ \A m \in Munitions : Blank(track[m])

\* The Fires that name a munition are those of the topic, which stays.
LEMMA FiresStay ==
    ASSUME [Next]_vars, NEW m PROVE FiresOf(m)' = FiresOf(m)
BY LogsStay DEF FiresOf

\* A Fire that is being handled is among them.
LEMMA FireIsFired ==
    ASSUME TypeOK, NEW i \in Instances, NEW pc, Handling(i, pc, "fire")
    PROVE  Msg(i).event \in FiresOf(Msg(i).munition)
<1>1. enext[i] \in 1..Len(elog) /\ elog[enext[i]].type = "fire"
  BY MsgType DEF Handling
<1> QED
  BY <1>1 DEF FiresOf, Msg

\* The launch rows a heal or an insert can take are Fires of the munition.
LEMMA NewestIsFired ==
    ASSUME FiredInv, NEW m \in Munitions, None \notin Munitions
    PROVE  NewestLaunch(m) \subseteq Events \cap FiresOf(m)
BY DEF NewestLaunch, FiredInv

\* A launch row of a step is one that was there, of the same munition, or the
\* one of a Fire that is appended.
LEMMA LaunchKeeps ==
    ASSUME TypeOK, [Next]_vars, NEW e \in Events, launch[e] # None
    PROVE  launch'[e] # None /\ launch'[e].munition = launch[e].munition
<1>1. /\ launch[e] \in LaunchRow /\ LaunchMove(e) /\ None \notin LaunchRow
  BY LaunchStep, EffectorAssumption DEF TypeOK, LaunchType
<1>2. ASSUME NEW r \in Results, launch'[e] = Resolved(launch[e], r)
      PROVE  launch'[e] \in LaunchRow /\ launch'[e].munition = launch[e].munition
  <2>1. Resolved(launch[e], r).munition = launch[e].munition
    BY <1>1 DEF Resolved, LaunchRow
  <2> QED
    BY <1>1, <1>2, <2>1, ResolvedRow
<1>3. ASSUME launch'[e] = [launch[e] EXCEPT !.state = "inferred"]
      PROVE  launch'[e] \in LaunchRow /\ launch'[e].munition = launch[e].munition
  BY <1>1, <1>3 DEF LaunchRow, States
<1> QED
  BY <1>1, <1>2, <1>3 DEF LaunchMove

LEMMA FiredStep ==
    ASSUME TypeOK, FiredInv, [Next]_vars PROVE FiredInv'
<1>1. /\ elog' = elog /\ tlog' = tlog /\ None \notin Munitions
      /\ \A m : FiresOf(m)' = FiresOf(m)
  BY LogsStay, FiresStay, EffectorAssumption
<1>2. ASSUME NEW e \in Events, launch'[e] # None, launch'[e].munition # None
      PROVE  e \in FiresOf(launch'[e].munition)
  <2>1. CASE launch[e] # None
    BY <1>2, <2>1, LaunchKeeps DEF FiredInv
  <2>2. CASE launch[e] = None
    <3>1. ASSUME NEW i \in Instances, FireAppend(i)
          PROVE  e \in FiresOf(launch'[e].munition)
      <4> DEFINE ev == Msg(i).event
                 new == [munition |-> Msg(i).munition, at |-> Msg(i).at,
                         state |-> "flight", result |-> None, late |-> FALSE]
      <4>1. launch' = IF launch[ev] # None THEN launch ELSE [launch EXCEPT ![ev] = new]
        BY <3>1 DEF FireAppend
      <4>2. launch \in [Events -> LaunchRow \cup {None}]
        BY DEF TypeOK, LaunchType
      <4>3. new.munition = Msg(i).munition
        OBVIOUS
      <4> HIDE DEF ev, new
      <4>4. e = ev /\ launch'[e] = new
        BY <1>2, <2>2, <4>1, <4>2
      <4>5. ev \in FiresOf(Msg(i).munition)
        BY <3>1, FireIsFired DEF FireAppend, ev
      <4> QED
        BY <4>3, <4>4, <4>5
    <3>2. CASE UNCHANGED launch
      BY <1>2, <2>2, <3>2
    <3>3. ASSUME NEW i \in Instances, DetonationApply(i) PROVE launch'[e] = None
      BY <2>2, <3>3 DEF DetonationApply, TypeOK, LaunchType
    <3>4. CASE EffectorSweep
      BY <1>2, <2>2, <3>4 DEF EffectorSweep, Overdue
    <3> QED
      BY <1>2, <3>1, <3>2, <3>3, <3>4
      DEF Next, vars, store, history, EffectorStep, TrackStep, FireAdmit, Refuse,
          FireJoin, DetonationTerminate, ResupplyAdmit, ResupplyAppend,
          TrackAdvance, TrackReadLaunch, TrackInsert, SwallowEffector,
          SwallowSample, Crash, SilenceSweep, HealSweep, Tick, Admission
  <2> QED
    BY <2>1, <2>2
<1>3. ASSUME NEW i \in Instances, twork'[i].pc = "insert", twork'[i].seen # None
      PROVE  twork'[i].seen \in FiresOf(tlog[tnext'[i]].munition)
  <2>1. CASE UNCHANGED <<twork[i], tnext[i]>>
    BY <1>3, <2>1 DEF FiredInv
  <2>2. CASE TrackReadLaunch(i)
    <3> DEFINE m == tlog[tnext[i]].munition
    <3>1. m \in Munitions /\ tnext' = tnext
      BY <2>2, SampleType DEF TrackReadLaunch, Sample
    <3>2. PICK ev \in IF NewestLaunch(m) = {} THEN {None} ELSE NewestLaunch(m) :
            twork' = [twork EXCEPT ![i] = [pc |-> "insert", seen |-> ev]]
      BY <2>2 DEF TrackReadLaunch
    <3>3. twork'[i].seen = ev
      BY <3>2 DEF TypeOK, TWorkType
    <3> HIDE DEF m
    <3>4. ev \in NewestLaunch(m)
      BY <1>3, <3>2, <3>3
    <3>5. ev \in FiresOf(m)
      BY <1>1, <3>1, <3>4, NewestIsFired
    <3> QED
      BY <3>1, <3>3, <3>5 DEF m
  <2>3. ASSUME NEW j \in Instances, SampleReturn(j) PROVE j # i /\ UNCHANGED <<twork[i], tnext[i]>>
    <3>1. TIdle.pc = "idle"
      BY DEF TIdle
    <3> QED
      BY <1>3, <2>3, <3>1 DEF SampleReturn, TypeOK, TWorkType
  <2>4. ASSUME NEW j \in Instances, Crash(j) PROVE UNCHANGED <<twork[i], tnext[i]>>
    <3>1. TIdle.pc = "idle"
      BY DEF TIdle
    <3> QED
      BY <1>3, <2>4, <3>1 DEF Crash, TypeOK, TWorkType
  <2>5. ASSUME NEW j \in Instances, j # i, TrackReadLaunch(j)
        PROVE  UNCHANGED <<twork[i], tnext[i]>>
    BY <2>5 DEF TrackReadLaunch, TypeOK, TWorkType
  <2> QED
    BY <2>1, <2>2, <2>3, <2>4, <2>5
    DEF Next, vars, twvars, EffectorStep, TrackStep, FireAdmit, Refuse, FireAppend,
        FireJoin, DetonationApply, DetonationTerminate, ResupplyAdmit,
        ResupplyAppend, TrackAdvance, TrackInsert, Advance, SwallowEffector,
        SwallowSample, EffectorSweep, SilenceSweep, HealSweep, Tick, Admission
<1> QED
  BY <1>1, <1>2, <1>3 DEF FiredInv

\* What a Fire appends and what an insert makes is blank.
LEMMA NewIsBlank ==
    ASSUME TypeOK, [Next]_vars
    PROVE  /\ \A e \in Events : launch[e] = None => Blank(launch'[e])
           /\ \A m \in Munitions : track[m] = None => Blank(track'[m])
<1>1. /\ launch \in [Events -> LaunchRow \cup {None}]
      /\ track \in [Munitions -> TrackRow \cup {None}]
      /\ None \notin Munitions
  BY EffectorAssumption DEF TypeOK, LaunchType, TrackType
<1>2. ASSUME NEW e \in Events, launch[e] = None PROVE Blank(launch'[e])
  <2>1. ASSUME NEW i \in Instances, FireAppend(i) PROVE Blank(launch'[e])
    <3> DEFINE new == [munition |-> Msg(i).munition, at |-> Msg(i).at,
                       state |-> "flight", result |-> None, late |-> FALSE]
    <3>1. launch' = IF launch[Msg(i).event] # None THEN launch
                    ELSE [launch EXCEPT ![Msg(i).event] = new]
      BY <2>1 DEF FireAppend
    <3>2. new.result = None /\ new.late = FALSE
      OBVIOUS
    <3> HIDE DEF new
    <3>3. launch'[e] = None \/ launch'[e] = new
      BY <1>1, <1>2, <3>1
    <3> QED
      BY <3>2, <3>3 DEF Blank
  <2>2. ASSUME NEW i \in Instances, DetonationApply(i) PROVE launch'[e] = None
    BY <1>1, <1>2, <2>2 DEF DetonationApply
  <2>3. CASE EffectorSweep
    BY <1>2, <2>3 DEF EffectorSweep, Overdue, Blank
  <2> QED
    BY <1>2, <2>1, <2>2, <2>3
    DEF Next, vars, store, history, EffectorStep, TrackStep, FireAdmit, Refuse,
        FireJoin, DetonationTerminate, ResupplyAdmit, ResupplyAppend,
        TrackAdvance, TrackReadLaunch, TrackInsert, SwallowEffector,
        SwallowSample, Crash, SilenceSweep, HealSweep, Tick, Admission, Blank
<1>3. ASSUME NEW m \in Munitions, track[m] = None PROVE Blank(track'[m])
  <2>1. ASSUME NEW i \in Instances, TrackInsert(i) PROVE Blank(track'[m])
    <3> DEFINE s == tlog[tnext[i]]
               new == [event |-> twork[i].seen, sampleAt |-> s.at, heardAt |-> now,
                       state |-> "flight", result |-> None, late |-> FALSE]
    <3>1. new.result = None /\ new.late = FALSE
      OBVIOUS
    <3>2. track[s.munition] = None => track' = [track EXCEPT ![s.munition] = new]
      BY <2>1 DEF TrackInsert
    <3> HIDE DEF new
    <3>3. track'[m] = None \/ track'[m] = new
      BY <1>1, <1>3, <2>1, <3>2 DEF TrackInsert, Advance
    <3> QED
      BY <3>1, <3>3 DEF Blank
  <2>2. ASSUME NEW i \in Instances, FireJoin(i) \/ DetonationTerminate(i) \/ TrackAdvance(i)
        PROVE  track'[m] = None
    BY <1>1, <1>3, <2>2
    DEF FireJoin, Unlabelled, DetonationTerminate, TrackAdvance, Advance
  <2>3. CASE SilenceSweep \/ HealSweep
    BY <1>3, <2>3 DEF SilenceSweep, Quiet, HealSweep, Healable, Unlabelled, Blank
  <2> QED
    BY <1>3, <2>1, <2>2, <2>3
    DEF Next, vars, store, history, EffectorStep, TrackStep, FireAdmit, Refuse,
        FireAppend, DetonationApply, ResupplyAdmit, ResupplyAppend,
        TrackReadLaunch, SwallowEffector, SwallowSample, Crash, EffectorSweep,
        Tick, Admission, Blank
<1> QED
  BY <1>2, <1>3

LEMMA BlankStep ==
    ASSUME TypeOK, BlankInv, [Next]_vars PROVE BlankInv'
<1>1. /\ None \notin LaunchRow /\ None \notin TrackRow
      /\ \A e \in Events : LaunchMove(e)
      /\ \A m \in Munitions : TrackMove(m)
  BY LaunchStep, TrackStepMoves, EffectorAssumption
<1>2. ASSUME NEW e \in Events PROVE Blank(launch'[e])
  <2>1. LaunchMove(e) /\ Blank(launch[e])
    BY <1>1 DEF BlankInv
  <2>2. ASSUME launch[e] \in LaunchRow, NEW r \in Results,
               launch'[e] = Resolved(launch[e], r)
        PROVE  launch'[e].state = "real"
    BY <2>2, ResolvedRow
  <2>3. ASSUME launch[e] \in LaunchRow, launch[e].state = "flight",
               launch'[e] = [launch[e] EXCEPT !.state = "inferred"]
        PROVE  launch'[e].result = None /\ launch'[e].late = FALSE
    BY <1>1, <2>1, <2>3 DEF LaunchRow, Blank
  <2> QED
    BY <2>1, <2>2, <2>3, NewIsBlank DEF LaunchMove, Blank
<1>3. ASSUME NEW m \in Munitions PROVE Blank(track'[m])
  <2>1. TrackMove(m) /\ Blank(track[m])
    BY <1>1 DEF BlankInv
  <2>2. ASSUME NEW row \in TrackRow, NEW r \in Results, track'[m] = Resolved(row, r)
        PROVE  track'[m].state = "real"
    BY <2>2, ResolvedRow
  <2>3. ASSUME track[m] \in TrackRow, track[m].state = "flight",
               track'[m] = [track[m] EXCEPT !.state = "inferred"]
        PROVE  track'[m].result = None /\ track'[m].late = FALSE
    BY <1>1, <2>1, <2>3 DEF TrackRow, Blank
  <2>4. ASSUME track[m] \in TrackRow, SameTrack(track'[m], track[m])
        PROVE  Blank(track'[m])
    BY <1>1, <2>1, <2>4 DEF SameTrack, Blank
  <2> QED
    BY <2>1, <2>2, <2>3, <2>4, NewIsBlank DEF TrackMove, Blank, Detonates
<1> QED
  BY <1>2, <1>3 DEF BlankInv, Blank

\* Results reported of a round or a munition are not taken back, and none is
\* added but by a launch row that comes in.
LEMMA ReportsGrow ==
    ASSUME TypeOK, [Next]_vars, NEW x \in Events \cup Munitions
    PROVE  ReportsOf(x) \subseteq ReportsOf(x)'
<1>1. elog' = elog
  BY LogsStay
<1>2. ASSUME NEW k \in 1..Len(elog), elog[k].type = "detonation", x \notin Events,
             DetonatedMunition(elog[k]) = x
      PROVE  DetonatedMunition(elog[k])' = x
  BY <1>2, DetonationKeepsMunition
<1> QED
  BY <1>1, <1>2 DEF ReportsOf

LEMMA ReportsSame ==
    ASSUME TypeOK, [Next]_vars, NEW x \in Events \cup Munitions,
           \A e \in Events : launch[e] = None => launch'[e] = None
    PROVE  ReportsOf(x)' = ReportsOf(x)
<1>1. elog' = elog
  BY LogsStay
<1>2. ASSUME NEW k \in 1..Len(elog), elog[k].type = "detonation"
      PROVE  DetonatedMunition(elog[k])' = DetonatedMunition(elog[k])
  <2>1. elog[k] \in DetonationMsg
    BY <1>2 DEF TypeOK, DataType, EffectorMsg, FireMsg, ResupplyMsg
  <2>2. elog[k].event \in Events
    BY <2>1 DEF DetonationMsg
  <2> QED
    BY <1>1, <2>2, LaunchKeeps DEF DetonatedMunition
<1> QED
  BY <1>1, <1>2 DEF ReportsOf

\* The rows and owners after a step.
NextRow(x) == IF x \in Events THEN launch'[x] ELSE track'[x]
OwnerIn(row) == IF row = None THEN None ELSE row.event

LEMMA ShownNext ==
    /\ ShownOutcomes' = [x \in Events \cup Munitions |-> OutcomeIn(NextRow(x))]
    /\ ShownOwners' = [m \in Munitions |-> OwnerIn(track'[m])]
    /\ Reported' = [x \in Events \cup Munitions |-> ReportsOf(x)']
    /\ Fired' = [m \in Munitions |-> FiresOf(m)']
BY DEF ShownOutcomes, OutcomeIn, RowOf, NextRow, ShownOwners, OwnerIn, Reported,
       Fired

\* The four shown variables, of a step that leaves a part of them alone.
LEMMA ShownFires ==
    ASSUME [Next]_vars PROVE Fired' = Fired
BY ShownNext, FiresStay DEF Fired

LEMMA ShownReports ==
    ASSUME TypeOK, [Next]_vars,
           \A e \in Events : launch[e] = None => launch'[e] = None
    PROVE  Reported' = Reported
BY ShownNext, ReportsSame DEF Reported

\* One row changes: the outcome shown changes there.
LEMMA OneOutcome ==
    ASSUME NEW x \in Events \cup Munitions,
           \A y \in Events \cup Munitions : y # x => NextRow(y) = RowOf(y)
    PROVE  ShownOutcomes' = [ShownOutcomes EXCEPT ![x] = OutcomeIn(NextRow(x))]
BY ShownNext DEF ShownOutcomes

\* Only results are reported.
LEMMA ReportedType ==
    ASSUME elog \in Seq(EffectorMsg)
    PROVE  Reported \in [Events \cup Munitions -> SUBSET Results]
<1>1. ASSUME NEW k \in 1..Len(elog), elog[k].type = "detonation"
      PROVE  elog[k].result \in Results
  BY <1>1 DEF EffectorMsg, FireMsg, ResupplyMsg, DetonationMsg
<1> QED
  BY <1>1 DEF Reported, ReportsOf

LEMMA ReportedNext ==
    ASSUME TypeOK, [Next]_vars
    PROVE  Reported' \in [Events \cup Munitions -> SUBSET Results]
<1>1. elog' \in Seq(EffectorMsg)
  BY LogsStay DEF TypeOK, DataType
<1>2. ASSUME NEW k \in 1..Len(elog'), elog'[k].type = "detonation"
      PROVE  elog'[k].result \in Results
  BY <1>1, <1>2 DEF EffectorMsg, FireMsg, ResupplyMsg, DetonationMsg
<1> QED
  BY <1>2 DEF Reported, ReportsOf

LEMMA SameOwners ==
    ASSUME track' = track PROVE ShownOwners' = ShownOwners
BY ShownNext DEF ShownOwners, OwnerIn

\* Labels that only go to unlabelled tracks, from their own Fires.
Labels(S) ==
    \A m \in Munitions : OwnerIn(track'[m]) # OwnerIn(track[m]) =>
        m \in S /\ OwnerIn(track[m]) = None /\ OwnerIn(track'[m]) \in FiresOf(m)

LEMMA LabelImplements ==
    ASSUME TypeOK, [Next]_vars, NEW S, Labels(S) PROVE Promise!Label(S)
<1>1. \A m \in Munitions : /\ ShownOwners[m] = OwnerIn(track[m])
                           /\ ShownOwners'[m] = OwnerIn(track'[m])
                           /\ Fired[m] = FiresOf(m)
  BY ShownNext DEF ShownOwners, OwnerIn, Fired
<1>2. ShownOwners' \in [Munitions -> Events \cup {None}]
  <2>1. track' \in [Munitions -> TrackRow \cup {None}]
    BY TrackStepMoves
  <2>2. \A m \in Munitions : OwnerIn(track'[m]) \in Events \cup {None}
    BY <2>1 DEF OwnerIn, TrackRow
  <2> QED
    BY <2>2, ShownNext
<1> QED
  BY <1>1, <1>2 DEF Promise!Label, Labels

-----------------------------------------------------------------------------
(* One lemma per action of Outcomes.                                        *)

OthersStay(x) ==
    \A y \in Events \cup Munitions : y # x => NextRow(y) = RowOf(y)

\* Rows do not come in, so that no more is reported.
NoLaunch == \A e \in Events : launch[e] = None => launch'[e] = None

LEMMA OpenImplements ==
    ASSUME TypeOK, [Next]_vars, NEW x \in Events \cup Munitions,
           RowOf(x) = None, NextRow(x) # None, NextRow(x).state = "flight",
           Blank(NextRow(x)), OthersStay(x), Labels({x})
    PROVE  Promise!Open(x)
<1>1. ShownOutcomes[x] = Promise!Unseen
  BY DEF ShownOutcomes, OutcomeIn, Promise!Unseen
<1>2. OutcomeIn(NextRow(x)) = Promise!Flying
  BY DEF OutcomeIn, Blank, Promise!Flying
<1>3. ShownOutcomes' = [ShownOutcomes EXCEPT ![x] = Promise!Flying]
  BY <1>2, OneOutcome DEF OthersStay
<1>4. \A y \in Events \cup Munitions : Reported[y] \subseteq Reported'[y]
  BY ShownNext, ReportsGrow DEF Reported
<1>5. Promise!Label({x}) /\ Fired' = Fired
  BY LabelImplements, ShownFires
<1> QED
  BY <1>1, <1>3, <1>4, <1>5, ReportedNext DEF Promise!Open, Promise!Rows

LEMMA EndImplements ==
    ASSUME TypeOK, [Next]_vars, NEW x \in Events \cup Munitions,
           RowOf(x) # None, RowOf(x).state \in {"flight", "inferred"},
           Blank(RowOf(x)), NEW r \in ReportsOf(x), NextRow(x) # None,
           NextRow(x).state = "real", NextRow(x).result = r,
           NextRow(x).late = (RowOf(x).state = "inferred"),
           OthersStay(x), NoLaunch, Labels({x})
    PROVE  Promise!End(x)
<1>1. CASE RowOf(x).state = "flight"
  <2>1. NextRow(x).late = FALSE
    BY <1>1
  <2>2. ShownOutcomes[x] = Promise!Flying
    BY <1>1 DEF ShownOutcomes, OutcomeIn, Blank, Promise!Flying
  <2>3. OutcomeIn(NextRow(x)) = Promise!Ended(r, FALSE)
    BY <2>1 DEF OutcomeIn, Promise!Ended
  <2>4. ShownOutcomes' = [ShownOutcomes EXCEPT ![x] = Promise!Ended(r, FALSE)]
    BY <2>3, OneOutcome DEF OthersStay
  <2>5. r \in Reported[x] /\ Reported' = Reported /\ Fired' = Fired
    BY ShownReports, ShownFires DEF Reported, NoLaunch
  <2> QED
    BY <2>2, <2>4, <2>5, LabelImplements DEF Promise!End
<1>2. CASE RowOf(x).state = "inferred"
  <2>1. NextRow(x).late = TRUE
    BY <1>2
  <2>2. ShownOutcomes[x] = Promise!GivenUp
    BY <1>2 DEF ShownOutcomes, OutcomeIn, Blank, Promise!GivenUp
  <2>3. OutcomeIn(NextRow(x)) = Promise!Ended(r, TRUE)
    BY <2>1 DEF OutcomeIn, Promise!Ended
  <2>4. ShownOutcomes' = [ShownOutcomes EXCEPT ![x] = Promise!Ended(r, TRUE)]
    BY <2>3, OneOutcome DEF OthersStay
  <2>5. r \in Reported[x] /\ Reported' = Reported /\ Fired' = Fired
    BY ShownReports, ShownFires DEF Reported, NoLaunch
  <2> QED
    BY <2>2, <2>4, <2>5, LabelImplements DEF Promise!End
<1> QED
  BY <1>1, <1>2

LEMMA GiveUpImplements ==
    ASSUME TypeOK, [Next]_vars, NEW S \in SUBSET (Events \cup Munitions),
           \A x \in S : /\ RowOf(x) # None /\ RowOf(x).state = "flight"
                        /\ Blank(RowOf(x))
                        /\ NextRow(x) # None /\ NextRow(x).state = "inferred"
                        /\ Blank(NextRow(x)),
           \A x \in (Events \cup Munitions) \ S : NextRow(x) = RowOf(x),
           \A m \in Munitions : OwnerIn(track'[m]) = OwnerIn(track[m]), NoLaunch
    PROVE  Promise!GiveUp
<1>1. \A x \in S : /\ ShownOutcomes[x] = Promise!Flying
                   /\ OutcomeIn(NextRow(x)) = Promise!GivenUp
  BY DEF ShownOutcomes, OutcomeIn, Blank, Promise!Flying, Promise!GivenUp
<1>2. \A x \in (Events \cup Munitions) \ S : OutcomeIn(NextRow(x)) = ShownOutcomes[x]
  BY DEF ShownOutcomes
<1>3. ShownOutcomes' = [x \in Promise!Rows |-> IF x \in S THEN Promise!GivenUp
                                               ELSE ShownOutcomes[x]]
  BY <1>1, <1>2, ShownNext DEF Promise!Rows
<1>4. S \in SUBSET {x \in Promise!Rows : ShownOutcomes[x] = Promise!Flying}
  BY <1>1 DEF Promise!Rows
<1>5. ShownOwners' = ShownOwners
  BY ShownNext DEF ShownOwners, OwnerIn
<1>6. Reported' = Reported /\ Fired' = Fired
  BY ShownReports, ShownFires DEF NoLaunch
<1> QED
  BY <1>3, <1>4, <1>5, <1>6 DEF Promise!GiveUp

LEMMA HealImplements ==
    ASSUME TypeOK, [Next]_vars, NoLaunch,
           \A x \in Events \cup Munitions :
              OutcomeIn(NextRow(x)) = OutcomeIn(RowOf(x)),
           Labels({m \in Munitions : track[m] # None})
    PROVE  Promise!Heal
<1>1. ShownOutcomes' = ShownOutcomes
  BY ShownNext DEF ShownOutcomes
<1>2. Reported' = Reported /\ Fired' = Fired
  BY ShownReports, ShownFires DEF NoLaunch
<1>3. \A m \in Munitions : track[m] # None => ShownOutcomes[m] # Promise!Unseen
  <2>1. track \in [Munitions -> TrackRow \cup {None}] /\ Events \cap Munitions = {}
    BY EffectorAssumption DEF TypeOK, TrackType
  <2> SUFFICES ASSUME NEW m \in Munitions, track[m] # None
               PROVE  ShownOutcomes[m] # Promise!Unseen
    OBVIOUS
  <2>2. RowOf(m) = track[m] /\ track[m].state \in States
    BY <2>1 DEF RowOf, TrackRow
  <2>3. ShownOutcomes[m] = OutcomeIn(track[m])
    BY <2>2 DEF ShownOutcomes
  <2>4. ShownOutcomes[m].state = track[m].state
    BY <2>3 DEF OutcomeIn
  <2> QED
    BY <2>2, <2>4 DEF States, Promise!Unseen
<1>4. Labels({m \in Munitions : ShownOutcomes[m] # Promise!Unseen})
  BY <1>3 DEF Labels
<1> QED
  BY <1>1, <1>2, <1>4, LabelImplements DEF Promise!Heal

-----------------------------------------------------------------------------
(* One lemma per statement of the handlers and sweeps that writes a row.    *)

\* Nothing of the mapped state changes where neither table does.
LEMMA NoWriteImplements ==
    ASSUME TypeOK, [Next]_vars, launch' = launch, track' = track
    PROVE  UNCHANGED Promise!vars
<1>1. \A x \in Events \cup Munitions : NextRow(x) = RowOf(x)
  BY DEF NextRow, RowOf
<1>2. ShownOutcomes' = ShownOutcomes
  BY <1>1, ShownNext DEF ShownOutcomes
<1> QED
  BY <1>2, SameOwners, ShownReports, ShownFires DEF Promise!vars

\* Where the tracks stay no label changes.
LEMMA NoLabel ==
    ASSUME track' = track, NEW S PROVE Labels(S)
BY DEF Labels

LEMMA FireAppendImplements ==
    ASSUME TypeOK, [Next]_vars, NEW i \in Instances, FireAppend(i)
    PROVE  [Promise!Next]_(Promise!vars)
<1> DEFINE e == Msg(i).event
           new == [munition |-> Msg(i).munition, at |-> Msg(i).at,
                   state |-> "flight", result |-> None, late |-> FALSE]
<1>1. /\ Msg(i) \in FireMsg /\ track' = track
      /\ launch' = IF launch[e] # None THEN launch ELSE [launch EXCEPT ![e] = new]
      /\ launch \in [Events -> LaunchRow \cup {None}]
  BY MsgType DEF FireAppend, TypeOK, LaunchType
<1>2. e \in Events /\ new \in LaunchRow /\ new # None
  <2>1. e \in Events /\ new \in LaunchRow
    BY <1>1 DEF FireMsg, LaunchRow, States
  <2>2. None \notin LaunchRow
    BY EffectorAssumption
  <2> HIDE DEF new
  <2> QED
    BY <2>1, <2>2
<1>3. CASE launch[e] # None
  BY <1>1, <1>3, NoWriteImplements
<1>4. CASE launch[e] = None
  <2>1. new.state = "flight" /\ new.result = None /\ new.late = FALSE
    OBVIOUS
  <2> HIDE DEF e, new
  <2>2. RowOf(e) = None /\ NextRow(e) = new /\ OthersStay(e)
    BY <1>1, <1>2, <1>4 DEF RowOf, NextRow, OthersStay
  <2>3. Promise!Open(e)
    BY <1>1, <1>2, <2>1, <2>2, OpenImplements, NoLabel DEF Blank
  <2> QED
    BY <1>2, <2>3 DEF Promise!Next, Promise!Rows
<1> QED
  BY <1>3, <1>4

LEMMA DetonationApplyImplements ==
    ASSUME TypeOK, BlankInv, [Next]_vars, NEW i \in Instances, DetonationApply(i)
    PROVE  [Promise!Next]_(Promise!vars)
<1> DEFINE e == Msg(i).event
           r == Msg(i).result
           new == Resolved(launch[e], r)
<1>1. /\ Msg(i) \in DetonationMsg /\ enext[i] \in 1..Len(elog)
      /\ Msg(i).type = "detonation" /\ track' = track
      /\ launch' = IF launch[e] = None THEN launch ELSE [launch EXCEPT ![e] = new]
      /\ launch \in [Events -> LaunchRow \cup {None}] /\ None \notin LaunchRow
  BY MsgType, EffectorAssumption DEF DetonationApply, TypeOK, LaunchType
<1>2. e \in Events /\ r \in Results
  BY <1>1 DEF DetonationMsg
<1>3. r \in ReportsOf(e)
  BY <1>1, <1>2 DEF ReportsOf, Msg
<1> HIDE DEF e, r
<1>4. CASE launch[e] = None
  BY <1>1, <1>4, NoWriteImplements
<1>5. CASE launch[e] # None
  <2>1. /\ launch[e] \in LaunchRow /\ new \in LaunchRow /\ new.state = "real"
        /\ launch[e].state = "real" => new = launch[e]
        /\ launch[e].state # "real" =>
             new.result = r /\ new.late = (launch[e].state = "inferred")
    BY <1>1, <1>2, <1>5, ResolvedRow
  <2> HIDE DEF new
  <2>2. /\ RowOf(e) = launch[e] /\ NextRow(e) = new /\ OthersStay(e) /\ NoLaunch
    BY <1>1, <1>2, <1>5 DEF RowOf, NextRow, OthersStay, NoLaunch
  <2>3. CASE launch[e].state = "real"
    <3>1. launch' = launch
      BY <1>1, <1>2, <2>1, <2>3
    <3> QED
      BY <1>1, <3>1, NoWriteImplements
  <2>4. CASE launch[e].state # "real"
    <3>1. launch[e].state \in {"flight", "inferred"} /\ Blank(launch[e])
      BY <1>2, <2>1, <2>4 DEF LaunchRow, States, BlankInv
    <3>2. Labels({e})
      BY <1>1, NoLabel
    <3>3. new # None
      BY <1>1, <2>1
    <3>4. new.late = (launch[e].state = "inferred") /\ new.result = r
      BY <2>1, <2>4, Zenon
    <3>5. Promise!End(e)
      BY <1>2, <1>3, <1>5, <2>1, <2>2, <3>1, <3>2, <3>3, <3>4, EndImplements, Zenon
    <3> QED
      BY <1>2, <3>5 DEF Promise!Next, Promise!Rows
  <2> QED
    BY <2>3, <2>4
<1> QED
  BY <1>4, <1>5

LEMMA EffectorSweepImplements ==
    ASSUME TypeOK, BlankInv, [Next]_vars, EffectorSweep
    PROVE  Promise!GiveUp
<1> DEFINE S == {e \in Events : Overdue(e)}
<1>1. /\ launch \in [Events -> LaunchRow \cup {None}] /\ None \notin LaunchRow
      /\ track' = track
      /\ \A e \in Events : launch'[e] = IF Overdue(e)
                                        THEN [launch[e] EXCEPT !.state = "inferred"]
                                        ELSE launch[e]
      /\ Events \cap Munitions = {}
  BY EffectorAssumption DEF EffectorSweep, TypeOK, LaunchType
<1>2. ASSUME NEW x \in S
      PROVE  /\ RowOf(x) # None /\ RowOf(x).state = "flight" /\ Blank(RowOf(x))
             /\ NextRow(x) # None /\ NextRow(x).state = "inferred"
             /\ Blank(NextRow(x))
  <2>1. /\ launch[x] \in LaunchRow /\ launch[x].state = "flight"
        /\ launch'[x] = [launch[x] EXCEPT !.state = "inferred"]
        /\ Blank(launch[x])
    BY <1>1 DEF Overdue, BlankInv
  <2>2. /\ launch'[x] \in LaunchRow /\ launch'[x].state = "inferred"
        /\ launch'[x].result = launch[x].result /\ launch'[x].late = launch[x].late
    BY <2>1 DEF LaunchRow, States
  <2>3. launch[x] # None /\ launch'[x] # None
    BY <1>1, <2>1, <2>2
  <2>4. Blank(launch'[x])
    BY <2>1, <2>2, <2>3 DEF Blank
  <2> QED
    BY <2>1, <2>2, <2>3, <2>4 DEF RowOf, NextRow
<1>3. \A x \in (Events \cup Munitions) \ S : NextRow(x) = RowOf(x)
  BY <1>1 DEF NextRow, RowOf
<1>4. NoLaunch
  BY <1>1 DEF NoLaunch, Overdue
<1>5. S \in SUBSET (Events \cup Munitions)
  OBVIOUS
<1>6. \A m \in Munitions : OwnerIn(track'[m]) = OwnerIn(track[m])
  BY <1>1
<1> HIDE DEF S
<1> QED
  BY <1>2, <1>3, <1>4, <1>5, <1>6, GiveUpImplements

\* A row heard of, advanced or labelled by a Fire of its munition.
Keeps(m, row, old) ==
    /\ SameTrack(row, old)
    /\ row.event # old.event => old.event = None /\ row.event \in FiresOf(m)

\* A heal labels a row with a Fire of its munition.
LEMMA HealedKeeps ==
    ASSUME TypeOK, FiredInv, NEW m \in Munitions, NEW row \in TrackRow,
           NEW old, Keeps(m, row, old), NEW healed \in Healed(m, row)
    PROVE  Keeps(m, healed, old)
<1>1. /\ healed \in TrackRow
      /\ healed.state = row.state /\ healed.result = row.result
      /\ healed.late = row.late
      /\ row.event # None => healed.event = row.event
  BY HealedRow
<1>2. NewestLaunch(m) \subseteq Events \cap FiresOf(m)
  BY NewestIsFired, EffectorAssumption
<1>3. healed.event # row.event => healed.event \in FiresOf(m)
  BY <1>2 DEF Healed, TrackRow
<1> QED
  BY <1>1, <1>3 DEF Keeps, SameTrack

\* What one track's change leaves alone.
LEMMA OneTrackChanges ==
    ASSUME TypeOK, NEW m \in Munitions, NEW new \in TrackRow,
           track' = [track EXCEPT ![m] = new], launch' = launch
    PROVE  /\ RowOf(m) = track[m] /\ NextRow(m) = new /\ new # None
           /\ OthersStay(m) /\ NoLaunch
           /\ \A n \in Munitions : n # m => track'[n] = track[n]
           /\ track'[m] = new
<1>1. /\ Events \cap Munitions = {} /\ None \notin TrackRow
      /\ track \in [Munitions -> TrackRow \cup {None}]
  BY EffectorAssumption DEF TypeOK, TrackType
<1> QED
  BY <1>1 DEF RowOf, NextRow, OthersStay, NoLaunch

LEMMA KeepsImplements ==
    ASSUME TypeOK, [Next]_vars, launch' = launch,
           track' \in [Munitions -> TrackRow \cup {None}],
           \A m \in Munitions :
              \/ track'[m] = track[m]
              \/ track[m] \in TrackRow /\ Keeps(m, track'[m], track[m])
    PROVE  Promise!Heal
<1>1. None \notin TrackRow /\ Events \cap Munitions = {}
  BY EffectorAssumption
<1>2. ASSUME NEW x \in Events \cup Munitions
      PROVE  OutcomeIn(NextRow(x)) = OutcomeIn(RowOf(x))
  <2>1. CASE x \in Events
    BY <2>1 DEF NextRow, RowOf
  <2>2. CASE x \notin Events
    <3>1. NextRow(x) = track'[x] /\ RowOf(x) = track[x]
      BY <2>2 DEF NextRow, RowOf
    <3>2. CASE track'[x] = track[x]
      BY <3>1, <3>2
    <3>3. CASE track[x] \in TrackRow /\ Keeps(x, track'[x], track[x])
      BY <1>1, <3>1, <3>3 DEF Keeps, SameTrack, OutcomeIn
    <3> QED
      BY <2>2, <3>2, <3>3
  <2> QED
    BY <2>1, <2>2
<1>3. Labels({m \in Munitions : track[m] # None})
  <2> SUFFICES ASSUME NEW m \in Munitions, OwnerIn(track'[m]) # OwnerIn(track[m])
               PROVE  /\ track[m] # None /\ OwnerIn(track[m]) = None
                      /\ OwnerIn(track'[m]) \in FiresOf(m)
    BY DEF Labels
  <2>1. track[m] \in TrackRow /\ Keeps(m, track'[m], track[m])
    OBVIOUS
  <2>2. track[m] # None /\ track'[m] # None
    BY <1>1, <2>1 DEF Keeps, SameTrack
  <2> QED
    BY <2>1, <2>2 DEF OwnerIn, Keeps
<1> QED
  BY <1>2, <1>3, HealImplements DEF NoLaunch

LEMMA FireJoinImplements ==
    ASSUME TypeOK, [Next]_vars, NEW i \in Instances, FireJoin(i)
    PROVE  Promise!Heal
<1> DEFINE m == Msg(i).munition
           new == [track[m] EXCEPT !.event = Msg(i).event]
<1>1. /\ Msg(i) \in FireMsg /\ launch' = launch
      /\ track' = IF Unlabelled(m) THEN [track EXCEPT ![m].event = Msg(i).event]
                  ELSE track
      /\ Msg(i).event \in FiresOf(m)
  BY MsgType, FireIsFired DEF FireJoin
<1>2. /\ track \in [Munitions -> TrackRow \cup {None}] /\ None \notin TrackRow
      /\ track' \in [Munitions -> TrackRow \cup {None}]
  BY TrackStepMoves, EffectorAssumption DEF TypeOK, TrackType
<1>3. ASSUME NEW n \in Munitions, track'[n] # track[n]
      PROVE  track[n] \in TrackRow /\ Keeps(n, track'[n], track[n])
  <2>1. Unlabelled(m) /\ n = m
    BY <1>1, <1>2, <1>3
  <2>2. track[n] \in TrackRow /\ track[n].event = None
    BY <1>2, <1>3, <2>1 DEF Unlabelled
  <2>3. track'[n] = [track[n] EXCEPT !.event = Msg(i).event]
    BY <1>1, <1>2, <2>1
  <2>4. Msg(i).event \in Events
    BY <1>1 DEF FireMsg
  <2>5. SameTrack(track'[n], track[n]) /\ track'[n].event = Msg(i).event
    BY <2>2, <2>3, <2>4 DEF SameTrack, TrackRow
  <2> QED
    BY <1>1, <2>1, <2>2, <2>5 DEF Keeps
<1> QED
  BY <1>1, <1>2, <1>3, KeepsImplements

LEMMA AdvanceImplements ==
    ASSUME TypeOK, FiredInv, [Next]_vars, NEW i \in Instances, NEW s \in Sample,
           Advance(i, s), track[s.munition] # None, launch' = launch
    PROVE  Promise!Heal
<1> DEFINE m == s.munition
           old == track[m]
           row == IF old.state # "flight" THEN old
                  ELSE [old EXCEPT !.heardAt = now,
                          !.sampleAt = IF s.at > @ THEN s.at ELSE @]
<1>1. /\ m \in Munitions /\ s.at \in Time /\ now \in Time
      /\ track \in [Munitions -> TrackRow \cup {None}]
      /\ track' \in [Munitions -> TrackRow \cup {None}]
  BY TrackStepMoves DEF TypeOK, DataType, TrackType, Sample
<1>2. old \in TrackRow
  BY <1>1
<1>3. row \in TrackRow /\ Keeps(m, row, old)
  <2> DEFINE at == IF s.at > old.sampleAt THEN s.at ELSE old.sampleAt
  <2>1. at \in Time
    BY <1>1, <1>2 DEF TrackRow
  <2>2. row = IF old.state # "flight" THEN old
              ELSE [old EXCEPT !.heardAt = now, !.sampleAt = at]
    BY <1>2 DEF TrackRow
  <2> HIDE DEF row, old, at
  <2>3. row \in TrackRow /\ SameTrack(row, old) /\ row.event = old.event
    BY <1>1, <1>2, <2>1, <2>2 DEF TrackRow, SameTrack
  <2> QED
    BY <2>3 DEF Keeps
<1>4. PICK healed \in Healed(m, row) : track' = [track EXCEPT ![m] = healed]
  BY DEF Advance
<1> HIDE DEF row, old, m
<1>5. Keeps(m, healed, old)
  BY <1>1, <1>3, <1>4, HealedKeeps
<1>6. \A n \in Munitions : track'[n] = track[n] \/ (n = m /\ track'[n] = healed)
  BY <1>1, <1>4
<1>7. \A n \in Munitions : track'[n] = track[n] \/
         (track[n] \in TrackRow /\ Keeps(n, track'[n], track[n]))
  BY <1>2, <1>5, <1>6 DEF old
<1> QED
  BY <1>1, <1>7, KeepsImplements

LEMMA TrackInsertImplements ==
    ASSUME TypeOK, FiredInv, [Next]_vars, NEW i \in Instances, TrackInsert(i)
    PROVE  [Promise!Next]_(Promise!vars)
<1> DEFINE s == tlog[tnext[i]]
           m == s.munition
           new == [event |-> twork[i].seen, sampleAt |-> s.at, heardAt |-> now,
                   state |-> "flight", result |-> None, late |-> FALSE]
<1>1. s \in Sample /\ launch' = launch
  BY SampleType DEF TrackInsert
<1>2. CASE track[m] # None
  BY <1>1, <1>2, AdvanceImplements DEF TrackInsert, Promise!Next
<1>3. CASE track[m] = None
  <2>1. /\ track' = [track EXCEPT ![m] = new]
        /\ twork[i].pc = "insert"
    BY <1>3 DEF TrackInsert, Sampling
  <2>2. /\ twork[i].seen \in Events \cup {None} /\ now \in Time
        /\ m \in Munitions /\ s.at \in Time
    BY <1>1 DEF TypeOK, TWorkType, TWork, DataType, Sample
  <2>3. new \in TrackRow
    BY <2>2 DEF TrackRow, States
  <2>4. /\ new.state = "flight" /\ new.result = None /\ new.late = FALSE
        /\ new.event = twork[i].seen
    OBVIOUS
  <2>5. new.event # None => new.event \in FiresOf(m)
    BY <2>1, <2>4 DEF FiredInv
  <2> HIDE DEF s, m, new
  <2>6. /\ RowOf(m) = None /\ NextRow(m) = new /\ new # None /\ OthersStay(m)
        /\ \A n \in Munitions : n # m => track'[n] = track[n]
        /\ track'[m] = new
    BY <1>1, <1>3, <2>1, <2>2, <2>3, OneTrackChanges
  <2>7. Labels({m})
    BY <1>3, <2>5, <2>6 DEF Labels, OwnerIn
  <2>8. Promise!Open(m)
    BY <2>2, <2>4, <2>6, <2>7, OpenImplements DEF Blank
  <2> QED
    BY <2>2, <2>8 DEF Promise!Next, Promise!Rows
<1> QED
  BY <1>2, <1>3

LEMMA DetonationTerminateImplements ==
    ASSUME TypeOK, FiredInv, BlankInv, [Next]_vars, NEW i \in Instances,
           DetonationTerminate(i)
    PROVE  [Promise!Next]_(Promise!vars)
<1> DEFINE m == DetonatedMunition(Msg(i))
           k == enext[i]
           r == Msg(i).result
<1>1. /\ Msg(i) \in DetonationMsg /\ k \in 1..Len(elog) /\ launch' = launch
      /\ Msg(i).type = "detonation" /\ Msg(i) = elog[k]
      /\ track \in [Munitions -> TrackRow \cup {None}] /\ None \notin TrackRow
      /\ track' \in [Munitions -> TrackRow \cup {None}]
      /\ Events \cap Munitions = {}
  BY MsgType, TrackStepMoves, EffectorAssumption
  DEF DetonationTerminate, TypeOK, TrackType, Msg
<1>2. m \in Munitions \cup {None} /\ r \in Results
  BY <1>1 DEF DetonatedMunition, DetonationMsg, TypeOK, LaunchType, LaunchRow
<1>3. CASE m = None \/ track[m] = None
  <2>1. track' = track
    BY <1>3 DEF DetonationTerminate
  <2> QED
    BY <1>1, <2>1, NoWriteImplements
<1>4. CASE m # None /\ track[m] # None
  <2>1. m \in Munitions /\ track[m] \in TrackRow
    BY <1>1, <1>2, <1>4
  <2>2. PICK row \in Healed(m, track[m]) : track' = [track EXCEPT ![m] = Resolved(row, r)]
    BY <1>4 DEF DetonationTerminate
  <2>3. r \in ReportsOf(m)
    BY <1>1, <2>1 DEF ReportsOf
  <2> HIDE DEF m, k, r
  <2> DEFINE new == Resolved(row, r)
  <2>4. Keeps(m, track[m], track[m])
    BY <2>1 DEF Keeps, SameTrack
  <2>5. Keeps(m, row, track[m])
    BY <2>1, <2>2, <2>4, HealedKeeps
  <2>6. row \in TrackRow /\ row.state = track[m].state
    BY <2>5 DEF Keeps, SameTrack
  <2>7. /\ new \in TrackRow /\ new.state = "real" /\ new.event = row.event
        /\ row.state = "real" => new = row
        /\ row.state # "real" => new.result = r /\ new.late = (row.state = "inferred")
    <3>1. Resolved(row, r).event = row.event
      BY <2>6 DEF Resolved, TrackRow
    <3> QED
      BY <1>2, <2>6, <3>1, ResolvedRow
  <2> HIDE DEF new
  <2>8. /\ RowOf(m) = track[m] /\ NextRow(m) = new /\ new # None
        /\ OthersStay(m) /\ NoLaunch
        /\ \A n \in Munitions : n # m => track'[n] = track[n]
        /\ track'[m] = new
    BY <1>1, <2>1, <2>2, <2>7, OneTrackChanges DEF new
  <2>9. CASE row.state = "real"
    <3>1. new = row
      BY <2>7, <2>9
    <3>2. Promise!Heal
      BY <1>1, <2>1, <2>5, <2>8, <3>1, KeepsImplements
    <3> QED
      BY <3>2 DEF Promise!Next
  <2>10. CASE row.state # "real"
    <3>1. track[m].state \in {"flight", "inferred"} /\ Blank(track[m])
      BY <2>1, <2>6, <2>10 DEF TrackRow, States, BlankInv
    <3>2. new.result = r /\ new.late = (track[m].state = "inferred")
      BY <2>6, <2>7, <2>10, Zenon
    <3>3. Labels({m})
      BY <1>4, <2>5, <2>7, <2>8 DEF Labels, OwnerIn, Keeps
    <3>4. m \in Events \cup Munitions /\ new.state = "real"
      BY <2>1, <2>7
    <3>5. Promise!End(m)
      BY <1>4, <2>3, <2>8, <3>1, <3>2, <3>3, <3>4, EndImplements, Zenon
    <3> QED
      BY <3>4, <3>5 DEF Promise!Next, Promise!Rows
  <2> QED
    BY <2>9, <2>10
<1> QED
  BY <1>3, <1>4

LEMMA SilenceSweepImplements ==
    ASSUME TypeOK, BlankInv, [Next]_vars, SilenceSweep
    PROVE  Promise!GiveUp
<1> DEFINE S == {m \in Munitions : Quiet(m)}
<1>1. /\ track \in [Munitions -> TrackRow \cup {None}] /\ None \notin TrackRow
      /\ launch' = launch
      /\ \A m \in Munitions : track'[m] = IF Quiet(m)
                                          THEN [track[m] EXCEPT !.state = "inferred"]
                                          ELSE track[m]
      /\ Events \cap Munitions = {}
  BY EffectorAssumption DEF SilenceSweep, TypeOK, TrackType
<1>2. ASSUME NEW x \in S
      PROVE  /\ RowOf(x) # None /\ RowOf(x).state = "flight" /\ Blank(RowOf(x))
             /\ NextRow(x) # None /\ NextRow(x).state = "inferred"
             /\ Blank(NextRow(x)) /\ OwnerIn(track'[x]) = OwnerIn(track[x])
  <2>1. /\ track[x] \in TrackRow /\ track[x].state = "flight"
        /\ track'[x] = [track[x] EXCEPT !.state = "inferred"]
        /\ Blank(track[x])
    BY <1>1 DEF Quiet, BlankInv
  <2>2. /\ track'[x] \in TrackRow /\ track'[x].state = "inferred"
        /\ track'[x].result = track[x].result /\ track'[x].late = track[x].late
        /\ track'[x].event = track[x].event
    BY <2>1 DEF TrackRow, States
  <2>3. track[x] # None /\ track'[x] # None /\ x \notin Events
    BY <1>1, <2>1, <2>2
  <2>4. Blank(track'[x]) /\ OwnerIn(track'[x]) = OwnerIn(track[x])
    BY <2>1, <2>2, <2>3 DEF Blank, OwnerIn
  <2> QED
    BY <2>1, <2>2, <2>3, <2>4 DEF RowOf, NextRow
<1>3. \A x \in (Events \cup Munitions) \ S : NextRow(x) = RowOf(x)
  BY <1>1 DEF NextRow, RowOf
<1>4. \A m \in Munitions : OwnerIn(track'[m]) = OwnerIn(track[m])
  <2> SUFFICES ASSUME NEW m \in Munitions, ~Quiet(m) PROVE track'[m] = track[m]
    BY <1>2
  <2> QED
    BY <1>1
<1>5. S \in SUBSET (Events \cup Munitions) /\ NoLaunch
  BY <1>1 DEF NoLaunch
<1> HIDE DEF S
<1> QED
  BY <1>2, <1>3, <1>4, <1>5, GiveUpImplements

LEMMA HealSweepImplements ==
    ASSUME TypeOK, FiredInv, [Next]_vars, HealSweep
    PROVE  Promise!Heal
<1>1. PICK pick \in [Healable -> Events] :
        /\ \A m \in Healable : pick[m] \in NewestLaunch(m)
        /\ track' = [m \in Munitions |-> IF m \in Healable
                                         THEN [track[m] EXCEPT !.event = pick[m]]
                                         ELSE track[m]]
  BY DEF HealSweep
<1>2. /\ track \in [Munitions -> TrackRow \cup {None}] /\ launch' = launch
      /\ track' \in [Munitions -> TrackRow \cup {None}]
  BY TrackStepMoves DEF TypeOK, TrackType, HealSweep
<1>3. ASSUME NEW m \in Munitions, m \in Healable
      PROVE  track[m] \in TrackRow /\ Keeps(m, track'[m], track[m])
  <2>1. /\ track[m] \in TrackRow /\ track[m].event = None /\ pick[m] \in Events
        /\ track'[m] = [track[m] EXCEPT !.event = pick[m]]
    BY <1>1, <1>2, <1>3 DEF Healable, Unlabelled
  <2>2. pick[m] \in FiresOf(m)
    BY <1>1, <1>3, NewestIsFired, EffectorAssumption
  <2>3. SameTrack(track'[m], track[m]) /\ track'[m].event = pick[m]
    BY <2>1 DEF SameTrack, TrackRow
  <2> QED
    BY <2>1, <2>2, <2>3 DEF Keeps
<1>4. \A m \in Munitions : m \notin Healable => track'[m] = track[m]
  BY <1>1
<1> QED
  BY <1>2, <1>3, <1>4, KeepsImplements

\* Every step of the handlers, the sweeps and the processes is one of Outcomes
\* or changes nothing a reader is promised anything about.
LEMMA StepImplements ==
    ASSUME TypeOK, FiredInv, BlankInv, [Next]_vars
    PROVE  [Promise!Next]_(Promise!vars)
<1>1. CASE launch' = launch /\ track' = track
  BY <1>1, NoWriteImplements
<1>2. CASE EffectorSweep
  BY <1>2, EffectorSweepImplements DEF Promise!Next
<1>3. CASE SilenceSweep
  BY <1>3, SilenceSweepImplements DEF Promise!Next
<1>4. CASE HealSweep
  BY <1>4, HealSweepImplements DEF Promise!Next
<1>5. ASSUME NEW i \in Instances, FireJoin(i) PROVE Promise!Next
  BY <1>5, FireJoinImplements DEF Promise!Next
<1>6. ASSUME NEW i \in Instances, TrackAdvance(i) PROVE Promise!Next
  <2>1. tlog[tnext[i]] \in Sample
    BY <1>6, SampleType DEF TrackAdvance
  <2> QED
    BY <1>6, <2>1, AdvanceImplements DEF TrackAdvance, Promise!Next
<1> QED
  BY <1>1, <1>2, <1>3, <1>4, <1>5, <1>6, FireAppendImplements,
     DetonationApplyImplements, DetonationTerminateImplements, TrackInsertImplements
  DEF Next, vars, store, EffectorStep, TrackStep, FireAdmit, Refuse, ResupplyAdmit,
      ResupplyAppend, TrackReadLaunch, SwallowEffector, SwallowSample, Crash, Tick,
      Admission

\* The handlers, sweeps and processes, any number of them, implement what a
\* reader is promised: each round and munition ends once, with a result that was
\* reported of it, is flagged late exactly if it was given up on before, and is
\* labelled once, by a Fire of its own; one statement of a handler ends one row.
THEOREM Implementation == Spec => ImplementsOutcomes
<1>1. Init => Promise!Init /\ FiredInv /\ BlankInv
  <2> SUFFICES ASSUME Init PROVE Promise!Init /\ FiredInv /\ BlankInv
    OBVIOUS
  <2>1. /\ launch = [e \in Events |-> None] /\ track = [m \in Munitions |-> None]
        /\ twork = [i \in Instances |-> TIdle] /\ TIdle.pc = "idle"
        /\ elog \in Seq(EffectorMsg)
    BY EffectorAssumption DEF Init, TIdle
  <2>2. FiredInv /\ BlankInv
    BY <2>1 DEF FiredInv, BlankInv, Blank
  <2>3. ShownOutcomes = [x \in Promise!Rows |-> Promise!Unseen]
    BY <2>1 DEF ShownOutcomes, RowOf, OutcomeIn, Promise!Rows, Promise!Unseen
  <2>4. ShownOwners = [m \in Munitions |-> None]
    BY <2>1 DEF ShownOwners
  <2>5. Reported \in [Promise!Rows -> SUBSET Results]
    BY <2>1, ReportedType DEF Promise!Rows
  <2>6. Fired \in [Munitions -> SUBSET Events]
    <3>1. ASSUME NEW k \in 1..Len(elog), elog[k].type = "fire"
          PROVE  elog[k].event \in Events
      BY <2>1, <3>1 DEF EffectorMsg, FireMsg, ResupplyMsg, DetonationMsg
    <3> QED
      BY <3>1 DEF Fired, FiresOf
  <2> QED
    BY <2>2, <2>3, <2>4, <2>5, <2>6 DEF Promise!Init
<1>2. TypeOK /\ FiredInv /\ BlankInv /\ [Next]_vars
      => FiredInv' /\ BlankInv' /\ [Promise!Next]_(Promise!vars)
  BY FiredStep, BlankStep, StepImplements
<1> QED
  BY <1>1, <1>2, TypeCorrect, PTL DEF Spec, Promise!Spec, ImplementsOutcomes

-----------------------------------------------------------------------------
(* What follows from Outcomes alone, and so holds of the tables.            *)

\* The names Outcomes gives a row's state are distinct, and only an end has a
\* result.
LEMMA OutcomeNames ==
    /\ Promise!Unseen.state = "unseen" /\ Promise!Flying.state = "flight"
    /\ Promise!GivenUp.state = "inferred"
    /\ \A r, late : /\ Promise!Ended(r, late).state = "real"
                    /\ Promise!Ended(r, late).result = r
BY DEF Promise!Unseen, Promise!Flying, Promise!GivenUp, Promise!Ended

\* One row changes, or none, or some from in flight to given up.
LEMMA OutcomeMoves ==
    ASSUME Promise!TypeOK, [Promise!Next]_(Promise!vars),
           NEW x \in Promise!Rows
    PROVE  \/ ShownOutcomes'[x] = ShownOutcomes[x]
           \/ /\ ShownOutcomes[x] = Promise!Unseen
              /\ ShownOutcomes'[x] = Promise!Flying
           \/ /\ ShownOutcomes[x] = Promise!Flying
              /\ ShownOutcomes'[x] = Promise!GivenUp
           \/ \E r \in Reported[x] :
                 \/ /\ ShownOutcomes[x] = Promise!Flying
                    /\ ShownOutcomes'[x] = Promise!Ended(r, FALSE)
                 \/ /\ ShownOutcomes[x] = Promise!GivenUp
                    /\ ShownOutcomes'[x] = Promise!Ended(r, TRUE)
<1> DEFINE Goal == \/ ShownOutcomes'[x] = ShownOutcomes[x]
                   \/ /\ ShownOutcomes[x] = Promise!Unseen
                      /\ ShownOutcomes'[x] = Promise!Flying
                   \/ /\ ShownOutcomes[x] = Promise!Flying
                      /\ ShownOutcomes'[x] = Promise!GivenUp
                   \/ \E r \in Reported[x] :
                         \/ /\ ShownOutcomes[x] = Promise!Flying
                            /\ ShownOutcomes'[x] = Promise!Ended(r, FALSE)
                         \/ /\ ShownOutcomes[x] = Promise!GivenUp
                            /\ ShownOutcomes'[x] = Promise!Ended(r, TRUE)
<1>1. ASSUME NEW y \in Promise!Rows, NEW v,
             ShownOutcomes' = [ShownOutcomes EXCEPT ![y] = v]
      PROVE  ShownOutcomes'[x] = IF x = y THEN v ELSE ShownOutcomes[x]
  BY <1>1 DEF Promise!TypeOK
<1>2. ASSUME NEW y \in Promise!Rows, Promise!Open(y) PROVE Goal
  BY <1>1, <1>2 DEF Promise!Open
<1>3. ASSUME NEW y \in Promise!Rows, Promise!End(y) PROVE Goal
  <2>1. ASSUME NEW r \in Reported[y], ShownOutcomes[y] = Promise!Flying,
               ShownOutcomes' = [ShownOutcomes EXCEPT ![y] = Promise!Ended(r, FALSE)]
        PROVE  Goal
    <3>1. ShownOutcomes'[x] = IF x = y THEN Promise!Ended(r, FALSE) ELSE ShownOutcomes[x]
      BY <1>1, <2>1, Zenon
    <3> QED
      BY <2>1, <3>1, Zenon
  <2>2. ASSUME NEW r \in Reported[y], ShownOutcomes[y] = Promise!GivenUp,
               ShownOutcomes' = [ShownOutcomes EXCEPT ![y] = Promise!Ended(r, TRUE)]
        PROVE  Goal
    <3>1. ShownOutcomes'[x] = IF x = y THEN Promise!Ended(r, TRUE) ELSE ShownOutcomes[x]
      BY <1>1, <2>2, Zenon
    <3> QED
      BY <2>2, <3>1, Zenon
  <2> HIDE DEF Goal
  <2> QED
    BY <1>3, <2>1, <2>2, Zenon DEF Promise!End
<1>4. CASE Promise!GiveUp
  BY <1>4 DEF Promise!GiveUp
<1>5. CASE Promise!Heal \/ UNCHANGED Promise!vars
  BY <1>5 DEF Promise!Heal, Promise!vars
<1> QED
  BY <1>2, <1>3, <1>4, <1>5 DEF Promise!Next

\* Reports grow, the Fires stay, and a label is given once, with the row there.
LEMMA OwnerMoves ==
    ASSUME Promise!TypeOK, [Promise!Next]_(Promise!vars)
    PROVE  /\ Fired' = Fired
           /\ \A x \in Promise!Rows : Reported[x] \subseteq Reported'[x]
           /\ \A m \in Munitions : ShownOwners'[m] # ShownOwners[m] =>
                /\ ShownOwners[m] = None /\ ShownOwners'[m] \in Fired[m]
                /\ ShownOutcomes'[m] # Promise!Unseen
<1> DEFINE Goal == /\ Fired' = Fired
                   /\ \A x \in Promise!Rows : Reported[x] \subseteq Reported'[x]
                   /\ \A m \in Munitions : ShownOwners'[m] # ShownOwners[m] =>
                        /\ ShownOwners[m] = None /\ ShownOwners'[m] \in Fired[m]
                        /\ ShownOutcomes'[m] # Promise!Unseen
<1>1. /\ Promise!Flying # Promise!Unseen
      /\ \A r, late : Promise!Ended(r, late) # Promise!Unseen
  BY OutcomeNames
<1>2. ASSUME NEW x \in Promise!Rows, Promise!Open(x) \/ Promise!End(x) PROVE Goal
  <2>1. /\ Promise!Label({x}) /\ Fired' = Fired
        /\ \A y \in Promise!Rows : Reported[y] \subseteq Reported'[y]
    BY <1>2 DEF Promise!Open, Promise!End
  <2>2. ShownOutcomes'[x] # Promise!Unseen
    <3>1. CASE Promise!Open(x)
      BY <1>1, <3>1 DEF Promise!TypeOK, Promise!Open
    <3>2. CASE Promise!End(x)
      <4>1. PICK r, late : ShownOutcomes' = [ShownOutcomes EXCEPT ![x] = Promise!Ended(r, late)]
        BY <3>2, Zenon DEF Promise!End
      <4>2. ShownOutcomes'[x] = Promise!Ended(r, late)
        BY <4>1 DEF Promise!TypeOK
      <4> QED
        BY <1>1, <4>2, Zenon
    <3> QED
      BY <1>2, <3>1, <3>2
  <2> QED
    BY <2>1, <2>2 DEF Promise!Label
<1>3. CASE Promise!Heal
  BY <1>3 DEF Promise!Heal, Promise!Label
<1>4. CASE Promise!GiveUp \/ UNCHANGED Promise!vars
  BY <1>4 DEF Promise!GiveUp, Promise!vars
<1> QED
  BY <1>2, <1>3, <1>4 DEF Promise!Next

LEMMA OutcomeTypeStep ==
    ASSUME Promise!TypeOK, [Promise!Next]_(Promise!vars) PROVE Promise!TypeOK'
<1> DEFINE T == {Promise!Unseen, Promise!Flying, Promise!GivenUp}
                \cup {Promise!Ended(r, late) : r \in Results, late \in BOOLEAN}
           F == ShownOutcomes' \in [Promise!Rows -> T]
<1>1. /\ ShownOutcomes \in [Promise!Rows -> T]
      /\ ShownOwners \in [Munitions -> Events \cup {None}]
      /\ Reported \in [Promise!Rows -> SUBSET Results]
  BY DEF Promise!TypeOK
<1>2. /\ Promise!Flying \in T /\ Promise!GivenUp \in T
      /\ \A r \in Results, late \in BOOLEAN : Promise!Ended(r, late) \in T
  OBVIOUS
<1> HIDE DEF T
<1>3. ASSUME NEW x \in Promise!Rows, Promise!Open(x) PROVE F
  BY <1>1, <1>2, <1>3 DEF Promise!Open
<1>4. ASSUME NEW x \in Promise!Rows, Promise!End(x) PROVE F
  <2>1. PICK r \in Reported[x], late \in BOOLEAN :
          ShownOutcomes' = [ShownOutcomes EXCEPT ![x] = Promise!Ended(r, late)]
    BY <1>4, Zenon DEF Promise!End
  <2>2. Promise!Ended(r, late) \in T
    BY <1>1, <1>2, <2>1
  <2> QED
    BY <1>1, <2>1, <2>2
<1>5. ASSUME Promise!GiveUp PROVE F
  <2>1. PICK S \in SUBSET {x \in Promise!Rows : ShownOutcomes[x] = Promise!Flying} :
          ShownOutcomes' = [x \in Promise!Rows |->
                              IF x \in S THEN Promise!GivenUp ELSE ShownOutcomes[x]]
    BY <1>5, Zenon DEF Promise!GiveUp
  <2>2. \A x \in Promise!Rows :
          (IF x \in S THEN Promise!GivenUp ELSE ShownOutcomes[x]) \in T
    BY <1>1, <1>2
  <2> QED
    BY <2>1, <2>2
<1>6. ASSUME Promise!Heal \/ UNCHANGED Promise!vars PROVE F
  <2>1. ShownOutcomes' = ShownOutcomes
    BY <1>6 DEF Promise!Heal, Promise!vars
  <2> QED
    BY <1>1, <2>1
<1> HIDE DEF F
<1>7. F
  BY <1>3, <1>4, <1>5, <1>6, Zenon DEF Promise!Next
<1> USE DEF F
<1>8. /\ ShownOwners' \in [Munitions -> Events \cup {None}]
      /\ Reported' \in [Promise!Rows -> SUBSET Results]
  <2>1. ASSUME NEW x \in Promise!Rows, Promise!Open(x) \/ Promise!End(x)
        PROVE  /\ ShownOwners' \in [Munitions -> Events \cup {None}]
               /\ Reported' \in [Promise!Rows -> SUBSET Results]
    BY <1>1, <2>1 DEF Promise!Open, Promise!End, Promise!Label
  <2> QED
    BY <1>1, <2>1
    DEF Promise!Next, Promise!GiveUp, Promise!Heal, Promise!Label, Promise!vars
<1>9. /\ Promise!Unseen' = Promise!Unseen /\ Promise!Flying' = Promise!Flying
      /\ Promise!GivenUp' = Promise!GivenUp
  BY DEF Promise!Unseen, Promise!Flying, Promise!GivenUp
<1> QED
  BY <1>7, <1>8, <1>9 DEF T, Promise!TypeOK, Promise!Rows, Promise!Ended

LEMMA OwnStep ==
    ASSUME Promise!TypeOK, Promise!OwnOutcomes, [Promise!Next]_(Promise!vars)
    PROVE  Promise!OwnOutcomes'
<1>1. ASSUME NEW x \in Promise!Rows, ShownOutcomes'[x].state = "real"
      PROVE  ShownOutcomes'[x].result \in Reported'[x]
  <2>1. Reported[x] \subseteq Reported'[x]
    BY OwnerMoves
  <2>2. CASE ShownOutcomes'[x] = ShownOutcomes[x]
    BY <1>1, <2>1, <2>2 DEF Promise!OwnOutcomes
  <2>3. ASSUME NEW r \in Reported[x], NEW late,
               ShownOutcomes'[x] = Promise!Ended(r, late)
        PROVE  ShownOutcomes'[x].result \in Reported'[x]
    BY <2>1, <2>3, OutcomeNames
  <2>4. /\ ShownOutcomes'[x] # Promise!Flying
        /\ ShownOutcomes'[x] # Promise!GivenUp
    BY <1>1, OutcomeNames
  <2> QED
    BY <2>2, <2>3, <2>4, OutcomeMoves
<1>2. ASSUME NEW m \in Munitions, ShownOwners'[m] # None
      PROVE  ShownOwners'[m] \in Fired'[m] /\ ShownOutcomes'[m] # Promise!Unseen
  <2>1. CASE ShownOwners'[m] # ShownOwners[m]
    BY <2>1, OwnerMoves
  <2>2. CASE ShownOwners'[m] = ShownOwners[m]
    <3>1. /\ ShownOwners[m] \in Fired[m] /\ ShownOutcomes[m] # Promise!Unseen
          /\ Fired' = Fired /\ m \in Promise!Rows
      BY <1>2, <2>2, OwnerMoves DEF Promise!OwnOutcomes, Promise!Rows
    <3>2. /\ Promise!Flying # Promise!Unseen /\ Promise!GivenUp # Promise!Unseen
          /\ \A r, late : Promise!Ended(r, late) # Promise!Unseen
      BY OutcomeNames
    <3> QED
      BY <2>2, <3>1, <3>2, OutcomeMoves
  <2> QED
    BY <2>1, <2>2
<1> QED
  BY <1>1, <1>2 DEF Promise!OwnOutcomes, Promise!Rows, Promise!Unseen

\* Every launch row that carries a detonation carries one reported of its event,
\* every track one of its munition, and the launcher, edge and releasability of
\* a track come from a Fire of its munition: from the promise alone, so it holds of
\* whatever implements Outcomes.
THEOREM OutcomesAreOwn == Spec => [](Promise!TypeOK /\ Promise!OwnOutcomes)
<1>1. Promise!Init => Promise!TypeOK /\ Promise!OwnOutcomes
  <2> SUFFICES ASSUME Promise!Init PROVE Promise!TypeOK /\ Promise!OwnOutcomes
    OBVIOUS
  <2>1. \A x \in Promise!Rows : ShownOutcomes[x].state # "real"
    BY OutcomeNames DEF Promise!Init
  <2> QED
    BY <2>1 DEF Promise!Init, Promise!TypeOK, Promise!OwnOutcomes
<1>2. Promise!TypeOK /\ Promise!OwnOutcomes /\ [Promise!Next]_(Promise!vars)
      => Promise!TypeOK' /\ Promise!OwnOutcomes'
  BY OutcomeTypeStep, OwnStep
<1>3. ImplementsOutcomes => [](Promise!TypeOK /\ Promise!OwnOutcomes)
  BY <1>1, <1>2, PTL DEF ImplementsOutcomes, Promise!Spec
<1> QED
  BY <1>3, Implementation, PTL

\* An end, a late mark and a label that a reader saw stay for ever, an inference
\* is taken back by a late result only, and no row is taken back: from the
\* promise alone.
THEOREM OutcomesAreWrittenOnce == Spec => Promise!WriteOnce
<1>1. ASSUME Promise!TypeOK, [Promise!Next]_(Promise!vars), NEW x \in Promise!Rows
      PROVE  /\ ShownOutcomes[x].state = "real" => ShownOutcomes'[x] = ShownOutcomes[x]
             /\ ShownOutcomes[x] = Promise!GivenUp =>
                  \/ ShownOutcomes'[x] = Promise!GivenUp
                  \/ \E r \in Results : ShownOutcomes'[x] = Promise!Ended(r, TRUE)
             /\ ShownOutcomes[x] = Promise!Flying => ShownOutcomes'[x] # Promise!Unseen
  <2>1. /\ Promise!Flying # Promise!Unseen /\ Promise!GivenUp # Promise!Unseen
        /\ Promise!GivenUp # Promise!Flying
        /\ \A r, late : Promise!Ended(r, late) # Promise!Unseen
    BY OutcomeNames
  <2>2. /\ Promise!Flying.state # "real" /\ Promise!GivenUp.state # "real"
        /\ Promise!Unseen.state # "real"
    BY OutcomeNames
  <2>3. Reported[x] \subseteq Results
    BY <1>1 DEF Promise!TypeOK
  <2> QED
    BY <1>1, <2>1, <2>2, <2>3, OutcomeMoves, Zenon
<1>2. ASSUME Promise!TypeOK, [Promise!Next]_(Promise!vars), NEW m \in Munitions,
             ShownOwners[m] # None
      PROVE  ShownOwners'[m] = ShownOwners[m]
  BY <1>2, OwnerMoves, Zenon
<1>3. Promise!TypeOK /\ [Promise!Next]_(Promise!vars) => Promise!Kept
  BY <1>1, <1>2, Zenon DEF Promise!Kept
<1>4. ImplementsOutcomes /\ []Promise!TypeOK => Promise!WriteOnce
  BY <1>3, PTL DEF ImplementsOutcomes, Promise!Spec, Promise!WriteOnce
<1> QED
  BY <1>4, Implementation, OutcomesAreOwn, PTL

=============================================================================
