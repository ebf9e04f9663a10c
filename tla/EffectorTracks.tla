---------------------------- MODULE EffectorTracks ----------------------------
(***************************************************************************)
(* The two handlers that own their Postgres I/O, the effector events and   *)
(* the munition tracks, with their sweeps, over the tables they share:     *)
(* effector_launch, effector_resupply and munition_track.  Several         *)
(* projector instances may write one store.                                *)
(*                                                                         *)
(* An action is one statement or one transaction, the places where other   *)
(* tasks and other instances get in between.  A track's label (launcher,   *)
(* edge, region, releasability) always comes from one launch row, so it is *)
(* kept as the event of that row.                                          *)
(***************************************************************************)
EXTENDS Naturals, Sequences, FiniteSets

CONSTANTS
    Instances,    \* projector processes on this store
    Launchers,    \* asset ids of launchers
    Munitions,    \* munition ids
    Events,       \* event urns
    Types,        \* munition types
    Results,      \* detonationResult codes
    None,         \* SQL NULL, and a row that is not there
    EffectorLogs, \* contents the effector-events topic may have
    TrackLogs,    \* contents the munition-tracks topic may have
    Timeout,      \* EFFECTOR_TERMINAL_TIMEOUT_S
    Silence,      \* MUNITION_TRACK_SILENCE_S
    MaxTime,      \* bound: the clock
    LastInput,    \* bound: no message is handled after this time
    MaxFaults     \* bound: crashes and swallowed exceptions

Time == 0..MaxTime

FireMsg == [type : {"fire"}, event : Events, launcher : Launchers,
            munition : Munitions \cup {None}, at : Time]
DetonationMsg == [type : {"detonation"}, event : Events,
                  munition : Munitions \cup {None}, result : Results]
ResupplyMsg == [type : {"resupply"}, event : Events, launcher : Launchers,
                lines : SUBSET Types]
EffectorMsg == FireMsg \cup DetonationMsg \cup ResupplyMsg
Sample == [munition : Munitions, at : Time]

VARIABLES
    elog, tlog,   \* the two topics
    now,          \* the store's clock
    admitted,     \* launchers with a telemetry_latest_state row
    launch,       \* effector_launch by event
    resupply,     \* effector_resupply: (event, munition type) pairs
    track,        \* munition_track by munition
    enext, ework, \* per instance: next effector message, place in its handler
    tnext, twork, \* per instance: next sample, place in its handler
    faults,       \* how many crashes and swallowed exceptions happened
    inferred,     \* history: events and munitions a sweep gave up on
    refused       \* history: (instance, offset) of resupplies refused or swallowed

store == <<launch, resupply, track>>
ewvars == <<enext, ework>>
twvars == <<tnext, twork>>
history == <<inferred, refused>>
vars == <<elog, tlog, now, admitted, store, ewvars, twvars, faults, history>>

\* A row is in flight, given up on by a sweep ('unresolved', 'silent'), or
\* carries a detonation's result.
States == {"flight", "inferred", "real"}
LaunchRow == [munition : Munitions \cup {None}, at : Time, state : States,
              result : Results \cup {None}, late : BOOLEAN]
TrackRow == [event : Events \cup {None}, sampleAt : Time, heardAt : Time,
             state : States, result : Results \cup {None}, late : BOOLEAN]

EWork == [pc : {"idle", "append", "join", "terminate", "supply"},
          left : SUBSET Types]
TWork == [pc : {"idle", "insert"}, seen : Events \cup {None}]
EIdle == [pc |-> "idle", left |-> {}]
TIdle == [pc |-> "idle", seen |-> None]

ASSUME EffectorAssumption ==
    /\ EffectorLogs \subseteq Seq(EffectorMsg)
    /\ TrackLogs \subseteq Seq(Sample)
    /\ Timeout \in Nat /\ Silence \in Nat
    /\ MaxTime \in Nat /\ LastInput \in Time /\ MaxFaults \in Nat
    /\ None \notin Events \cup Munitions \cup Results \cup LaunchRow \cup TrackRow
    /\ Events \cap Munitions = {}  \* told apart in inferred

Init ==
    /\ elog \in EffectorLogs
    /\ tlog \in TrackLogs
    /\ now = 0
    /\ admitted \in SUBSET Launchers
    /\ launch = [e \in Events |-> None]
    /\ resupply = {}
    /\ track = [m \in Munitions |-> None]
    /\ enext = [i \in Instances |-> 1]
    /\ ework = [i \in Instances |-> EIdle]
    /\ tnext = [i \in Instances |-> 1]
    /\ twork = [i \in Instances |-> TIdle]
    /\ faults = 0
    /\ inferred = {}
    /\ refused = {}

-----------------------------------------------------------------------------
(* The effector-events handler, one message at a time.                      *)

\* Instance i is at place pc of a message of the given type.
Handling(i, pc, type) ==
    /\ now <= LastInput
    /\ ework[i].pc = pc
    /\ enext[i] <= Len(elog)
    /\ elog[enext[i]].type = type

Msg(i) == elog[enext[i]]

GoTo(i, pc) ==
    /\ ework' = [ework EXCEPT ![i].pc = pc]
    /\ UNCHANGED enext

\* The handler returns: the worker takes the next message.
Return(i) ==
    /\ ework' = [ework EXCEPT ![i] = EIdle]
    /\ enext' = [enext EXCEPT ![i] = @ + 1]

\* What is refused or swallowed is remembered of resupplies, which alone owe rows.
Forgone(i) == IF Msg(i).type = "resupply" THEN {<<i, enext[i]>>} ELSE {}

Refuse(i) ==
    /\ Msg(i).launcher \notin admitted
    /\ refused' = refused \cup Forgone(i)
    /\ Return(i)
    /\ UNCHANGED <<elog, tlog, now, admitted, store, twvars, faults, inferred>>

\* row_exists on telemetry_latest_state: an unknown launcher's Fire is refused.
FireAdmit(i) ==
    /\ Handling(i, "idle", "fire")
    /\ \/ Refuse(i)
       \/ /\ Msg(i).launcher \in admitted
          /\ GoTo(i, "append")
          /\ UNCHANGED <<elog, tlog, now, admitted, store, twvars, faults,
                         history>>

\* INSERT ... ON CONFLICT DO NOTHING by event_urn, through execute().
FireAppend(i) ==
    LET m == Msg(i) IN
    /\ Handling(i, "append", "fire")
    /\ launch' = IF launch[m.event] # None THEN launch
                 ELSE [launch EXCEPT ![m.event] =
                        [munition |-> m.munition, at |-> m.at,
                         state |-> "flight", result |-> None, late |-> FALSE]]
    /\ IF m.munition = None THEN Return(i) ELSE GoTo(i, "join")
    /\ UNCHANGED <<elog, tlog, now, admitted, resupply, track, twvars, faults,
                   history>>

\* Mutant: the join without "launcher_asset_id IS NULL".
UnlabelledAny(m) == track[m] # None

\* join_munition_track_launcher: only a track without a launcher is touched.
Unlabelled(m) == track[m] # None /\ track[m].event = None

FireJoin(i) ==
    LET m == Msg(i) IN
    /\ Handling(i, "join", "fire")
    /\ track' = IF Unlabelled(m.munition)
                THEN [track EXCEPT ![m.munition].event = m.event]
                ELSE track
    /\ Return(i)
    /\ UNCHANGED <<elog, tlog, now, admitted, launch, resupply, twvars, faults,
                   history>>

\* Mutant: an inference and a result are told apart no more.
ResolvedAlways(row, result) ==
    [row EXCEPT !.state = "real", !.result = result,
                !.late = (row.state = "inferred")]

\* Mutant: late is whatever was not in flight, not what a sweep gave up on.
ResolvedNeverLate(row, result) ==
    IF row.state = "real" THEN row
    ELSE [row EXCEPT !.state = "real", !.result = result]

\* What a detonation makes of a launch or track row: a real result stays, an
\* inference is replaced and the row flagged late.
Resolved(row, result) ==
    IF row.state = "real" THEN row
    ELSE [row EXCEPT !.state = "real", !.result = result,
                     !.late = (row.state = "inferred")]

\* apply_effector_detonation: no_fire, replayed and conflicting leave the row.
DetonationApply(i) ==
    LET m == Msg(i) IN
    /\ Handling(i, "idle", "detonation")
    /\ launch' = IF launch[m.event] = None THEN launch
                 ELSE [launch EXCEPT ![m.event] = Resolved(@, m.result)]
    /\ GoTo(i, "terminate")
    /\ UNCHANGED <<elog, tlog, now, admitted, resupply, track, twvars, faults,
                   history>>

\* The newest launch rows that name a munition, by launched_at.
NewestLaunch(m) ==
    LET named == {e \in Events : launch[e] # None /\ launch[e].munition = m}
    IN  {e \in named : \A f \in named : launch[f].at <= launch[e].at}

\* _heal_one on a track: an unlabelled one takes the newest launch, if any.
Healed(m, row) ==
    IF row.event = None /\ NewestLaunch(m) # {}
    THEN {[row EXCEPT !.event = e] : e \in NewestLaunch(m)}
    ELSE {row}

\* The message's munition, else the one of this event's launch row.
DetonatedMunition(m) ==
    IF m.munition # None THEN m.munition
    ELSE IF launch[m.event] # None THEN launch[m.event].munition
    ELSE None

\* Mutant: the UPDATE without its WHERE: every track ends.
DetonationTerminateAll(i) ==
    LET m == DetonatedMunition(Msg(i)) IN
    /\ Handling(i, "terminate", "detonation")
    /\ IF m = None THEN UNCHANGED track
       ELSE track' = [x \in Munitions |-> IF track[x] = None THEN None
                                         ELSE Resolved(track[x], Msg(i).result)]
    /\ Return(i)
    /\ UNCHANGED <<elog, tlog, now, admitted, launch, resupply, twvars, faults,
                   history>>

\* terminate_munition_track, a transaction of its own after the launch's.
DetonationTerminate(i) ==
    LET m == DetonatedMunition(Msg(i)) IN
    /\ Handling(i, "terminate", "detonation")
    /\ IF m = None THEN UNCHANGED track
       ELSE IF track[m] = None THEN UNCHANGED track
       ELSE \E row \in Healed(m, track[m]) :
              track' = [track EXCEPT ![m] = Resolved(row, Msg(i).result)]
    /\ Return(i)
    /\ UNCHANGED <<elog, tlog, now, admitted, launch, resupply, twvars, faults,
                   history>>

\* A resupply is admitted like a Fire; its lines, summed by munition type,
\* become one row each, appended one statement at a time.
ResupplyAdmit(i) ==
    /\ Handling(i, "idle", "resupply")
    /\ \/ Refuse(i)
       \/ /\ Msg(i).launcher \in admitted
          /\ IF Msg(i).lines = {} THEN Return(i)
             ELSE /\ ework' = [ework EXCEPT ![i] =
                                 [pc |-> "supply", left |-> Msg(i).lines]]
                  /\ UNCHANGED enext
          /\ UNCHANGED <<elog, tlog, now, admitted, store, twvars, faults,
                         history>>

\* Mutant: the handler stops after the first line.
ResupplyAppendFirst(i) ==
    /\ Handling(i, "supply", "resupply")
    /\ \E t \in ework[i].left : resupply' = resupply \cup {<<Msg(i).event, t>>}
    /\ Return(i)
    /\ UNCHANGED <<elog, tlog, now, admitted, launch, track, twvars, faults,
                   history>>

ResupplyAppend(i) ==
    /\ Handling(i, "supply", "resupply")
    /\ \E t \in ework[i].left :
         /\ resupply' = resupply \cup {<<Msg(i).event, t>>}
         /\ IF ework[i].left = {t} THEN Return(i)
            ELSE /\ ework' = [ework EXCEPT ![i].left = @ \ {t}]
                 /\ UNCHANGED enext
    /\ UNCHANGED <<elog, tlog, now, admitted, launch, track, twvars, faults,
                   history>>

-----------------------------------------------------------------------------
(* The munition-tracks handler: upsert_munition_track is one transaction.   *)

Sampling(i, pc) ==
    /\ now <= LastInput
    /\ twork[i].pc = pc
    /\ tnext[i] <= Len(tlog)

SampleReturn(i) ==
    /\ twork' = [twork EXCEPT ![i] = TIdle]
    /\ tnext' = [tnext EXCEPT ![i] = @ + 1]

\* The row was found and locked: a terminal one is left as it is, a newer
\* sample advances the row, an older one only counts as heard; then an
\* unlabelled row is healed whatever the outcome was.
Advance(i, s) ==
    LET old == track[s.munition]
        row == IF old.state # "flight" THEN old
               ELSE [old EXCEPT !.heardAt = now,
                       !.sampleAt = IF s.at > @ THEN s.at ELSE @]
    IN  /\ \E healed \in Healed(s.munition, row) :
             track' = [track EXCEPT ![s.munition] = healed]
        /\ SampleReturn(i)

TrackAdvance(i) ==
    /\ Sampling(i, "idle")
    /\ track[tlog[tnext[i]].munition] # None
    /\ Advance(i, tlog[tnext[i]])
    /\ UNCHANGED <<elog, tlog, now, admitted, launch, resupply, ewvars, faults,
                   history>>

\* No row: SELECT the newest launch, which a Fire committed after this
\* statement is not part of.
TrackReadLaunch(i) ==
    LET m == tlog[tnext[i]].munition IN
    /\ Sampling(i, "idle")
    /\ track[m] = None
    /\ \E e \in IF NewestLaunch(m) = {} THEN {None} ELSE NewestLaunch(m) :
         twork' = [twork EXCEPT ![i] = [pc |-> "insert", seen |-> e]]
    /\ UNCHANGED <<elog, tlog, now, admitted, store, ewvars, tnext, faults,
                   history>>

\* INSERT ... ON CONFLICT DO NOTHING and commit; a lost race goes round the
\* loop once more and finds the winner's row.
TrackInsert(i) ==
    LET s == tlog[tnext[i]] IN
    /\ Sampling(i, "insert")
    /\ IF track[s.munition] = None
       THEN /\ track' = [track EXCEPT ![s.munition] =
                           [event |-> twork[i].seen, sampleAt |-> s.at,
                            heardAt |-> now, state |-> "flight",
                            result |-> None, late |-> FALSE]]
            /\ SampleReturn(i)
       ELSE Advance(i, s)
    /\ UNCHANGED <<elog, tlog, now, admitted, launch, resupply, ewvars, faults,
                   history>>

-----------------------------------------------------------------------------
(* The sweeps: each an UPDATE on this store's rows and clock.               *)

\* Mutant: only launches that name a munition time out.
OverdueNamed(e) ==
    /\ launch[e] # None
    /\ launch[e].state = "flight" /\ launch[e].munition # None
    /\ launch[e].at + Timeout < now

Overdue(e) ==
    /\ launch[e] # None
    /\ launch[e].state = "flight"
    /\ launch[e].at + Timeout < now

EffectorSweep ==
    /\ \E e \in Events : Overdue(e)
    /\ launch' = [e \in Events |-> IF Overdue(e)
                                   THEN [launch[e] EXCEPT !.state = "inferred"]
                                   ELSE launch[e]]
    /\ inferred' = inferred \cup {e \in Events : Overdue(e)}
    /\ UNCHANGED <<elog, tlog, now, admitted, resupply, track, ewvars, twvars,
                   faults, refused>>

Quiet(m) ==
    /\ track[m] # None
    /\ track[m].state = "flight"
    /\ track[m].heardAt + Silence < now

SilenceSweep ==
    /\ \E m \in Munitions : Quiet(m)
    /\ track' = [m \in Munitions |-> IF Quiet(m)
                                     THEN [track[m] EXCEPT !.state = "inferred"]
                                     ELSE track[m]]
    /\ inferred' = inferred \cup {m \in Munitions : Quiet(m)}
    /\ UNCHANGED <<elog, tlog, now, admitted, launch, resupply, ewvars, twvars,
                   faults, refused>>

\* Mutant: tracks in flight only: a terminal one is not healed.
HealableInFlight ==
    {m \in Munitions : /\ Unlabelled(m) /\ NewestLaunch(m) # {}
                       /\ track[m].state = "flight"}

\* Unlabelled tracks some launch row names.
Healable == {m \in Munitions : Unlabelled(m) /\ NewestLaunch(m) # {}}

HealSweep ==
    /\ Healable # {}
    /\ \E pick \in [Healable -> Events] :
         /\ \A m \in Healable : pick[m] \in NewestLaunch(m)
         /\ track' = [m \in Munitions |-> IF m \in Healable
                                         THEN [track[m] EXCEPT !.event = pick[m]]
                                         ELSE track[m]]
    /\ UNCHANGED <<elog, tlog, now, admitted, launch, resupply, ewvars, twvars,
                   faults, history>>

-----------------------------------------------------------------------------
Tick ==
    /\ now < MaxTime
    /\ now' = now + 1
    /\ UNCHANGED <<elog, tlog, admitted, store, ewvars, twvars, faults, history>>

\* telemetry-latest-state brings a launcher's row in, the pruner takes it out.
Admission(l) ==
    /\ admitted' = IF l \in admitted THEN admitted \ {l} ELSE admitted \cup {l}
    /\ now <= LastInput
    /\ UNCHANGED <<elog, tlog, now, store, ewvars, twvars, faults, history>>

\* A statement raises, outside execute() for an outage too, inside it only
\* for what Postgres refuses: the worker logs and takes the next message.  Also
\* a message that a full batch polled and dropped: none of its steps happen.
SwallowEffector(i) ==
    /\ \E type \in {"fire", "detonation", "resupply"} :
         Handling(i, ework[i].pc, type)
    /\ faults < MaxFaults
    /\ faults' = faults + 1
    /\ refused' = refused \cup Forgone(i)
    /\ Return(i)
    /\ UNCHANGED <<elog, tlog, now, admitted, store, twvars, inferred>>

SwallowSample(i) ==
    /\ \E pc \in {"idle", "insert"} : Sampling(i, pc)
    /\ faults < MaxFaults
    /\ faults' = faults + 1
    /\ SampleReturn(i)
    /\ UNCHANGED <<elog, tlog, now, admitted, store, ewvars, history>>

\* The process dies and comes back: both workers start again at a committed
\* offset at or before where they were.
Crash(i) ==
    /\ faults < MaxFaults
    /\ faults' = faults + 1
    /\ \E k \in 1..enext[i] : enext' = [enext EXCEPT ![i] = k]
    /\ \E k \in 1..tnext[i] : tnext' = [tnext EXCEPT ![i] = k]
    /\ ework' = [ework EXCEPT ![i] = EIdle]
    /\ twork' = [twork EXCEPT ![i] = TIdle]
    /\ UNCHANGED <<elog, tlog, now, admitted, store, history>>

EffectorStep(i) ==
    \/ FireAdmit(i) \/ FireAppend(i) \/ FireJoin(i)
    \/ DetonationApply(i) \/ DetonationTerminate(i)
    \/ ResupplyAdmit(i) \/ ResupplyAppend(i)
TrackStep(i) == TrackAdvance(i) \/ TrackReadLaunch(i) \/ TrackInsert(i)

Next ==
    \/ \E i \in Instances : EffectorStep(i)
    \/ \E i \in Instances : TrackStep(i)
    \/ \E i \in Instances : SwallowEffector(i)
    \/ \E i \in Instances : SwallowSample(i)
    \/ \E i \in Instances : Crash(i)
    \/ EffectorSweep
    \/ SilenceSweep
    \/ HealSweep
    \/ Tick
    \/ \E l \in Launchers : Admission(l)

Spec == Init /\ [][Next]_vars

(***************************************************************************)
(* Time passes and the sweep loops run for ever on their intervals; their  *)
(* failures are caught and the next pass tries again.  The handlers are    *)
(* not assumed to get anywhere.                                            *)
(***************************************************************************)
Fairness ==
    /\ WF_vars(Tick)
    /\ WF_vars(EffectorSweep)
    /\ WF_vars(SilenceSweep)
    /\ WF_vars(HealSweep)

FairSpec == Spec /\ Fairness

-----------------------------------------------------------------------------
(* Properties.                                                              *)

DataType ==
    /\ elog \in Seq(EffectorMsg) /\ tlog \in Seq(Sample)
    /\ now \in Time /\ faults \in 0..MaxFaults
    /\ admitted \subseteq Launchers
LaunchType == launch \in [Events -> LaunchRow \cup {None}]
TrackType == track \in [Munitions -> TrackRow \cup {None}]
EWorkType ==
    /\ enext \in [Instances -> 1..Len(elog) + 1]
    /\ ework \in [Instances -> EWork]
    /\ \A i \in Instances : ework[i].pc = "supply" <=> ework[i].left # {}
TWorkType ==
    /\ tnext \in [Instances -> 1..Len(tlog) + 1]
    /\ twork \in [Instances -> TWork]
HistoryType ==
    /\ resupply \subseteq Events \X Types
    /\ inferred \subseteq Events \cup Munitions
    /\ refused \subseteq Instances \X (1..Len(elog))

\* Every column of the three tables and every worker's place is of its type;
\* a worker is among a resupply's lines exactly while some are left.
TypeOK == DataType /\ LaunchType /\ TrackType /\ EWorkType /\ TWorkType /\ HistoryType

Real(row) == row # None /\ row.state = "real"

\* A launch row that carries a detonation never changes again, and a track
\* keeps that outcome: not by a second, conflicting or replayed detonation, from
\* this instance or another, not by a Fire or sample that comes again, and not
\* by a sweep.
RealOutcomesStay ==
    [][/\ \A e \in Events : Real(launch[e]) => launch'[e] = launch[e]
       /\ \A m \in Munitions : Real(track[m]) =>
            /\ Real(track'[m])
            /\ track'[m].result = track[m].result
            /\ track'[m].late = track[m].late]_vars

\* late_terminal says exactly that a sweep had given up on the row before its
\* detonation was applied, for launches and tracks.
LateIffInferred ==
    /\ \A e \in Events : Real(launch[e]) => (launch[e].late <=> e \in inferred)
    /\ \A m \in Munitions : Real(track[m]) => (track[m].late <=> m \in inferred)

\* A track with a launcher is never given another ("a later Fire cannot
\* re-home a joined track"), whichever of the four ways to label it ran first.
NeverRehomed ==
    [][\A m \in Munitions :
          /\ track[m] # None => track'[m] # None
          /\ track[m] # None /\ track[m].event # None
             => track'[m].event = track[m].event]_vars

\* A track ends with the result of a detonation of this munition, named by
\* the message or by the launch row of the message's event.
TrackResultIsItsOwn ==
    \A m \in Munitions : Real(track[m]) =>
       \E k \in 1..Len(elog) :
          /\ elog[k].type = "detonation"
          /\ elog[k].result = track[m].result
          /\ DetonatedMunition(elog[k]) = m

\* The results reported of a round by its event, of a munition by whatever
\* names it, and the rounds whose Fire names a munition.
ReportsOf(x) ==
    {elog[k].result : k \in {k \in 1..Len(elog) :
        /\ elog[k].type = "detonation"
        /\ IF x \in Events THEN elog[k].event = x
           ELSE DetonatedMunition(elog[k]) = x}}
FiresOf(m) ==
    {elog[k].event : k \in {k \in 1..Len(elog) :
        elog[k].type = "fire" /\ elog[k].munition = m}}

\* The row of a round or a munition, and what it says of an outcome.
RowOf(x) == IF x \in Events THEN launch[x] ELSE track[x]
OutcomeIn(row) ==
    IF row = None THEN [state |-> "unseen", result |-> None, late |-> FALSE]
    ELSE [state |-> row.state, result |-> row.result, late |-> row.late]

ShownOutcomes == [x \in Events \cup Munitions |-> OutcomeIn(RowOf(x))]
ShownOwners == [m \in Munitions |-> IF track[m] = None THEN None ELSE track[m].event]
Reported == [x \in Events \cup Munitions |-> ReportsOf(x)]
Fired == [m \in Munitions |-> FiresOf(m)]

\* What a reader of the tables is promised, with the handlers left out: each
\* round and munition ends once, with a result reported of it, one that was
\* given up on as late; a track is labelled once, by a Fire of its own munition,
\* whichever of the four ways ran first; and one statement ends one row.
Promise == INSTANCE Outcomes WITH
    Rounds <- Events, outcome <- ShownOutcomes, owner <- ShownOwners,
    reports <- Reported, fires <- Fired
ImplementsOutcomes == Promise!Spec

\* A resupply that a worker got through without a refusal has a row for every
\* munition type on its lines, also when a crash came between two of them.
ConsumedResupplyComplete ==
    \A i \in Instances : \A k \in 1..Len(elog) :
       k < enext[i] /\ elog[k].type = "resupply" /\ <<i, k>> \notin refused =>
          \A t \in elog[k].lines : <<elog[k].event, t>> \in resupply

\* No round and no track stays in flight for ever, named or not, labelled or
\* not: a detonation or a sweep ends it.
InFlight(row) == row # None /\ row.state = "flight"
NothingStaysInFlight ==
    /\ \A e \in Events : InFlight(launch[e]) ~> ~InFlight(launch[e])
    /\ \A m \in Munitions : InFlight(track[m]) ~> ~InFlight(track[m])

\* Whichever way a Fire and the first sample race, a track some launch row
\* names gets a launcher in the end, on its own or by the heal.
EventuallyLabelled ==
    \A m \in Munitions :
       (track[m] # None /\ NewestLaunch(m) # {}) ~> (track[m] # None /\ track[m].event # None)

(***************************************************************************)
(* A comment in effector_launch.py says "The munition's track terminates   *)
(* whatever the effector_launch outcome was".  Stated for a store at rest, *)
(* all messages handled, without faults and refusals: a munition whose     *)
(* detonation was handled has no track that ends as an inference.          *)
(***************************************************************************)
DetonationReachesTrack ==
    \A m \in Munitions, i \in Instances :
       (\E k \in 1..(enext[i] - 1) :
           elog[k].type = "detonation" /\ DetonatedMunition(elog[k]) = m)
       => ~(track[m] # None /\ track[m].state = "inferred")

=============================================================================
