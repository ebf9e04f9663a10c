------------------------------ MODULE LinkMonitor ------------------------------
(***************************************************************************)
(* The link monitor at HQ, for one expected link: the heartbeats of a tier *)
(* come through its relay, the tracker judges them by their arrival, and   *)
(* the upsert loop keeps the link's row in link_status.                    *)
(*                                                                         *)
(* A unit of time is the heartbeat period and the upsert interval, both 2s *)
(* by default: in a unit the tier sends one heartbeat, the relay delivers  *)
(* what it holds unless the link is cut, and the upsert loop runs once,    *)
(* unless its write waits for Postgres.  In which order is open.  Times    *)
(* are kept as ages that stop at the first value that makes no difference. *)
(***************************************************************************)
EXTENDS Naturals, Sequences

CONSTANTS
    DownAfter,        \* LINK_DOWN_AFTER_S
    RestoreArrivals,  \* LINK_RESTORE_ARRIVALS
    FreshMaxAge,      \* LINK_FRESH_MAX_AGE_S
    StatusHeartbeat,  \* LINK_STATUS_HEARTBEAT_S
    TrafficHold,      \* LINK_TRAFFIC_HOLD_S
    DeclaredIdle,     \* is the link in LINK_DECLARED_IDLE
    FirstAges,        \* ages of heartbeats when sent: clock skew, None for no emitted_at
    None,             \* nothing, no row, no time
    MaxCuts,          \* bound: times the link is cut
    MaxTurns,         \* bound: changes of the tier's traffic
    MaxFaults         \* bound: outages, failed writes, emptied tables, restarts

Bands == {"ACTIVE", "IDLE", "UNSPECIFIED"}

ASSUME LinkAssumption ==
    /\ DownAfter \in Nat /\ FreshMaxAge \in Nat
    /\ RestoreArrivals \in Nat \ {0}
    /\ StatusHeartbeat \in Nat /\ TrafficHold \in Nat
    /\ DeclaredIdle \in BOOLEAN
    /\ FirstAges \subseteq Nat \cup {None}
    /\ MaxCuts \in Nat /\ MaxTurns \in Nat /\ MaxFaults \in Nat
    /\ None \notin Nat /\ None \notin Bands

VARIABLES
    traffic,   \* what the tier's TrafficMeter says
    sent,      \* has the tier sent its heartbeat in this unit
    cut,       \* is the link cut
    relay,     \* heartbeats on their way, each with its age
    silence,   \* LinkTracker: time since the last arrival, None before one
    uptime,    \* time since the monitor started
    down,      \* the latch
    streak,    \* _restore_count
    held,      \* LinkState: the band shown
    candidate, \* the band that may follow it, and for how long
    work,      \* place of the upsert loop, and what it is writing
    written,   \* LinkWritePlanner: the triple last written and when
    row,       \* the link's row in link_status
    pgUp,      \* is Postgres reachable
    earned,    \* history: arrivals in a row that were fresh and close
    doubted,   \* history: a long silence since the last that earned it
    cuts, turns, faults   \* bounded events so far

tier == <<traffic, sent, cut, relay, cuts, turns>>
tracker == <<silence, uptime, down, streak, earned, doubted>>
bands == <<held, candidate>>
loop == <<work, written>>
vars == <<tier, tracker, bands, loop, row, pgUp, faults>>

\* At most so many heartbeats matter: any older one is as stale.
QueueMax == FreshMaxAge + 2

Least(a, b) == IF a < b THEN a ELSE b
Older(age, limit) == IF age = None THEN None ELSE Least(age + 1, limit)

Init ==
    /\ traffic \in Bands
    /\ sent = FALSE /\ cut = FALSE /\ relay = <<>>
    /\ silence = None /\ uptime = 0 /\ down = FALSE /\ streak = 0
    /\ held = None /\ candidate = None
    /\ work = [pc |-> "sleep"] /\ written = None
    /\ earned = 0 /\ doubted = FALSE
    /\ row = None
    /\ pgUp = TRUE
    /\ cuts = 0 /\ turns = 0 /\ faults = 0

-----------------------------------------------------------------------------
(* The tier, its relay and time.                                            *)

\* link_heartbeat_loop produces one heartbeat to the tier's own broker.
Emit(age) ==
    /\ ~sent
    /\ sent' = TRUE
    /\ LET kept == IF Len(relay) = QueueMax THEN Tail(relay) ELSE relay
       IN  relay' = Append(kept, [age |-> age, band |-> traffic])
    /\ UNCHANGED <<traffic, cut, cuts, turns, tracker, bands, loop, row, pgUp, faults>>

Turn ==
    /\ turns < MaxTurns
    /\ turns' = turns + 1
    /\ traffic' \in Bands \ {traffic}
    /\ UNCHANGED <<sent, cut, relay, cuts, tracker, bands, loop, row, pgUp, faults>>

Cut ==
    /\ ~cut /\ cuts < MaxCuts
    /\ cut' = TRUE
    /\ cuts' = cuts + 1
    /\ UNCHANGED <<traffic, sent, relay, turns, tracker, bands, loop, row, pgUp, faults>>

\* The relay will deliver what it queued during the cut.
Heal ==
    /\ cut
    /\ cut' = FALSE
    /\ UNCHANGED <<traffic, sent, relay, cuts, turns, tracker, bands, loop, row,
                   pgUp, faults>>

\* A unit passes when everything due in it was done.
Tick ==
    /\ sent
    /\ cut \/ relay = <<>>
    /\ work.pc \in {"done", "late", "failed"} \/ (work.pc = "write" /\ ~pgUp)
    /\ sent' = FALSE
    /\ relay' = [i \in 1..Len(relay) |->
                   [relay[i] EXCEPT !.age = Older(@, FreshMaxAge + 1)]]
    /\ silence' = Older(silence, DownAfter + 1)
    /\ uptime' = Older(uptime, DownAfter + 1)
    /\ candidate' = IF candidate = None THEN None
                    ELSE [candidate EXCEPT !.age = Older(@, TrafficHold)]
    /\ written' = IF written = None THEN None
                  ELSE [written EXCEPT !.age = Older(@, StatusHeartbeat)]
    /\ work' = IF work.pc = "write"
               THEN [work EXCEPT !.age = Older(@, StatusHeartbeat)]
               ELSE [pc |-> "sleep"]
    /\ UNCHANGED <<traffic, cut, cuts, turns, down, streak, earned, doubted, held,
                   row, pgUp, faults>>

-----------------------------------------------------------------------------
(* ingest: LinkTracker.on_arrival and LinkState._observe_band.              *)

Stale == silence # None /\ silence > DownAfter
Close == silence # None /\ silence <= DownAfter
Fresh(hb) == hb.age = None \/ hb.age <= FreshMaxAge

\* Mutant of Resumed: a long silence no tick saw is overlooked.
ResumedUnnoticed == [down |-> down, streak |-> streak]

\* The latch and the count when an arrival comes: it starts a restore even if
\* no tick noticed the silence before it.
Resumed ==
    IF Stale /\ ~down THEN [down |-> TRUE, streak |-> 0]
    ELSE [down |-> down, streak |-> streak]

\* Mutant of Counted: every arrival is the first.
CountedAlone(hb) == IF Fresh(hb) THEN 1 ELSE 0

\* _count_toward_restore
Counted(hb) ==
    IF ~Fresh(hb) THEN 0
    ELSE IF Close THEN Resumed.streak + 1 ELSE 1

OnArrival(hb) ==
    /\ IF ~Resumed.down THEN down' = FALSE /\ streak' = Resumed.streak
       ELSE LET n == Counted(hb)
            IN  IF n >= RestoreArrivals THEN down' = FALSE /\ streak' = 0
                ELSE down' = TRUE /\ streak' = n
    /\ silence' = 0
    /\ earned' = IF ~Fresh(hb) THEN 0
                 ELSE IF Close THEN Least(earned + 1, RestoreArrivals) ELSE 1
    /\ doubted' = ((doubted \/ Stale) /\ earned' < RestoreArrivals)
    /\ UNCHANGED uptime

\* Mutant of ObserveBand: every report of another band starts its time anew.
ObserveBandAnew(band) ==
    /\ held' = IF held = None THEN band ELSE held
    /\ candidate' = IF held = None \/ band = held THEN None
                    ELSE [band |-> band, age |-> 0]

\* The first band is taken as it is; another one becomes the candidate, which
\* a report of the held band drops.
ObserveBand(band) ==
    /\ held' = IF held = None THEN band ELSE held
    /\ candidate' = CASE held = None -> candidate
                      [] band = held -> None
                      [] OTHER -> IF candidate # None /\ candidate.band = band
                                  THEN candidate ELSE [band |-> band, age |-> 0]

Deliver ==
    /\ ~cut /\ relay # <<>>
    /\ OnArrival(Head(relay))
    /\ ObserveBand(Head(relay).band)
    /\ relay' = Tail(relay)
    /\ UNCHANGED <<traffic, sent, cut, cuts, turns, loop, row, pgUp, faults>>

-----------------------------------------------------------------------------
(* _upsert: LinkState.rows, LinkWritePlanner and PostgresPool.execute.      *)

\* Mutant of GoesDown: a silence is noticed by the next arrival only.
GoesDownUnseen == silence = None /\ uptime > DownAfter

GoesDown == Stale \/ (silence = None /\ uptime > DownAfter)

\* LinkTracker.reach
Reach ==
    IF GoesDown THEN "down"
    ELSE IF silence = None THEN "unknown"
    ELSE IF down THEN "down" ELSE "fresh"

Classify(reach, band) ==
    IF reach # "fresh" THEN reach
    ELSE IF DeclaredIdle THEN IF band = "ACTIVE" THEN "up" ELSE "idle"
    ELSE IF band = "IDLE" THEN "idle" ELSE "up"

\* _held_band: the candidate is due when it has been one for long enough.
Promoted == candidate # None /\ candidate.age >= TrafficHold
HeldBand ==
    IF Promoted THEN candidate.band ELSE IF held = None THEN "UNSPECIFIED" ELSE held

Built == [state |-> Classify(Reach, HeldBand), traffic |-> HeldBand]

\* LinkWritePlanner.plan
Planned ==
    IF written = None \/ written.triple # Built THEN "change"
    ELSE IF written.age >= StatusHeartbeat THEN "heartbeat" ELSE "nothing"

\* The loop wakes, reads every tracker and band, and plans its write.
Plan ==
    /\ work.pc = "sleep"
    /\ down' = (down \/ GoesDown)
    /\ streak' = IF GoesDown /\ ~down THEN 0 ELSE streak
    /\ doubted' = (doubted \/ GoesDown)
    /\ held' = IF Promoted THEN candidate.band ELSE held
    /\ candidate' = IF Promoted THEN None ELSE candidate
    /\ work' = IF Planned = "nothing" THEN [pc |-> "done"]
               ELSE [pc |-> "write", kind |-> Planned, built |-> Built, age |-> 0]
    /\ UNCHANGED <<tier, silence, uptime, earned, written, row, pgUp, faults>>

\* record, with the time at which the loop woke.
Record(triple) == written' = [triple |-> triple, age |-> work.age]

After == IF work.age = 0 THEN "done" ELSE "late"

\* Mutant of WriteRow: an update that matched nothing counts as written.
WriteRowUnseen ==
    /\ work.pc = "write" /\ pgUp
    /\ row' = IF work.kind = "change" THEN work.built ELSE row
    /\ Record(work.built)
    /\ work' = [pc |-> After]
    /\ UNCHANGED <<tier, tracker, bands, pgUp, faults>>

\* The full row, or the liveness columns of a row that may be gone.
WriteRow ==
    /\ work.pc = "write" /\ pgUp
    /\ row' = IF work.kind = "change" THEN work.built ELSE row
    /\ IF work.kind = "heartbeat" /\ row = None
       THEN written' = None
       ELSE Record(work.built)
    /\ work' = [pc |-> After]
    /\ UNCHANGED <<tier, tracker, bands, pgUp, faults>>

\* Mutant of WriteFails: recorded before it is written.
WriteFailsRecorded ==
    /\ work.pc = "write" /\ pgUp
    /\ faults < MaxFaults
    /\ faults' = faults + 1
    /\ Record(work.built)
    /\ work' = [pc |-> "failed"]
    /\ UNCHANGED <<tier, tracker, bands, row, pgUp>>

\* execute raises: logged, nothing is recorded.
WriteFails ==
    /\ work.pc = "write" /\ pgUp
    /\ faults < MaxFaults
    /\ faults' = faults + 1
    /\ work' = [pc |-> "failed"]
    /\ UNCHANGED <<tier, tracker, bands, written, row, pgUp>>

-----------------------------------------------------------------------------
PgDown ==
    /\ pgUp /\ faults < MaxFaults
    /\ pgUp' = FALSE
    /\ faults' = faults + 1
    /\ UNCHANGED <<tier, tracker, bands, loop, row>>

PgUp ==
    /\ ~pgUp
    /\ pgUp' = TRUE
    /\ UNCHANGED <<tier, tracker, bands, loop, row, faults>>

\* A reset empties the stores.
Reset ==
    /\ row # None /\ pgUp /\ faults < MaxFaults
    /\ row' = None
    /\ faults' = faults + 1
    /\ UNCHANGED <<tier, tracker, bands, loop, pgUp>>

\* The process restarts.  Its consumer begins at the end of the topic, and
\* the loop first sleeps.
Restart ==
    /\ faults < MaxFaults
    /\ faults' = faults + 1
    /\ silence' = None /\ uptime' = 0 /\ down' = FALSE /\ streak' = 0
    /\ held' = None /\ candidate' = None
    /\ work' = [pc |-> "sleep"] /\ written' = None
    /\ earned' = 0 /\ doubted' = FALSE
    /\ UNCHANGED <<tier, row, pgUp>>

Next ==
    \/ \E age \in FirstAges : Emit(age)
    \/ Turn \/ Cut \/ Heal \/ Tick
    \/ Deliver
    \/ Plan \/ WriteRow \/ WriteFails
    \/ PgDown \/ PgUp \/ Reset \/ Restart

Spec == Init /\ [][Next]_vars

(***************************************************************************)
(* The loops of the tier and of the monitor go on, the relay delivers what *)
(* it can, Postgres comes back.  Nobody has to heal the link.              *)
(***************************************************************************)
Fairness ==
    /\ WF_vars(\E age \in FirstAges : Emit(age))
    /\ WF_vars(Deliver)
    /\ WF_vars(Plan) /\ WF_vars(WriteRow)
    /\ WF_vars(Tick) /\ WF_vars(PgUp)

FairSpec == Spec /\ Fairness

-----------------------------------------------------------------------------
(* Properties.                                                              *)

States == {"unknown", "down", "idle", "up"}
Triple == [state : States, traffic : Bands]
Heartbeat == [age : Nat \cup {None}, band : Bands]
Pending == [pc : {"write"}, kind : {"change", "heartbeat"}, built : Triple,
            age : 0..StatusHeartbeat]

TierType ==
    /\ traffic \in Bands /\ sent \in BOOLEAN /\ cut \in BOOLEAN
    /\ relay \in Seq(Heartbeat) /\ Len(relay) <= QueueMax

\* A latched tracker has not yet counted what restores it.
TrackerType ==
    /\ silence \in 0..DownAfter + 1 \cup {None} /\ uptime \in 0..DownAfter + 1
    /\ down \in BOOLEAN /\ streak \in 0..RestoreArrivals - 1
    /\ earned \in 0..RestoreArrivals /\ doubted \in BOOLEAN

BandType ==
    /\ held \in Bands \cup {None}
    /\ candidate \in [band : Bands, age : 0..TrafficHold] \cup {None}

LoopType ==
    /\ work \in Pending \cup [pc : {"sleep", "done", "late", "failed"}]
    /\ written \in [triple : Triple, age : 0..StatusHeartbeat] \cup {None}
    /\ row \in Triple \cup {None}
    /\ pgUp \in BOOLEAN

\* Every variable is of its type (link_monitor.py: LinkTracker, LinkState,
\* LinkWritePlanner and the upsert loop).
TypeOK == TierType /\ TrackerType /\ BandType /\ LoopType

\* After a long silence, whoever noticed it, the link is latched down until
\* RestoreArrivals heartbeats came in a row, none of them from the backlog of
\* the cut and each at most DownAfter after the one before.
RestoreEarned == doubted => down

\* What the planner believes written is what the row shows, if there is one:
\* an unchanged link is not left with a row that says something else.
RowAsWritten ==
    row # None /\ written # None => row = written.triple

\* A cut that lasts is shown.
CutShown == cut ~> ~cut \/ (row # None /\ row.state = "down")

\* A link that stays healed is shown so: its heartbeats restore it.
HealShown == ~cut ~> cut \/ (row # None /\ row.state \in {"up", "idle"})

\* A row that was lost is written again.
RowReturns == row = None ~> row # None

\* The traffic of a tier that keeps its band gets to the row.
BandShown ==
    \A b \in Bands :
        traffic = b ~> traffic # b \/ cut \/ (row # None /\ row.traffic = b)

\* "A traffic band change reaches the row only after the new band has been
\* reported continuously for this long": at least, it was reported again since
\* it was first.
BandReportedOn ==
    [][held # None /\ held' # None /\ held' # held => silence < TrafficHold]_vars
=============================================================================
