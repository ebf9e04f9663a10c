----------------------------- MODULE LinkHeartbeat -----------------------------
(***************************************************************************)
(* The tier's side of the link heartbeat: once per period the loop sums    *)
(* the log ends of the traffic topics, the meter turns the sums into the   *)
(* band that the source is in, and a heartbeat carries it to HQ, where     *)
(* LinkMonitor takes it up.                                                *)
(*                                                                         *)
(* A unit of time is the heartbeat period; ages stop at the first value    *)
(* that makes no difference.                                               *)
(***************************************************************************)
EXTENDS Naturals, FiniteSets, Functions

CONSTANTS
    Topics,      \* LINK_TRAFFIC_TOPICS, by their partitions
    IdleAfter,   \* LINK_IDLE_AFTER_S
    None,        \* nothing, no reading, no time
    MaxRecords,  \* bound: records in a topic
    MaxFaults    \* bound: topics recreated, heartbeats not produced

ASSUME LinkHeartbeatAssumption ==
    /\ IsFiniteSet(Topics)
    /\ IdleAfter \in Nat \ {0}
    /\ MaxRecords \in Nat \ {0} /\ MaxFaults \in Nat
    /\ None \notin Nat /\ None \notin {"UNSPECIFIED", "ACTIVE", "IDLE"}

VARIABLES
    end,      \* topic -> its log end
    beaten,   \* has the loop run in this unit
    first,    \* TrafficMeter: time since _first_time
    sum,      \*    _last_sum
    advance,  \*    time since _last_advance
    sent,     \* the band of the heartbeat last produced
    covered,     \* history: the topics of the last reading
    hidden,   \* history: was a topic recreated since the last reading
    unread,   \* history: topic -> time since a record not read yet was published
    quiet,    \* history: topic -> time since a record was published that was shown
    faults    \* bounded events so far

meter == <<first, sum, advance>>
history == <<covered, hidden, unread, quiet>>
vars == <<end, beaten, meter, sent, history, faults>>

AgeMax == IdleAfter + 1
Older(a) == IF a = None THEN None ELSE IF a < AgeMax THEN a + 1 ELSE a

Init ==
    /\ end \in [Topics -> 0..1]
    /\ beaten = FALSE
    /\ first = None /\ sum = None /\ advance = None
    /\ sent = None
    /\ covered = {} /\ hidden = FALSE
    /\ unread = [t \in Topics |-> None]
    /\ quiet = [t \in Topics |-> AgeMax]
    /\ faults = 0

Publish(t) ==
    /\ end[t] < MaxRecords
    /\ end' = [end EXCEPT ![t] = @ + 1]
    /\ unread' = [unread EXCEPT ![t] = 0]
    /\ UNCHANGED <<beaten, meter, sent, covered, hidden, quiet, faults>>

Recreate(t) ==
    /\ faults < MaxFaults /\ end[t] > 0
    /\ end' = [end EXCEPT ![t] = 0]
    /\ hidden' = TRUE
    /\ unread' = [unread EXCEPT ![t] = None]
    /\ faults' = faults + 1
    /\ UNCHANGED <<beaten, meter, sent, covered, quiet>>

Tick ==
    /\ beaten
    /\ beaten' = FALSE
    /\ first' = Older(first) /\ advance' = Older(advance)
    /\ unread' = [t \in Topics |-> Older(unread[t])]
    /\ quiet' = [t \in Topics |-> Older(quiet[t])]
    /\ UNCHANGED <<end, sum, sent, covered, hidden, faults>>

\* _probe_traffic_sum: a topic that cannot be read is passed over.
TrafficSum(readable) ==
    IF readable = {} THEN None ELSE SumFunctionOnSet(end, readable)

\* Mutant of AdvanceAfter: every reading is movement.
AdvanceAfterAny(reading) == 0

\* A higher sum is movement; a drop only becomes what the next is compared to.
AdvanceAfter(reading) == IF reading > sum THEN 0 ELSE advance

\* Mutant of Band: the verdict comes before the reading is taken in.
BandStale(reading) ==
    IF first < IdleAfter THEN "UNSPECIFIED"
    ELSE IF advance <= IdleAfter THEN "ACTIVE" ELSE "IDLE"

Band(reading) ==
    IF first < IdleAfter THEN "UNSPECIFIED"
    ELSE IF AdvanceAfter(reading) <= IdleAfter THEN "ACTIVE" ELSE "IDLE"

\* TrafficMeter.observe of a reading, and the band it gives
Observe(reading, band) ==
    CASE reading = None ->
           band = "UNSPECIFIED" /\ UNCHANGED meter
      [] reading # None /\ first = None ->
           band = "UNSPECIFIED" /\ first' = 0 /\ sum' = reading /\ advance' = 0
      [] OTHER ->
           /\ band = Band(reading)
           /\ sum' = reading /\ advance' = AdvanceAfter(reading)
           /\ first' = first

\* The topics whose new records a reading shows, by a higher sum: it covers all
\* that the last one covered, and nothing was recreated in between.
Shown(readable) ==
    IF covered \subseteq readable /\ ~hidden
    THEN {t \in readable : unread[t] # None}
    ELSE {}

\* One round of link_heartbeat_loop; a heartbeat that cannot be produced is lost.
Beat(readable) ==
    /\ ~beaten
    /\ beaten' = TRUE
    /\ \E band \in {"UNSPECIFIED", "ACTIVE", "IDLE"} :
          /\ Observe(TrafficSum(readable), band)
          /\ \/ sent' = band /\ faults' = faults
             \/ faults < MaxFaults /\ faults' = faults + 1 /\ sent' = None
    /\ covered' = IF readable = {} THEN covered ELSE readable
    /\ hidden' = (hidden /\ readable = {})
    /\ unread' = [t \in Topics |-> IF t \in readable THEN None ELSE unread[t]]
    /\ quiet' = [t \in Topics |-> IF t \in Shown(readable) THEN unread[t] ELSE quiet[t]]
    /\ UNCHANGED end

Next ==
    \/ \E t \in Topics : Publish(t) \/ Recreate(t)
    \/ \E readable \in SUBSET Topics : Beat(readable)
    \/ Tick

Spec == Init /\ [][Next]_vars

\* The loop runs every period; what it can read is left open.
FairSpec ==
    /\ Spec
    /\ WF_vars(Tick)
    /\ WF_vars(\E readable \in SUBSET Topics : Beat(readable))

-----------------------------------------------------------------------------
(* Properties.                                                              *)

\* The state has its type, and the meter has its sum and its two times together
\* (edge_buffer_monitor.py, TrafficMeter).
TypeOK ==
    /\ end \in [Topics -> 0..MaxRecords]
    /\ beaten \in BOOLEAN
    /\ \/ meter = <<None, None, None>>
       \/ first \in 0..AgeMax /\ sum \in Nat /\ advance \in 0..first
    /\ sent \in {None, "UNSPECIFIED", "ACTIVE", "IDLE"}
    /\ covered \subseteq Topics /\ hidden \in BOOLEAN
    /\ unread \in [Topics -> {None} \cup 0..AgeMax]
    /\ quiet \in [Topics -> 0..AgeMax]
    /\ faults \in 0..MaxFaults

\* A heartbeat that says IDLE is sent only when no record that was shown was
\* published for a whole window, however long it waited for a reading and whichever
\* topics the readings passed over: a record is hidden only if the first reading of
\* its topic after it misses a topic of the reading before, or follows a recreated
\* one (TrafficMeter; _probe_traffic_sum: "one bad topic is not fatal").
IdleIsQuiet ==
    [][~beaten /\ beaten' /\ sent' = "IDLE"
         => \A t \in Topics : quiet'[t] > IdleAfter]_vars

\* Once the same topics are read, when any are, a source that stays quiet is not
\* reported as active for ever: the records run out at their bound, and what the
\* meter says must follow, through unreadable periods, recreated topics and lost
\* heartbeats.
QuietNotActive ==
    (\E S \in SUBSET Topics : <>[](covered = S)) => <>[](sent # "ACTIVE")

-----------------------------------------------------------------------------
(***************************************************************************)
(* Statements of the code's own comments that the model refutes.           *)
(***************************************************************************)

\* TrafficMeter: "A window of evidence is needed before saying IDLE, and an
\* unreadable source says nothing either way".  No record of the window, of a
\* topic that is read, is behind a heartbeat that says IDLE.
NoRecordPassedOver ==
    [][~beaten /\ beaten' /\ sent' = "IDLE"
         => \A t \in covered' : unread[t] = None \/ unread[t] > IdleAfter]_vars

\* TrafficMeter: "Whether the source topics were moving".  A source that stays
\* quiet is not active for ever, although a topic of it comes and goes.
QuietEndsActive == <>[](sent # "ACTIVE")
=============================================================================
