------------------------------- MODULE EdgeBuffer ------------------------------
(***************************************************************************)
(* The edge-buffer monitor of one tier: a relay forwards the bridge topics *)
(* of the local broker to the parent and commits an offset once the parent *)
(* acknowledged it, and the probe loop turns those offsets into the row of *)
(* edge_buffer_status: how much is buffered, and is the uplink severed.    *)
(*                                                                         *)
(* A unit of time is the probe interval.  In a unit the loop sleeps and    *)
(* probes once, unless a call holds it up; the relay and the loop take     *)
(* their steps in any order.  Times are kept as ages that stop at the      *)
(* first value that makes no difference.                                   *)
(***************************************************************************)
EXTENDS Integers, FiniteSets, Functions

CONSTANTS
    Topics,            \* BRIDGE_TOPICS, of one partition each
    ExchangePeriod,    \* LINK_EXCHANGE_PERIOD_S
    RestoreExchanges,  \* LINK_RESTORE_EXCHANGES
    SlowMax,           \* units the calls of a probe may take, by their timeouts
    None,              \* nothing, no row, no offset, no verdict
    MaxAppends,        \* bound: records in a topic
    MaxFaults          \* bound: cuts, resets, slow probes, write errors, restarts

ASSUME EdgeBufferAssumption ==
    /\ IsFiniteSet(Topics)
    /\ ExchangePeriod \in Nat \ {0}
    /\ RestoreExchanges \in Nat \ {0}
    /\ SlowMax \in Nat /\ MaxAppends \in Nat /\ MaxFaults \in Nat
    /\ None \notin Int /\ None \notin BOOLEAN

VARIABLES
    end,       \* topic -> its log end
    acked,     \* topic -> offset the relay committed, None before the first
    cut,       \* is the uplink cut
    debt,      \* units the relay had something to commit and committed nothing
    brokerUp,  \* does the local broker answer the probe
    work,      \* place of the probe loop, and what it holds
    base,      \* LinkReachability: _baseline_sum
    age,       \*    time since the last exchange, or since the first probe
    seen,      \*    was there an exchange
    severed,   \*    the verdict, None while undecided
    count,     \*    _restore_count
    row,       \* the row of edge_buffer_status
    pgUp,      \* is Postgres reachable
    moved,     \* history: time since the relay committed or had caught up
    slips,     \* history: what went wrong, but for a cut, since the last exchange
    wasCut,    \* history: was the link cut since the last exchange
    stalled,   \* history: exchanges until an outage, or a reset between a probe's
               \*    calls, no longer blurs their time
    faults     \* bounded events so far

relay == <<end, acked, cut, debt>>
reach == <<base, age, seen, severed, count>>
history == <<moved, slips, wasCut, stalled>>
vars == <<relay, brokerUp, work, reach, row, pgUp, history, faults>>

LagUnknown == -1

\* default_sever_after_s, the heartbeat being one unit
SeverAfter == 2 * (ExchangePeriod + 1)

Least(a, b) == IF a < b THEN a ELSE b
AgeMax == SeverAfter + 2 + 2 * SlowMax
MovedMax == 2 * SeverAfter + 2 + 2 * SlowMax
Older(a, limit) == IF a = None THEN None ELSE Least(a + 1, limit)
More(n) == IF n < 2 THEN n + 1 ELSE n
Slips(n) == slips' = IF n = 1 THEN More(slips) ELSE slips

Committed(t) == IF acked[t] = None THEN 0 ELSE acked[t]
Owing == {t \in Topics : Committed(t) < end[t]}

\* The topics list_consumer_group_offsets returns: those with an offset.
Listed == {t \in Topics : acked[t] # None}
Waiting == Owing \cap Listed
Reported == [t \in Listed |-> acked[t]]

Init ==
    /\ end = [t \in Topics |-> 0] /\ acked = [t \in Topics |-> None]
    /\ cut = FALSE /\ debt = 0 /\ brokerUp = TRUE
    /\ work = [pc |-> "sleep"]
    /\ base = None /\ age = None /\ seen = FALSE /\ severed = None /\ count = 0
    /\ row = None /\ pgUp = TRUE
    /\ moved = 0 /\ slips = 0 /\ wasCut = FALSE /\ stalled = 0
    /\ faults = 0

-----------------------------------------------------------------------------
(* The local broker, the relay and time.                                    *)

Publish(t) ==
    /\ end[t] < MaxAppends
    /\ end' = [end EXCEPT ![t] = @ + 1]
    /\ UNCHANGED <<acked, cut, debt, brokerUp, work, reach, row, pgUp, history, faults>>

\* The relay commits what the parent acknowledged.
Acknowledge(t) ==
    /\ ~cut
    /\ \E offset \in (Committed(t) + 1)..end[t] : acked' = [acked EXCEPT ![t] = offset]
    /\ debt' = 0
    /\ moved' = 0
    /\ UNCHANGED <<end, cut, brokerUp, work, reach, row, pgUp, slips, wasCut, stalled, faults>>

\* An operator resets the group to an earlier offset of a topic.  Between the
\* two calls of a probe that leaves the probe with offsets that were never a
\* reading of the topics.
ResetGroup(t) ==
    /\ faults < MaxFaults
    /\ \E offset \in 0..(Committed(t) - 1) : acked' = [acked EXCEPT ![t] = offset]
    /\ faults' = faults + 1
    /\ Slips(1)
    /\ stalled' = IF work.pc = "marks" THEN 2 ELSE stalled
    /\ UNCHANGED <<end, cut, debt, brokerUp, work, reach, row, pgUp, moved, wasCut>>

\* A topic is recreated, and the group's offset of it goes.
Recreate(t) ==
    /\ faults < MaxFaults /\ end[t] > 0
    /\ end' = [end EXCEPT ![t] = 0]
    /\ acked' = [acked EXCEPT ![t] = None]
    /\ moved' = IF Waiting \ {t} = {} THEN 0 ELSE moved
    /\ faults' = faults + 1
    /\ Slips(1)
    /\ UNCHANGED <<cut, debt, brokerUp, work, reach, row, pgUp, wasCut, stalled>>

Cut ==
    /\ ~cut /\ faults < MaxFaults
    /\ cut' = TRUE /\ debt' = 0
    /\ wasCut' = TRUE
    /\ faults' = faults + 1
    /\ UNCHANGED <<end, acked, brokerUp, work, reach, row, pgUp, moved, slips, stalled>>

Heal ==
    /\ cut
    /\ cut' = FALSE
    /\ UNCHANGED <<end, acked, debt, brokerUp, work, reach, row, pgUp, history, faults>>

BrokerTurns ==
    /\ brokerUp' = ~brokerUp
    /\ UNCHANGED <<relay, work, reach, row, pgUp, history, faults>>

PostgresTurns ==
    /\ pgUp' = ~pgUp
    /\ UNCHANGED <<relay, brokerUp, work, reach, row, history, faults>>

Reading == work.pc \in {"list", "marks"}
Blocked == work.pc = "write" /\ ~pgUp

\* A relay that can commits within its period, or once more, late.
Punctual == cut \/ Owing = {} \/ debt < 2 * ExchangePeriod

\* The loop is through, or a slow probe or an outage holds it up.
Tick ==
    /\ Punctual
    /\ \/ work.pc = "done" \/ Blocked
       \/ Reading /\ work.began < SlowMax /\ faults < MaxFaults
    /\ faults' = IF Reading THEN faults + 1 ELSE faults
    /\ debt' = IF cut \/ Owing = {} THEN 0 ELSE debt + 1
    /\ moved' = IF Waiting = {} THEN 0 ELSE Older(moved, MovedMax)
    /\ Slips(IF Reading \/ debt' = ExchangePeriod + 1 THEN 1 ELSE 0)
    /\ stalled' = IF Blocked THEN 2 ELSE stalled
    /\ age' = Older(age, AgeMax)
    /\ work' = IF work.pc = "done" THEN [pc |-> "sleep"]
               ELSE IF Reading THEN [work EXCEPT !.began = @ + 1] ELSE work
    /\ UNCHANGED <<end, acked, cut, brokerUp, base, seen, severed, count, row, pgUp,
                   wasCut>>

-----------------------------------------------------------------------------
(* LinkReachability.observe, began units after its `now` was taken.         *)

\* last_exchange_age; the first observation starts the clock.
AgeAt(began) == IF age = None THEN 0 ELSE age - began

\* Mutant of IsExchange: being caught up is no evidence.
IsExchangeAdvance(sum, lag) == sum # None /\ base # None /\ sum > base

IsExchange(sum, lag) ==
    \/ sum # None /\ base # None /\ sum > base
    \/ lag = 0

\* Mutants of Restored: exchanges count however far apart; each is the first.
RestoredFarApart(gap) == count + 1
RestoredAlone(gap) == 1

\* _restore_count after one more exchange
Restored(gap) == IF seen /\ gap <= SeverAfter THEN count + 1 ELSE 1

OnExchange(began) ==
    LET n == IF severed = TRUE THEN Restored(AgeAt(began)) ELSE RestoreExchanges
    IN  /\ severed' = (n < RestoreExchanges)
        /\ count' = IF n < RestoreExchanges THEN n ELSE 0
        /\ seen' = TRUE
        /\ age' = began

\* Mutant of OnSilence: only a link that is undecided becomes severed.
OnSilenceUndecided(began) ==
    /\ severed' = IF AgeAt(began) > SeverAfter /\ severed = None THEN TRUE ELSE severed
    /\ count' = count
    /\ seen' = seen
    /\ age' = IF age = None THEN began ELSE age

OnSilence(began) ==
    /\ severed' = IF AgeAt(began) > SeverAfter THEN TRUE ELSE severed
    /\ count' = IF AgeAt(began) > SeverAfter /\ severed # TRUE THEN 0 ELSE count
    /\ seen' = seen
    /\ age' = IF age = None THEN began ELSE age

\* Mutant of Rebased: a failed probe clears the baseline to zero.
RebasedByFailure(sum) == base' = IF sum = None THEN 0 ELSE sum

\* A failed probe leaves the baseline as it was.
Rebased(sum) == base' = IF sum = None THEN base ELSE sum

\* The row a probe leads to.
Built(lag) ==
    [lag |-> IF lag = None THEN LagUnknown ELSE lag,
     severed |-> severed' = TRUE,
     healthy |-> lag # None /\ severed' # None]

Observe(sum, lag, slip) ==
    /\ Rebased(sum)
    /\ IF IsExchange(sum, lag) THEN OnExchange(work.began) ELSE OnSilence(work.began)
    /\ work' = [pc |-> "write", row |-> Built(lag)]
    /\ IF IsExchange(sum, lag)
       THEN /\ slips' = Least(work.began, 2)
            /\ wasCut' = cut
            /\ stalled' = IF stalled = 0 THEN 0 ELSE stalled - 1
       ELSE Slips(slip) /\ UNCHANGED <<wasCut, stalled>>
    /\ UNCHANGED <<relay, brokerUp, row, pgUp, moved, faults>>

-----------------------------------------------------------------------------
(* The probe loop.                                                          *)

Wake ==
    /\ work.pc = "sleep"
    /\ work' = [pc |-> "list", began |-> 0]
    /\ UNCHANGED <<relay, brokerUp, reach, row, pgUp, history, faults>>

\* The group's offsets are read first; a group without any is absent.
ListOffsets ==
    /\ work.pc = "list" /\ brokerUp /\ Listed # {}
    /\ work' = [pc |-> "marks", began |-> work.began, offsets |-> Reported]
    /\ UNCHANGED <<relay, brokerUp, reach, row, pgUp, history, faults>>

\* Then the log ends, which have moved on or were reset meanwhile.
LagOf(offsets) ==
    SumFunction([t \in DOMAIN offsets |->
                    IF offsets[t] < end[t] THEN end[t] - offsets[t] ELSE 0])

ReadMarks ==
    /\ work.pc = "marks" /\ brokerUp
    /\ Observe(SumFunction(work.offsets), LagOf(work.offsets), 0)

ProbeFails ==
    /\ Reading
    /\ ~brokerUp \/ (work.pc = "list" /\ Listed = {})
    /\ Observe(None, None, 1)

WriteRow ==
    /\ work.pc = "write" /\ pgUp
    /\ row' = work.row
    /\ work' = [pc |-> "done"]
    /\ UNCHANGED <<relay, brokerUp, reach, pgUp, history, faults>>

\* A write that must not be retried is logged, and the loop goes on.
WriteFails ==
    /\ work.pc = "write" /\ pgUp /\ faults < MaxFaults
    /\ faults' = faults + 1
    /\ work' = [pc |-> "done"]
    /\ UNCHANGED <<relay, brokerUp, reach, row, pgUp, history>>

\* The process starts again, with the row its predecessor left.
Restart ==
    /\ faults < MaxFaults
    /\ faults' = faults + 1
    /\ work' = [pc |-> "sleep"]
    /\ base' = None /\ age' = None /\ seen' = FALSE /\ severed' = None /\ count' = 0
    /\ moved' = 0 /\ slips' = 0 /\ wasCut' = cut /\ stalled' = 0
    /\ UNCHANGED <<relay, brokerUp, row, pgUp>>

Next ==
    \/ \E t \in Topics : Publish(t) \/ Acknowledge(t) \/ ResetGroup(t) \/ Recreate(t)
    \/ Cut \/ Heal \/ BrokerTurns \/ PostgresTurns \/ Tick
    \/ Wake \/ ListOffsets \/ ReadMarks \/ ProbeFails
    \/ WriteRow \/ WriteFails \/ Restart

Spec == Init /\ [][Next]_vars

\* Timers fire, the calls of the loop end, and a relay that can forwards.
FairSpec ==
    /\ Spec
    /\ WF_vars(Tick) /\ WF_vars(Wake) /\ WF_vars(WriteRow)
    /\ WF_vars(ListOffsets \/ ReadMarks \/ ProbeFails)
    /\ \A t \in Topics : WF_vars(Acknowledge(t))

-----------------------------------------------------------------------------
(* Properties.                                                              *)

Offset == 0..MaxAppends
Began == 0..SlowMax
Readings == UNION {[S -> Offset] : S \in SUBSET Topics}
RowType == [lag : {LagUnknown} \cup Nat, severed : BOOLEAN, healthy : BOOLEAN]
WorkType ==
    [pc : {"sleep", "done"}] \cup [pc : {"list"}, began : Began]
        \cup [pc : {"marks"}, began : Began, offsets : Readings]
        \cup [pc : {"write"}, row : RowType]

\* The state has its type, a row without a reading says so and is not healthy,
\* and a restore that is counted is of a severed link and not yet complete
\* (edge_buffer_monitor.py, LinkReachability and the probe loop).
TypeOK ==
    /\ end \in [Topics -> Offset]
    /\ acked \in [Topics -> Offset \cup {None}]
    /\ cut \in BOOLEAN /\ brokerUp \in BOOLEAN /\ pgUp \in BOOLEAN
    /\ debt \in 0..(2 * ExchangePeriod)
    /\ work \in WorkType
    /\ base \in Nat \cup {None}
    /\ age \in (0..AgeMax) \cup {None}
    /\ seen \in BOOLEAN
    /\ severed \in BOOLEAN \cup {None}
    /\ count \in 0..(RestoreExchanges - 1)
    /\ count > 0 => severed = TRUE
    /\ row \in RowType \cup {None}
    /\ row # None => (row.healthy => row.lag # LagUnknown)
    /\ moved \in 0..MovedMax /\ slips \in 0..2
    /\ wasCut \in BOOLEAN /\ stalled \in 0..2
    /\ faults \in 0..MaxFaults

\* A link that was not cut is not called severed for one slip: a slow commit, a
\* missed or slow probe, a reset; an outage of Postgres that holds the loop up is
\* left out (default_sever_after_s: "a single slow commit or a single missed probe
\* heartbeat never reads as severed").
NoFalseAlarm ==
    [][severed' = TRUE /\ severed # TRUE
          => wasCut \/ stalled > 0 \/ slips > 1 \/ slips' > 1]_vars

\* A link is called up only if the relay committed, or had caught up, within two
\* thresholds, a unit and what two probes may take: failed probes, resets and
\* recreated topics never make the evidence look younger by more than that.  An
\* outage of Postgres that held the loop up, or a reset between the two calls of
\* a probe, blurs it until two exchanges later (LinkReachability.observe).
VouchedRecently ==
    severed = FALSE /\ work.pc = "write" /\ stalled = 0 => moved < MovedMax

\* A severed link is never restored by an exchange that comes long after the one
\* before it, or by the first there is (LinkReachability: one after a long sever
\* "doesn't immediately read as healthy").
NoLoneRestore ==
    [][severed = TRUE /\ severed' = FALSE => seen /\ AgeAt(work.began) <= SeverAfter]_vars

Shown(verdict) == row # None /\ row.healthy /\ row.severed = verdict

\* A cut that lasts while listed records wait shows as severed, or the row says
\* that its probe is not healthy.
CutShown ==
    <>[](cut /\ pgUp /\ Waiting # {})
        => <>[](row # None /\ (row.severed \/ ~row.healthy))

\* A link that stays whole, with its brokers, shows as up in the end.
HealShown ==
    <>[](~cut /\ brokerUp /\ pgUp /\ Listed # {}) => <>[]Shown(FALSE)
\* What the docs say beyond the code.

\* A cut that lasts shows as severed, or the row says its probe is not healthy
\* (module docstring: severed is "no exchange with its parent for longer than
\* LINK_SEVER_AFTER_S").
EveryCutShown ==
    <>[](cut /\ brokerUp /\ pgUp) => <>[](row # None /\ (row.severed \/ ~row.healthy))

\* A row with lag 0 is written only if the relay has caught up (module docstring:
\* the lag "IS the real edge-buffer depth").
LagIsDepth ==
    [][work.pc = "marks" /\ work'.pc = "write" /\ work'.row.lag = 0 => Owing = {}]_vars

\* Once up, the link is severed by the first observation whose age is over the
\* threshold (LinkReachability: "it flips to severed the first time age is
\* STRICTLY greater than `sever_after_s`").
AgeSevers ==
    [][Reading /\ work'.pc = "write" /\ severed = FALSE
          /\ AgeAt(work.began) > SeverAfter => severed' = TRUE]_vars
=============================================================================
