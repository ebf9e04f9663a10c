------------------------------- MODULE Lifecycle -------------------------------
(***************************************************************************)
(* The two status columns of telemetry_latest_state, operational_status    *)
(* and reporting_status, and everything that writes or deletes the row:    *)
(* the telemetry_latest handler behind its consumer worker, the staleness  *)
(* sweep and the pruner's statement on this table.  Its passes over the    *)
(* other tables, which it judges by this one, are Retention's.             *)
(*                                                                         *)
(* Positions are kept per asset: a batch writes one row per asset in a     *)
(* statement of its own, so batches of several assets are batches of each. *)
(***************************************************************************)
EXTENDS Naturals, Sequences, FiniteSets

CONSTANTS
    Assets,    \* asset ids
    None,      \* SQL NULL, an absent field and a row that is not there
    Logs,      \* what telemetry-latest-state may hold of one asset
    BatchMax,  \* BATCH_MAX_MESSAGES
    Stale,     \* REPORTING_STALE_AFTER_S
    Ttl,       \* asset_ttl_hours
    MaxTime,   \* bound: the clock
    LastInput, \* bound: no record is handled after this time
    MaxCrashes \* bound: crashes

Time == 0..MaxTime
\* TERMINAL_OPERATIONAL_STATUSES
Terminal == {"destroyed", "deactivated", "removed"}
Status == Terminal \cup {"operational"}

\* A record: with kinematics or without, the operational_status field, a
\* FAILED health, a DIS source_protocol, and the leaf's sample_time.
Record == [kinematics : BOOLEAN, field : Terminal \cup {None},
           failed : BOOLEAN, dis : BOOLEAN, sample : Time \cup {None}]

VARIABLES
    log,       \* the topic, by asset
    next,      \* per asset: the next record to drain
    committed, \* per asset: where a restarted worker begins
    now,       \* this instance's clock
    rows,      \* telemetry_latest_state by asset
    applied,   \* history: per asset the offsets whose record was written
    coalesced, \* history: those a later record replaced when last delivered
    lost,      \* history: those lost when last delivered
    pruned,    \* history: assets whose row was pruned
    crashes    \* how often the process has died

topic == <<log, next, committed>>
histories == <<applied, coalesced, lost>>
vars == <<topic, now, rows, histories, pruned, crashes>>

Reporting == {"reporting", "not_reporting"}
Row == [operational : Status, reporting : Reporting,
        sampleAt : Time \cup {None}, updatedAt : Time]

ASSUME LifecycleAssumption ==
    /\ Logs \subseteq Seq(Record)
    /\ BatchMax \in Nat \ {0}
    /\ Stale \in Nat /\ Ttl \in Nat
    /\ MaxTime \in Nat /\ LastInput \in Time /\ MaxCrashes \in Nat
    /\ None \notin Status /\ None \notin Time /\ None \notin Row

Init ==
    /\ log \in [Assets -> Logs]
    /\ next = [a \in Assets |-> 1]
    /\ committed = next
    /\ now = 0
    /\ rows = [a \in Assets |-> None]
    /\ applied = [a \in Assets |-> {}]
    /\ coalesced = applied
    /\ lost = applied
    /\ pruned = {}
    /\ crashes = 0

-----------------------------------------------------------------------------
(* The handler: what one record makes of the asset's row.                   *)

\* operational_status_from_op_state, else is_dis_destroyed_signal.
Claim(r) ==
    IF r.field # None THEN r.field
    ELSE IF r.failed /\ r.dis THEN "destroyed" ELSE None

StatusOnly(r) == ~r.kinematics /\ r.field # None

\* Columns the statement does not name take the schema's defaults.
Inserted(r) ==
    [operational |-> IF Claim(r) = None THEN "operational" ELSE Claim(r),
     reporting   |-> "reporting",
     sampleAt    |-> IF StatusOnly(r) THEN None ELSE r.sample,
     updatedAt   |-> now]

\* Mutant of Revived: any terminal status is undone by an appearance.
RevivedAny(r, status) ==
    IF status \in Terminal /\ r.kinematics THEN "operational" ELSE status

\* Write.revive: only "deactivated" is undone, and only by kinematics.
Revived(r, status) ==
    IF status = "deactivated" /\ r.kinematics THEN "operational" ELSE status

\* A status-only record leaves what only the asset itself reports alone.
Updated(r, row) ==
    IF StatusOnly(r)
    THEN [row EXCEPT !.operational = r.field, !.updatedAt = now]
    ELSE [operational |-> IF Claim(r) # None THEN Claim(r)
                          ELSE Revived(r, row.operational),
          reporting   |-> "reporting",
          sampleAt    |-> r.sample,
          updatedAt   |-> now]

\* Mutant of RowAfter: a removal is an upsert like every other claim.
RowAfterUpsert(r, row) == IF row = None THEN Inserted(r) ELSE Updated(r, row)

\* A removal is mode "update", which creates no row; the rest are upserts.
RowAfter(r, row) ==
    IF row # None THEN Updated(r, row)
    ELSE IF StatusOnly(r) /\ r.field = "removed" THEN None
    ELSE Inserted(r)

\* Record k of asset a goes through _persist: it is written, or skipped, by
\* an exception of its own or by a statement the server aborts.
WriteOrSkip(a, k) ==
    \/ /\ rows' = [rows EXCEPT ![a] = RowAfter(log[a][k], @)]
       /\ applied' = [applied EXCEPT ![a] = @ \cup {k}]
       /\ lost' = [lost EXCEPT ![a] = @ \ (next[a]..k)]
    \/ /\ UNCHANGED <<rows, applied>>
       /\ lost' = [lost EXCEPT ![a] = (@ \ (next[a]..k)) \cup {k}]

\* The worker drains up to BatchMax records and persists an asset's last one.
Persist(a) ==
    /\ now <= LastInput
    /\ \E n \in 1..BatchMax :
         LET k == next[a] + n - 1 IN
         /\ k <= Len(log[a])
         /\ next' = [next EXCEPT ![a] = k + 1]
         /\ coalesced' = [coalesced EXCEPT ![a] = (@ \cup (next[a]..k)) \ {k}]
         /\ WriteOrSkip(a, k)
    /\ UNCHANGED <<log, committed, now, pruned, crashes>>

\* A batch is full, of this asset's records or of others', and the poll at the
\* foot of the drain took one more record, which is in no batch.
PollOver(a) ==
    /\ now <= LastInput
    /\ next[a] <= Len(log[a])
    /\ next' = [next EXCEPT ![a] = @ + 1]
    /\ coalesced' = [coalesced EXCEPT ![a] = @ \ {next[a]}]
    /\ lost' = [lost EXCEPT ![a] = @ \cup {next[a]}]
    /\ UNCHANGED <<log, committed, now, rows, applied, pruned, crashes>>

\* The batch's commit, which may also fail and be left to a later one.
Commit(a) ==
    /\ committed[a] < next[a]
    /\ committed' = [committed EXCEPT ![a] = next[a]]
    /\ UNCHANGED <<log, next, now, rows, histories, pruned, crashes>>

\* The process dies, perhaps long after an exception ended the worker's task,
\* and resumes from the committed offsets.
Crash ==
    /\ crashes < MaxCrashes
    /\ crashes' = crashes + 1
    /\ next' = committed
    /\ UNCHANGED <<log, committed, now, rows, histories, pruned>>

-----------------------------------------------------------------------------
(* The background tasks.                                                    *)

\* Mutant of IsStale: the comparison is the wrong way round.
IsStaleReversed(row) ==
    /\ row # None
    /\ row.reporting # "not_reporting"
    /\ row.sampleAt # None
    /\ row.sampleAt + Stale > now

\* NULL < x is not true, so a row without a sample is never stale.
IsStale(row) ==
    /\ row # None
    /\ row.reporting # "not_reporting"
    /\ row.sampleAt # None
    /\ row.sampleAt + Stale < now

StalenessSweep ==
    /\ \E a \in Assets : IsStale(rows[a])
    /\ rows' = [a \in Assets |->
                 IF IsStale(rows[a])
                 THEN [rows[a] EXCEPT !.reporting = "not_reporting"]
                 ELSE rows[a]]
    /\ UNCHANGED <<topic, now, histories, pruned, crashes>>

IsTerminal(a) == rows[a] # None /\ rows[a].operational \in Terminal

\* Mutant of Prunable: the pruner looks at age alone.
PrunableByAge(a) == rows[a] # None /\ rows[a].updatedAt + Ttl < now

\* A lifecycle row the pruner may delete: terminal and past its TTL.
Prunable(a) == IsTerminal(a) /\ rows[a].updatedAt + Ttl < now

\* A pass comes to this table.
PruneLifecycle ==
    /\ \E a \in Assets : Prunable(a)
    /\ rows' = [a \in Assets |-> IF Prunable(a) THEN None ELSE rows[a]]
    /\ pruned' = pruned \cup {a \in Assets : Prunable(a)}
    /\ UNCHANGED <<topic, now, histories, crashes>>

Tick ==
    /\ now < MaxTime
    /\ now' = now + 1
    /\ UNCHANGED <<topic, rows, histories, pruned, crashes>>

Next ==
    \/ \E a \in Assets : Persist(a) \/ PollOver(a) \/ Commit(a)
    \/ Crash
    \/ StalenessSweep
    \/ PruneLifecycle
    \/ Tick

Spec == Init /\ [][Next]_vars

(***************************************************************************)
(* Time passes, and the sweep loops for ever on its interval whatever fails *)
(* in one round.  No input has to arrive.                                  *)
(***************************************************************************)
Fairness == WF_vars(Tick) /\ WF_vars(StalenessSweep)

FairSpec == Spec /\ Fairness

-----------------------------------------------------------------------------
(* Properties.                                                              *)

StoreType ==
    /\ log \in [Assets -> Seq(Record)]
    /\ now \in Time /\ crashes \in 0..MaxCrashes
    /\ rows \in [Assets -> Row \cup {None}]
    /\ pruned \subseteq Assets
PlaceType ==
    /\ next \in [Assets -> Nat] /\ committed \in [Assets -> Nat]
    /\ applied \in [Assets -> SUBSET Nat]
    /\ coalesced \in [Assets -> SUBSET Nat] /\ lost \in [Assets -> SUBSET Nat]
    /\ \A a \in Assets :
         /\ next[a] \in 1..Len(log[a]) + 1
         /\ committed[a] \in 1..next[a]
         /\ applied[a] \subseteq 1..Len(log[a])

\* Every column and position is of its type, and a restart only goes back.
TypeOK == StoreType /\ PlaceType

\* "appearance proves nothing": once destroyed or removed, a row changes its
\* operational_status only by a record that itself claims the new one.
OnlyClaimsMoveTheGone ==
    [][\A a \in Assets :
          /\ rows[a] # None /\ rows[a].operational \in {"destroyed", "removed"}
          /\ rows'[a] # None /\ rows'[a].operational # rows[a].operational
          => \E k \in applied'[a] :
                /\ k = next'[a] - 1
                /\ Claim(log[a][k]) = rows'[a].operational]_vars

\* A record that makes a row where there is none.
Creates(r) == ~(StatusOnly(r) /\ r.field = "removed")

\* Record k is the asset's last claim, of destroyed or removed, and a record
\* no later than it made the asset's row.
LastClaim(a, k) ==
    /\ Claim(log[a][k]) \in {"destroyed", "removed"}
    /\ \A m \in (k+1)..Len(log[a]) : Claim(log[a][m]) = None
    /\ \E m \in applied[a] : m <= k /\ Creates(log[a][m])

\* The asset's topic has been read to its end, and its row is still the first.
ReadOut(a) ==
    /\ next[a] = Len(log[a]) + 1
    /\ rows[a] # None /\ a \notin pruned

\* The records that were written when they were last delivered.
Written(a) == applied[a] \ (coalesced[a] \cup lost[a])

\* A last claim of destroyed or removed that was written is what the row says
\* once the topic has been read: no record before or after it in any batch, no
\* redelivery, loss of another record or sweep takes it back.
LastClaimLands ==
    \A a \in Assets : ReadOut(a) =>
       \A k \in 1..Len(log[a]) :
          LastClaim(a, k) /\ k \in Written(a) => rows[a].operational = Claim(log[a][k])

\* Withdrawal is not inferred from silence: a row goes only when a record that was
\* written claimed the asset gone, however old it is, and never that of an asset
\* that is not reporting but has claimed nothing.
GoneByClaim ==
    [][\A a \in Assets : rows[a] # None /\ rows'[a] = None =>
          \E k \in applied[a] : Claim(log[a][k]) \in Terminal]_vars

\* Silence is noticed: a row with a sample does not say "reporting" for ever
\* once records stop.
SilenceIsNoticed ==
    \A a \in Assets :
       (rows[a] # None /\ rows[a].sampleAt # None)
       ~> \/ rows[a] = None
          \/ rows[a].sampleAt = None
          \/ rows[a].reporting = "not_reporting"

-----------------------------------------------------------------------------
(* Statements of the code's own comments that the model refutes.            *)

\* _coalesce: "fine, we only need last value".  The last claim of destroyed or
\* removed need not be written itself, as long as no record from it on is lost.
LastValueSuffices ==
    \A a \in Assets : ReadOut(a) =>
       \A k \in 1..Len(log[a]) :
          LastClaim(a, k) /\ lost[a] \cap (k..Len(log[a])) = {}
          => rows[a].operational = Claim(log[a][k])

\* telemetry_latest.py, of destroyed and removed: "Both stay put until a
\* reset empties the stores."
GoneStaysPut ==
    [][\A a \in Assets :
          rows[a] # None /\ rows[a].operational \in {"destroyed", "removed"}
          => rows'[a] = None \/ rows'[a].operational = rows[a].operational]_vars

\* lifecycle_status.py: "`last_sample_at is None` (never sampled) reads as
\* not_reporting".
NeverSampledNotReporting ==
    \A a \in Assets :
       (rows[a] # None /\ rows[a].sampleAt = None)
       ~> ~(rows[a] # None /\ rows[a].sampleAt = None /\ rows[a].reporting = "reporting")
=============================================================================
