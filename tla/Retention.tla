------------------------------- MODULE Retention -------------------------------
(***************************************************************************)
(* What the pruner deletes, of any configuration: config.py turns a file   *)
(* and the environment into mappings, main.py turns those into an ordered  *)
(* list of targets, and each pass of prune_loop executes one statement per *)
(* target while the handlers go on writing and the clock goes on.          *)
(*                                                                         *)
(* The rows are those of one asset, one to a table; every statement judges *)
(* an asset by itself.  How a status is claimed is Lifecycle's, and what   *)
(* the eviction after an owned table's prune does is ElementState's.       *)
(***************************************************************************)
EXTENDS Integers, Sequences, SequencesExt

CONSTANTS
    Tables,       \* table names
    AssetIdTables, \* those with an asset_id column, by their handlers' rows
    None,         \* SQL NULL, a setting that is not there, an absent row
    Deployments,  \* what a start may find: the file's mappings, the env TTL
    MaxTime,      \* bound: the clock
    LastInput,    \* bound: nothing is written after this time
    MaxFaults     \* bound: restarts and failed statements

Time == 0..MaxTime

\* A mapping of the file.  Hours are in units of the clock.
Mapping == [table : Tables, mode : {"upsert", "append", "custom"},
            retention : Nat \cup {None}, ttl : Nat \cup {None}]

LifecycleTable == "telemetry_latest_state"
ParentOwned == [asset_element_state |-> "asset_element_telemetry"]
NotAssetIdKeyed == {"inventory_items"}
CustomPruned == {"asset_element_telemetry"}

ASSUME RetentionAssumption ==
    /\ AssetIdTables \cup DOMAIN ParentOwned \cup Range(ParentOwned) \subseteq Tables
    /\ LifecycleTable \in Tables
    /\ None \notin Int
    /\ \A d \in Deployments :
         /\ d.file \in Seq(Mapping)
         /\ d.env \in Nat \cup {None}
    /\ MaxTime \in Nat /\ LastInput \in Time /\ MaxFaults \in Nat

VARIABLES
    config,    \* what the running process found at its start
    now,       \* the store's clock
    rows,      \* the time column of each table's row, None without one
    terminal,  \* the status column of the lifecycle table's row
    target,    \* the pruner's place in its targets
    passAt,    \* history: when the running pass did its first target
    failed,    \* history: tables whose statement failed in the running pass
    faults     \* how often the bounded faults have happened

vars == <<config, now, rows, terminal, target, passAt, failed, faults>>

-----------------------------------------------------------------------------
(***************************************************************************)
(* config.py and build_prune_targets.                                      *)
(***************************************************************************)

\* 0 and an absent setting are the same to an "if".
Truthy(hours) == hours # None /\ hours # 0

\* load_config refuses element telemetry that would never be pruned.
Loadable(d) ==
    \A i \in DOMAIN d.file : d.file[i].table = "asset_element_telemetry" =>
        d.file[i].mode = "custom" /\ Truthy(d.file[i].ttl)

\* PROJECTOR_ASSET_TTL_HOURS overrides the file, 0 disables: also for an upsert
\* mapping without a TTL, but for a custom one only if it declares one.
Ttl(m, env) ==
    IF (m.mode = "upsert" \/ (m.mode = "custom" /\ Truthy(m.ttl))) /\ env # None
    THEN IF env > 0 THEN env ELSE None
    ELSE m.ttl

\* Mutant of Keyed: tables that have no asset_id are left to their age.
KeyedIfColumn(table) == table \notin NotAssetIdKeyed /\ table \in AssetIdTables

\* asset_id_keyed, of an upsert target.
Keyed(table) == table \notin NotAssetIdKeyed

AppendTarget(m) ==
    IF m.mode = "append" /\ Truthy(m.retention)
    THEN <<[table |-> m.table, keyed |-> FALSE, hours |-> m.retention]>> ELSE <<>>
AppendTargets(d) == FlattenSeq([i \in DOMAIN d.file |-> AppendTarget(d.file[i])])

AgedTarget(m, env) ==
    IF /\ m.mode = "upsert" \/ (m.mode = "custom" /\ m.table \in CustomPruned)
       /\ Truthy(Ttl(m, env))
    THEN <<[table |-> m.table, keyed |-> Keyed(m.table), hours |-> Ttl(m, env)]>>
    ELSE <<>>
AgedTargets(d) == FlattenSeq([i \in DOMAIN d.file |-> AgedTarget(d.file[i], d.env)])

\* Mutant of LifecycleLast: the order of the file.
InFileOrder(targets) == targets

\* The stable sort.
OfLifecycle(targets, kept) ==
    FlattenSeq([i \in DOMAIN targets |->
        IF (targets[i].table = LifecycleTable) = kept THEN <<targets[i]>> ELSE <<>>])
LifecycleLast(targets) == OfLifecycle(targets, FALSE) \o OfLifecycle(targets, TRUE)

\* An owned table follows the first target of its owner.
OwnedAfter(targets, i) ==
    SetToSeq({[table |-> child, keyed |-> TRUE, hours |-> 0] :
                child \in {c \in DOMAIN ParentOwned :
                             /\ ParentOwned[c] = targets[i].table
                             /\ \A j \in 1..(i - 1) : targets[j].table # ParentOwned[c]}})
WithOwned(targets) ==
    FlattenSeq([i \in DOMAIN targets |-> <<targets[i]>> \o OwnedAfter(targets, i)])

\* build_prune_targets, of each configuration that a process runs with.
TargetsOf ==
    [d \in {d \in Deployments : Loadable(d)} |->
        AppendTargets(d) \o WithOwned(LifecycleLast(AgedTargets(d)))]
PruneTargets == TargetsOf[config]

-----------------------------------------------------------------------------
Init ==
    /\ config \in {d \in Deployments : Loadable(d)}
    /\ now = 0
    /\ rows = [t \in Tables |-> None]
    /\ terminal = FALSE
    /\ target = 1
    /\ passAt = 0
    /\ failed = {}
    /\ faults = 0

Mapped == {config.file[i].table : i \in DOMAIN config.file}
Row(t) == rows[t] # None

\* A worker writes the asset's row.  Written to the lifecycle table, the status
\* may change with it.
Write(t) ==
    /\ now <= LastInput
    /\ t \in Mapped
    /\ rows' = [rows EXCEPT ![t] = now]
    /\ terminal' \in IF t = LifecycleTable THEN BOOLEAN ELSE {terminal}
    /\ UNCHANGED <<config, now, target, passAt, failed, faults>>

\* The element handler's transaction: element rows, with or without the asset's.
WriteOwned(t) ==
    /\ now <= LastInput
    /\ ParentOwned[t] \in Mapped
    /\ \E parent \in {rows[ParentOwned[t]], now} :
         rows' = [rows EXCEPT ![t] = now, ![ParentOwned[t]] = parent]
    /\ UNCHANGED <<config, now, terminal, target, passAt, failed, faults>>

Gone == Row(LifecycleTable) /\ terminal
OlderThan(t, hours) == Row(t) /\ rows[t] + hours < now

\* build_prune_sql: which row the statement deletes.
Deleted(t) ==
    IF t.table \in DOMAIN ParentOwned THEN ~Row(ParentOwned[t.table])
    ELSE OlderThan(t.table, t.hours) /\ (t.keyed => Gone)

\* The join is on an asset_id that the table may not have.
Fails(t) == t.keyed /\ t.table \notin AssetIdTables

\* The place after this target; at the end the pass is over.
GoOn(fails) ==
    LET t == PruneTargets[target].table
        earlier == IF target = 1 THEN {} ELSE failed IN
    /\ target' = IF target = Len(PruneTargets) THEN 1 ELSE target + 1
    /\ passAt' = IF target = 1 THEN now ELSE passAt
    /\ failed' = IF fails THEN earlier \cup {t} ELSE earlier

Prune ==
    /\ PruneTargets # <<>>
    /\ ~Fails(PruneTargets[target])
    /\ LET t == PruneTargets[target] IN
         rows' = IF Deleted(t) THEN [rows EXCEPT ![t.table] = None] ELSE rows
    /\ GoOn(FALSE)
    /\ UNCHANGED <<config, now, terminal, faults>>

\* Mutant of PruneRefused: what fails once ends the pass.
PruneRefusedStops ==
    /\ PruneTargets # <<>>
    /\ Fails(PruneTargets[target])
    /\ target' = 1
    /\ UNCHANGED <<config, now, rows, terminal, passAt, failed, faults>>

\* Postgres refuses the statement, and the pass goes on.
PruneRefused ==
    /\ PruneTargets # <<>>
    /\ Fails(PruneTargets[target])
    /\ GoOn(TRUE)
    /\ UNCHANGED <<config, now, rows, terminal, faults>>

\* So it does when a statement fails for another reason.
PruneFails ==
    /\ PruneTargets # <<>>
    /\ faults < MaxFaults
    /\ faults' = faults + 1
    /\ GoOn(TRUE)
    /\ UNCHANGED <<config, now, rows, terminal>>

\* The process ends, and is started on a file and an environment of its own.
Restart(d) ==
    /\ faults < MaxFaults
    /\ faults' = faults + 1
    /\ Loadable(d)
    /\ config' = d
    /\ target' = 1
    /\ UNCHANGED <<now, rows, terminal, passAt, failed>>

Tick ==
    /\ now < MaxTime
    /\ now' = now + 1
    /\ UNCHANGED <<config, rows, terminal, target, passAt, failed, faults>>

Next ==
    \/ \E t \in Tables : Write(t)
    \/ \E t \in DOMAIN ParentOwned : WriteOwned(t)
    \/ Prune \/ PruneRefused \/ PruneFails
    \/ \E d \in Deployments : Restart(d)
    \/ Tick

Spec == Init /\ [][Next]_vars

\* Time passes, and the loop goes round for ever, whatever fails in a pass.
FairSpec == Spec /\ WF_vars(Tick) /\ WF_vars(Prune) /\ WF_vars(PruneRefused)

-----------------------------------------------------------------------------
(***************************************************************************)
(* Properties.                                                             *)
(***************************************************************************)

\* Every variable has its type; the place is one of the targets, if there are
\* any.
TypeOK ==
    /\ config \in Deployments /\ Loadable(config)
    /\ now \in Time /\ passAt \in Time
    /\ rows \in [Tables -> Time \cup {None}]
    /\ terminal \in BOOLEAN
    /\ target \in 1..Len(PruneTargets) \cup {1}
    /\ failed \subseteq Tables
    /\ faults \in 0..MaxFaults

Targeted == {PruneTargets[i].table : i \in DOMAIN PruneTargets}
HoursOf(t) == (CHOOSE x \in Range(PruneTargets) : x.table = t).hours

\* The lifecycle row is the evidence that the others are judged by: a pass that
\* took no time deletes it only when no dependent row is left that its own
\* target was to delete, whatever the order of the file, and no rows whose owner
\* the pass deleted, unless they were written meanwhile (prune_loop's docstring).
\* Statements that failed are excused, each for its own table.
EvidenceGoesLast ==
    [][Row(LifecycleTable) /\ rows'[LifecycleTable] = None
       /\ (target = 1 \/ passAt = now)
       => \A t \in Targeted \ {LifecycleTable} :
            \/ t \in failed
            \/ ~Row(t) \/ rows[t] = now
            \/ IF t \in DOMAIN ParentOwned THEN Row(ParentOwned[t])
               ELSE ~OlderThan(t, HoursOf(t))]_vars

\* "Rollup tables are aggregates ...; they shouldn't be aged out by a static
\* TTL": no rollup row is ever deleted, under any setting of the environment,
\* though its mapping is made a target by one.
Rollups ==
    {m.table : m \in UNION {{m \in Range(d.file) : m.mode = "upsert"} : d \in Deployments}}
    \ (AssetIdTables \cup NotAssetIdKeyed)
RollupsStay == [][\A t \in Rollups : Row(t) => rows'[t] # None]_vars

\* A gone asset's lifecycle row goes in the end, as long as the running
\* configuration prunes it: no target before it holds the pass up.
RetiredRowGoes ==
    (Gone /\ LifecycleTable \in Targeted) ~> ~(Gone /\ LifecycleTable \in Targeted)

-----------------------------------------------------------------------------
(***************************************************************************)
(* Statements of the code's own comments that the model refutes.           *)
(***************************************************************************)

\* config.py, of element telemetry: "without a TTL the prune never runs: refuse
\* at load".
LoadedMeansPruned ==
    "asset_element_telemetry" \in Mapped => "asset_element_state" \in Targeted

\* config.py: "None = no TTL (the rollup tables are aggregates and shouldn't be
\* aged out by asset turnover)": a mapping whose file sets no TTL is no target.
NoTtlNoTarget ==
    \A i \in DOMAIN config.file :
        config.file[i].ttl = None /\ config.file[i].retention = None
        => config.file[i].table \notin Targeted

\* prune_loop: it "bounds postgres growth": a gone asset's old rows go, also
\* where the TTLs of the tables differ.
EveryRetiredRowGoes ==
    \A t \in AssetIdTables :
        (Row(t) /\ Gone /\ t \in Targeted)
        ~> (~Row(t) \/ t \notin Targeted \/ (Row(LifecycleTable) /\ ~terminal))
=============================================================================
