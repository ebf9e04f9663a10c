------------------------------ MODULE Attribution ------------------------------
(***************************************************************************)
(* Whose row it is: the origin columns (edge_id, region_id) and the label  *)
(* columns (originator_nation, releasable_to) of a table that a pure       *)
(* handler upserts.  handlers/base.py says which of them a message names,  *)
(* edge_assignment.py derives an origin for a message that has none, and   *)
(* the upsert overwrites the columns that were named and no other.         *)
(*                                                                         *)
(* The worker is Consumer's, cut down to what matters here: which messages *)
(* of a batch reach the table, and which ones come again after a crash,    *)
(* then with the configuration the process finds at its new start.         *)
(***************************************************************************)
EXTENDS Integers, Sequences, FiniteSetsExt

CONSTANTS
    Assets,     \* asset ids; of a rollup topic, region ids
    Nations,
    Edges, Regions,
    Places,     \* where an asset or a FOB can be, on a line
    None,       \* SQL NULL, and an absent or empty field
    Mappings,   \* a topic's handler, with what may be on the topic
    Configs,    \* what a process may find at a start
    BatchMax,   \* BATCH_MAX_MESSAGES
    MaxLog,     \* bound: messages ever produced
    MaxCrashes, \* bound: times the process dies
    MaxPrunes   \* bound: rows pruned

Origins == [edge : Edges, region : Regions]
Message == [asset : Assets, edge : Edges \cup {None}, region : Regions \cup {None},
            at : Places \cup {None}, nation : Nations \cup {None},
            releasable : SUBSET Nations]

\* Handlers by the helpers they take their columns from.
Deriving == {"telemetry_latest", "capability_state"}
Handlers == Deriving \cup {"telemetry_windows", "region_fleet_summary"}

\* The edge_assignment block, a chain of strategies and a last resort, and
\* the origin of the deployment's environment.  A block of one strategy is
\* its chain; a chain within a chain reads as its members in place.
Fob == [edge : Edges, region : Regions, at : Places]

Strategy ==
    [strategy : {"nearest_fob"}, fobs : Seq(Fob)]
    \cup [strategy : {"static"}, map : UNION {[A -> Origins] : A \in SUBSET Assets}]
    \cup [strategy : {"asset_id_prefix"}]

Row == [edge : Edges \cup {None}, region : Regions \cup {None},
        nation : Nations \cup {None}, releasable : {None} \cup SUBSET Nations]

ASSUME AttributionAssumption ==
    /\ Mappings \subseteq [handler : Handlers, topic : SUBSET Message]
    /\ Places \subseteq Int
    /\ \A c \in Configs :
         c.chain \in Seq(Strategy) /\ c.fallback \in Origins /\ c.env \in Origins
    /\ BatchMax \in Nat \ {0}
    /\ MaxLog \in Nat /\ MaxCrashes \in Nat /\ MaxPrunes \in Nat
    /\ None \notin Edges /\ None \notin Regions /\ None \notin Origins
    /\ (\A S \in SUBSET Nations : S # None) /\ None \notin Row

VARIABLES
    mapping,    \* the worker's topic and handler
    config,     \* what the running process found at its start
    up,         \* is it running
    log,        \* the partition
    pos,        \* last offset drained
    committed,  \* last offset committed
    todo,       \* offsets of the coalesced batch not yet written
    rows,       \* the table: by row key, what the columns hold
    applied,    \* history: by row key, offsets written since the row's insert
    passed,     \* history: offsets a later one replaced when last drained
    lost,       \* history: offsets lost when last drained
    crashes, prunes

vars == <<mapping, config, up, log, pos, committed, todo, rows, applied,
          passed, lost, crashes, prunes>>

Handler == mapping.handler
Rollup == Handler = "region_fleet_summary"

-----------------------------------------------------------------------------
(***************************************************************************)
(* edge_assignment.py: a strategy answers with an origin or with None.     *)
(***************************************************************************)
Distance(p, q) == IF p <= q THEN q - p ELSE p - q

\* min() keeps the first of several nearest FOBs.
NearestFob(fobs, at) ==
    CHOOSE i \in DOMAIN fobs : \A j \in DOMAIN fobs :
        \/ Distance(at, fobs[i].at) < Distance(at, fobs[j].at)
        \/ Distance(at, fobs[i].at) = Distance(at, fobs[j].at) /\ i <= j

Place(p) == [edge |-> p.edge, region |-> p.region]

Answer(member, asset, at) ==
    CASE member.strategy = "nearest_fob" ->
           IF at = None \/ member.fobs = <<>> THEN None
           ELSE Place(member.fobs[NearestFob(member.fobs, at)])
      [] member.strategy = "static" ->
           IF asset \in DOMAIN member.map THEN member.map[asset] ELSE None

\* The members of the chain that have an answer.
Deciding(asset, at) ==
    {i \in DOMAIN config.chain : Answer(config.chain[i], asset, at) # None}

\* Mutant of Resolve: the last strategy with an answer wins.
ResolveLast(asset, at) ==
    IF Deciding(asset, at) = {} THEN config.fallback
    ELSE Answer(config.chain[Max(Deciding(asset, at))], asset, at)

\* resolve_for: the first answer of the chain, or the last resort.
Resolve(asset, at) ==
    IF Deciding(asset, at) = {} THEN config.fallback
    ELSE Answer(config.chain[Min(Deciding(asset, at))], asset, at)

\* Builders refuse an unknown strategy and the removed asset_id_prefix.
Buildable(c) ==
    \A i \in DOMAIN c.chain : c.chain[i].strategy \in {"nearest_fob", "static"}

-----------------------------------------------------------------------------
(***************************************************************************)
(* handlers/base.py: the columns a message names, as a record of just them.*)
(***************************************************************************)
Else(value, default) == IF value # None THEN value ELSE default

\* These columns, and what the row has in the others.
Over(columns, row) ==
    [c \in DOMAIN columns \cup DOMAIN row |->
        IF c \in DOMAIN columns THEN columns[c] ELSE row[c]]

\* Mutant of DerivedOrigin: each column falls back on its own.
DerivedOriginByColumn(m, at) ==
    [edge |-> Else(m.edge, Resolve(m.asset, at).edge),
     region |-> Else(m.region, Resolve(m.asset, at).region)]

\* resolve_origin_or_derive: the message's own pair, or a derived one.
DerivedOrigin(m, at) ==
    IF m.edge # None /\ m.region # None THEN Place(m) ELSE Resolve(m.asset, at)

\* resolve_provenance_from_dict: each column falls back to the environment.
StampedOrigin(m) ==
    [edge |-> Else(m.edge, config.env.edge),
     region |-> Else(m.region, config.env.region)]

\* Mutant of Labels: an empty audience is omitted like an absent nation.
LabelsOmitEmpty(m) ==
    IF m.nation = None THEN <<>>
    ELSE IF m.releasable = {} THEN [nation |-> m.nation]
    ELSE [nation |-> m.nation, releasable |-> m.releasable]

\* releasability_from: both labels, or no label column at all.
Labels(m) ==
    IF m.nation = None THEN <<>>
    ELSE [nation |-> m.nation, releasable |-> m.releasable]

\* aggregate_releasability_from: a rollup has an audience, and no nation.
RollupLabels(m) == [nation |-> None, releasable |-> m.releasable]

\* Mutant of RowKey: a rollup is keyed by its region alone.
RowKeyByRegion(m) == <<m.asset, {}>>

\* The primary key: the asset, or the region with its releasability class
\* (aggregate_partition_key), which is the audience itself.
RowKey(m) == <<m.asset, IF Rollup THEN m.releasable ELSE {}>>
RowKeys == Assets \X SUBSET Nations

\* The handlers.  Only telemetry carries a position to derive from.
TelemetryLatest(m) == Over(Labels(m), DerivedOrigin(m, m.at))
CapabilityState(m) == Over(Labels(m), DerivedOrigin(m, None))
TelemetryWindows(m) == Over(Labels(m), StampedOrigin(m))
RegionFleetSummary(m) == RollupLabels(m)

Columns(m) ==
    CASE Handler = "telemetry_latest"     -> TelemetryLatest(m)
      [] Handler = "capability_state"     -> CapabilityState(m)
      [] Handler = "telemetry_windows"    -> TelemetryWindows(m)
      [] Handler = "region_fleet_summary" -> RegionFleetSummary(m)

\* build_sql: a column that is not named keeps its value, or is NULL in a
\* new row.
NewRow == [edge |-> None, region |-> None, nation |-> None, releasable |-> None]
Upsert(row, columns) == Over(columns, IF row = None THEN NewRow ELSE row)

-----------------------------------------------------------------------------
Init ==
    /\ mapping \in Mappings
    /\ config \in {c \in Configs : Buildable(c)}
    /\ up = TRUE
    /\ log = <<>>
    /\ pos = 0
    /\ committed = 0
    /\ todo = {}
    /\ rows = [k \in RowKeys |-> None]
    /\ applied = [k \in RowKeys |-> {}]
    /\ passed = {}
    /\ lost = {}
    /\ crashes = 0
    /\ prunes = 0

Produce(m) ==
    /\ Len(log) < MaxLog
    /\ log' = Append(log, m)
    /\ UNCHANGED <<mapping, config, up, pos, committed, todo, rows, applied,
                   passed, lost, crashes, prunes>>

\* A batch is drained, and the last message of each Kafka key is kept.  The
\* key is the asset or the region, without its class.  When messages and error
\* frames fill the list, one more message was polled that is in no batch.
Drain ==
    /\ up /\ todo = {}
    /\ \E n \in 1..BatchMax, over \in 0..1 :
         LET end == pos + n
             batch == pos + 1 .. end
         IN
         /\ end + over <= Len(log)
         /\ pos' = end + over
         /\ todo' = {o \in batch :
                       \A p \in o + 1 .. end : log[p].asset # log[o].asset}
         /\ passed' = (passed \ (pos + 1 .. pos')) \cup (batch \ todo')
         /\ lost' = (lost \ batch) \cup (end + 1 .. pos')
    /\ UNCHANGED <<mapping, config, up, log, committed, rows, applied, crashes,
                   prunes>>

Write(o) ==
    /\ LET k == RowKey(log[o]) IN
         /\ rows' = [rows EXCEPT ![k] = Upsert(@, Columns(log[o]))]
         /\ applied' = [applied EXCEPT ![k] = @ \cup {o}]
    /\ UNCHANGED lost

\* An exception in the decoder or the handler, a statement Postgres refuses,
\* or one the server aborts while shutting down: logged, and no row changes.
Skip(o) ==
    /\ lost' = lost \cup {o}
    /\ UNCHANGED <<rows, applied>>

Persist(o) ==
    /\ up
    /\ todo' = todo \ {o}
    /\ Write(o) \/ Skip(o)
    /\ UNCHANGED <<mapping, config, up, log, pos, committed, passed, crashes,
                   prunes>>

Commit ==
    /\ up /\ todo = {}
    /\ committed < pos
    /\ committed' = pos
    /\ UNCHANGED <<mapping, config, up, log, pos, todo, rows, applied, passed,
                   lost, crashes, prunes>>

\* The process dies, perhaps after an exception ended the worker's task.
Crash ==
    /\ up
    /\ crashes < MaxCrashes
    /\ crashes' = crashes + 1
    /\ up' = FALSE
    /\ pos' = committed
    /\ todo' = {}
    /\ UNCHANGED <<mapping, config, log, committed, rows, applied, passed, lost,
                   prunes>>

\* main() reads the configuration as it is now.  One that cannot be built is
\* fatal, and the process stays down until it is mended.
Start(c) ==
    /\ ~up
    /\ Buildable(c)
    /\ config' = c
    /\ up' = TRUE
    /\ UNCHANGED <<mapping, log, pos, committed, todo, rows, applied, passed,
                   lost, crashes, prunes>>

\* The pruner deletes the row of an asset that is gone for good; rollups have
\* no TTL.
Prune(k) ==
    /\ ~Rollup
    /\ rows[k] # None
    /\ prunes < MaxPrunes
    /\ prunes' = prunes + 1
    /\ rows' = [rows EXCEPT ![k] = None]
    /\ applied' = [applied EXCEPT ![k] = {}]
    /\ UNCHANGED <<mapping, config, up, log, pos, committed, todo, passed,
                   lost, crashes>>

Next ==
    \/ \E m \in mapping.topic : Produce(m)
    \/ Drain
    \/ \E o \in todo : Persist(o)
    \/ Commit
    \/ Crash
    \/ \E c \in Configs : Start(c)
    \/ \E k \in RowKeys : Prune(k)

Spec == Init /\ [][Next]_vars

-----------------------------------------------------------------------------
(***************************************************************************)
(* Properties.                                                             *)
(***************************************************************************)

\* The offsets that did not reach the table when they were last drained.
Missed == passed \cup lost

ProcessType ==
    /\ mapping \in Mappings
    /\ config \in Configs /\ Buildable(config) /\ up \in BOOLEAN

PlaceType ==
    /\ log \in Seq(mapping.topic)
    /\ pos \in 0..Len(log) /\ committed \in 0..pos
    /\ todo \subseteq committed + 1 .. pos
    /\ Missed \subseteq Nat

TableType ==
    /\ rows \in [RowKeys -> Row \cup {None}]
    /\ applied \in [RowKeys -> SUBSET (1..Len(log))]

\* Every variable has its type, the running configuration could be built, and
\* only what was produced is drained, committed or written.
TypeOK == ProcessType /\ PlaceType /\ TableType

LabelledRows == IF Rollup THEN {} ELSE {k \in RowKeys : rows[k] # None}
HomedRows == IF Handler \in Deriving THEN LabelledRows ELSE {}
Labelled(k) == {o \in applied[k] : log[o].nation # None}

\* The two labels of a row were stated together, by one message written since
\* the row's insert: no audience is shown under another message's nation,
\* although most messages name no label.  And labels lie no further back than
\* the last committed message that stated any, unless that one was replaced,
\* skipped or polled past a full batch when it was last drained.
LabelsOfLastLabelled ==
    \A k \in LabelledRows :
        IF Labelled(k) = {}
        THEN rows[k].nation = None /\ rows[k].releasable = None
        ELSE \E l \in Labelled(k) :
               /\ rows[k].nation = log[l].nation
               /\ rows[k].releasable = log[l].releasable
               /\ \A o \in Labelled(k) \ Missed : o <= committed => o <= l

ConfiguredHomes(c) ==
    {c.fallback}
    \cup (UNION {{c.chain[i].map[a] : a \in DOMAIN c.chain[i].map} :
                   i \in {i \in DOMAIN c.chain : c.chain[i].strategy = "static"}})
    \cup (UNION {{Place(c.chain[i].fobs[j]) : j \in DOMAIN c.chain[i].fobs} :
                   i \in {i \in DOMAIN c.chain : c.chain[i].strategy = "nearest_fob"}})

\* A row's edge and region belong together: they are one message's own pair,
\* or one place of a configuration, through changes of configuration and
\* messages that name only one of the two.
OriginFromOnePlace ==
    \A k \in HomedRows :
        \/ \E o \in applied[k] : Place(rows[k]) = Place(log[o])
        \/ \E c \in Configs : Place(rows[k]) \in ConfiguredHomes(c)

\* Does a static entry of the chain decide before any position is looked at?
PinnedTo(c, asset, home) ==
    \E i \in DOMAIN c.chain :
        /\ c.chain[i].strategy = "static"
        /\ asset \in DOMAIN c.chain[i].map /\ c.chain[i].map[asset] = home
        /\ \A j \in 1 .. i - 1 :
             c.chain[j].strategy = "static" /\ asset \notin DOMAIN c.chain[j].map

\* An asset that the configurations pin to one home is shown there as long as
\* no message gives it another: its positions do not count, nor the order of
\* its messages, nor half an origin, nor which process wrote it.
PinnedAtHome ==
    \A k \in HomedRows, h \in Origins :
        /\ \A c \in Configs : Buildable(c) => PinnedTo(c, k[1], h)
        /\ \A o \in applied[k] : log[o].edge = None \/ log[o].region = None
        => Place(rows[k]) = h

\* The classes of a region stand beside each other: every class that was
\* written has its own row, under exactly its own audience.
ClassesSideBySide ==
    Rollup => \A k \in RowKeys : \A o \in applied[k] :
                 rows[<<log[o].asset, log[o].releasable>>] # None
                 /\ rows[<<log[o].asset, log[o].releasable>>].releasable = log[o].releasable

-----------------------------------------------------------------------------
(***************************************************************************)
(* Statements of the code's own comments that the model refutes.           *)
(***************************************************************************)

\* base.py: "ABSENT STAYS ABSENT.  A message with no labels produces no label
\* columns in the row, so they persist as NULL".  A row whose last message is
\* unlabelled is unlabelled.
AbsentStaysAbsent ==
    \A k \in LabelledRows :
        LET last == Max(applied[k]) IN
        last <= committed /\ log[last].nation = None => rows[k].nation = None

\* resolve_origin_or_derive: "Only when provenance has no edge does this
\* derive one".
GivenEdgeKept ==
    \A k \in HomedRows :
        LET last == Max(applied[k]) IN
        last <= committed /\ log[last].edge # None => rows[k].edge = log[last].edge

\* region_fleet_summary.py: "the classes upsert alongside each other rather
\* than over one another".
EveryClassUpserted ==
    Rollup => \A o \in (1..committed) \ lost : rows[RowKey(log[o])] # None

\* main.py, of the batch: "fine, we only need last value".  Labels do not go
\* back behind a written message that was not lost since, because its batch is
\* cut anew after a crash.
LabelsNeverGoBack ==
    \A k \in LabelledRows : Labelled(k) # {} =>
        \E l \in Labelled(k) :
            /\ rows[k].nation = log[l].nation
            /\ \A o \in Labelled(k) \ lost : o <= committed => o <= l
=============================================================================
