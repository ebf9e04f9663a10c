----------------------------- MODULE ElementState -----------------------------
(***************************************************************************)
(* The asset_element_telemetry handler for one asset: the change-only diff *)
(* of a snapshot against the last written element rows, the cache that     *)
(* holds those rows, the labels stamped on them, the pruner that deletes   *)
(* the rows and evicts the cache, and the tool that labels rows of before  *)
(* labels were stamped.                                                    *)
(*                                                                         *)
(* The handler and the pruner are tasks of one event loop, so others run   *)
(* at every await: while rows are fetched, while labels are fetched, while *)
(* the transaction is on its way.  Value and transition fields are kept as *)
(* one value with a deadband (a transition field has deadband 0).          *)
(***************************************************************************)
EXTENDS Naturals, Sequences, FiniteSets

CONSTANTS
    Paths,      \* element paths of the asset
    Ancestors,  \* of each path
    Snapshots,  \* envelopes: an observation, or none, for each path
    Labels,     \* label records, absent and unlabelled ones apart
    None,       \* an absent row or record, an empty cache
    Null,       \* the label column of a row written before labels were
    Legacy,     \* rows that older versions may have left
    Deadband,   \* declared for the layer
    Limits,     \* health limits, ascending
    Hysteresis, \* of the health bands
    MaxFailures,   \* bound: transactions that fail
    MaxUnanswered, \* bound: transactions that commit, and the answer is lost
    MaxCrashes,    \* bound: restarts
    MaxPrunes,  \* bound: times the pruner deletes the asset's row
    MaxRelabels, \* bound: changes of the label record
    MaxBackfills \* bound: successful runs of the tool

Observation == [value : Nat, health : Nat]
Bands == 0..Len(Limits)

VARIABLES
    store,   \* asset_element_state: the row of each path
    label,   \* the label column of those rows
    owner,   \* age of the asset_element_telemetry row, None without one
    record,  \* the labels telemetry_latest_state offers, None without any
    mem,     \* this asset's entry in _assets
    work,    \* the handler's place and locals
    pruner,  \* the pruner's place
    last,    \* history: the last snapshot dealt with, None when it was not
    failures, unanswered, crashes, prunes, relabels,
    backfills  \* bounded events so far

tables == <<store, label, owner>>
bounds == <<failures, unanswered, crashes, prunes, relabels, backfills>>
vars == <<store, label, owner, record, mem, work, pruner, last, bounds>>

\* Ages of the asset's row and of the memory of its last write: younger than
\* heartbeat_s, past it, past the TTL.
Ages == 0..2
Row == [value : Nat, band : Bands, window : Nat]
Rows == [Paths -> Row \cup {None}]
Entry == [rows : Rows, stamped : Labels \cup {None},
          signature : Labels \cup {None}, age : Ages]
NoRows == [p \in Paths |-> None]

ASSUME ElementAssumption ==
    /\ IsFiniteSet(Paths)
    /\ Ancestors \in [Paths -> SUBSET Paths]
    /\ \A p \in Paths : p \notin Ancestors[p]
    /\ Snapshots \subseteq [Paths -> Observation \cup {None}]
    /\ Legacy \subseteq Rows
    /\ Limits \in Seq(Nat)
    /\ \A i, j \in 1..Len(Limits) : i < j => Limits[i] < Limits[j]
    /\ Deadband \in Nat /\ Hysteresis \in Nat
    /\ MaxFailures \in Nat /\ MaxUnanswered \in Nat /\ MaxCrashes \in Nat
    /\ MaxPrunes \in Nat /\ MaxRelabels \in Nat /\ MaxBackfills \in Nat
    /\ None \notin Nat /\ None \notin Row /\ None \notin Observation
    /\ None \notin Entry
    /\ None \notin Labels /\ Null \notin Labels /\ None # Null

Idle == [pc |-> "idle"]

Init ==
    /\ store \in Legacy \cup {NoRows}
    /\ label = [p \in Paths |-> IF store[p] = None THEN None ELSE Null]
    /\ owner = IF store = NoRows THEN None ELSE 0
    /\ record \in Labels \cup {None}
    /\ mem = None
    /\ work = Idle
    /\ pruner = "owner"
    /\ last = None
    /\ failures = 0 /\ unanswered = 0 /\ crashes = 0 /\ prunes = 0 /\ relabels = 0
    /\ backfills = 0

-----------------------------------------------------------------------------
(* diff_snapshot.                                                           *)

\* value_crossed
Crossed(new, old) ==
    LET diff == IF new > old THEN new - old ELSE old - new
    IN  IF Deadband = 0 THEN diff > 0 ELSE diff >= Deadband

\* band_index: rise past every limit below the health, fall only past limits
\* that lie more than the hysteresis above it.
BandIndex(health, previous) ==
    LET above == Cardinality({i \in 1..Len(Limits) : health > Limits[i]})
    IN  IF previous = None THEN above
        ELSE LET risen == IF above > previous THEN above ELSE previous
             IN  Cardinality({i \in 1..risen : health + Hysteresis >= Limits[i]})

Band(rows, snap, p) ==
    BandIndex(snap[p].health, IF rows[p] = None THEN None ELSE rows[p].band)

\* Mutant of Changed: only the value is compared.
ChangedByValue(rows, snap, p) ==
    /\ snap[p] # None
    /\ \/ rows[p] = None
       \/ Crossed(snap[p].value, rows[p].value)

\* The element itself is to be written.
Changed(rows, snap, p) ==
    /\ snap[p] # None
    /\ \/ rows[p] = None
       \/ Crossed(snap[p].value, rows[p].value)
       \/ Band(rows, snap, p) # rows[p].band

\* Changes below p; a first observation is a baseline, not a change.
Window(rows, snap, p) ==
    Cardinality({c \in Paths : /\ p \in Ancestors[c]
                               /\ rows[c] # None /\ Changed(rows, snap, c)})

\* Paths with a row to write: changed ones, ancestors of changed ones, and
\* once more those whose window goes back to zero.
Written(rows, snap) ==
    {p \in Paths : \/ Changed(rows, snap, p)
                   \/ rows[p] # None /\ Window(rows, snap, p) > 0
                   \/ rows[p] # None /\ rows[p].window # 0}

NewRow(rows, snap, p) ==
    [value  |-> IF Changed(rows, snap, p) THEN snap[p].value ELSE rows[p].value,
     band   |-> IF Changed(rows, snap, p) THEN Band(rows, snap, p) ELSE rows[p].band,
     window |-> Window(rows, snap, p)]

\* The rows after the write, of the paths it writes and of the others.
RowsAfter(base, rows, snap) ==
    [p \in Paths |-> IF p \in Written(rows, snap) THEN NewRow(rows, snap, p)
                     ELSE base[p]]

-----------------------------------------------------------------------------
(* handle.                                                                  *)

\* The handler leaves; what it held of the cache entry stays, unless evicted.
Leave(entry) ==
    /\ work' = Idle
    /\ mem' = IF work.attached THEN entry ELSE mem

\* An envelope comes.  Without an entry for the asset its rows are selected.
Receive(snap) ==
    /\ work.pc = "idle"
    /\ work' = IF mem = None
               THEN [pc |-> "load", snap |-> snap, loaded |-> store]
               ELSE [pc |-> "labels", snap |-> snap, entry |-> mem,
                     attached |-> TRUE]
    /\ last' = None
    /\ UNCHANGED <<tables, record, mem, pruner, bounds>>

\* fetch_element_state returns, after what other tasks did meanwhile.
Load ==
    /\ work.pc = "load"
    /\ LET entry == [rows |-> work.loaded, stamped |-> None,
                     signature |-> None, age |-> 2]
       IN  /\ mem' = entry
           /\ work' = [pc |-> "labels", snap |-> work.snap, entry |-> entry,
                       attached |-> TRUE]
    /\ UNCHANGED <<tables, record, pruner, last, bounds>>

\* "first envelope after start: no restamp"
Stamped(entry) ==
    IF record # None /\ entry.stamped = None
    THEN [entry EXCEPT !.stamped = record] ELSE entry

\* The per-asset row is written when its signature (of which only the label
\* part is kept) differs from the last written, or on the heartbeat.
AssetDue(entry) ==
    \/ entry.signature # IF record # None THEN record ELSE entry.stamped
    \/ entry.age >= 1

\* A write for an asset without labels is refused.
Refused == record = None

\* fetch_asset_labels returns; up to the transaction nothing is awaited.
Plan ==
    /\ work.pc = "labels"
    /\ LET entry == Stamped(work.entry)
           due == AssetDue(entry) \/ Written(entry.rows, work.snap) # {}
       IN  \/ \* Nothing to write.
              /\ ~due
              /\ Leave(entry)
              /\ last' = work.snap
           \/ /\ due /\ Refused
              /\ Leave(entry)
              /\ UNCHANGED last
           \/ /\ due /\ ~Refused
              /\ work' = [pc |-> "write", snap |-> work.snap, entry |-> entry,
                          attached |-> work.attached, labels |-> record,
                          asset |-> AssetDue(entry)]
              /\ mem' = IF work.attached THEN entry ELSE mem
              /\ UNCHANGED last
    /\ UNCHANGED <<tables, record, pruner, bounds>>

\* Mutant of Commit: the rows that are not written keep their labels.
CommitNoRestamp ==
    LET rows == work.entry.rows IN
    /\ store' = RowsAfter(store, rows, work.snap)
    /\ label' = [p \in Paths |->
                  IF p \in Written(rows, work.snap) THEN work.labels ELSE label[p]]
    /\ owner' = IF work.asset THEN 0 ELSE owner

\* write_element_state: one transaction, which relabels the rows that are
\* there first when the labels are not those stamped last.
Commit ==
    LET rows == work.entry.rows IN
    /\ store' = RowsAfter(store, rows, work.snap)
    /\ label' = [p \in Paths |->
                  IF \/ p \in Written(rows, work.snap)
                     \/ store[p] # None /\ work.labels # work.entry.stamped
                  THEN work.labels ELSE label[p]]
    /\ owner' = IF work.asset THEN 0 ELSE owner

\* "Durable: only now advance the in-memory last-written state."
Remembered(entry) ==
    [rows      |-> RowsAfter(entry.rows, entry.rows, work.snap),
     stamped   |-> work.labels,
     signature |-> IF work.asset THEN work.labels ELSE entry.signature,
     age       |-> IF work.asset THEN 0 ELSE entry.age]

WriteDone ==
    /\ work.pc = "write"
    /\ Commit
    /\ Leave(Remembered(work.entry))
    /\ last' = work.snap
    /\ UNCHANGED <<record, pruner, bounds>>

\* Mutant of WriteFails: the entry advances although nothing was written.
WriteFailsRemembered ==
    /\ work.pc = "write"
    /\ failures < MaxFailures
    /\ failures' = failures + 1
    /\ Leave(Remembered(work.entry))
    /\ UNCHANGED <<tables, record, pruner, last, unanswered, crashes, prunes,
                   relabels, backfills>>

\* The transaction fails: the worker swallows the exception and the entry
\* does not advance.
WriteFails ==
    /\ work.pc = "write"
    /\ failures < MaxFailures
    /\ failures' = failures + 1
    /\ Leave(work.entry)
    /\ UNCHANGED <<tables, record, pruner, last, unanswered, crashes, prunes,
                   relabels, backfills>>

\* It commits, but the connection dies before the answer.
WriteUnanswered ==
    /\ work.pc = "write"
    /\ unanswered < MaxUnanswered
    /\ unanswered' = unanswered + 1
    /\ Commit
    /\ Leave(work.entry)
    /\ UNCHANGED <<record, pruner, last, failures, crashes, prunes, relabels,
                   backfills>>

\* The process restarts: the cache is gone, an envelope may come again.
Crash ==
    /\ <<mem, work, pruner>> # <<None, Idle, "owner">>
    /\ crashes < MaxCrashes
    /\ crashes' = crashes + 1
    /\ mem' = None
    /\ work' = Idle
    /\ pruner' = "owner"
    /\ UNCHANGED <<tables, record, last, failures, unanswered, prunes, relabels,
                   backfills>>

-----------------------------------------------------------------------------
(* The pruner, for this asset.                                              *)

\* Its asset_element_telemetry row, past the TTL, is deleted if the asset is
\* terminal (which is not kept here: it may be).
PruneOwner ==
    /\ pruner = "owner"
    /\ pruner' = "owned"
    /\ \/ /\ owner = 2 /\ prunes < MaxPrunes
          /\ owner' = None
          /\ prunes' = prunes + 1
       \/ UNCHANGED <<owner, prunes>>
    /\ UNCHANGED <<store, label, record, mem, work, last, failures, unanswered,
                   crashes, relabels, backfills>>

\* Mutant of PruneOwned: rows go by their owner's age, not by its absence.
PruneOwnedByAge ==
    /\ pruner = "owned"
    /\ IF owner = 2
       THEN /\ store' = NoRows
            /\ label' = NoRows
            /\ pruner' = IF store = NoRows THEN "owner" ELSE "evict"
            /\ last' = IF store = NoRows THEN last ELSE None
       ELSE /\ pruner' = "owner"
            /\ UNCHANGED <<store, label, last>>
    /\ UNCHANGED <<owner, record, mem, work, bounds>>

\* prune_owned: without an owner the element rows go; with some gone, the
\* cache is to be evicted.
PruneOwned ==
    /\ pruner = "owned"
    /\ IF owner = None
       THEN /\ store' = NoRows
            /\ label' = NoRows
            /\ pruner' = IF store = NoRows THEN "owner" ELSE "evict"
            /\ last' = IF store = NoRows THEN last ELSE None
       ELSE /\ pruner' = "owner"
            /\ UNCHANGED <<store, label, last>>
    /\ UNCHANGED <<owner, record, mem, work, bounds>>

\* evict_assets, once the rows' DELETE has returned.  A handler that holds the
\* entry goes on with it, out of the cache.
Evict ==
    /\ pruner = "evict"
    /\ pruner' = "owner"
    /\ mem' = None
    /\ work' = IF work.pc \in {"labels", "write"}
               THEN [work EXCEPT !.attached = FALSE] ELSE work
    /\ UNCHANGED <<tables, record, last, bounds>>

\* The label record changes, comes or goes.
Relabel ==
    /\ relabels < MaxRelabels
    /\ relabels' = relabels + 1
    /\ record' \in (Labels \cup {None}) \ {record}
    /\ UNCHANGED <<tables, mem, work, pruner, last, failures, unanswered,
                   crashes, prunes, backfills>>

\* backfill_element_labels.py --apply: one transaction that locks the tables
\* against the handler, but not the record, and stamps the rows that have no
\* label.  When a count is not the one the operator gave it halts, and nothing
\* changes; nor does it when there is nothing to stamp, or nothing to stamp with.
Backfill ==
    /\ backfills < MaxBackfills
    /\ record # None
    /\ \E p \in Paths : label[p] = Null
    /\ backfills' = backfills + 1
    /\ label' = [p \in Paths |-> IF label[p] = Null THEN record ELSE label[p]]
    /\ UNCHANGED <<store, owner, record, mem, work, pruner, last, failures,
                   unanswered, crashes, prunes, relabels>>

\* A heartbeat interval, then the TTL, passes; no call lasts that long.
Age ==
    /\ work.pc = "idle"
    /\ owner # None /\ owner < 2
    /\ owner' = owner + 1
    /\ mem' = IF mem = None THEN None
              ELSE [mem EXCEPT !.age = IF @ < owner + 1 THEN owner + 1 ELSE @]
    /\ UNCHANGED <<store, label, record, work, pruner, last, bounds>>

Next ==
    \/ \E snap \in Snapshots : Receive(snap)
    \/ Load \/ Plan
    \/ WriteDone \/ WriteFails \/ WriteUnanswered
    \/ Crash
    \/ PruneOwner \/ PruneOwned \/ Evict
    \/ Relabel
    \/ Backfill
    \/ Age

Spec == Init /\ [][Next]_vars

(***************************************************************************)
(* The pruner loops for ever.  No envelope has to come, and the asset need *)
(* not be gone.                                                            *)
(***************************************************************************)
Fairness == WF_vars(PruneOwner) /\ WF_vars(PruneOwned) /\ WF_vars(Evict)

FairSpec == Spec /\ Fairness

-----------------------------------------------------------------------------
(* Properties.                                                              *)

Loading == [pc : {"load"}, snap : Snapshots, loaded : Rows]
Labelling == [pc : {"labels"}, snap : Snapshots, entry : Entry, attached : BOOLEAN]
Writing == [pc : {"write"}, snap : Snapshots, entry : Entry, attached : BOOLEAN,
            labels : Labels, asset : BOOLEAN]

TableType ==
    /\ store \in Rows
    /\ label \in [Paths -> Labels \cup {None, Null}]
    /\ \A p \in Paths : label[p] = None <=> store[p] = None
    /\ owner \in Ages \cup {None}
    /\ record \in Labels \cup {None}

TaskType ==
    /\ mem \in Entry \cup {None}
    /\ work \in {Idle} \cup Loading \cup Labelling \cup Writing
    /\ pruner \in {"owner", "owned", "evict"}
    /\ last \in Snapshots \cup {None}

BoundType ==
    /\ failures \in Nat /\ unanswered \in Nat /\ crashes \in Nat
    /\ prunes \in Nat /\ relabels \in Nat /\ backfills \in Nat

\* Every row, cache entry and place is of its type; a row has a label column
\* exactly when it is there (asset_element_telemetry.py, write_element_state).
TypeOK == TableType /\ TaskType /\ BoundType

\* No answer was lost and nothing pruned: the cache can follow the store.
Undisturbed == unanswered = 0 /\ prunes = 0

\* A health that has not left the band the Schmitt trigger shows.
FitsBand(health, band) ==
    /\ band > 0 => health + Hysteresis >= Limits[band]
    /\ band < Len(Limits) => health <= Limits[band + 1]

\* Once an envelope is dealt with, the table shows it: every element of it has
\* a row whose value is within the deadband of the observed one and whose band
\* is that of the observed health.  Not so after a prune or a lost answer
\* (EvictedStartsOver, ShownDespiteLostAnswer).
ShowsLast ==
    last # None => \A p \in Paths : last[p] # None =>
       /\ store[p] # None
       /\ ~Crossed(last[p].value, store[p].value)
       /\ FitsBand(last[p].health, store[p].band)
StoreShowsLast == Undisturbed => ShowsLast

\* The cache never believes a row written that is not, or not so, until an
\* answer is lost or rows are pruned: not after a failure or a restart.
CacheTruthful ==
    Undisturbed /\ mem # None => \A p \in Paths : mem.rows[p] # None => store[p] = mem.rows[p]

\* Once an envelope is dealt with, every element row of the asset, written by
\* it or not, carries the labels that were read for it ("the write that follows
\* also restamps the asset's existing element rows"), except those that never
\* had any.  A restart or an eviction forgets which labels were stamped
\* (RelabelledAfterRestart), a lost answer hides it (RelabelledAfterLostAnswer),
\* and the backfill stamps labels the handler does not know of
\* (RelabelledAfterBackfill).
Relabelled ==
    last = None /\ last' # None =>
       LET labels == IF work.pc = "write" THEN work.labels ELSE record
       IN  labels # None =>
             \A p \in Paths : label'[p] \in {labels, Null, None}
Followed == unanswered = 0 /\ crashes = 0 /\ prunes = 0 /\ backfills = 0
RowsFollowLabels ==
    [][Followed => Relabelled]_vars

\* Rows whose owner was pruned go, unless the asset comes back.
OwnerlessRowsGo == (store # NoRows /\ owner = None) ~> (store = NoRows \/ owner # None)

-----------------------------------------------------------------------------
(* What the comments say and the code does not keep.                        *)

\* "against the last WRITTEN value": also when the answer was lost.
ShownDespiteLostAnswer == ShowsLast

\* The restamp after a lost answer: labels that came and went again meanwhile
\* are those stamped last, for all the entry knows.
RelabelledAfterLostAnswer ==
    [][crashes = 0 /\ prunes = 0 /\ backfills = 0 => Relabelled]_vars

\* The restamp, whatever happened before.
RelabelledAfterRestart == [][Relabelled]_vars

\* The restamp of rows that the backfill labelled: after an envelope they carry
\* the labels that were read for it, or those of the record as it is by now.
RelabelledAfterBackfill ==
    [][last = None /\ last' # None /\ work.pc = "write" =>
         \A p \in Paths : label'[p] \in {work.labels, record, Null, None}]_vars

\* evict_assets: "so their next snapshot is a first observation and writes the
\* full tree": no entry outside an eviction holds a row that is not there.
EvictedStartsOver ==
    mem # None /\ pruner # "evict" =>
       \A p \in Paths : mem.rows[p] # None => store[p] # None
=============================================================================
