------------------------------ MODULE ElementProofs -----------------------------
(***************************************************************************)
(* The change-only diff of element rows and its cache, for any tree of     *)
(* elements, any envelopes, deadband, limits and hysteresis, and any       *)
(* number of relabels and failed transactions.                             *)
(***************************************************************************)
EXTENDS ElementState, TLAPS, FiniteSetTheorems

-----------------------------------------------------------------------------
(* diff_snapshot.                                                           *)

\* A set that holds, with a number up to n, all those below it is counted by its
\* largest.
LEMMA PrefixSize ==
    ASSUME NEW n \in Nat, NEW S \in SUBSET (1..n),
           \A i \in S : \A j \in 1..i : j \in S
    PROVE  /\ Cardinality(S) \in 0..n
           /\ Cardinality(S) > 0 => Cardinality(S) \in S
           /\ Cardinality(S) < n => Cardinality(S) + 1 \notin S
<1> DEFINE c == Cardinality(S)
<1>1. IsFiniteSet(1..n) /\ Cardinality(1..n) = n
  BY FS_Interval
<1>2. IsFiniteSet(S) /\ c <= n
  BY <1>1, FS_Subset
<1>3. c \in 0..n
  BY <1>2, FS_CardinalityType
<1>4. ASSUME c > 0, c \notin S PROVE FALSE
  <2>1. S \subseteq 1..c - 1
    <3> SUFFICES ASSUME NEW i \in S PROVE i \in 1..c - 1
      OBVIOUS
    <3>1. i \in 1..n
      OBVIOUS
    <3>2. ~(i >= c)
      BY <1>3, <1>4, <3>1
    <3> QED
      BY <1>3, <3>1, <3>2
  <2>2. c - 1 \in Nat
    BY <1>3, <1>4
  <2>3. IsFiniteSet(1..c - 1) /\ Cardinality(1..c - 1) = c - 1
    <3> HIDE DEF c
    <3> QED
      BY <2>2, FS_Interval
  <2>4. S \in SUBSET (1..c - 1) => Cardinality(S) <= Cardinality(1..c - 1)
    <3> DEFINE T == 1..c - 1
    <3>1. IsFiniteSet(T)
      BY <2>3
    <3> HIDE DEF T
    <3>2. S \in SUBSET T => Cardinality(S) <= Cardinality(T)
      BY <3>1, FS_Subset, Zenon
    <3> QED
      BY <3>2 DEF T
  <2>5. c <= c - 1
    BY <2>1, <2>3, <2>4, Zenon
  <2> QED
    BY <1>3, <2>5
<1>5. ASSUME c + 1 \in S PROVE FALSE
  <2>1. 1..c + 1 \subseteq S
    BY <1>5
  <2>2. Cardinality(1..c + 1) = c + 1
    <3> HIDE DEF c
    <3> QED
      BY <1>3, FS_Interval
  <2>3. Cardinality(1..c + 1) <= Cardinality(S)
    <3> HIDE DEF c
    <3> QED
      BY <1>2, <2>1, FS_Subset
  <2> QED
    BY <1>3, <2>2, <2>3
<1> QED
  BY <1>3, <1>4, <1>5

\* The number of limits, up to some n, that a health is over.
LEMMA OverLimits ==
    ASSUME NEW n \in 0..Len(Limits), NEW S \in SUBSET (1..n), NEW bar \in Nat,
           S = {i \in 1..n : bar > Limits[i]}
    PROVE  /\ Cardinality(S) \in 0..n
           /\ Cardinality(S) > 0 => bar > Limits[Cardinality(S)]
           /\ Cardinality(S) < n => bar <= Limits[Cardinality(S) + 1]
<1>1. /\ Len(Limits) \in Nat /\ n \in Nat
      /\ \A i \in 1..Len(Limits) : Limits[i] \in Nat
  BY ElementAssumption
<1>2. ASSUME NEW i \in S, NEW j \in 1..i PROVE j \in S
  <2>1. i \in 1..n /\ j \in 1..n /\ i \in 1..Len(Limits) /\ j \in 1..Len(Limits)
    BY <1>1
  <2>2. j = i \/ Limits[j] < Limits[i]
    BY <2>1, ElementAssumption
  <2>3. bar > Limits[i] /\ Limits[i] \in Nat /\ Limits[j] \in Nat
    BY <1>1, <2>1
  <2> QED
    BY <2>1, <2>2, <2>3
<1>3. /\ Cardinality(S) \in 0..n
      /\ Cardinality(S) > 0 => Cardinality(S) \in S
      /\ Cardinality(S) < n => Cardinality(S) + 1 \notin S
  BY <1>1, <1>2, PrefixSize
<1>4. Cardinality(S) < n => bar <= Limits[Cardinality(S) + 1]
  <2> SUFFICES ASSUME Cardinality(S) < n PROVE bar <= Limits[Cardinality(S) + 1]
    OBVIOUS
  <2>1. Cardinality(S) + 1 \in 1..n
    BY <1>1, <1>3
  <2>2. ~(bar > Limits[Cardinality(S) + 1])
    BY <1>3, <2>1
  <2> QED
    BY <1>1, <2>1, <2>2
<1> QED
  BY <1>3, <1>4

\* Whatever the band before, the band index is one that the health fits.
LEMMA BandFits ==
    ASSUME NEW health \in Nat, NEW previous \in Bands \cup {None}
    PROVE  /\ BandIndex(health, previous) \in Bands
           /\ FitsBand(health, BandIndex(health, previous))
<1>1. /\ Len(Limits) \in Nat /\ Hysteresis \in Nat /\ None \notin Bands
      /\ \A i \in 1..Len(Limits) : Limits[i] \in Nat
      /\ \A i, j \in 1..Len(Limits) : i < j => Limits[i] < Limits[j]
  BY ElementAssumption DEF Bands
<1> DEFINE over == {i \in 1..Len(Limits) : health > Limits[i]}
           above == Cardinality(over)
<1>2. /\ above \in 0..Len(Limits)
      /\ above > 0 => health > Limits[above]
      /\ above < Len(Limits) => health <= Limits[above + 1]
  BY <1>1, OverLimits
<1>3. CASE previous = None
  <2>1. BandIndex(health, previous) = above
    BY <1>3 DEF BandIndex
  <2> HIDE DEF above
  <2>2. above > 0 => Limits[above] \in Nat
    BY <1>1, <1>2
  <2> QED
    BY <1>1, <1>2, <2>1, <2>2 DEF FitsBand, Bands
<1>4. CASE previous # None
  <2> DEFINE risen == IF above > previous THEN above ELSE previous
             kept == {i \in 1..risen : health + Hysteresis >= Limits[i]}
             held == {i \in 1..risen : health + Hysteresis + 1 > Limits[i]}
             index == Cardinality(kept)
  <2>1. BandIndex(health, previous) = index
    BY <1>4 DEF BandIndex
  <2>2. previous \in 0..Len(Limits)
    BY <1>4 DEF Bands
  <2> HIDE DEF above
  <2>3. risen \in 0..Len(Limits) /\ risen >= above
    BY <1>2, <2>2
  <2> HIDE DEF risen
  <2>4. kept = held
    <3> SUFFICES ASSUME NEW i \in 1..risen
                 PROVE  health + Hysteresis >= Limits[i] <=> health + Hysteresis + 1 > Limits[i]
      OBVIOUS
    <3> QED
      BY <1>1, <2>3
  <2>5. health + Hysteresis + 1 \in Nat
    BY <1>1
  <2>6. /\ index \in 0..risen
        /\ index > 0 => health + Hysteresis + 1 > Limits[index]
        /\ index < risen => health + Hysteresis + 1 <= Limits[index + 1]
    BY <2>3, <2>4, <2>5, OverLimits
  <2> HIDE DEF index
  <2>7. index > 0 => health + Hysteresis >= Limits[index]
    <3>1. index > 0 => index \in 1..Len(Limits)
      BY <1>1, <2>3, <2>6
    <3> QED
      BY <1>1, <2>6, <3>1
  <2>8. ASSUME index < Len(Limits) PROVE health <= Limits[index + 1]
    <3>1. index + 1 \in 1..Len(Limits) /\ Limits[index + 1] \in Nat
      BY <1>1, <2>3, <2>6, <2>8
    <3>2. CASE index < risen
      BY <1>1, <2>6, <3>1, <3>2
    <3>3. CASE index = risen
      <4>1. above <= index /\ above \in Nat
        BY <1>2, <2>3, <3>3
      <4>2. above + 1 \in 1..Len(Limits) /\ index \in Nat
        BY <1>1, <2>3, <2>6, <2>8, <4>1
      <4>3. health <= Limits[above + 1]
        BY <1>1, <1>2, <4>2
      <4>4. above = index \/ Limits[above + 1] < Limits[index + 1]
        <5>1. above = index \/ above + 1 < index + 1
          BY <4>1, <4>2
        <5> QED
          BY <1>1, <3>1, <4>2, <5>1
      <4> QED
        BY <1>1, <3>1, <4>2, <4>3, <4>4
    <3> QED
      BY <2>3, <2>6, <3>2, <3>3
  <2> QED
    BY <1>1, <2>1, <2>3, <2>6, <2>7, <2>8 DEF FitsBand, Bands
<1> QED
  BY <1>3, <1>4

\* The window counts elements.
LEMMA WindowType ==
    ASSUME NEW rows, NEW snap, NEW p
    PROVE  Window(rows, snap, p) \in Nat
<1>1. IsFiniteSet(Paths)
  BY ElementAssumption
<1> DEFINE below == {c \in Paths : /\ p \in Ancestors[c]
                                   /\ rows[c] # None /\ Changed(rows, snap, c)}
<1>2. IsFiniteSet(below)
  BY <1>1, FS_Subset
<1> QED
  BY <1>2, FS_CardinalityType DEF Window

\* A value is within its own deadband.
LEMMA NeverCrossesItself ==
    ASSUME NEW v \in Nat PROVE ~Crossed(v, v)
BY ElementAssumption DEF Crossed

\* The band the diff gives an observed element.
LEMMA BandOfElement ==
    ASSUME NEW rows \in Rows, NEW snap \in Snapshots, NEW p \in Paths, snap[p] # None
    PROVE  /\ snap[p] \in Observation
           /\ Band(rows, snap, p) \in Bands
           /\ FitsBand(snap[p].health, Band(rows, snap, p))
<1>1. snap[p] \in Observation
  BY ElementAssumption
<1>2. (IF rows[p] = None THEN None ELSE rows[p].band) \in Bands \cup {None}
  BY DEF Rows, Row
<1> QED
  BY <1>1, <1>2, BandFits DEF Band, Observation

\* What the diff writes is a row.
LEMMA NewRowType ==
    ASSUME NEW rows \in Rows, NEW snap \in Snapshots, NEW p \in Written(rows, snap)
    PROVE  NewRow(rows, snap, p) \in Row
<1>1. p \in Paths /\ (Changed(rows, snap, p) \/ rows[p] # None)
  BY DEF Written
<1>2. Window(rows, snap, p) \in Nat
  BY WindowType
<1>3. CASE Changed(rows, snap, p)
  <2>1. snap[p] # None
    BY <1>3 DEF Changed
  <2>2. snap[p].value \in Nat /\ Band(rows, snap, p) \in Bands
    BY <1>1, <2>1, BandOfElement DEF Observation
  <2> QED
    BY <1>2, <1>3, <2>2 DEF NewRow, Row
<1>4. CASE ~Changed(rows, snap, p)
  <2>1. rows[p] \in Row
    BY <1>1, <1>4 DEF Rows
  <2> QED
    BY <1>2, <1>4, <2>1 DEF NewRow, Row
<1> QED
  BY <1>3, <1>4

LEMMA RowsAfterType ==
    ASSUME NEW base \in Rows, NEW rows \in Rows, NEW snap \in Snapshots
    PROVE  RowsAfter(base, rows, snap) \in Rows
BY NewRowType DEF RowsAfter, Rows

-----------------------------------------------------------------------------
(* Type correctness.                                                        *)

\* The handler's locals, by its place.
LEMMA WorkType ==
    ASSUME TypeOK
    PROVE  /\ work.pc = "idle" => work = Idle
           /\ work.pc = "load" => work \in Loading
           /\ work.pc = "labels" => work \in Labelling
           /\ work.pc = "write" => work \in Writing
BY DEF TypeOK, TaskType, Idle, Loading, Labelling, Writing

\* How the fetch of the labels ends.
LEMMA PlanMoves ==
    ASSUME TypeOK, Plan, NEW entry, entry = Stamped(work.entry)
    PROVE  /\ work \in Labelling /\ entry \in Entry
           /\ entry.rows = work.entry.rows
           /\ entry.signature = work.entry.signature
           /\ entry.stamped = IF record # None /\ work.entry.stamped = None
                              THEN record ELSE work.entry.stamped
           /\ mem' = IF work.attached THEN entry ELSE mem
           /\ UNCHANGED <<store, label, owner, record, pruner, bounds>>
           /\ \/ /\ ~AssetDue(entry) /\ Written(entry.rows, work.snap) = {}
                 /\ work' = Idle /\ last' = work.snap
              \/ work' = Idle /\ last' = last
              \/ /\ record # None
                 /\ work' = [pc |-> "write", snap |-> work.snap, entry |-> entry,
                             attached |-> work.attached, labels |-> record,
                             asset |-> AssetDue(entry)]
                 /\ last' = last
<1>1. work \in Labelling
  BY WorkType DEF Plan
<1>2. work.entry \in Entry /\ record \in Labels \cup {None}
  BY <1>1 DEF Labelling, TypeOK, TableType
<1>3. /\ entry \in Entry /\ entry.rows = work.entry.rows
      /\ entry.signature = work.entry.signature
      /\ entry.stamped = IF record # None /\ work.entry.stamped = None
                         THEN record ELSE work.entry.stamped
  BY <1>2 DEF Stamped, Entry
<1>4. UNCHANGED <<store, label, owner, record, pruner, bounds>>
  BY DEF Plan, tables
<1>5. \/ /\ ~AssetDue(entry) /\ Written(entry.rows, work.snap) = {}
         /\ Leave(entry) /\ last' = work.snap
      \/ Leave(entry) /\ last' = last
      \/ /\ record # None
         /\ work' = [pc |-> "write", snap |-> work.snap, entry |-> entry,
                     attached |-> work.attached, labels |-> record,
                     asset |-> AssetDue(entry)]
         /\ mem' = IF work.attached THEN entry ELSE mem
         /\ last' = last
  BY ZenonT(30) DEF Plan, Refused
<1> QED
  BY <1>1, <1>3, <1>4, <1>5 DEF Leave

\* What the transaction writes.
LEMMA CommitMoves ==
    ASSUME TypeOK, work \in Writing, Commit
    PROVE  /\ store' = RowsAfter(store, work.entry.rows, work.snap)
           /\ store' \in Rows
           /\ label' \in [Paths -> Labels \cup {None, Null}]
           /\ \A p \in Paths : label'[p] = None <=> store'[p] = None
           /\ owner' = IF work.asset THEN 0 ELSE owner
           /\ \A p \in Paths : \/ label'[p] = work.labels
                               \/ label'[p] = label[p] /\ store[p] = None
                               \/ label'[p] = label[p] /\ work.labels = work.entry.stamped
<1>1. /\ store \in Rows /\ work.entry.rows \in Rows /\ work.snap \in Snapshots
      /\ work.labels \in Labels
      /\ label \in [Paths -> Labels \cup {None, Null}]
      /\ \A p \in Paths : label[p] = None <=> store[p] = None
  BY DEF TypeOK, TableType, Writing, Entry
<1>2. /\ store' = RowsAfter(store, work.entry.rows, work.snap)
      /\ owner' = IF work.asset THEN 0 ELSE owner
  BY DEF Commit
<1>3. label' = [p \in Paths |->
                  IF \/ p \in Written(work.entry.rows, work.snap)
                     \/ store[p] # None /\ work.labels # work.entry.stamped
                  THEN work.labels ELSE label[p]]
  BY DEF Commit
<1>4. store' \in Rows
  BY <1>1, <1>2, RowsAfterType
<1>5. label' \in [Paths -> Labels \cup {None, Null}]
  BY <1>1, <1>3
<1>6. ASSUME NEW p \in Paths PROVE label'[p] = None <=> store'[p] = None
  <2>1. CASE p \in Written(work.entry.rows, work.snap)
    <3>1. store'[p] = NewRow(work.entry.rows, work.snap, p)
      BY <1>2, <2>1 DEF RowsAfter
    <3>2. store'[p] # None
      BY <1>1, <2>1, <3>1, NewRowType, ElementAssumption
    <3>3. label'[p] = work.labels
      BY <1>3, <2>1
    <3> QED
      BY <1>1, <3>2, <3>3, ElementAssumption
  <2>2. CASE p \notin Written(work.entry.rows, work.snap)
    <3>1. store'[p] = store[p]
      BY <1>2, <2>2 DEF RowsAfter
    <3>2. label'[p] = IF store[p] # None /\ work.labels # work.entry.stamped
                      THEN work.labels ELSE label[p]
      BY <1>3, <2>2
    <3> QED
      BY <1>1, <3>1, <3>2, ElementAssumption
  <2> QED
    BY <2>1, <2>2
<1>7. ASSUME NEW p \in Paths
      PROVE  \/ label'[p] = work.labels
             \/ label'[p] = label[p] /\ store[p] = None
             \/ label'[p] = label[p] /\ work.labels = work.entry.stamped
  BY <1>3
<1> QED
  BY <1>2, <1>4, <1>5, <1>6, <1>7

\* What the entry holds after a durable write.
LEMMA RememberedType ==
    ASSUME TypeOK, work \in Writing
    PROVE  /\ Remembered(work.entry) \in Entry
           /\ Remembered(work.entry).rows
                = RowsAfter(work.entry.rows, work.entry.rows, work.snap)
           /\ Remembered(work.entry).stamped = work.labels
           /\ Remembered(work.entry).signature
                = IF work.asset THEN work.labels ELSE work.entry.signature
<1>1. /\ work.entry \in Entry /\ work.snap \in Snapshots /\ work.labels \in Labels
      /\ work.entry.rows \in Rows
  BY DEF Writing, Entry
<1>2. RowsAfter(work.entry.rows, work.entry.rows, work.snap) \in Rows
  BY <1>1, RowsAfterType
<1> QED
  BY <1>1, <1>2 DEF Remembered, Entry, Ages

\* Time leaves an entry what it is, but for its age.
LEMMA AgedEntry ==
    ASSUME TypeOK, Age, mem # None
    PROVE  /\ mem' \in Entry
           /\ mem'.signature = mem.signature /\ mem'.stamped = mem.stamped
<1>1. mem' = [mem EXCEPT !.age = IF mem.age < owner + 1 THEN owner + 1 ELSE mem.age]
  BY DEF Age
<1>2. mem \in Entry
  BY DEF TypeOK, TaskType
<1>3. owner \in 0..1
  BY ElementAssumption DEF Age, TypeOK, TableType, Ages
<1>4. (IF mem.age < owner + 1 THEN owner + 1 ELSE mem.age) \in Ages
  BY <1>2, <1>3 DEF Entry, Ages
<1> QED
  BY <1>1, <1>2, <1>4 DEF Entry

LEMMA TableTypeStep ==
    ASSUME TypeOK, [Next]_vars PROVE TableType'
<1> USE DEF TypeOK, TableType
<1>1. CASE WriteDone \/ WriteUnanswered
  <2>1. work \in Writing /\ Commit /\ record' = record
    BY <1>1, WorkType DEF WriteDone, WriteUnanswered
  <2>2. owner' \in Ages \cup {None}
    BY <2>1, CommitMoves DEF Ages
  <2> QED
    BY <2>1, <2>2, CommitMoves
<1>2. CASE PruneOwner
  BY <1>2 DEF PruneOwner
<1>3. CASE PruneOwned
  <2>1. NoRows \in Rows /\ NoRows \in [Paths -> Labels \cup {None, Null}]
        /\ \A p \in Paths : NoRows[p] = None
    BY DEF NoRows, Rows
  <2>2. UNCHANGED <<owner, record>>
    BY <1>3 DEF PruneOwned
  <2>3. CASE owner = None
    <3>1. store' = NoRows /\ label' = NoRows
      BY <1>3, <2>3 DEF PruneOwned
    <3> QED
      BY <2>1, <2>2, <3>1
  <2>4. CASE owner # None
    <3>1. UNCHANGED <<store, label>>
      BY <1>3, <2>4 DEF PruneOwned
    <3> QED
      BY <2>2, <3>1
  <2> QED
    BY <2>3, <2>4
<1>4. CASE Relabel
  BY <1>4 DEF Relabel, tables
<1>5. CASE Backfill
  <2>1. label' = [p \in Paths |-> IF label[p] = Null THEN record ELSE label[p]]
        /\ record \in Labels /\ UNCHANGED <<store, owner, record>>
    BY <1>5 DEF Backfill
  <2> QED
    BY <2>1, ElementAssumption
<1>6. CASE Age
  BY <1>6, ElementAssumption DEF Age, Ages
<1>7. CASE UNCHANGED <<tables, record>>
  BY <1>7 DEF tables
<1> QED
  BY <1>1, <1>2, <1>3, <1>4, <1>5, <1>6, <1>7
  DEF Next, Receive, Load, Plan, WriteFails, Crash, Evict, vars

LEMMA TaskTypeStep ==
    ASSUME TypeOK, [Next]_vars PROVE TaskType'
<1> USE DEF TaskType
<1>0. TaskType /\ store \in Rows /\ record \in Labels \cup {None}
  BY DEF TypeOK, TableType
<1>1. ASSUME NEW snap \in Snapshots, Receive(snap) PROVE TaskType'
  <2>1. CASE mem = None
    <3>1. work' = [pc |-> "load", snap |-> snap, loaded |-> store]
      BY <1>1, <2>1 DEF Receive
    <3>2. work' \in Loading
      BY <1>0, <3>1 DEF Loading
    <3> QED
      BY <1>0, <1>1, <3>2 DEF Receive
  <2>2. CASE mem # None
    <3>1. work' = [pc |-> "labels", snap |-> snap, entry |-> mem, attached |-> TRUE]
      BY <1>1, <2>2 DEF Receive
    <3>2. work' \in Labelling
      BY <1>0, <2>2, <3>1 DEF Labelling
    <3> QED
      BY <1>0, <1>1, <3>2 DEF Receive
  <2> QED
    BY <2>1, <2>2
<1>2. CASE Load
  <2> DEFINE entry == [rows |-> work.loaded, stamped |-> None,
                       signature |-> None, age |-> 2]
  <2>1. work \in Loading
    BY <1>2, WorkType DEF Load
  <2>2. entry \in Entry
    BY <2>1 DEF Loading, Entry, Ages
  <2>3. /\ mem' = entry /\ UNCHANGED <<pruner, last>>
        /\ work' = [pc |-> "labels", snap |-> work.snap, entry |-> entry,
                    attached |-> TRUE]
    BY <1>2 DEF Load
  <2> HIDE DEF entry
  <2>4. work' \in Labelling
    BY <2>1, <2>2, <2>3 DEF Loading, Labelling
  <2> QED
    BY <1>0, <2>2, <2>3, <2>4
<1>3. CASE Plan
  <2> DEFINE entry == Stamped(work.entry)
  <2>1. /\ work \in Labelling /\ entry \in Entry /\ UNCHANGED pruner
        /\ mem' = IF work.attached THEN entry ELSE mem
        /\ \/ work' = Idle /\ last' \in {work.snap, last}
           \/ /\ record # None
              /\ work' = [pc |-> "write", snap |-> work.snap, entry |-> entry,
                          attached |-> work.attached, labels |-> record,
                          asset |-> AssetDue(entry)]
              /\ last' = last
    BY <1>3, PlanMoves
  <2>2. AssetDue(entry) \in BOOLEAN
    BY DEF AssetDue
  <2> HIDE DEF entry
  <2>3. work.snap \in Snapshots /\ work.attached \in BOOLEAN
    BY <2>1 DEF Labelling
  <2>4. work' \in {Idle} \cup Writing
    BY <1>0, <2>1, <2>2, <2>3 DEF Writing
  <2> QED
    BY <1>0, <2>1, <2>3, <2>4
<1>4. CASE WriteDone
  <2>1. work \in Writing
    BY <1>4, WorkType DEF WriteDone
  <2>2. Remembered(work.entry) \in Entry /\ work.snap \in Snapshots
    BY <2>1, RememberedType DEF Writing
  <2> QED
    BY <1>0, <1>4, <2>2 DEF WriteDone, Leave
<1>5. CASE WriteFails \/ WriteUnanswered
  <2>1. work.entry \in Entry
    BY <1>5, WorkType DEF WriteFails, WriteUnanswered, Writing
  <2> QED
    BY <1>0, <1>5, <2>1 DEF WriteFails, WriteUnanswered, Leave
<1>6. CASE Crash
  BY <1>0, <1>6 DEF Crash
<1>7. CASE PruneOwner
  BY <1>0, <1>7 DEF PruneOwner
<1>8. CASE PruneOwned
  BY <1>0, <1>8 DEF PruneOwned
<1>9. CASE Evict
  <2>1. work' \in {Idle} \cup Loading \cup Labelling \cup Writing
    <3>1. CASE work.pc \in {"labels", "write"}
      <4>1. work \in Labelling \/ work \in Writing
        BY <3>1, WorkType
      <4>2. work' = [work EXCEPT !.attached = FALSE]
        BY <1>9, <3>1 DEF Evict
      <4> QED
        BY <4>1, <4>2 DEF Labelling, Writing
    <3>2. CASE ~(work.pc \in {"labels", "write"})
      BY <1>0, <1>9, <3>2 DEF Evict
    <3> QED
      BY <3>1, <3>2
  <2> QED
    BY <1>0, <1>9, <2>1 DEF Evict
<1>10. CASE Age
  <2>1. mem' \in Entry \cup {None}
    <3>1. CASE mem = None
      BY <1>10, <3>1 DEF Age
    <3>2. CASE mem # None
      BY <1>10, <3>2, AgedEntry
    <3> QED
      BY <3>1, <3>2
  <2> QED
    BY <1>0, <1>10, <2>1 DEF Age
<1>11. CASE Relabel \/ Backfill \/ UNCHANGED vars
  BY <1>0, <1>11 DEF Relabel, Backfill, vars
<1> QED
  BY <1>1, <1>2, <1>3, <1>4, <1>5, <1>6, <1>7, <1>8, <1>9, <1>10, <1>11 DEF Next

\* What goes wrong is counted, and never forgotten.
LEMMA BoundsGrow ==
    ASSUME BoundType, [Next]_vars
    PROVE  /\ BoundType'
           /\ unanswered' = 0 => unanswered = 0 /\ ~WriteUnanswered
           /\ crashes' = 0 => crashes = 0 /\ ~Crash
           /\ prunes' = 0 => prunes = 0
           /\ backfills' = 0 => backfills = 0 /\ ~Backfill
<1> USE DEF BoundType
<1>1. CASE WriteFails
  BY <1>1 DEF WriteFails, WriteUnanswered, Crash, Backfill
<1>2. CASE WriteUnanswered
  BY <1>2 DEF WriteUnanswered, Crash, Backfill
<1>3. CASE Crash
  BY <1>3 DEF WriteUnanswered, Crash, Backfill
<1>4. CASE PruneOwner
  BY <1>4 DEF PruneOwner, WriteUnanswered, Crash, Backfill
<1>5. CASE Relabel
  BY <1>5 DEF Relabel, WriteUnanswered, Crash, Backfill
<1>6. CASE Backfill
  BY <1>6 DEF WriteUnanswered, Crash, Backfill
<1>7. CASE UNCHANGED bounds
  BY <1>7 DEF bounds, WriteUnanswered, Crash, Backfill
<1> QED
  BY <1>1, <1>2, <1>3, <1>4, <1>5, <1>6, <1>7
  DEF Next, Receive, Load, Plan, WriteDone, PruneOwned, Evict, Age, vars

\* The tables, the cache and the tasks' places have their types
\* (asset_element_telemetry.py, write_element_state, main.py: the pruner).
THEOREM TypeCorrect == Spec => []TypeOK
<1>1. Init => TypeOK
  <2> SUFFICES ASSUME Init PROVE TypeOK
    OBVIOUS
  <2>1. store \in Rows
    BY ElementAssumption DEF Init, NoRows, Rows
  <2>2. TableType
    BY <2>1, ElementAssumption DEF Init, TableType, Ages
  <2>3. TaskType
    BY DEF Init, TaskType
  <2>4. BoundType
    BY DEF Init, BoundType
  <2> QED
    BY <2>2, <2>3, <2>4 DEF TypeOK
<1>2. TypeOK /\ [Next]_vars => TypeOK'
  BY TableTypeStep, TaskTypeStep, BoundsGrow DEF TypeOK
<1> QED
  BY <1>1, <1>2, PTL DEF Spec

-----------------------------------------------------------------------------
(* While the pruner has deleted no row of the asset, its element rows have  *)
(* an owner, and no entry in use is evicted.                                *)

InHand == work.pc \in {"labels", "write"}

OwnedRows == owner = None => store = NoRows
OwnedEntries ==
    /\ mem # None /\ mem.signature # None => owner # None
    /\ InHand /\ work.entry.signature # None => owner # None
OwnedWrite == work.pc = "write" /\ ~work.asset => owner # None
NotEvicted == pruner # "evict" /\ (InHand => work.attached)

Owned == prunes = 0 => OwnedRows /\ OwnedEntries /\ OwnedWrite /\ NotEvicted

\* An entry for which no per-asset row is due was signed with the record.
LEMMA SignedWithRecord ==
    ASSUME NEW entry, ~AssetDue(entry), record # None
    PROVE  entry.signature = record
BY DEF AssetDue

LEMMA OwnedStep ==
    ASSUME TypeOK, Owned, [Next]_vars PROVE Owned'
<1> SUFFICES ASSUME prunes' = 0
             PROVE  (OwnedRows /\ OwnedEntries /\ OwnedWrite /\ NotEvicted)'
  BY DEF Owned
<1> USE DEF InHand
<1>0. prunes = 0
  BY BoundsGrow DEF TypeOK
<1>1. OwnedRows /\ OwnedEntries /\ OwnedWrite /\ NotEvicted
  BY <1>0 DEF Owned
<1>2. ASSUME NEW snap \in Snapshots, Receive(snap)
      PROVE  (OwnedRows /\ OwnedEntries /\ OwnedWrite /\ NotEvicted)'
  <2>1. UNCHANGED <<store, owner, mem, pruner>>
    BY <1>2 DEF Receive, tables
  <2>2. \/ work' = [pc |-> "load", snap |-> snap, loaded |-> store]
        \/ /\ mem # None
           /\ work' = [pc |-> "labels", snap |-> snap, entry |-> mem, attached |-> TRUE]
    BY <1>2 DEF Receive
  <2> QED
    BY <1>1, <2>1, <2>2 DEF OwnedRows, OwnedEntries, OwnedWrite, NotEvicted
<1>3. CASE Load
  <2>1. UNCHANGED <<store, owner, pruner>> /\ mem'.signature = None
    BY <1>3 DEF Load, tables
  <2>2. work'.pc = "labels" /\ work'.entry.signature = None /\ work'.attached
    BY <1>3 DEF Load
  <2> QED
    BY <1>1, <2>1, <2>2 DEF OwnedRows, OwnedEntries, OwnedWrite, NotEvicted
<1>4. CASE Plan
  <2> DEFINE entry == Stamped(work.entry)
  <2>1. /\ work.pc = "labels"
        /\ entry.signature = work.entry.signature
        /\ mem' = IF work.attached THEN entry ELSE mem
        /\ UNCHANGED <<store, owner, pruner>>
        /\ \/ work' = Idle
           \/ /\ record # None
              /\ work' = [pc |-> "write", snap |-> work.snap, entry |-> entry,
                          attached |-> work.attached, labels |-> record,
                          asset |-> AssetDue(entry)]
    BY <1>4, PlanMoves DEF Plan
  <2> HIDE DEF entry
  <2>2. entry.signature # None => owner # None
    BY <1>1, <2>1 DEF OwnedEntries
  <2>3. work.attached
    BY <1>1, <2>1 DEF NotEvicted
  <2>4. ASSUME ~AssetDue(entry), record # None PROVE owner # None
    BY <2>2, <2>4, SignedWithRecord
  <2>5. CASE work' = Idle
    BY <1>1, <2>1, <2>2, <2>5
    DEF Idle, OwnedRows, OwnedEntries, OwnedWrite, NotEvicted
  <2>6. CASE /\ record # None
             /\ work' = [pc |-> "write", snap |-> work.snap, entry |-> entry,
                         attached |-> work.attached, labels |-> record,
                         asset |-> AssetDue(entry)]
    <3>1. /\ work'.pc = "write" /\ work'.entry = entry /\ work'.attached = work.attached
          /\ work'.asset = AssetDue(entry)
      BY <2>6
    <3>2. OwnedWrite'
      BY <2>1, <2>4, <2>6, <3>1 DEF OwnedWrite
    <3>3. OwnedRows' /\ OwnedEntries'
      BY <1>1, <2>1, <2>2, <3>1 DEF OwnedRows, OwnedEntries
    <3>4. NotEvicted'
      BY <1>1, <2>1, <2>3, <3>1 DEF NotEvicted
    <3> QED
      BY <3>2, <3>3, <3>4
  <2> QED
    BY <2>1, <2>5, <2>6
<1>5. CASE WriteDone \/ WriteUnanswered
  <2>1. work \in Writing /\ work.pc = "write" /\ Commit
    BY <1>5, WorkType DEF WriteDone, WriteUnanswered
  <2>2. work' = Idle /\ pruner' = pruner
    BY <1>5 DEF WriteDone, WriteUnanswered, Leave
  <2>3. owner' # None
    BY <1>1, <2>1, CommitMoves, ElementAssumption DEF OwnedWrite
  <2> QED
    BY <1>1, <2>2, <2>3 DEF Idle, OwnedRows, OwnedEntries, OwnedWrite, NotEvicted
<1>6. CASE WriteFails
  <2>1. work.pc = "write" /\ work' = Idle /\ mem' \in {mem, work.entry}
        /\ UNCHANGED <<store, owner, pruner>>
    BY <1>6 DEF WriteFails, Leave, tables
  <2> QED
    BY <1>1, <2>1 DEF Idle, OwnedRows, OwnedEntries, OwnedWrite, NotEvicted
<1>7. CASE Crash
  BY <1>1, <1>7 DEF Crash, tables, Idle, OwnedRows, OwnedEntries, OwnedWrite, NotEvicted
<1>8. CASE PruneOwner
  <2>1. UNCHANGED <<store, owner, mem, work>> /\ pruner' = "owned"
    BY <1>0, <1>8 DEF PruneOwner
  <2> QED
    BY <1>1, <2>1 DEF OwnedRows, OwnedEntries, OwnedWrite, NotEvicted
<1>9. CASE PruneOwned
  <2>1. UNCHANGED <<store, owner, mem, work>> /\ pruner' = "owner"
    BY <1>1, <1>9 DEF PruneOwned, OwnedRows
  <2> QED
    BY <1>1, <2>1 DEF OwnedRows, OwnedEntries, OwnedWrite, NotEvicted
<1>10. CASE Evict
  BY <1>1, <1>10 DEF Evict, NotEvicted
<1>11. CASE Relabel \/ Backfill \/ UNCHANGED vars
  <2>1. UNCHANGED <<store, owner, mem, work, pruner>>
    BY <1>11 DEF Relabel, Backfill, vars, tables
  <2> QED
    BY <1>1, <2>1 DEF OwnedRows, OwnedEntries, OwnedWrite, NotEvicted
<1>12. CASE Age
  <2>1. UNCHANGED <<store, work, pruner>> /\ owner # None /\ owner' # None
        /\ work.pc = "idle"
    BY <1>12, ElementAssumption DEF Age, TypeOK, TableType, Ages
  <2> QED
    BY <1>1, <2>1 DEF OwnedRows, OwnedEntries, OwnedWrite, NotEvicted
<1> QED
  BY <1>2, <1>3, <1>4, <1>5, <1>6, <1>7, <1>8, <1>9, <1>10, <1>11, <1>12 DEF Next

LEMMA RowsStayOwned == Spec => []Owned
<1>1. Init => Owned
  BY ElementAssumption
  DEF Init, Owned, OwnedRows, OwnedEntries, OwnedWrite, NotEvicted, InHand, Idle
<1> QED
  BY <1>1, OwnedStep, TypeCorrect, PTL DEF Spec

-----------------------------------------------------------------------------
(* The cache follows the store.                                             *)

\* Rows the handler takes to be written are written so.
Follows(rows) == \A p \in Paths : rows[p] # None => store[p] = rows[p]

CacheInv ==
    Undisturbed =>
       /\ mem # None => Follows(mem.rows)
       /\ work.pc = "load" => Follows(work.loaded)
       /\ InHand => Follows(work.entry.rows)

LEMMA CacheStep ==
    ASSUME TypeOK, Owned, CacheInv, [Next]_vars PROVE CacheInv'
<1> SUFFICES ASSUME Undisturbed'
             PROVE  /\ mem' # None => Follows(mem.rows)'
                    /\ work'.pc = "load" => Follows(work.loaded)'
                    /\ InHand' => Follows(work.entry.rows)'
  BY DEF CacheInv
<1> USE DEF InHand, Follows
<1>0. Undisturbed /\ ~WriteUnanswered /\ prunes' = 0
  BY BoundsGrow DEF Undisturbed, TypeOK
<1>1. /\ mem # None => Follows(mem.rows)
      /\ work.pc = "load" => Follows(work.loaded)
      /\ InHand => Follows(work.entry.rows)
  BY <1>0 DEF CacheInv
<1>2. OwnedRows /\ NotEvicted
  BY <1>0 DEF Owned, Undisturbed
<1>3. ASSUME NEW snap \in Snapshots, Receive(snap)
      PROVE  /\ mem' # None => Follows(mem.rows)'
             /\ work'.pc = "load" => Follows(work.loaded)'
             /\ InHand' => Follows(work.entry.rows)'
  <2>1. UNCHANGED <<store, mem>>
    BY <1>3 DEF Receive, tables
  <2>2. \/ work' = [pc |-> "load", snap |-> snap, loaded |-> store]
        \/ /\ mem # None
           /\ work' = [pc |-> "labels", snap |-> snap, entry |-> mem, attached |-> TRUE]
    BY <1>3 DEF Receive
  <2> QED
    BY <1>1, <2>1, <2>2
<1>4. CASE Load
  <2>1. /\ store' = store /\ work.pc = "load" /\ mem'.rows = work.loaded
        /\ work'.pc = "labels" /\ work'.entry.rows = work.loaded
    BY <1>4 DEF Load, tables
  <2> QED
    BY <1>1, <2>1
<1>5. CASE Plan
  <2> DEFINE entry == Stamped(work.entry)
  <2>1. /\ work.pc = "labels" /\ store' = store
        /\ entry.rows = work.entry.rows
        /\ mem' = IF work.attached THEN entry ELSE mem
        /\ work' = Idle \/ (work'.pc = "write" /\ work'.entry = entry)
    BY <1>5, PlanMoves DEF Plan
  <2> HIDE DEF entry
  <2> QED
    BY <1>1, <2>1 DEF Idle
<1>6. CASE WriteDone
  <2>1. work \in Writing /\ work.pc = "write" /\ Commit
    BY <1>6, WorkType DEF WriteDone
  <2>2. work' = Idle /\ mem' = Remembered(work.entry)
    BY <1>2, <1>6, <2>1 DEF WriteDone, Leave, NotEvicted
  <2>3. /\ mem'.rows = RowsAfter(work.entry.rows, work.entry.rows, work.snap)
        /\ store' = RowsAfter(store, work.entry.rows, work.snap)
    BY <2>1, <2>2, RememberedType, CommitMoves
  <2>4. ASSUME NEW p \in Paths, mem'.rows[p] # None PROVE store'[p] = mem'.rows[p]
    BY <1>1, <2>1, <2>3, <2>4 DEF RowsAfter
  <2> QED
    BY <2>2, <2>4 DEF Idle
<1>7. CASE WriteFails
  <2>1. store' = store /\ work.pc = "write" /\ work' = Idle /\ mem' \in {mem, work.entry}
    BY <1>7 DEF WriteFails, Leave, tables
  <2> QED
    BY <1>1, <2>1 DEF Idle
<1>8. CASE Crash
  BY <1>8 DEF Crash, Idle
<1>9. CASE PruneOwned
  <2>1. UNCHANGED <<store, mem, work>>
    BY <1>2, <1>9 DEF PruneOwned, OwnedRows
  <2> QED
    BY <1>1, <2>1
<1>10. CASE Evict
  BY <1>2, <1>10 DEF Evict, NotEvicted
<1>11. CASE PruneOwner \/ Relabel \/ Backfill \/ UNCHANGED vars
  <2>1. UNCHANGED <<store, mem, work>>
    BY <1>11 DEF PruneOwner, Relabel, Backfill, vars, tables
  <2> QED
    BY <1>1, <2>1
<1>12. CASE Age
  <2>1. UNCHANGED <<store, work>>
    BY <1>12 DEF Age
  <2>2. mem' # None => mem # None /\ mem'.rows = mem.rows
    BY <1>12 DEF Age, TypeOK, TaskType, Entry
  <2> QED
    BY <1>1, <2>1, <2>2
<1> QED
  BY <1>0, <1>3, <1>4, <1>5, <1>6, <1>7, <1>8, <1>9, <1>10, <1>11, <1>12 DEF Next

LEMMA CacheFollows == Spec => []CacheInv
<1>1. Init => CacheInv
  BY DEF Init, CacheInv, InHand, Idle
<1> QED
  BY <1>1, CacheStep, RowsStayOwned, TypeCorrect, PTL DEF Spec

\* Through failed transactions, restarts, relabels and runs of the tool, the
\* cache holds no row that is not in the table, or not so, unless an answer was
\* lost or the asset pruned (asset_element_telemetry.py: handle).
THEOREM CacheIsTruthful == Spec => []CacheTruthful
<1>1. CacheInv => CacheTruthful
  BY DEF CacheInv, CacheTruthful, Follows
<1> QED
  BY <1>1, CacheFollows, PTL

-----------------------------------------------------------------------------
(* The table shows the last envelope.                                       *)

\* A row that shows an observation.
Shows(obs, r) ==
    r # None /\ ~Crossed(obs.value, r.value) /\ FitsBand(obs.health, r.band)

\* An element that the diff leaves shows its observation already.
LEMMA UnchangedShows ==
    ASSUME NEW rows \in Rows, NEW snap \in Snapshots, NEW p \in Paths,
           snap[p] # None, ~Changed(rows, snap, p)
    PROVE  rows[p] \in Row /\ Shows(snap[p], rows[p])
<1>1. /\ rows[p] # None /\ ~Crossed(snap[p].value, rows[p].value)
      /\ rows[p].band = Band(rows, snap, p)
  BY DEF Changed
<1>2. rows[p] \in Row
  BY <1>1 DEF Rows
<1> QED
  BY <1>1, <1>2, BandOfElement DEF Shows

\* And what it writes of an observed element shows it.
LEMMA NewRowShows ==
    ASSUME NEW rows \in Rows, NEW snap \in Snapshots, NEW p \in Written(rows, snap),
           snap[p] # None
    PROVE  Shows(snap[p], NewRow(rows, snap, p))
<1>1. NewRow(rows, snap, p) \in Row /\ p \in Paths
  BY NewRowType DEF Written
<1>2. NewRow(rows, snap, p) # None
  BY <1>1, ElementAssumption
<1>3. CASE Changed(rows, snap, p)
  <2>1. /\ NewRow(rows, snap, p).value = snap[p].value
        /\ NewRow(rows, snap, p).band = Band(rows, snap, p)
    BY <1>3 DEF NewRow
  <2>2. snap[p] \in Observation /\ FitsBand(snap[p].health, Band(rows, snap, p))
    BY <1>1, BandOfElement
  <2>3. ~Crossed(snap[p].value, snap[p].value)
    BY <2>2, NeverCrossesItself DEF Observation
  <2> QED
    BY <1>2, <2>1, <2>2, <2>3 DEF Shows
<1>4. CASE ~Changed(rows, snap, p)
  <2>1. /\ NewRow(rows, snap, p).value = rows[p].value
        /\ NewRow(rows, snap, p).band = rows[p].band
    BY <1>4 DEF NewRow
  <2> QED
    BY <1>1, <1>2, <1>4, <2>1, UnchangedShows DEF Shows
<1> QED
  BY <1>3, <1>4

ShownInv ==
    /\ last # None => work.pc = "idle"
    /\ Undisturbed /\ last # None =>
          \A p \in Paths : last[p] # None => Shows(last[p], store[p])

LEMMA ShownStep ==
    ASSUME TypeOK, Owned, CacheInv, ShownInv, [Next]_vars PROVE ShownInv'
<1>0. ASSUME Undisturbed'
      PROVE  /\ Undisturbed /\ ~WriteUnanswered /\ OwnedRows
             /\ InHand => Follows(work.entry.rows)
  <2>1. Undisturbed /\ ~WriteUnanswered
    BY <1>0, BoundsGrow DEF Undisturbed, TypeOK
  <2> QED
    BY <2>1 DEF Undisturbed, Owned, CacheInv
<1>1. ASSUME NEW snap \in Snapshots, Receive(snap) PROVE ShownInv'
  BY <1>1 DEF Receive, ShownInv
<1>2. CASE Plan
  <2> DEFINE entry == Stamped(work.entry)
  <2>1. /\ work.pc = "labels" /\ work \in Labelling /\ entry \in Entry
        /\ entry.rows = work.entry.rows /\ store' = store
        /\ \/ /\ Written(entry.rows, work.snap) = {}
              /\ work' = Idle /\ last' = work.snap
           \/ last' = last
    BY <1>2, PlanMoves DEF Plan
  <2> HIDE DEF entry
  <2>2. last = None
    BY <2>1 DEF ShownInv
  <2>3. ASSUME Undisturbed', Written(entry.rows, work.snap) = {}, last' = work.snap,
               NEW p \in Paths, last'[p] # None
        PROVE  Shows(last'[p], store'[p])
    <3>1. entry.rows \in Rows /\ work.snap \in Snapshots
      BY <2>1 DEF Entry, Labelling
    <3>2. ~Changed(entry.rows, work.snap, p)
      BY <2>3 DEF Written
    <3>3. entry.rows[p] \in Row /\ Shows(last'[p], entry.rows[p])
      BY <2>3, <3>1, <3>2, UnchangedShows
    <3>4. store[p] = entry.rows[p]
      BY <1>0, <2>1, <2>3, <3>3, ElementAssumption DEF Follows, InHand
    <3> QED
      BY <2>1, <3>3, <3>4
  <2>4. CASE last' = last
    BY <2>2, <2>4 DEF ShownInv
  <2>5. CASE /\ Written(entry.rows, work.snap) = {}
             /\ work' = Idle /\ last' = work.snap
    BY <2>3, <2>5 DEF ShownInv, Idle
  <2> QED
    BY <2>1, <2>4, <2>5
<1>3. CASE WriteDone
  <2>1. work \in Writing /\ work.pc = "write" /\ Commit
    BY <1>3, WorkType DEF WriteDone
  <2>2. work' = Idle /\ last' = work.snap
    BY <1>3 DEF WriteDone, Leave
  <2>3. ASSUME Undisturbed', NEW p \in Paths, last'[p] # None
        PROVE  Shows(last'[p], store'[p])
    <3>1. work.entry.rows \in Rows /\ work.snap \in Snapshots
      BY <2>1 DEF Entry, Writing
    <3>2. store'[p] = IF p \in Written(work.entry.rows, work.snap)
                      THEN NewRow(work.entry.rows, work.snap, p) ELSE store[p]
      BY <2>1, CommitMoves DEF RowsAfter
    <3>3. CASE p \in Written(work.entry.rows, work.snap)
      BY <2>2, <2>3, <3>1, <3>2, <3>3, NewRowShows
    <3>4. CASE p \notin Written(work.entry.rows, work.snap)
      <4>1. ~Changed(work.entry.rows, work.snap, p)
        BY <3>4 DEF Written
      <4>2. work.entry.rows[p] \in Row /\ Shows(last'[p], work.entry.rows[p])
        BY <2>2, <2>3, <3>1, <4>1, UnchangedShows
      <4>3. store[p] = work.entry.rows[p]
        BY <1>0, <2>1, <2>3, <4>2, ElementAssumption DEF Follows, InHand
      <4> QED
        BY <3>2, <3>4, <4>2, <4>3
    <3> QED
      BY <3>3, <3>4
  <2> QED
    BY <2>2, <2>3 DEF ShownInv, Idle
<1>4. CASE WriteUnanswered
  BY <1>0, <1>4 DEF WriteUnanswered, Leave, ShownInv, Idle
<1>5. CASE PruneOwned
  <2>1. work' = work /\ last' \in {last, None}
    BY <1>5 DEF PruneOwned
  <2>2. Undisturbed' => Undisturbed /\ store' = store
    BY <1>0, <1>5 DEF PruneOwned, OwnedRows
  <2> QED
    BY <2>1, <2>2 DEF ShownInv
<1>6. CASE \/ Load \/ WriteFails \/ Crash \/ PruneOwner \/ Evict \/ Relabel
           \/ Backfill \/ Age \/ UNCHANGED vars
  <2>1. UNCHANGED <<store, last>>
    BY <1>6 DEF Load, WriteFails, Crash, PruneOwner, Evict, Relabel, Backfill, Age,
                vars, tables
  <2>2. work.pc = "idle" => work'.pc = "idle"
    BY <1>6 DEF Load, WriteFails, Crash, PruneOwner, Evict, Relabel, Backfill, Age,
                vars, Idle
  <2> QED
    BY <1>0, <2>1, <2>2 DEF ShownInv
<1> QED
  BY <1>1, <1>2, <1>3, <1>4, <1>5, <1>6 DEF Next

\* Once an envelope is dealt with, the table shows every observation in it, to
\* within the deadband, in a band the health fits, for any limits and hysteresis
\* (asset_element_telemetry.py: value_crossed, band_index, diff_snapshot, handle).
THEOREM StoreShowsEnvelope == Spec => []StoreShowsLast
<1>1. Init => ShownInv
  BY DEF Init, ShownInv
<1>2. ShownInv => StoreShowsLast
  BY DEF ShownInv, StoreShowsLast, ShowsLast, Shows
<1> QED
  BY <1>1, <1>2, ShownStep, CacheFollows, RowsStayOwned, TypeCorrect, PTL DEF Spec

-----------------------------------------------------------------------------
(* The rows carry the labels that were read last.                           *)

\* What an entry has stamped is what labelled rows carry, and it signs no other.
Marked(entry) ==
    /\ entry.signature # None => entry.signature = entry.stamped
    /\ \A p \in Paths : label[p] \in {entry.stamped, Null, None}

LabelInv ==
    Followed =>
       /\ mem # None => Marked(mem)
       /\ mem = None => \A p \in Paths : label[p] \in {Null, None}
       /\ work.pc = "load" => mem = None
       /\ InHand => mem # None /\ Marked(work.entry)
       /\ work.pc = "write" /\ ~work.asset => work.entry.signature = work.labels

\* After the write, labelled rows carry the labels that were read for it.
LEMMA CommitMarks ==
    ASSUME TypeOK, work \in Writing, Commit, Marked(work.entry), NEW p \in Paths
    PROVE  label'[p] \in {work.labels, Null, None}
<1>1. store[p] = None => label[p] = None
  BY DEF TypeOK, TableType
<1> QED
  BY <1>1, CommitMoves DEF Marked

LEMMA LabelStep ==
    ASSUME TypeOK, Owned, LabelInv, [Next]_vars PROVE LabelInv'
<1> DEFINE Goal ==
             /\ mem # None => Marked(mem)
             /\ mem = None => \A p \in Paths : label[p] \in {Null, None}
             /\ work.pc = "load" => mem = None
             /\ InHand => mem # None /\ Marked(work.entry)
             /\ work.pc = "write" /\ ~work.asset => work.entry.signature = work.labels
<1> SUFFICES ASSUME Followed' PROVE Goal'
  BY DEF LabelInv
<1> USE DEF InHand, Marked
<1>0. Followed /\ ~WriteUnanswered /\ ~Crash /\ ~Backfill
  BY BoundsGrow DEF Followed, TypeOK
<1>1. Goal
  BY <1>0 DEF LabelInv
<1>2. OwnedRows /\ NotEvicted
  BY <1>0 DEF Owned, Followed
<1>3. ASSUME NEW snap \in Snapshots, Receive(snap) PROVE Goal'
  <2>1. UNCHANGED <<label, mem>>
    BY <1>3 DEF Receive, tables
  <2>2. \/ mem = None /\ work' = [pc |-> "load", snap |-> snap, loaded |-> store]
        \/ /\ mem # None
           /\ work' = [pc |-> "labels", snap |-> snap, entry |-> mem, attached |-> TRUE]
    BY <1>3 DEF Receive
  <2> QED
    BY <1>1, <2>1, <2>2
<1>4. CASE Load
  <2>1. work \in Loading /\ work.pc = "load" /\ label' = label
    BY <1>4, WorkType DEF Load, tables
  <2>2. /\ mem'.signature = None /\ mem'.stamped = None
        /\ work'.pc = "labels" /\ work'.entry = mem'
    BY <1>4 DEF Load
  <2>3. mem' # None
    <3>1. mem' \in Entry
      BY <1>4, <2>1 DEF Load, Loading, Entry, Ages
    <3> QED
      BY <3>1, ElementAssumption
  <2>4. \A p \in Paths : label'[p] \in {Null, None}
    BY <1>1, <2>1
  <2> QED
    BY <2>2, <2>3, <2>4
<1>5. CASE Plan
  <2> DEFINE entry == Stamped(work.entry)
  <2>1. /\ work.pc = "labels" /\ entry \in Entry /\ label' = label
        /\ entry.signature = work.entry.signature
        /\ entry.stamped = IF record # None /\ work.entry.stamped = None
                           THEN record ELSE work.entry.stamped
        /\ mem' = IF work.attached THEN entry ELSE mem
        /\ \/ work' = Idle
           \/ /\ record # None
              /\ work' = [pc |-> "write", snap |-> work.snap, entry |-> entry,
                          attached |-> work.attached, labels |-> record,
                          asset |-> AssetDue(entry)]
    BY <1>5, PlanMoves DEF Plan
  <2> HIDE DEF entry
  <2>2. mem' = entry /\ mem' # None
    BY <1>2, <2>1, ElementAssumption DEF NotEvicted
  <2>3. /\ entry.signature # None => entry.signature = entry.stamped
        /\ \A p \in Paths : label'[p] \in {entry.stamped, Null, None}
    BY <1>1, <2>1
  <2>4. CASE work' = Idle
    BY <2>2, <2>3, <2>4 DEF Idle
  <2>5. CASE /\ record # None
             /\ work' = [pc |-> "write", snap |-> work.snap, entry |-> entry,
                         attached |-> work.attached, labels |-> record,
                         asset |-> AssetDue(entry)]
    <3>1. /\ work'.pc = "write" /\ work'.entry = entry /\ work'.labels = record
          /\ work'.asset = AssetDue(entry)
      BY <2>5
    <3>2. ~work'.asset => work'.entry.signature = work'.labels
      BY <2>5, <3>1, SignedWithRecord
    <3> QED
      BY <2>2, <2>3, <3>1, <3>2
  <2> QED
    BY <2>1, <2>4, <2>5
<1>6. CASE WriteDone
  <2>1. work \in Writing /\ work.pc = "write" /\ Commit
    BY <1>6, WorkType DEF WriteDone
  <2>2. work' = Idle /\ mem' = Remembered(work.entry)
    BY <1>2, <1>6, <2>1 DEF WriteDone, Leave, NotEvicted
  <2>3. /\ mem' # None /\ mem'.stamped = work.labels
        /\ mem'.signature = IF work.asset THEN work.labels ELSE work.entry.signature
    BY <2>1, <2>2, RememberedType, ElementAssumption
  <2>4. mem'.signature = work.labels
    BY <1>1, <2>1, <2>3
  <2>5. \A p \in Paths : label'[p] \in {work.labels, Null, None}
    BY <1>1, <2>1, CommitMarks
  <2> QED
    BY <2>2, <2>3, <2>4, <2>5 DEF Idle
<1>7. CASE WriteFails
  <2>1. /\ label' = label /\ work.pc = "write" /\ work' = Idle
        /\ mem' = work.entry
    BY <1>2, <1>7 DEF WriteFails, Leave, tables, NotEvicted
  <2>2. mem' # None
    BY <1>7, <2>1, WorkType, ElementAssumption DEF Writing
  <2> QED
    BY <1>1, <2>1, <2>2 DEF Idle
<1>8. CASE PruneOwned
  <2>1. UNCHANGED <<mem, work>>
    BY <1>8 DEF PruneOwned
  <2>2. \A p \in Paths : label'[p] \in {label[p], None}
    BY <1>8 DEF PruneOwned, NoRows
  <2> QED
    BY <1>1, <2>1, <2>2
<1>9. CASE Evict
  BY <1>2, <1>9 DEF Evict, NotEvicted
<1>10. CASE PruneOwner \/ Relabel \/ UNCHANGED vars
  <2>1. UNCHANGED <<label, mem, work>>
    BY <1>10 DEF PruneOwner, Relabel, vars, tables
  <2> QED
    BY <1>1, <2>1
<1>11. CASE Age
  <2>1. UNCHANGED <<label, work>> /\ work.pc = "idle"
    BY <1>11 DEF Age
  <2>2. CASE mem = None
    <3>1. mem' = None
      BY <1>11, <2>2 DEF Age
    <3> QED
      BY <1>1, <2>1, <2>2, <3>1
  <2>3. CASE mem # None
    <3>1. mem' # None /\ mem'.signature = mem.signature /\ mem'.stamped = mem.stamped
      BY <1>11, <2>3, AgedEntry, ElementAssumption
    <3> QED
      BY <1>1, <2>1, <2>3, <3>1
  <2> QED
    BY <2>2, <2>3
<1> QED
  BY <1>0, <1>3, <1>4, <1>5, <1>6, <1>7, <1>8, <1>9, <1>10, <1>11 DEF Next

\* An envelope that is dealt with leaves every labelled row of the asset with the
\* labels read for it, after any relabels and failed writes, before any restart,
\* lost answer, prune or backfill (asset_element_telemetry.py: handle, and
\* write_element_state's restamp).
THEOREM RowsCarryLabels == Spec => RowsFollowLabels
<1>1. Init => LabelInv
  BY DEF Init, LabelInv, InHand, Idle
<1>2. ASSUME TypeOK, LabelInv, [Next]_vars, Followed PROVE Relabelled
  <2> DEFINE labels == IF work.pc = "write" THEN work.labels ELSE record
  <2> SUFFICES ASSUME last = None, last' # None, labels # None, NEW p \in Paths
               PROVE  label'[p] \in {labels, Null, None}
    BY DEF Relabelled
  <2>1. Plan \/ WriteDone
    BY <1>2 DEF Next, Receive, Load, WriteFails, WriteUnanswered, Crash, PruneOwner,
                PruneOwned, Evict, Relabel, Backfill, Age, vars
  <2>2. CASE Plan
    <3>1. /\ work.pc = "labels" /\ label' = label
          /\ ~AssetDue(Stamped(work.entry))
          /\ Stamped(work.entry).signature = work.entry.signature
      BY <1>2, <2>2, PlanMoves DEF Plan
    <3>2. labels = record /\ record # None
      BY <3>1
    <3>3. work.entry.signature = record
      BY <3>1, <3>2, SignedWithRecord
    <3> QED
      BY <1>2, <3>1, <3>2, <3>3 DEF LabelInv, InHand, Marked
  <2>3. CASE WriteDone
    <3>1. work \in Writing /\ work.pc = "write" /\ Commit
      BY <1>2, <2>3, WorkType DEF WriteDone
    <3>2. Marked(work.entry)
      BY <1>2, <3>1 DEF LabelInv, InHand
    <3> QED
      BY <1>2, <3>1, <3>2, CommitMarks
  <2> QED
    BY <2>1, <2>2, <2>3
<1>3. TypeOK /\ LabelInv /\ [Next]_vars => [Followed => Relabelled]_vars
  BY <1>2
<1> QED
  BY <1>1, <1>3, LabelStep, RowsStayOwned, TypeCorrect, PTL DEF Spec, RowsFollowLabels
=============================================================================
