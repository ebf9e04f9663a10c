---------------------------- MODULE LifecycleProofs ----------------------------
(***************************************************************************)
(* How an asset's operational status moves, for any fleet, any topic and   *)
(* any sequence of records, batches, crashes, sweeps and prunes.           *)
(***************************************************************************)
EXTENDS Lifecycle, TLAPS

-----------------------------------------------------------------------------
(* What a statement writes.                                                 *)

\* A record claims a status, or nothing.
LEMMA ClaimType ==
    ASSUME NEW r \in Record
    PROVE  Claim(r) \in Terminal \cup {None}
BY DEF Claim, Record, Terminal

\* What an upsert or an update makes of a row is a row.
LEMMA WrittenRow ==
    ASSUME NEW r \in Record, NEW row \in Row \cup {None}, now \in Time
    PROVE  /\ Inserted(r) \in Row
           /\ row # None => Updated(r, row) \in Row
           /\ RowAfter(r, row) \in Row \cup {None}
<1>1. Claim(r) \in Terminal \cup {None}
  BY ClaimType
<1>2. Inserted(r) \in Row
  BY <1>1 DEF Inserted, Row, Status, Reporting, Record
<1>3. ASSUME row # None PROVE Updated(r, row) \in Row
  <2>1. CASE StatusOnly(r)
    <3>1. r.field \in Status
      BY <2>1 DEF StatusOnly, Record, Status
    <3> QED
      BY <1>3, <2>1, <3>1 DEF Updated, Row
  <2>2. CASE ~StatusOnly(r)
    <3> DEFINE status == IF Claim(r) # None THEN Claim(r)
                         ELSE Revived(r, row.operational)
    <3>1. status \in Status
      BY <1>1, <1>3 DEF Revived, Row, Status
    <3>2. Updated(r, row) = [operational |-> status, reporting |-> "reporting",
                             sampleAt |-> r.sample, updatedAt |-> now]
      BY <2>2 DEF Updated
    <3> HIDE DEF status
    <3> QED
      BY <3>1, <3>2 DEF Row, Reporting, Record
  <2> QED
    BY <2>1, <2>2
<1> QED
  BY <1>2, <1>3 DEF RowAfter

\* An updated row has the status the record claims, or its own, and only a
\* deactivated one is revived.
LEMMA UpdatedStatus ==
    ASSUME NEW r \in Record, NEW row \in Row
    PROVE  /\ Claim(r) # None => Updated(r, row).operational = Claim(r)
           /\ Claim(r) = None /\ row.operational # "deactivated"
              => Updated(r, row).operational = row.operational
BY LifecycleAssumption
DEF Updated, Claim, StatusOnly, Revived, Row, Record

\* A record that creates a row names the status it claims.
LEMMA InsertedStatus ==
    ASSUME NEW r \in Record, Claim(r) # None
    PROVE  Inserted(r).operational = Claim(r)
BY DEF Inserted

-----------------------------------------------------------------------------
(* Type correctness.                                                        *)

\* Persisting advances one asset's position over a record of its topic.
LEMMA PersistedRecord ==
    ASSUME TypeOK, NEW a \in Assets, Persist(a)
    PROVE  \E k \in 1..Len(log[a]) :
              /\ k \in Nat /\ k >= next[a] /\ k < next[a] + BatchMax
              /\ log[a][k] \in Record
              /\ next' = [next EXCEPT ![a] = k + 1]
              /\ coalesced' = [coalesced EXCEPT ![a] = (@ \cup (next[a]..k)) \ {k}]
              /\ WriteOrSkip(a, k)
<1>1. /\ log[a] \in Seq(Record) /\ next[a] \in 1..Len(log[a]) + 1
      /\ next[a] \in Nat /\ Len(log[a]) \in Nat
  BY DEF TypeOK, StoreType, PlaceType
<1>2. PICK n \in 1..BatchMax :
        LET k == next[a] + n - 1 IN
        /\ k <= Len(log[a])
        /\ next' = [next EXCEPT ![a] = k + 1]
        /\ coalesced' = [coalesced EXCEPT ![a] = (@ \cup (next[a]..k)) \ {k}]
        /\ WriteOrSkip(a, k)
  BY DEF Persist
<1> DEFINE k == next[a] + n - 1
<1>3. n \in Nat /\ n >= 1 /\ n <= BatchMax
  BY LifecycleAssumption
<1>4. k \in Nat /\ k \in 1..Len(log[a]) /\ k >= next[a] /\ k < next[a] + BatchMax
  BY <1>1, <1>2, <1>3, LifecycleAssumption
<1>5. log[a][k] \in Record
  BY <1>1, <1>4
<1>6. /\ next' = [next EXCEPT ![a] = k + 1]
      /\ coalesced' = [coalesced EXCEPT ![a] = (@ \cup (next[a]..k)) \ {k}]
      /\ WriteOrSkip(a, k)
  BY <1>2
<1> HIDE DEF k
<1> QED
  BY <1>4, <1>5, <1>6

\* A record that goes through _persist is written, or leaves every row alone.
LEMMA WrittenOrNot ==
    ASSUME TypeOK, NEW a \in Assets, NEW k \in Nat, WriteOrSkip(a, k)
    PROVE  /\ lost' \in [Assets -> SUBSET Nat]
           /\ lost[a] \ (next[a]..k) \subseteq lost'[a]
           /\ \/ /\ rows' = [rows EXCEPT ![a] = RowAfter(log[a][k], @)]
                 /\ applied' = [applied EXCEPT ![a] = @ \cup {k}]
              \/ /\ rows' = rows /\ applied' = applied
                 /\ k \in lost'[a]
BY DEF WriteOrSkip, TypeOK, PlaceType

LEMMA StoreTypeStep ==
    ASSUME TypeOK, [Next]_vars PROVE StoreType'
<1>1. StoreType
  BY DEF TypeOK
<1>2. ASSUME NEW a \in Assets, Persist(a) PROVE StoreType'
  <2>1. PICK k \in 1..Len(log[a]) :
          /\ log[a][k] \in Record
          /\ rows' \in {rows, [rows EXCEPT ![a] = RowAfter(log[a][k], @)]}
    BY <1>2, PersistedRecord DEF WriteOrSkip
  <2>2. RowAfter(log[a][k], rows[a]) \in Row \cup {None}
    BY <1>1, <2>1, WrittenRow DEF StoreType
  <2> QED
    BY <1>1, <1>2, <2>1, <2>2 DEF Persist, StoreType
<1>3. CASE StalenessSweep
  <2>1. ASSUME NEW a \in Assets, IsStale(rows[a])
        PROVE  [rows[a] EXCEPT !.reporting = "not_reporting"] \in Row
    BY <1>1, <2>1 DEF IsStale, Row, Reporting, StoreType
  <2>2. rows' \in [Assets -> Row \cup {None}]
    BY <1>1, <1>3, <2>1 DEF StalenessSweep, StoreType
  <2> QED
    BY <1>1, <1>3, <2>2 DEF StalenessSweep, topic, StoreType
<1>4. CASE PruneLifecycle
  BY <1>1, <1>4 DEF PruneLifecycle, topic, StoreType
<1>5. CASE Tick
  BY <1>1, <1>5, LifecycleAssumption DEF Tick, topic, Time, StoreType
<1>6. CASE Crash
  BY <1>1, <1>6, LifecycleAssumption DEF Crash, StoreType
<1>7. CASE UNCHANGED <<log, now, crashes, rows, pruned>>
  BY <1>1, <1>7 DEF StoreType
<1> QED
  BY <1>2, <1>3, <1>4, <1>5, <1>6, <1>7 DEF Next, vars, topic, PollOver, Commit

LEMMA PlaceTypeStep ==
    ASSUME TypeOK, [Next]_vars PROVE PlaceType'
<1>1. PlaceType /\ \A a \in Assets : Len(log[a]) \in Nat
  BY DEF TypeOK, StoreType
<1>2. ASSUME NEW a \in Assets, Persist(a) PROVE PlaceType'
  <2>1. PICK k \in 1..Len(log[a]) :
          /\ k \in Nat /\ k >= next[a]
          /\ next' = [next EXCEPT ![a] = k + 1]
          /\ coalesced' = [coalesced EXCEPT ![a] = (@ \cup (next[a]..k)) \ {k}]
          /\ lost' \in [Assets -> SUBSET Nat]
          /\ applied' \in {applied, [applied EXCEPT ![a] = @ \cup {k}]}
    BY <1>2, PersistedRecord, WrittenOrNot
  <2>2. log' = log /\ committed' = committed
    BY <1>2 DEF Persist
  <2>3. /\ next' \in [Assets -> Nat] /\ applied' \in [Assets -> SUBSET Nat]
        /\ next'[a] = k + 1 /\ applied'[a] \subseteq applied[a] \cup {k}
    BY <1>1, <2>1 DEF PlaceType
  <2>4. /\ next'[a] \in 1..Len(log[a]) + 1
        /\ committed[a] \in 1..next'[a]
        /\ applied'[a] \subseteq 1..Len(log[a])
    BY <1>1, <2>1, <2>3 DEF PlaceType
  <2>5. ASSUME NEW b \in Assets, b # a
        PROVE  next'[b] = next[b] /\ applied'[b] = applied[b]
    BY <1>1, <2>1, <2>5 DEF PlaceType
  <2>6. next[a] \in Nat /\ next[a]..k \subseteq Nat
    BY <1>1 DEF PlaceType
  <2>7. coalesced' \in [Assets -> SUBSET Nat]
    BY <1>1, <2>1, <2>6 DEF PlaceType
  <2> QED
    BY <1>1, <2>1, <2>2, <2>3, <2>4, <2>5, <2>7 DEF PlaceType
<1>3. ASSUME NEW a \in Assets, PollOver(a) PROVE PlaceType'
  <2>1. /\ log' = log /\ committed' = committed /\ applied' = applied
        /\ next[a] <= Len(log[a])
        /\ next' = [next EXCEPT ![a] = @ + 1]
        /\ coalesced' = [coalesced EXCEPT ![a] = @ \ {next[a]}]
        /\ lost' = [lost EXCEPT ![a] = @ \cup {next[a]}]
    BY <1>3 DEF PollOver
  <2>2. /\ next' \in [Assets -> Nat] /\ next'[a] = next[a] + 1
        /\ \A b \in Assets \ {a} : next'[b] = next[b]
        /\ coalesced' \in [Assets -> SUBSET Nat] /\ lost' \in [Assets -> SUBSET Nat]
    BY <1>1, <2>1 DEF PlaceType
  <2>3. next'[a] \in 1..Len(log[a]) + 1 /\ committed[a] \in 1..next'[a]
    BY <1>1, <2>1, <2>2 DEF PlaceType
  <2> QED
    BY <1>1, <2>1, <2>2, <2>3 DEF PlaceType
<1>4. ASSUME NEW a \in Assets, Commit(a) PROVE PlaceType'
  <2>1. /\ log' = log /\ next' = next /\ UNCHANGED histories
        /\ committed' = [committed EXCEPT ![a] = next[a]]
    BY <1>4 DEF Commit
  <2>2. ASSUME NEW b \in Assets PROVE committed'[b] \in {committed[b], next[b]}
    BY <1>1, <2>1 DEF PlaceType
  <2> QED
    BY <1>1, <2>1, <2>2 DEF PlaceType, histories
<1>5. CASE Crash
  <2>1. /\ log' = log /\ next' = committed /\ committed' = committed
        /\ UNCHANGED histories
    BY <1>5 DEF Crash
  <2>2. \A a \in Assets : committed[a] \in 1..Len(log[a]) + 1
                          /\ committed[a] \in 1..committed[a]
    BY <1>1 DEF PlaceType
  <2> QED
    BY <1>1, <2>1, <2>2 DEF PlaceType, histories
<1>6. CASE UNCHANGED <<topic, histories>>
  BY <1>1, <1>6 DEF PlaceType, topic, histories
<1> QED
  BY <1>2, <1>3, <1>4, <1>5, <1>6
  DEF Next, vars, topic, StalenessSweep, PruneLifecycle, Tick

\* Whatever is read, swept and pruned, the columns of a row and the positions
\* of the worker keep their type, and a restart only goes back.
THEOREM TypeCorrect == Spec => []TypeOK
<1>1. Init => TypeOK
  <2> SUFFICES ASSUME Init PROVE TypeOK
    OBVIOUS
  <2>1. log \in [Assets -> Seq(Record)]
    BY LifecycleAssumption DEF Init
  <2>2. \A a \in Assets : Len(log[a]) \in Nat
    BY <2>1
  <2>3. StoreType
    BY <2>1, LifecycleAssumption DEF Init, StoreType, Time
  <2>4. PlaceType
    BY <2>2 DEF Init, PlaceType
  <2> QED
    BY <2>3, <2>4 DEF TypeOK
<1>2. TypeOK /\ [Next]_vars => TypeOK'
  BY StoreTypeStep, PlaceTypeStep DEF TypeOK
<1> QED
  BY <1>1, <1>2, PTL DEF Spec

-----------------------------------------------------------------------------
(* Who moves a row.                                                         *)

\* A row that goes was prunable, and any row that changes otherwise was
\* written by a record or only marked as not reporting.
LEMMA RowMove ==
    ASSUME TypeOK, [Next]_vars, NEW a \in Assets
    PROVE  \/ rows'[a] = rows[a]
           \/ /\ rows[a] # None
              /\ rows'[a] = [rows[a] EXCEPT !.reporting = "not_reporting"]
           \/ Prunable(a) /\ rows'[a] = None /\ a \in pruned'
           \/ /\ Persist(a)
              /\ \E k \in 1..Len(log[a]) :
                    /\ k = next'[a] - 1 /\ k \in applied'[a]
                    /\ log[a][k] \in Record
                    /\ rows'[a] = RowAfter(log[a][k], rows[a])
<1>1. rows \in [Assets -> Row \cup {None}] /\ PlaceType
  BY DEF TypeOK, StoreType
<1>2. CASE Persist(a)
  <2>1. PICK k \in 1..Len(log[a]) :
          /\ k \in Nat /\ log[a][k] \in Record
          /\ next' = [next EXCEPT ![a] = k + 1]
          /\ WriteOrSkip(a, k)
    BY <1>2, PersistedRecord
  <2>2. CASE rows' = rows
    BY <2>2
  <2>3. CASE /\ rows' = [rows EXCEPT ![a] = RowAfter(log[a][k], @)]
             /\ applied' = [applied EXCEPT ![a] = @ \cup {k}]
    <3>1. /\ next'[a] = k + 1 /\ k \in applied'[a]
          /\ rows'[a] = RowAfter(log[a][k], rows[a])
      BY <1>1, <2>1, <2>3 DEF PlaceType
    <3> QED
      BY <1>2, <2>1, <3>1
  <2> QED
    BY <2>1, <2>2, <2>3 DEF WriteOrSkip
<1>3. ASSUME NEW b \in Assets, b # a, Persist(b) PROVE rows'[a] = rows[a]
  BY <1>1, <1>3 DEF Persist, WriteOrSkip
<1>4. CASE StalenessSweep
  BY <1>1, <1>4 DEF StalenessSweep, IsStale
<1>5. CASE PruneLifecycle
  BY <1>1, <1>5 DEF PruneLifecycle
<1>6. CASE UNCHANGED rows
  BY <1>6
<1> QED
  BY <1>2, <1>3, <1>4, <1>5, <1>6 DEF Next, vars, PollOver, Commit, Crash, Tick

\* Once destroyed or removed, an asset's row changes its status only by a
\* record that itself claims the new one: no appearance, sweep, replay or batch
\* brings it back, for any topic and batch size.
THEOREM GoneMovesByClaim == Spec => OnlyClaimsMoveTheGone
<1>1. ASSUME TypeOK, [Next]_vars, NEW a \in Assets,
             rows[a] # None, rows[a].operational \in {"destroyed", "removed"},
             rows'[a] # None, rows'[a].operational # rows[a].operational
      PROVE  \E k \in applied'[a] :
                k = next'[a] - 1 /\ Claim(log[a][k]) = rows'[a].operational
  <2>1. rows[a] \in Row
    BY <1>1 DEF TypeOK, StoreType
  <2>2. ASSUME rows'[a] = [rows[a] EXCEPT !.reporting = "not_reporting"]
        PROVE  rows'[a].operational = rows[a].operational
    BY <2>1, <2>2 DEF Row
  <2>3. PICK k \in 1..Len(log[a]) :
          /\ k = next'[a] - 1 /\ k \in applied'[a]
          /\ log[a][k] \in Record
          /\ rows'[a] = RowAfter(log[a][k], rows[a])
    BY <1>1, <2>2, RowMove
  <2>4. rows'[a] = Updated(log[a][k], rows[a])
    BY <1>1, <2>3 DEF RowAfter
  <2>5. rows[a].operational # "deactivated"
    BY <1>1
  <2>6. Claim(log[a][k]) # None
    BY <1>1, <2>1, <2>3, <2>4, <2>5, UpdatedStatus
  <2> QED
    BY <2>1, <2>3, <2>4, <2>6, UpdatedStatus
<1>2. TypeOK /\ [Next]_vars =>
        [\A a \in Assets :
            /\ rows[a] # None /\ rows[a].operational \in {"destroyed", "removed"}
            /\ rows'[a] # None /\ rows'[a].operational # rows[a].operational
            => \E k \in applied'[a] :
                  /\ k = next'[a] - 1
                  /\ Claim(log[a][k]) = rows'[a].operational]_vars
  BY <1>1
<1> QED
  BY <1>2, TypeCorrect, PTL DEF Spec, OnlyClaimsMoveTheGone

\* A row in a terminal status was put there by a record that claimed one.
ClaimedTerminal ==
    \A a \in Assets : IsTerminal(a) =>
        \E k \in applied[a] : Claim(log[a][k]) \in Terminal

\* The topics stay as they are, and what was written was written.
LEMMA AppliedGrows ==
    ASSUME TypeOK, [Next]_vars
    PROVE  log' = log /\ \A a \in Assets : applied[a] \subseteq applied'[a]
<1>1. ASSUME NEW a \in Assets, Persist(a)
      PROVE  log' = log /\ \A b \in Assets : applied[b] \subseteq applied'[b]
  <2>1. PICK k : applied' \in {applied, [applied EXCEPT ![a] = @ \cup {k}]}
    BY <1>1, PersistedRecord DEF WriteOrSkip
  <2>2. log' = log
    BY <1>1 DEF Persist
  <2>3. \A b \in Assets : applied[b] \subseteq applied'[b]
    BY <2>1 DEF TypeOK, PlaceType
  <2> QED
    BY <2>2, <2>3
<1> QED
  BY <1>1 DEF Next, vars, topic, histories, PollOver, Commit, Crash,
              StalenessSweep, PruneLifecycle, Tick

LEMMA ClaimedStep ==
    ASSUME TypeOK, ClaimedTerminal, [Next]_vars PROVE ClaimedTerminal'
<1> SUFFICES ASSUME NEW a \in Assets, IsTerminal(a)'
             PROVE  \E k \in applied'[a] : Claim(log'[a][k]) \in Terminal
  BY DEF ClaimedTerminal
<1>1. log' = log /\ applied[a] \subseteq applied'[a]
  BY AppliedGrows
<1>2. rows[a] \in Row \cup {None} /\ rows'[a] # None
      /\ rows'[a].operational \in Terminal
  BY DEF TypeOK, StoreType, IsTerminal
<1>3. CASE IsTerminal(a)
  BY <1>1, <1>3 DEF ClaimedTerminal
<1>4. CASE ~IsTerminal(a)
  <2>1. ASSUME rows[a] # None,
               rows'[a] = [rows[a] EXCEPT !.reporting = "not_reporting"]
        PROVE  rows'[a].operational = rows[a].operational
    BY <1>2, <2>1 DEF Row
  <2>2. PICK k \in 1..Len(log[a]) :
          /\ k \in applied'[a] /\ log[a][k] \in Record
          /\ rows'[a] = RowAfter(log[a][k], rows[a])
    BY <1>2, <1>4, <2>1, RowMove DEF IsTerminal
  <2>3. ASSUME Claim(log[a][k]) = None PROVE FALSE
    <3>1. CASE rows[a] = None
      <4>1. Inserted(log[a][k]).operational = "operational"
        BY <2>3 DEF Inserted
      <4> QED
        BY <1>2, <2>2, <3>1, <4>1 DEF RowAfter, Terminal
    <3>2. CASE rows[a] # None
      <4>1. rows[a] \in Row /\ rows[a].operational = "operational"
        BY <1>2, <1>4, <3>2 DEF IsTerminal, Row, Status
      <4>2. rows'[a] = Updated(log[a][k], rows[a])
        BY <2>2, <3>2 DEF RowAfter
      <4>3. rows'[a].operational = rows[a].operational
        BY <2>2, <2>3, <4>1, <4>2, UpdatedStatus
      <4> QED
        BY <1>2, <4>1, <4>3 DEF Terminal
    <3> QED
      BY <3>1, <3>2
  <2> QED
    BY <1>1, <2>2, <2>3, ClaimType
<1> QED
  BY <1>3, <1>4

\* Silence withdraws nobody: a row goes only after a record that was written
\* claimed the asset gone, whatever TTL, clock and sweep.
THEOREM GoesOnlyClaimed == Spec => GoneByClaim
<1>1. Init => ClaimedTerminal
  BY DEF Init, ClaimedTerminal, IsTerminal
<1>2. TypeOK /\ ClaimedTerminal /\ [Next]_vars => ClaimedTerminal'
  BY ClaimedStep
<1>3. ASSUME TypeOK, ClaimedTerminal, [Next]_vars, NEW a \in Assets,
             rows[a] # None, rows'[a] = None
      PROVE  \E k \in applied[a] : Claim(log[a][k]) \in Terminal
  <2>1. rows[a] \in Row
    BY <1>3 DEF TypeOK, StoreType
  <2>2. [rows[a] EXCEPT !.reporting = "not_reporting"] \in Row
    BY <2>1 DEF Row, Reporting
  <2>3. ASSUME NEW r \in Record, rows'[a] = RowAfter(r, rows[a]) PROVE FALSE
    <3>1. RowAfter(r, rows[a]) \in Row
      BY <1>3, <2>1, <2>3, WrittenRow DEF RowAfter, TypeOK, StoreType
    <3> QED
      BY <1>3, <2>3, <3>1, LifecycleAssumption
  <2>4. Prunable(a)
    BY <1>3, <2>2, <2>3, RowMove, LifecycleAssumption
  <2> QED
    BY <1>3, <2>4 DEF ClaimedTerminal, Prunable
<1>4. TypeOK /\ ClaimedTerminal /\ [Next]_vars =>
        [\A a \in Assets : rows[a] # None /\ rows'[a] = None =>
            \E k \in applied[a] : Claim(log[a][k]) \in Terminal]_vars
  BY <1>3
<1> QED
  BY <1>1, <1>2, <1>4, TypeCorrect, PTL DEF Spec, GoneByClaim

-----------------------------------------------------------------------------
(* The last claim that is written lands.                                    *)

\* An asset of which a creating record was written has a row until it is pruned.
RowThere ==
    \A a \in Assets : a \notin pruned =>
        \A m \in applied[a] : Creates(log[a][m]) => rows[a] # None

\* The last claim of a topic holds from where it was written on, also when the
\* worker has gone back to somewhere behind it.
Landed(a, k) ==
    /\ LastClaim(a, k) /\ k \in Written(a)
    /\ k < next[a] /\ rows[a] # None /\ a \notin pruned
    => rows[a].operational = Claim(log[a][k])

LandInv == RowThere /\ \A a \in Assets : \A k \in 1..Len(log[a]) : Landed(a, k)

LEMMA RowThereStep ==
    ASSUME TypeOK, RowThere, [Next]_vars PROVE RowThere'
<1> SUFFICES ASSUME NEW a \in Assets, a \notin pruned', NEW m \in applied'[a],
                    Creates(log'[a][m])
             PROVE  rows'[a] # None
  BY DEF RowThere
<1>1. /\ log' = log /\ applied \in [Assets -> SUBSET Nat]
      /\ rows[a] \in Row \cup {None} /\ None \notin Row
      /\ pruned \subseteq pruned'
  BY AppliedGrows, LifecycleAssumption
  DEF TypeOK, StoreType, PlaceType, Next, vars, topic, Persist, PollOver, Commit,
      Crash, StalenessSweep, PruneLifecycle, Tick
<1>2. ASSUME rows[a] # None PROVE rows'[a] # None
  <2>1. [rows[a] EXCEPT !.reporting = "not_reporting"] \in Row
    BY <1>1, <1>2 DEF Row, Reporting
  <2>2. ASSUME NEW r \in Record, rows'[a] = RowAfter(r, rows[a]) PROVE rows'[a] # None
    BY <1>1, <1>2, <2>2, WrittenRow DEF RowAfter, TypeOK, StoreType
  <2> QED
    BY <1>1, <1>2, <2>1, <2>2, RowMove
<1>3. CASE m \in applied[a]
  BY <1>1, <1>2, <1>3 DEF RowThere
<1>4. CASE m \notin applied[a]
  <2>1. PICK b \in Assets : Persist(b)
    BY <1>1, <1>4 DEF Next, vars, topic, histories, PollOver, Commit, Crash,
                      StalenessSweep, PruneLifecycle, Tick
  <2>2. PICK k \in 1..Len(log[b]) :
          /\ k \in Nat /\ log[b][k] \in Record
          /\ WriteOrSkip(b, k)
    BY <2>1, PersistedRecord
  <2>3. /\ rows' = [rows EXCEPT ![b] = RowAfter(log[b][k], @)]
        /\ applied' = [applied EXCEPT ![b] = @ \cup {k}]
    BY <1>4, <2>2 DEF WriteOrSkip
  <2>4. a = b /\ m = k
    BY <1>1, <1>4, <2>3
  <2>5. rows'[a] = RowAfter(log[a][m], rows[a])
    BY <2>3, <2>4 DEF TypeOK, StoreType
  <2>6. Inserted(log[a][m]) \in Row
    BY <1>1, <2>2, <2>4, WrittenRow DEF TypeOK, StoreType
  <2> QED
    BY <1>1, <1>2, <2>5, <2>6 DEF RowAfter, Creates
<1> QED
  BY <1>3, <1>4

\* A step that hands the worker nothing of a leaves a's histories alone, and its
\* position does not go forward.
LEMMA OthersKeep ==
    ASSUME TypeOK, [Next]_vars, NEW a \in Assets, ~Persist(a), ~PollOver(a)
    PROVE  /\ applied'[a] = applied[a] /\ coalesced'[a] = coalesced[a]
           /\ lost'[a] = lost[a] /\ next'[a] \in {next[a], committed[a]}
<1>1. PlaceType
  BY DEF TypeOK
<1>2. ASSUME NEW b \in Assets, b # a, Persist(b)
      PROVE  /\ applied'[a] = applied[a] /\ coalesced'[a] = coalesced[a]
             /\ lost'[a] = lost[a] /\ next'[a] = next[a]
  <2>1. PICK j : /\ next' = [next EXCEPT ![b] = j + 1]
                 /\ coalesced' = [coalesced EXCEPT ![b] = (@ \cup (next[b]..j)) \ {j}]
                 /\ WriteOrSkip(b, j)
    BY <1>2, PersistedRecord
  <2> QED
    BY <1>1, <1>2, <2>1 DEF WriteOrSkip, PlaceType
<1>3. ASSUME NEW b \in Assets, b # a, PollOver(b)
      PROVE  /\ applied'[a] = applied[a] /\ coalesced'[a] = coalesced[a]
             /\ lost'[a] = lost[a] /\ next'[a] = next[a]
  BY <1>1, <1>3 DEF PollOver, PlaceType
<1>4. CASE Crash
  BY <1>4 DEF Crash, histories
<1>5. CASE UNCHANGED <<next, histories>>
  BY <1>5 DEF histories
<1> QED
  BY <1>2, <1>3, <1>4, <1>5
  DEF Next, vars, topic, Commit, StalenessSweep, PruneLifecycle, Tick

\* What was written when last delivered was so before, unless it is this step's.
LEMMA LandedStep ==
    ASSUME TypeOK, LandInv, [Next]_vars,
           NEW a \in Assets, NEW k \in 1..Len(log[a])
    PROVE  Landed(a, k)'
<1> SUFFICES ASSUME Claim(log[a][k]) \in {"destroyed", "removed"},
                    \A m \in (k+1)..Len(log[a]) : Claim(log[a][m]) = None,
                    k \in applied'[a], k \notin coalesced'[a], k \notin lost'[a],
                    k < next'[a], rows'[a] # None, a \notin pruned',
                    NEW m \in applied'[a], m <= k, Creates(log[a][m])
             PROVE  rows'[a].operational = Claim(log[a][k])
  BY AppliedGrows DEF Landed, LastClaim, Written
<1>1. /\ log[a] \in Seq(Record) /\ k \in Nat
      /\ rows[a] \in Row \cup {None} /\ None \notin Row
      /\ PlaceType /\ next[a] \in Nat /\ Len(log[a]) \in Nat
      /\ Landed(a, k) /\ RowThere
      /\ a \notin pruned
  <2>1. pruned \subseteq pruned'
    BY DEF Next, vars, topic, Persist, PollOver, Commit, Crash, StalenessSweep,
           PruneLifecycle, Tick
  <2>2. PlaceType /\ Landed(a, k) /\ RowThere /\ log[a] \in Seq(Record)
    BY DEF TypeOK, StoreType, LandInv
  <2>3. next[a] \in Nat
    BY <2>2 DEF PlaceType
  <2>4. rows[a] \in Row \cup {None} /\ None \notin Row
    BY LifecycleAssumption DEF TypeOK, StoreType
  <2> QED
    BY <2>1, <2>2, <2>3, <2>4
<1>2. ASSUME k < next[a], k \in applied[a], m \in applied[a],
             k \notin coalesced[a], k \notin lost[a]
      PROVE  rows[a] # None /\ rows[a].operational = Claim(log[a][k])
  <2>1. rows[a] # None
    BY <1>1, <1>2 DEF RowThere
  <2>2. LastClaim(a, k) /\ k \in Written(a)
    BY <1>2 DEF LastClaim, Written
  <2> QED
    BY <1>1, <1>2, <2>1, <2>2 DEF Landed
<1>3. CASE ~Persist(a) /\ ~PollOver(a)
  <2>0. committed[a] \in 1..next[a]
    BY <1>1 DEF PlaceType
  <2>1. /\ applied'[a] = applied[a] /\ coalesced'[a] = coalesced[a]
        /\ lost'[a] = lost[a] /\ next'[a] \in {next[a], committed[a]}
    BY <1>3, OthersKeep
  <2>2. next'[a] \in Nat
    BY PlaceTypeStep DEF PlaceType
  <2>3. rows[a] # None /\ rows[a].operational = Claim(log[a][k])
    <3>1. k < next[a]
      BY <1>1, <2>0, <2>1, <2>2
    <3> QED
      BY <1>2, <2>1, <3>1
  <2>4. [rows[a] EXCEPT !.reporting = "not_reporting"].operational = rows[a].operational
    BY <1>1, <2>3 DEF Row
  <2> QED
    BY <1>3, <2>3, <2>4, RowMove
<1>4. CASE PollOver(a)
  <2>1. /\ next'[a] = next[a] + 1 /\ applied' = applied /\ rows' = rows
        /\ coalesced'[a] = coalesced[a] \ {next[a]}
        /\ lost'[a] = lost[a] \cup {next[a]}
    BY <1>1, <1>4 DEF PollOver, PlaceType
  <2>2. k < next[a] /\ k \notin coalesced[a] /\ k \notin lost[a]
    BY <1>1, <2>1
  <2> QED
    BY <1>2, <2>1, <2>2
<1>5. CASE Persist(a)
  <2>1. PICK j \in 1..Len(log[a]) :
          /\ j \in Nat /\ j >= next[a]
          /\ log[a][j] \in Record
          /\ next' = [next EXCEPT ![a] = j + 1]
          /\ coalesced' = [coalesced EXCEPT ![a] = (@ \cup (next[a]..j)) \ {j}]
          /\ WriteOrSkip(a, j)
    BY <1>5, PersistedRecord
  <2>2. next'[a] = j + 1 /\ coalesced'[a] = (coalesced[a] \cup (next[a]..j)) \ {j}
    BY <1>1, <2>1 DEF PlaceType
  <2>3. /\ lost[a] \ (next[a]..j) \subseteq lost'[a]
        /\ \/ /\ rows' = [rows EXCEPT ![a] = RowAfter(log[a][j], @)]
              /\ applied' = [applied EXCEPT ![a] = @ \cup {j}]
           \/ /\ rows' = rows /\ applied' = applied
              /\ j \in lost'[a]
    BY <2>1, WrittenOrNot
  <2>4. k = j \/ k < next[a]
    BY <1>1, <2>1, <2>2
  <2>5. CASE k = j
    <3>1. rows'[a] = RowAfter(log[a][k], rows[a])
      BY <2>3, <2>5 DEF TypeOK, StoreType
    <3>2. Claim(log[a][k]) # None
      BY LifecycleAssumption DEF Status, Terminal
    <3>3. CASE rows[a] # None
      <4>1. rows'[a] = Updated(log[a][k], rows[a])
        BY <3>1, <3>3 DEF RowAfter
      <4> QED
        BY <1>1, <2>1, <2>5, <3>2, <3>3, <4>1, UpdatedStatus
    <3>4. CASE rows[a] = None
      <4>1. rows'[a] = Inserted(log[a][k])
        BY <3>1, <3>4 DEF RowAfter
      <4> QED
        BY <2>1, <2>5, <3>2, <4>1, InsertedStatus
    <3> QED
      BY <3>3, <3>4
  <2>6. CASE k < next[a]
    <3>1. k # j /\ k \notin next[a]..j /\ m # j
      BY <1>1, <2>1, <2>6
    <3>2. k \in applied[a] /\ m \in applied[a]
      BY <1>1, <2>3, <3>1 DEF PlaceType
    <3>3. k \notin coalesced[a] /\ k \notin lost[a]
      BY <2>2, <2>3, <3>1
    <3>4. rows[a] # None /\ rows[a].operational = Claim(log[a][k])
      BY <1>2, <2>6, <3>2, <3>3
    <3>5. CASE rows' = rows
      BY <3>4, <3>5
    <3>6. CASE rows' = [rows EXCEPT ![a] = RowAfter(log[a][j], @)]
      <4>1. Claim(log[a][j]) = None /\ rows[a].operational # "deactivated"
        BY <1>1, <2>1, <2>6, <3>1, <3>4
      <4>2. rows'[a] = RowAfter(log[a][j], rows[a])
        BY <3>6 DEF TypeOK, StoreType
      <4>3. rows'[a] = Updated(log[a][j], rows[a])
        BY <3>4, <4>2 DEF RowAfter
      <4> QED
        BY <1>1, <2>1, <3>4, <4>1, <4>3, UpdatedStatus
    <3> QED
      BY <2>3, <3>5, <3>6
  <2> QED
    BY <2>4, <2>5, <2>6
<1> QED
  BY <1>3, <1>4, <1>5

\* For batches of any size, a last claim of destroyed or removed that was written
\* when it was last delivered lands and stays: whatever later records without a
\* claim, redelivery from any committed offset, losses of other records and
\* sweeps do, unless the row was pruned in between.  That a later sample of the
\* batch keeps it from being written is LastValueSuffices (LifecycleCoalesced).
THEOREM LastClaimStands == Spec => []LastClaimLands
<1>1. Init => LandInv
  <2> SUFFICES ASSUME Init PROVE LandInv
    OBVIOUS
  <2>1. \A a \in Assets : rows[a] = None /\ applied[a] = {}
    BY DEF Init
  <2> QED
    BY <2>1 DEF LandInv, RowThere, Landed
<1>2. TypeOK /\ LandInv /\ [Next]_vars => LandInv'
  <2> SUFFICES ASSUME TypeOK, LandInv, [Next]_vars PROVE LandInv'
    OBVIOUS
  <2>1. log' = log /\ RowThere'
    BY AppliedGrows, RowThereStep DEF LandInv
  <2>2. \A a \in Assets : \A k \in 1..Len(log[a]) : Landed(a, k)'
    BY LandedStep
  <2> QED
    BY <2>1, <2>2 DEF LandInv
<1>3. ASSUME TypeOK, LandInv PROVE LastClaimLands
  <2>1. \A a \in Assets : Len(log[a]) \in Nat
    BY <1>3 DEF TypeOK, StoreType
  <2>2. \A a \in Assets : \A k \in 1..Len(log[a]) :
          next[a] = Len(log[a]) + 1 => k < next[a]
    BY <2>1
  <2> QED
    BY <1>3, <2>2 DEF LandInv, Landed, LastClaimLands, ReadOut
<1>4. TypeOK /\ LandInv => LastClaimLands
  BY <1>3
<1> QED
  BY <1>1, <1>2, <1>4, TypeCorrect, PTL DEF Spec

-----------------------------------------------------------------------------
(* The last record, whatever it claims and however its row came about.      *)

\* An asset whose topic has been read to its end shows the claim of the last
\* record, if that makes one, was not lost, and the row is there.
LastRecordShown ==
    \A a \in Assets :
       /\ Len(log[a]) > 0 /\ next[a] = Len(log[a]) + 1 /\ rows[a] # None
       /\ Claim(log[a][Len(log[a])]) # None
       /\ Len(log[a]) \notin lost[a]
       => rows[a].operational = Claim(log[a][Len(log[a])])

\* The drain may stop anywhere, but the last record is the last of its batch or
\* polled past it; and a restart that finds all of the topic committed finds the
\* row of the batch that was.
LEMMA LastRecordStep ==
    ASSUME TypeOK, LastRecordShown, [Next]_vars PROVE LastRecordShown'
<1> SUFFICES ASSUME NEW a \in Assets, Len(log'[a]) > 0,
                    next'[a] = Len(log'[a]) + 1, rows'[a] # None,
                    Claim(log'[a][Len(log'[a])]) # None,
                    Len(log'[a]) \notin lost'[a]
             PROVE  rows'[a].operational = Claim(log'[a][Len(log'[a])])
  BY DEF LastRecordShown, Claim
<1>1. /\ log' = log /\ log[a] \in Seq(Record) /\ Len(log[a]) \in Nat
      /\ rows[a] \in Row \cup {None} /\ None \notin Row
  BY AppliedGrows, LifecycleAssumption DEF TypeOK, StoreType
<1>2. /\ next[a] \in 1..Len(log[a]) + 1 /\ committed[a] \in 1..next[a]
      /\ next \in [Assets -> Nat] /\ PlaceType
  BY DEF TypeOK, PlaceType
<1>3. CASE Persist(a)
  <2>1. PICK j \in 1..Len(log[a]) :
          /\ j \in Nat /\ log[a][j] \in Record
          /\ next' = [next EXCEPT ![a] = j + 1]
          /\ WriteOrSkip(a, j)
    BY <1>3, PersistedRecord
  <2>2. next'[a] = j + 1
    BY <1>2, <2>1
  <2>3. j = Len(log[a])
    BY <1>1, <2>1, <2>2
  <2>4. rows' = [rows EXCEPT ![a] = RowAfter(log[a][j], @)]
    BY <1>1, <2>1, <2>3, WrittenOrNot
  <2>5. rows'[a] = RowAfter(log[a][j], rows[a])
    BY <2>4 DEF TypeOK, StoreType
  <2>6. Claim(log[a][j]) # None
    BY <1>1, <2>3
  <2>7. CASE rows[a] # None
    <3>1. rows'[a] = Updated(log[a][j], rows[a])
      BY <2>5, <2>7 DEF RowAfter
    <3> QED
      BY <1>1, <2>1, <2>3, <2>6, <2>7, <3>1, UpdatedStatus
  <2>8. CASE rows[a] = None
    <3>1. rows'[a] = Inserted(log[a][j])
      BY <2>5, <2>8 DEF RowAfter
    <3> QED
      BY <1>1, <2>1, <2>3, <2>6, <3>1, InsertedStatus
  <2> QED
    BY <2>7, <2>8
<1>4. ASSUME PollOver(a) PROVE FALSE
  <2>1. next'[a] = next[a] + 1 /\ next[a] \in lost'[a]
    BY <1>2, <1>4 DEF PollOver, PlaceType
  <2> QED
    BY <1>1, <1>2, <2>1
<1>5. CASE ~Persist(a) /\ ~PollOver(a)
  <2>1. lost'[a] = lost[a] /\ next'[a] \in {next[a], committed[a]}
    BY <1>5, OthersKeep
  <2>2. next[a] = Len(log[a]) + 1
    BY <1>1, <1>2, <2>1
  <2>3. rows[a] # None
    BY <1>1, <1>5, RowMove
  <2>4. rows[a].operational = Claim(log[a][Len(log[a])])
    BY <1>1, <2>1, <2>2, <2>3 DEF LastRecordShown
  <2>5. [rows[a] EXCEPT !.reporting = "not_reporting"].operational = rows[a].operational
    BY <1>1, <2>3 DEF Row
  <2> QED
    BY <1>1, <1>5, <2>3, <2>4, <2>5, RowMove
<1> QED
  BY <1>3, <1>4, <1>5

\* A later record of the batch may replace an earlier claim (LifecycleCoalesced),
\* but nothing replaces the last record's: unless it was itself polled past a full
\* batch or skipped, an asset whose topic is read and who has a row shows it,
\* through redelivery, sweeps, and a prune with what came after.
THEOREM LastRecordLands == Spec => []LastRecordShown
<1>1. Init => LastRecordShown
  BY DEF Init, LastRecordShown
<1>2. TypeOK /\ LastRecordShown /\ [Next]_vars => LastRecordShown'
  BY LastRecordStep
<1> QED
  BY <1>1, <1>2, TypeCorrect, PTL DEF Spec
=============================================================================
