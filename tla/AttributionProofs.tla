---------------------------- MODULE AttributionProofs ----------------------------
(***************************************************************************)
(* Whose row it is, for any configurations, any topic and any sequence of  *)
(* batches, crashes, new starts and prunes.                                *)
(***************************************************************************)
EXTENDS Attribution, TLAPS, SequenceTheorems, WellFoundedInduction

-----------------------------------------------------------------------------
(* edge_assignment.py                                                       *)

LEMMA LeastNumber ==
    ASSUME NEW S \in SUBSET Nat, S # {}
    PROVE  \E x \in S : \A y \in S : x <= y
<1>1. PICK x \in S : \A y \in S : ~(<<y, x>> \in OpToRel(<, Nat))
  BY WFMin, NatLessThanWellFounded, Zenon
<1>2. \A y \in S : ~(y < x)
  BY <1>1, Zenon DEF OpToRel
<1> QED
  BY <1>2

\* There is a nearest FOB, and a first of several.
LEMMA NearestFobIs ==
    ASSUME NEW fobs \in Seq(Fob), fobs # <<>>, NEW at \in Places
    PROVE  NearestFob(fobs, at) \in DOMAIN fobs
<1>1. DOMAIN fobs = 1..Len(fobs) /\ Len(fobs) \in Nat /\ Len(fobs) # 0
  <2>1. DOMAIN fobs = 1..Len(fobs) /\ Len(fobs) \in Nat
    BY LenProperties
  <2>2. Len(fobs) # 0
    BY EmptySeq
  <2> QED
    BY <2>1, <2>2
<1> DEFINE far == [i \in DOMAIN fobs |-> Distance(at, fobs[i].at)]
<1>2. far \in [DOMAIN fobs -> Nat]
  <2>1. ASSUME NEW i \in DOMAIN fobs
        PROVE  Distance(at, fobs[i].at) \in Nat
    <3>1. fobs[i] \in Fob
      BY <1>1, ElementOfSeq
    <3>2. fobs[i].at \in Int /\ at \in Int
      BY <3>1, AttributionAssumption DEF Fob
    <3> QED
      BY <3>2 DEF Distance
  <2> QED
    BY <2>1
<1>3. \A i \in DOMAIN fobs : far[i] = Distance(at, fobs[i].at)
  OBVIOUS
<1> HIDE DEF far
<1> DEFINE dists == {far[i] : i \in DOMAIN fobs}
<1>4. dists \in SUBSET Nat /\ dists # {}
  BY <1>1, <1>2
<1>5. PICK d \in dists : \A e \in dists : d <= e
  <2> HIDE DEF dists
  <2> QED
    BY <1>4, LeastNumber
<1> DEFINE nearest == {i \in DOMAIN fobs : far[i] = d}
<1>6. nearest \in SUBSET Nat /\ nearest # {}
  BY <1>1, <1>5
<1>7. PICK i \in nearest : \A j \in nearest : i <= j
  <2> HIDE DEF nearest
  <2> QED
    BY <1>6, LeastNumber
<1>8. ASSUME NEW j \in DOMAIN fobs
      PROVE  far[i] < far[j] \/ (far[i] = far[j] /\ i <= j)
  <2>1. far[i] = d /\ d <= far[j] /\ d \in Nat /\ far[j] \in Nat
    BY <1>2, <1>4, <1>5, <1>7
  <2>2. CASE far[j] = d
    BY <1>7, <2>1, <2>2
  <2>3. CASE far[j] # d
    BY <2>1, <2>3
  <2> QED
    BY <2>2, <2>3
<1>9. i \in DOMAIN fobs
  BY <1>7
<1>10. \A j \in DOMAIN fobs :
          \/ Distance(at, fobs[i].at) < Distance(at, fobs[j].at)
          \/ Distance(at, fobs[i].at) = Distance(at, fobs[j].at) /\ i <= j
  BY <1>3, <1>8, <1>9
<1> QED
  BY <1>9, <1>10 DEF NearestFob

\* A message is derived an origin for with its position, or with none.
Positions == Places \cup {None}

\* A strategy that can be built answers with an origin of its own, or not.
LEMMA AnswerIsHome ==
    ASSUME NEW member \in Strategy, member.strategy \in {"nearest_fob", "static"},
           NEW asset, NEW at \in Positions, Answer(member, asset, at) # None
    PROVE  /\ Answer(member, asset, at) \in Origins
           /\ \/ /\ member.strategy = "static" /\ asset \in DOMAIN member.map
                 /\ Answer(member, asset, at) = member.map[asset]
              \/ /\ member.strategy = "nearest_fob"
                 /\ \E j \in DOMAIN member.fobs :
                       Answer(member, asset, at) = Place(member.fobs[j])
<1>1. CASE member.strategy = "static"
  <2>1. member \in [strategy : {"static"}, map : UNION {[A -> Origins] : A \in SUBSET Assets}]
    BY <1>1 DEF Strategy
  <2>2. /\ asset \in DOMAIN member.map
        /\ Answer(member, asset, at) = member.map[asset]
    BY <1>1 DEF Answer
  <2>3. PICK A \in SUBSET Assets : member.map \in [A -> Origins]
    BY <2>1
  <2> QED
    BY <1>1, <2>2, <2>3
<1>2. CASE member.strategy = "nearest_fob"
  <2>1. member \in [strategy : {"nearest_fob"}, fobs : Seq(Fob)]
    BY <1>2 DEF Strategy
  <2>2. /\ at # None /\ member.fobs # <<>>
        /\ Answer(member, asset, at) = Place(member.fobs[NearestFob(member.fobs, at)])
    BY <1>2 DEF Answer
  <2>3. NearestFob(member.fobs, at) \in DOMAIN member.fobs
    BY <2>1, <2>2, NearestFobIs DEF Positions
  <2>4. member.fobs[NearestFob(member.fobs, at)] \in Fob
    BY <2>1, <2>3, ElementOfSeq, LenProperties
  <2> QED
    BY <1>2, <2>2, <2>3, <2>4 DEF Place, Fob, Origins
<1> QED
  BY <1>1, <1>2

\* The member that decides is the first that has an answer.
LEMMA FirstDecides ==
    ASSUME config \in Configs, NEW asset, NEW at, Deciding(asset, at) # {}
    PROVE  /\ Min(Deciding(asset, at)) \in Deciding(asset, at)
           /\ \A j \in Deciding(asset, at) : Min(Deciding(asset, at)) <= j
<1>1. Deciding(asset, at) \in SUBSET Nat
  BY AttributionAssumption, LenProperties DEF Deciding
<1> QED
  BY <1>1, LeastNumber DEF Min

\* What the chain resolves is a place of the running configuration.
LEMMA ResolvedHome ==
    ASSUME ProcessType, NEW asset, NEW at \in Positions
    PROVE  Resolve(asset, at) \in Origins /\ Resolve(asset, at) \in ConfiguredHomes(config)
<1>1. /\ config \in Configs /\ config.chain \in Seq(Strategy)
      /\ config.fallback \in Origins
  BY AttributionAssumption DEF ProcessType
<1>2. CASE Deciding(asset, at) = {}
  BY <1>1, <1>2 DEF Resolve, ConfiguredHomes
<1>3. CASE Deciding(asset, at) # {}
  <2> DEFINE i == Min(Deciding(asset, at))
  <2>1. i \in DOMAIN config.chain /\ Answer(config.chain[i], asset, at) # None
    BY <1>1, <1>3, FirstDecides DEF Deciding
  <2>2. Resolve(asset, at) = Answer(config.chain[i], asset, at)
    BY <1>3 DEF Resolve
  <2> HIDE DEF i
  <2>3. /\ config.chain[i] \in Strategy
        /\ config.chain[i].strategy \in {"nearest_fob", "static"}
    BY <1>1, <2>1, ElementOfSeq, LenProperties DEF ProcessType, Buildable
  <2> DEFINE member == config.chain[i]
             home == Answer(member, asset, at)
  <2>4. /\ home \in Origins
        /\ \/ /\ member.strategy = "static" /\ asset \in DOMAIN member.map
              /\ home = member.map[asset]
           \/ /\ member.strategy = "nearest_fob"
              /\ \E j \in DOMAIN member.fobs : home = Place(member.fobs[j])
    BY <2>1, <2>3, AnswerIsHome
  <2>5. home \in ConfiguredHomes(config)
    <3>1. CASE member.strategy = "static" /\ asset \in DOMAIN member.map
                 /\ home = member.map[asset]
      <4>1. home \in {config.chain[i].map[a] : a \in DOMAIN config.chain[i].map}
        BY <3>1
      <4>2. i \in {c \in DOMAIN config.chain : config.chain[c].strategy = "static"}
        BY <2>1, <3>1
      <4> QED
        BY <4>1, <4>2 DEF ConfiguredHomes
    <3>2. CASE member.strategy = "nearest_fob"
                 /\ \E j \in DOMAIN member.fobs : home = Place(member.fobs[j])
      <4>1. home \in {Place(config.chain[i].fobs[j]) : j \in DOMAIN config.chain[i].fobs}
        BY <3>2
      <4>2. i \in {c \in DOMAIN config.chain : config.chain[c].strategy = "nearest_fob"}
        BY <2>1, <3>2
      <4> QED
        BY <4>1, <4>2 DEF ConfiguredHomes
    <3> QED
      BY <2>4, <3>1, <3>2
  <2> QED
    BY <2>2, <2>4, <2>5
<1> QED
  BY <1>2, <1>3

\* An asset the chain pins is resolved to its pin.
LEMMA ResolvedPin ==
    ASSUME ProcessType, NEW asset, NEW at, NEW h \in Origins, PinnedTo(config, asset, h)
    PROVE  Resolve(asset, at) = h
<1>1. config \in Configs /\ config.chain \in Seq(Strategy)
  BY AttributionAssumption DEF ProcessType
<1>2. PICK i \in DOMAIN config.chain :
         /\ config.chain[i].strategy = "static"
         /\ asset \in DOMAIN config.chain[i].map /\ config.chain[i].map[asset] = h
         /\ \A j \in 1 .. i - 1 : /\ config.chain[j].strategy = "static"
                                  /\ asset \notin DOMAIN config.chain[j].map
  BY DEF PinnedTo
<1>3. Answer(config.chain[i], asset, at) = h /\ h # None
  BY <1>2, AttributionAssumption DEF Answer
<1>4. \A j \in 1 .. i - 1 : Answer(config.chain[j], asset, at) = None
  BY <1>2 DEF Answer
<1>5. i \in Deciding(asset, at)
  BY <1>3 DEF Deciding
<1>6. /\ Min(Deciding(asset, at)) \in Deciding(asset, at)
      /\ Min(Deciding(asset, at)) <= i
  BY <1>1, <1>5, FirstDecides
<1>7. DOMAIN config.chain = 1..Len(config.chain) /\ Len(config.chain) \in Nat
  BY <1>1, LenProperties
<1>8. Min(Deciding(asset, at)) = i
  <2> DEFINE first == Min(Deciding(asset, at))
  <2>1. first \in 1..Len(config.chain) /\ Answer(config.chain[first], asset, at) # None
    BY <1>6, <1>7 DEF Deciding
  <2> HIDE DEF first
  <2>2. ~(first \in 1..i - 1)
    BY <1>4, <2>1
  <2>3. first <= i
    BY <1>6 DEF first
  <2>4. first = i
    BY <1>2, <1>7, <2>1, <2>2, <2>3
  <2> QED
    BY <2>4 DEF first
<1> QED
  BY <1>3, <1>5, <1>8 DEF Resolve

-----------------------------------------------------------------------------
(* handlers/base.py: what an upsert makes of a row.                         *)

OriginColumns == [edge : Edges \cup {None}, region : Regions \cup {None}]
Before(row) == IF row = None THEN NewRow ELSE row

\* Origin and label columns over a row.
LEMMA OverRow ==
    ASSUME NEW m \in Message, NEW origin \in OriginColumns, NEW row \in Row
    PROVE  Over(Over(Labels(m), origin), row) =
              [edge |-> origin.edge, region |-> origin.region,
               nation |-> IF m.nation = None THEN row.nation ELSE m.nation,
               releasable |-> IF m.nation = None THEN row.releasable ELSE m.releasable]
<1>1. CASE m.nation = None
  <2>1. Over(Labels(m), origin) = origin
    BY <1>1 DEF Labels, Over, OriginColumns
  <2>2. Over(origin, row) = [edge |-> origin.edge, region |-> origin.region,
                             nation |-> row.nation, releasable |-> row.releasable]
    BY DEF Over, OriginColumns, Row
  <2> QED
    BY <1>1, <2>1, <2>2
<1>2. CASE m.nation # None
  <2>1. Labels(m) = [nation |-> m.nation, releasable |-> m.releasable]
    BY <1>2 DEF Labels
  <2>2. Over(Labels(m), origin) =
           [edge |-> origin.edge, region |-> origin.region,
            nation |-> m.nation, releasable |-> m.releasable]
    BY <2>1 DEF Over, OriginColumns
  <2>3. Over(Over(Labels(m), origin), row) = Over(Labels(m), origin)
    BY <2>2 DEF Over, Row
  <2> QED
    BY <1>2, <2>2, <2>3
<1> QED
  BY <1>1, <1>2

\* The origin columns a handler names.
OriginOf(m) ==
    CASE Handler = "telemetry_latest" -> DerivedOrigin(m, m.at)
      [] Handler = "capability_state" -> DerivedOrigin(m, None)
      [] Handler = "telemetry_windows" -> StampedOrigin(m)

LEMMA OriginIs ==
    ASSUME ProcessType, ~Rollup, NEW m \in Message
    PROVE  /\ OriginOf(m) \in OriginColumns
           /\ Columns(m) = Over(Labels(m), OriginOf(m))
           /\ Handler \in Deriving =>
                \/ /\ m.edge # None /\ m.region # None /\ OriginOf(m) = Place(m)
                \/ /\ m.edge = None \/ m.region = None
                   /\ \E at \in Positions : OriginOf(m) = Resolve(m.asset, at)
<1>1. Handler \in Handlers \ {"region_fleet_summary"}
  BY AttributionAssumption DEF ProcessType, Handler, Rollup
<1>2. m.at \in Positions /\ None \in Positions /\ m \in Message
  BY DEF Positions, Message
<1>3. ASSUME NEW at \in Positions
      PROVE  /\ DerivedOrigin(m, at) \in OriginColumns
             /\ DerivedOrigin(m, at) = IF m.edge # None /\ m.region # None
                                       THEN Place(m) ELSE Resolve(m.asset, at)
  <2>1. Resolve(m.asset, at) \in OriginColumns
    BY ResolvedHome DEF Origins, OriginColumns
  <2>2. Place(m) \in OriginColumns
    BY DEF Place, OriginColumns, Message
  <2> QED
    BY <2>1, <2>2 DEF DerivedOrigin
<1>4. StampedOrigin(m) \in OriginColumns
  <2>1. config.env \in Origins
    BY AttributionAssumption DEF ProcessType
  <2> QED
    BY <2>1 DEF StampedOrigin, Else, OriginColumns, Origins, Message
<1>5. CASE Handler = "telemetry_latest"
  <2>1. OriginOf(m) = DerivedOrigin(m, m.at) /\ Columns(m) = TelemetryLatest(m)
    BY <1>5 DEF OriginOf, Columns
  <2> QED
    BY <1>2, <1>3, <2>1 DEF TelemetryLatest
<1>6. CASE Handler = "capability_state"
  <2>1. OriginOf(m) = DerivedOrigin(m, None) /\ Columns(m) = CapabilityState(m)
    BY <1>6 DEF OriginOf, Columns
  <2> QED
    BY <1>2, <1>3, <2>1 DEF CapabilityState
<1>7. CASE Handler = "telemetry_windows"
  <2>1. OriginOf(m) = StampedOrigin(m) /\ Columns(m) = TelemetryWindows(m)
    BY <1>7 DEF OriginOf, Columns
  <2> QED
    BY <1>4, <1>7, <2>1 DEF TelemetryWindows, Deriving
<1> QED
  BY <1>1, <1>5, <1>6, <1>7 DEF Handlers, Deriving

\* The row an upsert leaves, of a handler with origin columns.
LEMMA UpsertedRow ==
    ASSUME ProcessType, ~Rollup, NEW m \in Message, NEW row \in Row \cup {None}
    PROVE  /\ Upsert(row, Columns(m)) \in Row
           /\ Place(Upsert(row, Columns(m))) = OriginOf(m)
           /\ Upsert(row, Columns(m)).nation
                = IF m.nation = None THEN Before(row).nation ELSE m.nation
           /\ Upsert(row, Columns(m)).releasable
                = IF m.nation = None THEN Before(row).releasable ELSE m.releasable
<1>1. Before(row) \in Row
  BY DEF Before, NewRow, Row
<1>2. OriginOf(m) \in OriginColumns
  BY OriginIs
<1>3. Upsert(row, Columns(m)) =
         [edge |-> OriginOf(m).edge, region |-> OriginOf(m).region,
          nation |-> IF m.nation = None THEN Before(row).nation ELSE m.nation,
          releasable |-> IF m.nation = None THEN Before(row).releasable ELSE m.releasable]
  BY <1>1, <1>2, OriginIs, OverRow DEF Upsert, Before
<1> QED
  BY <1>1, <1>2, <1>3 DEF Place, OriginColumns, Row, Message

\* And of the rollup's handler.
LEMMA UpsertedRollup ==
    ASSUME Rollup, NEW m \in Message, NEW row \in Row \cup {None}
    PROVE  /\ Upsert(row, Columns(m)) \in Row
           /\ Upsert(row, Columns(m)).releasable = m.releasable
<1>1. Before(row) \in Row
  BY DEF Before, NewRow, Row
<1>2. Columns(m) = [nation |-> None, releasable |-> m.releasable]
  BY DEF Rollup, Columns, RegionFleetSummary, RollupLabels
<1>3. Upsert(row, Columns(m)) =
         [edge |-> Before(row).edge, region |-> Before(row).region,
          nation |-> None, releasable |-> m.releasable]
  BY <1>1, <1>2 DEF Upsert, Before, Over, Row
<1> QED
  BY <1>1, <1>3 DEF Row, Message
-----------------------------------------------------------------------------
(* Every variable has its type.                                             *)

LEMMA Produced ==
    ASSUME ProcessType, PlaceType
    PROVE  /\ mapping.topic \in SUBSET Message
           /\ Len(log) \in Nat /\ DOMAIN log = 1..Len(log)
           /\ pos \in Nat /\ committed \in Nat
           /\ \A o \in 1..Len(log) : log[o] \in Message /\ log[o] \in mapping.topic
           /\ todo \subseteq 1..Len(log)
<1>1. mapping \in [handler : Handlers, topic : SUBSET Message]
  BY AttributionAssumption DEF ProcessType
<1>2. mapping.topic \in SUBSET Message
  BY <1>1
<1>3. log \in Seq(mapping.topic)
  BY DEF PlaceType
<1>4. Len(log) \in Nat /\ DOMAIN log = 1..Len(log)
  BY <1>3, LenProperties
<1>5. \A o \in 1..Len(log) : log[o] \in mapping.topic
  BY <1>3, ElementOfSeq
<1>6. pos \in Nat /\ committed \in Nat /\ todo \subseteq 1..Len(log)
  BY <1>4 DEF PlaceType
<1> QED
  BY <1>2, <1>4, <1>5, <1>6

LEMMA KeyIsKey ==
    ASSUME NEW m \in Message
    PROVE  RowKey(m) \in RowKeys /\ RowKey(m)[1] = m.asset
BY DEF RowKey, RowKeys, Message

LEMMA UpsertIsRow ==
    ASSUME ProcessType, NEW m \in Message, NEW row \in Row \cup {None}
    PROVE  Upsert(row, Columns(m)) \in Row
<1>1. CASE Rollup
  BY <1>1, UpsertedRollup
<1>2. CASE ~Rollup
  BY <1>2, UpsertedRow
<1> QED
  BY <1>1, <1>2

\* A batch of n messages, with or without one more that is in no batch.
DrainOf(n, over) ==
    /\ pos + n + over <= Len(log)
    /\ pos' = pos + n + over
    /\ todo' = {o \in pos + 1 .. pos + n :
                  \A p \in o + 1 .. pos + n : log[p].asset # log[o].asset}
    /\ passed' = (passed \ (pos + 1 .. pos')) \cup ((pos + 1 .. pos + n) \ todo')
    /\ lost' = (lost \ (pos + 1 .. pos + n)) \cup (pos + n + 1 .. pos')

LEMMA DrainStep ==
    ASSUME Drain
    PROVE  \E n \in 1..BatchMax, over \in 0..1 : DrainOf(n, over)
BY Zenon DEF Drain, DrainOf

LEMMA TypeStep ==
    ASSUME TypeOK, [Next]_vars
    PROVE  TypeOK'
<1> USE DEF TypeOK
<1>0. /\ mapping.topic \in SUBSET Message
      /\ Len(log) \in Nat /\ pos \in Nat /\ committed \in Nat
      /\ todo \subseteq 1..Len(log)
  BY Produced
<1>1. ASSUME NEW m \in mapping.topic, Produce(m)
      PROVE  TypeOK'
  <2>1. log' \in Seq(mapping.topic) /\ Len(log') = Len(log) + 1
    BY <1>1, AppendProperties DEF Produce, PlaceType
  <2>2. PlaceType'
    BY <1>0, <1>1, <2>1 DEF Produce, PlaceType, Missed
  <2>3. TableType'
    <3>1. SUBSET (1..Len(log)) \subseteq SUBSET (1..Len(log'))
      BY <1>0, <2>1
    <3>2. applied \in [RowKeys -> SUBSET (1..Len(log'))]
      BY <3>1 DEF TableType
    <3> QED
      BY <1>1, <3>2 DEF Produce, TableType
  <2>4. ProcessType'
    BY <1>1 DEF Produce, ProcessType
  <2> QED
    BY <2>2, <2>3, <2>4
<1>2. ASSUME Drain
      PROVE  TypeOK'
  <2>1. PICK n \in 1..BatchMax, over \in 0..1 : DrainOf(n, over)
    BY <1>2, DrainStep
  <2>2. n \in Nat /\ over \in Nat
    BY AttributionAssumption
  <2>3. todo' \subseteq pos + 1 .. pos + n
    BY <2>1 DEF DrainOf
  <2>4. committed' = committed /\ log' = log /\ mapping' = mapping
    BY <1>2 DEF Drain
  <2>5. pos' = pos + n + over /\ pos + n + over <= Len(log)
    BY <2>1 DEF DrainOf
  <2>6. Missed' \subseteq Nat
    <3>1. passed \subseteq Nat /\ lost \subseteq Nat
      BY DEF PlaceType, Missed
    <3>2. passed' \subseteq passed \cup (pos + 1 .. pos + n)
      BY <2>1 DEF DrainOf
    <3>3. lost' \subseteq lost \cup (pos + n + 1 .. pos')
      BY <2>1 DEF DrainOf
    <3>4. pos + 1 .. pos + n \subseteq Nat /\ pos + n + 1 .. pos' \subseteq Nat
      BY <1>0, <2>2, <2>5
    <3> QED
      BY <3>1, <3>2, <3>3, <3>4 DEF Missed
  <2>7. todo' \subseteq committed' + 1 .. pos'
    BY <1>0, <2>2, <2>3, <2>4, <2>5 DEF PlaceType
  <2>8. PlaceType'
    BY <1>0, <2>2, <2>4, <2>5, <2>6, <2>7 DEF PlaceType
  <2> QED
    BY <1>2, <2>8 DEF Drain, ProcessType, TableType
<1>3. ASSUME NEW o \in todo, Persist(o)
      PROVE  TypeOK'
  <2> DEFINE k == RowKey(log[o])
  <2>1. log[o] \in Message /\ o \in 1..Len(log)
    BY Produced
  <2>2. k \in RowKeys
    BY <2>1, KeyIsKey
  <2>3. Upsert(rows[k], Columns(log[o])) \in Row
    BY <2>1, <2>2, UpsertIsRow DEF TableType
  <2>4. todo' = todo \ {o} /\ UNCHANGED <<mapping, config, up, log, pos, committed, passed>>
    BY <1>3 DEF Persist
  <2>5. CASE Write(o)
    <3>1. /\ rows' = [rows EXCEPT ![k] = Upsert(rows[k], Columns(log[o]))]
          /\ applied' = [applied EXCEPT ![k] = applied[k] \cup {o}]
          /\ lost' = lost
      BY <2>5, Zenon DEF Write
    <3> HIDE DEF k
    <3>2. TableType'
      BY <2>1, <2>2, <2>3, <2>4, <3>1 DEF TableType
    <3> QED
      BY <2>4, <3>1, <3>2 DEF ProcessType, PlaceType, Missed
  <2>6. CASE Skip(o)
    <3>1. rows' = rows /\ applied' = applied /\ lost' = lost \cup {o}
      BY <2>6 DEF Skip
    <3>2. Missed' \subseteq Nat
      BY <2>1, <2>4, <3>1 DEF PlaceType, Missed
    <3> QED
      BY <2>4, <3>1, <3>2 DEF ProcessType, PlaceType, TableType
  <2> QED
    BY <1>3, <2>5, <2>6 DEF Persist
<1>4. ASSUME Commit
      PROVE  TypeOK'
  <2>1. PlaceType'
    BY <1>0, <1>4 DEF Commit, PlaceType, Missed
  <2> QED
    BY <1>4, <2>1 DEF Commit, ProcessType, TableType
<1>5. ASSUME Crash
      PROVE  TypeOK'
  <2>1. PlaceType'
    BY <1>0, <1>5 DEF Crash, PlaceType, Missed
  <2> QED
    BY <1>5, <2>1 DEF Crash, ProcessType, TableType
<1>6. ASSUME NEW c \in Configs, Start(c)
      PROVE  TypeOK'
  BY <1>6 DEF Start, ProcessType, PlaceType, TableType, Missed
<1>7. ASSUME NEW k \in RowKeys, Prune(k)
      PROVE  TypeOK'
  BY <1>7 DEF Prune, ProcessType, PlaceType, TableType, Missed
<1>8. ASSUME UNCHANGED vars
      PROVE  TypeOK'
  BY <1>8 DEF vars, ProcessType, PlaceType, TableType, Missed
<1> QED
  BY <1>1, <1>2, <1>3, <1>4, <1>5, <1>6, <1>7, <1>8 DEF Next

LEMMA TypeInit == Init => TypeOK
<1> SUFFICES ASSUME Init PROVE TypeOK
  OBVIOUS
<1>1. log \in Seq(mapping.topic) /\ Len(log) = 0
  BY EmptySeq DEF Init
<1> QED
  BY <1>1 DEF Init, TypeOK, ProcessType, PlaceType, TableType, Missed

\* The table holds rows or nothing, of messages that were produced, under a
\* configuration that could be built.
THEOREM TypeCorrect == Spec => []TypeOK
<1>1. TypeOK /\ [Next]_vars => TypeOK'
  BY TypeStep
<1> QED
  BY <1>1, TypeInit, PTL DEF Spec

-----------------------------------------------------------------------------
(* A step at one row.                                                       *)

\* The partition only grows, and the worker keeps its topic.
LEMMA LogStep ==
    ASSUME TypeOK, [Next]_vars
    PROVE  /\ mapping' = mapping
           /\ \A o \in 1..Len(log) : log'[o] = log[o]
<1>1. ASSUME NEW m \in mapping.topic, Produce(m)
      PROVE  /\ mapping' = mapping
             /\ \A o \in 1..Len(log) : log'[o] = log[o]
  BY <1>1, AppendProperties DEF Produce, TypeOK, PlaceType
<1>2. CASE Next /\ ~(\E m \in mapping.topic : Produce(m))
  BY <1>2 DEF Next, Drain, Persist, Commit, Crash, Start, Prune
<1>3. CASE UNCHANGED vars
  BY <1>3 DEF vars
<1> QED
  BY <1>1, <1>2, <1>3

\* A message of the batch reaches the table.
Lands(o) == Persist(o) /\ Write(o)

\* It is written to this row.
Writes(o, k) ==
    /\ o \in todo /\ RowKey(log[o]) = k
    /\ rows'[k] = Upsert(rows[k], Columns(log[o]))
    /\ applied'[k] = applied[k] \cup {o}

\* Only one message is written in a step.
LEMMA OneWrite ==
    ASSUME NEW o \in todo, NEW x \in todo, Persist(o), Persist(x)
    PROVE  o = x
BY DEF Persist

\* A row stands still, is written by one message of the batch, or is pruned.
LEMMA RowStep ==
    ASSUME TypeOK, [Next]_vars, NEW k \in RowKeys
    PROVE  \/ /\ rows'[k] = rows[k] /\ applied'[k] = applied[k]
              /\ \A o \in todo : Lands(o) => RowKey(log[o]) # k
           \/ \E o \in todo : Lands(o) /\ Writes(o, k)
           \/ ~Rollup /\ rows'[k] = None /\ applied'[k] = {}
<1>0. rows \in [RowKeys -> Row \cup {None}] /\ applied \in [RowKeys -> SUBSET (1..Len(log))]
  BY DEF TypeOK, TableType
<1>1. ASSUME NEW o \in todo, Lands(o)
      PROVE  \/ Writes(o, k)
             \/ /\ rows'[k] = rows[k] /\ applied'[k] = applied[k]
                /\ \A x \in todo : Lands(x) => RowKey(log[x]) # k
  <2> DEFINE j == RowKey(log[o])
  <2>1. /\ rows' = [rows EXCEPT ![j] = Upsert(rows[j], Columns(log[o]))]
        /\ applied' = [applied EXCEPT ![j] = applied[j] \cup {o}]
    BY <1>1, Zenon DEF Lands, Write
  <2>2. CASE j = k
    <3>1. /\ rows'[k] = Upsert(rows[k], Columns(log[o]))
          /\ applied'[k] = applied[k] \cup {o}
      <4> HIDE DEF j
      <4> QED
        BY <1>0, <2>1, <2>2
    <3> QED
      BY <2>2, <3>1 DEF Writes
  <2>3. CASE j # k
    <3>1. rows'[k] = rows[k] /\ applied'[k] = applied[k]
      <4> HIDE DEF j
      <4> QED
        BY <1>0, <2>1, <2>3
    <3>2. ASSUME NEW x \in todo, Lands(x)
          PROVE  RowKey(log[x]) # k
      <4>1. x = o
        BY <1>1, <3>2, OneWrite DEF Lands
      <4> QED
        BY <2>3, <4>1
    <3> QED
      BY <3>1, <3>2
  <2> QED
    BY <2>2, <2>3
<1>2. ASSUME NEW j \in RowKeys, Prune(j)
      PROVE  \/ rows'[k] = rows[k] /\ applied'[k] = applied[k]
             \/ ~Rollup /\ rows'[k] = None /\ applied'[k] = {}
  BY <1>0, <1>2 DEF Prune
<1>3. CASE \E o \in todo : Persist(o) /\ ~Write(o)
  <2>1. PICK o \in todo : Persist(o) /\ ~Write(o)
    BY <1>3
  <2>2. rows' = rows /\ applied' = applied
    BY <2>1 DEF Persist, Skip
  <2>3. \A x \in todo : ~Lands(x)
    BY <2>1, OneWrite DEF Lands
  <2> QED
    BY <2>2, <2>3
<1>4. CASE \/ \E m \in mapping.topic : Produce(m)
           \/ Drain
           \/ Commit
           \/ Crash
           \/ \E c \in Configs : Start(c)
           \/ UNCHANGED vars
  <2>1. rows' = rows /\ applied' = applied
    BY <1>4 DEF Produce, Drain, Commit, Crash, Start, vars
  <2>2. ASSUME NEW o \in todo, Persist(o)
        PROVE  FALSE
    <3>1. up /\ up' /\ todo # {} /\ todo' # todo /\ log' = log
      BY <2>2 DEF Persist
    <3>2. CASE Drain \/ Crash
      BY <3>1, <3>2 DEF Drain, Crash
    <3>3. CASE (\E m \in mapping.topic : Produce(m)) \/ Commit
                 \/ (\E c \in Configs : Start(c)) \/ UNCHANGED vars
      BY <3>1, <3>3 DEF Produce, Commit, Start, vars
    <3> QED
      BY <1>4, <3>2, <3>3
  <2> QED
    BY <2>1, <2>2 DEF Lands
<1>5. \A o \in todo : Persist(o) => Lands(o) \/ (Persist(o) /\ ~Write(o))
  BY Zenon DEF Lands
<1> QED
  BY <1>1, <1>2, <1>3, <1>4, <1>5 DEF Next

-----------------------------------------------------------------------------
(* What was written to a row had its key.                                   *)

Keyed ==
    \A k \in RowKeys :
        /\ \A o \in applied[k] : RowKey(log[o]) = k
        /\ rows[k] = None => applied[k] = {}

LEMMA KeyedStep ==
    ASSUME TypeOK, Keyed, [Next]_vars
    PROVE  Keyed'
<1> SUFFICES ASSUME NEW k \in RowKeys
             PROVE  /\ \A o \in applied'[k] : (RowKey(log[o]))' = k
                    /\ rows'[k] = None => applied'[k] = {}
  BY DEF Keyed
<1>1. /\ mapping' = mapping
      /\ \A o \in 1..Len(log) : log'[o] = log[o]
  BY LogStep
<1>2. ASSUME NEW o \in 1..Len(log)
      PROVE  (RowKey(log[o]))' = RowKey(log[o])
  BY <1>1 DEF RowKey, Rollup, Handler
<1>3. applied[k] \subseteq 1..Len(log) /\ rows[k] \in Row \cup {None}
  BY DEF TypeOK, TableType
<1>4. CASE rows'[k] = rows[k] /\ applied'[k] = applied[k]
  BY <1>2, <1>3, <1>4 DEF Keyed
<1>5. ASSUME NEW x \in todo, Writes(x, k)
      PROVE  /\ \A o \in applied'[k] : (RowKey(log[o]))' = k
             /\ rows'[k] = None => applied'[k] = {}
  <2>1. x \in 1..Len(log) /\ log[x] \in Message
    BY Produced DEF TypeOK
  <2>2. rows'[k] \in Row
    BY <1>3, <1>5, <2>1, UpsertIsRow DEF Writes, TypeOK
  <2>3. rows'[k] # None
    BY <2>2, AttributionAssumption
  <2> QED
    BY <1>2, <1>3, <1>5, <2>1, <2>3 DEF Writes, Keyed
<1>6. CASE applied'[k] = {}
  BY <1>6
<1> QED
  BY <1>4, <1>5, <1>6, RowStep

LEMMA AlwaysKeyed == Spec => []Keyed
<1>1. Init => Keyed
  BY DEF Init, Keyed
<1>2. TypeOK /\ Keyed /\ [Next]_vars => Keyed'
  BY KeyedStep
<1> QED
  BY <1>1, <1>2, TypeCorrect, PTL DEF Spec
-----------------------------------------------------------------------------
(* Rollups.                                                                 *)

\* A written row of a rollup has the audience of its key.
OwnAudience ==
    Rollup => \A k \in RowKeys : applied[k] # {} => rows[k].releasable = k[2]

LEMMA AudienceStep ==
    ASSUME TypeOK, OwnAudience, [Next]_vars
    PROVE  OwnAudience'
<1>1. mapping' = mapping
  BY LogStep
<1> SUFFICES ASSUME Rollup, NEW k \in RowKeys, applied'[k] # {}
             PROVE  rows'[k].releasable = k[2]
  BY <1>1 DEF OwnAudience, Rollup, Handler
<1>2. CASE rows'[k] = rows[k] /\ applied'[k] = applied[k]
  BY <1>2 DEF OwnAudience
<1>3. ASSUME NEW x \in todo, Writes(x, k)
      PROVE  rows'[k].releasable = k[2]
  <2>1. log[x] \in Message
    BY Produced DEF TypeOK
  <2>2. k[2] = log[x].releasable
    BY <1>3 DEF Writes, RowKey
  <2>3. rows[k] \in Row \cup {None}
    BY DEF TypeOK, TableType
  <2>4. Upsert(rows[k], Columns(log[x])).releasable = log[x].releasable
    BY <2>1, <2>3, UpsertedRollup
  <2> QED
    BY <1>3, <2>2, <2>4 DEF Writes
<1> QED
  BY <1>2, <1>3, RowStep

\* The classes of a region stand beside each other, each under its own
\* audience, however their messages share batches and processes.
THEOREM ClassesStand == Spec => []ClassesSideBySide
<1>1. Init => OwnAudience
  BY DEF Init, OwnAudience
<1>2. TypeOK /\ OwnAudience /\ [Next]_vars => OwnAudience'
  BY AudienceStep
<1>3. TypeOK /\ Keyed /\ OwnAudience => ClassesSideBySide
  <2> SUFFICES ASSUME TypeOK, Keyed, OwnAudience, Rollup,
                      NEW k \in RowKeys, NEW o \in applied[k]
               PROVE  /\ rows[<<log[o].asset, log[o].releasable>>] # None
                      /\ rows[<<log[o].asset, log[o].releasable>>].releasable
                           = log[o].releasable
    BY DEF ClassesSideBySide
  <2>1. RowKey(log[o]) = k
    BY DEF Keyed
  <2>2. k = <<log[o].asset, log[o].releasable>>
    BY <2>1 DEF RowKey
  <2>3. rows[k] # None /\ rows[k].releasable = k[2]
    BY DEF Keyed, OwnAudience
  <2> QED
    BY <2>2, <2>3
<1> QED
  BY <1>1, <1>2, <1>3, TypeCorrect, AlwaysKeyed, PTL DEF Spec

-----------------------------------------------------------------------------
(* The origin columns.                                                      *)

LEMMA OriginStep ==
    ASSUME TypeOK, OriginFromOnePlace, [Next]_vars
    PROVE  OriginFromOnePlace'
<1>1. /\ mapping' = mapping
      /\ \A o \in 1..Len(log) : log'[o] = log[o]
  BY LogStep
<1> SUFFICES ASSUME NEW k \in RowKeys, Handler \in Deriving, ~Rollup, rows'[k] # None
             PROVE  \/ \E o \in applied'[k] : Place(rows'[k]) = Place(log'[o])
                    \/ \E c \in Configs : Place(rows'[k]) \in ConfiguredHomes(c)
  BY <1>1 DEF OriginFromOnePlace, HomedRows, LabelledRows, Rollup, Handler,
              Place, ConfiguredHomes
<1>2. applied[k] \subseteq 1..Len(log) /\ rows[k] \in Row \cup {None}
  BY DEF TypeOK, TableType
<1>3. CASE rows'[k] = rows[k] /\ applied'[k] = applied[k]
  <2>1. k \in HomedRows
    BY <1>3 DEF HomedRows, LabelledRows
  <2>2. \/ \E o \in applied[k] : Place(rows[k]) = Place(log[o])
        \/ \E c \in Configs : Place(rows[k]) \in ConfiguredHomes(c)
    BY <2>1 DEF OriginFromOnePlace
  <2>3. \A o \in applied[k] : log'[o] = log[o]
    BY <1>1, <1>2
  <2> QED
    BY <1>3, <2>2, <2>3
<1>4. ASSUME NEW x \in todo, Writes(x, k)
      PROVE  \/ \E o \in applied'[k] : Place(rows'[k]) = Place(log'[o])
             \/ \E c \in Configs : Place(rows'[k]) \in ConfiguredHomes(c)
  <2>1. log[x] \in Message /\ x \in 1..Len(log)
    BY Produced DEF TypeOK
  <2>2. Place(rows'[k]) = OriginOf(log[x])
    BY <1>2, <1>4, <2>1, UpsertedRow DEF Writes, TypeOK
  <2>3. CASE OriginOf(log[x]) = Place(log[x])
    <3>1. x \in applied'[k] /\ log'[x] = log[x]
      BY <1>1, <1>4, <2>1 DEF Writes
    <3> QED
      BY <2>2, <2>3, <3>1
  <2>4. ASSUME NEW at \in Positions, OriginOf(log[x]) = Resolve(log[x].asset, at)
        PROVE  \E c \in Configs : Place(rows'[k]) \in ConfiguredHomes(c)
    <3>1. Place(rows'[k]) \in ConfiguredHomes(config) /\ config \in Configs
      BY <2>2, <2>4, ResolvedHome DEF TypeOK, ProcessType
    <3> QED
      BY <3>1
  <2> QED
    BY <2>1, <2>3, <2>4, OriginIs DEF TypeOK
<1> QED
  BY <1>3, <1>4, RowStep

\* No row has one place's edge and another's region, whatever the
\* configurations and the messages that name only half an origin.
THEOREM OriginsFromOnePlace == Spec => []OriginFromOnePlace
<1>1. Init => OriginFromOnePlace
  BY DEF Init, OriginFromOnePlace, HomedRows, LabelledRows
<1>2. TypeOK /\ OriginFromOnePlace /\ [Next]_vars => OriginFromOnePlace'
  BY OriginStep
<1> QED
  BY <1>1, <1>2, TypeCorrect, PTL DEF Spec

LEMMA PinStep ==
    ASSUME TypeOK, PinnedAtHome, [Next]_vars
    PROVE  PinnedAtHome'
<1>1. /\ mapping' = mapping
      /\ \A o \in 1..Len(log) : log'[o] = log[o]
  BY LogStep
<1>2. \A k \in HomedRows' : /\ k \in RowKeys /\ rows'[k] # None
                            /\ Handler \in Deriving /\ ~Rollup
  BY <1>1 DEF HomedRows, LabelledRows, Rollup, Handler
<1> SUFFICES ASSUME NEW k \in HomedRows', NEW h \in Origins,
                    \A c \in Configs : Buildable(c) => PinnedTo(c, k[1], h),
                    \A o \in applied'[k] : log'[o].edge = None \/ log'[o].region = None
             PROVE  Place(rows'[k]) = h
  BY Zenon DEF PinnedAtHome
<1> SUFFICES ASSUME k \in RowKeys, rows'[k] # None, Handler \in Deriving, ~Rollup
             PROVE  Place(rows'[k]) = h
  BY <1>2, Zenon
<1>3. applied[k] \subseteq 1..Len(log) /\ rows[k] \in Row \cup {None}
  BY DEF TypeOK, TableType
<1>4. CASE rows'[k] = rows[k] /\ applied'[k] = applied[k]
  <2>1. k \in HomedRows
    BY <1>4 DEF HomedRows, LabelledRows
  <2>2. \A o \in applied[k] : log[o].edge = None \/ log[o].region = None
    BY <1>1, <1>3, <1>4
  <2>3. Place(rows[k]) = h
    BY <2>1, <2>2 DEF PinnedAtHome
  <2> QED
    BY <1>4, <2>3
<1>5. ASSUME NEW x \in todo, Writes(x, k)
      PROVE  Place(rows'[k]) = h
  <2>1. log[x] \in Message /\ x \in 1..Len(log)
    BY Produced DEF TypeOK
  <2>2. Place(rows'[k]) = OriginOf(log[x])
    BY <1>3, <1>5, <2>1, UpsertedRow DEF Writes, TypeOK
  <2>3. log[x].edge = None \/ log[x].region = None
    BY <1>1, <1>5, <2>1 DEF Writes
  <2>4. PICK at \in Positions : OriginOf(log[x]) = Resolve(log[x].asset, at)
    BY <2>1, <2>3, OriginIs DEF TypeOK
  <2>5. PinnedTo(config, log[x].asset, h)
    <3>1. k[1] = log[x].asset
      BY <1>5, <2>1, KeyIsKey DEF Writes
    <3> QED
      BY <3>1 DEF TypeOK, ProcessType
  <2>6. Resolve(log[x].asset, at) = h
    BY <2>5, ResolvedPin DEF TypeOK
  <2> QED
    BY <2>2, <2>4, <2>6
<1> QED
  BY <1>4, <1>5, RowStep

\* An asset pinned to one home by every configuration is shown there, unless a
\* message gives it another, whichever process wrote the row.
THEOREM PinnedStay == Spec => []PinnedAtHome
<1>1. Init => PinnedAtHome
  BY DEF Init, PinnedAtHome, HomedRows, LabelledRows
<1>2. TypeOK /\ PinnedAtHome /\ [Next]_vars => PinnedAtHome'
  BY PinStep
<1> QED
  BY <1>1, <1>2, TypeCorrect, PTL DEF Spec
-----------------------------------------------------------------------------
(* The label columns.                                                       *)

\* What is left of a batch is the last of its key up to the drained offset, but
\* for the message that was polled past the batch.
LastOfKey ==
    \A o \in todo : \A p \in (o + 1 .. pos) \ lost : log[p].asset # log[o].asset

LEMMA LastOfKeyStep ==
    ASSUME TypeOK, LastOfKey, [Next]_vars
    PROVE  LastOfKey'
<1>0. /\ Len(log) \in Nat /\ pos \in 0..Len(log) /\ todo \subseteq 1..Len(log)
      /\ \A o \in 1..Len(log) : log'[o] = log[o]
  BY Produced, LogStep DEF TypeOK, PlaceType
<1>1. ASSUME todo' \subseteq todo, pos' = pos, lost \subseteq lost'
      PROVE  LastOfKey'
  <2> SUFFICES ASSUME NEW o \in todo', NEW p \in (o + 1 .. pos') \ lost'
               PROVE  log'[p].asset # log'[o].asset
    BY DEF LastOfKey
  <2>1. /\ o \in todo /\ p \in (o + 1 .. pos) \ lost
        /\ o \in 1..Len(log) /\ p \in 1..Len(log)
    BY <1>0, <1>1
  <2> QED
    BY <1>0, <2>1 DEF LastOfKey
<1>2. CASE Drain
  <2>1. PICK n \in 1..BatchMax, over \in 0..1 : DrainOf(n, over)
    BY <1>2, DrainStep
  <2>2. log' = log /\ n \in Nat /\ over \in Nat /\ pos \in Nat
    BY <1>0, <1>2, AttributionAssumption DEF Drain
  <2> SUFFICES ASSUME NEW o \in todo', NEW p \in (o + 1 .. pos') \ lost'
               PROVE  log[p].asset # log[o].asset
    BY <2>2 DEF LastOfKey
  <2>3. /\ o \in pos + 1 .. pos + n
        /\ \A q \in o + 1 .. pos + n : log[q].asset # log[o].asset
        /\ p \notin pos + n + 1 .. pos'
    BY <2>1 DEF DrainOf
  <2>4. p \in o + 1 .. pos + n
    BY <2>1, <2>2, <2>3 DEF DrainOf
  <2> QED
    BY <2>3, <2>4
<1>3. CASE Crash
  BY <1>3 DEF Crash, LastOfKey
<1>4. ASSUME NEW o \in todo, Persist(o)
      PROVE  todo' \subseteq todo /\ pos' = pos /\ lost \subseteq lost'
  BY <1>4 DEF Persist, Write, Skip
<1>5. CASE \/ \E m \in mapping.topic : Produce(m)
           \/ Commit
           \/ \E c \in Configs : Start(c)
           \/ \E k \in RowKeys : Prune(k)
           \/ UNCHANGED vars
  <2>1. todo' \subseteq todo /\ pos' = pos /\ lost' = lost
    BY <1>5 DEF Produce, Commit, Start, Prune, vars
  <2> QED
    BY <1>1, <2>1
<1> QED
  BY <1>1, <1>2, <1>3, <1>4, <1>5 DEF Next

\* An offset whose turn has come: drained, and not waiting in the batch.
Done(o) == o <= pos /\ o \notin todo

\* l's labels are the row's, and no labelled message of the row that had its
\* turn, and reached the table in it, is later.
Unlabelled(k) == rows[k].nation = None /\ rows[k].releasable = None
LabelsOf(k, l) ==
    /\ rows[k].nation = log[l].nation
    /\ rows[k].releasable = log[l].releasable
    /\ \A o \in Labelled(k) \ Missed : Done(o) => o <= l

LabelInv ==
    \A k \in LabelledRows :
        IF Labelled(k) = {} THEN Unlabelled(k)
        ELSE \E l \in Labelled(k) : LabelsOf(k, l)

\* What has had its turn after a step had it before, or missed the table, or is
\* the message just written.
LEMMA TurnStep ==
    ASSUME TypeOK, [Next]_vars, NEW o \in 1..Len(log), o \notin Missed', Done(o)'
    PROVE  o \notin Missed /\ (Done(o) \/ (o \in todo /\ Lands(o)))
<1>0. /\ Len(log) \in Nat /\ pos \in Nat /\ committed \in Nat
      /\ todo \subseteq committed + 1 .. pos /\ committed <= pos
  BY Produced DEF TypeOK, PlaceType
<1>1. CASE Drain
  <2>1. PICK n \in 1..BatchMax, over \in 0..1 : DrainOf(n, over)
    BY <1>1, DrainStep
  <2>2. n \in Nat /\ over \in Nat /\ todo = {}
    BY <1>1, AttributionAssumption DEF Drain
  <2>3. /\ o \notin passed' /\ o \notin lost'
        /\ o <= pos' /\ o \notin todo'
    BY DEF Done, Missed
  <2>4. o \notin pos + 1 .. pos + n /\ o \notin pos + n + 1 .. pos'
    BY <2>1, <2>3 DEF DrainOf
  <2>5. pos' = pos + n + over
    BY <2>1 DEF DrainOf
  <2>6. o <= pos
    BY <1>0, <2>2, <2>3, <2>4, <2>5
  <2>7. o \notin pos + 1 .. pos'
    BY <1>0, <2>6
  <2>8. o \notin passed /\ o \notin lost
    BY <2>1, <2>3, <2>4, <2>7 DEF DrainOf
  <2> QED
    BY <2>2, <2>6, <2>8 DEF Done, Missed
<1>2. CASE Crash
  BY <1>0, <1>2 DEF Crash, Done, Missed
<1>3. ASSUME NEW x \in todo, Persist(x)
      PROVE  o \notin Missed /\ (Done(o) \/ (o \in todo /\ Lands(o)))
  <2>1. todo' = todo \ {x} /\ pos' = pos /\ passed' = passed
    BY <1>3 DEF Persist
  <2>2. lost \subseteq lost' /\ (Write(x) \/ x \in lost')
    BY <1>3 DEF Persist, Write, Skip
  <2>3. o \notin Missed /\ o \notin lost'
    BY <2>1, <2>2 DEF Missed
  <2>4. CASE o = x
    BY <1>3, <2>2, <2>3, <2>4 DEF Lands
  <2>5. CASE o # x
    BY <2>1, <2>3, <2>5 DEF Done
  <2> QED
    BY <2>4, <2>5
<1>4. CASE \/ \E m \in mapping.topic : Produce(m)
           \/ Commit
           \/ \E c \in Configs : Start(c)
           \/ \E k \in RowKeys : Prune(k)
           \/ UNCHANGED vars
  BY <1>4 DEF Produce, Commit, Start, Prune, vars, Done, Missed
<1> QED
  BY <1>1, <1>2, <1>3, <1>4 DEF Next

LEMMA LabelStep ==
    ASSUME TypeOK, Keyed, LastOfKey, LabelInv, [Next]_vars
    PROVE  LabelInv'
<1>1. /\ mapping' = mapping
      /\ \A o \in 1..Len(log) : log'[o] = log[o]
  BY LogStep
<1> SUFFICES ASSUME NEW k \in RowKeys, ~Rollup, rows'[k] # None
             PROVE  IF Labelled(k)' = {} THEN Unlabelled(k)'
                    ELSE \E l \in Labelled(k)' : LabelsOf(k, l)'
  BY <1>1 DEF LabelInv, LabelledRows, Rollup, Handler
<1>2. applied[k] \subseteq 1..Len(log) /\ rows[k] \in Row \cup {None}
  BY DEF TypeOK, TableType
<1>3. todo \subseteq 1..Len(log) /\ pos \in 0..Len(log) /\ Len(log) \in Nat
  BY Produced DEF TypeOK, PlaceType
<1>4. CASE /\ rows'[k] = rows[k] /\ applied'[k] = applied[k]
           /\ \A o \in todo : Lands(o) => RowKey(log[o]) # k
  <2>1. Labelled(k)' = Labelled(k)
    BY <1>1, <1>2, <1>4 DEF Labelled
  <2>2. k \in LabelledRows
    BY <1>4 DEF LabelledRows
  <2>3. CASE Labelled(k) = {}
    BY <1>4, <2>1, <2>2, <2>3 DEF LabelInv, Unlabelled
  <2>4. CASE Labelled(k) # {}
    <3>1. PICK l \in Labelled(k) : LabelsOf(k, l)
      BY <2>2, <2>4 DEF LabelInv
    <3>2. l \in 1..Len(log)
      BY <1>2 DEF Labelled
    <3>3. ASSUME NEW o \in Labelled(k) \ Missed', Done(o)'
          PROVE  o <= l
      <4>1. o \in 1..Len(log) /\ RowKey(log[o]) = k
        BY <1>2 DEF Labelled, Keyed
      <4>2. o \notin Missed /\ Done(o)
        BY <1>4, <3>3, <4>1, TurnStep
      <4> QED
        BY <3>1, <4>2 DEF LabelsOf
    <3>4. LabelsOf(k, l)'
      BY <1>1, <1>4, <2>1, <3>1, <3>2, <3>3 DEF LabelsOf
    <3> QED
      BY <2>1, <3>1, <3>4
  <2> QED
    BY <2>3, <2>4
<1>5. ASSUME NEW x \in todo, Lands(x), Writes(x, k)
      PROVE  IF Labelled(k)' = {} THEN Unlabelled(k)'
             ELSE \E l \in Labelled(k)' : LabelsOf(k, l)'
  <2>1. log[x] \in Message /\ x \in 1..Len(log) /\ RowKey(log[x]) = k
    BY <1>5, Produced DEF Writes, TypeOK
  <2>2. /\ rows'[k].nation
             = IF log[x].nation = None THEN Before(rows[k]).nation ELSE log[x].nation
        /\ rows'[k].releasable
             = IF log[x].nation = None THEN Before(rows[k]).releasable
               ELSE log[x].releasable
    BY <1>2, <1>5, <2>1, UpsertedRow DEF Writes, TypeOK
  <2>3. applied'[k] = applied[k] \cup {x} /\ lost' = lost
    BY <1>5 DEF Writes, Lands, Write
  <2>4. CASE log[x].nation = None
    <3>1. Labelled(k)' = Labelled(k)
      BY <1>1, <1>2, <2>1, <2>3, <2>4 DEF Labelled
    <3>2. CASE Labelled(k) = {}
      <4>1. Before(rows[k]).nation = None /\ Before(rows[k]).releasable = None
        BY <3>2 DEF Before, NewRow, LabelInv, LabelledRows, Unlabelled
      <4> QED
        BY <2>2, <2>4, <3>1, <3>2, <4>1 DEF Unlabelled
    <3>3. CASE Labelled(k) # {}
      <4>1. rows[k] # None
        BY <3>3 DEF Labelled, Keyed
      <4>2. PICK l \in Labelled(k) : LabelsOf(k, l)
        BY <3>3, <4>1 DEF LabelInv, LabelledRows
      <4>3. l \in 1..Len(log)
        BY <1>2 DEF Labelled
      <4>4. rows'[k].nation = rows[k].nation /\ rows'[k].releasable = rows[k].releasable
        BY <2>2, <2>4, <4>1 DEF Before
      <4>5. ASSUME NEW o \in Labelled(k) \ Missed', Done(o)'
            PROVE  o <= l
        <5>1. o \in 1..Len(log) /\ o # x
          BY <1>2, <2>4 DEF Labelled
        <5>2. o \notin Missed /\ (Done(o) \/ (o \in todo /\ Lands(o)))
          BY <4>5, <5>1, TurnStep
        <5>3. Done(o)
          BY <1>5, <5>1, <5>2, OneWrite DEF Lands
        <5> QED
          BY <4>2, <5>2, <5>3 DEF LabelsOf
      <4>6. LabelsOf(k, l)'
        BY <1>1, <3>1, <4>2, <4>3, <4>4, <4>5 DEF LabelsOf
      <4> QED
        BY <3>1, <4>2, <4>6
    <3> QED
      BY <3>2, <3>3
  <2>5. CASE log[x].nation # None
    <3>1. x \in Labelled(k)'
      BY <1>1, <2>1, <2>3, <2>5 DEF Labelled
    <3>2. ASSUME NEW o \in Labelled(k)' \ Missed', Done(o)'
          PROVE  o <= x
      <4>1. o \in applied'[k]
        BY <3>2 DEF Labelled
      <4>2. o \in 1..Len(log) /\ RowKey(log[o]) = k
        BY <1>2, <2>1, <2>3, <4>1 DEF Keyed
      <4>3. log[o].asset = log[x].asset
        BY <2>1, <4>2 DEF RowKey
      <4>4. o <= pos
        BY <1>5, <3>2 DEF Done, Lands, Persist
      <4>5. o \notin x + 1 .. pos
        BY <2>3, <3>2, <4>3 DEF LastOfKey, Missed
      <4> QED
        BY <1>3, <2>1, <4>2, <4>4, <4>5
    <3>3. LabelsOf(k, x)'
      BY <1>1, <2>1, <2>2, <2>5, <3>2 DEF LabelsOf
    <3> QED
      BY <3>1, <3>3
  <2> QED
    BY <2>4, <2>5
<1> QED
  BY <1>4, <1>5, RowStep

\* A row's labels are both one message's, and the last one's that had its turn
\* and reached the table in it: it was not coalesced away, polled past a full
\* batch or skipped.
THEOREM LabelsOfLast == Spec => []LabelsOfLastLabelled
<1>1. Init => LastOfKey /\ LabelInv
  BY DEF Init, LastOfKey, LabelInv, LabelledRows
<1>2. TypeOK /\ LastOfKey /\ [Next]_vars => LastOfKey'
  BY LastOfKeyStep
<1>3. TypeOK /\ Keyed /\ LastOfKey /\ LabelInv /\ [Next]_vars => LabelInv'
  BY LabelStep
<1>4. TypeOK /\ LabelInv => LabelsOfLastLabelled
  <2> SUFFICES ASSUME TypeOK, LabelInv, NEW k \in LabelledRows
               PROVE  IF Labelled(k) = {}
                      THEN rows[k].nation = None /\ rows[k].releasable = None
                      ELSE \E l \in Labelled(k) :
                             /\ rows[k].nation = log[l].nation
                             /\ rows[k].releasable = log[l].releasable
                             /\ \A o \in Labelled(k) \ Missed : o <= committed => o <= l
    BY DEF LabelsOfLastLabelled
  <2>1. /\ committed \in Nat /\ pos \in Nat /\ committed <= pos
        /\ todo \subseteq committed + 1 .. pos
        /\ Labelled(k) \subseteq Nat
    BY Produced DEF TypeOK, PlaceType, TableType, Labelled, LabelledRows
  <2>2. \A o \in Labelled(k) : o <= committed => Done(o)
    BY <2>1 DEF Done
  <2>3. CASE Labelled(k) = {}
    BY <2>3 DEF LabelInv, Unlabelled
  <2>4. CASE Labelled(k) # {}
    BY <2>2, <2>4 DEF LabelInv, LabelsOf
  <2> QED
    BY <2>3, <2>4
<1> QED
  BY <1>1, <1>2, <1>3, <1>4, TypeCorrect, AlwaysKeyed, PTL DEF Spec
=============================================================================
