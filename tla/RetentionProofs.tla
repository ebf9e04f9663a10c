---------------------------- MODULE RetentionProofs ----------------------------
(***************************************************************************)
(* What the pruner leaves, for any tables and files, any settings of the   *)
(* environment, and any interleaving of its passes with what is written.   *)
(***************************************************************************)
EXTENDS Retention, SequenceTheorems, FiniteSetTheorems, WellFoundedInduction, TLAPS

-----------------------------------------------------------------------------
(* Flattening a sequence of sequences: a recursion, of which one has to     *)
(* show first that something satisfies it.                                  *)

Flattens(ss, n, f) ==
    f = [i \in 1..n |-> IF i = 1 THEN ss[i] ELSE f[i - 1] \o ss[i]]

Flattening(ss) == CHOOSE f : Flattens(ss, Len(ss), f)

\* FlattenSeq by its last value.
LEMMA FlattenIs ==
    ASSUME NEW ss
    PROVE  FlattenSeq(ss) = IF Len(ss) = 0 THEN ss ELSE Flattening(ss)[Len(ss)]
BY DEF FlattenSeq, Flattening, Flattens

\* The least of some numbers.
LEMMA LeastNumber ==
    ASSUME NEW S \in SUBSET Nat, S # {}
    PROVE  \E x \in S : \A y \in S : x <= y
<1>1. PICK x \in S : \A y \in S : ~(<<y, x>> \in OpToRel(<, Nat))
  BY WFMin, NatLessThanWellFounded, Zenon
<1>2. \A y \in S : ~(y < x)
  BY <1>1 DEF OpToRel
<1> QED
  BY <1>2

\* What holds of 0 and of the successor of each number it holds of, as a set.
LEMMA Counting ==
    ASSUME NEW G, 0 \in G, \A n \in Nat : n \in G => n + 1 \in G
    PROVE  Nat \subseteq G
<1> DEFINE Bad == Nat \ G
<1>1. SUFFICES ASSUME Bad # {} PROVE FALSE
  OBVIOUS
<1>2. PICK n \in Bad : \A k \in Bad : n <= k
  BY <1>1, LeastNumber
<1>3. n # 0 /\ n - 1 \in Nat
  BY <1>2
<1>4. n - 1 \in G
  BY <1>2, <1>3
<1> QED
  BY <1>2, <1>3, <1>4

\* Such a function at one place.
LEMMA FlattensAt ==
    ASSUME NEW ss, NEW n, NEW f, Flattens(ss, n, f), NEW i \in 1..n
    PROVE  f[i] = IF i = 1 THEN ss[i] ELSE f[i - 1] \o ss[i]
<1> DEFINE h == [j \in 1..n |-> IF j = 1 THEN ss[j] ELSE f[j - 1] \o ss[j]]
<1>1. f = h
  BY DEF Flattens
<1>2. h[i] = IF i = 1 THEN ss[i] ELSE f[i - 1] \o ss[i]
  BY Zenon
<1> HIDE DEF h
<1> QED
  BY <1>1, <1>2, Zenon

\* There is such a function, of every sequence.
LEMMA Flattenable ==
    ASSUME NEW ss, Len(ss) \in Nat PROVE Flattens(ss, Len(ss), Flattening(ss))
<1> DEFINE G == {n \in Nat : \E f : Flattens(ss, n, f)}
<1>1. 0 \in G
  <2>1. Flattens(ss, 0, [i \in 1..0 |-> 0])
    BY DEF Flattens
  <2> QED
    BY <2>1
<1>2. ASSUME NEW n \in Nat, n \in G PROVE n + 1 \in G
  <2>1. PICK f : Flattens(ss, n, f)
    BY <1>2
  <2> DEFINE g == [i \in 1..(n + 1) |->
                     IF i <= n THEN f[i]
                     ELSE IF i = 1 THEN ss[i] ELSE f[n] \o ss[i]]
  <2>2. \A i \in 1..(n + 1) : g[i] = IF i = 1 THEN ss[i] ELSE g[i - 1] \o ss[i]
    <3>1. SUFFICES ASSUME NEW i \in 1..(n + 1)
                   PROVE  g[i] = IF i = 1 THEN ss[i] ELSE g[i - 1] \o ss[i]
      OBVIOUS
    <3>2. CASE i <= n
      <4>1. f[i] = IF i = 1 THEN ss[i] ELSE f[i - 1] \o ss[i]
        BY <2>1, <3>2, FlattensAt
      <4>2. g[i] = f[i] /\ (i # 1 => g[i - 1] = f[i - 1])
        BY <3>2
      <4> QED
        BY <4>1, <4>2, Zenon
    <3>3. CASE i = n + 1
      <4>1. g[i] = (IF i = 1 THEN ss[i] ELSE f[n] \o ss[i])
            /\ (i # 1 => g[i - 1] = f[n])
        BY <3>3
      <4> QED
        BY <4>1, Zenon
    <3> QED
      BY <3>2, <3>3
  <2>3. g = [i \in 1..(n + 1) |-> g[i]]
    OBVIOUS
  <2> HIDE DEF g
  <2>4. Flattens(ss, n + 1, g)
    BY <2>2, <2>3, Zenon DEF Flattens
  <2> QED
    BY <2>4
<1>3. Nat \subseteq G
  <2> HIDE DEF G
  <2> QED
    BY <1>1, <1>2, Counting
<1>4. \E f : Flattens(ss, Len(ss), f)
  BY <1>3
<1> QED
  BY <1>4 DEF Flattening

\* Element p of s is the nth[p]-th of block at[p] of ss, in the order of both.
Laid(s, ss, n, at, nth) ==
    /\ at \in [1..Len(s) -> 1..n] /\ nth \in [1..Len(s) -> Nat]
    /\ \A p \in 1..Len(s) : nth[p] \in 1..Len(ss[at[p]]) /\ s[p] = ss[at[p]][nth[p]]
    /\ \A p, q \in 1..Len(s) :
          p < q => at[p] < at[q] \/ (at[p] = at[q] /\ nth[p] < nth[q])

\* One block more.
LEMMA LaidOn ==
    ASSUME NEW S, NEW s \in Seq(S), NEW ss, NEW n \in Nat, NEW at, NEW nth,
           Laid(s, ss, n, at, nth), ss[n + 1] \in Seq(S)
    PROVE  s \o ss[n + 1] \in Seq(S)
           /\ \E a, k : Laid(s \o ss[n + 1], ss, n + 1, a, k)
<1> DEFINE t == ss[n + 1]
           u == s \o t
           a == [p \in 1..Len(u) |-> IF p <= Len(s) THEN at[p] ELSE n + 1]
           k == [p \in 1..Len(u) |-> IF p <= Len(s) THEN nth[p] ELSE p - Len(s)]
<1>1. /\ u \in Seq(S) /\ Len(u) = Len(s) + Len(t)
      /\ Len(s) \in Nat /\ Len(t) \in Nat
      /\ \A p \in 1..Len(u) : u[p] = IF p <= Len(s) THEN s[p] ELSE t[p - Len(s)]
  BY ConcatProperties, LenProperties
<1>2. \A p \in 1..Len(u) : /\ a[p] = IF p <= Len(s) THEN at[p] ELSE n + 1
                           /\ k[p] = IF p <= Len(s) THEN nth[p] ELSE p - Len(s)
  OBVIOUS
<1>3. \A p \in 1..Len(s) : at[p] \in 1..n /\ nth[p] \in Nat /\ at[p] \in Nat
  BY DEF Laid
<1>4. a \in [1..Len(u) -> 1..(n + 1)] /\ k \in [1..Len(u) -> Nat]
  BY <1>1, <1>3
<1> HIDE DEF a, k, u
<1>5. ASSUME NEW p \in 1..Len(u)
      PROVE  k[p] \in 1..Len(ss[a[p]]) /\ u[p] = ss[a[p]][k[p]]
  <2>1. CASE p <= Len(s)
    <3>1. p \in 1..Len(s) /\ a[p] = at[p] /\ k[p] = nth[p] /\ u[p] = s[p]
      BY <1>1, <1>2, <2>1
    <3> QED
      BY <3>1 DEF Laid
  <2>2. CASE ~(p <= Len(s))
    <3>1. a[p] = n + 1 /\ k[p] = p - Len(s) /\ u[p] = t[p - Len(s)]
      BY <1>1, <1>2, <2>2
    <3>2. p - Len(s) \in 1..Len(t)
      BY <1>1, <2>2
    <3> QED
      BY <3>1, <3>2
  <2> QED
    BY <2>1, <2>2
<1>6. ASSUME NEW p \in 1..Len(u), NEW q \in 1..Len(u), p < q
      PROVE  a[p] < a[q] \/ (a[p] = a[q] /\ k[p] < k[q])
  <2>1. CASE q <= Len(s)
    <3>1. p \in 1..Len(s) /\ q \in 1..Len(s) /\ p <= Len(s)
      BY <1>1, <1>6, <2>1
    <3>2. /\ a[p] = at[p] /\ k[p] = nth[p] /\ a[q] = at[q] /\ k[q] = nth[q]
      BY <1>2, <2>1, <3>1
    <3> QED
      BY <1>6, <3>1, <3>2 DEF Laid
  <2>2. CASE ~(q <= Len(s)) /\ p <= Len(s)
    <3>1. p \in 1..Len(s) /\ a[p] = at[p] /\ a[q] = n + 1
      BY <1>1, <1>2, <2>2
    <3> QED
      BY <1>3, <3>1
  <2>3. CASE ~(p <= Len(s))
    <3>1. ~(q <= Len(s))
      BY <1>1, <1>6, <2>3
    <3>2. a[p] = n + 1 /\ a[q] = n + 1 /\ k[p] = p - Len(s) /\ k[q] = q - Len(s)
      BY <1>2, <2>3, <3>1
    <3> QED
      BY <1>1, <1>6, <3>2
  <2> QED
    BY <2>1, <2>2, <2>3
<1>7. Laid(u, ss, n + 1, a, k)
  BY <1>4, <1>5, <1>6, Zenon DEF Laid
<1> QED
  BY <1>1, <1>7 DEF u

\* What a flattened sequence consists of.
LEMMA FlattenLaid ==
    ASSUME NEW S, NEW ss \in Seq(Seq(S))
    PROVE  /\ FlattenSeq(ss) \in Seq(S)
           /\ \E at, nth : Laid(FlattenSeq(ss), ss, Len(ss), at, nth)
<1> DEFINE f == Flattening(ss)
<1>1. Len(ss) \in Nat /\ \A i \in 1..Len(ss) : ss[i] \in Seq(S)
  BY LenProperties, ElementOfSeq
<1>2. Flattens(ss, Len(ss), f)
  BY <1>1, Flattenable
<1> DEFINE Fine(i) == f[i] \in Seq(S) /\ \E at, nth : Laid(f[i], ss, i, at, nth)
           G == {i \in Nat : i >= 1 /\ i <= Len(ss) => Fine(i)}
<1>3. <<>> \in Seq(S) /\ Len(<<>>) = 0 /\ \E at, nth : Laid(<<>>, ss, 0, at, nth)
  <2>1. <<>> \in Seq(S) /\ Len(<<>>) = 0
    BY EmptySeq
  <2> DEFINE at == [p \in 1..0 |-> 0]
  <2>2. at \in [1..0 -> 1..0] /\ at \in [1..0 -> Nat]
    OBVIOUS
  <2> HIDE DEF at
  <2>3. Laid(<<>>, ss, 0, at, at)
    BY <2>1, <2>2 DEF Laid
  <2> QED
    BY <2>1, <2>3
<1> HIDE DEF f
<1>4. \A j \in 1..Len(ss) : f[j] = IF j = 1 THEN ss[j] ELSE f[j - 1] \o ss[j]
  BY <1>2, FlattensAt
<1>5. ASSUME NEW i \in Nat, i \in G PROVE i + 1 \in G
  <2>1. SUFFICES ASSUME i + 1 <= Len(ss) PROVE Fine(i + 1)
    BY <1>1
  <2>2. ss[i + 1] \in Seq(S)
    BY <1>1, <2>1
  <2>3. CASE i = 0
    <3>1. f[i + 1] = ss[i + 1]
      BY <1>1, <1>4, <2>1, <2>3
    <3>2. <<>> \o ss[i + 1] = ss[i + 1]
      BY <2>2, ConcatEmptySeq
    <3>3. PICK at, nth : Laid(<<>>, ss, i, at, nth)
      BY <1>3, <2>3
    <3>4. \E a, k : Laid(<<>> \o ss[i + 1], ss, i + 1, a, k)
      BY <1>3, <2>2, <3>3, LaidOn
    <3> QED
      BY <2>2, <3>1, <3>2, <3>4
  <2>4. CASE i # 0
    <3>1. f[i + 1] = f[i] \o ss[i + 1]
      <4>1. i + 1 \in 1..Len(ss) /\ i + 1 # 1 /\ (i + 1) - 1 = i
        BY <1>1, <2>1, <2>4
      <4>2. f[i + 1] = IF i + 1 = 1 THEN ss[i + 1] ELSE f[(i + 1) - 1] \o ss[i + 1]
        BY <1>4, <4>1, Zenon
      <4> QED
        BY <4>1, <4>2, Zenon
    <3>2. Fine(i)
      BY <1>1, <1>5, <2>1, <2>4
    <3>3. PICK at, nth : Laid(f[i], ss, i, at, nth)
      BY <3>2
    <3> QED
      BY <2>2, <3>1, <3>2, <3>3, LaidOn
  <2> QED
    BY <2>3, <2>4
<1>6. 0 \in G
  OBVIOUS
<1>7. Nat \subseteq G
  <2> HIDE DEF G
  <2> QED
    BY <1>5, <1>6, Counting
<1>8. CASE Len(ss) = 0
  <2>1. FlattenSeq(ss) = ss /\ ss = <<>>
    BY <1>8, FlattenIs, EmptySeq
  <2> QED
    BY <1>3, <1>8, <2>1
<1>9. CASE Len(ss) # 0
  <2>1. FlattenSeq(ss) = f[Len(ss)]
    BY <1>9, FlattenIs DEF f
  <2>2. Fine(Len(ss))
    BY <1>1, <1>7, <1>9
  <2> QED
    BY <2>1, <2>2
<1> QED
  BY <1>8, <1>9

\* Where no block has more than one element, each element has a block of its own.
LEMMA FlattenOnes ==
    ASSUME NEW S, NEW ss \in Seq(Seq(S)), \A i \in 1..Len(ss) : Len(ss[i]) <= 1
    PROVE  /\ FlattenSeq(ss) \in Seq(S)
           /\ \E at \in [1..Len(FlattenSeq(ss)) -> 1..Len(ss)] :
                 /\ \A p \in 1..Len(FlattenSeq(ss)) :
                       ss[at[p]] # <<>> /\ FlattenSeq(ss)[p] = ss[at[p]][1]
                 /\ \A p, q \in 1..Len(FlattenSeq(ss)) : p < q => at[p] < at[q]
<1> DEFINE s == FlattenSeq(ss)
<1>1. s \in Seq(S) /\ Len(s) \in Nat
  BY FlattenLaid, LenProperties
<1>2. PICK at, nth : Laid(s, ss, Len(ss), at, nth)
  BY FlattenLaid
<1> HIDE DEF s
<1>3. \A i \in 1..Len(ss) : Len(ss[i]) \in Nat /\ (ss[i] = <<>> => Len(ss[i]) = 0)
  BY LenProperties, ElementOfSeq, EmptySeq
<1>4. \A p \in 1..Len(s) : at[p] \in 1..Len(ss) /\ nth[p] = 1 /\ Len(ss[at[p]]) # 0
                           /\ s[p] = ss[at[p]][1]
  <2>1. SUFFICES ASSUME NEW p \in 1..Len(s)
                 PROVE  at[p] \in 1..Len(ss) /\ nth[p] = 1 /\ Len(ss[at[p]]) # 0
                           /\ s[p] = ss[at[p]][1]
    OBVIOUS
  <2>2. at[p] \in 1..Len(ss) /\ nth[p] \in 1..Len(ss[at[p]]) /\ s[p] = ss[at[p]][nth[p]]
    BY <1>2 DEF Laid
  <2>3. Len(ss[at[p]]) \in Nat /\ Len(ss[at[p]]) <= 1
    BY <1>3, <2>2
  <2> QED
    BY <2>2, <2>3
<1>5. \A p, q \in 1..Len(s) : p < q => at[p] < at[q]
  <2>1. SUFFICES ASSUME NEW p \in 1..Len(s), NEW q \in 1..Len(s), p < q
                 PROVE  at[p] < at[q]
    OBVIOUS
  <2>2. at[p] < at[q] \/ (at[p] = at[q] /\ nth[p] < nth[q])
    BY <1>2, <2>1 DEF Laid
  <2>3. nth[p] = 1 /\ nth[q] = 1
    BY <1>4
  <2> QED
    BY <2>2, <2>3
<1>6. at \in [1..Len(s) -> 1..Len(ss)]
  BY <1>2 DEF Laid
<1> QED
  BY <1>1, <1>3, <1>4, <1>5, <1>6 DEF s

-----------------------------------------------------------------------------
(* The targets of a configuration.                                          *)

Target == [table : Tables, keyed : BOOLEAN, hours : Nat]

\* The file gives a table one mapping, an owned table none, and the lifecycle table
\* not one of events.
WellMapped(d) ==
    /\ \A i, j \in DOMAIN d.file : d.file[i].table = d.file[j].table => i = j
    /\ \A i \in DOMAIN d.file : d.file[i].table \notin DOMAIN ParentOwned
    /\ \A i \in DOMAIN d.file : d.file[i].mode = "append" => d.file[i].table # LifecycleTable

\* The mappings of a file, of the assumption.
LEMMA FileIs ==
    ASSUME NEW d \in Deployments
    PROVE  /\ Len(d.file) \in Nat /\ DOMAIN d.file = 1..Len(d.file)
           /\ d.env \in Nat \cup {None}
           /\ \A i \in 1..Len(d.file) :
                /\ d.file[i] \in Mapping
                /\ d.file[i].table \in Tables
                /\ d.file[i].retention \in Nat \cup {None}
                /\ d.file[i].ttl \in Nat \cup {None}
<1>1. d.file \in Seq(Mapping) /\ d.env \in Nat \cup {None}
  BY RetentionAssumption
<1>2. \A i \in 1..Len(d.file) : d.file[i] \in Mapping
  BY <1>1, ElementOfSeq
<1> QED
  BY <1>1, <1>2, LenProperties DEF Mapping

\* A block of one target or none.
LEMMA BlockIs ==
    ASSUME NEW d \in Deployments, NEW i \in 1..Len(d.file)
    PROVE  /\ AppendTarget(d.file[i]) \in Seq(Target) /\ Len(AppendTarget(d.file[i])) <= 1
           /\ AgedTarget(d.file[i], d.env) \in Seq(Target)
           /\ Len(AgedTarget(d.file[i], d.env)) <= 1
           /\ AppendTarget(d.file[i]) # <<>> =>
                /\ AppendTarget(d.file[i])[1].table = d.file[i].table
                /\ AppendTarget(d.file[i])[1].keyed = FALSE
                /\ d.file[i].mode = "append"
           /\ AgedTarget(d.file[i], d.env) # <<>> =>
                /\ AgedTarget(d.file[i], d.env)[1].table = d.file[i].table
                /\ AgedTarget(d.file[i], d.env)[1].keyed = Keyed(d.file[i].table)
                /\ d.file[i].mode # "append"
<1> DEFINE m == d.file[i]
<1>1. /\ m.table \in Tables /\ m.retention \in Nat \cup {None}
      /\ m.ttl \in Nat \cup {None} /\ d.env \in Nat \cup {None}
  BY FileIs
<1> HIDE DEF m
<1>2. <<>> \in Seq(Target) /\ Len(<<>>) = 0
  BY EmptySeq
<1>3. \A t \in Target : <<t>> \in Seq(Target) /\ Len(<<t>>) = 1 /\ <<t>>[1] = t
  OBVIOUS
<1>4. CASE m.mode = "append" /\ Truthy(m.retention)
  <2> DEFINE t == [table |-> m.table, keyed |-> FALSE, hours |-> m.retention]
  <2>1. t \in Target
    BY <1>1, <1>4 DEF Truthy, Target
  <2>2. AppendTarget(m) = <<t>> /\ t.table = m.table /\ t.keyed = FALSE
    BY <1>4 DEF AppendTarget
  <2>3. AgedTarget(m, d.env) = <<>>
    BY <1>4 DEF AgedTarget
  <2> HIDE DEF t
  <2> QED
    BY <1>2, <1>3, <1>4, <2>1, <2>2, <2>3 DEF m
<1>5. CASE /\ m.mode = "upsert" \/ (m.mode = "custom" /\ m.table \in CustomPruned)
           /\ Truthy(Ttl(m, d.env))
  <2> DEFINE t == [table |-> m.table, keyed |-> Keyed(m.table), hours |-> Ttl(m, d.env)]
  <2>1. Ttl(m, d.env) \in Nat /\ Keyed(m.table) \in BOOLEAN
    BY <1>1, <1>5 DEF Truthy, Ttl, Keyed
  <2>2. t \in Target
    BY <1>1, <2>1 DEF Target
  <2>3. AgedTarget(m, d.env) = <<t>> /\ t.table = m.table /\ t.keyed = Keyed(m.table)
    BY <1>5, Zenon DEF AgedTarget
  <2>4. AppendTarget(m) = <<>> /\ m.mode # "append"
    BY <1>5 DEF AppendTarget
  <2> HIDE DEF t
  <2> QED
    BY <1>2, <1>3, <2>2, <2>3, <2>4 DEF m
<1>6. CASE /\ ~(m.mode = "append" /\ Truthy(m.retention))
           /\ ~(/\ m.mode = "upsert" \/ (m.mode = "custom" /\ m.table \in CustomPruned)
                /\ Truthy(Ttl(m, d.env)))
  <2>1. AppendTarget(m) = <<>> /\ AgedTarget(m, d.env) = <<>>
    BY <1>6, Zenon DEF AppendTarget, AgedTarget
  <2> QED
    BY <1>2, <2>1 DEF m
<1> QED
  BY <1>4, <1>5, <1>6

\* Each comes from one mapping, in the order of the file.
LEMMA AppendTargetsAre ==
    ASSUME NEW d \in Deployments
    PROVE  /\ AppendTargets(d) \in Seq(Target)
           /\ \E at \in [1..Len(AppendTargets(d)) -> 1..Len(d.file)] :
                /\ \A p \in 1..Len(AppendTargets(d)) :
                     /\ AppendTargets(d)[p].table = d.file[at[p]].table
                     /\ AppendTargets(d)[p].keyed = FALSE
                     /\ d.file[at[p]].mode = "append"
                /\ \A p, q \in 1..Len(AppendTargets(d)) : p < q => at[p] < at[q]
<1> DEFINE ss == [i \in 1..Len(d.file) |-> AppendTarget(d.file[i])]
<1>1. Len(d.file) \in Nat /\ DOMAIN d.file = 1..Len(d.file)
  BY FileIs
<1>2. \A i \in 1..Len(d.file) : /\ AppendTarget(d.file[i]) \in Seq(Target)
                                /\ Len(AppendTarget(d.file[i])) <= 1
  BY BlockIs
<1>3. ss \in Seq(Seq(Target)) /\ Len(ss) = Len(d.file)
  BY <1>1, <1>2
<1>4. \A i \in 1..Len(d.file) : ss[i] = AppendTarget(d.file[i])
  OBVIOUS
<1>5. AppendTargets(d) = FlattenSeq(ss)
  BY <1>1 DEF AppendTargets
<1> HIDE DEF ss
<1>6. \A i \in 1..Len(ss) : Len(ss[i]) <= 1
  BY <1>2, <1>3, <1>4
<1>7. /\ AppendTargets(d) \in Seq(Target)
      /\ \E at \in [1..Len(AppendTargets(d)) -> 1..Len(d.file)] :
           /\ \A p \in 1..Len(AppendTargets(d)) :
                ss[at[p]] # <<>> /\ AppendTargets(d)[p] = ss[at[p]][1]
           /\ \A p, q \in 1..Len(AppendTargets(d)) : p < q => at[p] < at[q]
  BY <1>3, <1>5, <1>6, FlattenOnes
<1>8. PICK at \in [1..Len(AppendTargets(d)) -> 1..Len(d.file)] :
           /\ \A p \in 1..Len(AppendTargets(d)) :
                ss[at[p]] # <<>> /\ AppendTargets(d)[p] = ss[at[p]][1]
           /\ \A p, q \in 1..Len(AppendTargets(d)) : p < q => at[p] < at[q]
  BY <1>7
<1>9. ASSUME NEW p \in 1..Len(AppendTargets(d))
      PROVE  /\ AppendTargets(d)[p].table = d.file[at[p]].table
             /\ AppendTargets(d)[p].keyed = FALSE
             /\ d.file[at[p]].mode = "append"
  <2>1. /\ at[p] \in 1..Len(d.file)
        /\ AppendTarget(d.file[at[p]]) # <<>>
        /\ AppendTargets(d)[p] = AppendTarget(d.file[at[p]])[1]
    BY <1>4, <1>8
  <2> QED
    BY <2>1, BlockIs
<1> QED
  BY <1>7, <1>8, <1>9, Zenon

\* So do those that are aged.
LEMMA AgedTargetsAre ==
    ASSUME NEW d \in Deployments
    PROVE  /\ AgedTargets(d) \in Seq(Target)
           /\ \E at \in [1..Len(AgedTargets(d)) -> 1..Len(d.file)] :
                /\ \A p \in 1..Len(AgedTargets(d)) :
                     /\ AgedTargets(d)[p].table = d.file[at[p]].table
                     /\ AgedTargets(d)[p].keyed = Keyed(d.file[at[p]].table)
                     /\ d.file[at[p]].mode # "append"
                /\ \A p, q \in 1..Len(AgedTargets(d)) : p < q => at[p] < at[q]
<1> DEFINE ss == [i \in 1..Len(d.file) |-> AgedTarget(d.file[i], d.env)]
<1>1. Len(d.file) \in Nat /\ DOMAIN d.file = 1..Len(d.file)
  BY FileIs
<1>2. \A i \in 1..Len(d.file) : /\ AgedTarget(d.file[i], d.env) \in Seq(Target)
                                /\ Len(AgedTarget(d.file[i], d.env)) <= 1
  BY BlockIs
<1>3. ss \in Seq(Seq(Target)) /\ Len(ss) = Len(d.file)
  BY <1>1, <1>2
<1>4. \A i \in 1..Len(d.file) : ss[i] = AgedTarget(d.file[i], d.env)
  OBVIOUS
<1>5. AgedTargets(d) = FlattenSeq(ss)
  BY <1>1 DEF AgedTargets
<1> HIDE DEF ss
<1>6. \A i \in 1..Len(ss) : Len(ss[i]) <= 1
  BY <1>2, <1>3, <1>4
<1>7. /\ AgedTargets(d) \in Seq(Target)
      /\ \E at \in [1..Len(AgedTargets(d)) -> 1..Len(d.file)] :
           /\ \A p \in 1..Len(AgedTargets(d)) :
                ss[at[p]] # <<>> /\ AgedTargets(d)[p] = ss[at[p]][1]
           /\ \A p, q \in 1..Len(AgedTargets(d)) : p < q => at[p] < at[q]
  BY <1>3, <1>5, <1>6, FlattenOnes
<1>8. PICK at \in [1..Len(AgedTargets(d)) -> 1..Len(d.file)] :
           /\ \A p \in 1..Len(AgedTargets(d)) :
                ss[at[p]] # <<>> /\ AgedTargets(d)[p] = ss[at[p]][1]
           /\ \A p, q \in 1..Len(AgedTargets(d)) : p < q => at[p] < at[q]
  BY <1>7
<1>9. ASSUME NEW p \in 1..Len(AgedTargets(d))
      PROVE  /\ AgedTargets(d)[p].table = d.file[at[p]].table
             /\ AgedTargets(d)[p].keyed = Keyed(d.file[at[p]].table)
             /\ d.file[at[p]].mode # "append"
  <2>1. /\ at[p] \in 1..Len(d.file)
        /\ AgedTarget(d.file[at[p]], d.env) # <<>>
        /\ AgedTargets(d)[p] = AgedTarget(d.file[at[p]], d.env)[1]
    BY <1>4, <1>8
  <2> QED
    BY <2>1, BlockIs
<1> QED
  BY <1>7, <1>8, <1>9, Zenon

\* The targets of the lifecycle table, or the others, in their order.
LEMMA OfLifecycleAre ==
    ASSUME NEW ts \in Seq(Target), NEW kept \in BOOLEAN
    PROVE  /\ OfLifecycle(ts, kept) \in Seq(Target)
           /\ \E at \in [1..Len(OfLifecycle(ts, kept)) -> 1..Len(ts)] :
                /\ \A p \in 1..Len(OfLifecycle(ts, kept)) :
                     /\ OfLifecycle(ts, kept)[p] = ts[at[p]]
                     /\ (ts[at[p]].table = LifecycleTable) = kept
                /\ \A p, q \in 1..Len(OfLifecycle(ts, kept)) : p < q => at[p] < at[q]
<1> DEFINE o == OfLifecycle(ts, kept)
           block(i) == IF (ts[i].table = LifecycleTable) = kept THEN <<ts[i]>> ELSE <<>>
           ss == [i \in 1..Len(ts) |-> block(i)]
<1>1. /\ Len(ts) \in Nat /\ DOMAIN ts = 1..Len(ts)
      /\ \A i \in 1..Len(ts) : ts[i] \in Target
  BY LenProperties, ElementOfSeq
<1>2. ASSUME NEW i \in 1..Len(ts)
      PROVE  /\ block(i) \in Seq(Target) /\ Len(block(i)) <= 1
             /\ block(i) # <<>> => /\ block(i)[1] = ts[i]
                                   /\ (ts[i].table = LifecycleTable) = kept
  <2>1. /\ <<ts[i]>> \in Seq(Target) /\ Len(<<ts[i]>>) = 1 /\ <<ts[i]>>[1] = ts[i]
        /\ <<>> \in Seq(Target) /\ Len(<<>>) = 0
    BY <1>1, EmptySeq
  <2>2. 0 <= 1 /\ 1 <= 1
    OBVIOUS
  <2> QED
    BY <2>1, <2>2, Zenon
<1>3. ss \in Seq(Seq(Target)) /\ Len(ss) = Len(ts)
  <2> HIDE DEF block
  <2> QED
    BY <1>1, <1>2
<1>4. \A i \in 1..Len(ts) : ss[i] = block(i)
  <2> HIDE DEF block
  <2> QED
    OBVIOUS
<1>5. o = FlattenSeq(ss)
  BY <1>1, Zenon DEF OfLifecycle
<1> HIDE DEF ss, block, o
<1>6. \A i \in 1..Len(ss) : Len(ss[i]) <= 1
  BY <1>2, <1>3, <1>4
<1>7. /\ o \in Seq(Target)
      /\ \E at \in [1..Len(o) -> 1..Len(ts)] :
           /\ \A p \in 1..Len(o) : ss[at[p]] # <<>> /\ o[p] = ss[at[p]][1]
           /\ \A p, q \in 1..Len(o) : p < q => at[p] < at[q]
  BY <1>3, <1>5, <1>6, FlattenOnes
<1>8. PICK at \in [1..Len(o) -> 1..Len(ts)] :
           /\ \A p \in 1..Len(o) : ss[at[p]] # <<>> /\ o[p] = ss[at[p]][1]
           /\ \A p, q \in 1..Len(o) : p < q => at[p] < at[q]
  BY <1>7
<1>9. ASSUME NEW p \in 1..Len(o)
      PROVE  o[p] = ts[at[p]] /\ (ts[at[p]].table = LifecycleTable) = kept
  <2>1. at[p] \in 1..Len(ts) /\ block(at[p]) # <<>> /\ o[p] = block(at[p])[1]
    BY <1>4, <1>8
  <2> QED
    BY <1>2, <2>1, Zenon
<1> QED
  BY <1>7, <1>8, <1>9, Zenon DEF o
\* The one owned table, and its owner.
LEMMA OwnedTable ==
    /\ DOMAIN ParentOwned = {"asset_element_state"}
    /\ ParentOwned["asset_element_state"] = "asset_element_telemetry"
    /\ "asset_element_state" \in Tables /\ "asset_element_telemetry" \in Tables
    /\ "asset_element_state" # LifecycleTable
    /\ "asset_element_telemetry" # LifecycleTable
<1>1. /\ DOMAIN ParentOwned = {"asset_element_state"}
      /\ ParentOwned["asset_element_state"] = "asset_element_telemetry"
  BY DEF ParentOwned
<1>2. "asset_element_telemetry" \in Range(ParentOwned)
  BY <1>1 DEF Range
<1>3. "asset_element_state" \in Tables /\ "asset_element_telemetry" \in Tables
  BY <1>1, <1>2, RetentionAssumption, Zenon
<1> QED
  BY <1>1, <1>3 DEF LifecycleTable

OwnedTarget == [table |-> "asset_element_state", keyed |-> TRUE, hours |-> 0]

\* A set of one element, or none, as a sequence.
LEMMA OneToSeq ==
    ASSUME NEW S, NEW x, S = {} \/ S = {x}
    PROVE  /\ SetToSeq(S) \in Seq(S) /\ Len(SetToSeq(S)) <= 1
           /\ Len(SetToSeq(S)) # 0 => SetToSeq(S)[1] = x /\ S = {x}
<1>1. CASE S = {}
  <2>1. Cardinality(S) = 0
    BY <1>1, FS_EmptySet
  <2> DEFINE g == [i \in 1..0 |-> x]
  <2>2. g \in [1..Cardinality(S) -> S] /\ IsInjective(g)
    BY <2>1 DEF IsInjective
  <2> HIDE DEF g
  <2>3. SetToSeq(S) \in [1..0 -> S]
    BY <2>1, <2>2 DEF SetToSeq
  <2>4. SetToSeq(S) \in Seq(S) /\ Len(SetToSeq(S)) = 0
    BY <2>3
  <2> QED
    BY <2>4
<1>2. CASE S = {x}
  <2>1. Cardinality(S) = 1
    BY <1>2, FS_Singleton
  <2> DEFINE g == [i \in 1..1 |-> x]
  <2>2. g \in [1..Cardinality(S) -> S] /\ IsInjective(g)
    BY <1>2, <2>1 DEF IsInjective
  <2> HIDE DEF g
  <2>3. SetToSeq(S) \in [1..1 -> S]
    <3>1. \E f \in [1..Cardinality(S) -> S] : IsInjective(f)
      BY <2>2
    <3>2. SetToSeq(S) \in [1..Cardinality(S) -> S]
      BY <3>1, Zenon DEF SetToSeq
    <3> QED
      BY <2>1, <3>2, Zenon
  <2>4. SetToSeq(S) \in Seq(S) /\ Len(SetToSeq(S)) = 1 /\ SetToSeq(S)[1] \in S
    <3>1. \A n \in Nat : \A f \in [1..n -> S] : f \in Seq(S) /\ Len(f) = n
      OBVIOUS
    <3>2. SetToSeq(S) \in Seq(S) /\ Len(SetToSeq(S)) = 1
      BY <2>3, <3>1
    <3> QED
      BY <3>2, ElementOfSeq
  <2>5. \A y \in S : y = x
    BY <1>2
  <2>6. 1 <= 1
    OBVIOUS
  <2> QED
    BY <1>2, <2>4, <2>5, <2>6, Zenon
<1> QED
  BY <1>1, <1>2

\* What follows a target: the owned table's, if it is its owner's.
LEMMA OwnedIs ==
    ASSUME NEW ts \in Seq(Target), NEW i \in 1..Len(ts)
    PROVE  /\ OwnedAfter(ts, i) \in Seq(Target) /\ Len(OwnedAfter(ts, i)) <= 1
           /\ Len(OwnedAfter(ts, i)) # 0 =>
                /\ OwnedAfter(ts, i)[1] = OwnedTarget
                /\ ts[i].table = "asset_element_telemetry"
<1> DEFINE Owns(c) == /\ ParentOwned[c] = ts[i].table
                      /\ \A j \in 1..(i - 1) : ts[j].table # ParentOwned[c]
           C == {c \in DOMAIN ParentOwned : Owns(c)}
           S == {[table |-> c, keyed |-> TRUE, hours |-> 0] : c \in C}
<1>1. OwnedAfter(ts, i) = SetToSeq(S)
  BY Zenon DEF OwnedAfter
<1>2. /\ C = {} \/ C = {"asset_element_state"}
      /\ C # {} => ts[i].table = "asset_element_telemetry"
  <2> HIDE DEF Owns
  <2>1. C \subseteq {"asset_element_state"}
    BY OwnedTable
  <2>2. C # {} => Owns("asset_element_state")
    BY OwnedTable
  <2>3. Owns("asset_element_state") => ts[i].table = "asset_element_telemetry"
    BY OwnedTable, Zenon DEF Owns
  <2> QED
    BY <2>1, <2>2, <2>3
<1> HIDE DEF C
<1>3. S = {} \/ S = {OwnedTarget}
  BY <1>2 DEF OwnedTarget
<1>4. S \subseteq Target /\ (S # {} => C # {})
  <2>1. OwnedTarget \in Target
    BY OwnedTable DEF OwnedTarget, Target
  <2>2. S # {} => C # {}
    OBVIOUS
  <2> HIDE DEF S
  <2> QED
    BY <1>3, <2>1, <2>2
<1> HIDE DEF S
<1>5. /\ SetToSeq(S) \in Seq(S) /\ Len(SetToSeq(S)) <= 1
      /\ Len(SetToSeq(S)) # 0 => SetToSeq(S)[1] = OwnedTarget /\ S = {OwnedTarget}
  BY <1>3, OneToSeq
<1>6. Seq(S) \subseteq Seq(Target)
  BY <1>4
<1> QED
  BY <1>1, <1>2, <1>4, <1>5, <1>6
\* The targets, each owned one after a target of its owner.
LEMMA WithOwnedAre ==
    ASSUME NEW ts \in Seq(Target)
    PROVE  /\ WithOwned(ts) \in Seq(Target)
           /\ \E at \in [1..Len(WithOwned(ts)) -> 1..Len(ts)],
                 nth \in [1..Len(WithOwned(ts)) -> 1..2] :
                /\ \A p \in 1..Len(WithOwned(ts)) :
                     IF nth[p] = 1 THEN WithOwned(ts)[p] = ts[at[p]]
                     ELSE /\ WithOwned(ts)[p] = OwnedTarget
                          /\ ts[at[p]].table = "asset_element_telemetry"
                /\ \A p, q \in 1..Len(WithOwned(ts)) :
                     p < q => at[p] < at[q] \/ (at[p] = at[q] /\ nth[p] < nth[q])
<1> DEFINE w == WithOwned(ts)
           block(i) == <<ts[i]>> \o OwnedAfter(ts, i)
           ss == [i \in 1..Len(ts) |-> block(i)]
<1>1. /\ Len(ts) \in Nat /\ DOMAIN ts = 1..Len(ts)
      /\ \A i \in 1..Len(ts) : ts[i] \in Target
  BY LenProperties, ElementOfSeq
<1>2. ASSUME NEW i \in 1..Len(ts)
      PROVE  /\ block(i) \in Seq(Target) /\ Len(block(i)) \in 1..2
             /\ block(i)[1] = ts[i]
             /\ Len(block(i)) = 2 => /\ block(i)[2] = OwnedTarget
                                     /\ ts[i].table = "asset_element_telemetry"
  <2> DEFINE o == OwnedAfter(ts, i)
             e == <<ts[i]>>
  <2>1. /\ o \in Seq(Target) /\ Len(o) <= 1 /\ Len(o) \in Nat
        /\ Len(o) # 0 => o[1] = OwnedTarget /\ ts[i].table = "asset_element_telemetry"
    BY OwnedIs, LenProperties
  <2>2. e \in Seq(Target) /\ Len(e) = 1 /\ e[1] = ts[i]
    BY <1>1
  <2> HIDE DEF o, e
  <2>3. /\ e \o o \in Seq(Target) /\ Len(e \o o) = Len(e) + Len(o)
        /\ \A p \in 1..Len(e) + Len(o) :
              (e \o o)[p] = IF p <= Len(e) THEN e[p] ELSE o[p - Len(e)]
    BY <2>1, <2>2, ConcatProperties
  <2>4. e \o o = block(i)
    BY DEF e, o
  <2> HIDE DEF block
  <2>5. Len(block(i)) \in 1..2 /\ block(i)[1] = ts[i]
    BY <2>1, <2>2, <2>3, <2>4
  <2>6. ASSUME Len(block(i)) = 2 PROVE Len(o) # 0 /\ block(i)[2] = o[1]
    <3>1. Len(o) = 1 /\ 2 \in 1..Len(e) + Len(o) /\ ~(2 <= Len(e)) /\ 2 - Len(e) = 1
      <4>1. Len(e) + Len(o) = 2 /\ Len(e) = 1 /\ Len(o) \in Nat
        BY <2>1, <2>2, <2>3, <2>4, <2>6
      <4>2. \A x, y \in Nat : x + y = 2 /\ x = 1 =>
                y = 1 /\ 2 \in 1..x + y /\ ~(2 <= x) /\ 2 - x = 1
        OBVIOUS
      <4>3. Len(e) \in Nat
        BY <2>2
      <4> QED
        BY <4>1, <4>2, <4>3, Zenon
    <3>2. (e \o o)[2] = IF 2 <= Len(e) THEN e[2] ELSE o[2 - Len(e)]
      BY <2>3, <3>1, Zenon
    <3>3. (e \o o)[2] = o[1]
      BY <3>1, <3>2, Zenon
    <3> QED
      BY <2>4, <3>1, <3>3
  <2> QED
    BY <2>1, <2>3, <2>4, <2>5, <2>6
<1> HIDE DEF block
<1>3. ss \in Seq(Seq(Target)) /\ Len(ss) = Len(ts)
  BY <1>1, <1>2
<1>4. \A i \in 1..Len(ts) : ss[i] = block(i)
  OBVIOUS
<1>5. w = FlattenSeq(ss)
  BY <1>1, Zenon DEF WithOwned, block
<1> HIDE DEF ss
<1>6. w \in Seq(Target) /\ \E a, k : Laid(w, ss, Len(ts), a, k)
  BY <1>3, <1>5, FlattenLaid
<1>7. PICK at, nth : Laid(w, ss, Len(ts), at, nth)
  BY <1>6
<1> HIDE DEF w
<1>8. ASSUME NEW p \in 1..Len(w)
      PROVE  /\ at[p] \in 1..Len(ts) /\ nth[p] \in 1..2
             /\ IF nth[p] = 1 THEN w[p] = ts[at[p]]
                ELSE w[p] = OwnedTarget /\ ts[at[p]].table = "asset_element_telemetry"
  <2>1. at[p] \in 1..Len(ts) /\ nth[p] \in 1..Len(ss[at[p]]) /\ w[p] = ss[at[p]][nth[p]]
    BY <1>7 DEF Laid
  <2>2. ss[at[p]] = block(at[p])
    BY <1>4, <2>1
  <2>3. /\ Len(block(at[p])) \in 1..2
        /\ block(at[p])[1] = ts[at[p]]
        /\ Len(block(at[p])) = 2 => /\ block(at[p])[2] = OwnedTarget
                                    /\ ts[at[p]].table = "asset_element_telemetry"
    BY <1>2, <2>1
  <2>4. nth[p] = 1 \/ (nth[p] = 2 /\ Len(block(at[p])) = 2)
    BY <2>1, <2>2, <2>3
  <2> QED
    BY <2>1, <2>2, <2>3, <2>4
<1>9. at \in [1..Len(w) -> 1..Len(ts)] /\ nth \in [1..Len(w) -> 1..2]
  BY <1>7, <1>8 DEF Laid
<1>10. \A p, q \in 1..Len(w) : p < q => at[p] < at[q] \/ (at[p] = at[q] /\ nth[p] < nth[q])
  BY <1>7 DEF Laid
<1> SUFFICES \E a \in [1..Len(w) -> 1..Len(ts)], k \in [1..Len(w) -> 1..2] :
                /\ \A p \in 1..Len(w) :
                     IF k[p] = 1 THEN w[p] = ts[a[p]]
                     ELSE /\ w[p] = OwnedTarget
                          /\ ts[a[p]].table = "asset_element_telemetry"
                /\ \A p, q \in 1..Len(w) :
                     p < q => a[p] < a[q] \/ (a[p] = a[q] /\ k[p] < k[q])
  BY <1>6, Zenon DEF w
<1> USE <1>9
<1> WITNESS at \in [1..Len(w) -> 1..Len(ts)], nth \in [1..Len(w) -> 1..2]
<1> QED
  BY <1>8, <1>10, Zenon

\* What the stages of build_prune_targets keep: a table has one target, the
\* lifecycle table has the last, and an owned table's comes after its owner's.
Distinct(ts) == \A p, q \in 1..Len(ts) : ts[p].table = ts[q].table => p = q
Unowned(ts) == \A p \in 1..Len(ts) : ts[p].table \notin DOMAIN ParentOwned
AtEnd(ts) == \A p, q \in 1..Len(ts) : p < q => ts[p].table # LifecycleTable
OwnerFirst(ts) ==
    \A p, q \in 1..Len(ts) :
        ts[p].table = "asset_element_state" /\ ts[q].table = "asset_element_telemetry"
        => q < p

\* Where a target comes from.
Appended(t, d) == /\ t.keyed = FALSE
                  /\ \E i \in DOMAIN d.file : d.file[i].table = t.table
                                              /\ d.file[i].mode = "append"
Aged(t, d) == /\ t.keyed = Keyed(t.table)
              /\ \E i \in DOMAIN d.file : d.file[i].table = t.table
                                          /\ d.file[i].mode # "append"

\* The sort keeps the targets and brings the lifecycle table's to the end.
LEMMA LifecycleLastAre ==
    ASSUME NEW ts \in Seq(Target)
    PROVE  /\ LifecycleLast(ts) \in Seq(Target)
           /\ \A p \in 1..Len(LifecycleLast(ts)) :
                 \E i \in 1..Len(ts) : LifecycleLast(ts)[p] = ts[i]
           /\ Distinct(ts) => Distinct(LifecycleLast(ts)) /\ AtEnd(LifecycleLast(ts))
<1> DEFINE a == OfLifecycle(ts, FALSE)
           b == OfLifecycle(ts, TRUE)
           c == LifecycleLast(ts)
<1>1. a \in Seq(Target) /\ b \in Seq(Target)
  BY OfLifecycleAre
<1>2. PICK at \in [1..Len(a) -> 1..Len(ts)] :
        /\ \A p \in 1..Len(a) : /\ a[p] = ts[at[p]]
                                /\ (ts[at[p]].table = LifecycleTable) = FALSE
        /\ \A p, q \in 1..Len(a) : p < q => at[p] < at[q]
  BY OfLifecycleAre
<1>3. PICK bt \in [1..Len(b) -> 1..Len(ts)] :
        /\ \A p \in 1..Len(b) : /\ b[p] = ts[bt[p]]
                                /\ (ts[bt[p]].table = LifecycleTable) = TRUE
        /\ \A p, q \in 1..Len(b) : p < q => bt[p] < bt[q]
  BY OfLifecycleAre
<1> HIDE DEF a, b
<1>4. c = a \o b
  BY DEF LifecycleLast, a, b
<1> HIDE DEF c
<1>5. /\ c \in Seq(Target) /\ Len(c) = Len(a) + Len(b) /\ Len(a) \in Nat /\ Len(b) \in Nat
      /\ \A p \in 1..Len(c) : c[p] = IF p <= Len(a) THEN a[p] ELSE b[p - Len(a)]
  BY <1>1, <1>4, ConcatProperties, LenProperties
<1>6. ASSUME NEW p \in 1..Len(c)
      PROVE  IF p <= Len(a)
             THEN /\ c[p] = ts[at[p]] /\ at[p] \in 1..Len(ts) /\ c[p].table # LifecycleTable
             ELSE /\ c[p] = ts[bt[p - Len(a)]] /\ bt[p - Len(a)] \in 1..Len(ts)
                  /\ p - Len(a) \in 1..Len(b)
                  /\ c[p].table = LifecycleTable
  <2>1. CASE p <= Len(a)
    <3>1. p \in 1..Len(a) /\ c[p] = a[p]
      BY <1>5, <2>1
    <3> QED
      BY <1>2, <2>1, <3>1
  <2>2. CASE ~(p <= Len(a))
    <3>1. p - Len(a) \in 1..Len(b) /\ c[p] = b[p - Len(a)]
      BY <1>5, <2>2
    <3> QED
      BY <1>3, <2>2, <3>1
  <2> QED
    BY <2>1, <2>2
<1>7. \A p \in 1..Len(c) : \E i \in 1..Len(ts) : c[p] = ts[i]
  BY <1>6
<1>8. ASSUME Distinct(ts), NEW p \in 1..Len(c), NEW q \in 1..Len(c), p < q
      PROVE  c[p].table # c[q].table
  <2>1. CASE q <= Len(a)
    <3>1. p \in 1..Len(a) /\ q \in 1..Len(a) /\ p <= Len(a)
      BY <1>5, <1>8, <2>1
    <3>2. at[p] < at[q]
      BY <1>2, <1>8, <3>1
    <3>3. at[p] # at[q]
      BY <3>1, <3>2, <1>2
    <3> QED
      BY <1>6, <1>8, <2>1, <3>1, <3>3 DEF Distinct
  <2>2. CASE ~(q <= Len(a)) /\ p <= Len(a)
    BY <1>6, <2>2
  <2>3. CASE ~(p <= Len(a))
    <3>1. /\ ~(q <= Len(a)) /\ p - Len(a) < q - Len(a)
          /\ p - Len(a) \in 1..Len(b) /\ q - Len(a) \in 1..Len(b)
      BY <1>5, <1>8, <2>3
    <3>2. PICK i \in 1..Len(b), j \in 1..Len(b) : i = p - Len(a) /\ j = q - Len(a)
      BY <3>1
    <3>3. bt[i] < bt[j] /\ bt[i] \in Nat /\ bt[j] \in Nat
      <4>1. i < j
        BY <3>1, <3>2
      <4>2. bt[i] < bt[j]
        BY <1>3, <4>1, Zenon
      <4> QED
        BY <4>2
    <3>4. c[p] = ts[bt[i]] /\ c[q] = ts[bt[j]]
          /\ bt[i] \in 1..Len(ts) /\ bt[j] \in 1..Len(ts)
      BY <1>6, <2>3, <3>1, <3>2, Zenon
    <3>5. bt[i] # bt[j]
      BY <3>3
    <3> QED
      BY <1>8, <3>4, <3>5 DEF Distinct
  <2> QED
    BY <2>1, <2>2, <2>3
<1>9. ASSUME Distinct(ts) PROVE Distinct(c) /\ AtEnd(c)
  <2>1. ASSUME NEW p \in 1..Len(c), NEW q \in 1..Len(c), c[p].table = c[q].table
        PROVE  p = q
    BY <1>5, <1>8, <1>9, <2>1
  <2>2. ASSUME NEW p \in 1..Len(c), NEW q \in 1..Len(c), p < q
        PROVE  c[p].table # LifecycleTable
    <3>1. CASE p <= Len(a)
      BY <1>6, <3>1
    <3>2. CASE ~(p <= Len(a))
      <4>1. ~(q <= Len(a))
        BY <1>5, <2>2, <3>2
      <4>2. c[q].table = LifecycleTable /\ c[p].table # c[q].table
        BY <1>6, <1>8, <1>9, <2>2, <4>1
      <4> QED
        BY <4>2
    <3> QED
      BY <3>1, <3>2
  <2> QED
    BY <2>1, <2>2 DEF Distinct, AtEnd
<1> QED
  BY <1>5, <1>7, <1>9 DEF c
\* The owned table's target is put behind its owner's, before the lifecycle table's.
LEMMA WithOwnedKeeps ==
    ASSUME NEW ts \in Seq(Target), Distinct(ts), Unowned(ts), AtEnd(ts)
    PROVE  /\ Distinct(WithOwned(ts)) /\ AtEnd(WithOwned(ts))
           /\ OwnerFirst(WithOwned(ts))
<1> DEFINE w == WithOwned(ts)
<1>1. PICK at \in [1..Len(w) -> 1..Len(ts)], nth \in [1..Len(w) -> 1..2] :
                /\ \A p \in 1..Len(w) :
                     IF nth[p] = 1 THEN w[p] = ts[at[p]]
                     ELSE /\ w[p] = OwnedTarget
                          /\ ts[at[p]].table = "asset_element_telemetry"
                /\ \A p, q \in 1..Len(w) :
                     p < q => at[p] < at[q] \/ (at[p] = at[q] /\ nth[p] < nth[q])
  BY WithOwnedAre, Zenon
<1>2. w \in Seq(Target) /\ Len(w) \in Nat /\ Len(ts) \in Nat
  BY WithOwnedAre, LenProperties
<1> HIDE DEF w
<1>3. \A p \in 1..Len(w) : /\ at[p] \in 1..Len(ts) /\ nth[p] \in {1, 2}
                           /\ at[p] \in Nat /\ nth[p] \in Nat
  <2>1. \A p \in 1..Len(w) : at[p] \in 1..Len(ts) /\ nth[p] \in 1..2
    BY <1>1
  <2> QED
    BY <1>2, <2>1
<1>4. OwnedTarget.table = "asset_element_state"
  BY DEF OwnedTarget
<1>5. ASSUME NEW p \in 1..Len(w)
      PROVE  IF nth[p] = 1
             THEN w[p].table = ts[at[p]].table /\ w[p].table # "asset_element_state"
             ELSE /\ w[p].table = "asset_element_state"
                  /\ ts[at[p]].table = "asset_element_telemetry"
  BY <1>1, <1>3, <1>4, OwnedTable DEF Unowned
\* Places with the same table, in their order, have the same block.
<1>6. ASSUME NEW p \in 1..Len(w), NEW q \in 1..Len(w), p < q,
             ts[at[p]].table = ts[at[q]].table
      PROVE  nth[p] = 1 /\ nth[q] = 2 /\ at[p] = at[q]
  <2>1. at[p] = at[q]
    <3>1. at[p] \in 1..Len(ts) /\ at[q] \in 1..Len(ts)
      BY <1>3
    <3> QED
      BY <1>6, <3>1, Zenon DEF Distinct
  <2>2. nth[p] < nth[q]
    <3>1. at[p] < at[q] \/ nth[p] < nth[q]
      BY <1>1, <1>6, Zenon
    <3>2. at[p] \in Nat
      BY <1>3
    <3> QED
      BY <2>1, <3>1, <3>2
  <2> QED
    BY <1>3, <2>1, <2>2
<1>7. Distinct(w)
  <2>1. SUFFICES ASSUME NEW p \in 1..Len(w), NEW q \in 1..Len(w), p < q,
                        w[p].table = w[q].table
                 PROVE  FALSE
    BY <1>2 DEF Distinct
  <2>2. (nth[p] = 1) = (nth[q] = 1) /\ ts[at[p]].table = ts[at[q]].table
    BY <1>5, <2>1
  <2> QED
    BY <1>6, <2>1, <2>2
<1>8. AtEnd(w)
  <2>1. SUFFICES ASSUME NEW p \in 1..Len(w), NEW q \in 1..Len(w), p < q,
                        w[p].table = LifecycleTable
                 PROVE  FALSE
    BY DEF AtEnd
  <2>2. nth[p] = 1 /\ ts[at[p]].table = LifecycleTable
    BY <1>5, <2>1, OwnedTable
  <2>3. ~(at[p] < at[q])
    BY <1>3, <2>2 DEF AtEnd
  <2>4. at[p] = at[q] /\ nth[p] < nth[q]
    BY <1>1, <2>1, <2>3
  <2>5. nth[q] # 1
    BY <2>2, <2>4
  <2> QED
    BY <1>5, <2>2, <2>4, <2>5, OwnedTable
<1>9. OwnerFirst(w)
  <2>1. SUFFICES ASSUME NEW p \in 1..Len(w), NEW q \in 1..Len(w),
                        w[p].table = "asset_element_state",
                        w[q].table = "asset_element_telemetry"
                 PROVE  q < p
    BY DEF OwnerFirst
  <2>2. /\ nth[p] # 1 /\ nth[q] = 1
        /\ ts[at[p]].table = ts[at[q]].table
    BY <1>5, <2>1
  <2>3. ~(p < q)
    BY <1>6, <2>2
  <2>4. p # q
    BY <2>1
  <2> QED
    BY <1>2, <2>3, <2>4
<1> QED
  BY <1>7, <1>8, <1>9 DEF w

\* The targets of a configuration, and where they come from.
LEMMA TargetsAre ==
    ASSUME NEW d \in Deployments, Loadable(d)
    PROVE  /\ TargetsOf[d] \in Seq(Target)
           /\ \A p \in 1..Len(TargetsOf[d]) :
                \/ Appended(TargetsOf[d][p], d) \/ Aged(TargetsOf[d][p], d)
                \/ TargetsOf[d][p] = OwnedTarget
<1> DEFINE a == AppendTargets(d)
           g == AgedTargets(d)
           l == LifecycleLast(g)
           w == WithOwned(l)
           t == TargetsOf[d]
<1>1. t = a \o w
  BY DEF TargetsOf
<1>2. DOMAIN d.file = 1..Len(d.file)
  BY FileIs
<1>3. a \in Seq(Target) /\ \A p \in 1..Len(a) : Appended(a[p], d)
  <2>1. PICK at \in [1..Len(a) -> 1..Len(d.file)] :
          \A p \in 1..Len(a) : /\ a[p].table = d.file[at[p]].table
                               /\ a[p].keyed = FALSE
                               /\ d.file[at[p]].mode = "append"
    BY AppendTargetsAre
  <2>2. a \in Seq(Target)
    BY AppendTargetsAre
  <2> HIDE DEF a
  <2> QED
    BY <1>2, <2>1, <2>2 DEF Appended
<1>4. g \in Seq(Target) /\ \A p \in 1..Len(g) : Aged(g[p], d)
  <2>1. PICK at \in [1..Len(g) -> 1..Len(d.file)] :
          \A p \in 1..Len(g) : /\ g[p].table = d.file[at[p]].table
                               /\ g[p].keyed = Keyed(d.file[at[p]].table)
                               /\ d.file[at[p]].mode # "append"
    BY AgedTargetsAre
  <2>2. g \in Seq(Target)
    BY AgedTargetsAre
  <2> HIDE DEF g
  <2> QED
    BY <1>2, <2>1, <2>2 DEF Aged
<1> HIDE DEF a, g
<1>5. l \in Seq(Target) /\ \A p \in 1..Len(l) : Aged(l[p], d)
  BY <1>4, LifecycleLastAre
<1> HIDE DEF l
<1>6. w \in Seq(Target) /\ \A p \in 1..Len(w) : Aged(w[p], d) \/ w[p] = OwnedTarget
  <2>1. PICK at \in [1..Len(w) -> 1..Len(l)], nth \in [1..Len(w) -> 1..2] :
          \A p \in 1..Len(w) :
                     IF nth[p] = 1 THEN w[p] = l[at[p]]
                     ELSE /\ w[p] = OwnedTarget
                          /\ l[at[p]].table = "asset_element_telemetry"
    BY <1>5, WithOwnedAre, Zenon
  <2>2. w \in Seq(Target)
    BY <1>5, WithOwnedAre
  <2> HIDE DEF w
  <2> QED
    BY <1>5, <2>1, <2>2
<1> HIDE DEF w, t
<1>7. /\ t \in Seq(Target) /\ Len(t) = Len(a) + Len(w) /\ Len(a) \in Nat /\ Len(w) \in Nat
      /\ \A p \in 1..Len(t) : t[p] = IF p <= Len(a) THEN a[p] ELSE w[p - Len(a)]
  BY <1>1, <1>3, <1>6, ConcatProperties, LenProperties
<1>8. ASSUME NEW p \in 1..Len(t)
      PROVE  \/ Appended(t[p], d) \/ Aged(t[p], d) \/ t[p] = OwnedTarget
  <2>1. CASE p <= Len(a)
    BY <1>3, <1>7, <2>1
  <2>2. CASE ~(p <= Len(a))
    <3>1. p - Len(a) \in 1..Len(w) /\ t[p] = w[p - Len(a)]
      BY <1>7, <2>2
    <3> QED
      BY <1>6, <3>1
  <2> QED
    BY <2>1, <2>2
<1> QED
  BY <1>7, <1>8 DEF t

\* The order of the targets of a well-mapped file.
LEMMA TargetsInOrder ==
    ASSUME NEW d \in Deployments, Loadable(d), WellMapped(d)
    PROVE  Distinct(TargetsOf[d]) /\ AtEnd(TargetsOf[d]) /\ OwnerFirst(TargetsOf[d])
<1> DEFINE a == AppendTargets(d)
           g == AgedTargets(d)
           l == LifecycleLast(g)
           w == WithOwned(l)
           t == TargetsOf[d]
<1>1. t = a \o w
  BY DEF TargetsOf
<1>2. DOMAIN d.file = 1..Len(d.file) /\ Len(d.file) \in Nat
  BY FileIs
<1>3. /\ a \in Seq(Target) /\ Distinct(a)
      /\ \A p \in 1..Len(a) : \E i \in 1..Len(d.file) :
            a[p].table = d.file[i].table /\ d.file[i].mode = "append"
  <2>1. PICK at \in [1..Len(a) -> 1..Len(d.file)] :
          /\ \A p \in 1..Len(a) : /\ a[p].table = d.file[at[p]].table
                                  /\ a[p].keyed = FALSE
                                  /\ d.file[at[p]].mode = "append"
          /\ \A p, q \in 1..Len(a) : p < q => at[p] < at[q]
    BY AppendTargetsAre
  <2>2. a \in Seq(Target) /\ Len(a) \in Nat
    BY AppendTargetsAre, LenProperties
  <2> HIDE DEF a
  <2>3. ASSUME NEW p \in 1..Len(a), NEW q \in 1..Len(a), p < q
        PROVE  a[p].table # a[q].table
    <3>1. at[p] < at[q] /\ at[p] \in 1..Len(d.file) /\ at[q] \in 1..Len(d.file)
      BY <2>1, <2>3
    <3>2. at[p] # at[q]
      BY <1>2, <3>1
    <3> QED
      BY <1>2, <2>1, <3>1, <3>2 DEF WellMapped
  <2>4. Distinct(a)
    BY <2>2, <2>3 DEF Distinct
  <2> QED
    BY <2>1, <2>2, <2>4, Zenon
<1>4. /\ g \in Seq(Target) /\ Distinct(g)
      /\ \A p \in 1..Len(g) : \E i \in 1..Len(d.file) :
            g[p].table = d.file[i].table /\ d.file[i].mode # "append"
  <2>1. PICK at \in [1..Len(g) -> 1..Len(d.file)] :
          /\ \A p \in 1..Len(g) : /\ g[p].table = d.file[at[p]].table
                                  /\ g[p].keyed = Keyed(d.file[at[p]].table)
                                  /\ d.file[at[p]].mode # "append"
          /\ \A p, q \in 1..Len(g) : p < q => at[p] < at[q]
    BY AgedTargetsAre
  <2>2. g \in Seq(Target) /\ Len(g) \in Nat
    BY AgedTargetsAre, LenProperties
  <2> HIDE DEF g
  <2>3. ASSUME NEW p \in 1..Len(g), NEW q \in 1..Len(g), p < q
        PROVE  g[p].table # g[q].table
    <3>1. at[p] < at[q] /\ at[p] \in 1..Len(d.file) /\ at[q] \in 1..Len(d.file)
      BY <2>1, <2>3
    <3>2. at[p] # at[q]
      BY <1>2, <3>1
    <3> QED
      BY <1>2, <2>1, <3>1, <3>2 DEF WellMapped
  <2>4. Distinct(g)
    BY <2>2, <2>3 DEF Distinct
  <2> QED
    BY <2>1, <2>2, <2>4, Zenon
<1> HIDE DEF a, g
<1>5. /\ l \in Seq(Target) /\ Distinct(l) /\ AtEnd(l)
      /\ \A p \in 1..Len(l) : \E i \in 1..Len(d.file) :
            l[p].table = d.file[i].table /\ d.file[i].mode # "append"
  <2>1. /\ l \in Seq(Target) /\ Distinct(l) /\ AtEnd(l)
        /\ \A p \in 1..Len(l) : \E i \in 1..Len(g) : l[p] = g[i]
    BY <1>4, LifecycleLastAre
  <2> HIDE DEF l
  <2> QED
    BY <1>4, <2>1
<1> HIDE DEF l
<1>6. Unowned(l)
  BY <1>2, <1>5 DEF Unowned, WellMapped
<1>7. w \in Seq(Target) /\ Distinct(w) /\ AtEnd(w) /\ OwnerFirst(w)
  BY <1>5, <1>6, WithOwnedAre, WithOwnedKeeps
<1>8. \A p \in 1..Len(w) :
         \/ w[p].table = "asset_element_state"
         \/ \E i \in 1..Len(d.file) : w[p].table = d.file[i].table /\ d.file[i].mode # "append"
  <2>1. PICK at \in [1..Len(w) -> 1..Len(l)], nth \in [1..Len(w) -> 1..2] :
          \A p \in 1..Len(w) :
                     IF nth[p] = 1 THEN w[p] = l[at[p]]
                     ELSE /\ w[p] = OwnedTarget
                          /\ l[at[p]].table = "asset_element_telemetry"
    BY <1>5, WithOwnedAre, Zenon
  <2>2. OwnedTarget.table = "asset_element_state"
    BY DEF OwnedTarget
  <2> HIDE DEF w
  <2> SUFFICES ASSUME NEW p \in 1..Len(w)
               PROVE  \/ w[p].table = "asset_element_state"
                      \/ \E i \in 1..Len(d.file) :
                           w[p].table = d.file[i].table /\ d.file[i].mode # "append"
    OBVIOUS
  <2>3. CASE nth[p] = 1
    <3>1. w[p] = l[at[p]] /\ at[p] \in 1..Len(l)
      BY <2>1, <2>3, Zenon
    <3> QED
      BY <1>5, <3>1, Zenon
  <2>4. CASE nth[p] # 1
    <3>1. w[p] = OwnedTarget
      BY <2>1, <2>4, Zenon
    <3> QED
      BY <2>2, <3>1, Zenon
  <2> QED
    BY <2>3, <2>4
<1> HIDE DEF w, t
\* The append targets come first; no other target has the table of one, and none
\* is the lifecycle table's, an owned one's or its owner's.
<1>9. ASSUME NEW p \in 1..Len(a)
      PROVE  /\ a[p].table # LifecycleTable
             /\ a[p].table # "asset_element_state"
             /\ a[p].table # "asset_element_telemetry"
             /\ \A q \in 1..Len(w) : a[p].table # w[q].table
  <2>1. PICK i \in 1..Len(d.file) : a[p].table = d.file[i].table /\ d.file[i].mode = "append"
    BY <1>3
  <2>2. a[p].table # LifecycleTable /\ a[p].table # "asset_element_state"
    BY <1>2, <2>1, OwnedTable DEF WellMapped
  <2>3. a[p].table # "asset_element_telemetry"
    BY <1>2, <2>1 DEF Loadable
  <2>4. \A j \in 1..Len(d.file) : d.file[j].mode # "append" => a[p].table # d.file[j].table
    BY <1>2, <2>1 DEF WellMapped
  <2> QED
    BY <1>8, <2>2, <2>3, <2>4
<1>10. /\ t \in Seq(Target) /\ Len(t) = Len(a) + Len(w) /\ Len(a) \in Nat /\ Len(w) \in Nat
       /\ \A p \in 1..Len(t) : t[p] = IF p <= Len(a) THEN a[p] ELSE w[p - Len(a)]
  BY <1>1, <1>3, <1>7, ConcatProperties, LenProperties
<1>11. ASSUME NEW p \in 1..Len(t)
       PROVE  \/ p \in 1..Len(a) /\ t[p] = a[p]
              \/ \E k \in 1..Len(w) : p = Len(a) + k /\ t[p] = w[k]
  <2>1. CASE p <= Len(a)
    BY <1>10, <2>1
  <2>2. CASE ~(p <= Len(a))
    <3>1. p - Len(a) \in 1..Len(w) /\ t[p] = w[p - Len(a)] /\ p = Len(a) + (p - Len(a))
      BY <1>10, <2>2
    <3> QED
      BY <3>1
  <2> QED
    BY <2>1, <2>2
<1>12. Distinct(t)
  <2>1. SUFFICES ASSUME NEW p \in 1..Len(t), NEW q \in 1..Len(t), t[p].table = t[q].table
                 PROVE  p = q
    BY DEF Distinct
  <2>2. CASE p \in 1..Len(a) /\ t[p] = a[p]
    <3>1. q \in 1..Len(a) /\ t[q] = a[q]
      BY <1>9, <1>11, <2>1, <2>2
    <3> QED
      BY <1>3, <2>1, <2>2, <3>1 DEF Distinct
  <2>3. CASE \E k \in 1..Len(w) : p = Len(a) + k /\ t[p] = w[k]
    <3>1. PICK k \in 1..Len(w) : p = Len(a) + k /\ t[p] = w[k]
      BY <2>3
    <3>2. PICK m \in 1..Len(w) : q = Len(a) + m /\ t[q] = w[m]
      BY <1>9, <1>11, <2>1, <3>1
    <3>3. k = m
      BY <1>7, <2>1, <3>1, <3>2 DEF Distinct
    <3> QED
      BY <3>1, <3>2, <3>3
  <2> QED
    BY <1>11, <2>2, <2>3
<1>13. AtEnd(t)
  <2>1. SUFFICES ASSUME NEW p \in 1..Len(t), NEW q \in 1..Len(t), p < q
                 PROVE  t[p].table # LifecycleTable
    BY DEF AtEnd
  <2>2. CASE p \in 1..Len(a) /\ t[p] = a[p]
    BY <1>9, <2>2
  <2>3. CASE \E k \in 1..Len(w) : p = Len(a) + k /\ t[p] = w[k]
    <3>1. PICK k \in 1..Len(w) : p = Len(a) + k /\ t[p] = w[k]
      BY <2>3
    <3>2. q \notin 1..Len(a)
      BY <1>10, <2>1, <3>1
    <3>3. PICK m \in 1..Len(w) : q = Len(a) + m /\ t[q] = w[m]
      BY <1>11, <3>2
    <3>4. k < m
      BY <1>10, <2>1, <3>1, <3>3
    <3> QED
      BY <1>7, <3>1, <3>4 DEF AtEnd
  <2> QED
    BY <1>11, <2>2, <2>3
<1>14. OwnerFirst(t)
  <2>1. SUFFICES ASSUME NEW p \in 1..Len(t), NEW q \in 1..Len(t),
                        t[p].table = "asset_element_state",
                        t[q].table = "asset_element_telemetry"
                 PROVE  q < p
    BY DEF OwnerFirst
  <2>2. PICK k \in 1..Len(w) : p = Len(a) + k /\ t[p] = w[k]
    BY <1>9, <1>11, <2>1
  <2>3. PICK m \in 1..Len(w) : q = Len(a) + m /\ t[q] = w[m]
    BY <1>9, <1>11, <2>1
  <2>4. m < k
    BY <1>7, <2>1, <2>2, <2>3 DEF OwnerFirst
  <2> QED
    BY <1>10, <2>2, <2>3, <2>4
<1> QED
  BY <1>12, <1>13, <1>14 DEF t
-----------------------------------------------------------------------------
(* Types.                                                                   *)

\* The bounds are what they are assumed to be.
LEMMA Bounds == /\ MaxTime \in Nat /\ LastInput \in Time /\ MaxFaults \in Nat
                /\ None \notin Int /\ LifecycleTable \in Tables
BY RetentionAssumption

\* The place is one of a target, and the target of a table.
LEMMA PlaceIs ==
    ASSUME TypeOK
    PROVE  /\ PruneTargets \in Seq(Target) /\ Len(PruneTargets) \in Nat
           /\ PruneTargets = TargetsOf[config]
           /\ DOMAIN PruneTargets = 1..Len(PruneTargets)
           /\ PruneTargets # <<>> => /\ target \in 1..Len(PruneTargets)
                                     /\ PruneTargets[target] \in Target
                                     /\ PruneTargets[target].table \in Tables
                                     /\ PruneTargets[target].hours \in Nat
<1>1. config \in Deployments /\ Loadable(config) /\ target \in 1..Len(PruneTargets) \cup {1}
  BY DEF TypeOK
<1>2. PruneTargets = TargetsOf[config]
  BY DEF PruneTargets
<1>3. PruneTargets \in Seq(Target)
  BY <1>1, <1>2, TargetsAre
<1> HIDE DEF PruneTargets
<1>4. Len(PruneTargets) \in Nat /\ DOMAIN PruneTargets = 1..Len(PruneTargets)
  BY <1>3, LenProperties
<1>5. PruneTargets # <<>> => Len(PruneTargets) # 0
  BY <1>3, EmptySeq
<1>6. PruneTargets # <<>> => target \in 1..Len(PruneTargets)
  BY <1>1, <1>4, <1>5
<1>7. PruneTargets # <<>> => PruneTargets[target] \in Target
  BY <1>3, <1>6, ElementOfSeq
<1> QED
  BY <1>2, <1>3, <1>4, <1>6, <1>7 DEF Target

\* A step to the place after this one.
LEMMA GoOnIs ==
    ASSUME TypeOK, PruneTargets # <<>>, NEW fails \in BOOLEAN, GoOn(fails), UNCHANGED config
    PROVE  /\ target' \in 1..Len(PruneTargets)' /\ target' \in {1, target + 1}
           /\ passAt' \in {now, passAt}
           /\ failed' \subseteq Tables
<1>1. target \in 1..Len(PruneTargets) /\ Len(PruneTargets) \in Nat
      /\ PruneTargets[target].table \in Tables
  BY PlaceIs
<1>2. PruneTargets' = PruneTargets
  BY DEF PruneTargets
<1>3. failed \subseteq Tables
  BY DEF TypeOK
<1>4. target' = IF target = Len(PruneTargets) THEN 1 ELSE target + 1
  BY DEF GoOn
<1>5. passAt' = IF target = 1 THEN now ELSE passAt
  BY DEF GoOn
<1>6. failed' \subseteq Tables
  BY <1>1, <1>3 DEF GoOn
<1> HIDE DEF PruneTargets
<1>7. target' \in 1..Len(PruneTargets) /\ target' \in {1, target + 1}
  BY <1>1, <1>4
<1> QED
  BY <1>2, <1>5, <1>6, <1>7

\* Every step keeps the types.
LEMMA TypeStep == TypeOK /\ [Next]_vars => TypeOK'
<1> SUFFICES ASSUME TypeOK, [Next]_vars PROVE TypeOK'
  OBVIOUS
<1>1. /\ now \in Time /\ passAt \in Time /\ failed \subseteq Tables
      /\ rows \in [Tables -> Time \cup {None}]
      /\ terminal \in BOOLEAN /\ faults \in 0..MaxFaults
      /\ config \in Deployments /\ Loadable(config)
      /\ target \in 1..Len(PruneTargets) \cup {1}
  BY DEF TypeOK
<1> DEFINE Kept == UNCHANGED <<config, target>>
<1>2. ASSUME Kept
      PROVE  config' \in Deployments /\ Loadable(config')
             /\ target' \in 1..Len(PruneTargets') \cup {1}
  <2>1. PruneTargets' = PruneTargets
    BY <1>2 DEF PruneTargets
  <2> HIDE DEF PruneTargets
  <2> QED
    BY <1>1, <1>2, <2>1, Zenon
<1>3. ASSUME NEW t \in Tables, Write(t) PROVE TypeOK'
  <2>1. rows' \in [Tables -> Time \cup {None}] /\ terminal' \in BOOLEAN
    BY <1>1, <1>3 DEF Write
  <2>2. Kept /\ UNCHANGED <<now, passAt, failed, faults>>
    BY <1>3 DEF Write
  <2> QED
    BY <1>1, <1>2, <2>1, <2>2, Zenon DEF TypeOK
<1>4. ASSUME NEW t \in DOMAIN ParentOwned, WriteOwned(t) PROVE TypeOK'
  <2>1. t \in Tables /\ ParentOwned[t] \in Tables
    BY OwnedTable
  <2>2. PICK parent \in {rows[ParentOwned[t]], now} :
            rows' = [rows EXCEPT ![t] = now, ![ParentOwned[t]] = parent]
    BY <1>4, Zenon DEF WriteOwned
  <2>3. parent \in Time \cup {None}
    BY <1>1, <2>1
  <2>4. rows' \in [Tables -> Time \cup {None}]
    BY <1>1, <2>1, <2>2, <2>3
  <2>5. Kept /\ UNCHANGED <<now, terminal, passAt, failed, faults>>
    BY <1>4 DEF WriteOwned
  <2> QED
    BY <1>1, <1>2, <2>4, <2>5, Zenon DEF TypeOK
<1>5. ASSUME PruneTargets # <<>>, NEW fails \in BOOLEAN, GoOn(fails),
             UNCHANGED <<config, now, terminal>>, faults' \in 0..MaxFaults,
             rows' \in [Tables -> Time \cup {None}]
      PROVE  TypeOK'
  <2>1. /\ target' \in 1..Len(PruneTargets)' /\ passAt' \in {now, passAt}
        /\ failed' \subseteq Tables
    BY <1>5, GoOnIs
  <2>2. passAt' \in Time /\ target' \in 1..Len(PruneTargets') \cup {1}
    BY <1>1, <2>1
  <2>3. config' \in Deployments /\ Loadable(config')
    BY <1>1, <1>5, Zenon
  <2> QED
    BY <1>1, <1>5, <2>1, <2>2, <2>3, Zenon DEF TypeOK
<1>6. CASE Prune
  <2>1. PruneTargets # <<>> /\ GoOn(FALSE) /\ UNCHANGED <<config, now, terminal, faults>>
    BY <1>6 DEF Prune
  <2>2. PruneTargets[target].table \in Tables
    BY <2>1, PlaceIs
  <2>3. rows' \in [Tables -> Time \cup {None}]
    <3> DEFINE t == PruneTargets[target]
    <3>1. rows' = IF Deleted(t) THEN [rows EXCEPT ![t.table] = None] ELSE rows
      BY <1>6 DEF Prune
    <3> HIDE DEF t
    <3>2. [rows EXCEPT ![t.table] = None] \in [Tables -> Time \cup {None}]
      BY <1>1, <2>2
    <3> QED
      BY <1>1, <3>1, <3>2, Zenon
  <2> QED
    BY <1>1, <1>5, <2>1, <2>3, Zenon
<1>7. CASE PruneRefused
  <2>1. /\ PruneTargets # <<>> /\ GoOn(TRUE)
        /\ UNCHANGED <<config, now, rows, terminal, faults>>
    BY <1>7 DEF PruneRefused
  <2> QED
    BY <1>1, <1>5, <2>1, Zenon
<1>8. CASE PruneFails
  <2>1. /\ PruneTargets # <<>> /\ GoOn(TRUE) /\ UNCHANGED <<config, now, rows, terminal>>
        /\ faults < MaxFaults /\ faults' = faults + 1
    BY <1>8 DEF PruneFails
  <2>2. faults' \in 0..MaxFaults
    BY <1>1, <2>1, Bounds
  <2> QED
    BY <1>1, <1>5, <2>1, <2>2, Zenon
<1>9. ASSUME NEW d \in Deployments, Restart(d) PROVE TypeOK'
  <2>1. /\ config' = d /\ Loadable(d) /\ target' = 1 /\ faults < MaxFaults
        /\ faults' = faults + 1 /\ UNCHANGED <<now, rows, terminal, passAt, failed>>
    BY <1>9 DEF Restart
  <2>2. faults' \in 0..MaxFaults
    BY <1>1, <2>1, Bounds
  <2>3. /\ config' \in Deployments /\ Loadable(config')
        /\ target' \in 1..Len(PruneTargets') \cup {1}
    BY <2>1, Zenon
  <2> QED
    BY <1>1, <2>1, <2>2, <2>3, Zenon DEF TypeOK
<1>10. CASE Tick
  <2>1. now < MaxTime /\ now' = now + 1 /\ Kept
        /\ UNCHANGED <<rows, terminal, passAt, failed, faults>>
    BY <1>10 DEF Tick
  <2>2. now' \in Time
    BY <1>1, <2>1, Bounds DEF Time
  <2> QED
    BY <1>1, <1>2, <2>1, <2>2, Zenon DEF TypeOK
<1>11. CASE UNCHANGED vars
  BY <1>1, <1>2, <1>11, Zenon DEF TypeOK, vars
<1> QED
  BY <1>3, <1>4, <1>6, <1>7, <1>8, <1>9, <1>10, <1>11, Zenon DEF Next

\* A start has them.
LEMMA TypeInit == Init => TypeOK
<1> SUFFICES ASSUME Init PROVE TypeOK
  OBVIOUS
<1>1. /\ config \in Deployments /\ Loadable(config) /\ now = 0 /\ passAt = 0 /\ faults = 0
      /\ rows = [t \in Tables |-> None] /\ terminal = FALSE /\ target = 1 /\ failed = {}
  BY DEF Init
<1>2. 0 \in Time /\ 0 \in 0..MaxFaults
  BY Bounds DEF Time
<1>3. target \in 1..Len(PruneTargets) \cup {1}
  BY <1>1, Zenon
<1>4. rows \in [Tables -> Time \cup {None}] /\ terminal \in BOOLEAN /\ failed \subseteq Tables
  BY <1>1
<1> QED
  BY <1>1, <1>2, <1>3, <1>4, Zenon DEF TypeOK

\* Every variable keeps its type, and the pruner's place is always one of its
\* targets.
THEOREM TypeCorrect == Spec => []TypeOK
<1>1. Init => TypeOK
  BY TypeInit
<1>2. TypeOK /\ [Next]_vars => TypeOK'
  BY TypeStep
<1> QED
  BY <1>1, <1>2, PTL DEF Spec
-----------------------------------------------------------------------------
(* What a step deletes.                                                     *)

\* Only a target's statement deletes, only the row of its table, and only where
\* the database takes it.
LEMMA OnlyPruned ==
    ASSUME TypeOK, [Next]_vars, NEW x \in Tables, Row(x), rows'[x] = None
    PROVE  Prune /\ PruneTargets[target].table = x /\ Deleted(PruneTargets[target])
<1>1. rows \in [Tables -> Time \cup {None}] /\ now \in Time /\ rows[x] # None
  BY DEF TypeOK, Row
<1>2. now # None
  BY <1>1, Bounds DEF Time
<1>3. ASSUME NEW t \in Tables, Write(t) PROVE FALSE
  <2>1. rows' = [rows EXCEPT ![t] = now]
    BY <1>3 DEF Write
  <2> QED
    BY <1>1, <1>2, <2>1
<1>4. ASSUME NEW t \in DOMAIN ParentOwned, WriteOwned(t) PROVE FALSE
  <2>1. t \in Tables /\ ParentOwned[t] \in Tables
    BY OwnedTable
  <2>2. PICK parent \in {rows[ParentOwned[t]], now} :
            rows' = [rows EXCEPT ![t] = now, ![ParentOwned[t]] = parent]
    BY <1>4, Zenon DEF WriteOwned
  <2> DEFINE o == ParentOwned[t]
  <2> HIDE DEF o
  <2>3. o \in Tables /\ rows' = [rows EXCEPT ![t] = now, ![o] = parent]
        /\ parent \in {rows[o], now}
    BY <2>1, <2>2 DEF o
  <2>4. rows'[x] \in {rows[x], now}
    BY <1>1, <2>1, <2>3
  <2> QED
    BY <1>1, <1>2, <2>4
<1>5. CASE Prune
  <2> DEFINE t == PruneTargets[target]
  <2>1. rows' = IF Deleted(t) THEN [rows EXCEPT ![t.table] = None] ELSE rows
    BY <1>5 DEF Prune
  <2>2. Deleted(t)
    <3> HIDE DEF t
    <3> QED
      BY <1>1, <2>1, Zenon
  <2> DEFINE k == t.table
  <2>3. rows' = [rows EXCEPT ![k] = None]
    BY <2>1, <2>2, Zenon
  <2> HIDE DEF k
  <2>4. k = x
    BY <1>1, <2>3
  <2> QED
    BY <1>5, <2>2, <2>4 DEF k
<1>6. ASSUME UNCHANGED rows PROVE FALSE
  BY <1>1, <1>6
<1>7. ASSUME PruneRefused \/ PruneFails \/ (\E d \in Deployments : Restart(d))
             \/ Tick \/ UNCHANGED vars
      PROVE  UNCHANGED rows
  BY <1>7 DEF PruneRefused, PruneFails, Restart, Tick, vars
<1> QED
  BY <1>3, <1>4, <1>5, <1>6, <1>7, Zenon DEF Next

\* A statement judged by an asset_id that its table does not have is refused: no
\* setting makes a rollup row go, unless a file maps the rollup as an event table.
THEOREM RollupsAreKept ==
    ASSUME \A d \in Deployments : \A i \in DOMAIN d.file :
              d.file[i].mode = "append" => d.file[i].table \notin Rollups
    PROVE  Spec => RollupsStay
<1>1. ASSUME TypeOK, [Next]_vars, NEW x \in Rollups, Row(x), rows'[x] = None PROVE FALSE
  <2>1. x \notin AssetIdTables /\ x \notin NotAssetIdKeyed
    BY DEF Rollups
  <2>2. x \in Tables
    <3>1. PICK d \in Deployments :
             \E m \in {m \in Range(d.file) : m.mode = "upsert"} : x = m.table
      BY DEF Rollups
    <3>2. \A i \in DOMAIN d.file : d.file[i].table \in Tables
      BY FileIs
    <3> QED
      BY <3>1, <3>2 DEF Range
  <2> DEFINE t == PruneTargets[target]
  <2>3. Prune /\ t.table = x
    BY <1>1, <2>2, OnlyPruned
  <2>4. PruneTargets # <<>> /\ ~Fails(t)
    BY <2>3 DEF Prune
  <2>5. config \in Deployments /\ Loadable(config)
    BY <1>1 DEF TypeOK
  <2>6. Appended(t, config) \/ Aged(t, config) \/ t = OwnedTarget
    BY <1>1, <2>4, <2>5, PlaceIs, TargetsAre, Zenon
  <2> HIDE DEF t
  <2>7. ~t.keyed
    BY <2>1, <2>3, <2>4 DEF Fails
  <2>8. ~Appended(t, config)
    BY <1>1, <2>3, <2>5 DEF Appended
  <2>9. ~Aged(t, config)
    BY <2>1, <2>3, <2>7 DEF Aged, Keyed
  <2>10. t # OwnedTarget
    BY <2>7 DEF OwnedTarget
  <2> QED
    BY <2>6, <2>8, <2>9, <2>10
<1>2. TypeOK /\ [Next]_vars => [\A t \in Rollups : Row(t) => rows'[t] # None]_vars
  BY <1>1, Zenon
<1>3. Spec => []TypeOK
  BY TypeCorrect
<1> QED
  BY <1>2, <1>3, PTL DEF Spec, RollupsStay
-----------------------------------------------------------------------------
(* The evidence goes last.                                                  *)

\* Nothing is left for a target to do: its statement failed, or it deleted the row,
\* or the row is as new as the pass or not yet due.
Done(t) ==
    \/ t.table \in failed
    \/ rows[t.table] = None
    \/ rows[t.table] = now
    \/ IF t.table \in DOMAIN ParentOwned THEN Row(ParentOwned[t.table])
       ELSE ~OlderThan(t.table, t.hours)

\* While a pass takes no time and the asset is gone, with an older lifecycle row,
\* the targets behind the place are done.
PassInv ==
    /\ passAt <= now
    /\ passAt = now /\ Gone /\ rows[LifecycleTable] < now =>
         \A p \in 1..Len(PruneTargets) :
            p < target /\ PruneTargets[p].table # LifecycleTable => Done(PruneTargets[p])

EvidenceInv == TypeOK /\ PassInv

\* The same of the next state.
DoneNext(t) ==
    \/ t.table \in failed'
    \/ rows'[t.table] = None
    \/ rows'[t.table] = now'
    \/ IF t.table \in DOMAIN ParentOwned THEN rows'[ParentOwned[t.table]] # None
       ELSE ~(rows'[t.table] # None /\ rows'[t.table] + t.hours < now')

\* The order of the targets, of the running configuration.
LEMMA OrderIs ==
    ASSUME \A d \in Deployments : WellMapped(d), TypeOK
    PROVE  Distinct(PruneTargets) /\ AtEnd(PruneTargets) /\ OwnerFirst(PruneTargets)
<1>1. config \in Deployments /\ Loadable(config)
  BY DEF TypeOK
<1> QED
  BY <1>1, TargetsInOrder DEF PruneTargets

\* At a start no target is behind the place.
LEMMA EvidenceInit == Init => EvidenceInv
<1>1. Init => PassInv
  <2> SUFFICES ASSUME Init PROVE PassInv
    OBVIOUS
  <2>1. now = 0 /\ passAt = 0 /\ target = 1
    BY DEF Init
  <2>2. \A p \in 1..Len(PruneTargets) : ~(p < target)
    <3> HIDE DEF PruneTargets
    <3> QED
      BY <2>1
  <2>3. passAt <= now
    BY <2>1
  <2> QED
    BY <2>2, <2>3, Zenon DEF PassInv
<1> QED
  BY <1>1, TypeInit DEF EvidenceInv


\* A target is done still after a step that leaves its row and its owner's.
LEMMA DoneStays ==
    ASSUME NEW t, Done(t), now' = now, failed \subseteq failed',
           rows'[t.table] = rows[t.table],
           Row(ParentOwned[t.table]) => rows'[ParentOwned[t.table]] # None
    PROVE  DoneNext(t)
BY Zenon DEF Done, DoneNext, Row, OlderThan

\* A step leaves the targets behind the place done, or ends the pass.
LEMMA EvidenceStep ==
    ASSUME \A d \in Deployments : WellMapped(d)
    PROVE  EvidenceInv /\ [Next]_vars => EvidenceInv'
<1> SUFFICES ASSUME EvidenceInv, [Next]_vars PROVE PassInv'
  BY TypeStep DEF EvidenceInv
<1> DEFINE LT == LifecycleTable
           T == PruneTargets
           Premise == /\ passAt' = now' /\ rows'[LT] # None /\ terminal'
                      /\ rows'[LT] < now'
           Rest == \A p \in 1..Len(T') : p < target' /\ T'[p].table # LT => DoneNext(T'[p])
           Goal == passAt' <= now' /\ (Premise => Rest)
<1>1. /\ TypeOK /\ passAt <= now
      /\ passAt = now /\ Gone /\ rows[LT] < now =>
           \A p \in 1..Len(T) : p < target /\ T[p].table # LT => Done(T[p])
  BY Zenon DEF EvidenceInv, PassInv
<1>2. /\ rows \in [Tables -> Time \cup {None}] /\ LT \in Tables
      /\ now \in Int /\ passAt \in Int /\ target \in Nat /\ None \notin Int
      /\ Time \subseteq Int /\ now # None
      /\ Len(T) \in Nat /\ \A p \in 1..Len(T) : T[p] \in Target
  <2>1. Time \subseteq Int
    BY Bounds DEF Time
  <2>2. Len(T) \in Nat /\ T \in Seq(Target)
    BY <1>1, PlaceIs
  <2>3. target \in 1..Len(T) \cup {1}
    BY <1>1 DEF TypeOK
  <2> HIDE DEF T
  <2>4. target \in Nat
    BY <2>2, <2>3
  <2> QED
    BY <1>1, <2>1, <2>2, <2>4, Bounds, ElementOfSeq DEF TypeOK
<1>3. SUFFICES Goal
  <2>1. ASSUME Goal PROVE PassInv'
    BY <2>1, Zenon DEF PassInv, Done, DoneNext, Gone, Row, OlderThan
  <2> QED
    BY <2>1
<1>4. Distinct(T) /\ OwnerFirst(T)
  BY <1>1, OrderIs
<1>5. ASSUME UNCHANGED config PROVE T' = T
  BY <1>5 DEF PruneTargets
<1> HIDE DEF T
\* A write makes its row as new as the pass, and deletes none.
<1>6. ASSUME UNCHANGED <<config, now, target, passAt, failed>>,
             \A x \in Tables : rows'[x] \in {rows[x], now},
             rows'[LT] = now \/ UNCHANGED terminal
      PROVE  Goal
  <2>1. passAt' <= now' /\ T' = T
    BY <1>1, <1>5, <1>6
  <2>2. SUFFICES ASSUME Premise, NEW p \in 1..Len(T), p < target, T[p].table # LT
                 PROVE  DoneNext(T[p])
    BY <1>6, <2>1, Zenon
  <2>3. rows'[LT] # now
    BY <1>2, <1>6, <2>2
  <2>4. rows[LT] = rows'[LT] /\ terminal /\ Row(LT)
    BY <1>2, <1>6, <2>2, <2>3, Zenon DEF Row
  <2>5. Done(T[p])
    BY <1>1, <1>6, <2>2, <2>4, Zenon DEF Gone
  <2>6. T[p].table \in Tables
    BY <1>2 DEF Target
  <2>7. CASE rows'[T[p].table] = now
    BY <1>6, <2>7, Zenon DEF DoneNext
  <2>8. CASE rows'[T[p].table] # now
    <3>1. rows'[T[p].table] = rows[T[p].table]
      BY <1>6, <2>6, <2>8, Zenon
    <3>2. CASE T[p].table \in DOMAIN ParentOwned
      <4>1. ParentOwned[T[p].table] \in Tables
        BY <3>2, OwnedTable
      <4>2. Row(ParentOwned[T[p].table]) => rows'[ParentOwned[T[p].table]] # None
        BY <1>2, <1>6, <4>1, Zenon DEF Row
      <4> QED
        BY <1>6, <2>5, <3>1, <4>2, DoneStays
    <3>3. CASE T[p].table \notin DOMAIN ParentOwned
      BY <1>6, <2>5, <3>1, <3>3, Zenon DEF Done, DoneNext, Row, OlderThan
    <3> QED
      BY <3>2, <3>3
  <2> QED
    BY <2>7, <2>8
<1>7. ASSUME NEW t \in Tables, Write(t) PROVE Goal
  <2>1. /\ rows' = [rows EXCEPT ![t] = now]
        /\ terminal' \in IF t = LT THEN BOOLEAN ELSE {terminal}
        /\ UNCHANGED <<config, now, target, passAt, failed>>
    BY <1>7 DEF Write
  <2>2. \A x \in Tables : rows'[x] \in {rows[x], now}
    BY <1>2, <2>1
  <2>3. t = LT => rows'[LT] = now
    BY <1>2, <2>1
  <2>4. t # LT => UNCHANGED terminal
    BY <2>1
  <2> QED
    BY <1>6, <2>1, <2>2, <2>3, <2>4, Zenon
<1>8. ASSUME NEW t \in DOMAIN ParentOwned, WriteOwned(t) PROVE Goal
  <2>1. PICK parent \in {rows[ParentOwned[t]], now} :
            rows' = [rows EXCEPT ![t] = now, ![ParentOwned[t]] = parent]
    BY <1>8, Zenon DEF WriteOwned
  <2>2. t \in Tables /\ ParentOwned[t] \in Tables
    BY OwnedTable
  <2> DEFINE o == ParentOwned[t]
  <2> HIDE DEF o
  <2>3. o \in Tables /\ rows' = [rows EXCEPT ![t] = now, ![o] = parent]
        /\ parent \in {rows[o], now}
    BY <2>1, <2>2 DEF o
  <2>4. \A x \in Tables : rows'[x] \in {rows[x], now}
    BY <1>2, <2>2, <2>3
  <2>5. UNCHANGED <<config, now, target, passAt, failed>> /\ UNCHANGED terminal
    BY <1>8 DEF WriteOwned
  <2> QED
    BY <1>6, <2>4, <2>5, Zenon
\* A target that is done is not undone: no later one deletes the row of its owner.
<1>9. ASSUME T # <<>>, NEW fails \in BOOLEAN, GoOn(fails), UNCHANGED <<config, now, terminal>>,
             \A x \in Tables : x # T[target].table => rows'[x] = rows[x],
             rows'[T[target].table] \in {rows[T[target].table], None},
             Premise /\ T[target].table # LT => DoneNext(T[target])
      PROVE  Goal
  <2> DEFINE here == T[target].table
  <2>1. /\ passAt' = IF target = 1 THEN now ELSE passAt
        /\ target' = IF target = Len(T) THEN 1 ELSE target + 1
        /\ target # 1 => failed \subseteq failed'
    BY <1>9 DEF GoOn, T
  <2>2. passAt' <= now' /\ T' = T
    BY <1>1, <1>2, <1>5, <1>9, <2>1
  <2>3. target \in 1..Len(T)
    BY <1>1, <1>9, PlaceIs DEF T
  <2>4. SUFFICES ASSUME Premise, NEW p \in 1..Len(T), p < target', T[p].table # LT
                 PROVE  DoneNext(T[p])
    BY <2>2, Zenon
  <2>5. p <= target
    BY <1>2, <2>1, <2>4
  <2>6. CASE p = target
    BY <1>9, <2>4, <2>6, Zenon
  <2>7. CASE p < target
    <3>1. target # 1 /\ ~(target <= p)
      BY <1>2, <2>7
    <3>2. T[p].table # here /\ T[p].table \in Tables
      BY <1>2, <1>4, <2>3, <3>1 DEF Distinct, Target
    <3>3. rows'[T[p].table] = rows[T[p].table] /\ failed \subseteq failed'
      BY <1>9, <2>1, <3>1, <3>2
    <3>4. passAt = now /\ Row(LT) /\ terminal /\ rows[LT] < now
      <4>1. passAt = now /\ terminal
        BY <1>9, <2>1, <2>4, <3>1
      <4>2. rows'[LT] = rows[LT]
        <5>1. here = LT => rows'[LT] \in {rows[LT], None}
          BY <1>9
        <5>2. here # LT => rows'[LT] = rows[LT]
          BY <1>2, <1>9
        <5> QED
          BY <2>4, <5>1, <5>2
      <4> QED
        BY <1>9, <2>4, <4>1, <4>2, Zenon DEF Row
    <3>5. Done(T[p])
      BY <1>1, <2>4, <2>7, <3>4, Zenon DEF Gone
    <3>6. CASE T[p].table \in DOMAIN ParentOwned
      <4>1. /\ T[p].table = "asset_element_state"
            /\ ParentOwned[T[p].table] = "asset_element_telemetry"
            /\ ParentOwned[T[p].table] \in Tables
        BY <3>6, OwnedTable
      <4>2. here # "asset_element_telemetry"
        <5>1. SUFFICES ASSUME here = "asset_element_telemetry" PROVE FALSE
          OBVIOUS
        <5>2. target < p
          BY <1>4, <2>3, <4>1, <5>1, Zenon DEF OwnerFirst
        <5> QED
          BY <1>2, <2>7, <5>2
      <4>3. rows'[ParentOwned[T[p].table]] = rows[ParentOwned[T[p].table]]
        BY <1>9, <4>1, <4>2, Zenon
      <4> QED
        BY <1>9, <3>3, <3>5, <4>3, DoneStays, Zenon DEF Row
    <3>7. CASE T[p].table \notin DOMAIN ParentOwned
      BY <1>9, <3>3, <3>5, <3>7, Zenon DEF Done, DoneNext, Row, OlderThan
    <3> QED
      BY <3>6, <3>7
  <2> QED
    BY <1>2, <2>5, <2>6, <2>7
<1>10. CASE Prune
  <2> DEFINE t == T[target]
  <2>1. /\ T # <<>> /\ GoOn(FALSE) /\ UNCHANGED <<config, now, terminal, faults>>
        /\ rows' = IF Deleted(t) THEN [rows EXCEPT ![t.table] = None] ELSE rows
    BY <1>10 DEF Prune, T
  <2>2. t \in Target /\ t.table \in Tables
    BY <1>1, <2>1, PlaceIs DEF T
  <2> HIDE DEF t
  <2>3. CASE Deleted(t)
    <3> DEFINE k == t.table
    <3>1. rows' = [rows EXCEPT ![k] = None] /\ k \in Tables
      BY <2>1, <2>2, <2>3, Zenon
    <3> HIDE DEF k
    <3>2. /\ \A x \in Tables : x # k => rows'[x] = rows[x]
          /\ rows'[k] = None
      BY <1>2, <3>1
    <3>3. DoneNext(t)
      BY <3>2, Zenon DEF DoneNext, k
    <3> QED
      BY <1>9, <2>1, <3>2, <3>3, Zenon DEF k, t
  <2>4. CASE ~Deleted(t)
    <3>1. rows' = rows
      BY <2>1, <2>4, Zenon
    <3>2. ASSUME Premise PROVE DoneNext(t)
      <4>1. Gone
        BY <2>1, <3>1, <3>2, Zenon DEF Gone, Row
      <4>2. IF t.table \in DOMAIN ParentOwned THEN Row(ParentOwned[t.table])
            ELSE ~OlderThan(t.table, t.hours)
        BY <2>4, <4>1, Zenon DEF Deleted
      <4> QED
        BY <2>1, <3>1, <4>2, Zenon DEF DoneNext, Row, OlderThan
    <3> QED
      BY <1>9, <2>1, <3>1, <3>2, Zenon DEF t
  <2> QED
    BY <2>3, <2>4
<1>11. CASE PruneRefused \/ PruneFails
  <2>1. T # <<>> /\ GoOn(TRUE) /\ UNCHANGED <<config, now, rows, terminal>>
    BY <1>11 DEF PruneRefused, PruneFails, T
  <2>2. DoneNext(T[target])
    BY <2>1, Zenon DEF GoOn, DoneNext, T
  <2> QED
    BY <1>9, <2>1, <2>2, Zenon
<1>12. ASSUME NEW d \in Deployments, Restart(d) PROVE Goal
  <2>1. target' = 1 /\ UNCHANGED <<now, passAt>>
    BY <1>12 DEF Restart
  <2>2. \A p \in 1..Len(T') : ~(p < target')
    BY <2>1
  <2>3. passAt' <= now'
    BY <1>1, <2>1
  <2> QED
    BY <2>2, <2>3, Zenon
<1>13. CASE Tick
  <2>1. passAt' <= now' /\ passAt' # now'
    BY <1>1, <1>2, <1>13 DEF Tick
  <2> QED
    BY <2>1, Zenon
<1>14. CASE UNCHANGED vars
  <2>1. UNCHANGED <<config, now, target, passAt, failed, terminal, rows>>
    BY <1>14 DEF vars
  <2> QED
    BY <1>6, <2>1, Zenon
<1> QED
  BY <1>7, <1>8, <1>10, <1>11, <1>12, <1>13, <1>14, Zenon DEF Next
\* The statement for the lifecycle row is a pass's last, and deletes it only when
\* each target before it is done.
LEMMA EvidenceLast ==
    ASSUME \A d \in Deployments : WellMapped(d), EvidenceInv, [Next]_vars,
           Row(LifecycleTable), rows'[LifecycleTable] = None, target = 1 \/ passAt = now,
           NEW t \in Targeted \ {LifecycleTable}
    PROVE  \/ t \in failed
           \/ ~Row(t) \/ rows[t] = now
           \/ IF t \in DOMAIN ParentOwned THEN Row(ParentOwned[t])
              ELSE ~OlderThan(t, HoursOf(t))
<1> DEFINE LT == LifecycleTable
           T == PruneTargets
<1>1. /\ TypeOK /\ passAt <= now
      /\ passAt = now /\ Gone /\ rows[LT] < now =>
           \A p \in 1..Len(T) : p < target /\ T[p].table # LT => Done(T[p])
  BY Zenon DEF EvidenceInv, PassInv
<1>2. LT \in Tables
  BY Bounds
<1>3. Prune /\ T[target].table = LT /\ Deleted(T[target])
  BY <1>1, <1>2, OnlyPruned
<1>4. /\ T # <<>> /\ ~Fails(T[target])
  BY <1>3 DEF Prune
<1>5. /\ T \in Seq(Target) /\ Len(T) \in Nat /\ DOMAIN T = 1..Len(T)
      /\ target \in 1..Len(T) /\ T[target] \in Target
  BY <1>1, <1>4, PlaceIs
<1>6. Distinct(T) /\ AtEnd(T)
  BY <1>1, OrderIs
<1>7. T[target].keyed
  <2>1. config \in Deployments /\ Loadable(config)
    BY <1>1 DEF TypeOK
  <2>2. \/ Appended(T[target], config) \/ Aged(T[target], config) \/ T[target] = OwnedTarget
    BY <1>1, <1>5, <2>1, PlaceIs, TargetsAre, Zenon
  <2> HIDE DEF T
  <2>3. ~Appended(T[target], config)
    BY <1>3, <2>1 DEF Appended, WellMapped
  <2>4. Aged(T[target], config) => T[target].keyed
    BY <1>3 DEF Aged, Keyed, NotAssetIdKeyed, LifecycleTable
  <2>5. T[target] = OwnedTarget => T[target].keyed
    BY DEF OwnedTarget
  <2> QED
    BY <2>2, <2>3, <2>4, <2>5
<1>8. Gone /\ rows[LT] < now
  <2>1. LT \notin DOMAIN ParentOwned
    BY OwnedTable
  <2>2. OlderThan(LT, T[target].hours) /\ Gone
    BY <1>3, <1>7, <2>1, Zenon DEF Deleted
  <2>3. T[target].hours \in Nat
    BY <1>5 DEF Target
  <2>4. rows[LT] + T[target].hours < now /\ rows[LT] \in Int /\ now \in Int
    <3>1. Time \subseteq Int
      BY Bounds DEF Time
    <3> QED
      BY <1>1, <1>2, <2>2, <3>1 DEF OlderThan, Row, TypeOK
  <2> QED
    BY <2>2, <2>3, <2>4
<1> HIDE DEF T
<1>9. PICK p \in 1..Len(T) : T[p].table = t
  BY <1>5 DEF Targeted, T
<1>10. p < target
  <2>1. p # target
    BY <1>3, <1>9
  <2>2. ~(target < p)
    BY <1>3, <1>5, <1>6 DEF AtEnd
  <2> QED
    BY <1>5, <2>1, <2>2
<1>11. Done(T[p])
  <2>1. passAt = now
    BY <1>5, <1>10
  <2> QED
    BY <1>1, <1>8, <1>9, <1>10, <2>1, Zenon
<1>12. HoursOf(t) = T[p].hours
  <2> DEFINE x == CHOOSE x \in Range(T) : x.table = t
  <2>1. T[p] \in Range(T)
    BY <1>5 DEF Range
  <2>2. x \in Range(T) /\ x.table = t
    BY <1>9, <2>1, Zenon
  <2> HIDE DEF x
  <2>3. PICK q \in 1..Len(T) : x = T[q]
    BY <1>5, <2>2 DEF Range
  <2>4. q = p
    BY <1>6, <1>9, <2>2, <2>3 DEF Distinct
  <2>5. HoursOf(t) = x.hours
    BY Zenon DEF HoursOf, x, T
  <2> QED
    BY <2>3, <2>4, <2>5, Zenon
<1> QED
  BY <1>9, <1>11, <1>12, Zenon DEF Done, Row

\* A pass that takes no time deletes the evidence last, of every file that gives a
\* table one mapping and an owned one none: whatever the file's order, the environment,
\* the failures within a pass and the writes between its statements.
THEOREM EvidenceIsLast ==
    ASSUME \A d \in Deployments : WellMapped(d)
    PROVE  Spec => EvidenceGoesLast
<1> DEFINE A == Row(LifecycleTable) /\ rows'[LifecycleTable] = None
                /\ (target = 1 \/ passAt = now)
                => \A t \in Targeted \ {LifecycleTable} :
                     \/ t \in failed
                     \/ ~Row(t) \/ rows[t] = now
                     \/ IF t \in DOMAIN ParentOwned THEN Row(ParentOwned[t])
                        ELSE ~OlderThan(t, HoursOf(t))
<1>1. EvidenceInv /\ [Next]_vars => A
  BY EvidenceLast, Zenon
<1>2. Init => EvidenceInv
  BY EvidenceInit
<1>3. EvidenceInv /\ [Next]_vars => EvidenceInv'
  BY EvidenceStep
<1> HIDE DEF A
<1>4. Spec => [][A]_vars
  BY <1>1, <1>2, <1>3, PTL DEF Spec
<1> QED
  BY <1>4, PTL DEF EvidenceGoesLast, A
=============================================================================
