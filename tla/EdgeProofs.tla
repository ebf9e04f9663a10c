------------------------------ MODULE EdgeProofs ------------------------------
(***************************************************************************)
(* What the tier says of its uplink, for any topics, thresholds and bounds *)
(* on what can go wrong: the edge-buffer monitor's verdict and, at the end,*)
(* the band of the link heartbeat.  Both rest on sums over topics.         *)
(***************************************************************************)
EXTENDS EdgeBuffer, FiniteSetTheorems, WellFoundedInduction, TLAPS

\* What the heartbeat has and the monitor has not; each watches topics of its own.
CONSTANTS Traffic, IdleAfter, MaxRecords
VARIABLES logEnd, beaten, first, sum, advance, sent, covered, hidden, unread, quiet

Beat == INSTANCE LinkHeartbeat WITH Topics <- Traffic, end <- logEnd

-----------------------------------------------------------------------------
(* Sums over a finite set.  A sum is a fold, a fold is the value of a       *)
(* function defined by recursion on the subsets of the set, and to reason   *)
(* about it one has to show first that there is one.                        *)

First(s) == CHOOSE x \in s : TRUE

Iterates(f, S, iter) ==
    iter = [s \in SUBSET S |->
               IF s = {} THEN 0 ELSE f[First(s)] + iter[s \ {First(s)}]]

Iteration(f, S) == CHOOSE iter : Iterates(f, S, iter)

LEMMA SumIs ==
    ASSUME NEW f, NEW S
    PROVE  SumFunctionOnSet(f, S) = Iteration(f, S)[S]
BY DEF SumFunctionOnSet, FoldFunctionOnSet, MapThenFoldSet, Iteration, Iterates, First

LEMMA FirstIn == \A s : s # {} => First(s) \in s
BY DEF First

LEMMA LeastNumber ==
    ASSUME NEW S \in SUBSET Nat, S # {}
    PROVE  \E x \in S : \A y \in S : x <= y
<1>1. PICK x \in S : \A y \in S : ~(<<y, x>> \in OpToRel(<, Nat))
  BY WFMin, NatLessThanWellFounded, Zenon
<1>2. \A y \in S : ~(y < x)
  BY <1>1, Zenon DEF OpToRel
<1> QED
  BY <1>2

\* Of a set of finite sets one is smallest.
LEMMA Smallest ==
    ASSUME NEW Bad, Bad # {}, \A s \in Bad : IsFiniteSet(s)
    PROVE  \E s \in Bad : \A r \in Bad : Cardinality(s) <= Cardinality(r)
<1>1. \A s \in Bad : Cardinality(s) \in Nat
  BY FS_CardinalityType
<1> DEFINE Sizes == {Cardinality(s) : s \in Bad}
<1>2. Sizes \in SUBSET Nat /\ Sizes # {}
  BY <1>1
<1> HIDE DEF Sizes
<1>3. PICK n \in Sizes : \A m \in Sizes : n <= m
  BY <1>2, LeastNumber
<1> QED
  BY <1>3 DEF Sizes

\* A set without one of its elements is smaller.
LEMMA Smaller ==
    ASSUME NEW S, IsFiniteSet(S), NEW x \in S
    PROVE  /\ IsFiniteSet(S \ {x})
           /\ ~(Cardinality(S) <= Cardinality(S \ {x}))
<1>1. IsFiniteSet(S \ {x}) /\ Cardinality(S \ {x}) = Cardinality(S) - 1
  BY FS_RemoveElement
<1>2. Cardinality(S) \in Nat
  BY FS_CardinalityType
<1> QED
  BY <1>1, <1>2

\* The equation determines the values.
LEMMA Agreement ==
    ASSUME NEW f, NEW U, NEW V, NEW g, NEW h, NEW S,
           Iterates(f, U, g), Iterates(f, V, h),
           IsFiniteSet(S), S \subseteq U, S \subseteq V
    PROVE  g[S] = h[S]
<1> DEFINE Bad == {s \in SUBSET S : g[s] # h[s]}
<1>1. \A s \in Bad : IsFiniteSet(s)
  BY FS_Subset
<1>2. SUFFICES ASSUME Bad # {} PROVE FALSE
  OBVIOUS
<1>3. PICK s \in Bad : \A r \in Bad : Cardinality(s) <= Cardinality(r)
  BY <1>1, <1>2, Smallest
<1>4. s \in SUBSET U /\ s \in SUBSET V /\ s \in SUBSET S
  OBVIOUS
<1>5. /\ g[s] = IF s = {} THEN 0 ELSE f[First(s)] + g[s \ {First(s)}]
      /\ h[s] = IF s = {} THEN 0 ELSE f[First(s)] + h[s \ {First(s)}]
  BY <1>4 DEF Iterates
<1>6. s # {} /\ g[s \ {First(s)}] # h[s \ {First(s)}]
  BY <1>3, <1>5
<1>7. s \ {First(s)} \in Bad
  BY <1>4, <1>6
<1> QED
  BY <1>1, <1>3, <1>6, <1>7, FirstIn, Smaller

\* There is a function that satisfies the equation.
LEMMA Iterable ==
    ASSUME NEW f, NEW S, IsFiniteSet(S)
    PROVE  Iterates(f, S, Iteration(f, S))
<1> DEFINE Bad == {s \in SUBSET S : ~Iterates(f, s, Iteration(f, s))}
<1>1. \A s \in Bad : IsFiniteSet(s)
  BY FS_Subset
<1>2. SUFFICES ASSUME Bad # {} PROVE FALSE
  OBVIOUS
<1>3. PICK T \in Bad : \A r \in Bad : Cardinality(T) <= Cardinality(r)
  BY <1>1, <1>2, Smallest
<1>4. \A s \in SUBSET T : s # T => Iterates(f, s, Iteration(f, s))
  <2>1. SUFFICES ASSUME NEW s \in SUBSET T, s # T, s \in Bad PROVE FALSE
    OBVIOUS
  <2>2. IsFiniteSet(T) /\ Cardinality(s) <= Cardinality(T)
        /\ (Cardinality(T) = Cardinality(s) => T = s)
    BY <1>1, FS_Subset
  <2>3. Cardinality(T) \in Nat /\ Cardinality(s) \in Nat
    BY <1>1, <2>1, FS_CardinalityType
  <2> QED
    BY <1>3, <2>1, <2>2, <2>3
<1> DEFINE Rest(s) == s \ {First(s)}
           G == [s \in SUBSET T |->
                    IF s = {} THEN 0 ELSE f[First(s)] + Iteration(f, Rest(s))[Rest(s)]]
<1>5. ASSUME NEW s \in SUBSET T, s # T
      PROVE  G[s] = Iteration(f, s)[s]
  <2>1. Iterates(f, s, Iteration(f, s)) /\ IsFiniteSet(s)
    BY <1>1, <1>4, <1>5, FS_Subset
  <2>2. Iteration(f, s)[s] =
          IF s = {} THEN 0 ELSE f[First(s)] + Iteration(f, s)[Rest(s)]
    BY <2>1 DEF Iterates
  <2>3. s # {} => Iteration(f, s)[Rest(s)] = Iteration(f, Rest(s))[Rest(s)]
    <3>1. SUFFICES ASSUME s # {}
                   PROVE  Iteration(f, s)[Rest(s)] = Iteration(f, Rest(s))[Rest(s)]
      OBVIOUS
    <3>2. Rest(s) \in SUBSET T /\ Rest(s) # T /\ Rest(s) \subseteq s
      BY <3>1, FirstIn
    <3>3. Iterates(f, Rest(s), Iteration(f, Rest(s))) /\ IsFiniteSet(Rest(s))
      BY <1>4, <2>1, <3>2, FS_Subset
    <3> HIDE DEF Rest
    <3> QED
      BY <2>1, <3>2, <3>3, Agreement
  <2> QED
    BY <2>2, <2>3
<1>6. \A s \in SUBSET T : s # {} => Rest(s) \in SUBSET T /\ Rest(s) # T
  BY FirstIn
<1>7. Iterates(f, T, G)
  <2>1. \A s \in SUBSET T : s # {} => G[Rest(s)] = Iteration(f, Rest(s))[Rest(s)]
    BY <1>5, <1>6
  <2> QED
    BY <2>1 DEF Iterates
<1> HIDE DEF G
<1> QED
  BY <1>7 DEF Iteration
\* The sum over nothing.
LEMMA SumEmpty ==
    ASSUME NEW f PROVE SumFunctionOnSet(f, {}) = 0
<1>1. Iterates(f, {}, Iteration(f, {}))
  BY FS_EmptySet, Iterable
<1>2. Iteration(f, {})[{}] = 0
  BY <1>1 DEF Iterates
<1> QED
  BY <1>2, SumIs

\* The sum over something, as the fold takes it.
LEMMA SumStep ==
    ASSUME NEW f, NEW S, IsFiniteSet(S), S # {}
    PROVE  SumFunctionOnSet(f, S)
             = f[First(S)] + SumFunctionOnSet(f, S \ {First(S)})
<1>1. First(S) \in S /\ IsFiniteSet(S \ {First(S)})
  BY FirstIn, Smaller
<1>2. Iteration(f, S)[S] = f[First(S)] + Iteration(f, S)[S \ {First(S)}]
  <2>1. Iterates(f, S, Iteration(f, S)) /\ S \in SUBSET S
    BY Iterable
  <2> QED
    BY <2>1 DEF Iterates
<1>3. Iteration(f, S)[S \ {First(S)}]
        = Iteration(f, S \ {First(S)})[S \ {First(S)}]
  BY <1>1, Iterable, Agreement
<1> QED
  BY <1>2, <1>3, SumIs

\* A sum of numbers is a number.
LEMMA SumType ==
    ASSUME NEW f, NEW S, IsFiniteSet(S), \A x \in S : f[x] \in Nat
    PROVE  SumFunctionOnSet(f, S) \in Nat
<1> DEFINE Bad == {s \in SUBSET S : SumFunctionOnSet(f, s) \notin Nat}
<1>1. \A s \in Bad : IsFiniteSet(s)
  BY FS_Subset
<1>2. SUFFICES ASSUME Bad # {} PROVE FALSE
  OBVIOUS
<1>3. PICK s \in Bad : \A r \in Bad : Cardinality(s) <= Cardinality(r)
  BY <1>1, <1>2, Smallest
<1>4. s # {}
  BY <1>3, SumEmpty
<1>5. First(s) \in s /\ s \in SUBSET S
  BY <1>4, FirstIn
<1>6. SumFunctionOnSet(f, s) = f[First(s)] + SumFunctionOnSet(f, s \ {First(s)})
  BY <1>1, <1>4, SumStep
<1>7. s \ {First(s)} \in Bad
  BY <1>3, <1>5, <1>6
<1> QED
  BY <1>1, <1>3, <1>5, <1>7, Smaller

\* Any of the elements may be taken first.
LEMMA SumSplit ==
    ASSUME NEW f, NEW S, IsFiniteSet(S), \A x \in S : f[x] \in Nat, NEW a \in S
    PROVE  SumFunctionOnSet(f, S) = f[a] + SumFunctionOnSet(f, S \ {a})
<1> DEFINE Bad == {s \in SUBSET S : \E x \in s :
                      SumFunctionOnSet(f, s) # f[x] + SumFunctionOnSet(f, s \ {x})}
<1>1. \A s \in Bad : IsFiniteSet(s)
  BY FS_Subset
<1>2. SUFFICES ASSUME Bad # {} PROVE FALSE
  OBVIOUS
<1>3. PICK s \in Bad : \A r \in Bad : Cardinality(s) <= Cardinality(r)
  BY <1>1, <1>2, Smallest
<1>4. PICK x \in s : SumFunctionOnSet(f, s) # f[x] + SumFunctionOnSet(f, s \ {x})
  OBVIOUS
<1> DEFINE c == First(s)
<1>5. c \in s /\ s \in SUBSET S /\ IsFiniteSet(s)
  BY <1>1, <1>4, FirstIn
<1>6. SumFunctionOnSet(f, s) = f[c] + SumFunctionOnSet(f, s \ {c})
  BY <1>4, <1>5, SumStep
<1>7. x # c
  BY <1>4, <1>6
<1> HIDE DEF c
<1>8. s \ {c} \notin Bad /\ s \ {x} \notin Bad
  BY <1>3, <1>5, Smaller
<1> DEFINE r == s \ {c, x}
<1>9. (s \ {c}) \ {x} = r /\ (s \ {x}) \ {c} = r
  OBVIOUS
<1>10. SumFunctionOnSet(f, s \ {c}) = f[x] + SumFunctionOnSet(f, r)
  BY <1>5, <1>7, <1>8, <1>9
<1>11. SumFunctionOnSet(f, s \ {x}) = f[c] + SumFunctionOnSet(f, r)
  BY <1>5, <1>7, <1>8, <1>9
<1>12. /\ f[x] \in Nat /\ f[c] \in Nat
       /\ SumFunctionOnSet(f, r) \in Nat
  <2>1. IsFiniteSet(r) /\ \A y \in r : f[y] \in Nat
    BY <1>5, FS_Subset
  <2> QED
    BY <1>5, <2>1, SumType
<1> HIDE DEF r
<1> QED
  BY <1>4, <1>6, <1>10, <1>11, <1>12
\* More elements and higher values give no lower a sum.
LEMMA SumMonotone ==
    ASSUME NEW f, NEW S, IsFiniteSet(S), \A x \in S : f[x] \in Nat,
           NEW g, NEW T, IsFiniteSet(T), \A x \in T : g[x] \in Nat,
           S \subseteq T, \A x \in S : f[x] <= g[x]
    PROVE  SumFunctionOnSet(f, S) <= SumFunctionOnSet(g, T)
<1> DEFINE Bad == {s \in SUBSET S : \E r \in SUBSET T :
                     s \subseteq r /\ ~(SumFunctionOnSet(f, s) <= SumFunctionOnSet(g, r))}
<1>1. \A s \in Bad : IsFiniteSet(s)
  BY FS_Subset
<1>2. SUFFICES ASSUME Bad # {} PROVE FALSE
  OBVIOUS
<1>3. PICK s \in Bad : \A q \in Bad : Cardinality(s) <= Cardinality(q)
  BY <1>1, <1>2, Smallest
<1>4. PICK r \in SUBSET T :
        s \subseteq r /\ ~(SumFunctionOnSet(f, s) <= SumFunctionOnSet(g, r))
  OBVIOUS
<1>5. /\ IsFiniteSet(s) /\ IsFiniteSet(r) /\ s \in SUBSET S
      /\ \A x \in s : f[x] \in Nat
      /\ \A x \in r : g[x] \in Nat
  BY <1>1, FS_Subset
<1>6. s # {}
  BY <1>4, <1>5, SumEmpty, SumType
<1>7. PICK x \in s : TRUE
  BY <1>6
<1>8. x \in r /\ s \ {x} \subseteq r \ {x} /\ r \ {x} \in SUBSET T
      /\ s \ {x} \in SUBSET S
  BY <1>4, <1>5
<1>9. s \ {x} \notin Bad
  BY <1>3, <1>5, <1>7, Smaller
<1>10. SumFunctionOnSet(f, s \ {x}) <= SumFunctionOnSet(g, r \ {x})
  BY <1>8, <1>9
<1>11. /\ SumFunctionOnSet(f, s) = f[x] + SumFunctionOnSet(f, s \ {x})
       /\ SumFunctionOnSet(g, r) = g[x] + SumFunctionOnSet(g, r \ {x})
  BY <1>5, <1>7, <1>8, SumSplit
<1>12. /\ SumFunctionOnSet(f, s \ {x}) \in Nat
       /\ SumFunctionOnSet(g, r \ {x}) \in Nat
  <2>1. IsFiniteSet(s \ {x}) /\ IsFiniteSet(r \ {x})
    BY <1>5, FS_Subset
  <2> QED
    BY <1>5, <2>1, SumType
<1>13. f[x] <= g[x] /\ f[x] \in Nat /\ g[x] \in Nat
  BY <1>5, <1>7, <1>8
<1> HIDE DEF Bad
<1> QED
  BY <1>4, <1>10, <1>11, <1>12, <1>13

\* A sum depends on the values of the elements only.
LEMMA SumSame ==
    ASSUME NEW f, NEW g, NEW S, IsFiniteSet(S), \A x \in S : f[x] \in Nat,
           \A x \in S : g[x] = f[x]
    PROVE  SumFunctionOnSet(g, S) = SumFunctionOnSet(f, S)
<1>1. \A x \in S : f[x] <= g[x] /\ g[x] <= f[x] /\ g[x] \in Nat
  OBVIOUS
<1>2. /\ SumFunctionOnSet(f, S) <= SumFunctionOnSet(g, S)
      /\ SumFunctionOnSet(g, S) <= SumFunctionOnSet(f, S)
  BY <1>1, SumMonotone
<1>3. SumFunctionOnSet(f, S) \in Nat /\ SumFunctionOnSet(g, S) \in Nat
  BY <1>1, SumType
<1> QED
  BY <1>2, <1>3

\* A sum is higher if one value is, or one element is new and above zero.
LEMMA SumStrict ==
    ASSUME NEW f, NEW S, IsFiniteSet(S), \A x \in S : f[x] \in Nat,
           NEW g, NEW T, IsFiniteSet(T), \A x \in T : g[x] \in Nat,
           S \subseteq T, \A x \in S : f[x] <= g[x],
           NEW a \in T, IF a \in S THEN f[a] < g[a] ELSE 0 < g[a]
    PROVE  SumFunctionOnSet(f, S) < SumFunctionOnSet(g, T)
<1>1. IsFiniteSet(S \ {a}) /\ IsFiniteSet(T \ {a})
  BY FS_Subset
<1>2. SumFunctionOnSet(g, T) = g[a] + SumFunctionOnSet(g, T \ {a})
  BY SumSplit
<1>3. SumFunctionOnSet(f, S \ {a}) <= SumFunctionOnSet(g, T \ {a})
  BY <1>1, SumMonotone
<1>4. SumFunctionOnSet(f, S \ {a}) \in Nat /\ SumFunctionOnSet(g, T \ {a}) \in Nat
  BY <1>1, SumType
<1>5. CASE a \in S
  <2>1. SumFunctionOnSet(f, S) = f[a] + SumFunctionOnSet(f, S \ {a})
    BY <1>5, SumSplit
  <2>2. f[a] \in Nat /\ g[a] \in Nat /\ f[a] < g[a]
    BY <1>5
  <2>3. \A k, l, x, y \in Nat : k < l /\ x <= y => k + x < l + y
    OBVIOUS
  <2>4. f[a] + SumFunctionOnSet(f, S \ {a}) < g[a] + SumFunctionOnSet(g, T \ {a})
    BY <1>3, <1>4, <2>2, <2>3, Zenon
  <2> QED
    BY <1>2, <2>1, <2>4, Zenon
<1>6. CASE a \notin S
  <2>1. S \ {a} = S
    BY <1>6
  <2>2. g[a] \in Nat /\ 0 < g[a]
    BY <1>6
  <2>3. \A l, x, y \in Nat : 0 < l /\ x <= y => x < l + y
    OBVIOUS
  <2>4. /\ SumFunctionOnSet(f, S) <= SumFunctionOnSet(g, T \ {a})
        /\ SumFunctionOnSet(f, S) \in Nat
    BY <1>3, <1>4, <2>1, Zenon
  <2>5. SumFunctionOnSet(f, S) < g[a] + SumFunctionOnSet(g, T \ {a})
    BY <1>4, <2>2, <2>3, <2>4, Zenon
  <2> QED
    BY <1>2, <2>5, Zenon
<1> QED
  BY <1>5, <1>6, Zenon

\* Where a sum of numbers is zero, each of them is.
LEMMA SumZero ==
    ASSUME NEW f, NEW S, IsFiniteSet(S), \A x \in S : f[x] \in Nat,
           SumFunctionOnSet(f, S) = 0, NEW a \in S
    PROVE  f[a] = 0
<1>1. SumFunctionOnSet(f, S) = f[a] + SumFunctionOnSet(f, S \ {a})
  BY SumSplit
<1>2. IsFiniteSet(S \ {a}) /\ \A x \in S \ {a} : f[x] \in Nat
  BY FS_Subset
<1>3. SumFunctionOnSet(f, S \ {a}) \in Nat /\ f[a] \in Nat
  BY <1>2, SumType
<1> QED
  BY <1>1, <1>3
\* The other way: zeros sum to zero.
LEMMA SumZeros ==
    ASSUME NEW f, NEW S, IsFiniteSet(S), \A x \in S : f[x] = 0
    PROVE  SumFunctionOnSet(f, S) = 0
<1> DEFINE Bad == {s \in SUBSET S : SumFunctionOnSet(f, s) # 0}
<1>1. \A s \in Bad : IsFiniteSet(s)
  BY FS_Subset
<1>2. SUFFICES ASSUME Bad # {} PROVE FALSE
  OBVIOUS
<1>3. PICK s \in Bad : \A r \in Bad : Cardinality(s) <= Cardinality(r)
  BY <1>1, <1>2, Smallest
<1>4. s # {}
  BY <1>3, SumEmpty
<1>5. First(s) \in s /\ s \in SUBSET S /\ f[First(s)] = 0
  BY <1>4, FirstIn
<1>6. SumFunctionOnSet(f, s) = f[First(s)] + SumFunctionOnSet(f, s \ {First(s)})
  BY <1>1, <1>4, SumStep
<1>7. s \ {First(s)} \in Bad
  BY <1>3, <1>5, <1>6
<1> QED
  BY <1>1, <1>3, <1>5, <1>7, Smaller
-----------------------------------------------------------------------------
(* EdgeBuffer: type correctness.                                            *)

\* What the types of the observation leave open.
Known ==
    /\ work.pc = "write" => (work.row.healthy => work.row.lag # LagUnknown)
    /\ base # None \/ seen \/ severed # None => age # None
    /\ Reading /\ age # None => work.began <= age
    /\ \A t \in Listed : acked[t] <= end[t]

\* The bounds are numbers.
LEMMA Bounds ==
    /\ IsFiniteSet(Topics) /\ None \notin Int /\ None \notin BOOLEAN
    /\ ExchangePeriod \in Nat /\ ExchangePeriod >= 1
    /\ RestoreExchanges \in Nat /\ RestoreExchanges >= 1
    /\ SlowMax \in Nat /\ MaxAppends \in Nat /\ MaxFaults \in Nat
    /\ SeverAfter \in Nat /\ SeverAfter = 2 * ExchangePeriod + 2
    /\ AgeMax \in Nat /\ AgeMax = SeverAfter + 2 + 2 * SlowMax
    /\ MovedMax \in Nat /\ MovedMax = 2 * SeverAfter + 2 + 2 * SlowMax
BY EdgeBufferAssumption DEF SeverAfter, AgeMax, MovedMax

\* What the loop holds where it is.
LEMMA WorkIs ==
    ASSUME work \in WorkType
    PROVE  /\ work.pc \in {"sleep", "list", "marks", "write", "done"}
           /\ Reading => work.began \in Nat /\ work.began <= SlowMax
           /\ work.pc = "list" => work = [pc |-> "list", began |-> work.began]
           /\ work.pc = "marks" =>
                /\ work = [pc |-> "marks", began |-> work.began, offsets |-> work.offsets]
                /\ work.offsets \in Readings
           /\ work.pc = "write" => work.row \in RowType
BY Bounds DEF WorkType, Reading, Began

\* A reading: the offsets of some topics, and what they sum to.
LEMMA ReadingIs ==
    ASSUME NEW r \in Readings
    PROVE  /\ DOMAIN r \subseteq Topics /\ IsFiniteSet(DOMAIN r)
           /\ \A t \in DOMAIN r : r[t] \in Nat /\ r[t] <= MaxAppends
           /\ SumFunction(r) = SumFunctionOnSet(r, DOMAIN r)
           /\ SumFunction(r) \in Nat
<1>1. PICK S \in SUBSET Topics : r \in [S -> Offset]
  BY DEF Readings
<1>2. DOMAIN r = S /\ IsFiniteSet(S)
  BY <1>1, Bounds, FS_Subset
<1>3. \A t \in S : r[t] \in Nat /\ r[t] <= MaxAppends
  BY <1>1, Bounds DEF Offset
<1> QED
  BY <1>2, <1>3, SumType DEF SumFunction

\* The reading there is to be had.
ReportIs ==
    /\ Reported \in Readings /\ DOMAIN Reported = Listed
    /\ Listed \subseteq Topics
    /\ \A t \in Listed : Reported[t] = acked[t] /\ acked[t] \in Nat

LEMMA ReportedIs == TypeOK => ReportIs
<1> SUFFICES ASSUME TypeOK PROVE ReportIs
  OBVIOUS
<1>1. \A t \in Listed : acked[t] \in Offset
  BY DEF TypeOK, Listed
<1>2. Reported \in [Listed -> Offset] /\ Listed \subseteq Topics
  BY <1>1 DEF Reported, Listed
<1> QED
  BY <1>1, <1>2, Bounds DEF ReportIs, Reported, Readings, Offset

LEMMA ReportedNext == TypeOK' => ReportIs'
BY ReportedIs, PTL

\* The log ends and a reading.
LagOfTopic(offsets) ==
    [t \in DOMAIN offsets |-> IF offsets[t] < end[t] THEN end[t] - offsets[t] ELSE 0]

LEMMA LagIs ==
    ASSUME TypeOK, NEW r \in Readings
    PROVE  /\ LagOf(r) \in Nat
           /\ LagOf(r) = 0 => \A t \in DOMAIN r : end[t] <= r[t]
           /\ LagOf(r) # 0 => \E t \in DOMAIN r : r[t] < end[t]
<1> DEFINE L == LagOfTopic(r)
<1>1. /\ DOMAIN r \subseteq Topics /\ IsFiniteSet(DOMAIN r)
      /\ \A t \in DOMAIN r : r[t] \in Nat /\ end[t] \in Nat
  <2>1. \A t \in Topics : end[t] \in Nat
    BY Bounds DEF TypeOK, Offset
  <2> QED
    BY <2>1, ReadingIs
<1>2. /\ DOMAIN L = DOMAIN r
      /\ \A t \in DOMAIN r :
            L[t] \in Nat /\ (L[t] = 0 <=> end[t] <= r[t]) /\ (L[t] # 0 <=> r[t] < end[t])
  BY <1>1 DEF LagOfTopic
<1>3. LagOf(r) = SumFunctionOnSet(L, DOMAIN r)
  BY <1>2 DEF LagOf, LagOfTopic, SumFunction
<1> HIDE DEF L
<1>4. LagOf(r) \in Nat
  BY <1>1, <1>2, <1>3, SumType
<1>5. ASSUME LagOf(r) = 0, NEW t \in DOMAIN r PROVE end[t] <= r[t]
  BY <1>1, <1>2, <1>3, <1>5, SumZero
<1>6. ASSUME \A t \in DOMAIN r : ~(r[t] < end[t]) PROVE LagOf(r) = 0
  <2> DEFINE Z == [t \in DOMAIN r |-> 0]
  <2>1. \A t \in DOMAIN r : L[t] <= Z[t] /\ L[t] \in Nat /\ Z[t] \in Nat /\ Z[t] = 0
    BY <1>2, <1>6
  <2>2. SumFunctionOnSet(Z, DOMAIN r) = 0
    <3> HIDE DEF Z
    <3> QED
      BY <1>1, <2>1, SumZeros
  <2> HIDE DEF Z
  <2>3. SumFunctionOnSet(L, DOMAIN r) <= SumFunctionOnSet(Z, DOMAIN r)
    BY <1>1, <2>1, SumMonotone
  <2> QED
    BY <1>3, <1>4, <2>2, <2>3
<1> QED
  BY <1>4, <1>5, <1>6
\* A probe that is through leaves the types as they are.
LEMMA ObserveType ==
    ASSUME TypeOK, Known, Reading,
           NEW s \in Nat \cup {None}, NEW l \in Nat \cup {None}, NEW p \in {0, 1},
           Observe(s, l, p)
    PROVE  TypeOK' /\ Known'
<1> DEFINE b == work.began
<1>1. /\ b \in Nat /\ b <= SlowMax /\ b <= AgeMax
      /\ slips \in 0..2 /\ stalled \in 0..2
  BY WorkIs, Bounds DEF TypeOK
<1>2. /\ UNCHANGED <<end, acked, cut, debt, brokerUp, row, pgUp, moved, faults>>
      /\ base' = IF s = None THEN base ELSE s
      /\ work' = [pc |-> "write", row |-> Built(l)]
      /\ work'.pc = "write" /\ work'.row = Built(l)
  BY DEF Observe, Rebased, relay
<1>3. /\ Built(l) \in RowType
      /\ Built(l).healthy => Built(l).lag # LagUnknown
  <2>1. /\ (severed' = TRUE) \in BOOLEAN
        /\ (l # None /\ severed' # None) \in BOOLEAN
    OBVIOUS
  <2>2. (IF l = None THEN LagUnknown ELSE l) \in {LagUnknown} \cup Nat
    OBVIOUS
  <2>3. Built(l) \in RowType
    BY <2>1, <2>2, Zenon DEF Built, RowType
  <2>4. Built(l).healthy = (l # None /\ severed' # None)
        /\ Built(l).lag = IF l = None THEN LagUnknown ELSE l
    BY Zenon DEF Built
  <2>5. l # None => l # LagUnknown
    BY DEF LagUnknown
  <2> QED
    BY <2>3, <2>4, <2>5, Zenon
<1>4. slips' \in 0..2 /\ stalled' \in 0..2 /\ wasCut' \in BOOLEAN
  BY <1>1 DEF Observe, Slips, More, Least, TypeOK
<1>5. CASE IsExchange(s, l)
  <2>1. OnExchange(b)
    BY <1>5 DEF Observe
  <2> DEFINE n == IF severed = TRUE THEN Restored(AgeAt(b)) ELSE RestoreExchanges
  <2>2. n \in Nat
    BY Bounds DEF TypeOK, Restored
  <2>3. /\ severed' = (n < RestoreExchanges)
        /\ count' = IF n < RestoreExchanges THEN n ELSE 0
        /\ seen' = TRUE /\ age' = b
    BY <2>1, Zenon DEF OnExchange
  <2> HIDE DEF n
  <2>4. count' \in 0..(RestoreExchanges - 1) /\ (count' > 0 => n < RestoreExchanges)
    <3>1. CASE n < RestoreExchanges
      BY <2>2, <2>3, <3>1, Bounds
    <3>2. CASE ~(n < RestoreExchanges)
      BY <2>2, <2>3, <3>2, Bounds
    <3> QED
      BY <3>1, <3>2
  <2>5. severed' \in BOOLEAN /\ (count' > 0 => severed' = TRUE)
    <3>1. severed' \in BOOLEAN
      BY <2>2, <2>3, Bounds
    <3> QED
      BY <2>3, <2>4, <3>1, Zenon
  <2>6. age' \in (0..AgeMax) \cup {None} /\ age' # None
    BY <1>1, <2>3, Bounds
  <2>7. base' \in Nat \cup {None}
    BY <1>2 DEF TypeOK
  <2>8. TypeOK'
    BY <1>2, <1>3, <1>4, <2>3, <2>4, <2>5, <2>6, <2>7 DEF TypeOK, WorkType
  <2>9. Known'
    BY <1>2, <1>3, <2>6 DEF Known, Reading, Listed
  <2> QED
    BY <2>8, <2>9
<1>6. CASE ~IsExchange(s, l)
  <2>1. OnSilence(b)
    BY <1>6 DEF Observe
  <2>2. /\ severed' = severed \/ severed' = TRUE
        /\ count' = count \/ count' = 0
        /\ severed = TRUE => severed' = TRUE
        /\ seen' = seen
        /\ age' = IF age = None THEN b ELSE age
    BY <2>1, Zenon DEF OnSilence
  <2>3. severed' \in BOOLEAN \cup {None} /\ seen' \in BOOLEAN
    BY <2>2, Zenon DEF TypeOK
  <2>4. count' \in 0..(RestoreExchanges - 1) /\ (count' > 0 => severed' = TRUE)
    <3>1. count \in 0..(RestoreExchanges - 1) /\ (count > 0 => severed = TRUE)
          /\ 0 \in 0..(RestoreExchanges - 1) /\ ~(0 > 0)
      BY Bounds DEF TypeOK
    <3> QED
      BY <2>2, <3>1, Zenon
  <2>5. age' \in (0..AgeMax) \cup {None} /\ age' # None
    BY <1>1, <2>2, Bounds DEF TypeOK
  <2>6. base' \in Nat \cup {None}
    BY <1>2 DEF TypeOK
  <2>7. TypeOK'
    BY <1>2, <1>3, <1>4, <2>3, <2>4, <2>5, <2>6 DEF TypeOK, WorkType
  <2>8. Known'
    BY <1>2, <1>3, <2>5 DEF Known, Reading, Listed
  <2> QED
    BY <2>7, <2>8
<1> QED
  BY <1>5, <1>6

\* What the two endings of a probe hand to the observation.
LEMMA ProbeEnds ==
    ASSUME TypeOK, ReadMarks \/ ProbeFails
    PROVE  /\ Reading
           /\ \E s \in Nat \cup {None}, l \in Nat \cup {None}, p \in {0, 1} :
                 Observe(s, l, p)
<1>1. CASE ReadMarks
  <2>1. work.pc = "marks" /\ work.offsets \in Readings
    BY <1>1, WorkIs DEF ReadMarks, TypeOK
  <2>2. SumFunction(work.offsets) \in Nat /\ LagOf(work.offsets) \in Nat
    BY <2>1, ReadingIs, LagIs
  <2> QED
    BY <1>1, <2>1, <2>2 DEF ReadMarks, Reading
<1>2. CASE ProbeFails
  BY <1>2 DEF ProbeFails
<1> QED
  BY <1>1, <1>2

\* Every step keeps the types.
LEMMA TypeStep ==
    ASSUME TypeOK, Known, [Next]_vars
    PROVE  TypeOK' /\ Known'
<1>1. /\ end \in [Topics -> Offset] /\ acked \in [Topics -> Offset \cup {None}]
      /\ \A t \in Topics : end[t] \in Nat /\ end[t] <= MaxAppends
      /\ \A t \in Listed : t \in Topics /\ acked[t] \in Nat /\ acked[t] <= MaxAppends
      /\ \A t \in Topics : Committed(t) \in Nat
  BY Bounds DEF TypeOK, Offset, Listed, Committed
<1>2. slips \in 0..2 /\ \A n \in {0, 1} : Slips(n) => slips' \in 0..2
  BY DEF TypeOK, Slips, More
<1>3. ASSUME NEW t \in Topics, Publish(t) PROVE TypeOK' /\ Known'
  <2>1. end' \in [Topics -> Offset] /\ \A u \in Topics : end[u] <= end'[u]
    BY <1>1, <1>3, Bounds DEF Publish, Offset
  <2>2. UNCHANGED <<acked, cut, debt, brokerUp, work, reach, row, pgUp, history, faults>>
    BY <1>3 DEF Publish
  <2>3. TypeOK'
    BY <2>1, <2>2 DEF TypeOK, reach, history
  <2>4. \A u \in Listed : acked[u] <= end'[u]
    <3>1. \A u \in Listed : end[u] \in Nat /\ end'[u] \in Nat
      BY <1>1, <2>1, Bounds DEF Offset
    <3> QED
      BY <1>1, <2>1, <3>1 DEF Known
  <2> QED
    BY <2>2, <2>3, <2>4 DEF Known, Reading, Listed, reach
<1>4. ASSUME NEW t \in Topics, Acknowledge(t) PROVE TypeOK' /\ Known'
  <2>1. PICK o \in (Committed(t) + 1)..end[t] : acked' = [acked EXCEPT ![t] = o]
    BY <1>4 DEF Acknowledge
  <2>2. o \in Offset /\ o <= end[t] /\ acked' \in [Topics -> Offset \cup {None}]
    BY <1>1, <2>1, Bounds DEF Offset
  <2>3. /\ UNCHANGED <<end, cut, brokerUp, work, reach, row, pgUp, slips, wasCut,
                       stalled, faults>>
        /\ debt' = 0 /\ moved' = 0
    BY <1>4 DEF Acknowledge
  <2>4. TypeOK'
    BY <2>2, <2>3, Bounds DEF TypeOK, reach
  <2>5. \A u \in Listed' : acked'[u] <= end[u]
    BY <1>1, <2>1, <2>2 DEF Known, Listed
  <2> QED
    BY <2>3, <2>4, <2>5 DEF Known, Reading, Listed, reach
<1>5. ASSUME NEW t \in Topics, ResetGroup(t) PROVE TypeOK' /\ Known'
  <2>1. PICK o \in 0..(Committed(t) - 1) : acked' = [acked EXCEPT ![t] = o]
    BY <1>5 DEF ResetGroup
  <2>2. t \in Listed /\ o \in Nat /\ o <= acked[t] /\ o \in Offset
    BY <1>1, <2>1, Bounds DEF Committed, Listed, Offset
  <2>3. acked' \in [Topics -> Offset \cup {None}] /\ Listed' = Listed
    BY <1>1, <2>1, <2>2, Bounds DEF Listed, Offset
  <2>4. /\ UNCHANGED <<end, cut, debt, brokerUp, work, reach, row, pgUp, moved, wasCut>>
        /\ faults' \in 0..MaxFaults /\ slips' \in 0..2 /\ stalled' \in 0..2
    BY <1>2, <1>5, Bounds DEF ResetGroup, TypeOK
  <2>5. TypeOK'
    BY <2>3, <2>4 DEF TypeOK, reach
  <2>6. \A u \in Listed : acked'[u] <= end[u]
    BY <1>1, <2>1, <2>2 DEF Known
  <2> QED
    BY <2>3, <2>4, <2>5, <2>6 DEF Known, Reading, reach
<1>6. ASSUME NEW t \in Topics, Recreate(t) PROVE TypeOK' /\ Known'
  <2>1. end' \in [Topics -> Offset] /\ acked' \in [Topics -> Offset \cup {None}]
    BY <1>1, <1>6, Bounds DEF Recreate, Offset
  <2>2. Listed' = Listed \ {t}
        /\ \A u \in Listed' : acked'[u] = acked[u] /\ end'[u] = end[u]
    BY <1>1, <1>6 DEF Recreate, Listed
  <2>3. /\ UNCHANGED <<cut, debt, brokerUp, work, reach, row, pgUp, wasCut, stalled>>
        /\ faults' \in 0..MaxFaults /\ slips' \in 0..2 /\ moved' \in 0..MovedMax
    BY <1>2, <1>6, Bounds DEF Recreate, TypeOK
  <2>4. TypeOK'
    BY <2>1, <2>3 DEF TypeOK, reach
  <2> QED
    BY <2>2, <2>3, <2>4 DEF Known, Reading, reach
<1>7. CASE Tick
  <2>1. UNCHANGED <<end, acked, cut, brokerUp, base, seen, severed, count, row, pgUp, wasCut>>
    BY <1>7 DEF Tick
  <2>2. debt' \in 0..(2 * ExchangePeriod)
    BY <1>7, Bounds DEF Tick, Punctual, TypeOK
  <2>3. slips' \in 0..2 /\ stalled' \in 0..2 /\ moved' \in 0..MovedMax
        /\ faults' \in 0..MaxFaults
    <3>1. slips' \in 0..2
      BY <1>7, <1>2 DEF Tick, Slips, More
    <3>2. stalled' \in 0..2
      BY <1>7 DEF Tick, TypeOK
    <3>3. moved' \in 0..MovedMax
      BY <1>7, Bounds DEF Tick, Older, Least, TypeOK
    <3>4. faults' \in 0..MaxFaults
      BY <1>7, Bounds DEF Tick, Blocked, Reading, TypeOK
    <3> QED
      BY <3>1, <3>2, <3>3, <3>4
  <2>4. /\ age' \in (0..AgeMax) \cup {None} /\ (age' = None <=> age = None)
        /\ age # None => age' = IF age + 1 <= AgeMax THEN age + 1 ELSE AgeMax
    BY <1>7, Bounds DEF Tick, Older, Least, TypeOK
  <2>5. /\ work' \in WorkType
        /\ work'.pc = "write" => work' = work
        /\ Reading' => Reading /\ work'.began = work.began + 1 /\ work'.began <= SlowMax
    <3>1. CASE work.pc = "done"
      BY <1>7, <3>1 DEF Tick, WorkType, Reading
    <3>2. CASE Blocked
      BY <1>7, <3>2 DEF Tick, Blocked, Reading, TypeOK
    <3>3. CASE Reading /\ work.began < SlowMax
      <4>1. work' = [work EXCEPT !.began = @ + 1]
        BY <1>7, <3>3 DEF Tick, Reading
      <4>2. work.began + 1 \in Began /\ work.began + 1 <= SlowMax
        BY <3>3, WorkIs, Bounds DEF Began, TypeOK
      <4>3. CASE work.pc = "list"
        <5>1. work' = [pc |-> "list", began |-> work.began + 1]
          BY <4>1, <4>3, WorkIs DEF TypeOK
        <5> QED
          BY <3>3, <4>2, <5>1 DEF WorkType
      <4>4. CASE work.pc = "marks"
        <5>1. /\ work' = [pc |-> "marks", began |-> work.began + 1,
                          offsets |-> work.offsets]
              /\ work.offsets \in Readings
          BY <4>1, <4>4, WorkIs DEF TypeOK
        <5> QED
          BY <3>3, <4>2, <5>1 DEF WorkType
      <4> QED
        BY <3>3, <4>3, <4>4 DEF Reading
    <3> QED
      BY <1>7, <3>1, <3>2, <3>3 DEF Tick
  <2>6. TypeOK'
    BY <2>1, <2>2, <2>3, <2>4, <2>5 DEF TypeOK
  <2>7. Reading' /\ age' # None => work'.began <= age'
    <3>1. SUFFICES ASSUME Reading', age' # None PROVE work'.began <= age'
      OBVIOUS
    <3>2. /\ Reading /\ age # None /\ work.began <= age /\ work.began \in Nat
          /\ work'.began = work.began + 1 /\ work'.began <= SlowMax /\ age \in Nat
      BY <2>4, <2>5, <3>1, WorkIs DEF Known, TypeOK
    <3> QED
      BY <2>4, <3>2, Bounds
  <2>8. work'.pc = "write" => (work'.row.healthy => work'.row.lag # LagUnknown)
    BY <2>5 DEF Known
  <2>9. base' # None \/ seen' \/ severed' # None => age' # None
    BY <2>1, <2>4, Zenon DEF Known
  <2>10. \A u \in Listed' : acked'[u] <= end'[u]
    BY <2>1 DEF Known, Listed
  <2> QED
    BY <2>6, <2>7, <2>8, <2>9, <2>10 DEF Known
<1>8. CASE Wake \/ ListOffsets \/ WriteRow \/ WriteFails \/ Restart
  <2>1. Reported \in Readings
    BY ReportedIs DEF ReportIs
  <2>2. work' \in WorkType
    BY <1>8, <2>1, WorkIs, Bounds
    DEF Wake, ListOffsets, WriteRow, WriteFails, Restart, WorkType, Began, Reading, TypeOK
  <2>3. Reading' => (age' = None \/ (age' = age /\ work'.began = 0))
                    \/ (Reading /\ UNCHANGED age /\ work'.began = work.began)
    BY <1>8 DEF Wake, ListOffsets, WriteRow, WriteFails, Restart, Reading, reach
  <2>4. work'.pc # "write"
    BY <1>8 DEF Wake, ListOffsets, WriteRow, WriteFails, Restart
  <2>5. /\ UNCHANGED <<end, acked, cut, debt, brokerUp, pgUp>>
        /\ \/ UNCHANGED reach
           \/ base' = None /\ age' = None /\ seen' = FALSE /\ severed' = None /\ count' = 0
        /\ row' = row \/ (row' = work.row /\ work.pc = "write")
        /\ moved' = moved \/ moved' = 0
        /\ slips' = slips \/ slips' = 0
        /\ wasCut' = wasCut \/ wasCut' = cut
        /\ stalled' = stalled \/ stalled' = 0
        /\ faults' \in 0..MaxFaults
    <3>1. faults' \in 0..MaxFaults
      BY <1>8, Bounds
      DEF Wake, ListOffsets, WriteRow, WriteFails, Restart, relay, history, TypeOK
    <3>2. UNCHANGED <<end, acked, cut, debt, brokerUp, pgUp>>
      BY <1>8 DEF Wake, ListOffsets, WriteRow, WriteFails, Restart, relay
    <3>3. \/ UNCHANGED reach
          \/ base' = None /\ age' = None /\ seen' = FALSE /\ severed' = None /\ count' = 0
      <4>1. Wake \/ ListOffsets \/ WriteRow \/ WriteFails => UNCHANGED reach
        BY DEF Wake, ListOffsets, WriteRow, WriteFails
      <4>2. Restart =>
              base' = None /\ age' = None /\ seen' = FALSE /\ severed' = None /\ count' = 0
        BY Zenon DEF Restart
      <4> QED
        BY <1>8, <4>1, <4>2, Zenon
    <3>4. row' = row \/ (row' = work.row /\ work.pc = "write")
      BY <1>8 DEF Wake, ListOffsets, WriteRow, WriteFails, Restart
    <3>5. /\ moved' = moved \/ moved' = 0
          /\ slips' = slips \/ slips' = 0
          /\ wasCut' = wasCut \/ wasCut' = cut
          /\ stalled' = stalled \/ stalled' = 0
      BY <1>8 DEF Wake, ListOffsets, WriteRow, WriteFails, Restart, history
    <3> QED
      BY <3>1, <3>2, <3>3, <3>4, <3>5
  <2>6. row' \in RowType \cup {None} /\ (row' # None => (row'.healthy => row'.lag # LagUnknown))
    BY <2>5, WorkIs DEF TypeOK, Known
  <2>7. TypeOK'
    <3>1. moved' \in 0..MovedMax /\ slips' \in 0..2 /\ stalled' \in 0..2 /\ wasCut' \in BOOLEAN
      BY <2>5, Bounds DEF TypeOK
    <3>2. CASE UNCHANGED reach
      BY <2>2, <2>5, <2>6, <3>1, <3>2 DEF TypeOK, reach
    <3>3. CASE base' = None /\ age' = None /\ seen' = FALSE /\ severed' = None /\ count' = 0
      <4>1. count' \in 0..(RestoreExchanges - 1) /\ ~(count' > 0)
        BY <3>3, Bounds
      <4> QED
        BY <2>2, <2>5, <2>6, <3>1, <3>3, <4>1, Zenon DEF TypeOK
    <3> QED
      BY <2>5, <3>2, <3>3
  <2>8. Reading' /\ age' # None => work'.began <= age'
    BY <2>3 DEF Known, TypeOK
  <2>9. base' # None \/ seen' \/ severed' # None => age' # None
    BY <2>5, Zenon DEF Known, reach
  <2> QED
    BY <2>4, <2>5, <2>7, <2>8, <2>9 DEF Known, Listed
<1>9. CASE ReadMarks \/ ProbeFails
  BY <1>9, ProbeEnds, ObserveType
<1>10. CASE Cut \/ Heal \/ BrokerTurns \/ PostgresTurns \/ UNCHANGED vars
  <2>1. /\ UNCHANGED <<end, acked, work, reach, row, moved, slips, stalled>>
        /\ cut' \in BOOLEAN /\ brokerUp' \in BOOLEAN /\ pgUp' \in BOOLEAN
        /\ wasCut' \in BOOLEAN
        /\ debt' \in 0..(2 * ExchangePeriod) /\ faults' \in 0..MaxFaults
    <3>1. UNCHANGED <<end, acked, work, reach, row, moved, slips, stalled>>
      BY <1>10 DEF Cut, Heal, BrokerTurns, PostgresTurns, vars, relay, history
    <3>2. debt' \in 0..(2 * ExchangePeriod) /\ faults' \in 0..MaxFaults
      BY <1>10, Bounds
      DEF Cut, Heal, BrokerTurns, PostgresTurns, vars, relay, history, TypeOK
    <3>3. cut' \in BOOLEAN /\ wasCut' \in BOOLEAN
      BY <1>10 DEF Cut, Heal, BrokerTurns, PostgresTurns, vars, relay, history, TypeOK
    <3>4. brokerUp' \in BOOLEAN /\ pgUp' \in BOOLEAN
      BY <1>10, Zenon
      DEF Cut, Heal, BrokerTurns, PostgresTurns, vars, relay, history, TypeOK
    <3> QED
      BY <3>1, <3>2, <3>3, <3>4
  <2>2. TypeOK'
    BY <2>1 DEF TypeOK, reach
  <2> QED
    BY <2>1, <2>2 DEF Known, Reading, Listed, reach
<1> QED
  BY <1>3, <1>4, <1>5, <1>6, <1>7, <1>8, <1>9, <1>10 DEF Next

\* EdgeBuffer keeps its types: the clocks and counters stay in their bounds, a row
\* without a reading is not healthy, a restore that is counted is not yet complete.
THEOREM TypeCorrect == Spec => [](TypeOK /\ Known)
<1>1. Init => TypeOK /\ Known
  <2>1. SUFFICES ASSUME Init PROVE TypeOK /\ Known
    OBVIOUS
  <2>2. end \in [Topics -> Offset] /\ acked \in [Topics -> Offset \cup {None}]
    BY <2>1, Bounds DEF Init, Offset
  <2>3. work \in WorkType
    BY <2>1 DEF Init, WorkType
  <2>4. /\ debt \in 0..(2 * ExchangePeriod) /\ count \in 0..(RestoreExchanges - 1)
        /\ moved \in 0..MovedMax /\ faults \in 0..MaxFaults /\ ~(count > 0)
        /\ slips \in 0..2 /\ stalled \in 0..2
    BY <2>1, Bounds DEF Init
  <2>5. /\ base = None /\ age = None /\ severed = None /\ row = None
        /\ cut = FALSE /\ brokerUp = TRUE /\ pgUp = TRUE /\ seen = FALSE /\ wasCut = FALSE
    BY <2>1 DEF Init
  <2>6. TypeOK
    BY <2>2, <2>3, <2>4, <2>5, Zenon DEF TypeOK
  <2> QED
    BY <2>1, <2>6 DEF Init, Known, Reading, Listed
<1>2. TypeOK /\ Known /\ [Next]_vars => (TypeOK /\ Known)'
  BY TypeStep
<1> QED
  BY <1>1, <1>2, PTL DEF Spec
-----------------------------------------------------------------------------
(* EdgeBuffer: what the steps do, as far as the verdict goes.               *)

\* The offsets the relay has committed, and those the probe holds, in sum.
Sent == SumFunction(Reported)
Held == SumFunction(work.offsets)
News == base # None /\ Held > base

\* The two ways a probe ends: with an exchange, or with none.
Exchanged ==
    /\ work.pc = "marks"
    /\ base' = Held /\ age' = work.began
    /\ News \/ \A t \in DOMAIN work.offsets : end[t] <= work.offsets[t]
    /\ stalled' = IF stalled = 0 THEN 0 ELSE stalled - 1
    /\ slips' = Least(work.began, 2) /\ wasCut' = cut
    /\ severed' \in BOOLEAN
    /\ severed' = TRUE => severed = TRUE
    /\ severed = TRUE /\ severed' = FALSE /\ RestoreExchanges > 1
          => seen /\ AgeAt(work.began) <= SeverAfter

Silent ==
    /\ age' = IF age = None THEN work.began ELSE age
    /\ severed' = IF AgeAt(work.began) > SeverAfter THEN TRUE ELSE severed
    /\ stalled' = stalled /\ wasCut' = wasCut
    /\ \/ /\ work.pc = "marks" /\ base' = Held /\ slips' = slips
          /\ ~News
          /\ \E t \in DOMAIN work.offsets : work.offsets[t] < end[t]
       \/ /\ base' = base
          /\ slips' = More(slips)

Numeric ==
    /\ moved \in Nat /\ moved <= MovedMax
    /\ age # None => age \in Nat /\ age <= AgeMax
    /\ base # None => base \in Nat
    /\ Sent \in Nat
    /\ work.pc = "marks" => Held \in Nat
    /\ debt \in Nat /\ debt <= 2 * ExchangePeriod
    /\ slips \in {0, 1, 2} /\ stalled \in {0, 1, 2}
    /\ Reading => work.began \in Nat /\ work.began <= SlowMax
    /\ \A t \in Topics : end[t] \in Nat
    /\ \A t \in Listed : t \in Topics /\ acked[t] \in Nat

LEMMA Numbers == TypeOK => Numeric
<1> SUFFICES ASSUME TypeOK PROVE Numeric
  OBVIOUS
<1>1. /\ moved \in 0..MovedMax /\ debt \in 0..(2 * ExchangePeriod)
      /\ slips \in 0..2 /\ stalled \in 0..2
      /\ age # None => age \in 0..AgeMax
      /\ base # None => base \in Nat
  BY DEF TypeOK
<1>2. Sent \in Nat
  BY ReportedIs, ReadingIs DEF Sent, ReportIs
<1>3. work.pc = "marks" => Held \in Nat
  BY WorkIs, ReadingIs DEF TypeOK, Held
<1>4. \A t \in Topics : end[t] \in Nat
  BY Bounds DEF TypeOK, Offset
<1>5. Reading => work.began \in Nat /\ work.began <= SlowMax
  BY WorkIs DEF TypeOK
<1> QED
  BY <1>1, <1>2, <1>3, <1>4, <1>5, ReportedIs, Bounds DEF Numeric, ReportIs

LEMMA NumbersNext == TypeOK' => Numeric'
BY Numbers, PTL

\* A probe ends with an exchange or in silence.
LEMMA ProbeEffect ==
    ASSUME TypeOK, Known, ReadMarks \/ ProbeFails
    PROVE  /\ Reading /\ work'.pc = "write"
           /\ UNCHANGED <<end, acked, cut, debt, moved>>
           /\ Exchanged \/ Silent
<1>1. Reading
  BY ProbeEnds
<1>2. ASSUME NEW s, NEW l, NEW p, Observe(s, l, p)
      PROVE  /\ work'.pc = "write"
             /\ UNCHANGED <<end, acked, cut, debt, moved>>
             /\ base' = IF s = None THEN base ELSE s
  BY <1>2 DEF Observe, Rebased, relay
<1>3. ASSUME NEW s, NEW l, NEW p, Observe(s, l, p), IsExchange(s, l)
      PROVE  /\ age' = work.began
             /\ stalled' = IF stalled = 0 THEN 0 ELSE stalled - 1
             /\ slips' = Least(work.began, 2) /\ wasCut' = cut
             /\ severed' \in BOOLEAN
             /\ severed' = TRUE => severed = TRUE
             /\ severed = TRUE /\ severed' = FALSE /\ RestoreExchanges > 1
                   => seen /\ AgeAt(work.began) <= SeverAfter
  <2>1. /\ OnExchange(work.began)
        /\ stalled' = IF stalled = 0 THEN 0 ELSE stalled - 1
        /\ slips' = Least(work.began, 2) /\ wasCut' = cut
    BY <1>3 DEF Observe
  <2> DEFINE n == IF severed = TRUE THEN Restored(AgeAt(work.began)) ELSE RestoreExchanges
  <2>2. severed' = (n < RestoreExchanges) /\ age' = work.began
    BY <2>1, Zenon DEF OnExchange
  <2>3. n \in Nat
    <3>1. count \in Nat
      BY Bounds DEF TypeOK
    <3>2. count + 1 \in Nat /\ 1 \in Nat
      BY <3>1
    <3>3. Restored(AgeAt(work.began)) \in Nat
      BY <3>2, Zenon DEF Restored
    <3> QED
      BY <3>3, Bounds, Zenon
  <2>4. severed # TRUE => ~(n < RestoreExchanges)
    <3>1. ~(RestoreExchanges < RestoreExchanges)
      BY Bounds
    <3> QED
      BY <3>1, Zenon
  <2>5. severed = TRUE /\ ~(n < RestoreExchanges) /\ RestoreExchanges > 1
           => seen /\ AgeAt(work.began) <= SeverAfter
    <3>1. RestoreExchanges > 1 => 1 < RestoreExchanges
      BY Bounds
    <3> QED
      BY <3>1, Zenon DEF Restored
  <2> HIDE DEF n
  <2>6. severed' \in BOOLEAN
    BY <2>2, <2>3, Bounds
  <2> QED
    BY <2>1, <2>2, <2>4, <2>5, <2>6, Zenon
<1>4. ASSUME NEW s, NEW l, NEW p, Observe(s, l, p), ~IsExchange(s, l)
      PROVE  /\ age' = IF age = None THEN work.began ELSE age
             /\ severed' = IF AgeAt(work.began) > SeverAfter THEN TRUE ELSE severed
             /\ stalled' = stalled /\ wasCut' = wasCut
             /\ Slips(p)
  BY <1>4, Zenon DEF Observe, OnSilence
<1>5. CASE ReadMarks
  <2>1. /\ work.pc = "marks" /\ work.offsets \in Readings
        /\ Observe(Held, LagOf(work.offsets), 0)
    BY <1>5, WorkIs DEF ReadMarks, TypeOK, Held
  <2>2. Held \in Nat /\ Held # None /\ LagOf(work.offsets) \in Nat
        /\ (LagOf(work.offsets) = 0 =>
               \A t \in DOMAIN work.offsets : end[t] <= work.offsets[t])
        /\ (LagOf(work.offsets) # 0 =>
               \E t \in DOMAIN work.offsets : work.offsets[t] < end[t])
    BY <2>1, ReadingIs, LagIs, Bounds DEF Held
  <2>3. IsExchange(Held, LagOf(work.offsets)) <=> News \/ LagOf(work.offsets) = 0
    BY <2>2 DEF IsExchange, News
  <2>4. CASE IsExchange(Held, LagOf(work.offsets))
    <3>1. Exchanged
      BY <1>2, <1>3, <2>1, <2>2, <2>3, <2>4, Zenon DEF Exchanged
    <3> QED
      BY <1>1, <1>2, <2>1, <3>1
  <2>5. CASE ~IsExchange(Held, LagOf(work.offsets))
    <3>1. Slips(0) => slips' = slips
      BY DEF Slips
    <3>2. base' = Held
      BY <1>2, <2>1, <2>2
    <3>3. Silent
      BY <1>4, <2>1, <2>2, <2>3, <2>5, <3>1, <3>2, Zenon DEF Silent
    <3> QED
      BY <1>1, <1>2, <2>1, <3>3
  <2> QED
    BY <2>4, <2>5
<1>6. CASE ProbeFails
  <2>1. Observe(None, None, 1) /\ ~IsExchange(None, None)
    BY <1>6, Bounds DEF ProbeFails, IsExchange
  <2>2. Slips(1) => slips' = More(slips)
    BY DEF Slips
  <2>3. base' = base
    BY <1>2, <2>1
  <2>4. Silent
    BY <1>4, <2>1, <2>2, <2>3, Zenon DEF Silent
  <2> QED
    BY <1>1, <1>2, <2>1, <2>4
<1> QED
  BY <1>5, <1>6

\* What a unit of time does.
LEMMA TickEffect ==
    ASSUME TypeOK, Known, Tick
    PROVE  /\ UNCHANGED <<end, acked, cut, base, seen, severed, wasCut>>
           /\ moved' = 0 \/ moved' <= moved + 1
           /\ Waiting = {} => moved' = 0
           /\ age = None => age' = None
           /\ age # None => age' # None /\ age' <= age + 1
                            /\ (age' = age + 1 \/ age' = AgeMax)
           /\ debt' = IF cut \/ Owing = {} THEN 0 ELSE debt + 1
           /\ slips' = IF Reading \/ debt' = ExchangePeriod + 1 THEN More(slips) ELSE slips
           /\ \/ work.pc = "done" /\ work'.pc = "sleep" /\ stalled' = stalled
              \/ work' = work /\ work.pc = "write" /\ stalled' = 2
              \/ /\ Reading /\ work'.pc = work.pc /\ stalled' = stalled
                 /\ work'.began = work.began + 1 /\ work'.began <= SlowMax
                 /\ work.pc = "marks" => work'.offsets = work.offsets
<1>1. /\ UNCHANGED <<end, acked, cut, base, seen, severed, wasCut>>
      /\ debt' = IF cut \/ Owing = {} THEN 0 ELSE debt + 1
      /\ Waiting = {} => moved' = 0
  BY DEF Tick
<1>2. moved' = 0 \/ moved' <= moved + 1
  BY Numbers, Bounds DEF Tick, Older, Least, Numeric
<1>3. /\ age = None => age' = None
      /\ age # None => age' # None /\ age' <= age + 1
                       /\ (age' = age + 1 \/ age' = AgeMax)
  BY Numbers, Bounds DEF Tick, Older, Least, Numeric
<1>4. slips' = IF Reading \/ debt' = ExchangePeriod + 1 THEN More(slips) ELSE slips
  BY DEF Tick, Slips
<1>5. CASE work.pc = "done"
  BY <1>1, <1>2, <1>3, <1>4, <1>5 DEF Tick, Blocked
<1>6. CASE Blocked
  BY <1>1, <1>2, <1>3, <1>4, <1>6 DEF Tick, Blocked, Reading
<1>7. CASE Reading /\ work.began < SlowMax
  <2>1. work' = [work EXCEPT !.began = @ + 1] /\ stalled' = stalled
    BY <1>7 DEF Tick, Reading, Blocked
  <2>2. \/ work = [pc |-> "list", began |-> work.began]
        \/ work = [pc |-> "marks", began |-> work.began, offsets |-> work.offsets]
    BY <1>7, WorkIs DEF TypeOK, Reading
  <2>3. /\ work'.pc = work.pc /\ work'.began = work.began + 1
        /\ work.pc = "marks" => work'.offsets = work.offsets
    BY <2>1, <2>2
  <2>4. work'.began <= SlowMax
    BY <1>7, <2>3, Numbers, Bounds DEF Numeric
  <2> QED
    BY <1>1, <1>2, <1>3, <1>4, <1>7, <2>1, <2>3, <2>4
<1> QED
  BY <1>5, <1>6, <1>7 DEF Tick

\* Steps beside the probe, the relay and time.
LEMMA Aside ==
    ASSUME Cut \/ Heal \/ BrokerTurns \/ PostgresTurns \/ UNCHANGED vars
    PROVE  UNCHANGED <<end, acked, work, base, age, seen, severed, moved, slips, stalled>>
BY DEF Cut, Heal, BrokerTurns, PostgresTurns, vars, relay, reach, history

\* Steps of the loop that only move on.
LEMMA MovesOn ==
    ASSUME Wake \/ ListOffsets \/ WriteRow \/ WriteFails
    PROVE  /\ UNCHANGED <<end, acked, cut, debt, base, age, seen, severed, moved, slips,
                          wasCut, stalled>>
           /\ \/ Wake /\ work.pc = "sleep" /\ work' = [pc |-> "list", began |-> 0]
              \/ /\ ListOffsets /\ work.pc = "list"
                 /\ work' = [pc |-> "marks", began |-> work.began, offsets |-> Reported]
              \/ work.pc = "write" /\ work'.pc = "done"
BY DEF Wake, ListOffsets, WriteRow, WriteFails, relay, reach, history

\* The sum of the offsets rises with a commit, and falls with anything else.
LEMMA SentRises ==
    ASSUME TypeOK, TypeOK', Known, NEW t \in Topics, Acknowledge(t)
    PROVE  Sent' > Sent
<1>1. PICK o \in (Committed(t) + 1)..end[t] : acked' = [acked EXCEPT ![t] = o]
  BY DEF Acknowledge
<1>2. /\ Reported \in Readings /\ DOMAIN Reported = Listed
      /\ Reported' \in Readings /\ DOMAIN Reported' = Listed'
      /\ \A u \in Listed : Reported[u] = acked[u] /\ acked[u] \in Nat
      /\ \A u \in Listed' : Reported'[u] = acked'[u] /\ acked'[u] \in Nat
  BY ReportedIs, ReportedNext DEF ReportIs
<1>3. acked \in [Topics -> Offset \cup {None}] /\ end[t] \in Nat
  BY Numbers DEF TypeOK, Numeric
<1>4. o \in Nat /\ o > 0 /\ o > Committed(t) /\ o # None
  <2>1. Committed(t) \in Nat
    BY <1>2, <1>3 DEF Committed, Listed
  <2> QED
    BY <1>1, <1>3, <2>1, Bounds
<1>5. /\ Listed \subseteq Listed' /\ t \in Listed'
      /\ \A u \in Listed : acked[u] <= acked'[u]
      /\ IF t \in Listed THEN acked[t] < acked'[t] ELSE 0 < acked'[t]
  BY <1>1, <1>2, <1>3, <1>4 DEF Listed, Committed
<1>6. IsFiniteSet(Listed) /\ IsFiniteSet(Listed')
  BY <1>2, ReadingIs
<1> DEFINE f == Reported
           g == Reported'
<1>7. /\ \A u \in Listed : f[u] \in Nat /\ f[u] <= g[u]
      /\ \A u \in Listed' : g[u] \in Nat
      /\ IF t \in Listed THEN f[t] < g[t] ELSE 0 < g[t]
  BY <1>2, <1>5
<1>8. Sent = SumFunctionOnSet(f, Listed) /\ Sent' = SumFunctionOnSet(g, Listed')
  BY <1>2 DEF Sent, SumFunction
<1>9. Sent \in Nat /\ Sent' \in Nat
  BY <1>2, ReadingIs DEF Sent
<1> HIDE DEF f, g
<1>10. SumFunctionOnSet(f, Listed) < SumFunctionOnSet(g, Listed')
  BY <1>5, <1>6, <1>7, SumStrict
<1> QED
  BY <1>8, <1>9, <1>10

LEMMA SentFalls ==
    ASSUME TypeOK, TypeOK', Known, NEW t \in Topics, ResetGroup(t) \/ Recreate(t)
    PROVE  /\ Sent' <= Sent
           /\ Listed' \subseteq Listed
           /\ \A u \in Listed' : acked'[u] <= acked[u]
           /\ Recreate(t) => Listed' = Listed \ {t}
                             /\ \A u \in Listed' : acked'[u] = acked[u]
<1>1. /\ Reported \in Readings /\ DOMAIN Reported = Listed
      /\ Reported' \in Readings /\ DOMAIN Reported' = Listed'
      /\ \A u \in Listed : Reported[u] = acked[u] /\ acked[u] \in Nat
      /\ \A u \in Listed' : Reported'[u] = acked'[u] /\ acked'[u] \in Nat
  BY ReportedIs, ReportedNext DEF ReportIs
<1>2. acked \in [Topics -> Offset \cup {None}]
  BY DEF TypeOK
<1>3. /\ Listed' \subseteq Listed
      /\ \A u \in Listed' : acked'[u] <= acked[u]
  <2>1. CASE ResetGroup(t)
    <3>1. PICK o \in 0..(Committed(t) - 1) : acked' = [acked EXCEPT ![t] = o]
      BY <2>1 DEF ResetGroup
    <3>2. t \in Listed /\ o \in Nat /\ o <= acked[t]
      BY <1>1, <1>2, <3>1 DEF Committed, Listed
    <3> QED
      BY <1>1, <1>2, <3>1, <3>2, Bounds DEF Listed
  <2>2. CASE Recreate(t)
    BY <1>1, <1>2, <2>2 DEF Recreate, Listed
  <2> QED
    BY <2>1, <2>2
<1>4. Recreate(t) => Listed' = Listed \ {t} /\ \A u \in Listed' : acked'[u] = acked[u]
  BY <1>2 DEF Recreate, Listed
<1>5. IsFiniteSet(Listed) /\ IsFiniteSet(Listed')
  BY <1>1, ReadingIs
<1> DEFINE f == Reported
           g == Reported'
<1>6. /\ \A u \in Listed' : g[u] \in Nat /\ g[u] <= f[u]
      /\ \A u \in Listed : f[u] \in Nat
  BY <1>1, <1>3
<1>7. Sent = SumFunctionOnSet(f, Listed) /\ Sent' = SumFunctionOnSet(g, Listed')
  BY <1>1 DEF Sent, SumFunction
<1> HIDE DEF f, g
<1>8. SumFunctionOnSet(g, Listed') <= SumFunctionOnSet(f, Listed)
  BY <1>3, <1>5, <1>6, SumMonotone
<1> QED
  BY <1>3, <1>4, <1>7, <1>8
-----------------------------------------------------------------------------
(* EdgeBuffer: a link that is called up was vouched for not long ago.       *)

\* Nothing waits, nothing is late.
CaughtUp == Waiting = {} => moved = 0

\* A commit since the last exchange is younger than it, or still to be seen.
Baseline == base # None => moved <= age \/ age = AgeMax \/ Sent <= base

\* The same of the reading in hand, as to what came after it and before it.
InHand ==
    work.pc = "marks" =>
        /\ moved <= work.began \/ Sent <= Held
        /\ base # None => moved <= age \/ age = AgeMax \/ Held <= base

\* A reading in hand shows what waits, unless the relay moved since.
Snapshot ==
    work.pc = "marks" /\ stalled # 2 =>
        \/ moved <= work.began
        \/ /\ \A t \in Listed : t \in DOMAIN work.offsets /\ work.offsets[t] <= acked[t]
           /\ \E t \in DOMAIN work.offsets : work.offsets[t] < end[t]

\* A link not called severed had an exchange within the threshold, or the probe
\* that finds it severed is still to end.
Answered ==
    stalled # 2 /\ severed # TRUE /\ age # None =>
        /\ work.pc \in {"write", "done"} => age <= SeverAfter + SlowMax
        /\ work.pc = "sleep" => age <= SeverAfter + SlowMax + 1
        /\ Reading => age <= work.began + SeverAfter + SlowMax + 1

\* The exchange that called it up came no later than that after what it saw.
Vouched ==
    stalled = 0 /\ severed = FALSE => moved <= age + SeverAfter + SlowMax + 1

VouchInv == CaughtUp /\ Baseline /\ InHand /\ Snapshot /\ Answered /\ Vouched

LEMMA CaughtUpStep ==
    ASSUME TypeOK, TypeOK', Known, CaughtUp, [Next]_vars PROVE CaughtUp'
<1>1. ASSUME NEW t \in Topics, Publish(t) PROVE CaughtUp'
  <2>1. /\ end' = [end EXCEPT ![t] = @ + 1] /\ UNCHANGED <<acked, moved>>
        /\ end \in [Topics -> Offset] /\ \A u \in Topics : end[u] \in Nat
    BY <1>1, Numbers DEF Publish, TypeOK, history, Numeric
  <2>2. \A u \in Waiting : u \in Waiting'
    <3>1. SUFFICES ASSUME NEW u \in Waiting PROVE u \in Waiting'
      OBVIOUS
    <3>2. u \in Topics /\ u \in Listed /\ acked[u] \in Nat /\ acked[u] < end[u]
      BY Numbers DEF Waiting, Owing, Listed, Committed, Numeric
    <3>3. acked[u] < end'[u]
      BY <2>1, <3>2
    <3> QED
      BY <2>1, <3>2, <3>3 DEF Waiting, Owing, Listed, Committed
  <2> QED
    BY <2>1, <2>2 DEF CaughtUp
<1>2. CASE moved' = 0
  BY <1>2 DEF CaughtUp
<1>3. ASSUME NEW t \in Topics, ResetGroup(t) PROVE CaughtUp'
  <2>1. UNCHANGED <<end, moved>>
    BY <1>3 DEF ResetGroup
  <2>2. PICK o \in 0..(Committed(t) - 1) : acked' = [acked EXCEPT ![t] = o]
    BY <1>3 DEF ResetGroup
  <2>3. acked \in [Topics -> Offset \cup {None}] /\ o \in Nat /\ o <= Committed(t)
        /\ Committed(t) \in Nat /\ t \in Listed
    BY <2>2, Numbers, Bounds DEF TypeOK, Committed, Listed, Numeric
  <2>4. \A u \in Waiting : u \in Waiting'
    <3>1. SUFFICES ASSUME NEW u \in Waiting PROVE u \in Waiting'
      OBVIOUS
    <3>2. u \in Topics /\ u \in Listed /\ acked[u] \in Nat /\ acked[u] < end[u]
          /\ end[u] \in Nat
      BY Numbers DEF Waiting, Owing, Listed, Committed, Numeric
    <3>3. acked'[u] # None /\ acked'[u] < end[u] /\ acked'[u] \in Nat
      BY <2>2, <2>3, <3>2, Bounds DEF Committed, Listed
    <3> QED
      BY <2>1, <3>2, <3>3 DEF Waiting, Owing, Listed, Committed
  <2> QED
    BY <2>1, <2>4 DEF CaughtUp
<1>4. ASSUME NEW t \in Topics, Recreate(t) PROVE CaughtUp'
  <2>1. /\ end' = [end EXCEPT ![t] = 0] /\ acked' = [acked EXCEPT ![t] = None]
        /\ moved' = IF Waiting \ {t} = {} THEN 0 ELSE moved
        /\ end \in [Topics -> Offset] /\ acked \in [Topics -> Offset \cup {None}]
    BY <1>4 DEF Recreate, TypeOK
  <2>2. Waiting' = Waiting \ {t}
    BY <2>1 DEF Waiting, Owing, Listed, Committed
  <2> QED
    BY <2>1, <2>2 DEF CaughtUp
<1>5. CASE Tick
  <2>1. Waiting' = Waiting /\ (Waiting = {} => moved' = 0)
    BY <1>5, TickEffect DEF Waiting, Owing, Listed, Committed
  <2> QED
    BY <2>1 DEF CaughtUp
<1>6. CASE UNCHANGED <<end, acked, moved>>
  BY <1>6 DEF CaughtUp, Waiting, Owing, Listed, Committed
<1> QED
  BY <1>1, <1>2, <1>3, <1>4, <1>5, <1>6, MovesOn, ProbeEffect, Aside
  DEF Next, Acknowledge, Restart

LEMMA BaselineStep ==
    ASSUME TypeOK, TypeOK', Known, Baseline, InHand, [Next]_vars PROVE Baseline'
<1>1. /\ moved \in Nat /\ moved' \in Nat
      /\ age # None => age \in Nat /\ age <= AgeMax
      /\ age' # None => age' \in Nat /\ age' <= AgeMax
      /\ base # None => base \in Nat /\ age # None
      /\ base' # None => base' \in Nat
      /\ Sent \in Nat /\ Sent' \in Nat
      /\ None \notin Int
  BY Numbers, NumbersNext, Bounds DEF Known, Numeric
<1>2. ASSUME NEW t \in Topics, Publish(t) PROVE Baseline'
  BY <1>2 DEF Publish, Baseline, Sent, Reported, Listed, reach, history
<1>3. ASSUME NEW t \in Topics, Acknowledge(t) PROVE Baseline'
  BY <1>1, <1>3 DEF Acknowledge, Baseline, reach
<1>4. ASSUME NEW t \in Topics, ResetGroup(t) \/ Recreate(t) PROVE Baseline'
  <2>1. Sent' <= Sent /\ UNCHANGED <<base, age>> /\ (moved' = moved \/ moved' = 0)
    BY <1>4, SentFalls DEF ResetGroup, Recreate, reach
  <2> QED
    BY <1>1, <2>1 DEF Baseline
<1>5. CASE Tick
  <2>1. /\ UNCHANGED <<base, acked>> /\ (moved' = 0 \/ moved' <= moved + 1)
        /\ age # None => age' # None /\ (age' = age + 1 \/ age' = AgeMax)
    BY <1>5, TickEffect
  <2>2. Sent' = Sent
    BY <2>1 DEF Sent, Reported, Listed
  <2> QED
    BY <1>1, <2>1, <2>2 DEF Baseline
<1>6. CASE ReadMarks \/ ProbeFails
  <2>1. Sent' = Sent /\ moved' = moved /\ Reading
    BY <1>6, ProbeEffect DEF Sent, Reported, Listed
  <2>2. /\ work.pc = "marks" => Held \in Nat
        /\ work.began \in Nat /\ (age # None => work.began <= age)
    BY <2>1, Numbers DEF Known, Numeric
  <2>3. CASE Exchanged
    BY <1>1, <2>1, <2>2, <2>3 DEF Exchanged, Baseline, InHand
  <2>4. CASE Silent
    <3>1. age' = IF age = None THEN work.began ELSE age
      BY <2>4 DEF Silent
    <3>2. CASE work.pc = "marks" /\ base' = Held
      BY <1>1, <2>1, <2>2, <3>1, <3>2 DEF Baseline, InHand
    <3>3. CASE base' = base
      BY <1>1, <2>1, <3>1, <3>3 DEF Baseline
    <3> QED
      BY <2>4, <3>2, <3>3 DEF Silent
  <2> QED
    BY <1>6, <2>3, <2>4, ProbeEffect
<1>7. CASE Restart
  BY <1>7 DEF Restart, Baseline
<1>8. CASE UNCHANGED <<acked, base, age, moved>>
  BY <1>8 DEF Baseline, Sent, Reported, Listed
<1> QED
  BY <1>2, <1>3, <1>4, <1>5, <1>6, <1>7, <1>8, MovesOn, Aside DEF Next
LEMMA InHandStep ==
    ASSUME TypeOK, TypeOK', Known, Baseline, InHand, [Next]_vars PROVE InHand'
<1>1. /\ moved \in Nat /\ moved' \in Nat
      /\ age # None => age \in Nat /\ age <= AgeMax
      /\ age' # None => age' \in Nat /\ age' <= AgeMax
      /\ base # None => base \in Nat /\ age # None
      /\ Sent \in Nat /\ Sent' \in Nat
      /\ work.pc = "marks" => Held \in Nat /\ work.began \in Nat
  BY Numbers, NumbersNext, Bounds DEF Known, Numeric, Reading
<1>2. ASSUME NEW t \in Topics, Publish(t) PROVE InHand'
  BY <1>2 DEF Publish, InHand, Sent, Held, Reported, Listed, reach, history
<1>3. ASSUME NEW t \in Topics, Acknowledge(t) PROVE InHand'
  BY <1>1, <1>3 DEF Acknowledge, InHand, Held, reach
<1>4. ASSUME NEW t \in Topics, ResetGroup(t) \/ Recreate(t) PROVE InHand'
  <2>1. Sent' <= Sent /\ UNCHANGED <<work, base, age>> /\ (moved' = moved \/ moved' = 0)
    BY <1>4, SentFalls DEF ResetGroup, Recreate, reach
  <2> QED
    BY <1>1, <2>1 DEF InHand, Held
<1>5. CASE Tick
  <2>1. /\ UNCHANGED <<base, acked>> /\ (moved' = 0 \/ moved' <= moved + 1)
        /\ age # None => age' # None /\ (age' = age + 1 \/ age' = AgeMax)
        /\ work'.pc = "marks" => /\ work.pc = "marks" /\ work'.began = work.began + 1
                                 /\ work'.offsets = work.offsets
    BY <1>5, TickEffect DEF Reading
  <2>2. Sent' = Sent /\ (work'.pc = "marks" => Held' = Held)
    BY <2>1 DEF Sent, Held, Reported, Listed
  <2> QED
    BY <1>1, <2>1, <2>2 DEF InHand
<1>6. CASE work'.pc # "marks"
  BY <1>6 DEF InHand
<1>7. CASE ListOffsets
  <2>1. UNCHANGED <<acked, base, age, moved>> /\ work'.offsets = Reported
    BY <1>7 DEF ListOffsets, relay, reach, history
  <2>2. Held' = Sent /\ Sent' = Sent
    BY <2>1 DEF Held, Sent, Reported, Listed
  <2> QED
    BY <1>1, <2>1, <2>2 DEF InHand, Baseline
<1>8. CASE UNCHANGED <<acked, work, base, age, moved>>
  BY <1>8 DEF InHand, Sent, Held, Reported, Listed
<1> QED
  BY <1>2, <1>3, <1>4, <1>5, <1>6, <1>7, <1>8, ProbeEffect, Aside
  DEF Next, Wake, WriteRow, WriteFails, Restart

LEMMA SnapshotStep ==
    ASSUME TypeOK, TypeOK', Known, CaughtUp, Snapshot, [Next]_vars PROVE Snapshot'
<1>1. /\ moved \in Nat /\ moved' \in Nat /\ stalled \in {0, 1, 2}
      /\ \A t \in Topics : end[t] \in Nat
      /\ \A t \in Listed : t \in Topics /\ acked[t] \in Nat
      /\ work.pc = "marks" => work.began \in Nat /\ work.offsets \in Readings
      /\ \A t \in Waiting : t \in Listed /\ acked[t] < end[t]
  BY Numbers, NumbersNext, Bounds, WorkIs
  DEF Numeric, Reading, Waiting, Owing, Listed, Committed, TypeOK
<1>2. work.pc = "marks" =>
        \A t \in DOMAIN work.offsets : t \in Topics /\ work.offsets[t] \in Nat
  BY <1>1, ReadingIs
<1>3. ASSUME NEW t \in Topics, Publish(t) PROVE Snapshot'
  <2>1. /\ end' = [end EXCEPT ![t] = @ + 1] /\ end \in [Topics -> Offset]
        /\ UNCHANGED <<acked, work, moved, stalled>>
    BY <1>3 DEF Publish, TypeOK, history
  <2>2. \A u \in Topics : end[u] <= end'[u] /\ end'[u] \in Nat
    BY <1>1, <2>1
  <2> QED
    BY <1>1, <1>2, <2>1, <2>2 DEF Snapshot, Listed
<1>4. ASSUME moved' = 0 PROVE Snapshot'
  <2>1. work'.pc = "marks" => work'.began \in Nat
    BY NumbersNext DEF Numeric, Reading
  <2> QED
    BY <1>4, <2>1 DEF Snapshot
<1>5. ASSUME NEW t \in Topics, ResetGroup(t) PROVE Snapshot'
  BY <1>5 DEF ResetGroup, Snapshot
<1>6. ASSUME NEW t \in Topics, Recreate(t) PROVE Snapshot'
  <2>1. /\ end' = [end EXCEPT ![t] = 0] /\ end \in [Topics -> Offset]
        /\ UNCHANGED <<work, stalled>>
        /\ moved' = IF Waiting \ {t} = {} THEN 0 ELSE moved
        /\ Listed' = Listed \ {t}
        /\ \A u \in Listed' : acked'[u] = acked[u]
    BY <1>6, SentFalls DEF Recreate, TypeOK
  <2>2. SUFFICES ASSUME work.pc = "marks", stalled # 2, ~(moved' <= work.began)
                 PROVE  /\ \A u \in Listed' :
                             u \in DOMAIN work.offsets /\ work.offsets[u] <= acked'[u]
                        /\ \E u \in DOMAIN work.offsets : work.offsets[u] < end'[u]
    BY <2>1 DEF Snapshot
  <2>3. moved' = moved /\ Waiting \ {t} # {}
    BY <1>1, <2>1, <2>2
  <2>4. \A u \in Listed : u \in DOMAIN work.offsets /\ work.offsets[u] <= acked[u]
    BY <2>2, <2>3 DEF Snapshot
  <2>5. PICK u \in Waiting : u # t
    BY <2>3
  <2>6. /\ u \in DOMAIN work.offsets /\ work.offsets[u] <= acked[u] /\ acked[u] < end[u]
        /\ u \in Topics /\ acked[u] \in Nat /\ work.offsets[u] \in Nat /\ end[u] \in Nat
        /\ end'[u] = end[u]
    BY <1>1, <1>2, <2>1, <2>2, <2>4, <2>5
  <2> QED
    BY <2>1, <2>4, <2>6
<1>7. CASE Tick
  <2>1. /\ UNCHANGED <<end, acked>> /\ (moved' = 0 \/ moved' <= moved + 1)
        /\ work'.pc = "marks" => /\ work.pc = "marks" /\ work'.began = work.began + 1
                                 /\ work'.offsets = work.offsets /\ stalled' = stalled
    BY <1>7, TickEffect DEF Reading
  <2> QED
    BY <1>1, <1>4, <2>1 DEF Snapshot, Listed
<1>8. CASE work'.pc # "marks"
  BY <1>8 DEF Snapshot
<1>9. CASE ListOffsets
  <2>1. /\ UNCHANGED <<end, acked, moved>> /\ work.pc = "list"
        /\ work' = [pc |-> "marks", began |-> work.began, offsets |-> Reported]
    BY <1>9 DEF ListOffsets, relay, history
  <2>2. /\ work'.offsets = Reported /\ DOMAIN Reported = Listed
        /\ \A t \in Listed : Reported[t] = acked[t]
    BY <2>1, ReportedIs DEF ReportIs
  <2>3. CASE Waiting = {}
    BY <1>4, <2>1, <2>3 DEF CaughtUp
  <2>4. CASE Waiting # {}
    <3>1. PICK t \in Waiting : TRUE
      BY <2>4
    <3>2. t \in DOMAIN work'.offsets /\ work'.offsets[t] < end'[t]
      BY <1>1, <2>1, <2>2, <3>1
    <3>3. Listed' = Listed
      BY <2>1 DEF Listed
    <3> QED
      BY <1>1, <2>1, <2>2, <3>2, <3>3 DEF Snapshot
  <2> QED
    BY <2>3, <2>4
<1>10. CASE UNCHANGED <<end, acked, work, moved, stalled>>
  BY <1>10 DEF Snapshot, Listed
<1> QED
  BY <1>3, <1>4, <1>5, <1>6, <1>7, <1>8, <1>9, <1>10, ProbeEffect, Aside
  DEF Next, Acknowledge, Wake, WriteRow, WriteFails, Restart
LEMMA AnsweredStep ==
    ASSUME TypeOK, TypeOK', Known, Answered, [Next]_vars PROVE Answered'
<1>1. /\ age # None => age \in Nat /\ age <= AgeMax
      /\ age' # None => age' \in Nat
      /\ stalled \in {0, 1, 2} /\ stalled' \in {0, 1, 2}
      /\ Reading => work.began \in Nat /\ work.began <= SlowMax
      /\ SeverAfter \in Nat /\ SlowMax \in Nat
      /\ work.pc \in {"sleep", "list", "marks", "write", "done"}
  BY Numbers, NumbersNext, Bounds, WorkIs DEF Numeric, TypeOK
<1>2. ASSUME UNCHANGED <<work, age, severed>>, stalled' = stalled \/ stalled' = 2
      PROVE  Answered'
  BY <1>2 DEF Answered, Reading
<1>3. CASE Tick
  <2>1. /\ severed' = severed
        /\ age = None => age' = None
        /\ age # None => age' # None /\ age' <= age + 1
        /\ \/ work.pc = "done" /\ work'.pc = "sleep" /\ stalled' = stalled
           \/ stalled' = 2
           \/ /\ Reading /\ work'.pc = work.pc /\ stalled' = stalled
              /\ work'.began = work.began + 1
    BY <1>3, TickEffect
  <2>2. SUFFICES ASSUME stalled' # 2, severed # TRUE, age' # None
                 PROVE  /\ work'.pc \in {"write", "done"} => age' <= SeverAfter + SlowMax
                        /\ work'.pc = "sleep" => age' <= SeverAfter + SlowMax + 1
                        /\ Reading' => age' <= work'.began + SeverAfter + SlowMax + 1
    BY <2>1, Zenon DEF Answered
  <2>3. age # None /\ age \in Nat /\ age' \in Nat /\ age' <= age + 1 /\ stalled # 2
    BY <1>1, <2>1, <2>2
  <2>4. /\ work.pc \in {"write", "done"} => age <= SeverAfter + SlowMax
        /\ Reading => age <= work.began + SeverAfter + SlowMax + 1
    BY <2>2, <2>3, Zenon DEF Answered
  <2> QED
    BY <1>1, <2>1, <2>2, <2>3, <2>4 DEF Reading
<1>4. CASE ReadMarks \/ ProbeFails
  <2>1. Reading /\ work'.pc = "write" /\ (Exchanged \/ Silent)
    BY <1>4, ProbeEffect
  <2>2. CASE Exchanged
    BY <1>1, <2>1, <2>2 DEF Exchanged, Answered, Reading
  <2>3. CASE Silent
    <3>1. /\ age' = IF age = None THEN work.began ELSE age
          /\ stalled' = stalled
          /\ severed' # TRUE => ~(AgeAt(work.began) > SeverAfter)
      BY <2>3, Zenon DEF Silent
    <3>2. ~(AgeAt(work.began) > SeverAfter) /\ age # None
             => age <= SeverAfter + work.began
      BY <1>1, <2>1 DEF AgeAt
    <3>3. severed' # TRUE => age' <= SeverAfter + SlowMax
      BY <1>1, <2>1, <3>1, <3>2
    <3> QED
      BY <2>1, <3>3 DEF Answered, Reading
  <2> QED
    BY <2>1, <2>2, <2>3
<1>5. CASE Wake \/ ListOffsets \/ WriteRow \/ WriteFails
  <2>1. /\ UNCHANGED <<age, severed, stalled>>
        /\ \/ work.pc = "sleep" /\ work' = [pc |-> "list", began |-> 0]
           \/ /\ work.pc = "list"
              /\ work' = [pc |-> "marks", began |-> work.began, offsets |-> Reported]
           \/ work.pc = "write" /\ work'.pc = "done"
    BY <1>5, MovesOn
  <2> QED
    BY <1>1, <2>1 DEF Answered, Reading
<1>6. CASE Restart
  BY <1>6 DEF Restart, Answered
<1> QED
  BY <1>2, <1>3, <1>4, <1>5, <1>6, Aside
  DEF Next, Publish, Acknowledge, ResetGroup, Recreate, reach, history

LEMMA VouchedStep ==
    ASSUME TypeOK, TypeOK', Known, InHand, Snapshot, Answered, Vouched, [Next]_vars,
           RestoreExchanges > 1
    PROVE  Vouched'
<1>1. /\ moved \in Nat /\ moved' \in Nat
      /\ age # None => age \in Nat /\ age <= AgeMax
      /\ age' # None => age' \in Nat
      /\ stalled \in {0, 1, 2} /\ stalled' \in {0, 1, 2}
      /\ Reading => work.began \in Nat /\ work.began <= SlowMax
      /\ severed # None => age # None
      /\ work.pc \in {"sleep", "list", "marks", "write", "done"}
  BY Numbers, NumbersNext, Bounds, WorkIs DEF Numeric, TypeOK, Known
<1>2. FALSE # TRUE /\ FALSE # None
  BY Bounds
<1>3. ASSUME UNCHANGED <<age, severed>>, moved' = moved \/ moved' = 0,
             stalled' = stalled \/ stalled' = 2
      PROVE  Vouched'
  <2>1. SUFFICES ASSUME stalled' = 0, severed' = FALSE
                 PROVE  moved' <= age' + SeverAfter + SlowMax + 1
    BY Zenon DEF Vouched
  <2>2. stalled = 0 /\ severed = FALSE /\ age # None
    <3>1. stalled = 0
      BY <1>3, <2>1
    <3>2. severed = FALSE /\ severed # None
      BY <1>2, <1>3, <2>1, Zenon
    <3> QED
      BY <1>1, <3>1, <3>2, Zenon
  <2>3. moved <= age + SeverAfter + SlowMax + 1
    BY <2>2, Zenon DEF Vouched
  <2> QED
    BY <1>1, <1>3, <2>2, <2>3, Bounds
<1>4. CASE Tick
  <2>1. /\ severed' = severed
        /\ moved' = 0 \/ moved' <= moved + 1
        /\ age # None => age' # None /\ (age' = age + 1 \/ age' = AgeMax)
        /\ \/ work.pc = "done" /\ stalled' = stalled
           \/ stalled' = 2
           \/ Reading /\ stalled' = stalled /\ work.began + 1 <= SlowMax
    BY <1>4, TickEffect
  <2>2. SUFFICES ASSUME severed' = FALSE, stalled' = 0
                 PROVE  moved' <= age' + SeverAfter + SlowMax + 1
    BY Zenon DEF Vouched
  <2> stalled = 0 /\ severed = FALSE /\ severed # TRUE /\ age # None /\ stalled # 2
    <3>1. stalled = 0 /\ stalled # 2
      BY <2>1, <2>2
    <3>2. severed = FALSE /\ severed # None /\ severed # TRUE
      BY <1>2, <2>1, <2>2, Zenon
    <3> QED
      BY <1>1, <3>1, <3>2, Zenon
  <2>3. age \in Nat /\ moved <= age + SeverAfter + SlowMax + 1
    BY <1>1, Zenon DEF Vouched
  <2>4. /\ work.pc \in {"write", "done"} => age <= SeverAfter + SlowMax
        /\ Reading => age <= work.began + SeverAfter + SlowMax + 1
    BY Zenon DEF Answered
  <2>5. age + 1 <= AgeMax
    BY <1>1, <2>1, <2>2, <2>3, <2>4, Bounds
  <2> QED
    BY <1>1, <2>1, <2>3, <2>5, Bounds
<1>5. CASE ReadMarks \/ ProbeFails
  <2>1. Reading /\ moved' = moved /\ (Exchanged \/ Silent)
    BY <1>5, ProbeEffect
  <2>2. CASE Exchanged
    <3>1. SUFFICES ASSUME stalled # 2, severed' = FALSE
                   PROVE  moved <= work.began + SeverAfter + SlowMax + 1
      <4>1. age' = work.began /\ (stalled' = 0 => stalled # 2)
        BY <1>1, <2>2 DEF Exchanged
      <4> QED
        BY <2>1, <4>1, Zenon DEF Vouched
    <3>2. work.pc = "marks"
      BY <2>2 DEF Exchanged
    <3>3. CASE \A t \in DOMAIN work.offsets : end[t] <= work.offsets[t]
      <4>1. work.offsets \in Readings
        BY <3>2, WorkIs DEF TypeOK
      <4>2. \A t \in DOMAIN work.offsets : work.offsets[t] \in Nat /\ end[t] \in Nat
        BY <4>1, ReadingIs, Numbers DEF Numeric
      <4>3. moved <= work.began
        BY <3>1, <3>2, <3>3, <4>2 DEF Snapshot
      <4> QED
        BY <1>1, <2>1, <4>3, Bounds
    <3>4. CASE News
      <4>1. age # None /\ base # None /\ base \in Nat /\ Held \in Nat
        BY <3>2, <3>4, Numbers DEF News, Known, Numeric
      <4>2. moved <= age \/ age = AgeMax
        BY <3>2, <3>4, <4>1 DEF InHand, News
      <4>3. age <= work.began + SeverAfter + SlowMax + 1
        <5>1. CASE severed = TRUE
          <6>1. AgeAt(work.began) <= SeverAfter
            BY <2>2, <3>1, <5>1, Zenon DEF Exchanged
          <6> QED
            BY <1>1, <2>1, <4>1, <6>1, Bounds DEF AgeAt
        <5>2. CASE severed # TRUE
          BY <2>1, <3>1, <4>1, <5>2 DEF Answered
        <5> QED
          BY <5>1, <5>2
      <4> QED
        BY <1>1, <2>1, <4>1, <4>2, <4>3, Bounds
    <3> QED
      BY <2>2, <3>3, <3>4 DEF Exchanged
  <2>3. CASE Silent
    <3>1. /\ age' = IF age = None THEN work.began ELSE age
          /\ severed' = severed \/ severed' = TRUE
          /\ stalled' = stalled
      BY <2>3, Zenon DEF Silent
    <3> QED
      BY <1>1, <1>2, <2>1, <3>1 DEF Vouched
  <2> QED
    BY <2>1, <2>2, <2>3
<1>6. CASE Restart
  BY <1>2, <1>6 DEF Restart, Vouched
<1> QED
  BY <1>3, <1>4, <1>5, <1>6, MovesOn, Aside
  DEF Next, Publish, Acknowledge, ResetGroup, Recreate, reach, history

LEMMA VouchStep ==
    ASSUME TypeOK, TypeOK', Known, VouchInv, [Next]_vars, RestoreExchanges > 1
    PROVE  VouchInv'
BY CaughtUpStep, BaselineStep, InHandStep, SnapshotStep, AnsweredStep, VouchedStep
   DEF VouchInv

\* Where more than one exchange is asked for, a link is called up only if the relay
\* committed, or had caught up, within two thresholds, a unit and what two probes
\* may take (LinkReachability.observe).
THEOREM VouchedIsRecent ==
    ASSUME RestoreExchanges > 1 PROVE Spec => []VouchedRecently
<1>1. Init => VouchInv
  <2>1. SUFFICES ASSUME Init PROVE VouchInv
    OBVIOUS
  <2>2. work.pc = "sleep" /\ base = None /\ age = None /\ severed = None /\ moved = 0
    BY <2>1 DEF Init
  <2>3. severed # FALSE
    BY <2>2, Bounds
  <2> QED
    BY <2>2, <2>3 DEF VouchInv, CaughtUp, Baseline, InHand, Snapshot, Answered, Vouched
<1>2. TypeOK /\ TypeOK' /\ Known /\ VouchInv /\ [Next]_vars => VouchInv'
  BY VouchStep
<1>3. TypeOK /\ Known /\ VouchInv => VouchedRecently
  <2>1. SUFFICES ASSUME TypeOK, Known, VouchInv, severed = FALSE, work.pc = "write",
                        stalled = 0
                 PROVE  moved < MovedMax
    BY DEF VouchedRecently
  <2>2. severed # TRUE /\ severed # None
    BY <2>1, Bounds
  <2>3. age # None /\ age \in Nat /\ moved \in Nat
    BY <2>1, <2>2, Numbers DEF Known, Numeric
  <2>4. age <= SeverAfter + SlowMax /\ moved <= age + SeverAfter + SlowMax + 1
    BY <2>1, <2>2, <2>3 DEF VouchInv, Answered, Vouched
  <2> QED
    BY <2>3, <2>4, Bounds
<1> QED
  BY <1>1, <1>2, <1>3, TypeCorrect, PTL DEF Spec

\* Where more than one exchange is asked for, none alone restores a severed link,
\* and none that comes long after the one before it (LinkReachability.observe).
THEOREM RestoreIsNotLone ==
    ASSUME RestoreExchanges > 1 PROVE Spec => NoLoneRestore
<1>1. ASSUME TypeOK, Known, [Next]_vars, severed = TRUE, severed' = FALSE
      PROVE  seen /\ AgeAt(work.began) <= SeverAfter
  <2>1. FALSE # TRUE /\ FALSE # None /\ severed' # severed
    BY <1>1, Bounds
  <2>2. ReadMarks \/ ProbeFails \/ Restart
    BY <1>1, <2>1, MovesOn, Aside, TickEffect
    DEF Next, Publish, Acknowledge, ResetGroup, Recreate, reach
  <2>3. ~Restart
    BY <1>1, <2>1 DEF Restart
  <2>4. Exchanged \/ Silent
    BY <1>1, <2>2, <2>3, ProbeEffect
  <2>5. ~Silent
    BY <1>1, <2>1, Zenon DEF Silent
  <2> QED
    BY <1>1, <2>4, <2>5, Zenon DEF Exchanged
<1>2. TypeOK /\ Known /\ [Next]_vars =>
        [severed = TRUE /\ severed' = FALSE
            => seen /\ AgeAt(work.began) <= SeverAfter]_vars
  BY <1>1
<1> QED
  BY <1>2, TypeCorrect, PTL DEF Spec, NoLoneRestore
-----------------------------------------------------------------------------
(* EdgeBuffer: no false alarm.  The time since the last exchange is bounded *)
(* by what the relay owes: it either has a commit that the next probe is to *)
(* see, or has owed one for as long as the probes are silent, and it pays   *)
(* within its period.  One slip costs one commit, or one unit.              *)

Fresh == base # None /\ Sent > base
Kept == base # None /\ Sent >= base

\* The relay has owed a commit since the probe before last, or, after a slip,
\* since one period and two units.
Overdue == Owing # {} /\ debt >= age - 1
OverdueAgain ==
    Owing # {} /\ debt <= ExchangePeriod /\ debt >= age - ExchangePeriod - 2
Late == Overdue \/ OverdueAgain

\* The link was whole, and n slips came since the last exchange.
Clean(n) == age # None /\ ~wasCut /\ stalled = 0 /\ slips = n

Before == work.pc \in {"sleep", "list"}
After == work.pc \in {"write", "done"}

Sound ==
    /\ cut => wasCut
    /\ Reading => slips = 2 \/ work.began <= slips
    /\ age # None /\ base = None => slips # 0

\* No slip yet.
Smooth ==
    Clean(0) =>
        /\ debt <= ExchangePeriod \/ debt >= age + ExchangePeriod + 1
        /\ Before => /\ age <= ExchangePeriod + 2
                     /\ Fresh \/ age <= 1 \/ (Kept /\ Overdue)
        /\ After => /\ age <= ExchangePeriod + 1
                    /\ Fresh \/ age = 0 \/ (Kept /\ Overdue)
        /\ work.pc = "marks" =>
              /\ age <= ExchangePeriod + 2
              /\ Sent > Held \/ Reported = work.offsets
              /\ News \/ age <= ExchangePeriod + 1
              /\ News \/ Sent > Held \/ age <= 1 \/ Overdue

\* One slip.
Slipped ==
    Clean(1) =>
        /\ Before => Fresh \/ age <= ExchangePeriod + 2 \/ (Kept /\ Late)
        /\ After => Fresh \/ age <= ExchangePeriod + 1 \/ (Kept /\ Late)
        /\ work.pc = "marks" =>
              /\ Sent > Held \/ Reported = work.offsets \/ News
                             \/ age <= ExchangePeriod + 1
              /\ News \/ age <= work.began + SeverAfter
              /\ News \/ Sent > Held \/ age <= ExchangePeriod + 2 \/ Late

AlarmInv == Sound /\ Smooth /\ Slipped

LEMMA SoundStep ==
    ASSUME TypeOK, TypeOK', Known, Sound, [Next]_vars PROVE Sound'
<1>1. /\ slips \in {0, 1, 2} /\ slips' \in {0, 1, 2}
      /\ Reading => work.began \in Nat
  BY Numbers, NumbersNext DEF Numeric
<1>2. (cut => wasCut)'
  <2>1. CASE ReadMarks \/ ProbeFails
    <3>1. cut' = cut /\ (wasCut' = cut \/ wasCut' = wasCut)
      BY <2>1, ProbeEffect DEF Exchanged, Silent
    <3> QED
      BY <3>1 DEF Sound
  <2>2. CASE cut' = cut /\ wasCut' = wasCut
    BY <2>2 DEF Sound
  <2> QED
    BY <2>1, <2>2, MovesOn, TickEffect
    DEF Next, Publish, Acknowledge, ResetGroup, Recreate, Cut, Heal, BrokerTurns,
        PostgresTurns, Restart, relay, history, vars, Sound
<1>3. (Reading => slips = 2 \/ work.began <= slips)'
  <2>1. CASE Tick
    <3>1. slips' = More(slips) \/ ~Reading
      BY <2>1, TickEffect
    <3>2. Reading' => Reading /\ work'.began = work.began + 1
      BY <2>1, TickEffect DEF Reading
    <3> QED
      BY <1>1, <3>1, <3>2 DEF Sound, More
  <2>2. ASSUME UNCHANGED work, slips' = slips \/ slips' = More(slips)
        PROVE  (Reading => slips = 2 \/ work.began <= slips)'
    BY <1>1, <2>2 DEF Sound, More, Reading
  <2>3. CASE Wake \/ ListOffsets \/ WriteRow \/ WriteFails
    BY <1>1, <2>3, MovesOn DEF Sound, Reading
  <2>4. CASE Restart \/ ReadMarks \/ ProbeFails
    BY <2>4, ProbeEffect DEF Restart, Reading
  <2> QED
    BY <2>1, <2>2, <2>3, <2>4, Aside
    DEF Next, Publish, Acknowledge, ResetGroup, Recreate, Slips, history
<1>4. (age # None /\ base = None => slips # 0)'
  <2>1. CASE ReadMarks \/ ProbeFails
    <3>1. /\ Reading /\ (Exchanged \/ Silent)
          /\ work.pc = "marks" => Held # None
      BY <2>1, ProbeEffect, Numbers, Bounds DEF Numeric
    <3>2. Exchanged => base' # None
      BY <3>1, Zenon DEF Exchanged
    <3>3. Silent => base' # None \/ slips' = More(slips)
      BY <3>1, Zenon DEF Silent
    <3> QED
      BY <1>1, <3>1, <3>2, <3>3 DEF More
  <2>2. CASE Tick
    <3>1. base' = base /\ (age' # None => age # None)
          /\ (slips' = slips \/ slips' = More(slips))
      BY <2>2, TickEffect
    <3> QED
      BY <1>1, <3>1 DEF Sound, More
  <2>3. ASSUME UNCHANGED <<age, base>>, slips' = slips \/ slips' = More(slips)
        PROVE  (age # None /\ base = None => slips # 0)'
    BY <1>1, <2>3 DEF Sound, More
  <2>4. CASE Restart
    BY <2>4 DEF Restart
  <2> QED
    BY <2>1, <2>2, <2>3, <2>4, MovesOn, Aside
    DEF Next, Publish, Acknowledge, ResetGroup, Recreate, Slips, reach, history
<1> QED
  BY <1>2, <1>3, <1>4 DEF Sound

\* A reading that is still true and finds something waiting.
LEMMA ReadingOwes ==
    ASSUME TypeOK, work.pc = "marks", Reported = work.offsets,
           NEW t \in DOMAIN work.offsets, work.offsets[t] < end[t]
    PROVE  Owing # {} /\ Sent = Held
<1>1. t \in Listed /\ t \in Topics /\ acked[t] < end[t]
  BY ReportedIs DEF ReportIs
<1> QED
  BY <1>1 DEF Owing, Listed, Committed, Sent, Held
\* What the steps of the relay change of the reckoning.
LEMMA PublishEffect ==
    ASSUME TypeOK, NEW t \in Topics, Publish(t)
    PROVE  /\ UNCHANGED <<debt, work, base, age, wasCut, stalled, slips>>
           /\ Reported' = Reported /\ Sent' = Sent /\ Held' = Held
           /\ Owing # {} => Owing' # {}
<1>1. /\ end' = [end EXCEPT ![t] = @ + 1] /\ UNCHANGED acked
      /\ UNCHANGED <<debt, work, base, age, wasCut, stalled, slips>>
      /\ end \in [Topics -> Offset] /\ \A u \in Topics : end[u] \in Nat
  BY Numbers DEF Publish, TypeOK, reach, history, Numeric
<1>2. \A u \in Topics : Committed(u) \in Nat
  BY Numbers DEF Committed, Listed, Numeric
<1>3. \A u \in Owing : u \in Owing'
  BY <1>1, <1>2 DEF Owing, Committed
<1> QED
  BY <1>1, <1>3 DEF Reported, Sent, Held, Listed

LEMMA AcknowledgeEffect ==
    ASSUME TypeOK, TypeOK', Known, NEW t \in Topics, Acknowledge(t)
    PROVE  /\ UNCHANGED <<work, base, age, wasCut, stalled, slips>>
           /\ debt' = 0 /\ Sent' > Sent /\ Held' = Held
BY SentRises DEF Acknowledge, Held, reach

LEMMA TakeAwayEffect ==
    ASSUME TypeOK, TypeOK', Known, NEW t \in Topics, ResetGroup(t) \/ Recreate(t)
    PROVE  /\ UNCHANGED <<debt, work, base, age, wasCut>>
           /\ slips' = More(slips)
           /\ stalled' = stalled \/ stalled' = 2
           /\ stalled' = stalled /\ work.pc = "marks" => Recreate(t) \/ stalled = 2
           /\ Sent' <= Sent /\ Held' = Held
BY SentFalls DEF ResetGroup, Recreate, Held, Slips, reach

LEMMA SmoothStep ==
    ASSUME TypeOK, TypeOK', Known, Sound, Smooth, [Next]_vars PROVE Smooth'
<1>1. /\ age # None => age \in Nat /\ age <= AgeMax
      /\ age' # None => age' \in Nat
      /\ base # None => base \in Nat
      /\ Sent \in Nat /\ Sent' \in Nat
      /\ work.pc = "marks" => Held \in Nat
      /\ Reading => work.began \in Nat
      /\ debt \in Nat /\ debt <= 2 * ExchangePeriod
      /\ slips \in {0, 1, 2} /\ stalled \in {0, 1, 2}
      /\ work.pc \in {"sleep", "list", "marks", "write", "done"}
  BY Numbers, NumbersNext, WorkIs DEF Numeric, TypeOK
<1>2. ExchangePeriod \in Nat /\ ExchangePeriod >= 1
  BY Bounds
<1>3. ASSUME NEW t \in Topics, Publish(t) PROVE Smooth'
  BY <1>3, PublishEffect
  DEF Smooth, Clean, Fresh, Kept, Overdue, News, Before, After
<1>4. ASSUME NEW t \in Topics, Acknowledge(t) PROVE Smooth'
  <2>1. /\ UNCHANGED <<work, base, age, wasCut, stalled, slips>>
        /\ debt' = 0 /\ Sent' > Sent /\ Held' = Held
    BY <1>4, AcknowledgeEffect
  <2>2. work.pc = "marks" /\ Reported = work.offsets => Sent = Held
    BY DEF Sent, Held
  <2> QED
    BY <1>1, <1>2, <2>1, <2>2
    DEF Smooth, Clean, Fresh, Kept, Overdue, News, Before, After
<1>5. CASE slips' # 0
  BY <1>5 DEF Smooth, Clean
<1>6. CASE wasCut'
  BY <1>6 DEF Smooth, Clean
<1>7. CASE Tick
  <2>1. SUFFICES ASSUME slips' = 0, ~wasCut', stalled' = 0, age' # None PROVE Smooth'
    BY DEF Smooth, Clean
  <2>2. /\ UNCHANGED <<acked, base, wasCut, cut, end>> /\ ~Reading
        /\ slips' = slips /\ debt' # ExchangePeriod + 1
        /\ age # None /\ age' <= age + 1
        /\ debt' = IF cut \/ Owing = {} THEN 0 ELSE debt + 1
        /\ work.pc = "done" /\ work'.pc = "sleep" /\ stalled' = stalled
    BY <1>1, <1>7, <2>1, TickEffect DEF More
  <2>3. ~cut /\ Sent' = Sent /\ Owing' = Owing
    BY <2>1, <2>2 DEF Sound, Sent, Reported, Listed, Owing, Committed
  <2>4. /\ debt <= ExchangePeriod \/ debt >= age + ExchangePeriod + 1
        /\ age <= ExchangePeriod + 1
        /\ Fresh \/ age = 0 \/ (Kept /\ Overdue)
    BY <2>1, <2>2 DEF Smooth, Clean, After
  <2>5. debt' <= ExchangePeriod \/ debt' >= age' + ExchangePeriod + 1
    BY <1>1, <1>2, <2>1, <2>2, <2>4
  <2>6. age' <= ExchangePeriod + 2
    BY <1>1, <1>2, <2>1, <2>2, <2>4
  <2>7. (Fresh \/ age <= 1 \/ (Kept /\ Overdue))'
    BY <1>1, <1>2, <2>1, <2>2, <2>3, <2>4 DEF Fresh, Kept, Overdue
  <2> QED
    BY <2>2, <2>5, <2>6, <2>7 DEF Smooth, Before, After
<1>8. CASE ReadMarks \/ ProbeFails
  <2>1. SUFFICES ASSUME slips' = 0, ~wasCut', stalled' = 0, age' # None PROVE Smooth'
    BY DEF Smooth, Clean
  <2>2. /\ Reading /\ work'.pc = "write" /\ UNCHANGED <<end, acked, debt>>
        /\ Exchanged \/ Silent
    BY <1>8, ProbeEffect
  <2>3. Sent' = Sent /\ Owing' = Owing
    BY <2>2 DEF Sent, Reported, Listed, Owing, Committed
  <2>4. CASE Exchanged
    <3>1. age' = 0
      BY <1>1, <2>1, <2>2, <2>4 DEF Exchanged, Least
    <3> QED
      BY <1>1, <1>2, <2>2, <3>1 DEF Smooth, Before, After
  <2>5. CASE Silent
    <3>1. /\ age' = IF age = None THEN work.began ELSE age
          /\ stalled' = stalled /\ wasCut' = wasCut
          /\ work.pc = "marks" /\ base' = Held /\ slips' = slips
          /\ ~News
          /\ \E t \in DOMAIN work.offsets : work.offsets[t] < end[t]
      BY <1>1, <2>1, <2>5 DEF Silent, More
    <3>2. work.began = 0
      BY <1>1, <2>1, <2>2, <3>1 DEF Sound
    <3>3. CASE age = None
      BY <1>1, <1>2, <2>2, <3>1, <3>2, <3>3 DEF Smooth, Before, After
    <3>4. CASE age # None
      <4>1. /\ debt <= ExchangePeriod \/ debt >= age + ExchangePeriod + 1
            /\ age <= ExchangePeriod + 1
            /\ Sent > Held \/ Reported = work.offsets
            /\ Sent > Held \/ age <= 1 \/ Overdue
        BY <2>1, <3>1, <3>4 DEF Smooth, Clean
      <4>2. Sent > Held \/ (Sent = Held /\ Owing # {})
        BY <3>1, <4>1, ReadingOwes
      <4>3. (Fresh \/ (Kept /\ Overdue))'
        BY <1>1, <2>2, <2>3, <3>1, <3>4, <4>1, <4>2, Bounds DEF Fresh, Kept, Overdue
      <4> QED
        BY <2>2, <3>1, <3>4, <4>1, <4>3 DEF Smooth, Before, After
    <3> QED
      BY <3>3, <3>4
  <2> QED
    BY <2>2, <2>4, <2>5
<1>9. CASE ListOffsets
  <2>1. /\ UNCHANGED <<end, acked, debt, base, age, slips, wasCut, stalled>>
        /\ work.pc = "list"
        /\ work' = [pc |-> "marks", began |-> work.began, offsets |-> Reported]
    BY <1>9 DEF ListOffsets, relay, reach, history
  <2>2. /\ Reported' = Reported /\ work'.offsets = Reported /\ work'.pc = "marks"
        /\ Sent' = Sent /\ Held' = Sent /\ Owing' = Owing
    BY <2>1 DEF Sent, Held, Reported, Listed, Owing, Committed
  <2>3. SUFFICES ASSUME Clean(0) PROVE Smooth'
    BY <2>1 DEF Smooth, Clean
  <2>4. /\ debt <= ExchangePeriod \/ debt >= age + ExchangePeriod + 1
        /\ age <= ExchangePeriod + 2
        /\ Fresh \/ age <= 1 \/ (Kept /\ Overdue)
    BY <2>1, <2>3 DEF Smooth, Before
  <2>5. News' <=> Fresh
    BY <2>1, <2>2 DEF News, Fresh
  <2>6. Overdue => age <= ExchangePeriod + 1
    BY <1>1, <1>2, <2>3, <2>4 DEF Overdue, Clean
  <2>7. News' \/ age <= ExchangePeriod + 1
    BY <1>1, <1>2, <2>3, <2>4, <2>5, <2>6 DEF Clean
  <2>8. News' \/ age <= 1 \/ Overdue'
    BY <2>1, <2>2, <2>4, <2>5 DEF Overdue
  <2> QED
    BY <2>1, <2>2, <2>4, <2>7, <2>8 DEF Smooth, Before, After
<1>10. CASE Wake \/ WriteRow \/ WriteFails
  <2>1. /\ UNCHANGED <<end, acked, debt, base, age, slips, wasCut, stalled>>
        /\ \/ work.pc = "sleep" /\ work'.pc = "list"
           \/ work.pc = "write" /\ work'.pc = "done"
    BY <1>10 DEF Wake, WriteRow, WriteFails, relay, reach, history
  <2>2. Sent' = Sent /\ Owing' = Owing
    BY <2>1 DEF Sent, Reported, Listed, Owing, Committed
  <2> QED
    BY <2>1, <2>2 DEF Smooth, Clean, Fresh, Kept, Overdue, Before, After
<1>11. CASE Restart
  BY <1>11 DEF Restart, Smooth, Clean
<1>12. CASE UNCHANGED <<end, acked, debt, work, base, age, slips, wasCut, stalled>>
  BY <1>12 DEF Smooth, Clean, Fresh, Kept, Overdue, News, Before, After,
               Sent, Held, Reported, Listed, Owing, Committed
<1>13. ASSUME NEW t \in Topics, ResetGroup(t) \/ Recreate(t) PROVE Smooth'
  <2>1. slips' # 0
    BY <1>1, <1>13, TakeAwayEffect DEF More
  <2> QED
    BY <1>5, <2>1
<1> QED
  BY <1>3, <1>4, <1>6, <1>7, <1>8, <1>9, <1>10, <1>11, <1>12, <1>13, Aside
  DEF Next, Cut, Heal, BrokerTurns, PostgresTurns, vars, relay, history
\* The conditions of one slip, with the place of the loop as it stands.
LEMMA SlippedStep ==
    ASSUME TypeOK, TypeOK', Known, Sound, Smooth, Slipped, [Next]_vars PROVE Slipped'
<1>1. /\ age # None => age \in Nat /\ age <= AgeMax
      /\ age' # None => age' \in Nat
      /\ base # None => base \in Nat
      /\ Sent \in Nat /\ Sent' \in Nat
      /\ work.pc = "marks" => Held \in Nat
      /\ Reading => work.began \in Nat
      /\ debt \in Nat /\ debt <= 2 * ExchangePeriod
      /\ slips \in {0, 1, 2} /\ stalled \in {0, 1, 2}
      /\ work.pc \in {"sleep", "list", "marks", "write", "done"}
  BY Numbers, NumbersNext, WorkIs DEF Numeric, TypeOK
<1>2. /\ ExchangePeriod \in Nat /\ ExchangePeriod >= 1
      /\ SeverAfter = 2 * ExchangePeriod + 2
  BY Bounds DEF SeverAfter
<1>3. ASSUME NEW t \in Topics, Publish(t) PROVE Slipped'
  BY <1>3, PublishEffect
  DEF Slipped, Clean, Fresh, Kept, Late, Overdue, OverdueAgain, News, Before, After
<1>4. ASSUME NEW t \in Topics, Acknowledge(t) PROVE Slipped'
  <2>1. /\ UNCHANGED <<work, base, age, wasCut, stalled, slips>>
        /\ debt' = 0 /\ Sent' > Sent /\ Held' = Held
    BY <1>4, AcknowledgeEffect
  <2>2. work.pc = "marks" /\ Reported = work.offsets => Sent = Held
    BY DEF Sent, Held
  <2>3. (Fresh \/ Kept => Fresh') /\ (News => News')
        /\ (work.pc = "marks" /\ (Sent > Held \/ Sent = Held) => Sent' > Held')
    BY <1>1, <2>1 DEF Fresh, Kept, News
  <2>4. SUFFICES ASSUME Clean(1) PROVE Slipped'
    BY <2>1 DEF Slipped, Clean
  <2>5. CASE Before
    BY <2>1, <2>3, <2>4, <2>5 DEF Slipped, Before, After
  <2>6. CASE After
    BY <2>1, <2>3, <2>4, <2>6 DEF Slipped, Before, After
  <2>7. CASE work.pc = "marks"
    <3>1. News \/ Sent > Held \/ Sent = Held \/ age <= ExchangePeriod + 1
      BY <2>2, <2>4, <2>7 DEF Slipped
    <3>2. /\ News' \/ Sent' > Held' \/ age <= ExchangePeriod + 1
          /\ News \/ age <= work.began + SeverAfter
      BY <2>3, <2>4, <2>7, <3>1 DEF Slipped
    <3>3. age <= ExchangePeriod + 1 => age <= ExchangePeriod + 2
      BY <1>1, <1>2, <2>4 DEF Clean
    <3> QED
      BY <2>1, <2>3, <2>7, <3>2, <3>3 DEF Slipped, Before, After
  <2> QED
    BY <1>1, <2>5, <2>6, <2>7 DEF Before, After
<1>5. ASSUME NEW t \in Topics, ResetGroup(t) \/ Recreate(t) PROVE Slipped'
  <2>1. /\ UNCHANGED <<debt, work, base, age, wasCut>>
        /\ slips' = More(slips)
        /\ stalled' = stalled \/ stalled' = 2
        /\ Held' = Held
    BY <1>5, TakeAwayEffect
  <2>2. SUFFICES ASSUME slips' = 1, ~wasCut', stalled' = 0, age' # None PROVE Slipped'
    BY DEF Slipped, Clean
  <2>3. Clean(0)
    BY <1>1, <2>1, <2>2 DEF Clean, More
  <2>4. /\ Before => age <= ExchangePeriod + 2
        /\ After => age <= ExchangePeriod + 1
        /\ work.pc = "marks" => /\ age <= ExchangePeriod + 2
                                /\ News \/ age <= ExchangePeriod + 1
    BY <2>3 DEF Smooth
  <2>5. work.pc = "marks" => age <= work.began + SeverAfter
    BY <1>1, <1>2, <2>3, <2>4 DEF Reading, Clean
  <2> QED
    BY <2>1, <2>4, <2>5 DEF Slipped, Before, After, News
<1>6. CASE Tick
  <2>1. SUFFICES ASSUME slips' = 1, ~wasCut', stalled' = 0, age' # None PROVE Slipped'
    BY DEF Slipped, Clean
  <2>2. /\ UNCHANGED <<end, acked, base, wasCut, cut>>
        /\ stalled' = stalled
        /\ age # None /\ age' <= age + 1
        /\ debt' = IF cut \/ Owing = {} THEN 0 ELSE debt + 1
        /\ slips' = IF Reading \/ debt' = ExchangePeriod + 1 THEN More(slips) ELSE slips
        /\ \/ work.pc = "done" /\ work'.pc = "sleep"
           \/ /\ Reading /\ work'.pc = work.pc
              /\ work'.began = work.began + 1
              /\ work.pc = "marks" => work'.offsets = work.offsets
    BY <1>6, <2>1, TickEffect
  <2>3. /\ ~cut /\ Sent' = Sent /\ Owing' = Owing /\ Reported' = Reported
        /\ (Fresh => Fresh') /\ (Kept => Kept')
    BY <2>1, <2>2
    DEF Sound, Sent, Reported, Listed, Owing, Committed, Fresh, Kept
  <2>4. Owing # {} => debt' = debt + 1
    BY <2>2, <2>3
  <2>5. Overdue => Overdue'
    BY <1>1, <2>1, <2>2, <2>3, <2>4 DEF Overdue
  <2>6. CASE work.pc = "done"
    <3>1. CASE slips = 0
      <4>1. age <= ExchangePeriod + 1
        BY <2>1, <2>2, <2>6, <3>1 DEF Smooth, Clean, After
      <4>2. age' <= ExchangePeriod + 2
        BY <1>1, <1>2, <2>1, <2>2, <4>1
      <4> QED
        BY <2>2, <2>6, <4>2 DEF Slipped, Before, After, Reading
    <3>2. CASE slips = 1
      <4>1. debt' # ExchangePeriod + 1
        BY <2>1, <2>2, <3>2 DEF More
      <4>2. Fresh \/ age <= ExchangePeriod + 1 \/ (Kept /\ Late)
        BY <2>1, <2>2, <2>6, <3>2 DEF Slipped, Clean, After
      <4>3. age <= ExchangePeriod + 1 => age' <= ExchangePeriod + 2
        BY <1>1, <1>2, <2>1, <2>2
      <4>4. OverdueAgain => OverdueAgain'
        BY <1>1, <1>2, <2>1, <2>2, <2>3, <2>4, <4>1 DEF OverdueAgain
      <4> QED
        BY <2>2, <2>3, <2>5, <2>6, <4>2, <4>3, <4>4
        DEF Slipped, Before, After, Late, Reading
    <3> QED
      BY <1>1, <2>1, <2>2, <3>1, <3>2 DEF More
  <2>7. CASE Reading
    <3>1. /\ slips = 0 /\ work'.pc = work.pc /\ work'.began = work.began + 1
          /\ work.pc = "marks" => work'.offsets = work.offsets
      BY <1>1, <2>1, <2>2, <2>7 DEF More, Reading
    <3>2. Clean(0)
      BY <2>1, <2>2, <3>1 DEF Clean
    <3>3. age <= ExchangePeriod + 1 \/ age <= 1 => age' <= ExchangePeriod + 2
      BY <1>1, <1>2, <2>1, <2>2
    <3>4. CASE work.pc = "list"
      <4>1. Fresh \/ age <= 1 \/ (Kept /\ Overdue)
        BY <3>2, <3>4 DEF Smooth, Before
      <4> QED
        BY <2>3, <2>5, <3>1, <3>3, <3>4, <4>1 DEF Slipped, Before, After, Late
    <3>5. CASE work.pc = "marks"
      <4>1. /\ age <= ExchangePeriod + 2
            /\ Sent > Held \/ Reported = work.offsets
            /\ News \/ age <= ExchangePeriod + 1
        BY <3>2, <3>5 DEF Smooth
      <4>2. age' <= work'.began + SeverAfter
        BY <1>1, <1>2, <2>1, <2>2, <2>7, <3>1, <4>1
      <4>3. Held' = Held /\ (News => News')
        BY <2>2, <3>1, <3>5 DEF Held, News
      <4> QED
        BY <2>3, <3>1, <3>3, <3>5, <4>1, <4>2, <4>3 DEF Slipped, Before, After
    <3> QED
      BY <2>7, <3>4, <3>5 DEF Reading
  <2> QED
    BY <2>2, <2>6, <2>7
<1>7. CASE ReadMarks \/ ProbeFails
  <2>1. SUFFICES ASSUME slips' = 1, ~wasCut', stalled' = 0, age' # None PROVE Slipped'
    BY DEF Slipped, Clean
  <2>2. /\ Reading /\ work'.pc = "write" /\ UNCHANGED <<end, acked, debt>>
        /\ Exchanged \/ Silent
    BY <1>7, ProbeEffect
  <2>3. Sent' = Sent /\ Owing' = Owing
    BY <2>2 DEF Sent, Reported, Listed, Owing, Committed
  <2>4. SUFFICES Fresh' \/ age' <= ExchangePeriod + 1 \/ (Kept' /\ Late')
    BY <2>2 DEF Slipped, Before, After
  <2>5. CASE Exchanged
    <3>1. age' = 1
      BY <1>1, <2>1, <2>2, <2>5 DEF Exchanged, Least
    <3> QED
      BY <1>2, <3>1
  <2>6. CASE Silent
    <3>1. /\ age' = IF age = None THEN work.began ELSE age
          /\ stalled' = stalled /\ wasCut' = wasCut
      BY <2>6 DEF Silent
    <3>2. CASE age = None
      <4>1. slips \in {0, 1}
        BY <1>1, <2>1, <2>6 DEF Silent, More
      <4>2. work.began <= 1
        BY <1>1, <2>2, <4>1 DEF Sound
      <4> QED
        BY <1>1, <1>2, <2>2, <3>1, <3>2, <4>2
    <3>3. CASE age # None /\ base' = base /\ slips' = More(slips)
      <4>1. Clean(0)
        BY <1>1, <2>1, <3>1, <3>3 DEF Clean, More
      <4>2. CASE work.pc = "list"
        <5>1. Fresh \/ age <= 1 \/ (Kept /\ Overdue)
          BY <4>1, <4>2 DEF Smooth, Before
        <5>2. age <= 1 => age' <= ExchangePeriod + 1
          BY <1>1, <1>2, <3>1, <3>3
        <5>3. Overdue => Late'
          BY <2>2, <2>3, <3>1, <3>3 DEF Overdue, Late
        <5> QED
          BY <2>3, <3>3, <5>1, <5>2, <5>3 DEF Fresh, Kept
      <4>3. CASE work.pc = "marks"
        <5>1. /\ Sent > Held \/ Reported = work.offsets
              /\ News \/ age <= ExchangePeriod + 1
          BY <4>1, <4>3 DEF Smooth
        <5>2. Reported = work.offsets => Sent = Held
          BY DEF Sent, Held
        <5>3. News => Fresh'
          BY <1>1, <2>3, <3>3, <4>3, <5>1, <5>2 DEF News, Fresh
        <5> QED
          BY <3>1, <3>3, <5>1, <5>3
      <4> QED
        BY <2>2, <4>2, <4>3 DEF Reading
    <3>4. CASE /\ age # None
               /\ work.pc = "marks" /\ base' = Held /\ slips' = slips
               /\ ~News
               /\ \E t \in DOMAIN work.offsets : work.offsets[t] < end[t]
      <4>1. /\ Sent > Held \/ Reported = work.offsets \/ age <= ExchangePeriod + 1
            /\ Sent > Held \/ age <= ExchangePeriod + 2 \/ Late
        BY <2>1, <3>1, <3>4 DEF Slipped, Clean
      <4>2. CASE Sent > Held
        BY <1>1, <2>3, <3>4, <4>2, Bounds DEF Fresh
      <4>3. CASE age <= ExchangePeriod + 1
        BY <3>1, <3>4, <4>3
      <4>4. CASE Reported = work.offsets /\ ~(Sent > Held)
        <5>1. Sent = Held /\ Owing # {}
          BY <3>4, <4>4, ReadingOwes
        <5>2. Kept'
          BY <1>1, <2>3, <3>4, <5>1, Bounds DEF Kept
        <5>3. Late
          BY <1>1, <1>2, <3>4, <4>1, <4>4, <5>1 DEF Late, Overdue, OverdueAgain
        <5>4. Late'
          BY <2>2, <2>3, <3>1, <3>4, <5>3 DEF Late, Overdue, OverdueAgain
        <5> QED
          BY <5>2, <5>4
      <4> QED
        BY <4>1, <4>2, <4>3, <4>4
    <3> QED
      BY <2>6, <3>2, <3>3, <3>4 DEF Silent
  <2> QED
    BY <2>2, <2>5, <2>6
<1>8. CASE ListOffsets
  <2>1. /\ UNCHANGED <<end, acked, debt, base, age, slips, wasCut, stalled>>
        /\ work.pc = "list"
        /\ work' = [pc |-> "marks", began |-> work.began, offsets |-> Reported]
    BY <1>8 DEF ListOffsets, relay, reach, history
  <2>2. /\ Reported' = Reported /\ work'.offsets = Reported /\ work'.pc = "marks"
        /\ work'.began = work.began
        /\ Sent' = Sent /\ Held' = Sent /\ Owing' = Owing
    BY <2>1 DEF Sent, Held, Reported, Listed, Owing, Committed
  <2>3. SUFFICES ASSUME Clean(1) PROVE Slipped'
    BY <2>1 DEF Slipped, Clean
  <2>4. Fresh \/ age <= ExchangePeriod + 2 \/ (Kept /\ Late)
    BY <2>1, <2>3 DEF Slipped, Before
  <2>5. News' <=> Fresh
    BY <2>1, <2>2 DEF News, Fresh
  <2>6. Late \/ age <= ExchangePeriod + 2 => age <= work.began + SeverAfter
    BY <1>1, <1>2, <2>1, <2>3 DEF Late, Overdue, OverdueAgain, Clean, Reading
  <2>7. Late => Late'
    BY <2>1, <2>2 DEF Late, Overdue, OverdueAgain
  <2> QED
    BY <2>1, <2>2, <2>4, <2>5, <2>6, <2>7 DEF Slipped, Before, After
<1>9. CASE Wake \/ WriteRow \/ WriteFails
  <2>1. /\ UNCHANGED <<end, acked, debt, base, age, slips, wasCut, stalled>>
        /\ \/ work.pc = "sleep" /\ work'.pc = "list"
           \/ work.pc = "write" /\ work'.pc = "done"
    BY <1>9 DEF Wake, WriteRow, WriteFails, relay, reach, history
  <2>2. Sent' = Sent /\ Owing' = Owing
    BY <2>1 DEF Sent, Reported, Listed, Owing, Committed
  <2> QED
    BY <2>1, <2>2
    DEF Slipped, Clean, Fresh, Kept, Late, Overdue, OverdueAgain, Before, After
<1>10. CASE Restart
  BY <1>10 DEF Restart, Slipped, Clean
<1>11. CASE UNCHANGED <<end, acked, debt, work, base, age, slips, wasCut, stalled>>
  BY <1>11 DEF Slipped, Clean, Fresh, Kept, Late, Overdue, OverdueAgain, News, Before,
               After, Sent, Held, Reported, Listed, Owing, Committed
<1>12. CASE wasCut'
  BY <1>12 DEF Slipped, Clean
<1> QED
  BY <1>3, <1>4, <1>5, <1>6, <1>7, <1>8, <1>9, <1>10, <1>11, <1>12, Aside
  DEF Next, Cut, Heal, BrokerTurns, PostgresTurns, vars, relay, history
LEMMA AlarmStep ==
    ASSUME TypeOK, TypeOK', Known, AlarmInv, [Next]_vars PROVE AlarmInv'
BY SoundStep, SmoothStep, SlippedStep DEF AlarmInv

\* A link that was not cut is never called severed for one slip, be it a slow
\* commit, a missed or slow probe, a reset or a recreated topic
\* (default_sever_after_s).
THEOREM AlarmIsNotFalse == Spec => NoFalseAlarm
<1>1. Init => AlarmInv
  BY DEF Init, AlarmInv, Sound, Smooth, Slipped, Clean, Reading
<1>2. TypeOK /\ TypeOK' /\ Known /\ AlarmInv /\ [Next]_vars => AlarmInv'
  BY AlarmStep
<1>3. ASSUME TypeOK, Known, AlarmInv, [Next]_vars, severed' = TRUE, severed # TRUE,
             ~wasCut, ~(stalled > 0), ~(slips > 1), ~(slips' > 1)
      PROVE  FALSE
  <2>1. ReadMarks \/ ProbeFails
    <3>1. severed' # severed /\ None # TRUE
      BY <1>3, Bounds
    <3>2. ~Restart
      BY <1>3, <3>1 DEF Restart
    <3> QED
      BY <1>3, <3>1, <3>2, MovesOn, Aside, TickEffect
      DEF Next, Publish, Acknowledge, ResetGroup, Recreate, reach
  <2>2. Reading /\ Silent
    <3>1. Reading /\ (Exchanged \/ Silent)
      BY <1>3, <2>1, ProbeEffect
    <3>2. ~Exchanged
      BY <1>3, Zenon DEF Exchanged
    <3> QED
      BY <3>1, <3>2
  <2>3. AgeAt(work.began) > SeverAfter
    BY <1>3, <2>2, Zenon DEF Silent
  <2>4. /\ age # None => age \in Nat
        /\ work.began \in Nat
        /\ slips \in {0, 1, 2} /\ stalled \in {0, 1, 2}
        /\ ExchangePeriod \in Nat /\ ExchangePeriod >= 1
        /\ SeverAfter = 2 * ExchangePeriod + 2
    BY <1>3, <2>2, Numbers, Bounds DEF Numeric, SeverAfter
  <2>5. age # None /\ age > work.began + SeverAfter
    BY <2>3, <2>4 DEF AgeAt
  <2>6. Clean(0) \/ Clean(1)
    BY <1>3, <2>4, <2>5 DEF Clean
  <2>7. CASE Clean(0)
    <3>1. age <= ExchangePeriod + 2
      BY <1>3, <2>2, <2>7 DEF AlarmInv, Smooth, Reading, Before
    <3> QED
      BY <2>4, <2>5, <3>1
  <2>8. CASE Clean(1)
    <3>1. work.pc = "marks" /\ ~News
      BY <1>3, <2>2, <2>4, <2>8 DEF Silent, More, Clean
    <3>2. age <= work.began + SeverAfter
      BY <1>3, <2>8, <3>1 DEF AlarmInv, Slipped
    <3> QED
      BY <2>4, <2>5, <3>2
  <2> QED
    BY <2>6, <2>7, <2>8
<1>4. TypeOK /\ Known /\ AlarmInv /\ [Next]_vars =>
        [severed' = TRUE /\ severed # TRUE
            => wasCut \/ stalled > 0 \/ slips > 1 \/ slips' > 1]_vars
  BY <1>3
<1> QED
  BY <1>1, <1>2, <1>4, TypeCorrect, PTL DEF Spec, NoFalseAlarm

-----------------------------------------------------------------------------
(* LinkHeartbeat: an idle source was quiet.                                 *)

\* The sum now of the topics of the last reading.
CoveredEnd == SumFunctionOnSet(logEnd, covered)

\* No movement is older than a record that was shown, and while no drop is
\* waiting, a topic that was read has at least what was read of it, and more if
\* it has a record since.
Metered ==
    /\ Beat!TypeOK
    /\ \A t \in Traffic : unread[t] # None => logEnd[t] > 0
    /\ sum # None =>
         /\ \A t \in Traffic : advance <= quiet[t]
         /\ ~hidden => /\ sum <= CoveredEnd
                       /\ \A t \in covered : unread[t] # None => sum < CoveredEnd

\* Sets and sums are what they are here.
LEMMA SameFinite == \A S : Beat!IsFiniteSet(S) <=> IsFiniteSet(S)
BY DEF Beat!IsFiniteSet, IsFiniteSet

LEMMA SameSum == \A f, S : Beat!SumFunctionOnSet(f, S) = SumFunctionOnSet(f, S)
BY DEF Beat!SumFunctionOnSet, Beat!FoldFunctionOnSet, Beat!MapThenFoldSet,
       SumFunctionOnSet, FoldFunctionOnSet, MapThenFoldSet

\* The assumption, and the type with the ages written out.
LEMMA MeterIs ==
    ASSUME Beat!LinkHeartbeatAssumption, Beat!TypeOK
    PROVE  /\ IsFiniteSet(Traffic) /\ MaxRecords \in Nat /\ MaxRecords >= 1
           /\ MaxFaults \in Nat
           /\ IdleAfter \in Nat /\ Beat!AgeMax = IdleAfter + 1
           /\ None \notin Nat /\ None \notin {"UNSPECIFIED", "ACTIVE", "IDLE"}
           /\ logEnd \in [Traffic -> 0..MaxRecords]
           /\ \/ first = None /\ sum = None /\ advance = None
              \/ first \in 0..Beat!AgeMax /\ sum \in Nat /\ advance \in 0..first
           /\ covered \subseteq Traffic /\ IsFiniteSet(covered) /\ hidden \in BOOLEAN
           /\ unread \in [Traffic -> {None} \cup 0..Beat!AgeMax]
           /\ quiet \in [Traffic -> 0..Beat!AgeMax]
<1>1. /\ IsFiniteSet(Traffic) /\ MaxRecords \in Nat /\ MaxRecords >= 1
      /\ MaxFaults \in Nat
      /\ IdleAfter \in Nat /\ Beat!AgeMax = IdleAfter + 1
      /\ None \notin Nat /\ None \notin {"UNSPECIFIED", "ACTIVE", "IDLE"}
  BY SameFinite DEF Beat!LinkHeartbeatAssumption, Beat!AgeMax
<1>2. /\ logEnd \in [Traffic -> 0..MaxRecords]
      /\ covered \subseteq Traffic /\ hidden \in BOOLEAN
      /\ unread \in [Traffic -> {None} \cup 0..Beat!AgeMax]
      /\ quiet \in [Traffic -> 0..Beat!AgeMax]
      /\ \/ first = None /\ sum = None /\ advance = None
         \/ first \in 0..Beat!AgeMax /\ sum \in Nat /\ advance \in 0..first
  BY DEF Beat!TypeOK, Beat!meter
<1>3. IsFiniteSet(covered)
  BY <1>1, <1>2, FS_Subset
<1> QED
  BY <1>1, <1>2, <1>3

\* What the topics of any reading sum to.
LEMMA TopicsSum ==
    ASSUME Beat!LinkHeartbeatAssumption, Beat!TypeOK, NEW readable \in SUBSET Traffic
    PROVE  /\ IsFiniteSet(readable) /\ \A t \in readable : logEnd[t] \in Nat
           /\ SumFunctionOnSet(logEnd, readable) \in Nat
<1>1. IsFiniteSet(readable) /\ \A t \in readable : logEnd[t] \in Nat
  <2>1. IsFiniteSet(readable)
    BY MeterIs, FS_Subset
  <2>2. MaxRecords \in Nat /\ logEnd \in [Traffic -> 0..MaxRecords]
    BY MeterIs
  <2> QED
    BY <2>1, <2>2
<1>2. SumFunctionOnSet(logEnd, readable) \in Nat
  BY <1>1, SumType
<1> QED
  BY <1>1, <1>2

LEMMA TrafficSumIs ==
    ASSUME NEW readable
    PROVE  Beat!TrafficSum(readable)
             = IF readable = {} THEN None ELSE SumFunctionOnSet(logEnd, readable)
<1>1. Beat!SumFunctionOnSet(logEnd, readable) = SumFunctionOnSet(logEnd, readable)
  BY SameSum, Zenon
<1> QED
  BY <1>1, Zenon DEF Beat!TrafficSum

\* A record that is published raises the sum of any topics it is among.
LEMMA TrafficRises ==
    ASSUME Beat!LinkHeartbeatAssumption, Beat!TypeOK, NEW t \in Traffic, Beat!Publish(t)
    PROVE  /\ logEnd' \in [Traffic -> 0..MaxRecords]
           /\ logEnd'[t] > 0 /\ \A u \in Traffic : u # t => logEnd'[u] = logEnd[u]
           /\ CoveredEnd \in Nat /\ CoveredEnd' \in Nat /\ CoveredEnd <= CoveredEnd'
           /\ t \in covered => CoveredEnd < CoveredEnd'
<1> DEFINE f == logEnd
           g == logEnd'
<1>1. /\ MaxRecords \in Nat /\ covered \subseteq Traffic /\ IsFiniteSet(covered)
      /\ logEnd \in [Traffic -> 0..MaxRecords]
      /\ logEnd[t] < MaxRecords /\ logEnd' = [logEnd EXCEPT ![t] = @ + 1]
      /\ covered' = covered
  BY MeterIs DEF Beat!Publish
<1>2. /\ \A u \in Traffic : f[u] \in Nat /\ g[u] \in Nat /\ f[u] <= g[u]
      /\ f[t] < g[t] /\ \A u \in Traffic : u # t => g[u] = f[u]
      /\ g \in [Traffic -> 0..MaxRecords]
  BY <1>1
<1>3. /\ CoveredEnd = SumFunctionOnSet(f, covered)
      /\ CoveredEnd' = SumFunctionOnSet(g, covered)
  BY <1>1 DEF CoveredEnd
<1>4. g[t] > 0
  BY <1>2
<1> HIDE DEF f, g
<1>5. \A u \in covered : f[u] \in Nat /\ g[u] \in Nat /\ f[u] <= g[u]
  BY <1>1, <1>2
<1>6. /\ SumFunctionOnSet(f, covered) <= SumFunctionOnSet(g, covered)
      /\ SumFunctionOnSet(f, covered) \in Nat
      /\ SumFunctionOnSet(g, covered) \in Nat
  BY <1>1, <1>5, SumMonotone, SumType
<1>7. ASSUME t \in covered
      PROVE  SumFunctionOnSet(f, covered) < SumFunctionOnSet(g, covered)
  BY <1>1, <1>2, <1>5, <1>7, SumStrict
<1> QED
  BY <1>2, <1>3, <1>4, <1>6, <1>7 DEF f, g

\* A reading that shows a record is higher than the last.
LEMMA ShownRises ==
    ASSUME Beat!LinkHeartbeatAssumption, Metered, sum # None,
           NEW readable \in SUBSET Traffic, NEW t \in Beat!Shown(readable)
    PROVE  SumFunctionOnSet(logEnd, readable) > sum
<1>1. Beat!TypeOK
  BY DEF Metered
<1>2. covered \subseteq readable /\ ~hidden /\ t \in readable /\ unread[t] # None
  BY DEF Beat!Shown
<1>3. /\ IsFiniteSet(readable) /\ \A u \in readable : logEnd[u] \in Nat
      /\ SumFunctionOnSet(logEnd, readable) \in Nat
  BY <1>1, TopicsSum, Zenon
<1>4. /\ IsFiniteSet(covered) /\ \A u \in covered : logEnd[u] \in Nat
      /\ CoveredEnd \in Nat
  <2>1. covered \in SUBSET Traffic
    BY <1>1, MeterIs
  <2> QED
    BY <1>1, <2>1, TopicsSum, Zenon DEF CoveredEnd
<1>5. sum \in Nat
  BY <1>1, MeterIs
<1>6. sum <= CoveredEnd /\ (t \in covered => sum < CoveredEnd) /\ logEnd[t] > 0
  BY <1>2 DEF Metered
<1>7. \A u \in covered : logEnd[u] <= logEnd[u]
  BY <1>4
<1>8. CASE t \in covered
  <2>1. CoveredEnd <= SumFunctionOnSet(logEnd, readable)
    BY <1>2, <1>3, <1>4, <1>7, SumMonotone DEF CoveredEnd
  <2> QED
    BY <1>3, <1>4, <1>5, <1>6, <1>8, <2>1
<1>9. CASE t \notin covered
  <2>1. IF t \in covered THEN logEnd[t] < logEnd[t] ELSE 0 < logEnd[t]
    BY <1>2, <1>3, <1>6, <1>9
  <2>2. CoveredEnd < SumFunctionOnSet(logEnd, readable)
    BY <1>2, <1>3, <1>4, <1>7, <2>1, SumStrict DEF CoveredEnd
  <2> QED
    BY <1>3, <1>4, <1>5, <1>6, <2>2
<1> QED
  BY <1>8, <1>9

\* What a reading that counts leaves of the meter, and the band it gives.
LEMMA ObserveIs ==
    ASSUME NEW reading, NEW band, Beat!Observe(reading, band)
    PROVE  \/ /\ reading = None /\ UNCHANGED <<first, sum, advance>>
              /\ band = "UNSPECIFIED"
           \/ /\ reading # None /\ first = None
              /\ first' = 0 /\ sum' = reading /\ advance' = 0
              /\ band = "UNSPECIFIED"
           \/ /\ reading # None /\ first # None
              /\ first' = first /\ sum' = reading
              /\ advance' = IF reading > sum THEN 0 ELSE advance
              /\ band = "IDLE" => ~(advance' <= IdleAfter)
BY DEF Beat!Observe, Beat!meter, Beat!Band, Beat!AdvanceAfter

\* A round of the loop.
LEMMA BeatStep ==
    ASSUME Beat!LinkHeartbeatAssumption, Metered,
           NEW readable \in SUBSET Traffic, Beat!Beat(readable)
    PROVE  Metered'
<1> DEFINE A == Beat!AgeMax
           reading == Beat!TrafficSum(readable)
<1>1. /\ MaxFaults \in Nat
      /\ IdleAfter \in Nat /\ A = IdleAfter + 1 /\ None \notin Nat
      /\ logEnd \in [Traffic -> 0..MaxRecords]
      /\ \/ first = None /\ sum = None /\ advance = None
         \/ first \in 0..A /\ sum \in Nat /\ advance \in 0..first
      /\ covered \subseteq Traffic /\ hidden \in BOOLEAN
      /\ unread \in [Traffic -> {None} \cup 0..A]
      /\ quiet \in [Traffic -> 0..A]
  BY MeterIs DEF Metered
<1>2. /\ beaten' = TRUE /\ logEnd' = logEnd
      /\ covered' = IF readable = {} THEN covered ELSE readable
      /\ hidden' = (hidden /\ readable = {})
      /\ unread' = [t \in Traffic |-> IF t \in readable THEN None ELSE unread[t]]
      /\ quiet' = [t \in Traffic |-> IF t \in Beat!Shown(readable) THEN unread[t]
                                     ELSE quiet[t]]
  BY DEF Beat!Beat
<1>3. PICK band \in {"UNSPECIFIED", "ACTIVE", "IDLE"} :
        /\ Beat!Observe(reading, band)
        /\ \/ sent' = band /\ faults' = faults
           \/ faults < MaxFaults /\ faults' = faults + 1 /\ sent' = None
  BY DEF Beat!Beat
<1>4. /\ sent' \in {None, "UNSPECIFIED", "ACTIVE", "IDLE"}
      /\ faults' \in 0..MaxFaults
  <2>1. faults \in 0..MaxFaults
    BY DEF Metered, Beat!TypeOK
  <2> QED
    BY <1>1, <1>3, <2>1
<1>5. /\ reading = IF readable = {} THEN None ELSE SumFunctionOnSet(logEnd, readable)
      /\ SumFunctionOnSet(logEnd, readable) \in Nat
  BY TopicsSum, TrafficSumIs, Zenon DEF Metered
<1>6. \A t \in Beat!Shown(readable) : t \in readable /\ unread[t] # None
  BY DEF Beat!Shown
<1>7. /\ covered' \subseteq Traffic /\ hidden' \in BOOLEAN
      /\ unread' \in [Traffic -> {None} \cup 0..A]
      /\ quiet' \in [Traffic -> 0..A]
  <2>1. \A t \in Beat!Shown(readable) : unread[t] \in 0..A
    BY <1>1, <1>6
  <2>2. quiet' \in [Traffic -> 0..A]
    BY <1>1, <1>2, <2>1
  <2>3. hidden' \in BOOLEAN
    BY <1>2, Zenon
  <2> QED
    BY <1>1, <1>2, <2>2, <2>3
<1>8. \A t \in Traffic : unread'[t] # None => logEnd'[t] > 0
  BY <1>2 DEF Metered
<1> DEFINE MeterType == \/ first' = None /\ sum' = None /\ advance' = None
                        \/ first' \in 0..A /\ sum' \in Nat /\ advance' \in 0..first'
           Goal == sum' # None =>
             /\ \A t \in Traffic : advance' <= quiet'[t]
             /\ ~hidden' => /\ sum' <= CoveredEnd'
                            /\ \A t \in covered' : unread'[t] # None => sum' < CoveredEnd'
<1> HIDE DEF A, reading
<1>9. SUFFICES MeterType /\ Goal
  BY <1>1, <1>2, <1>4, <1>7, <1>8, Zenon
     DEF Metered, Beat!TypeOK, Beat!meter, A
<1>10. CASE readable = {}
  <2>1. UNCHANGED <<first, sum, advance>>
    BY <1>3, <1>5, <1>10, ObserveIs
  <2>2. covered' = covered /\ CoveredEnd' = CoveredEnd
    BY <1>2, <1>10 DEF CoveredEnd
  <2>3. (hidden' <=> hidden)
    BY <1>1, <1>2, <1>10, Zenon
  <2>4. \A t \in Traffic : unread'[t] = unread[t] /\ quiet'[t] = quiet[t]
    BY <1>2, <1>6, <1>10
  <2>5. MeterType
    BY <1>1, <2>1
  <2>6. Goal
    BY <1>1, <2>1, <2>2, <2>3, <2>4, Zenon DEF Metered
  <2> QED
    BY <2>5, <2>6
<1>11. CASE readable # {}
  <2>1. reading \in Nat /\ reading # None /\ reading = SumFunctionOnSet(logEnd, readable)
    BY <1>1, <1>5, <1>11
  <2>2. covered' = readable /\ CoveredEnd' = reading
    BY <1>2, <1>11, <2>1 DEF CoveredEnd
  <2>3. \A t \in covered' : unread'[t] = None
    BY <1>2, <2>2
  <2>4. sum' = reading
    BY <1>3, <2>1, ObserveIs
  <2>5. \A t \in Traffic : quiet'[t] \in Nat /\ quiet[t] \in Nat
    BY <1>1, <1>7
  <2>6. CASE first = None
    <3>1. first' = 0 /\ advance' = 0
      BY <1>3, <2>1, <2>6, ObserveIs
    <3>2. MeterType
      BY <1>1, <2>1, <2>4, <3>1
    <3>3. \A t \in Traffic : advance' <= quiet'[t]
      BY <2>5, <3>1
    <3> QED
      BY <2>1, <2>2, <2>3, <2>4, <3>2, <3>3
  <2>7. CASE first # None
    <3>1. first' = first /\ advance' = IF reading > sum THEN 0 ELSE advance
      BY <1>3, <2>1, <2>7, ObserveIs
    <3>2. first \in 0..A /\ sum \in Nat /\ advance \in 0..first /\ sum # None
      BY <1>1, <2>7
    <3>3. MeterType
      BY <1>1, <2>1, <2>4, <3>1, <3>2
    <3>4. ASSUME NEW t \in Traffic PROVE advance' <= quiet'[t]
      <4>1. CASE Beat!Shown(readable) = {}
        <5>1. quiet'[t] = quiet[t] /\ advance <= quiet[t]
          BY <1>2, <3>2, <4>1 DEF Metered
        <5> QED
          BY <1>1, <2>5, <3>1, <3>2, <5>1
      <4>2. CASE Beat!Shown(readable) # {}
        <5>1. reading > sum
          BY <2>1, <3>2, <4>2, ShownRises
        <5> QED
          BY <2>5, <3>1, <5>1
      <4> QED
        BY <4>1, <4>2
    <3> QED
      BY <2>1, <2>2, <2>3, <2>4, <3>3, <3>4
  <2> QED
    BY <2>6, <2>7
<1> QED
  BY <1>10, <1>11

LEMMA MeteredStep ==
    ASSUME Beat!LinkHeartbeatAssumption, Metered, [Beat!Next]_Beat!vars
    PROVE  Metered'
<1> DEFINE A == Beat!AgeMax
<1>1. /\ Beat!TypeOK
      /\ \A t \in Traffic : unread[t] # None => logEnd[t] > 0
      /\ sum # None =>
           /\ \A t \in Traffic : advance <= quiet[t]
           /\ ~hidden => /\ sum <= CoveredEnd
                         /\ \A t \in covered : unread[t] # None => sum < CoveredEnd
  BY DEF Metered
<1>2. /\ MaxRecords \in Nat /\ MaxFaults \in Nat
      /\ IdleAfter \in Nat /\ A = IdleAfter + 1
      /\ None \notin Nat
      /\ logEnd \in [Traffic -> 0..MaxRecords]
      /\ \/ first = None /\ sum = None /\ advance = None
         \/ first \in 0..A /\ sum \in Nat /\ advance \in 0..first
      /\ covered \subseteq Traffic /\ hidden \in BOOLEAN
      /\ unread \in [Traffic -> {None} \cup 0..A]
      /\ quiet \in [Traffic -> 0..A]
  BY <1>1, MeterIs
<1>3. /\ beaten \in BOOLEAN
      /\ sent \in {None, "UNSPECIFIED", "ACTIVE", "IDLE"}
      /\ faults \in 0..MaxFaults
  BY <1>1 DEF Beat!TypeOK
<1>4. 0 \in 0..A /\ \A n \in 0..A : n \in Nat
  BY <1>2
<1> HIDE DEF A
<1>5. ASSUME NEW t \in Traffic, Beat!Publish(t) PROVE Metered'
  <2>1. /\ logEnd' \in [Traffic -> 0..MaxRecords]
        /\ logEnd'[t] > 0 /\ \A u \in Traffic : u # t => logEnd'[u] = logEnd[u]
        /\ CoveredEnd \in Nat /\ CoveredEnd' \in Nat /\ CoveredEnd <= CoveredEnd'
        /\ t \in covered => CoveredEnd < CoveredEnd'
    BY <1>1, <1>5, TrafficRises
  <2>2. /\ unread' = [unread EXCEPT ![t] = 0]
        /\ UNCHANGED <<beaten, first, sum, advance, sent, covered, hidden, quiet, faults>>
    BY <1>5 DEF Beat!Publish, Beat!meter
  <2>3. /\ unread' \in [Traffic -> {None} \cup 0..A]
        /\ \A u \in Traffic : u # t => unread'[u] = unread[u]
    BY <1>2, <1>4, <2>2
  <2>4. \A u \in Traffic : unread'[u] # None => logEnd'[u] > 0
    BY <1>1, <2>1, <2>3
  <2>5. ASSUME sum # None, ~hidden
        PROVE  /\ sum <= CoveredEnd'
               /\ \A u \in covered : unread'[u] # None => sum < CoveredEnd'
    <3>1. sum \in Nat /\ sum <= CoveredEnd
      BY <1>1, <1>2, <2>5
    <3>2. ASSUME NEW u \in covered, unread'[u] # None PROVE sum < CoveredEnd'
      <4>1. CASE u = t
        BY <2>1, <3>1, <4>1
      <4>2. CASE u # t
        <5>1. sum < CoveredEnd
          BY <1>1, <1>2, <2>3, <2>5, <3>2, <4>2
        <5> QED
          BY <2>1, <3>1, <5>1
      <4> QED
        BY <4>1, <4>2
    <3> QED
      BY <2>1, <3>1, <3>2
  <2>6. Beat!TypeOK'
    BY <1>1, <2>1, <2>2, <2>3 DEF Beat!TypeOK, Beat!meter, A
  <2> QED
    BY <1>1, <2>2, <2>4, <2>5, <2>6 DEF Metered
<1>6. ASSUME NEW t \in Traffic, Beat!Recreate(t) PROVE Metered'
  <2>1. /\ logEnd' = [logEnd EXCEPT ![t] = 0]
        /\ hidden' = TRUE /\ unread' = [unread EXCEPT ![t] = None]
        /\ faults < MaxFaults /\ faults' = faults + 1
        /\ UNCHANGED <<beaten, first, sum, advance, sent, covered, quiet>>
    BY <1>6 DEF Beat!Recreate, Beat!meter
  <2>2. /\ logEnd' \in [Traffic -> 0..MaxRecords]
        /\ unread' \in [Traffic -> {None} \cup 0..A]
        /\ faults' \in 0..MaxFaults
    BY <1>2, <1>3, <2>1
  <2>3. \A u \in Traffic : unread'[u] # None => logEnd'[u] > 0
    BY <1>1, <1>2, <2>1
  <2>4. Beat!TypeOK'
    BY <1>1, <2>1, <2>2 DEF Beat!TypeOK, Beat!meter, A
  <2> QED
    BY <1>1, <2>1, <2>3, <2>4 DEF Metered
<1>7. ASSUME NEW readable \in SUBSET Traffic, Beat!Beat(readable) PROVE Metered'
  BY <1>7, BeatStep
<1>8. CASE Beat!Tick
  <2>1. /\ beaten' = FALSE
        /\ first' = Beat!Older(first) /\ advance' = Beat!Older(advance)
        /\ unread' = [t \in Traffic |-> Beat!Older(unread[t])]
        /\ quiet' = [t \in Traffic |-> Beat!Older(quiet[t])]
        /\ UNCHANGED <<logEnd, sum, sent, covered, hidden, faults>>
    BY <1>8 DEF Beat!Tick
  <2>2. /\ \A a \in 0..A : /\ Beat!Older(a) \in 0..A /\ Beat!Older(a) # None
                           /\ Beat!Older(a) = IF a < A THEN a + 1 ELSE a
        /\ Beat!Older(None) = None
    BY <1>2 DEF Beat!Older, A
  <2>3. /\ unread' \in [Traffic -> {None} \cup 0..A]
        /\ quiet' \in [Traffic -> 0..A]
    BY <1>2, <2>1, <2>2
  <2>4. \A t \in Traffic : unread'[t] # None => unread[t] # None
    BY <1>2, <2>1, <2>2
  <2>5. CoveredEnd' = CoveredEnd
    BY <2>1 DEF CoveredEnd
  <2>6. /\ \/ first' = None /\ sum' = None /\ advance' = None
           \/ first' \in 0..A /\ sum' \in Nat /\ advance' \in 0..first'
        /\ sum' # None => \A t \in Traffic : advance' <= quiet'[t]
    <3>1. CASE sum = None
      <4>1. first = None /\ advance = None
        BY <1>2, <3>1
      <4> QED
        BY <2>1, <2>2, <3>1, <4>1
    <3>2. CASE sum # None
      <4>1. first \in 0..A /\ sum \in Nat /\ advance \in 0..first
        BY <1>2, <3>2
      <4>2. advance \in 0..A
        BY <1>2, <4>1
      <4>3. /\ first' = IF first < A THEN first + 1 ELSE first
            /\ advance' = IF advance < A THEN advance + 1 ELSE advance
        BY <2>1, <2>2, <4>1, <4>2
      <4>4. first' \in 0..A /\ advance' \in 0..first'
        BY <1>2, <4>1, <4>3
      <4>5. ASSUME NEW t \in Traffic PROVE advance' <= quiet'[t]
        <5>1. quiet[t] \in 0..A /\ advance <= quiet[t]
          BY <1>1, <1>2, <3>2
        <5>2. quiet'[t] = IF quiet[t] < A THEN quiet[t] + 1 ELSE quiet[t]
          BY <2>1, <2>2, <5>1
        <5> QED
          BY <1>2, <4>2, <4>3, <5>1, <5>2
      <4> QED
        BY <2>1, <4>1, <4>4, <4>5
    <3> QED
      BY <3>1, <3>2
  <2>7. Beat!TypeOK'
    BY <1>1, <2>1, <2>3, <2>6 DEF Beat!TypeOK, Beat!meter, A
  <2>8. ASSUME sum' # None, ~hidden'
        PROVE  /\ sum' <= CoveredEnd'
               /\ \A t \in covered' : unread'[t] # None => sum' < CoveredEnd'
    BY <1>1, <1>2, <2>1, <2>4, <2>5, <2>8
  <2>9. \A t \in Traffic : unread'[t] # None => logEnd'[t] > 0
    BY <1>1, <2>1, <2>4
  <2> QED
    BY <2>6, <2>7, <2>8, <2>9 DEF Metered
<1>9. CASE UNCHANGED Beat!vars
  <2>1. /\ UNCHANGED <<logEnd, beaten, first, sum, advance, sent, faults>>
        /\ UNCHANGED <<covered, hidden, unread, quiet>>
    BY <1>9 DEF Beat!vars, Beat!meter, Beat!history
  <2>2. CoveredEnd' = CoveredEnd
    BY <2>1 DEF CoveredEnd
  <2>3. Beat!TypeOK'
    BY <1>1, <2>1 DEF Beat!TypeOK, Beat!meter
  <2> QED
    BY <1>1, <2>1, <2>2, <2>3, Zenon DEF Metered
<1> QED
  BY <1>5, <1>6, <1>7, <1>8, <1>9 DEF Beat!Next

\* Whichever topics each reading passes over, a heartbeat that says IDLE is sent
\* only when no record that a reading showed was published for a whole window
\* (TrafficMeter.observe, _probe_traffic_sum).
THEOREM IdleWasQuiet ==
    ASSUME Beat!LinkHeartbeatAssumption
    PROVE  Beat!Spec => []Metered /\ Beat!IdleIsQuiet
<1>1. Beat!Init => Metered
  <2> SUFFICES ASSUME Beat!Init PROVE Metered
    OBVIOUS
  <2>1. /\ MaxRecords \in Nat /\ MaxRecords >= 1 /\ MaxFaults \in Nat
        /\ IdleAfter \in Nat /\ Beat!AgeMax = IdleAfter + 1
    BY DEF Beat!LinkHeartbeatAssumption, Beat!AgeMax
  <2>2. /\ logEnd \in [Traffic -> 0..MaxRecords] /\ beaten = FALSE
        /\ first = None /\ sum = None /\ advance = None /\ sent = None
        /\ covered = {} /\ hidden = FALSE /\ faults = 0
        /\ unread = [t \in Traffic |-> None]
        /\ quiet = [t \in Traffic |-> Beat!AgeMax]
    BY <2>1 DEF Beat!Init
  <2>3. Beat!AgeMax \in 0..Beat!AgeMax /\ faults \in 0..MaxFaults
    BY <2>1, <2>2
  <2>4. /\ unread \in [Traffic -> {None} \cup 0..Beat!AgeMax]
        /\ quiet \in [Traffic -> 0..Beat!AgeMax]
    BY <2>2, <2>3
  <2>5. Beat!TypeOK
    BY <2>2, <2>3, <2>4 DEF Beat!TypeOK, Beat!meter
  <2> QED
    BY <2>2, <2>5 DEF Metered
<1>2. Metered /\ [Beat!Next]_Beat!vars => Metered'
  BY MeteredStep
<1>3. ASSUME Metered, Metered', [Beat!Next]_Beat!vars, ~beaten, beaten', sent' = "IDLE"
      PROVE  \A t \in Traffic : quiet'[t] > IdleAfter
  <2>1. PICK readable \in SUBSET Traffic : Beat!Beat(readable)
    <3>1. ~UNCHANGED beaten
      BY <1>3, Zenon
    <3> QED
      BY <1>3, <3>1 DEF Beat!Next, Beat!Publish, Beat!Recreate, Beat!Tick, Beat!vars
  <2> DEFINE reading == Beat!TrafficSum(readable)
  <2>2. IdleAfter \in Nat /\ None \notin Nat /\ None # "IDLE"
    BY <1>3, MeterIs DEF Metered
  <2>3. Beat!Observe(reading, "IDLE")
    BY <1>3, <2>1, <2>2 DEF Beat!Beat
  <2> HIDE DEF reading
  <2>4. sum' = reading /\ reading # None /\ ~(advance' <= IdleAfter)
    BY <2>3, ObserveIs
  <2>5. \A t \in Traffic : advance' <= quiet'[t]
    BY <1>3, <2>4 DEF Metered
  <2>6. advance' \in Nat /\ \A t \in Traffic : quiet'[t] \in Nat
    <3>1. /\ \/ first' = None /\ sum' = None /\ advance' = None
             \/ first' \in 0..Beat!AgeMax /\ sum' \in Nat /\ advance' \in 0..first'
          /\ quiet' \in [Traffic -> 0..Beat!AgeMax]
      BY <1>3 DEF Metered, Beat!TypeOK, Beat!meter
    <3> QED
      BY <2>4, <3>1
  <2> QED
    BY <2>2, <2>4, <2>5, <2>6
<1>4. Metered /\ Metered' /\ [Beat!Next]_Beat!vars =>
        [~beaten /\ beaten' /\ sent' = "IDLE"
           => \A t \in Traffic : quiet'[t] > IdleAfter]_Beat!vars
  BY <1>3
<1> QED
  BY <1>1, <1>2, <1>4, PTL DEF Beat!Spec, Beat!IdleIsQuiet
=============================================================================
