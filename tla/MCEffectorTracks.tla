--------------------------- MODULE MCEffectorTracks ---------------------------
(* Instances of EffectorTracks for TLC. *)
EXTENDS EffectorTracks, TLC

CONSTANTS i1, i2, l1, m1, m2, e1, e2, t1, t2, r1, r2

Fire(e, m, at) == [type |-> "fire", event |-> e, launcher |-> l1,
                   munition |-> m, at |-> at]
Detonation(e, m, r) == [type |-> "detonation", event |-> e, munition |-> m,
                        result |-> r]
Resupply(e, lines) == [type |-> "resupply", event |-> e, launcher |-> l1,
                       lines |-> lines]
At(m, t) == [munition |-> m, at |-> t]

\* Two Fires that name one munition around a detonation that names none.
SharedMunition == {<<Fire(e1, m1, 0), Detonation(e1, None, r1), Fire(e2, m1, 1)>>}

\* A detonation that comes a second time with another result.
Conflicting == {<<Fire(e1, m1, 0), Detonation(e1, m1, r1), Detonation(e1, m1, r2)>>}

RaceLogs == SharedMunition \cup Conflicting

\* Samples of one munition, out of order.
OneMunition == {<<At(m1, 1), At(m1, 0)>>}

\* Two rounds in flight at once, the second fired without a munition.
TwoRounds == {<<Fire(e1, m1, 0), Detonation(e1, m1, r1), Fire(e2, None, 0)>>,
              <<Fire(e1, m1, 0), Fire(e2, m2, 0), Detonation(e2, None, r1)>>}
TwoMunitions == {<<At(m2, 0), At(m1, 0)>>, <<At(m1, 0), At(m1, 1)>>}

\* Resupplies with two lines and with none, around a round.
Resupplies == {<<Fire(e1, m1, 0), Resupply(e2, {t1, t2}), Resupply(e1, {}),
                 Detonation(e1, m1, r1)>>}

RoundsAndResupplies == TwoRounds \cup Resupplies

OneRound == {<<Fire(e1, m1, 0), Detonation(e1, m1, r1)>>}
OneSample == {<<At(m1, 0)>>}

Interchangeable == Permutations(Instances)
=============================================================================
