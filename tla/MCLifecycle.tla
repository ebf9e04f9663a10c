------------------------------ MODULE MCLifecycle ------------------------------
(* Instances of Lifecycle for TLC. *)
EXTENDS Lifecycle

CONSTANTS a1, a2

Rec(kinematics, field, failed, dis, sample) ==
    [kinematics |-> kinematics, field |-> field, failed |-> failed,
     dis |-> dis, sample |-> sample]

Entity == Rec(TRUE, None, FALSE, TRUE, 0)
LateEntity == Rec(TRUE, None, FALSE, TRUE, 1)
DisDestroyed == Rec(TRUE, None, TRUE, TRUE, 0)
UnitFault == Rec(TRUE, None, TRUE, FALSE, 0)
Deactivated == Rec(TRUE, "deactivated", FALSE, TRUE, 1)
Removal == Rec(FALSE, "removed", FALSE, TRUE, None)
Condemned == Rec(FALSE, "destroyed", FALSE, TRUE, None)
Unsampled == Rec(TRUE, None, FALSE, FALSE, None)

Records == {Entity, DisDestroyed, UnitFault, Deactivated, Removal, Condemned, Unsampled}

\* Histories of three records, and the shorter ones as their prefixes.
Histories == [1..3 -> Records]

\* An asset that ends by a removal.
EndingHistories == {<<Entity, Removal>>}

\* A destroyed entity that goes on transmitting.
AfterDestruction == {<<Entity, DisDestroyed, LateEntity>>}

\* A destroyed entity whose last record says deactivated.
TwoClaims == {<<DisDestroyed, Deactivated>>}

\* An asset whose producer sends no sample_time.
OnlyUnsampled == {<<Unsampled>>}
=============================================================================
