---------------------------- MODULE MCElementState ----------------------------
(* Instances of ElementState for TLC. *)
EXTENDS ElementState

CONSTANTS array, cell, u1, u2

\* The cell is a part of the array; a third path has no parent.
Below == [p \in Paths |-> IF p = cell THEN {array} ELSE {}]

Obs(v, h) == [value |-> v, health |-> h]
Envelope(top, part) == [p \in Paths |-> IF p = cell THEN part ELSE top]

\* The deadband is 2, the one limit 2, the hysteresis 1.  From one envelope to
\* another only the band changes, only the value, both or neither; a value leaves
\* the last one seen but not the last one written; a health is within the
\* hysteresis and past it; and one envelope leaves the array out.
OneLimit == <<2>>
Steps == {Envelope(Obs(0, 3), part) : part \in {Obs(0, 3), Obs(1, 0), Obs(2, 1)}}
         \cup {Envelope(None, Obs(0, 3))}

\* The row of the array, as an older version left it.
OldRows == {[p \in Paths |-> IF p = array THEN [value |-> 0, band |-> 1, window |-> 0]
                             ELSE None]}
=============================================================================
