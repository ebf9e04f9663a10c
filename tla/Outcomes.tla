------------------------------- MODULE Outcomes -------------------------------
(***************************************************************************)
(* What the effector tables promise a reader about a round or a munition,  *)
(* whatever instances, sweeps, replays and faults do to the statements     *)
(* that write them.  Its row stays; it goes from in flight to a result     *)
(* that was reported of it, with or without an inference in between, and   *)
(* says whether there was one; that result is final.  The owner of a       *)
(* munition is given once, from a Fire that names it.                      *)
(*                                                                         *)
(* Nothing is promised about the two tables together: a round may be over  *)
(* while its munition is in flight, and the other way round.               *)
(***************************************************************************)
CONSTANTS Rounds, Munitions, Results, None

VARIABLES
    outcome,   \* by round and munition: what its row says of its end
    owner,     \* by munition: the round its track is labelled by
    reports,   \* by round and munition: the results reported of it
    fires      \* by munition: the rounds whose Fire names it

vars == <<outcome, owner, reports, fires>>
Rows == Rounds \cup Munitions

Unseen == [state |-> "unseen", result |-> None, late |-> FALSE]
Flying == [state |-> "flight", result |-> None, late |-> FALSE]
GivenUp == [state |-> "inferred", result |-> None, late |-> FALSE]
Ended(r, late) == [state |-> "real", result |-> r, late |-> late]

Init ==
    /\ outcome = [x \in Rows |-> Unseen]
    /\ owner = [m \in Munitions |-> None]
    /\ reports \in [Rows -> SUBSET Results]
    /\ fires \in [Munitions -> SUBSET Rounds]

\* Of the munitions in S, those without an owner may get one.
Label(S) ==
    /\ owner' \in [Munitions -> Rounds \cup {None}]
    /\ \A m \in Munitions : owner'[m] # owner[m] =>
          m \in S /\ owner[m] = None /\ owner'[m] \in fires[m]

Heal ==
    /\ UNCHANGED <<outcome, reports, fires>>
    /\ Label({m \in Munitions : outcome[m] # Unseen})

\* A first row; a launch may tell which munition a report was about.
Open(x) ==
    /\ outcome[x] = Unseen
    /\ outcome' = [outcome EXCEPT ![x] = Flying]
    /\ Label({x})
    /\ reports' \in [Rows -> SUBSET Results]
    /\ \A y \in Rows : reports[y] \subseteq reports'[y]
    /\ UNCHANGED fires

\* A sweep gives up on any number of rows in flight.
GiveUp ==
    /\ \E S \in SUBSET {x \in Rows : outcome[x] = Flying} :
         outcome' = [x \in Rows |-> IF x \in S THEN GivenUp ELSE outcome[x]]
    /\ UNCHANGED <<owner, reports, fires>>

\* One row takes a result that was reported of it.
End(x) ==
    /\ \/ /\ outcome[x] = Flying
          /\ \E r \in reports[x] : outcome' = [outcome EXCEPT ![x] = Ended(r, FALSE)]
       \/ /\ outcome[x] = GivenUp
          /\ \E r \in reports[x] : outcome' = [outcome EXCEPT ![x] = Ended(r, TRUE)]
    /\ Label({x})
    /\ UNCHANGED <<reports, fires>>

Next ==
    \/ Heal
    \/ GiveUp
    \/ \E x \in Rows : Open(x) \/ End(x)

Spec == Init /\ [][Next]_vars

-----------------------------------------------------------------------------
(* What follows for a reader.                                               *)

TypeOK ==
    /\ outcome \in [Rows -> {Unseen, Flying, GivenUp}
                            \cup {Ended(r, late) : r \in Results, late \in BOOLEAN}]
    /\ owner \in [Munitions -> Rounds \cup {None}]
    /\ reports \in [Rows -> SUBSET Results]

\* A row ends with a result that was reported of it; a label is of a Fire that
\* names the munition, and is there only with the row.
OwnOutcomes ==
    /\ \A x \in Rows : outcome[x].state = "real" => outcome[x].result \in reports[x]
    /\ \A m \in Munitions : owner[m] # None => owner[m] \in fires[m] /\ outcome[m] # Unseen

\* A reader who saw an end, a late mark or a label never sees another; an
\* inference is taken back by a result only, and a row by nothing.
Kept ==
    /\ \A x \in Rows :
         /\ outcome[x].state = "real" => outcome'[x] = outcome[x]
         /\ outcome[x] = GivenUp =>
              outcome'[x] = GivenUp \/ \E r \in Results : outcome'[x] = Ended(r, TRUE)
         /\ outcome[x] = Flying => outcome'[x] # Unseen
    /\ \A m \in Munitions : owner[m] # None => owner'[m] = owner[m]

\* No step of the tables takes anything back.
WriteOnce == [][Kept]_vars
=============================================================================
