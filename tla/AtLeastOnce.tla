----------------------------- MODULE AtLeastOnce -----------------------------
(***************************************************************************)
(* What a consumer worker promises its topic and its table, whatever it    *)
(* does with batches, retries, crashes and redelivery: the committed       *)
(* prefix of the topic is closed.  Nothing behind the committed offset is  *)
(* judged or written again, and the offset moves only over messages that   *)
(* are settled and, where they were written, still shown.                  *)
(*                                                                         *)
(* Ahead of the committed offset everything is allowed: messages may be    *)
(* written any number of times and in any order, and rows may go back.     *)
(***************************************************************************)
EXTENDS Naturals, Sequences

CONSTANTS Rows, Mappings, MaxLog

VARIABLES
    mapping,    \* the mapping the worker serves
    log,        \* the partition: a sequence of messages
    committed,  \* last offset committed to the consumer group
    row,        \* the table: offset of the message each row holds, 0 if absent
    fate        \* what became of each offset when last delivered

vars == <<mapping, log, committed, row, fate>>

Offsets == 1..MaxLog
Ahead == committed + 1 .. Len(log)
PassedOver == {"superseded", "discarded"}
Unwritten == {"skipped", "swallowed", "aborted"}
Final == Unwritten \cup {"written", "discarded"}

SameKey(o, p) == log[o].key = log[p].key

\* Two keys never write one row of an upsert topic, so that coalescing and
\* its order cannot matter.
Ordered ==
    mapping.mode = "upsert" =>
        \A m, n \in mapping.topic : m.row = n.row => m.key = n.key

\* o is behind us for good, or a later one of its key among the first n is.
Settled(o, n) ==
    \/ fate[o] \in Final
    \/ /\ fate[o] = "superseded"
       /\ \E p \in o + 1 .. n : SameKey(o, p) /\ fate[p] \in Final

\* A written message is in its row, or a later one is; on an append table a
\* row is there.
Shown(o) ==
    fate[o] = "written" =>
        IF mapping.mode = "append"
        THEN row[log[o].row] # 0
        ELSE Ordered => row[log[o].row] >= o

Init ==
    /\ mapping \in Mappings
    /\ log = <<>>
    /\ committed = 0
    /\ row = [r \in Rows |-> 0]
    /\ fate = [o \in Offsets |-> "none"]

Produce(m) ==
    /\ Len(log) < MaxLog
    /\ log' = Append(log, m)
    /\ UNCHANGED <<mapping, committed, row, fate>>

\* Messages ahead are passed over, without a trace in the table.
PassOver ==
    /\ \A o \in Offsets : fate'[o] # fate[o] => o \in Ahead /\ fate'[o] \in PassedOver
    /\ UNCHANGED <<mapping, log, committed, row>>

\* A message ahead ends without a write.
Miss(o) ==
    /\ \E v \in Unwritten : fate' = [fate EXCEPT ![o] = v]
    /\ UNCHANGED <<mapping, log, committed, row>>

\* A message ahead, if it can be written at all, is written: an append keeps
\* the row that is there.
Apply(o) ==
    /\ log[o].kind \in {"write", "update"}
    /\ row' = [row EXCEPT ![log[o].row] =
                  IF mapping.mode = "append" /\ @ # 0 THEN @ ELSE o]
    /\ fate' = [fate EXCEPT ![o] = "written"]
    /\ UNCHANGED <<mapping, log, committed>>

\* The committed offset moves on over what is settled and shown.
Commit(n) ==
    /\ \A o \in 1..n : Settled(o, n) /\ Shown(o)
    /\ committed' = n
    /\ UNCHANGED <<mapping, log, row, fate>>

Next ==
    \/ \E m \in mapping.topic : Produce(m)
    \/ PassOver
    \/ \E o \in Ahead : Miss(o) \/ Apply(o)
    \/ \E n \in Ahead : Commit(n)

Spec == Init /\ [][Next]_vars
=============================================================================
