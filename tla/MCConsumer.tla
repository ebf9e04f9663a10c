------------------------------ MODULE MCConsumer ------------------------------
(* Instances of Consumer for TLC. *)
EXTENDS Consumer

Msg(k, r, kind) == [key |-> k, row |-> r, kind |-> kind]

CONSTANTS k1, k2

\* Keys name rows one to one, as on every topic keyed by its asset.
KeyedMessages == {Msg(k1, k1, "write"), Msg(k2, k2, "write"),
                  Msg(k1, k1, "undecodable")}

\* A topic of a handler with its own I/O: a removal that may find no row, and
\* a message Postgres refuses.
CustomMessages == {Msg(k1, k1, "write"), Msg(k2, k1, "update"),
                   Msg(k2, k2, "rejected")}

\* Event ids as rows, and a producer that may send one twice.
EventMessages == {Msg(k1, r, "write") : r \in Rows} \cup {Msg(k2, k2, "ignored")}

\* A topic whose row key is not its message key (asset_correlation: the
\* serial on asset-declarations).
MiskeyedMessages == {Msg(k1, k1, "write"), Msg(k2, k1, "write")}

\* A key with several rows: the classes of a region on the rollup topics, the
\* layers of an asset, or every message that has no key.
RollupMessages == {Msg(k1, k1, "write"), Msg(k1, k2, "write")}

\* A message of a key whose exception escapes, before and after good ones.
PoisonedMessages == {Msg(k1, k1, "write"), Msg(k1, k1, "escapes")}

Upsert == {[mode |-> "upsert", topic |-> KeyedMessages]}
Custom == {[mode |-> "custom", topic |-> CustomMessages]}
Appended == {[mode |-> "append", topic |-> EventMessages]}
Miskeyed == {[mode |-> "upsert", topic |-> MiskeyedMessages]}
Rollup == {[mode |-> "upsert", topic |-> RollupMessages]}
Poisoned == {[mode |-> "upsert", topic |-> PoisonedMessages]}
EveryMode ==
    Upsert \cup Custom \cup Appended \cup Miskeyed \cup Rollup \cup Poisoned
=============================================================================
