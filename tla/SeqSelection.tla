---------------------------- MODULE SeqSelection -----------------------------
(***************************************************************************)
(* Array.prototype.filter and splice, as the queues and the model cache of *)
(* the agent use them.  In closed form: the proofs reason about them.      *)
(***************************************************************************)
EXTENDS Naturals, Sequences, FiniteSets

\* How many of the places are not after i.
Rank(i, places) == Cardinality({j \in places : j <= i})

\* filter: the items at some of the places, in their order.
ItemsAt(items, places) ==
  [k \in 1 .. Cardinality(places) |-> items[CHOOSE i \in places : Rank(i, places) = k]]

\* splice(i, 1): all but one.
Without(items, i) == SubSeq(items, 1, i - 1) \o SubSeq(items, i + 1, Len(items))
=============================================================================
