-------------------------- MODULE MCMemoryEvolution --------------------------
(* One content that adds or refines f and h, contradicts what is known of g, and *)
(* replaces the relation between f and h.                                        *)
EXTENDS MemoryEvolution

CONSTANTS f, g, h

MCFacts == {f, g, h}
notes == [facts |-> MCFacts, replaces |-> {g}, links |-> {<<f, h>>}, relinks |-> {<<f, h>>}]
MCUnreadable == [facts |-> {}, replaces |-> {}, links |-> {}, relinks |-> {}]
MCContents == {notes, MCUnreadable}
==============================================================================
