---------------------------- MODULE MCLevelStore ----------------------------
(* Two threads, two objects where d2 references d1 (a parent and a child), *)
(* copy numbers enough for every strong and weak reference at once.       *)
EXTENDS LevelStore

MCRefs == [d \in Digests |-> IF d = "d2" THEN {"d1"} ELSE {}]

\* map entry, two locals and loaded content per thread, and a weak slot
MCMaxCopies == 2 + 3 * Cardinality(Threads)
=============================================================================
