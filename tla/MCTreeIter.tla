----------------------------- MODULE MCTreeIter -----------------------------
(* The round trip of Tree::from_iter and Tree::into_iter (the quickcheck   *)
(* test `from_and_into_iter`) over every prefix-free set of paths of up   *)
(* to two components over three names, each path carrying the test's file *)
(* entry, and the same sets with one path listed a second time with       *)
(* another entry, which the test discards.  The input is the state, a set *)
(* of (path, entry) pairs, so TLC checks one input per state.             *)
EXTENDS Naturals, Sequences, SequencesExt, FiniteSets

CONSTANTS Names, MaxLen

VARIABLE input

Ops == INSTANCE Tree
         WITH Content <- [h \in {} |-> 0], Paths <- {}, Entries <- {},
              RootEntries <- {}, AllowRemove <- FALSE, MaxNodes <- 0,
              arena <- <<>>, root <- 0, cursor <- <<>>, target <- <<>>,
              panicked <- FALSE

\* SubtreeEntry::File(ObjectHash::zero(), 0)
ZeroFile == Ops!File("zero")

AllPaths == UNION {[1..k -> Names] : k \in 1..MaxLen}

\* the test keeps only inputs where no path is a prefix of another
PrefixFree(P) == \A a, b \in P : a # b => ~IsPrefix(a, b)

\* a second file entry, for a path given twice
OtherFile == Ops!File("other")

PathsOf(kvs) == {kv[1] : kv \in kvs}

Init ==
    input \in UNION {{{<<p, ZeroFile>> : p \in P} \cup D :
                       D \in {{}} \cup {{<<q, OtherFile>>} : q \in P}} :
                     P \in {P \in SUBSET AllPaths : PrefixFree(P)}}

Next == UNCHANGED input

Spec == Init /\ [][Next]_input

\* Building a tree from distinct, prefix-free leaf paths and iterating it
\* yields exactly those paths with their entries, without panicking
\* (spec 8.6; the quickcheck test from_and_into_iter).
RoundTrip ==
    Cardinality(PathsOf(input)) = Cardinality(input) =>
        Ops!IntoIter(Ops!FromIter(input)) = [panicked |-> FALSE, items |-> input]

\* With a path given twice, whatever order sort_unstable_by leaves the two
\* pairs in, from_iter does not panic (the second finds the first Occupied
\* and replaces it), and into_iter yields every path exactly once, with
\* one of the entries it was given.
DuplicateOneWins ==
    \A t \in Ops!FromIterOutcomes(input) :
        LET r == Ops!IntoIter(t)
        IN /\ ~r.panicked
           /\ r.items \subseteq input
           /\ PathsOf(r.items) = PathsOf(input)
           /\ Cardinality(r.items) = Cardinality(PathsOf(input))
=============================================================================
