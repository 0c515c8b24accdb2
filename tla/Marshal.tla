------------------------------- MODULE Marshal -------------------------------
(***************************************************************************)
(* Tree::marshal and Tree::marshal_inner (src/src/marshal/tree.rs): the    *)
(* arena moves behind an Arc<Mutex<Arena>>; one future per node takes its  *)
(* slot out under the mutex, then either reports an opaque entry to the    *)
(* Marshaller or runs its children's futures concurrently                  *)
(* (futures_unordered), folds their entries into a BTreeMap and has the    *)
(* Marshaller install the SubtreeObject.  The first error fails the whole  *)
(* future and drops the others.                                            *)
(*                                                                         *)
(* The Marshaller is not in the source tree; after the spec (4.D) its      *)
(* `process` of a hash records the hash as present and its `process` of a  *)
(* SubtreeObject installs it and returns its digest.  Digests are          *)
(* collision-free, so the digest of a subtree object is modelled as the    *)
(* record [entries |-> its entry map].                                     *)
(***************************************************************************)
EXTENDS Naturals, Sequences, SequencesExt, FiniteSets, Functions

CONSTANTS
    Trees,        \* the trees marshalled: records [ar, root] of the Tree model
    CanFail,      \* whether Marshaller::process may fail
    MaxNodes      \* bound on the length of the arenas in Trees

VARIABLES
    arena,        \* the Arena inside the mutex
    st,           \* st[i]: the state of node i's future
    taken,        \* taken[i]: the node i's future took out of its slot
    res,          \* res[i]: the SubtreeEntry node i's future resolved to
    stored,       \* entry maps of the subtree objects installed
    noted,        \* hashes the Marshaller was told of
    outcome,      \* "running", or how marshal's future resolved
    result,       \* the ObjectHash marshal returned
    orig          \* the tree marshal was called on (history)

vars == <<arena, st, taken, res, stored, noted, outcome, result, orig>>

NoNode == [kind |-> "none"]
NoEntry == [tag |-> "none", hash |-> [leaf |-> "none"]]
Subtree(h) == [tag |-> "subtree", hash |-> h]

\* future states: not created, created and not yet polled, waiting on
\* Marshaller::process of an opaque entry, waiting on its children, resolved
States == {"unspawned", "pending", "opaque", "children", "done"}

\* Marshaller::process(SubtreeObject): the digest of the installed object
ObjectDigest(m) == [entries |-> m]

Init ==
    \E t \in Trees :
        /\ orig = t
        /\ arena = t.ar
        /\ st = [i \in DOMAIN t.ar |-> IF i = t.root THEN "pending"
                                                    ELSE "unspawned"]
        /\ taken = [i \in DOMAIN t.ar |-> NoNode]
        /\ res = [i \in DOMAIN t.ar |-> NoEntry]
        /\ stored = {}
        /\ noted = {}
        /\ outcome = "running"
        /\ result = NoEntry

\* node i's future resolves to e; the root's resolution is marshal's
\* result, `entry.hash()`
Resolve(i, e) ==
    /\ st' = [st EXCEPT ![i] = "done"]
    /\ res' = [res EXCEPT ![i] = e]
    /\ IF i = orig.root
         THEN outcome' = "ok" /\ result' = e.hash
         ELSE UNCHANGED <<outcome, result>>

\* mutant: the node is removed from the arena (Vec::remove) instead of
\* taken out of its slot
TakeRemoving(i) ==
    /\ outcome = "running"
    /\ i \in DOMAIN st
    /\ st[i] = "pending"
    /\ IF arena[i].kind = "none"
         THEN /\ outcome' = "panic"
              /\ UNCHANGED <<arena, st, taken>>
         ELSE LET nd == arena[i]
                  ch == IF nd.kind = "transparent" THEN Range(nd.children)
                                                 ELSE {}
              IN /\ arena' = RemoveAt(arena, i)
                 /\ taken' = [taken EXCEPT ![i] = nd]
                 /\ st' = [j \in DOMAIN st |->
                             CASE j = i -> IF nd.kind = "opaque"
                                             THEN "opaque" ELSE "children"
                               [] j \in ch -> "pending"
                               [] OTHER -> st[j]]
                 /\ UNCHANGED outcome
    /\ UNCHANGED <<res, stored, noted, result, orig>>

\* First poll of node i's future: `this.lock().unwrap()[node_id].take()
\* .unwrap()`.  A None slot panics.  A transparent node creates one future
\* per child and hands them to futures_unordered.
Take(i) ==
    /\ outcome = "running"
    /\ i \in DOMAIN st
    /\ st[i] = "pending"
    /\ IF arena[i].kind = "none"
         THEN /\ outcome' = "panic"
              /\ UNCHANGED <<arena, st, taken>>
         ELSE LET nd == arena[i]
                  ch == IF nd.kind = "transparent" THEN Range(nd.children)
                                                 ELSE {}
              IN /\ arena' = [arena EXCEPT ![i] = NoNode]
                 /\ taken' = [taken EXCEPT ![i] = nd]
                 /\ st' = [j \in DOMAIN st |->
                             CASE j = i -> IF nd.kind = "opaque"
                                             THEN "opaque" ELSE "children"
                               [] j \in ch -> "pending"
                               [] OTHER -> st[j]]
                 /\ UNCHANGED outcome
    /\ UNCHANGED <<res, stored, noted, result, orig>>

\* mutant: the opaque entry is passed up without being reported
ProcessOpaqueUnreported(i) ==
    /\ outcome = "running"
    /\ i \in DOMAIN st
    /\ st[i] = "opaque"
    /\ Resolve(i, taken[i].entry)
    /\ UNCHANGED <<arena, taken, stored, noted, orig>>

\* mutant: a failed process leaves its future unresolved instead of failing
\* marshal's future
ProcessOpaqueSwallowErr(i) ==
    /\ outcome = "running"
    /\ i \in DOMAIN st
    /\ st[i] = "opaque"
    /\ \/ /\ noted' = noted \cup {taken[i].entry.hash}
          /\ Resolve(i, taken[i].entry)
       \/ /\ CanFail
          /\ st' = [st EXCEPT ![i] = "opaque_failed"]
          /\ UNCHANGED <<res, noted, outcome, result>>
    /\ UNCHANGED <<arena, taken, stored, orig>>

\* `marshaller.process(subtree_entry.hash()).map(|_| subtree_entry)`; an
\* error fails marshal's future and drops every other future.
ProcessOpaque(i) ==
    /\ outcome = "running"
    /\ i \in DOMAIN st
    /\ st[i] = "opaque"
    /\ \/ /\ noted' = noted \cup {taken[i].entry.hash}
          /\ Resolve(i, taken[i].entry)
       \/ /\ CanFail
          /\ outcome' = "err"
          /\ UNCHANGED <<st, res, noted, result>>
    /\ UNCHANGED <<arena, taken, stored, orig>>

\* mutant: the subtree object is built without waiting for every child
ProcessSubtreeEarly(i) ==
    /\ outcome = "running"
    /\ i \in DOMAIN st
    /\ st[i] = "children"
    /\ LET ch == taken[i].children
           m == [n \in DOMAIN ch |-> res[ch[n]]]
       IN \/ /\ stored' = stored \cup {m}
             /\ Resolve(i, Subtree(ObjectDigest(m)))
          \/ /\ CanFail
             /\ outcome' = "err"
             /\ UNCHANGED <<st, res, stored, result>>
    /\ UNCHANGED <<arena, taken, noted, orig>>

\* futures_unordered has yielded every child's (key, entry); the fold's
\* BTreeMap is the map from each child name to that child's entry; then
\* `marshaller.process(SubtreeObject { entries })` and SubtreeEntry::Subtree.
ProcessSubtree(i) ==
    /\ outcome = "running"
    /\ i \in DOMAIN st
    /\ st[i] = "children"
    /\ LET ch == taken[i].children
           m == [n \in DOMAIN ch |-> res[ch[n]]]
       IN /\ \A n \in DOMAIN ch : st[ch[n]] = "done"
          /\ \/ /\ stored' = stored \cup {m}
                /\ Resolve(i, Subtree(ObjectDigest(m)))
             \/ /\ CanFail
                /\ outcome' = "err"
                /\ UNCHANGED <<st, res, stored, result>>
    /\ UNCHANGED <<arena, taken, noted, orig>>

Next ==
    \E i \in DOMAIN arena :
        \/ Take(i)
        \/ ProcessOpaque(i)
        \/ ProcessSubtree(i)

\* The executor polls every future that can progress, and every
\* Marshaller::process call eventually completes.
Fairness ==
    \A i \in 1..MaxNodes :
        /\ WF_vars(Take(i))
        /\ WF_vars(ProcessOpaque(i))
        /\ WF_vars(ProcessSubtree(i))

Spec == Init /\ [][Next]_vars
FairSpec == Spec /\ Fairness

-----------------------------------------------------------------------------
(* Properties *)

TypeOK ==
    /\ DOMAIN st = DOMAIN orig.ar /\ DOMAIN arena = DOMAIN orig.ar
    /\ \A i \in DOMAIN st : st[i] \in States
    /\ outcome \in {"running", "ok", "err", "panic"}

\* the entry marshal must produce for node id of arena ar: an opaque entry
\* as it is, a transparent node as the subtree object of its children's
\* entries
RECURSIVE Expected(_, _)
Expected(ar, id) ==
    IF ar[id].kind = "opaque" THEN ar[id].entry
    ELSE Subtree(ObjectDigest([n \in DOMAIN ar[id].children |->
                                 Expected(ar, ar[id].children[n])]))

\* Whatever order the node futures take their slots and complete in,
\* marshal that returns Ok returns the digest the tree determines (spec 8.7;
\* futures_unordered yields children in completion order and the BTreeMap
\* fold must make that order irrelevant).
MarshalCorrect ==
    outcome = "ok" => result = Expected(orig.ar, orig.root).hash

\* The Marshaller installs a subtree object only after every entry it names
\* was reported to it or installed: children are processed before their
\* parent, so an interrupted marshal never leaves the store with a parent
\* whose child is missing.
ChildrenFirst ==
    \A m \in stored : \A n \in DOMAIN m :
        m[n].hash \in noted \cup {ObjectDigest(x) : x \in stored}

\* marshal_inner never fails its `take().unwrap()`: every slot a node
\* future takes is still Some (spec 5: each slot is taken at most once).
NoMarshalPanic == outcome # "panic"

\* Under the executor's and the Marshaller's progress, marshal's future
\* resolves: a node never waits forever on children that cannot finish.
MarshalEnds == <>(outcome # "running")

=============================================================================
