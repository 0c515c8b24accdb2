-------------------------------- MODULE Tree --------------------------------
(***************************************************************************)
(* The editable tree of src/src/marshal/tree.rs: an arena of optional      *)
(* nodes (`Arena`), a root id, and the traversal state machine a user      *)
(* drives over it (`Tree::entry`, `VacantEntry::insert`,                   *)
(* `OccupiedEntry::{replace, remove}`, `Blocked::unblock`, `into_inner`).  *)
(* The state a user holds between calls (an `Entry` or a `Blocked`) is     *)
(* `cursor`; it owns the tree, so one traversal is in progress at a time.  *)
(*                                                                         *)
(* Names are positive naturals, ordered as `OsString`s are; node ids are   *)
(* 1-based (id i stands for `NodeId(i - 1)`).                              *)
(***************************************************************************)
EXTENDS Naturals, Sequences, SequencesExt, FiniteSets

CONSTANTS
    Names,        \* path components
    Content,      \* Content[h]: entries of the stored subtree object h
    Paths,        \* paths a user opens
    Entries,      \* entries a user inserts or replaces with
    RootEntries,  \* entries a tree may be created from (From<SubtreeEntry>)
    AllowRemove,  \* whether users call OccupiedEntry::remove
    MaxNodes      \* bound on the arena length

ASSUME Names \subseteq Nat \ {0}

VARIABLES
    arena,        \* Seq of nodes: Arena.entries
    root,         \* Tree.root
    cursor,       \* the Entry / Blocked value the user holds
    target,       \* the path that cursor was opened at (history)
    panicked      \* an assertion in tree.rs failed

vars == <<arena, root, cursor, target, panicked>>

NoName == 0

File(h) == [tag |-> "file", hash |-> h]
Subtree(h) == [tag |-> "subtree", hash |-> h]

\* Option<Node>: None, Some(Opaque(entry)), Some(Transparent(children))
NoNode == [kind |-> "none"]
Opaque(e) == [kind |-> "opaque", entry |-> e]
Transparent(m) == [kind |-> "transparent", children |-> m]

\* the user-held traversal state; "none" when the user holds the Tree itself
Cur(s, n, c, r) == [state |-> s, node |-> n, comp |-> c, rest |-> r]
NoCursor == Cur("none", 0, NoName, <<>>)

\* mutant: the id one past the pushed slot
AllocPastEnd(ar) == Len(ar) + 2

\* Arena::alloc: the id of the slot a push would create
Alloc(ar) == Len(ar) + 1

\* Tree::from(BTreeMap): one opaque node per entry, in key order, then the
\* transparent root.
FromMap(m) ==
    LET keys == SetToSortSeq(DOMAIN m, <)
        pos(n) == CHOOSE i \in 1..Len(keys) : keys[i] = n
    IN [ar |-> [i \in 1..Len(keys) |-> Opaque(m[keys[i]])]
                 \o <<Transparent([n \in DOMAIN m |-> pos(n)])>>,
        root |-> Len(keys) + 1]

\* Tree::from(SubtreeEntry)
FromEntry(e) == [ar |-> <<Opaque(e)>>, root |-> 1]

EmptyMap == [n \in {} |-> 0]

InitTrees == {FromMap(EmptyMap)} \cup {FromEntry(e) : e \in RootEntries}

\* Tree::entry_from: walk the components from node cur.
RECURSIVE Walk(_, _, _)
Walk(ar, cur, comps) ==
    IF comps = <<>> THEN Cur("occupied", cur, NoName, <<>>)
    ELSE LET c == Head(comps)
             nd == ar[cur]
         IN CASE nd.kind = "opaque" -> Cur("blocked", cur, c, Tail(comps))
              [] nd.kind = "transparent" ->
                   IF c \in DOMAIN nd.children
                     THEN Walk(ar, nd.children[c], Tail(comps))
                     ELSE Cur("vacant", cur, c, Tail(comps))
              [] nd.kind = "none" -> Cur("vacant", cur, NoName, Tail(comps))

\* The loop of VacantEntry::insert: a chain of fresh transparent nodes for
\* the remaining components, ended by the opaque entry.
RECURSIVE Chain(_, _, _, _)
Chain(ar, cur, rest, e) ==
    IF rest = <<>>
      THEN [ar |-> [ar EXCEPT ![cur] = Opaque(e)], cur |-> cur]
      ELSE LET n == Alloc(ar)
           IN Chain([Append(ar, NoNode) EXCEPT ![cur] =
                       Transparent(Head(rest) :> n)],
                    n, Tail(rest), e)

\* mutant: the subtree's slots appended without shifting its ids
AppendTreeUnshifted(ar, sub) ==
    [ar |-> ar \o sub.ar, root |-> sub.root + Len(ar)]

\* Tree::append: the subtree's slots after ours, its ids shifted.
AppendTree(ar, sub) ==
    LET off == Len(ar)
        shift(nd) == IF nd.kind = "transparent"
                       THEN Transparent([n \in DOMAIN nd.children |->
                                           nd.children[n] + off])
                       ELSE nd
    IN [ar |-> ar \o [i \in DOMAIN sub.ar |-> shift(sub.ar[i])],
        root |-> sub.root + off]

\* the ids the transparent nodes among ids S name
ChildIds(ar, S) ==
    UNION {Range(ar[i].children) :
             i \in {j \in S \cap DOMAIN ar : ar[j].kind = "transparent"}}

\* ids reachable from r through transparent maps (k more hops)
RECURSIVE ReachIn(_, _, _)
ReachIn(ar, S, k) ==
    IF k = 0 THEN S ELSE ReachIn(ar, S \cup ChildIds(ar, S), k - 1)

Reachable(ar, r) == ReachIn(ar, {r}, Len(ar))

Init ==
    /\ \E t \in InitTrees : arena = t.ar /\ root = t.root
    /\ cursor = NoCursor
    /\ target = <<>>
    /\ panicked = FALSE

\* Tree::entry(path)
Entry(p) ==
    /\ ~panicked
    /\ cursor.state = "none"
    /\ cursor' = Walk(arena, root, p)
    /\ target' = p
    /\ UNCHANGED <<arena, root, panicked>>

\* mutant: the parent's map replaced by a fresh one-entry map
SpliceFresh(p, c, id) == Transparent(c :> id)

\* The parent of a vacant entry after VacantEntry::insert has linked the
\* fresh node id under name c: added to its map, or, for a None slot, a new
\* transparent node with that one entry.
Splice(p, c, id) ==
    IF p.kind = "transparent"
      THEN Transparent((c :> id) @@ p.children)
      ELSE Transparent(c :> id)

\* VacantEntry::insert on the vacant entry c of arena ar: the new arena
\* and the id of the inserted entry.  An immediate component is spliced into
\* the parent's map; a vacant entry without one fills its own slot.
InsertVacant(ar, c, e) ==
    IF c.comp = NoName
      THEN Chain(ar, c.node, c.rest, e)
      ELSE Chain([Append(ar, NoNode) EXCEPT
                    ![c.node] = Splice(ar[c.node], c.comp, Alloc(ar))],
                 Alloc(ar), c.rest, e)

\* Path::cmp: component-wise lexicographic order
PathLess(a, b) ==
    \E i \in 0..Len(a) :
        /\ i <= Len(b)
        /\ SubSeq(a, 1, i) = SubSeq(b, 1, i)
        /\ IF i = Len(a) THEN Len(b) > i
                         ELSE i < Len(b) /\ a[i + 1] < b[i + 1]

\* from_iter's sort_unstable_by on the path: every order in which no pair
\* comes after one with a smaller path; pairs with equal paths may come in
\* either order (the sort is unstable)
RECURSIVE SortsByPath(_)
SortsByPath(kvs) ==
    IF kvs = {} THEN {<<>>}
    ELSE UNION {{<<m>> \o s : s \in SortsByPath(kvs \ {m})} :
                  m \in {x \in kvs : \A y \in kvs : ~PathLess(y[1], x[1])}}

\* the one order when the paths are distinct
SortByPath(kvs) == CHOOSE s \in SortsByPath(kvs) : TRUE

\* mutant: from_iter matches only Vacant and panics on anything else
FromIterStepNoReplace(t, kv) ==
    LET w == Walk(t.ar, t.root, kv[1])
    IN IF w.state = "vacant"
         THEN [ar |-> InsertVacant(t.ar, w, kv[2]).ar, root |-> t.root]
         ELSE [ar |-> t.ar, root |-> 0]

\* one iteration of from_iter's loop: entry(key), then insert or replace;
\* a Blocked result panics ("Insertion blocked: bad subtree!"), which
\* yields the tree with root 0.
FromIterStep(t, kv) ==
    LET w == Walk(t.ar, t.root, kv[1])
    IN CASE w.state = "vacant" ->
              [ar |-> InsertVacant(t.ar, w, kv[2]).ar, root |-> t.root]
         [] w.state = "occupied" ->
              [ar |-> [t.ar EXCEPT ![w.node] = Opaque(kv[2])], root |-> t.root]
         [] w.state = "blocked" -> [ar |-> t.ar, root |-> 0]

\* from_iter's loop over the sorted pairs, from Tree::from(BTreeMap::new())
FromIterSorted(s) ==
    FoldLeft(LAMBDA t, kv : IF t.root = 0 THEN t ELSE FromIterStep(t, kv),
             FromMap(EmptyMap), s)

\* Tree::from_iter over a set of (path, entry) pairs with distinct paths
FromIter(kvs) == FromIterSorted(SortByPath(kvs))

\* Tree::from_iter: the trees it may build, one for each order the
\* unstable sort may leave pairs with equal paths in
FromIterOutcomes(kvs) == {FromIterSorted(s) : s \in SortsByPath(kvs)}

\* the (path, entry) pairs IntoIter::next yields from node id at path p
RECURSIVE Items(_, _, _)
Items(ar, id, p) ==
    IF ar[id].kind = "opaque" THEN {<<p, ar[id].entry>>}
    ELSE UNION {Items(ar, ar[id].children[n], Append(p, n)) :
                  n \in DOMAIN ar[id].children}

\* Tree::into_iter: the set of pairs it yields, or a panic when a reachable
\* slot is None (the `take().unwrap()` of IntoIter::next).
IntoIter(t) ==
    IF t.root = 0 \/ \E i \in Reachable(t.ar, t.root) : t.ar[i].kind = "none"
      THEN [panicked |-> TRUE, items |-> {}]
      ELSE [panicked |-> FALSE, items |-> Items(t.ar, t.root, <<>>)]

\* The `Some(_) => panic!` arm needs a vacant entry at an opaque node,
\* which entry_from never makes.
Insert(e) ==
    /\ ~panicked
    /\ cursor.state = "vacant"
    /\ arena[cursor.node].kind # "opaque"
    /\ LET res == InsertVacant(arena, cursor, e)
       IN /\ Len(res.ar) <= MaxNodes
          /\ arena' = res.ar
          /\ cursor' = Cur("occupied", res.cur, NoName, <<>>)
    /\ UNCHANGED <<root, target, panicked>>

\* OccupiedEntry::replace
Replace(e) ==
    /\ ~panicked
    /\ cursor.state = "occupied"
    /\ arena' = [arena EXCEPT ![cursor.node] = Opaque(e)]
    /\ UNCHANGED <<root, cursor, target, panicked>>

\* OccupiedEntry::remove: take the slot, assert it was Some, and become a
\* vacant entry at the same id.  The parent's map keeps the id.
RemoveEntry ==
    /\ ~panicked
    /\ AllowRemove
    /\ cursor.state = "occupied"
    /\ IF arena[cursor.node].kind = "none"
         THEN /\ panicked' = TRUE
              /\ UNCHANGED <<arena, cursor>>
         ELSE /\ arena' = [arena EXCEPT ![cursor.node] = NoNode]
              /\ cursor' = Cur("vacant", cursor.node, NoName, <<>>)
              /\ UNCHANGED panicked
    /\ UNCHANGED <<root, target>>

\* Blocked::object_hash: the hash of the opaque entry the walk stopped at
\* (the blocking slot always holds one, so its panic arm is unreachable)
BlockedObjectHash(ar, c) == ar[c.node].entry.hash

\* mutant: the walk resumes with the rest of the path only, losing the
\* component that blocked
UnblockDropComp ==
    /\ ~panicked
    /\ cursor.state = "blocked"
    /\ LET e == arena[cursor.node].entry
           g == AppendTree(arena, FromMap(Content[BlockedObjectHash(arena, cursor)]))
           grafted == [g.ar EXCEPT ![cursor.node] = g.ar[g.root],
                                   ![g.root] = NoNode]
       IN /\ e.tag = "subtree"
          /\ Len(g.ar) <= MaxNodes
          /\ arena' = grafted
          /\ cursor' = Walk(grafted, cursor.node, cursor.rest)
    /\ UNCHANGED <<root, target, panicked>>

\* Blocked::unblock, called with the tree the user builds from the blocking
\* subtree object (Tree::from of its entries): graft it at the blocking id
\* and resume the walk with the blocked component.  A file entry blocks
\* too; its object is no subtree, so the user can only give the tree back.
Unblock ==
    /\ ~panicked
    /\ cursor.state = "blocked"
    /\ LET e == arena[cursor.node].entry
           g == AppendTree(arena, FromMap(Content[BlockedObjectHash(arena, cursor)]))
           grafted == [g.ar EXCEPT ![cursor.node] = g.ar[g.root],
                                   ![g.root] = NoNode]
       IN /\ e.tag = "subtree"
          /\ Len(g.ar) <= MaxNodes
          /\ arena' = grafted
          /\ cursor' = Walk(grafted, cursor.node,
                            <<cursor.comp>> \o cursor.rest)
    /\ UNCHANGED <<root, target, panicked>>

\* into_inner of an Entry or a Blocked: the user holds the Tree again.
IntoInner ==
    /\ ~panicked
    /\ cursor.state # "none"
    /\ cursor' = NoCursor
    /\ target' = <<>>
    /\ UNCHANGED <<arena, root, panicked>>

Next ==
    \/ \E p \in Paths : Entry(p)
    \/ \E e \in Entries : Insert(e) \/ Replace(e)
    \/ RemoveEntry
    \/ Unblock
    \/ IntoInner

Spec == Init /\ [][Next]_vars


-----------------------------------------------------------------------------
(* Properties *)

AllEntries == Entries \cup RootEntries
                \cup UNION {Range(Content[h]) : h \in DOMAIN Content}

IsNode(nd) ==
    \/ nd = NoNode
    \/ nd \in {Opaque(e) : e \in AllEntries}
    \/ /\ DOMAIN nd = {"kind", "children"}
       /\ nd.kind = "transparent"
       /\ DOMAIN nd.children \subseteq Names
       /\ Range(nd.children) \subseteq Nat \ {0}

TypeOK ==
    /\ \A i \in DOMAIN arena : IsNode(arena[i])
    /\ Len(arena) <= MaxNodes
    /\ root \in DOMAIN arena
    /\ cursor.state \in {"none", "occupied", "vacant", "blocked"}
    /\ cursor.state # "none" => cursor.node \in DOMAIN arena
    /\ cursor.comp \in Names \cup {NoName}
    /\ panicked \in BOOLEAN

\* the pure operators of the path map (Expand)
PMOps == INSTANCE PathMap WITH files <- {}, at <- <<>>, InitFiles <- {}

\* The files the tree denotes: what Tree::into_iter yields, with every
\* subtree entry expanded by the object store's content.  A None slot
\* denotes nothing.
RECURSIVE Denote(_, _, _)
Denote(ar, id, p) ==
    CASE ar[id].kind = "none" -> {}
      [] ar[id].kind = "opaque" -> PMOps!Expand(ar[id].entry, p)
      [] ar[id].kind = "transparent" ->
           UNION {Denote(ar, ar[id].children[n], Append(p, n)) :
                    n \in DOMAIN ar[id].children}

PM == INSTANCE PathMap
        WITH files <- Denote(arena, root, <<>>),
             at <- target,
             InitFiles <- {Denote(t.ar, t.root, <<>>) : t \in InitTrees}

\* The arena stays a tree under entry, insert, replace, remove and the
\* graft of unblock/append: every id a reachable transparent node names is
\* a slot of the arena, no two map entries name the same id, and none names
\* the root.  A wrong offset in Tree::append, or a reused id in
\* Arena::alloc, shares or loops nodes.
TreeShaped ==
    LET R == Reachable(arena, root)
        T == {i \in R : arena[i].kind = "transparent"}
        edges == UNION {{<<i, n>> : n \in DOMAIN arena[i].children} : i \in T}
        tgt(x) == arena[x[1]].children[x[2]]
    IN /\ \A x \in edges : tgt(x) \in DOMAIN arena /\ tgt(x) # root
       /\ \A x, y \in edges : x # y => tgt(x) # tgt(y)

\* Traversal, insertion, replacement, removal and unblocking implement the
\* path map the tree denotes: opening a path, putting an entry there,
\* deleting what is there, and grafting a fetched subtree (which changes
\* nothing the tree denotes).
Refinement == PM!Spec

=============================================================================
