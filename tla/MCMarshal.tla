------------------------------ MODULE MCMarshal ------------------------------
(* Marshal run on the trees Tree::from_iter builds from every prefix-free  *)
(* set of paths of up to two components over two names (top-level paths   *)
(* carry a stored subtree entry, deeper ones a file entry), on a tree      *)
(* created from a file entry, and, for the dangling-id question, on trees  *)
(* after OccupiedEntry::remove.                                            *)
EXTENDS Marshal, SequencesExt

TreeNames == {1, 2, 3}

T == INSTANCE Tree
       WITH Names <- TreeNames, Content <- [h \in {} |-> 0], Paths <- {},
            Entries <- {}, RootEntries <- {}, AllowRemove <- FALSE,
            MaxNodes <- 0, arena <- <<>>, root <- 0, cursor <- <<>>,
            target <- <<>>, panicked <- FALSE

FileHash == [leaf |-> "a"]
StoredHash == [leaf |-> "b"]

EntryAt(p) == IF Len(p) = 1 THEN T!Subtree(StoredHash) ELSE T!File(FileHash)

TreePaths == {<<n>> : n \in TreeNames} \cup (TreeNames \X TreeNames)

PrefixFree(P) == \A a, b \in P : a # b => ~IsPrefix(a, b)

Built == {T!FromIter({<<p, EntryAt(p)>> : p \in P}) :
            P \in {Q \in SUBSET TreePaths : PrefixFree(Q)}}

MCTrees == Built \cup {T!FromEntry(T!File(FileHash))}

\* Tree::entry(p) on t, then OccupiedEntry::remove and into_inner
Removed(t, p) ==
    [ar |-> [t.ar EXCEPT ![T!Walk(t.ar, t.root, p).node] = NoNode],
     root |-> t.root]

MCRemovedTrees ==
    {Removed(T!FromIter({<<<<1, 1>>, T!File(FileHash)>>,
                          <<<<1, 2>>, T!File(FileHash)>>}), <<1, 1>>)}
=============================================================================
