------------------------------- MODULE PathMap -------------------------------
(***************************************************************************)
(* What an editable tree promises its user: it denotes a finite map from   *)
(* file paths to file entries.  A user opens a path (`Tree::entry`), then  *)
(* puts an entry there (`insert` on a vacant entry, `replace` on an        *)
(* occupied one), deletes what is there (`remove`), and closes it          *)
(* (`into_inner`).  A subtree entry stands for the files of the subtree    *)
(* object it names, whose content the store holds.                         *)
(***************************************************************************)
EXTENDS Sequences, SequencesExt

CONSTANTS
    Names,       \* path components
    Content,     \* Content[h]: the entries of stored subtree object h
    Paths,       \* the paths users open (non-empty)
    Entries,     \* the entries users put
    InitFiles    \* the maps a tree can denote when it is created

VARIABLES
    files,       \* set of <<path, file entry>> pairs
    at           \* the path of the entry in hand, <<>> when none is

\* All the files a subtree entry e placed at path p stands for.
RECURSIVE Expand(_, _)
Expand(e, p) ==
    IF e.tag = "file"
      THEN {<<p, e>>}
      ELSE UNION {Expand(Content[e.hash][n], Append(p, n)) :
                    n \in DOMAIN Content[e.hash]}

\* the files that are not at or below path p
Outside(fs, p) == {x \in fs : ~IsPrefix(p, x[1])}

Init ==
    /\ files \in InitFiles
    /\ at = <<>>

Open(p) ==
    /\ at = <<>>
    /\ at' = p
    /\ UNCHANGED files

\* Putting e at `at` replaces whatever was at or below it.  Nothing can be
\* put below a file.
Put(e) ==
    /\ at # <<>>
    /\ \A x \in files : ~IsStrictPrefix(x[1], at)
    /\ files' = Outside(files, at) \cup Expand(e, at)
    /\ UNCHANGED at

Delete ==
    /\ at # <<>>
    /\ files' = Outside(files, at)
    /\ UNCHANGED at

Close ==
    /\ at # <<>>
    /\ at' = <<>>
    /\ UNCHANGED files

Next ==
    \/ \E p \in Paths : Open(p)
    \/ \E e \in Entries : Put(e)
    \/ Delete
    \/ Close

Spec == Init /\ [][Next]_<<files, at>>

=============================================================================
