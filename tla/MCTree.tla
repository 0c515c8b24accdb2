------------------------------- MODULE MCTree -------------------------------
(* Tree instantiated for TLC: two names, paths of up to two components, a  *)
(* stored subtree object h1 = {1: subtree h2, 2: file f1} and             *)
(* h2 = {1: file f2}, so that a walk can block twice on its way down.     *)
EXTENDS Tree

MCContent ==
    ("h1" :> ((1 :> Subtree("h2")) @@ (2 :> File("f1"))))
    @@ ("h2" :> (1 :> File("f2")))

MCPaths == {<<n>> : n \in Names} \cup (Names \X Names)

MCEntries == {File("f1"), Subtree("h2")}

MCRootEntries == {Subtree("h1")}
=============================================================================
