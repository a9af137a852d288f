---------------------------- MODULE MCTransplant ----------------------------
(***************************************************************************)
(* Transplant over all trees of up to three entries with names of one, two *)
(* or six characters, and contents that are empty, whole, whole with the   *)
(* magic sequence in front, or cut short so that exactly one record behind *)
(* them is taken for file data.  The longest paths of three names are too  *)
(* long for path_buf, some by the count of path_push and some not.         *)
(***************************************************************************)
EXTENDS Transplant

MCLength == [n \in {"a", "bb", "dddddd", "out", ".", ""} |->
               CASE n = "" -> 0 [] n \in {"a", "."} -> 1 [] n = "bb" -> 2 [] n = "out" -> 3 [] OTHER -> 6]
MCPathMax == 21
MCBases  == {<<"out">>, <<".">>, <<"", "out">>}

MCContents == {[size |-> 0, good |-> 0, magic |-> FALSE], [size |-> 2, good |-> 2, magic |-> FALSE],
               [size |-> 17, good |-> 1, magic |-> FALSE], [size |-> 4, good |-> 4, magic |-> TRUE]}
Entries  == {"a", "bb", "dddddd"}
Paths == {<<x>> : x \in Entries} \cup (Entries \X Entries) \cup (Entries \X Entries \X Entries)
\* The sets of one to three paths that hold the directory of each of them.
Shapes == {S \in {{p, q, r} : p, q, r \in Paths} :
             \A p \in S : Len(p) = 1 \/ Front(p) \in S}
Inner(S) == {p \in S : \E q \in S : Front(q) = p}
MCTrees == UNION {{t \in [S -> MCContents \cup {Dir}] : \A p \in Inner(S) : t[p] = Dir} : S \in Shapes}
=============================================================================
