---------------------------- MODULE MCFileStore -----------------------------
(***************************************************************************)
(* Three files of one user: one plain, one nested deeper, and one that has  *)
(* the name of the other's folder; an empty body and one of a chunk.        *)
(***************************************************************************)
EXTENDS FileStore, TLC

CONSTANTS r1, r2

MCPaths == {<<"u", "f">>, <<"u", "d">>, <<"u", "d", "g">>}
MCBodies == {<<>>, <<"a">>}

\* Bounds: of the two requests at most one is for the file beside the folder, which no
\* write that ends well leaves empty (those for the folder's file and for the file of
\* its name overlap, and send what they like).
Plainly == {r \in Reqs : req'[r].path = <<"u", "f">>}
Traffic == Plainly # Reqs /\ \A r \in Plainly : req'[r].op = "write" => req'[r].body # <<>>

SlotSymmetry == Permutations(Reqs)
=============================================================================
