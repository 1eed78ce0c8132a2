------------------------------ MODULE MCTinyDb ------------------------------
(***************************************************************************)
(* An app called a_b, another, axb, whose name is LIKE it, and a user with *)
(* types a_b_T and axb_T, whose tables are the apps' of their types T; and *)
(* releases of two tables of the node.                                     *)
(***************************************************************************)
EXTENDS TinyDb, TLC

CONSTANTS r1, r2

Def(columns, required, indexes) ==
  [columns |-> columns, required |-> required, indexes |-> indexes]
MCTypes == {Def(<<"a", "id">>, {"a", "id"}, {})}
MCDefinitions == MCTypes \cup
  {Def(<<"b", "a", "id">>, {"id"}, {"a"}), Def(<<"a", "b", "id">>, {"id"}, {"b"})}

MCTables == {<<"u1", "a", "b", "T">>, <<"u1", "axb", "T">>, <<"sessions">>, <<"users">>}
MCNodeTables == <<<<"sessions">>, <<"users">>>>
MCSplit == [s \in Scopes |-> CASE s = "" -> <<>> [] s = "a_b" -> <<"a", "b">> [] OTHER -> <<s>>]
MCGQLTypes == {<<"T">>, <<"a", "b", "T">>, <<"axb", "T">>}

MCKeys == {<<"u1", "axb", "k">>, <<"u1", "a_b", "k">>, <<"u1", "A_B", "k">>}
MCEscaped == [s \in Scopes |-> IF s = "a_b" THEN "a$1b" ELSE s]
MCFolds == {<<s, s>> : s \in {"", "u1", "axb", "a_b", "k"}} \cup {<<"a_b", "A_B">>}

MCLikes ==
  (* the user's, all of them *)
  {<<<<"u1">>, n>> : n \in {x \in MCTables \cup MCKeys : x[1] = "u1"}} \cup
  {<<<<"u1", "axb">>, n>> : n \in {<<"u1", "axb", "T">>, <<"u1", "axb", "k">>}} \cup
  (* 'u1_a_b%' and 'u1!!a_b%' *)
  {<<<<"u1", "a", "b">>, n>> : n \in {<<"u1", "a", "b", "T">>, <<"u1", "axb", "T">>}} \cup
  {<<<<"u1", "a_b">>, n>> : n \in MCKeys}

SlotSymmetry == Permutations(Reqs)
=============================================================================
