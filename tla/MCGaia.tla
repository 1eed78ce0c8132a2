------------------------------- MODULE MCGaia -------------------------------
(* Gaia: three requests for one file of one bucket, and a body of two chunks. *)
EXTENDS Gaia

CONSTANTS r1, r2, r3

MCPaths == {<<"u", "f">>}
MCBodies == {<<"a", "b">>}
=============================================================================
