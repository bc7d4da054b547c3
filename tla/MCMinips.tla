------------------------------ MODULE MCMinips ------------------------------
(* An instance of Minips for TLC. *)
EXTENDS Minips

Tree      == {<<"a", "b">>, <<"">>}
DeepTopic == {<<"a", "b", "c">>}
=============================================================================
