---------------------------- MODULE MCEventPipe ----------------------------
(* Instances of EventPipe for TLC. *)
EXTENDS EventPipe

TwoStages  == {<<"decode", "store">>}
\* The next deployment pushes one stage less.
Redeployed == {<<"decode", "store">>, <<"decode">>}
=============================================================================
