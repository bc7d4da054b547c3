------------------------------ MODULE MCQuery -------------------------------
(* Instances of Query for TLC. *)
EXTENDS Query

OneSource    == {<<"temp", "east">>}
\* Two sources share a schema, two an origin.
ThreeSources == {<<"temp", "east">>, <<"temp", "west">>, <<"door", "east">>}
=============================================================================
