----------------------------- MODULE MCFilters ------------------------------
(* An instance of Filters and Patches for TLC. *)
EXTENDS Filters, Patches

M(f) == <<"map", f>>
L(s) == <<"list", s>>
Text(n)  == <<"text", n>>
Bytes(n) == <<"bytes", n>>
Scalars == {<<"int", 1>>, <<"bool", TRUE>>, Text(1), Bytes(1), Bytes(2),
            <<"dur", 5>>, <<"time", 7>>}
Nested == {M(<<"x">> :> Bytes(2)), M(<<"x">> :> <<"time", 7>>),
           M((<<"x">> :> <<"dur", 5>>) @@ (<<"y">> :> <<"int", 1>>)),
           M(<<"x", "hex">> :> <<"hex", Bytes(1)>>),
           M(<<"x">> :> M(<<"z">> :> Bytes(1))),
           M(<<"mac", "aa">> :> <<"int", 1>>),
           L(<<Bytes(1), <<"time", 7>>, <<"dur", 5>>, <<"int", 1>>>>)}

One   == {<<"a">> :> v : v \in Scalars \cup Nested}
Other == {<<"b">> :> v : v \in Scalars \cup Nested} \cup
         {<<"b", "hex">> :> <<"hex", Bytes(1)>>,
          <<"b", "hex">> :> Text(1),
          <<"b", "time">> :> <<"int", 3>>,
          <<"b", "dur">> :> Text(1),
          <<"b", "string", "gzip", "b64">> :> <<"b64", <<"gzip", Bytes(1)>>>>,
          <<"b", "dur">> :> M(<<"x">> :> <<"int", 1>>),
          <<"b", "b64">> :> M(<<"x">> :> <<"bool", TRUE>>),
          <<"b", "trans", "b64">> :> <<"b64", Bytes(1)>>,
          <<"b", "trans(3)", "b64">> :> <<"b64", Bytes(1)>>,
          <<"b", "trans(", "b64">> :> <<"b64", Bytes(1)>>,
          <<"b", "bytes">> :> Text(1),
          <<"mac", "aa">> :> Text(1),
          <<"hour">> :> <<"int", 5>>,
          <<"a", "b64">> :> <<"b64", Bytes(3)>>}
MCFiles == 1 .. 3
PatchFiles == {Create(f, g, r) : f, g \in MCFiles, r \in BOOLEAN}
MCMaps == One \cup {f @@ g : f \in One, g \in Other} \cup PatchFiles

Fields == {<<"dur", 5>>, <<"dur", 8>>, <<"time", 7>>, <<"time", ZeroTime>>, <<"int", 1>>, Bytes(2)}
Metas  == {M(<<"x">> :> <<"dur", 5>>), M(<<"mac", "aa">> :> <<"int", 1>>),
           M((<<"x">> :> <<"time", 7>>) @@ (<<"y">> :> Bytes(1)))}
Struct(v, w) == (<<"v">> :> v) @@ (<<"w">> :> w)
MCStructs ==
  ({"millis", "text"} \X {Struct(v, w) : v \in Fields, w \in Metas}) \cup
  ({"secs", "plain"} \X {Struct(v, w) : v \in {g \in Fields : Kind(g) # "time"}, w \in Metas})

MCNow == <<"hour">> :> <<"int", 1>>

Ask(op, w) == M(<<op>> :> w)
Number == <<"float", 1>>
MCAtoms ==
  {<<"field", <<k>>, w>> : k \in {"a", "b"}, w \in {Number, Text(1)}} \cup
  {<<"field", <<"a">>, Ask(op, <<"float", 2>>)>> : op \in {"$lt", "$gte", "$odd"}} \cup
  {<<"field", <<"a">>, Ask(op, L(<<Text(1), Text(2)>>))>> : op \in {"$in", "$nin"}} \cup
  {<<"field", <<"a">>, Ask("$in", L(<<Number>>))>>,
   <<"field", <<"a">>, Ask("$in", L(<<M(<<"x">> :> Number)>>))>>,
   <<"field", <<"b">>, Ask("$regex", Text(1))>>,
   <<"field", <<"a", "y">>, Ask("$ne", Number)>>,
   <<"field", <<"hour">>, Number>>,
   <<"not", <<"field", <<"a">>, Number>>>>,
   <<"exists", <<"a", "x">>>>, <<"exists", <<"mac">>>>,
   <<"true">>, <<"false">>, <<"op">>, <<"bad">>}
=============================================================================
