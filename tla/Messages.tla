------------------------------ MODULE Messages ------------------------------
(***************************************************************************)
(* What becomes of a message between the caller that sends it and the one  *)
(* that receives it: the hooks that turn a struct into a map (messages),   *)
(* EncodeTypes, which rewrites that map in place for JSON or msgpack,      *)
(* DecodeTypes on the other side (normalize), and the hooks that fill a    *)
(* struct.  The patch files of the CLI take the same way, compressed; the  *)
(* events and contexts that the event pipeline stores take it without      *)
(* EncodeTypes and DecodeTypes.                                            *)
(*                                                                         *)
(* Go ranges over a map in any order, and meets an entry that is added     *)
(* meanwhile or does not; so every key is a step, in any order.            *)
(*                                                                         *)
(* Times and durations count ticks.                                        *)
(***************************************************************************)
EXTENDS Values, FiniteSets

CONSTANTS
  Maps,         \* the maps a caller sends as they are
  Structs,      \* structs: <<shape, fields>>; shape names their hooks
  Encodings,    \* "j" (JSON), "m" (msgpack), "file" (JSON, compressed),
                \* "store" (msgpack, in a storage)
  MaxSends      \* bound on how often a caller sends the same map

Milli  == 2     \* ticks
Second == 4
ZeroTime == -8    \* time.Time{}, long before the epoch

VARIABLES
  shape,        \* "map", or the struct's shape
  origin,       \* what the caller sends
  enc,          \* the encoding of this client, of this file or of the storage
  stage,        \* "encode", "decode", "delivered", "lost" or "panic"
  to,           \* what the cloud leaves of To: a "topic", nothing ("none"), or a
                \* topic behind this client's own address ("own")
  data,         \* the map that is being converted
  stack,        \* the calls of EncodeTypes or DecodeTypes: for each its map,
                \* the keys it may still meet, and the key whose map is inside
  kept,         \* the caller's map, as EncodeTypes has left it
  sends

vars == <<shape, origin, enc, stage, to, data, stack, kept, sends>>

Error == <<"error">>
Panic == <<"panic">>
Floor(n, unit) == n - (n % unit)

-----------------------------------------------------------------------------
(* Structs and maps. *)

\* recursiveToMsi: a time.Time inside a map or a list is a struct without a
\* field to show, and becomes an empty map.
RECURSIVE Recursed(_)
Recursed(v) ==
  CASE Kind(v) = "time" -> <<"map", [k \in {} |-> Error]>>
    [] Kind(v) = "map"  -> <<"map", [k \in DOMAIN v[2] |-> Recursed(v[2][k])]>>
    [] Kind(v) = "list" -> <<"list", [i \in DOMAIN v[2] |-> Recursed(v[2][i])]>>
    [] OTHER            -> v

\* RFC3339 to the second, and the epoch for the zero time, whose text Go cannot
\* parse.
Shown(n) == IF n = ZeroTime THEN 0 ELSE Floor(n, Second)

\* A field under the hooks of its struct: "secs" (ExitReqMsg, StreamCreateMsg,
\* UpdateMsg), "millis" (SysInfo, StateEntry), "text" (EventsGetMsg, Event,
\* Domain, Schema) or none ("plain").
Hooked(s, v) ==
  CASE Kind(v) = "dur" /\ s \in {"secs", "millis"} -> <<"int", v[2] \div Second>>
    [] Kind(v) = "dur" /\ s = "text"    -> <<"durtext", v[2]>>
    [] Kind(v) = "time" /\ s = "millis" -> <<"int", v[2] \div Milli>>
    [] Kind(v) = "time" /\ s = "text"   -> <<"rfc", Shown(v[2])>>
    [] OTHER                            -> Recursed(v)

ToMsi(s, f) == IF s = "map" THEN f ELSE [k \in DOMAIN f |-> Hooked(s, f[k])]

\* A value for a field of the kind the sender's had.
ParsedField(s, kind, v) ==
  CASE kind = "dur" /\ IsNumber(v) /\ s \in {"secs", "millis"} -> <<"dur", v[2] * Second>>
    [] kind = "dur" /\ Kind(v) = "durtext"               -> <<"dur", v[2]>>
    [] kind = "time" /\ IsNumber(v) /\ s = "millis"      -> <<"time", v[2] * Milli>>
    [] kind = "time" /\ Kind(v) = "rfc"                  -> <<"time", v[2]>>
    [] kind = "bytes" /\ Kind(v) = "b64"                 -> v[2]
    [] kind = "int" /\ IsNumber(v)                       -> <<"int", v[2]>>
    [] OTHER                                             -> v

ParseMsi(s, fields, msi) ==
  IF s = "map" THEN msi
  ELSE [k \in DOMAIN fields |-> ParsedField(s, Kind(fields[k]), msi[k])]

-----------------------------------------------------------------------------
(* EncodeTypes and DecodeTypes on one key. *)

\* Compression pays for some contents.
Compressible(v) == v[1] = "bytes" /\ v[2] % 2 = 0

\* Mutant: a key does not say that its bytes are compressed.
EncodedSilently(k, v, e) ==
  CASE Len(k) > 1       -> <<k, v>>
    [] Kind(v) = "dur"  -> <<k \o <<"dur">>, <<"durtext", v[2]>>>>
    [] Kind(v) = "time" -> <<k \o <<"time">>, <<"int", v[2] \div Milli>>>>
    [] IsBytes(v) /\ e = "file" -> <<k \o <<"b64">>, <<"b64", <<"gzip", v>>>>>>
    [] OTHER            -> <<k, v>>

\* EncodeTypes leaves a key with a ":" alone.
Encoded(k, v, e) ==
  LET zip == e = "file" /\ Compressible(v)
      raw == IF zip THEN <<"gzip", v>> ELSE v
      key == IF zip THEN k \o <<"gzip">> ELSE k
  IN  CASE Len(k) > 1       -> <<k, v>>
        [] Kind(v) = "dur"  -> <<k \o <<"dur">>, <<"durtext", v[2]>>>>
        [] Kind(v) = "time" -> <<k \o <<"time">>, <<"int", v[2] \div Milli>>>>
        [] IsBytes(v) /\ e = "m" -> <<k, v>>
        [] IsBytes(v)       -> <<key \o <<"b64">>, <<"b64", raw>>>>
        [] OTHER            -> <<k, v>>

\* One decoder.  Those for base64 and hexadecimal let what is no string pass.
\* "trans" stands for a transposition "trans(r,c)" that fits its value; any other
\* that has an end is an error, and one that ends at its parenthesis is cut to a
\* negative length, which panics.
Decoder(name, v) ==
  CASE name = "trans("                        -> Panic
    [] name = "dur" /\ Kind(v) = "durtext"    -> <<"dur", v[2]>>
    [] name = "time" /\ IsNumber(v)           -> <<"time", v[2] * Milli>>
    [] name \in {"b64", "hex"} /\ Kind(v) = name -> v[2]
    [] name \in {"b64", "hex"} /\ ~IsText(v)  -> v
    [] name = "bytes" /\ Kind(v) = "text"     -> <<"bytes", v[2]>>
    [] name = "string" /\ Kind(v) = "bytes"   -> <<"text", v[2]>>
    [] name = "gzip" /\ Kind(v) = "gzip"      -> v[2]
    [] name = "trans" /\ IsBytes(v)           -> <<"trans", v>>
    [] OTHER                                  -> Error

\* The encodings of a key are undone from the last to the first.
RECURSIVE Decoded(_, _)
Decoded(k, v) ==
  IF Len(k) = 1 \/ v \in {Error, Panic} THEN v
  ELSE Decoded(SubSeq(k, 1, Len(k) - 1), Decoder(k[Len(k)], v))

\* json.Marshal and msgpack on what EncodeTypes leaves as it is, the content of
\* lists above all, and what the other side unmarshals.
Binary == {"m", "store"}

RECURSIVE Wire(_, _)
Wire(v, e) ==
  CASE Kind(v) = "map"             -> <<"map", [k \in DOMAIN v[2] |-> Wire(v[2][k], e)]>>
    [] Kind(v) = "list"            -> <<"list", [i \in DOMAIN v[2] |-> Wire(v[2][i], e)]>>
    [] Kind(v) = "dur"             -> <<IF e \in Binary THEN "int" ELSE "float", v[2]>>
    [] e \in Binary                -> v
    [] Kind(v) = "int"             -> <<"float", v[2]>>
    [] Kind(v) = "time"            -> <<"rfc", v[2]>>
    [] IsBytes(v)                  -> <<"b64", v>>
    [] OTHER                       -> v

\* normalizeMap: a context as it will be read back.
NormalizeMap(f) == Wire(<<"map", f>>, "store")[2]

-----------------------------------------------------------------------------
(* The recursion over the maps in a map. *)

NoKey == <<>>
Frame(path, f) == [path |-> path, todo |-> DOMAIN f, inside |-> NoKey]

RECURSIVE At(_, _)
At(f, path) == IF path = <<>> THEN f ELSE At(f[Head(path)][2], Tail(path))

RECURSIVE Put(_, _, _)
Put(f, path, g) ==
  IF path = <<>> THEN g
  ELSE [f EXCEPT ![Head(path)] = <<"map", Put(@[2], Tail(path), g)>>]

\* data[target] = value; delete(data, key)
Moved(f, key, target, value) ==
  [k \in (DOMAIN f \ {key}) \cup {target} |-> IF k = target THEN value ELSE f[k]]

\* Nothing of what is stored is converted.
Frames(f, e) ==
  IF e = "store" THEN <<[Frame(<<>>, f) EXCEPT !.todo = {}]>> ELSE <<Frame(<<>>, f)>>
Start(f) == stack' = Frames(f, enc)

Init ==
  /\ \/ shape = "map" /\ origin \in Maps
     \/ \E s \in Structs : shape = s[1] /\ origin = s[2]
  /\ enc \in Encodings
  /\ enc = "store" => shape \in {"map", "text"}
  /\ stage = "encode" /\ to = "topic"
  /\ data = ToMsi(shape, origin)
  /\ stack = Frames(data, enc)
  /\ kept = data /\ sends = 1

Depth == Len(stack)
Top   == stack[Depth]
Converting == stage \in {"encode", "decode"}

\* The entry k of the map at the end of frames, whose own map is done: it is
\* replaced by its converted form, which the range may meet again.
Convert(frames, k) ==
  LET top  == frames[Len(frames)]
      here == At(data, top.path)
      pair == IF stage = "encode" THEN Encoded(k, here[k], enc)
              ELSE <<<<k[1]>>, Decoded(k, here[k])>>
      new  == {pair[1]} \ DOMAIN here
  IN  IF pair[2] \in {Error, Panic}
        THEN /\ stage' = IF pair[2] = Error THEN "lost" ELSE "panic"
             /\ stack' = <<>>
             /\ UNCHANGED data
        ELSE /\ data' = Put(data, top.path, Moved(here, k, pair[1], pair[2]))
             /\ \E met \in SUBSET new :
                  stack' = [frames EXCEPT ![Len(frames)] =
                              [@ EXCEPT !.todo = (@ \ {k}) \cup met, !.inside = NoKey]]
             /\ UNCHANGED stage

Visit(k) ==
  /\ Converting /\ k \in Top.todo /\ ~IsMap(At(data, Top.path)[k])
  /\ Convert(stack, k)
  /\ UNCHANGED <<shape, origin, enc, to, kept, sends>>

\* The recursive call for a map, and its return.
Enter(k) ==
  /\ Converting /\ k \in Top.todo /\ IsMap(At(data, Top.path)[k])
  /\ stack' = [stack EXCEPT ![Depth] = [@ EXCEPT !.todo = @ \ {k}, !.inside = k]]
                \o <<Frame(Top.path \o <<k>>, At(data, Top.path)[k][2])>>
  /\ UNCHANGED <<shape, origin, enc, stage, to, data, kept, sends>>

Return ==
  /\ Converting /\ Depth > 1 /\ Top.todo = {}
  /\ LET frames == SubSeq(stack, 1, Depth - 1)
     IN  Convert(frames, frames[Depth - 1].inside)
  /\ UNCHANGED <<shape, origin, enc, to, kept, sends>>

\* The message is marshalled, and unmarshalled where it arrives; a file has no To.
\* receiveMessage returns at once if To is empty or begins with its own address.
Marshal ==
  /\ stage = "encode" /\ Depth = 1 /\ Top.todo = {} /\ enc # "store"
  /\ kept' = data
  /\ data' = Wire(<<"map", data>>, enc)[2]
  /\ to' \in IF enc = "file" THEN {"topic"} ELSE {"topic", "none", "own"}
  /\ IF to' = "topic" THEN stage' = "decode" /\ Start(data')
                      ELSE stage' = "lost" /\ stack' = <<>>
  /\ UNCHANGED <<shape, origin, enc, sends>>

Deliver ==
  /\ stage = "decode" /\ Depth = 1 /\ Top.todo = {} /\ enc # "store"
  /\ data' = ParseMsi(shape, origin, data)
  /\ stage' = "delivered" /\ stack' = <<>>
  /\ UNCHANGED <<shape, origin, enc, to, kept, sends>>

\* Mutant: a context is kept as the stage returned it.
SaveAsIs ==
  /\ stage = "encode" /\ enc = "store"
  /\ kept' = data
  /\ data' = NormalizeMap(kept')
  /\ stage' = "decode"
  /\ UNCHANGED <<shape, origin, enc, to, stack, sends>>

\* An event, or the context a stage returned, is stored; of the context, the run
\* keeps the normalized form.  A later run loads it.
Save ==
  /\ stage = "encode" /\ enc = "store"
  /\ kept' = IF shape = "map" THEN NormalizeMap(data) ELSE data
  /\ data' = NormalizeMap(kept')
  /\ stage' = "decode"
  /\ UNCHANGED <<shape, origin, enc, to, stack, sends>>

Load ==
  /\ stage = "decode" /\ enc = "store"
  /\ data' = ParseMsi(shape, origin, data)
  /\ stage' = "delivered" /\ stack' = <<>>
  /\ UNCHANGED <<shape, origin, enc, to, kept, sends>>

\* A caller that goes on using its map sends what EncodeTypes made of it.
SendAgain ==
  /\ stage \in {"delivered", "lost"} /\ shape = "map" /\ sends < MaxSends
  /\ sends' = sends + 1
  /\ stage' = "encode" /\ data' = kept
  /\ Start(kept)
  /\ UNCHANGED <<shape, origin, enc, to, kept>>

Keys == UNION {f.todo : f \in {stack[i] : i \in DOMAIN stack}}

Next ==
  \/ \E k \in Keys : Visit(k) \/ Enter(k)
  \/ Return \/ Marshal \/ Deliver \/ Save \/ Load \/ SendAgain

Spec == Init /\ [][Next]_vars

-----------------------------------------------------------------------------
(* What a message should be on arrival. *)

\* No key is another's name with encodings behind it.
Distinct(f) ==
  \A k, l \in DOMAIN f : k[1] = l[1] => k = l

\* A map's entry as it is promised to arrive: what a key's encodings say, and
\* values of the types EncodeTypes knows as they were, times to the millisecond.
RECURSIVE Meaning(_, _)
Meaning(f, e) ==
  [n \in {<<k[1]>> : k \in DOMAIN f} |->
     LET k == CHOOSE l \in DOMAIN f : l[1] = n[1]
         v == f[k]
     IN  CASE Len(k) > 1            -> Decoded(k, Wire(v, e))
           [] Kind(v) = "map"       -> <<"map", Meaning(v[2], e)>>
           [] Kind(v) = "time"      -> <<"time", Floor(v[2], Milli)>>
           [] Kind(v) = "dur" \/ IsBytes(v) -> v
           [] OTHER                 -> Wire(v, e)]

\* The same for a field of a struct: durations and times as exact as its hooks.
FieldMeaning(s, v, e) ==
  CASE Kind(v) = "dur" /\ s \in {"secs", "millis"} -> <<"dur", Floor(v[2], Second)>>
    [] Kind(v) = "time" /\ s = "text" ->
         <<"time", IF v[2] < 0 THEN 0 ELSE Floor(v[2], Second)>>
    [] Kind(v) = "time" -> <<"time", Floor(v[2], Milli)>>
    [] Kind(v) = "map"  -> <<"map", Meaning(Recursed(v)[2], e)>>
    [] OTHER            -> v

\* A key at any depth whose encodings end in that: Error if they are none, or do
\* not fit its value.
RECURSIVE EndsIn(_, _, _)
EndsIn(f, e, end) ==
  \E k \in DOMAIN f :
    \/ Len(k) > 1 /\ Decoded(k, Wire(f[k], e)) = end
    \/ IsMap(f[k]) /\ EndsIn(f[k][2], e, end)

-----------------------------------------------------------------------------
(* Properties. *)

TypeOK ==
  /\ stage \in {"encode", "decode", "delivered", "lost", "panic"}
  /\ to \in {"topic", "none", "own"}
  /\ Converting <=> stack # <<>>
  /\ sends \in 1 .. MaxSends
  /\ \A i \in DOMAIN stack :
       stack[i].todo \subseteq DOMAIN At(data, stack[i].path)

\* A message arrives as it was sent, in whatever order the maps are ranged
\* over and however often the caller sends its map, which EncodeTypes changes:
\* bytes, durations and times keep their types on the wire.
Arrives ==
  stage = "delivered" /\ enc # "store" /\ Distinct(origin) =>
    data = IF shape = "map" THEN Meaning(origin, enc)
           ELSE [k \in DOMAIN origin |-> FieldMeaning(shape, origin[k], enc)]

\* receiveMessage drops a well-formed message without a word only for its To, or for
\* a key with a ":" that is followed by no encoding or by one its value is not of;
\* such a message is never delivered, and the program panics for one kind of key
\* only.  (Of two keys with one name, the order of the range decides which is left.)
LostForItsKeys ==
  Distinct(origin) /\ enc # "store" =>
    /\ stage = "lost"  => to # "topic" \/ EndsIn(origin, enc, Error)
    /\ stage = "panic" => to = "topic" /\ EndsIn(origin, enc, Panic)
    /\ stage = "delivered" =>
         to = "topic" /\ ~EndsIn(origin, enc, Error) /\ ~EndsIn(origin, enc, Panic)

\* A message is delivered as it was sent, or its keys or its To are to blame.
Faithful == TypeOK /\ Arrives /\ LostForItsKeys

\* There is no time inside, which an event loses on its way into the storage.
RECURSIVE Timeless(_)
Timeless(v) ==
  CASE Kind(v) = "map"  -> \A k \in DOMAIN v[2] : Timeless(v[2][k])
    [] Kind(v) = "list" -> \A i \in DOMAIN v[2] : Timeless(v[2][i])
    [] OTHER            -> Kind(v) # "time"

\* After a restart a stage sees the context the run before has kept, and the
\* event as it was, but for what is below the second and the times and durations
\* in its meta.
Restored ==
  stage = "delivered" /\ enc = "store" =>
    IF shape = "map" THEN data = kept
    ELSE \A k \in DOMAIN origin :
           CASE Kind(origin[k]) = "time" -> data[k] = FieldMeaning("text", origin[k], "m")
             [] Kind(origin[k]) = "dur"  -> data[k] = origin[k]
             [] OTHER -> Timeless(origin[k]) => data[k] = Wire(origin[k], "m")
=============================================================================
