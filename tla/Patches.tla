------------------------------ MODULE Patches -------------------------------
(***************************************************************************)
(* Patch files: "update create" writes one, "update apply" applies it to a *)
(* local file, "update send patch" takes it apart for a device.  On its    *)
(* way through the file a patch is a map of Messages.                      *)
(***************************************************************************)
EXTENDS Messages, TLC

CONSTANT Files    \* different contents of a file: numbers below 10

Hash(f)    == <<"bytes", 100 + f>>
Diff(f, g) == <<"bytes", 10 * f + g>>
Refused    == 0

\* Mutant: the hashes are swapped.
CreateSwapped(src, dst, rollback) ==
  (<<"data">> :> Diff(src, dst)) @@ (<<"srchash", "hex">> :> <<"hex", Hash(dst)>>) @@
  (<<"dsthash", "hex">> :> <<"hex", Hash(src)>>) @@
  (IF rollback THEN <<"rdata">> :> Diff(dst, src) ELSE <<>>)

\* bsdiff, and the hashes of both files as text.
Create(src, dst, rollback) ==
  (<<"data">> :> Diff(src, dst)) @@ (<<"srchash", "hex">> :> <<"hex", Hash(src)>>) @@
  (<<"dsthash", "hex">> :> <<"hex", Hash(dst)>>) @@
  (IF rollback THEN <<"rdata">> :> Diff(dst, src) ELSE <<>>)

\* What bspatch makes of another file than the source is another file.
Patched(f, diff) ==
  IF \E g \in Files : Diff(f, g) = diff THEN CHOOSE g \in Files : Diff(f, g) = diff ELSE f

\* The file that is written, or an error.
Apply(f, patch) ==
  IF /\ patch.src = Hash(f)
     /\ patch.dst = Hash(Patched(f, patch.data))
    THEN Patched(f, patch.data) ELSE Refused

\* The parts of a patch file, decoded, for an update and for its way back.
Upgrade(f)  == [src |-> f[<<"srchash">>], dst |-> f[<<"dsthash">>], data |-> f[<<"data">>]]
Rollback(f) == [src |-> f[<<"dsthash">>], dst |-> f[<<"srchash">>], data |-> f[<<"rdata">>]]

-----------------------------------------------------------------------------
\* A patch file, whatever of it was compressed, turns its source into its
\* destination and its rollback turns it back; every other file is refused.
PatchesApply ==
  \A src, dst \in Files, rollback \in BOOLEAN :
    (stage = "delivered" /\ enc = "file" /\ origin = Create(src, dst, rollback)) =>
    \A f \in Files :
      /\ Apply(f, Upgrade(data)) = IF f = src THEN dst ELSE Refused
      /\ rollback => Apply(f, Rollback(data)) = IF f = dst THEN src ELSE Refused
=============================================================================
