------------------------------- MODULE Verify -------------------------------
(***************************************************************************)
(* Verified reads (verify.ts): a checksum over the root, the version and   *)
(* the geometry of the header, and in the full mode over all that the root *)
(* reaches.  The owner publishes it with a version, and a reader that      *)
(* acquires the version computes it again.  A checksum is the sequence of  *)
(* what is mixed into it: two of them are equal when these are, which      *)
(* leaves collisions aside.  The geometry is written once and is left out. *)
(***************************************************************************)
EXTENDS Values

CONSTANT VerifyMode      \* of the arena, in its flags

ASSUME VerifyAssumption == VerifyMode \in {"Off", "Header", "Full"}

NoChecksum == <<>>

headerChecksum(root, versionId, generation) == <<root, versionId, generation>>

\* A block is its words: a double or a record is mixed in whole, and a container by its
\* entries or elements, whatever nodes they are in.
RECURSIVE deepChecksum(_, _)
deepChecksum(h, slot) ==
  <<slot[1]>> \o
    CASE slot[1] \in {"Int32", "External"} -> <<slot[2]>>
      [] slot[1] \in Boxed \union {"String", "RegExp"} -> <<Load(h, slot[2])>>
      [] slot[1] \in {"Object", "Map", "Set"} ->
           FlatMap(hamtEntries(h, slot[2]),
                   LAMBDA e : deepChecksum(h, e.key) \o deepChecksum(h, e.value))
      [] slot[1] = "Array" ->
           FlatMap(vectorSlots(h, slot[2]), LAMBDA s : deepChecksum(h, s))
      [] OTHER -> <<>>

checksumOf(h, root, versionId, generation) ==
  headerChecksum(root, versionId, generation)
    \o (IF VerifyMode = "Full" THEN deepChecksum(h, root) ELSE <<>>)

publishChecksum(h, root, versionId, generation) ==
  IF VerifyMode = "Off" THEN NoChecksum ELSE checksumOf(h, root, versionId, generation)

\* Whether a reader accepts the version, or calls the arena corrupt.
verifyRoot(h, root, versionId, generation, published) ==
  VerifyMode = "Off" \/ published = checksumOf(h, root, versionId, generation)
=============================================================================
