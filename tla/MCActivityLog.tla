---------------------------- MODULE MCActivityLog ----------------------------
(* Instances of ActivityLog for TLC: small bitmap layouts.                 *)
EXTENDS ActivityLog

\* Five extents, of four words each (memset, more than one buffer) or of
\* half a word (mask, two peers); the bitmap has room behind the last one.
RoomyGeometries ==
  {[bits_per_extent |-> 8, max_peers |-> 1, dev_bits |-> 38],
   [bits_per_extent |-> 1, max_peers |-> 2, dev_bits |-> 5]}

\* Four extents of two words: the last one ends where the bitmap ends.
FullGeometries == {[bits_per_extent |-> 4, max_peers |-> 1, dev_bits |-> 16]}
=============================================================================
