--------------------------- MODULE MetadataMoveProofs ---------------------------
(***************************************************************************)
(* Proofs about drbdmeta check-resize, for devices, bitmaps, buffers and   *)
(* growths of any size and any number of crashes: the metadata that the    *)
(* next command opens is complete, and even a power failure leaves a       *)
(* superblock to be found.                                                 *)
(***************************************************************************)
EXTENDS MetadataMove, TLAPS

\* A device that grows does so by at least a 4k block: the superblock moves.
GrowsByBlocks == \A s, t \in Sizes : s < t => md_offset(s) < md_offset(t)

-----------------------------------------------------------------------------
(* The invariant *)

Found(d, s) == d[md_offset(s)] = Superblock(s)

Clean == disk[md_offset(size)] # Superblock(size)

DataKept == \A b \in 0 .. bm_offset(InitialSize) - 1 : disk[b] = <<"data", b>>
LogAt(s) == \A i \in 0 .. AlBlocks - 1 : disk[al_offset(s) + i] = <<"al", i>>
BitmapAt(s) == \A i \in 0 .. bm_blocks(InitialSize) - 1 : disk[bm_offset(s) + i] = <<"bm", i>>

\* the part of the bitmap before cur is at its old place, the rest has moved
BitmapSplit ==
  \A i \in 0 .. bm_blocks(InitialSize) - 1 :
    IF bm_offset(lk) + i < cur THEN disk[bm_offset(lk) + i] = <<"bm", i>>
    ELSE disk[bm_offset(size) + i] = <<"bm", i>>

Moving == {"al", "sync", "wipe"} \union Copying
Closing == {"close", "save", "fsync", "md"}

TypeOK ==
  /\ size \in Sizes /\ InitialSize <= size
  /\ lk \in Sizes \union {0} /\ lk <= size /\ (lk # 0 => InitialSize <= lk)
  /\ lk_synced \in Sizes \union {0} /\ lk_synced <= size /\ (lk_synced # 0 => InitialSize <= lk_synced)
  /\ pc \in {"idle"} \union Closing \union Moving
  /\ pc \in Moving => lk # 0 /\ lk < size
  /\ pc = "save" => lk = 0
  /\ cur \in Int
  /\ pc = "bitmap" => bm_offset(lk) <= cur /\ cur <= al_offset(lk)
  /\ pc = "wipe" => bm_offset(lk) <= cur /\ cur <= md_offset(lk) + 1 /\ ~ Overlap(lk, size)
  /\ overlapped \in BOOLEAN /\ powerloss \in BOOLEAN /\ exposed \in BOOLEAN
  /\ \A b \in Blocks : b > md_offset(size) => disk[b] = <<"data", b>> /\ synced[b] = <<"data", b>>

\* where a superblock is that a read returns
FoundInv ==
  /\ pc = "idle" /\ ~ (exposed /\ powerloss) => Found(disk, size) \/ (lk # 0 /\ lk < size /\ Found(disk, lk))
  /\ pc = "al" => Found(disk, lk)
  /\ pc \in Copying \union {"sync"} /\ ~ Overlap(lk, size) => Found(disk, lk)
  /\ pc \in {"sync", "wipe"} \union Closing => Found(disk, size)
  /\ pc = "wipe" => Found(synced, size)

Sure(s) == Found(disk, s) /\ Found(synced, s)

\* A power failure leaves the new superblock, or the old one and the size to
\* find it with; of a move into an overlapping range only the size.
Safe ==
  \/ Sure(size)
  \/ lk # 0 /\ lk < size /\ lk_synced = lk /\ (~ Overlap(lk, size) => Sure(lk))

\* where the metadata is complete, if power has not failed
IntactInv ==
  /\ pc = "idle" => \/ Found(disk, size) /\ Intact(size)
                    \/ lk # 0 /\ lk < size /\ Found(disk, lk) /\ Intact(lk) /\ Clean
  /\ pc = "al" => Intact(lk) /\ Clean
  /\ pc \in Copying => DataKept /\ LogAt(size) /\ Clean /\ (~ Overlap(lk, size) => Intact(lk))
  /\ pc = "bitmap" => BitmapSplit
  /\ pc \in {"trail", "super"} => BitmapAt(size)
  /\ pc \in {"sync", "wipe"} \union Closing => Intact(size)

IInv ==
  /\ TypeOK
  /\ ~ overlapped => FoundInv
  /\ ~ overlapped /\ ~ exposed => Safe
  /\ ~ overlapped /\ ~ powerloss => IntactInv

-----------------------------------------------------------------------------
(* The layout *)

\* A division rounds down.
LEMMA DivBounds ==
  ASSUME NEW a \in Int, NEW b \in Nat \ {0}
  PROVE  /\ a \div b \in Int
         /\ (a \div b) * b <= a
         /\ a < (a \div b) * b + b
  BY SMT

\* Two quotients compare as the numbers do, and differ by at most k when the
\* numbers differ by at most k times the divisor.
LEMMA DivShift ==
  ASSUME NEW a \in Int, NEW c \in Int, NEW b \in Nat \ {0}, NEW k \in Nat
  PROVE  /\ a <= c => a \div b <= c \div b
         /\ c <= a + k * b => c \div b <= a \div b + k
  <1> DEFINE q == a \div b
             r == c \div b
  <1>1. q \in Int /\ q * b <= a /\ a < q * b + b
    BY DivBounds
  <1>2. r \in Int /\ r * b <= c /\ c < r * b + b
    BY DivBounds
  <1> HIDE DEF q, r
  <1>3. ASSUME a <= c, q > r PROVE FALSE
    <2>1. q >= r + 1
      BY <1>1, <1>2, <1>3
    <2>2. q * b >= (r + 1) * b
      BY <1>1, <1>2, <2>1
    <2>3. (r + 1) * b = r * b + b
      BY <1>2
    <2> QED
      BY <1>1, <1>2, <1>3, <2>2, <2>3
  <1>4. ASSUME c <= a + k * b, r > q + k PROVE FALSE
    <2>1. r >= q + k + 1
      BY <1>1, <1>2, <1>4
    <2>2. r * b >= (q + k + 1) * b
      BY <1>1, <1>2, <2>1
    <2>3. (q + k + 1) * b = q * b + k * b + b
      BY <1>1
    <2> QED
      BY <1>1, <1>2, <1>4, <2>2, <2>3
  <1> QED
    BY <1>1, <1>2, <1>3, <1>4 DEF q, r

\* The bitmap, the activity log and the superblock follow each other, and
\* fit into the device.
LEMMA Layout ==
  ASSUME NEW s \in Sizes
  PROVE  /\ s \in Nat \ {0}
         /\ md_offset(s) \in Nat /\ al_offset(s) \in Nat /\ bm_offset(s) \in Nat
         /\ bm_blocks(s) \in Nat /\ bm_blocks(s) >= 1
         /\ AlBlocks \in Nat /\ AlBlocks >= 1
         /\ al_offset(s) = bm_offset(s) + bm_blocks(s)
         /\ md_offset(s) = al_offset(s) + AlBlocks
         /\ \A b \in Int : 0 <= b /\ b <= md_offset(s) => b \in Blocks
  <1> USE MoveAssumption DEF Positive
  <1>1. s \in Nat \ {0}
    OBVIOUS
  <1>2. /\ BlockSectors \in Nat \ {0} /\ AlBlocks \in Nat \ {0} /\ max_peers \in Nat \ {0}
        /\ WordSectors \in Nat \ {0} /\ WordsPerBlock \in Nat \ {0}
    OBVIOUS
  <1> DEFINE w == Ceil(s, WordSectors)
  <1>3. w \in Int /\ w >= 1
    <2>1. 1 <= (s + WordSectors - 1) \div WordSectors
      BY <1>1, <1>2, DivShift, WordSectors \div WordSectors = 1, s + WordSectors - 1 >= WordSectors
    <2> QED
      BY <1>1, <1>2, <2>1, DivBounds DEF Ceil
  <1> HIDE DEF w
  <1>4. w * max_peers \in Int /\ w * max_peers >= 1
    BY <1>2, <1>3
  <1>5. bm_blocks(s) \in Int /\ bm_blocks(s) >= 1
    <2>1. 1 <= (w * max_peers + WordsPerBlock - 1) \div WordsPerBlock
      BY <1>2, <1>4, DivShift, WordsPerBlock \div WordsPerBlock = 1, w * max_peers + WordsPerBlock - 1 >= WordsPerBlock
    <2> QED
      BY <1>2, <1>4, <2>1, DivBounds DEF Ceil, bm_blocks, w
  <1> DEFINE n == AlBlocks + bm_blocks(s)
  <1>6. n \in Nat /\ n * BlockSectors <= s - BlockSectors
    <2>1. s > BlockSectors * (1 + AlBlocks + bm_blocks(s))
      BY LayoutAssumption
    <2>2. BlockSectors * (1 + AlBlocks + bm_blocks(s)) = BlockSectors + n * BlockSectors
      BY <1>2, <1>5
    <2>3. n \in Nat
      BY <1>2, <1>5
    <2> QED
      BY <1>1, <1>2, <2>1, <2>2, <2>3
  <1>7. n <= md_offset(s) /\ md_offset(s) \in Int
    <2> HIDE DEF n
    <2>1. (n * BlockSectors) \div BlockSectors = n
      BY <1>2, <1>6
    <2> QED
      BY <1>1, <1>2, <1>6, <2>1, DivShift, DivBounds DEF md_offset
  <1>8. \A b \in Int : 0 <= b /\ b <= md_offset(s) => b \in Blocks
    BY <1>7 DEF Blocks
  <1> QED
    BY <1>1, <1>2, <1>5, <1>7, <1>8 DEF al_offset, bm_offset

\* Where the superblock moves up, the bitmap is no shorter and does not
\* start earlier: it grows by less than the superblock moves.
LEMMA LayoutGrows ==
  ASSUME NEW s \in Sizes, NEW t \in Sizes, s < t, md_offset(s) < md_offset(t)
  PROVE  /\ bm_blocks(s) <= bm_blocks(t)
         /\ bm_offset(s) <= bm_offset(t)
  <1> USE MoveAssumption DEF Positive
  <1>1. s \in Nat \ {0} /\ t \in Nat \ {0}
    OBVIOUS
  <1>2. /\ BlockSectors \in Nat \ {0} /\ max_peers \in Nat \ {0}
        /\ WordSectors \in Nat \ {0} /\ WordsPerBlock \in Nat \ {0}
        /\ 2 * BlockSectors <= WordSectors /\ max_peers <= WordsPerBlock
    OBVIOUS
  <1>3. md_offset(s) \in Nat /\ md_offset(t) \in Nat /\ bm_blocks(s) \in Nat /\ bm_blocks(t) \in Nat
    BY Layout
  <1> DEFINE k == md_offset(t) - md_offset(s)
  <1>4. k \in Nat /\ k >= 1
    BY <1>3
  <1>5. t <= s + k * WordSectors
    <2>1. md_offset(s) * BlockSectors <= s - BlockSectors
      BY <1>1, <1>2, DivBounds DEF md_offset
    <2>2. t - BlockSectors < md_offset(t) * BlockSectors + BlockSectors
      BY <1>1, <1>2, DivBounds DEF md_offset
    <2>3. md_offset(t) * BlockSectors = md_offset(s) * BlockSectors + k * BlockSectors
      BY <1>2, <1>3
    <2> HIDE DEF k
    <2>4. BlockSectors <= k * BlockSectors
      BY <1>2, <1>4
    <2>5. k * (2 * BlockSectors) <= k * WordSectors
      BY <1>2, <1>4
    <2>6. k * (2 * BlockSectors) = k * BlockSectors + k * BlockSectors
      BY <1>2, <1>4
    <2>7. md_offset(s) * BlockSectors \in Int /\ k * BlockSectors \in Int /\ k * WordSectors \in Int
      BY <1>2, <1>3, <1>4
    <2> QED
      BY <1>1, <1>2, <2>1, <2>2, <2>3, <2>4, <2>5, <2>6, <2>7
  <1> DEFINE v == Ceil(s, WordSectors)
             w == Ceil(t, WordSectors)
  <1> HIDE DEF k
  <1>6. v \in Int /\ w \in Int /\ v <= w /\ w <= v + k
    <2>1. k * WordSectors \in Int
      BY <1>2, <1>4
    <2>2. t + WordSectors - 1 <= (s + WordSectors - 1) + k * WordSectors
      BY <1>1, <1>2, <1>5, <2>1
    <2>3. s + WordSectors - 1 <= t + WordSectors - 1
      BY <1>1, <1>2
    <2>4. (s + WordSectors - 1) \in Int /\ (t + WordSectors - 1) \in Int
      BY <1>1, <1>2
    <2>5. (s + WordSectors - 1) \div WordSectors \in Int /\ (t + WordSectors - 1) \div WordSectors \in Int
      BY <1>2, <2>4, DivBounds
    <2>6. (s + WordSectors - 1) \div WordSectors <= (t + WordSectors - 1) \div WordSectors
      BY <1>2, <1>4, <2>3, <2>4, DivShift
    <2>7. (t + WordSectors - 1) \div WordSectors <= (s + WordSectors - 1) \div WordSectors + k
      BY <1>2, <1>4, <2>2, <2>4, DivShift
    <2> QED
      BY <2>5, <2>6, <2>7 DEF Ceil
  <1> HIDE DEF v, w
  <1>7. /\ v * max_peers \in Int /\ w * max_peers \in Int /\ k * WordsPerBlock \in Int
        /\ v * max_peers <= w * max_peers
        /\ w * max_peers <= v * max_peers + k * WordsPerBlock
    <2>1. w * max_peers <= (v + k) * max_peers
      BY <1>2, <1>4, <1>6
    <2>2. (v + k) * max_peers = v * max_peers + k * max_peers
      BY <1>2, <1>4, <1>6
    <2>3. k * max_peers <= k * WordsPerBlock
      BY <1>2, <1>4
    <2>4. v * max_peers <= w * max_peers
      BY <1>2, <1>6
    <2>5. v * max_peers \in Int /\ w * max_peers \in Int /\ k * WordsPerBlock \in Int /\ k * max_peers \in Int
      BY <1>2, <1>4, <1>6
    <2> QED
      BY <2>1, <2>2, <2>3, <2>4, <2>5
  <1>8. bm_blocks(s) <= bm_blocks(t) /\ bm_blocks(t) <= bm_blocks(s) + k
    <2> DEFINE a == v * max_peers
               c == w * max_peers
    <2>1. a \in Int /\ c \in Int /\ a <= c /\ c <= a + k * WordsPerBlock /\ k * WordsPerBlock \in Int
      BY <1>7
    <2>2. bm_blocks(s) = (a + WordsPerBlock - 1) \div WordsPerBlock
      BY DEF bm_blocks, Ceil, v
    <2>3. bm_blocks(t) = (c + WordsPerBlock - 1) \div WordsPerBlock
      BY DEF bm_blocks, Ceil, w
    <2> HIDE DEF a, c
    <2>4. a + WordsPerBlock - 1 <= c + WordsPerBlock - 1
      BY <1>2, <2>1
    <2>5. c + WordsPerBlock - 1 <= (a + WordsPerBlock - 1) + k * WordsPerBlock
      BY <1>2, <2>1
    <2>6. a + WordsPerBlock - 1 \in Int /\ c + WordsPerBlock - 1 \in Int
      BY <1>2, <2>1
    <2>7. bm_blocks(s) <= bm_blocks(t)
      BY <1>2, <1>4, <2>2, <2>3, <2>4, <2>6, DivShift
    <2>8. bm_blocks(t) <= bm_blocks(s) + k
      BY <1>2, <1>4, <2>2, <2>3, <2>5, <2>6, DivShift
    <2> QED
      BY <2>7, <2>8
  <1> QED
    BY <1>3, <1>4, <1>8 DEF bm_offset, al_offset, k

\* The layouts of the initial, the recorded and the present size.
LEMMA Geometry ==
  ASSUME GrowsByBlocks, TypeOK
  PROVE  /\ md_offset(size) \in Nat /\ al_offset(size) \in Nat /\ bm_offset(size) \in Nat /\ bm_blocks(size) \in Nat
         /\ al_offset(size) = bm_offset(size) + bm_blocks(size)
         /\ md_offset(size) = al_offset(size) + AlBlocks
         /\ AlBlocks \in Nat /\ AlBlocks >= 1 /\ buffer_size \in Nat /\ buffer_size >= 1
         /\ bm_offset(InitialSize) \in Nat /\ bm_blocks(InitialSize) \in Nat
         /\ bm_offset(InitialSize) <= bm_offset(size) /\ bm_blocks(InitialSize) <= bm_blocks(size)
         /\ \A b \in Int : 0 <= b /\ b <= md_offset(size) => b \in Blocks
         /\ Blocks \subseteq Nat
         /\ lk # 0 => /\ md_offset(lk) \in Nat /\ al_offset(lk) \in Nat /\ bm_offset(lk) \in Nat /\ bm_blocks(lk) \in Nat
                      /\ al_offset(lk) = bm_offset(lk) + bm_blocks(lk)
                      /\ md_offset(lk) = al_offset(lk) + AlBlocks
                      /\ bm_offset(InitialSize) <= bm_offset(lk) /\ bm_blocks(InitialSize) <= bm_blocks(lk)
         /\ lk # 0 /\ lk < size => /\ md_offset(lk) < md_offset(size)
                                   /\ bm_offset(lk) <= bm_offset(size)
                                   /\ bm_blocks(lk) <= bm_blocks(size)
  <1>1. InitialSize \in Sizes /\ Sizes \subseteq Nat /\ 0 \notin Sizes /\ buffer_size \in Nat /\ buffer_size >= 1
    BY MoveAssumption DEF Positive
  <1>2. size \in Sizes /\ InitialSize <= size /\ (lk # 0 => lk \in Sizes /\ InitialSize <= lk)
    BY DEF TypeOK
  <1>3. ASSUME NEW s \in Sizes, NEW t \in Sizes, s < t
        PROVE  md_offset(s) < md_offset(t) /\ bm_offset(s) <= bm_offset(t) /\ bm_blocks(s) <= bm_blocks(t)
    BY <1>3, LayoutGrows DEF GrowsByBlocks
  <1>4. ASSUME NEW s \in Sizes, NEW t \in Sizes, s <= t
        PROVE  bm_offset(s) <= bm_offset(t) /\ bm_blocks(s) <= bm_blocks(t)
    <2>1. CASE s = t
      BY <2>1, Layout
    <2>2. CASE s < t
      BY <2>2, <1>3
    <2> QED
      BY <1>1, <1>4, <2>1, <2>2
  <1>5. Blocks \subseteq Nat
    BY DEF Blocks
  <1>6. /\ md_offset(size) \in Nat /\ al_offset(size) \in Nat /\ bm_offset(size) \in Nat /\ bm_blocks(size) \in Nat
        /\ al_offset(size) = bm_offset(size) + bm_blocks(size)
        /\ md_offset(size) = al_offset(size) + AlBlocks
        /\ AlBlocks \in Nat /\ AlBlocks >= 1
        /\ \A b \in Int : 0 <= b /\ b <= md_offset(size) => b \in Blocks
    BY <1>2, Layout
  <1>7. bm_offset(InitialSize) \in Nat /\ bm_blocks(InitialSize) \in Nat
    BY <1>1, Layout
  <1>8. bm_offset(InitialSize) <= bm_offset(size) /\ bm_blocks(InitialSize) <= bm_blocks(size)
    BY <1>1, <1>2, <1>4
  <1>9. lk # 0 => /\ md_offset(lk) \in Nat /\ al_offset(lk) \in Nat /\ bm_offset(lk) \in Nat /\ bm_blocks(lk) \in Nat
                 /\ al_offset(lk) = bm_offset(lk) + bm_blocks(lk)
                 /\ md_offset(lk) = al_offset(lk) + AlBlocks
                 /\ bm_offset(InitialSize) <= bm_offset(lk) /\ bm_blocks(InitialSize) <= bm_blocks(lk)
    <2> SUFFICES ASSUME lk # 0
                 PROVE  /\ md_offset(lk) \in Nat /\ al_offset(lk) \in Nat /\ bm_offset(lk) \in Nat /\ bm_blocks(lk) \in Nat
                        /\ al_offset(lk) = bm_offset(lk) + bm_blocks(lk)
                        /\ md_offset(lk) = al_offset(lk) + AlBlocks
                        /\ bm_offset(InitialSize) <= bm_offset(lk) /\ bm_blocks(InitialSize) <= bm_blocks(lk)
      OBVIOUS
    <2> QED
      BY <1>1, <1>2, <1>4, Layout
  <1>10. lk # 0 /\ lk < size => /\ md_offset(lk) < md_offset(size)
                               /\ bm_offset(lk) <= bm_offset(size)
                               /\ bm_blocks(lk) <= bm_blocks(size)
    BY <1>2, <1>3
  <1> QED
    BY <1>1, <1>5, <1>6, <1>7, <1>8, <1>9, <1>10

-----------------------------------------------------------------------------
(* The steps.  Each one: the type, the superblock, the contents. *)

\* The recorded size is never more than the size.
LEMMA LastKnownSmaller ==
  ASSUME TypeOK, lk # size
  PROVE  lk < size
  <1>1. Sizes \subseteq Nat
    BY MoveAssumption DEF Positive
  <1>2. lk \in Nat /\ size \in Nat /\ lk <= size
    BY <1>1 DEF TypeOK
  <1> QED
    BY <1>2

\* A step that changes nothing.
LEMMA StutterStep ==
  ASSUME IInv, UNCHANGED vars
  PROVE  IInv'
  <1> USE DEF vars
  <1>1. TypeOK => TypeOK'
    BY DEF TypeOK, Moving, Copying, Overlap
  <1>2. (FoundInv => FoundInv') /\ (Safe => Safe')
    BY DEF FoundInv, Safe, Sure, Found, Copying, Overlap
  <1>3. UNCHANGED <<DataKept, Clean, BitmapSplit>>
    BY DEF DataKept, Clean, BitmapSplit
  <1>4. UNCHANGED <<Intact(size), Intact(lk), LogAt(size), BitmapAt(size), Found(disk, size), Found(disk, lk),
                    Overlap(lk, size)>>
    BY DEF Intact, LogAt, BitmapAt, Found, Overlap
  <1>5. IntactInv => IntactInv'
    BY <1>3, <1>4, Zenon DEF IntactInv, Copying
  <1> QED
    BY <1>1, <1>2, <1>5 DEF IInv

\* What is written elsewhere does not endanger the superblocks.
LEMMA SafeKept ==
  ASSUME UNCHANGED <<size, lk, lk_synced>>,
         disk'[md_offset(size)] = disk[md_offset(size)], synced'[md_offset(size)] = synced[md_offset(size)],
         lk # 0 /\ lk < size /\ ~ Overlap(lk, size) =>
           disk'[md_offset(lk)] = disk[md_offset(lk)] /\ synced'[md_offset(lk)] = synced[md_offset(lk)],
         Safe
  PROVE  Safe'
  <1>1. CASE Sure(size)
    BY <1>1 DEF Safe, Sure, Found
  <1>2. CASE lk # 0 /\ lk < size /\ lk_synced = lk /\ (~ Overlap(lk, size) => Sure(lk))
    BY <1>2 DEF Safe, Sure, Found, Overlap
  <1> QED
    BY <1>1, <1>2 DEF Safe

\* A command that opens the metadata at their place only records the size;
\* otherwise it begins to move them.
LEMMA CheckResizeStep ==
  ASSUME GrowsByBlocks, IInv, NEW m \in Modes, check_resize(m)
  PROVE  IInv'
  <1>1. TypeOK /\ pc = "idle"
    BY DEF IInv, check_resize
  <1> UNCHANGED <<size, disk, synced, lk, lk_synced, cur, powerloss, overlapped, exposed>>
    BY DEF check_resize
  <1>2. CASE Opens = "valid"
    <2> pc' \in {"close", "md"}
      BY <1>2 DEF check_resize
    <2>1. Found(disk, size)
      BY <1>2 DEF Opens, is_valid_md, Found
    <2>2. TypeOK'
      BY <1>1, <1>2 DEF TypeOK, Moving, Copying, Closing, Overlap
    <2>3. FoundInv'
      BY <1>1, <1>2, <2>1 DEF FoundInv, Closing, Found, Copying
    <2>4. Safe => Safe'
      BY SafeKept
    <2>5. IntactInv => IntactInv'
      BY <1>1, <1>2, <2>1 DEF IntactInv, Closing, Found, Copying, Overlap, Clean, Intact, BitmapSplit
    <2> QED
      BY <2>2, <2>3, <2>4, <2>5 DEF IInv
  <1>3. CASE Opens = "last known"
    <2> pc' = "al"
      BY <1>3 DEF check_resize
    <2>1. ~ Found(disk, size) /\ lk # 0 /\ lk # size /\ Found(disk, lk)
      BY <1>3 DEF Opens, is_valid_md, Found
    <2>2. lk < size
      BY <1>1, <2>1, LastKnownSmaller
    <2>3. TypeOK'
      BY <1>1, <1>3, <2>1, <2>2 DEF TypeOK, Moving, Copying, Closing, Overlap
    <2>4. FoundInv'
      BY <1>1, <1>3, <2>1 DEF FoundInv, Closing, Found, Copying
    <2>5. Safe => Safe'
      BY SafeKept
    <2>6. IntactInv => IntactInv'
      BY <1>1, <1>3, <2>1 DEF IntactInv, Closing, Found, Copying, Overlap, Clean, Intact, BitmapSplit
    <2> QED
      BY <2>3, <2>4, <2>5, <2>6 DEF IInv
  <1>4. CASE Opens \notin {"valid", "last known"}
    <2>1. UNCHANGED vars
      BY <1>4 DEF check_resize, vars
    <2> QED
      BY <2>1, StutterStep
  <1> QED
    BY <1>2, <1>3, <1>4

\* The activity log is copied to its new place, below the new superblock.
LEMMA MoveAlStep ==
  ASSUME GrowsByBlocks, IInv, move_al
  PROVE  IInv'
  <1>1. TypeOK /\ pc = "al" /\ lk # 0 /\ lk < size
    BY DEF IInv, TypeOK, Moving, move_al
  <1> DEFINE Moved(b) == al_offset(size) <= b /\ b < md_offset(size)
  <1>2. \A b \in Blocks : disk'[b] = IF Moved(b) THEN disk[al_offset(lk) + (b - al_offset(size))] ELSE disk[b]
    BY <1>1, Geometry DEF move_al, Copy, Write
  <1>3. UNCHANGED <<size, lk, lk_synced, powerloss, overlapped, exposed>>
    BY DEF move_al
  <1>4. pc' = "bitmap" /\ cur' = al_offset(lk)
    BY DEF move_al
  <1>5. \A b \in Blocks : ~ Moved(b) => disk'[b] = disk[b] /\ synced'[b] = synced[b]
    BY <1>1, <1>2, Geometry DEF move_al, Copy, Write
  <1>6. TypeOK'
    BY <1>1, <1>2, <1>3, <1>4, <1>5, Geometry DEF TypeOK, Moving, Copying, Closing, Overlap
  <1>7. ASSUME FoundInv PROVE FoundInv'
    BY <1>1, <1>2, <1>3, <1>4, <1>7, Geometry DEF FoundInv, Found, Copying, Closing, Overlap
  <1>8. ASSUME Safe PROVE Safe'
    <2>1. md_offset(size) \in Blocks /\ ~ Moved(md_offset(size))
      BY <1>1, Geometry
    <2>2. ~ Overlap(lk, size) => md_offset(lk) \in Blocks /\ ~ Moved(md_offset(lk))
      BY <1>1, Geometry DEF Overlap
    <2> HIDE DEF Moved
    <2> QED
      BY <1>3, <1>5, <1>8, <2>1, <2>2, SafeKept
  <1>9. ASSUME IntactInv PROVE IntactInv'
    <2>1. Intact(lk) /\ Clean
      BY <1>1, <1>9 DEF IntactInv
    <2>2. DataKept'
      <3> SUFFICES ASSUME NEW b \in 0 .. bm_offset(InitialSize) - 1 PROVE disk'[b] = <<"data", b>>
        BY DEF DataKept
      <3>1. b \in Blocks /\ ~ Moved(b)
        BY <1>1, Geometry
      <3> QED
        BY <1>5, <2>1, <3>1 DEF Intact
    <2>3. LogAt(size)'
      <3> SUFFICES ASSUME NEW i \in 0 .. AlBlocks - 1 PROVE disk'[al_offset(size) + i] = <<"al", i>>
        BY <1>3 DEF LogAt
      <3>1. al_offset(size) + i \in Blocks /\ Moved(al_offset(size) + i)
        BY <1>1, Geometry
      <3>2. disk'[al_offset(size) + i] = disk[al_offset(lk) + i]
        BY <1>1, <1>2, <3>1, Geometry
      <3> QED
        BY <2>1, <3>2 DEF Intact
    <2>4. Clean'
      BY <1>1, <1>2, <1>3, <2>1, Geometry DEF Clean, Superblock
    <2>5. ~ Overlap(lk, size)' => Intact(lk)'
      <3> SUFFICES ASSUME ~ Overlap(lk, size)
                   PROVE  Intact(lk)'
        BY <1>3 DEF Overlap
      <3>1. \A b \in Int : 0 <= b /\ b < bm_offset(size) => disk'[b] = disk[b]
        BY <1>1, <1>2, Geometry
      <3> QED
        BY <1>1, <1>3, <2>1, <3>1, Geometry DEF Intact, Overlap
    <2>6. BitmapSplit'
      <3> SUFFICES ASSUME NEW i \in 0 .. bm_blocks(InitialSize) - 1
                   PROVE  bm_offset(lk) + i < al_offset(lk) /\ disk'[bm_offset(lk) + i] = <<"bm", i>>
        BY <1>3, <1>4 DEF BitmapSplit
      <3>1. bm_offset(lk) + i \in Blocks /\ bm_offset(lk) + i < al_offset(lk) /\ ~ Moved(bm_offset(lk) + i)
        BY <1>1, Geometry
      <3> QED
        BY <1>5, <2>1, <3>1 DEF Intact
    <2> QED
      BY <1>4, <2>2, <2>3, <2>4, <2>5, <2>6 DEF IntactInv, Copying, Closing
  <1> QED
    BY <1>3, <1>6, <1>7, <1>8, <1>9 DEF IInv

\* While the bitmap is written, the data, the activity log, the place of the
\* superblock and, without an overlap, the old metadata are not touched.
LEMMA BitmapWritten ==
  ASSUME GrowsByBlocks, TypeOK, pc \in Copying,
         UNCHANGED <<size, lk, lk_synced>>,
         \A b \in Blocks : b < bm_offset(size) \/ b >= al_offset(size) => disk'[b] = disk[b] /\ synced'[b] = synced[b]
  PROVE  /\ \A b \in Blocks : b > md_offset(size) => disk'[b] = <<"data", b>> /\ synced'[b] = <<"data", b>>
         /\ ~ Overlap(lk, size) /\ Found(disk, lk) => Found(disk', lk)
         /\ Safe => Safe'
         /\ DataKept => DataKept'
         /\ LogAt(size) => LogAt(size)'
         /\ Clean => Clean'
         /\ ~ Overlap(lk, size) /\ Intact(lk) => Intact(lk)'
  <1>1. lk # 0 /\ lk < size
    BY DEF TypeOK, Moving
  <1>2. \A b \in Int : 0 <= b /\ b < bm_offset(size) => disk'[b] = disk[b]
    BY <1>1, Geometry
  <1>3. \A b \in Int : al_offset(size) <= b /\ b <= md_offset(size) => disk'[b] = disk[b]
    BY <1>1, Geometry
  <1>4. \A b \in Blocks : b > md_offset(size) => disk'[b] = <<"data", b>> /\ synced'[b] = <<"data", b>>
    BY <1>1, Geometry DEF TypeOK
  <1>5. ~ Overlap(lk, size) /\ Found(disk, lk) => Found(disk', lk)
    BY <1>1, <1>2, Geometry DEF Overlap, Found
  <1>6. DataKept => DataKept'
    BY <1>1, <1>2, Geometry DEF DataKept
  <1>7. LogAt(size) => LogAt(size)'
    BY <1>1, <1>3, Geometry DEF LogAt
  <1>8. Clean => Clean'
    BY <1>1, <1>3, Geometry DEF Clean
  <1>9. ~ Overlap(lk, size) /\ Intact(lk) => Intact(lk)'
    BY <1>1, <1>2, Geometry DEF Intact, Overlap
  <1>10. Safe => Safe'
    <2>1. md_offset(size) \in Blocks /\ md_offset(size) >= al_offset(size)
      BY Geometry
    <2>2. ~ Overlap(lk, size) => md_offset(lk) \in Blocks /\ md_offset(lk) < bm_offset(size)
      BY <1>1, Geometry DEF Overlap
    <2> QED
      BY <2>1, <2>2, SafeKept
  <1> QED
    BY <1>4, <1>5, <1>6, <1>7, <1>8, <1>9, <1>10

\* A chunk is copied from the end of what is left of the bitmap: what is
\* overwritten has been moved already.
LEMMA MoveChunkStep ==
  ASSUME GrowsByBlocks, IInv, move_chunk
  PROVE  IInv'
  <1>1. TypeOK /\ pc = "bitmap" /\ lk # 0 /\ lk < size /\ cur \in Int /\ bm_offset(lk) <= cur /\ cur <= al_offset(lk)
    BY DEF IInv, TypeOK, Moving, Copying, move_chunk
  <1>2. UNCHANGED <<size, lk, lk_synced, powerloss, overlapped, exposed>>
    BY DEF move_chunk
  <1> DEFINE start == IF cur > bm_offset(lk) + buffer_size THEN cur - buffer_size ELSE bm_offset(lk)
             shift == bm_offset(size) - bm_offset(lk)
             Moved(b) == start + shift <= b /\ b < cur + shift
  <1>3. start \in Int /\ shift \in Int /\ shift >= 0 /\ bm_offset(lk) <= start /\ start <= cur
    BY <1>1, Geometry
  <1>4. \A b \in Blocks : disk'[b] = IF Moved(b) THEN disk[b - shift] ELSE disk[b]
    <2>1. CASE cur > bm_offset(lk) + buffer_size
      BY <1>1, <2>1, Geometry DEF move_chunk, Copy, Write
    <2>2. CASE ~ (cur > bm_offset(lk) + buffer_size)
      BY <1>1, <2>2, Geometry DEF move_chunk, Copy, Write
    <2> QED
      BY <2>1, <2>2
  <1>5. \A b \in Blocks : ~ Moved(b) => synced'[b] = synced[b]
    <2>1. CASE cur > bm_offset(lk) + buffer_size
      BY <1>1, <2>1, Geometry DEF move_chunk, Copy, Write
    <2>2. CASE ~ (cur > bm_offset(lk) + buffer_size)
      BY <1>1, <2>2, Geometry DEF move_chunk, Copy, Write
    <2> QED
      BY <2>1, <2>2
  <1>6. \/ start # bm_offset(lk) /\ pc' = "bitmap" /\ cur' = start
        \/ start = bm_offset(lk) /\ pc' = "trail" /\ cur' = 0
    BY <1>1, Geometry DEF move_chunk
  <1>7. bm_offset(size) = bm_offset(lk) + shift
    BY <1>1, Geometry
  <1> HIDE DEF start, shift
  <1>8. \A b \in Blocks : b < bm_offset(size) \/ b >= al_offset(size) => disk'[b] = disk[b] /\ synced'[b] = synced[b]
    BY <1>1, <1>3, <1>4, <1>5, <1>7, Geometry
  <1>9. TypeOK'
    BY <1>1, <1>2, <1>3, <1>6, <1>8, BitmapWritten, Geometry DEF TypeOK, Moving, Copying, Closing
  <1>10. Safe => Safe'
    BY <1>1, <1>2, <1>8, BitmapWritten DEF Copying
  <1>11. ASSUME FoundInv PROVE FoundInv'
    <2>1. ~ Overlap(lk, size) => Found(disk, lk)
      BY <1>1, <1>11 DEF FoundInv, Copying
    <2>2. ~ Overlap(lk, size) => Found(disk', lk)
      BY <1>1, <1>2, <1>8, <2>1, BitmapWritten DEF Copying
    <2> QED
      BY <1>2, <1>6, <2>1, <2>2 DEF FoundInv, Found, Copying, Closing, Overlap
  <1>12. ASSUME IntactInv PROVE IntactInv'
    <2>1. DataKept /\ LogAt(size) /\ Clean /\ (~ Overlap(lk, size) => Intact(lk)) /\ BitmapSplit
      BY <1>1, <1>12 DEF IntactInv, Copying
    <2>2. DataKept' /\ LogAt(size)' /\ Clean' /\ (~ Overlap(lk, size)' => Intact(lk)')
      BY <1>1, <1>2, <1>8, <2>1, BitmapWritten DEF Copying, Overlap
    <2>3. ASSUME NEW i \in 0 .. bm_blocks(InitialSize) - 1
          PROVE  IF bm_offset(lk) + i < start THEN disk'[bm_offset(lk) + i] = <<"bm", i>>
                 ELSE disk'[bm_offset(size) + i] = <<"bm", i>>
      <3>1. bm_offset(lk) + i \in Blocks /\ bm_offset(size) + i \in Blocks
        BY <1>1, Geometry
      <3>2. CASE bm_offset(lk) + i < start
        BY <1>1, <1>3, <1>4, <2>1, <3>1, <3>2, Geometry DEF BitmapSplit
      <3>3. CASE ~ (bm_offset(lk) + i < start) /\ bm_offset(lk) + i < cur
        BY <1>1, <1>3, <1>4, <1>7, <2>1, <3>1, <3>3, Geometry DEF BitmapSplit
      <3>4. CASE ~ (bm_offset(lk) + i < start) /\ ~ (bm_offset(lk) + i < cur)
        BY <1>1, <1>3, <1>4, <1>7, <2>1, <3>1, <3>4, Geometry DEF BitmapSplit
      <3> QED
        BY <3>2, <3>3, <3>4
    <2>4. CASE pc' = "bitmap"
      <3>1. BitmapSplit'
        BY <1>2, <1>6, <2>3, <2>4 DEF BitmapSplit
      <3> QED
        BY <2>2, <2>4, <3>1 DEF IntactInv, Copying, Closing
    <2>5. CASE pc' = "trail"
      <3>1. BitmapAt(size)'
        BY <1>1, <1>2, <1>6, <2>3, <2>5, Geometry DEF BitmapAt
      <3> QED
        BY <2>2, <2>5, <3>1 DEF IntactInv, Copying, Closing
    <2> QED
      BY <1>6, <2>4, <2>5
  <1> QED
    BY <1>2, <1>9, <1>10, <1>11, <1>12 DEF IInv

\* The part of the bitmap for the new sectors follows what has been moved.
LEMMA TrailStep ==
  ASSUME GrowsByBlocks, IInv, initialize_trail
  PROVE  IInv'
  <1>1. TypeOK /\ pc = "trail" /\ lk # 0 /\ lk < size
    BY DEF IInv, TypeOK, Moving, Copying, initialize_trail
  <1>2. UNCHANGED <<size, lk, lk_synced, cur, powerloss, overlapped, exposed>> /\ pc' = "super"
    BY DEF initialize_trail
  <1>3. \A b \in Blocks : b < bm_offset(size) + bm_blocks(lk) \/ b >= al_offset(size) =>
          disk'[b] = disk[b] /\ synced'[b] = synced[b]
    <2>1. CASE mode = "skip"
      BY <2>1 DEF initialize_trail
    <2>2. CASE mode # "skip"
      BY <1>1, <2>2, Geometry DEF initialize_trail, Fill, Write
    <2> QED
      BY <2>1, <2>2
  <1>4. \A b \in Blocks : b < bm_offset(size) \/ b >= al_offset(size) => disk'[b] = disk[b] /\ synced'[b] = synced[b]
    BY <1>1, <1>3, Geometry
  <1>5. TypeOK'
    BY <1>1, <1>2, <1>4, BitmapWritten DEF TypeOK, Moving, Copying, Closing
  <1>6. Safe => Safe'
    BY <1>1, <1>2, <1>4, BitmapWritten DEF Copying
  <1>7. ASSUME FoundInv PROVE FoundInv'
    <2>1. ~ Overlap(lk, size) => Found(disk, lk)
      BY <1>1, <1>7 DEF FoundInv, Copying
    <2>2. ~ Overlap(lk, size) => Found(disk', lk)
      BY <1>1, <1>2, <1>4, <2>1, BitmapWritten DEF Copying
    <2> QED
      BY <1>2, <2>1, <2>2 DEF FoundInv, Found, Copying, Closing, Overlap
  <1>8. ASSUME IntactInv PROVE IntactInv'
    <2>1. DataKept /\ LogAt(size) /\ Clean /\ (~ Overlap(lk, size) => Intact(lk)) /\ BitmapAt(size)
      BY <1>1, <1>8 DEF IntactInv, Copying
    <2>2. DataKept' /\ LogAt(size)' /\ Clean' /\ (~ Overlap(lk, size)' => Intact(lk)')
      BY <1>1, <1>2, <1>4, <2>1, BitmapWritten DEF Copying, Overlap
    <2>3. BitmapAt(size)'
      BY <1>1, <1>2, <1>3, <2>1, Geometry DEF BitmapAt
    <2> QED
      BY <1>2, <2>2, <2>3 DEF IntactInv, Copying, Closing
  <1> QED
    BY <1>2, <1>5, <1>6, <1>7, <1>8 DEF IInv

\* The new superblock is written when all it refers to is in place.
LEMMA SuperblockStep ==
  ASSUME GrowsByBlocks, IInv, write_superblock
  PROVE  IInv'
  <1>1. TypeOK /\ pc = "super" /\ lk # 0 /\ lk < size
    BY DEF IInv, TypeOK, Moving, Copying, write_superblock
  <1>2. UNCHANGED <<size, lk, lk_synced, cur, powerloss, overlapped, exposed>> /\ pc' = "sync"
    BY DEF write_superblock
  <1>3. \A b \in Blocks :
          /\ disk'[b] = IF b = md_offset(size) THEN Superblock(size) ELSE disk[b]
          /\ synced'[b] = synced[b] \/ (b = md_offset(size) /\ synced'[b] = disk[b])
    BY <1>1, Geometry DEF write_superblock, Fill, Write
  <1>4. TypeOK'
    BY <1>1, <1>2, <1>3, Geometry DEF TypeOK, Moving, Copying, Closing
  <1>5. Found(disk, size)'
    BY <1>1, <1>2, <1>3, Geometry DEF Found
  <1>6. ASSUME FoundInv PROVE FoundInv'
    <2>1. ~ Overlap(lk, size) => Found(disk, lk)
      BY <1>1, <1>6 DEF FoundInv, Copying
    <2>2. ~ Overlap(lk, size) => Found(disk', lk)
      BY <1>1, <1>3, <2>1, Geometry DEF Found
    <2> QED
      BY <1>2, <1>5, <2>1, <2>2 DEF FoundInv, Found, Copying, Closing, Overlap
  <1>7. ASSUME IntactInv PROVE IntactInv'
    <2>1. DataKept /\ LogAt(size) /\ BitmapAt(size)
      BY <1>1, <1>7 DEF IntactInv, Copying
    <2>2. \A b \in Int : 0 <= b /\ b < md_offset(size) => disk'[b] = disk[b]
      BY <1>1, <1>3, Geometry
    <2>3. Intact(size)'
      BY <1>1, <1>2, <2>1, <2>2, Geometry DEF Intact, DataKept, LogAt, BitmapAt
    <2> QED
      BY <1>2, <2>3 DEF IntactInv, Copying, Closing
  <1>8. ASSUME Safe PROVE Safe'
    <2>1. md_offset(size) \in Blocks /\ md_offset(lk) \in Blocks /\ md_offset(lk) # md_offset(size)
      BY <1>1, Geometry
    <2>2. Sure(size) => Sure(size)'
      BY <1>2, <1>3, <1>5, <2>1 DEF Sure, Found
    <2>3. Sure(lk) => Sure(lk)'
      BY <1>2, <1>3, <2>1 DEF Sure, Found
    <2> QED
      BY <1>1, <1>2, <1>8, <2>2, <2>3 DEF Safe, Overlap
  <1> QED
    BY <1>2, <1>4, <1>6, <1>7, <1>8 DEF IInv

\* All that was written is on the device before the old metadata is wiped.
LEMMA SyncStep ==
  ASSUME GrowsByBlocks, IInv, sync
  PROVE  IInv'
  <1>1. TypeOK /\ pc = "sync" /\ lk # 0 /\ lk < size
    BY DEF IInv, TypeOK, Moving, Copying, sync
  <1>2. UNCHANGED <<disk, size, lk, lk_synced, powerloss, overlapped>> /\ synced' = disk /\ exposed' = FALSE
    BY DEF sync
  <1>3. \/ pc' = "close" /\ cur' = cur
        \/ pc' = "wipe" /\ cur' = bm_offset(lk) /\ ~ Overlap(lk, size)
    BY DEF sync
  <1>4. TypeOK'
    <2>1. cur' \in Int /\ pc' \in {"close", "wipe"}
      BY <1>1, <1>3, Geometry DEF TypeOK
    <2>2. pc' = "wipe" => bm_offset(lk) <= cur' /\ cur' <= md_offset(lk) + 1 /\ ~ Overlap(lk, size)
      BY <1>1, <1>3, Geometry
    <2> QED
      BY <1>1, <1>2, <2>1, <2>2 DEF TypeOK, Moving, Copying, Closing, Overlap
  <1>5. ASSUME FoundInv PROVE FoundInv' /\ Safe'
    <2>1. Found(disk, size)
      BY <1>1, <1>5 DEF FoundInv
    <2> QED
      BY <1>2, <1>3, <2>1 DEF FoundInv, Safe, Sure, Found, Copying, Closing
  <1>6. ASSUME IntactInv PROVE IntactInv'
    <2>1. Intact(size)
      BY <1>1, <1>6 DEF IntactInv
    <2>2. Intact(size)'
      BY <1>2, <2>1 DEF Intact
    <2> QED
      BY <1>3, <2>2 DEF IntactInv, Copying, Closing
  <1> QED
    BY <1>2, <1>4, <1>5, <1>6 DEF IInv

\* The old metadata, which the new does not overlap, is wiped.
LEMMA WipeStep ==
  ASSUME GrowsByBlocks, IInv, wipe
  PROVE  IInv'
  <1>1. /\ TypeOK /\ pc = "wipe" /\ lk # 0 /\ lk < size
        /\ cur \in Int /\ bm_offset(lk) <= cur /\ cur <= md_offset(lk) + 1 /\ ~ Overlap(lk, size)
    BY DEF IInv, TypeOK, Moving, Copying, wipe
  <1>2. md_offset(lk) + 1 <= bm_offset(size)
    BY <1>1, Geometry DEF Overlap
  <1>3. UNCHANGED <<size, lk, lk_synced, powerloss, overlapped, exposed>>
    BY DEF wipe
  <1> DEFINE n == IF md_offset(lk) + 1 - cur > buffer_size THEN buffer_size ELSE md_offset(lk) + 1 - cur
  <1>4. n \in Int /\ n >= 0 /\ cur + n <= md_offset(lk) + 1
    BY <1>1, Geometry
  <1>5. \/ pc' = "wipe" /\ cur' = cur + n
        \/ pc' = "close" /\ cur' = 0
    BY <1>1, <1>2, Geometry DEF wipe
  <1>6. \A b \in Blocks : b < bm_offset(lk) \/ b >= bm_offset(size) => disk'[b] = disk[b] /\ synced'[b] = synced[b]
    BY <1>1, <1>2, <1>4, Geometry DEF wipe, Fill, Write
  <1> HIDE DEF n
  <1>7. TypeOK'
    BY <1>1, <1>3, <1>4, <1>5, <1>6, Geometry DEF TypeOK, Moving, Copying, Closing, Overlap
  <1>8. ASSUME FoundInv PROVE FoundInv' /\ Safe'
    <2>1. Found(disk, size) /\ Found(synced, size)
      BY <1>1, <1>8 DEF FoundInv
    <2>2. Found(disk', size) /\ Found(synced', size)
      BY <1>1, <1>6, <2>1, Geometry DEF Found
    <2> QED
      BY <1>3, <1>5, <2>2 DEF FoundInv, Safe, Sure, Found, Copying, Closing
  <1>9. ASSUME IntactInv PROVE IntactInv'
    <2>1. Intact(size)
      BY <1>1, <1>9 DEF IntactInv
    <2>2. \A b \in Int : 0 <= b /\ b <= md_offset(size) /\ (b < bm_offset(lk) \/ b >= bm_offset(size)) => disk'[b] = disk[b]
      BY <1>1, <1>6, Geometry
    <2>3. Intact(size)'
      BY <1>1, <1>3, <2>1, <2>2, Geometry DEF Intact
    <2> QED
      BY <1>5, <2>3 DEF IntactInv, Copying, Closing
  <1> QED
    BY <1>3, <1>7, <1>8, <1>9 DEF IInv

\* The file with the size is emptied, written and synced, then the device
\* is, with the metadata at their place.
LEMMA CloseStep ==
  ASSUME GrowsByBlocks, IInv, truncate_lk \/ write_lk \/ sync_lk \/ close_md
  PROVE  IInv'
  <1>1. TypeOK /\ pc \in Closing
    BY DEF IInv, truncate_lk, write_lk, sync_lk, close_md, Closing
  <1>2. UNCHANGED <<disk, size, powerloss, overlapped, cur>> /\ (synced' = synced \/ synced' = disk)
    BY DEF truncate_lk, write_lk, sync_lk, close_md, SaveLk
  <1>3. lk' \in {0, size, lk} /\ lk_synced' \in {lk, lk_synced}
    BY DEF truncate_lk, write_lk, sync_lk, close_md, SaveLk
  <1>4. \/ pc' \in Closing
        \/ pc' = "idle" /\ synced' = disk
    BY DEF truncate_lk, write_lk, sync_lk, close_md, Closing
  <1>5. Sizes \subseteq Nat \ {0}
    BY MoveAssumption DEF Positive
  <1>6. exposed' \in BOOLEAN
    BY <1>1 DEF TypeOK, truncate_lk, write_lk, sync_lk, close_md
  <1>7. TypeOK'
    <2>1. pc' = "save" => lk' = 0
      BY <1>1 DEF truncate_lk, write_lk, sync_lk, close_md, SaveLk
    <2> QED
      BY <1>1, <1>2, <1>3, <1>4, <1>5, <1>6, <2>1 DEF TypeOK, Moving, Copying, Closing
  <1>8. ASSUME FoundInv PROVE FoundInv'
    <2>1. Found(disk, size)
      BY <1>1, <1>8 DEF FoundInv
    <2> QED
      BY <1>2, <1>4, <2>1 DEF FoundInv, Found, Copying, Closing
  <1>9. ASSUME FoundInv, ~ exposed', exposed \/ Safe PROVE Safe'
    <2>1. Found(disk, size)
      BY <1>1, <1>9 DEF FoundInv
    <2>2. CASE truncate_lk
      BY <1>2, <1>9, <2>2 DEF truncate_lk, SaveLk, SuperblockSynced, is_valid_md, Safe, Sure, Found
    <2>3. CASE write_lk
      <3>1. ~ exposed /\ UNCHANGED <<disk, synced, size>> /\ pc = "save"
        BY <1>9, <2>3 DEF write_lk, SaveLk
      <3>2. Sure(size)
        BY <1>1, <1>9, <3>1 DEF TypeOK, Safe
      <3> QED
        BY <3>1, <3>2 DEF Safe, Sure, Found
    <2>4. CASE sync_lk
      <3>1. ~ exposed /\ UNCHANGED <<disk, synced, size, lk>> /\ lk_synced' = lk
        BY <1>9, <2>4 DEF sync_lk
      <3> QED
        BY <1>9, <3>1 DEF Safe, Sure, Found, Overlap
    <2>5. CASE close_md
      BY <2>1, <2>5 DEF close_md, Safe, Sure, Found
    <2> QED
      BY <2>2, <2>3, <2>4, <2>5
  <1>10. ASSUME FoundInv, IntactInv PROVE IntactInv'
    <2>1. Intact(size) /\ Found(disk, size)
      BY <1>1, <1>10 DEF IntactInv, FoundInv
    <2>2. Intact(size)' /\ Found(disk, size)'
      BY <1>2, <2>1 DEF Intact, Found
    <2> QED
      BY <1>4, <2>2 DEF IntactInv, Copying, Closing
  <1> QED
    BY <1>2, <1>7, <1>8, <1>9, <1>10 DEF IInv

\* On a device that has grown, the metadata is where its recorded size says,
\* and there is no superblock at its new end.
LEMMA GrowStep ==
  ASSUME GrowsByBlocks, IInv, NEW s \in Sizes, grow(s)
  PROVE  IInv'
  <1>1. TypeOK /\ pc = "idle" /\ lk = size /\ size < s
    BY DEF IInv, grow
  <1>2. /\ UNCHANGED <<disk, synced, lk, lk_synced, pc, cur, powerloss, overlapped>> /\ size' = s
        /\ exposed' = (exposed \/ lk_synced # lk)
    BY DEF grow
  <1>3. Sizes \subseteq Nat \ {0} /\ InitialSize \in Nat
    BY MoveAssumption DEF Positive
  <1>4. md_offset(size) < md_offset(s) /\ md_offset(s) \in Blocks /\ md_offset(s) \in Nat /\ md_offset(size) \in Nat
    <2>1. size \in Sizes
      BY <1>1 DEF TypeOK
    <2>2. md_offset(s) \in Nat /\ md_offset(size) \in Nat
      BY <2>1, Layout
    <2>3. md_offset(s) \in Blocks
      BY <2>2, Layout
    <2> QED
      BY <1>1, <2>1, <2>2, <2>3 DEF GrowsByBlocks
  <1>5. disk[md_offset(s)] = <<"data", md_offset(s)>>
    BY <1>1, <1>4 DEF TypeOK
  <1>6. lk \in Nat \ {0} /\ s \in Nat \ {0} /\ InitialSize <= lk
    BY <1>1, <1>3 DEF TypeOK
  <1>7. TypeOK'
    <2>1. \A b \in Blocks : b > md_offset(s) => disk[b] = <<"data", b>> /\ synced[b] = <<"data", b>>
      BY <1>1, <1>4, Geometry DEF TypeOK
    <2> QED
      BY <1>1, <1>2, <1>3, <1>6, <2>1 DEF TypeOK, Moving, Copying, Closing
  <1>8. ASSUME FoundInv PROVE FoundInv'
    <2>1. ~ (exposed /\ powerloss)' => Found(disk, lk)
      BY <1>1, <1>2, <1>6, <1>8 DEF FoundInv, TypeOK
    <2> QED
      BY <1>1, <1>2, <1>6, <2>1 DEF FoundInv, Found, Copying, Closing
  <1>9. ASSUME ~ exposed', exposed \/ Safe PROVE Safe'
    <2>1. ~ exposed /\ lk_synced = lk
      BY <1>1, <1>2, <1>9 DEF TypeOK
    <2>2. Sure(lk)
      BY <1>1, <1>6, <1>9, <2>1 DEF Safe
    <2> QED
      BY <1>1, <1>2, <1>6, <2>1, <2>2 DEF Safe, Sure, Found
  <1>10. ASSUME IntactInv PROVE IntactInv'
    <2>1. Found(disk, lk) /\ Intact(lk)
      BY <1>1, <1>6, <1>10 DEF IntactInv
    <2>2. Found(disk, lk)' /\ Intact(lk)'
      BY <1>2, <2>1 DEF Found, Intact
    <2>3. Clean'
      BY <1>2, <1>5 DEF Clean, Superblock
    <2> QED
      BY <1>1, <1>2, <1>6, <2>2, <2>3 DEF IntactInv, Copying, Closing
  <1> QED
    BY <1>2, <1>7, <1>8, <1>9, <1>10 DEF IInv

\* A killed command leaves all that it wrote, and what it had synced.
LEMMA KilledStep ==
  ASSUME GrowsByBlocks, IInv, killed
  PROVE  IInv'
  <1>1. TypeOK /\ pc # "idle" /\ pc' = "idle" /\ cur' = 0
    BY DEF IInv, killed, Crash
  <1>2. UNCHANGED <<size, disk, synced, lk, lk_synced, powerloss, exposed>>
    BY DEF killed, Crash
  <1>3. overlapped' = (overlapped \/ (Overlapping /\ pc \in Copying))
    BY DEF killed, Crash
  <1>4. TypeOK'
    BY <1>1, <1>2, <1>3 DEF TypeOK, Moving, Copying, Closing
  <1>5. pc \in Moving => lk # 0 /\ lk < size /\ lk # size
    <2>1. Sizes \subseteq Nat
      BY MoveAssumption DEF Positive
    <2>2. lk \in Nat /\ size \in Nat
      BY <1>1, <2>1 DEF TypeOK
    <2>3. pc \in Moving => lk # 0 /\ lk < size
      BY <1>1 DEF TypeOK
    <2> QED
      BY <2>2, <2>3
  <1>6. ASSUME ~ overlapped' PROVE ~ overlapped /\ (pc \in Copying => ~ Overlap(lk, size))
    BY <1>1, <1>3, <1>5, <1>6 DEF TypeOK, Overlapping, Moving
  <1>7. pc \in Closing \union Moving
    BY <1>1 DEF TypeOK
  <1>8. ASSUME FoundInv, ~ overlapped' PROVE FoundInv'
    <2>1. Found(disk, size) \/ (lk # 0 /\ lk < size /\ Found(disk, lk))
      BY <1>5, <1>6, <1>7, <1>8 DEF FoundInv, Moving, Copying
    <2> QED
      BY <1>1, <1>2, <2>1 DEF FoundInv, Found, Copying, Closing
  <1>9. Safe => Safe'
    BY <1>2, SafeKept
  <1>10. ASSUME FoundInv, IntactInv, ~ overlapped' PROVE IntactInv'
    <2>1. \/ Found(disk, size) /\ Intact(size)
          \/ lk # 0 /\ lk < size /\ Found(disk, lk) /\ Intact(lk) /\ Clean
      BY <1>5, <1>6, <1>7, <1>10 DEF FoundInv, IntactInv, Moving, Copying
    <2>2. UNCHANGED <<Found(disk, size), Intact(size), Found(disk, lk), Intact(lk), Clean>>
      BY <1>2 DEF Found, Intact, Clean
    <2> QED
      BY <1>1, <1>2, <2>1, <2>2 DEF IntactInv, Copying, Closing
  <1> QED
    BY <1>2, <1>4, <1>6, <1>8, <1>9, <1>10 DEF IInv

\* A power failure may take back any of the writes since the last sync: a
\* block that stable storage and a read agree on keeps its content.
LEMMA PowerFailsStep ==
  ASSUME GrowsByBlocks, IInv, power_fails
  PROVE  IInv'
  <1>1. TypeOK /\ pc' = "idle" /\ cur' = 0 /\ synced' = disk' /\ lk_synced' = lk' /\ powerloss' = TRUE
    BY DEF IInv, power_fails, Crash
  <1>2. UNCHANGED <<size, exposed>> /\ lk' \in {lk, lk_synced}
    BY DEF power_fails, Crash
  <1>3. overlapped' = (overlapped \/ (Overlapping /\ (pc \in Copying \/ (Unsynced /\ ~ SuperblockSynced))))
    BY DEF power_fails, Crash
  <1>4. \A b \in Blocks : disk'[b] = disk[b] \/ disk'[b] = synced[b]
    BY DEF power_fails
  <1>5. TypeOK'
    BY <1>1, <1>2, <1>3, <1>4 DEF TypeOK, Moving, Copying, Closing
  <1>6. ASSUME NEW s \in Sizes, Sure(s) PROVE Found(disk', s)
    <2>1. md_offset(s) \in Blocks
      BY Layout
    <2> QED
      BY <1>4, <1>6, <2>1 DEF Sure, Found
  <1>7. size \in Sizes /\ size \in Nat /\ (lk # 0 => lk \in Sizes /\ lk \in Nat)
    <2> Sizes \subseteq Nat
      BY MoveAssumption DEF Positive
    <2> QED
      BY <1>1 DEF TypeOK
  <1>8. ASSUME ~ overlapped', ~ exposed, FoundInv, Safe
        PROVE  \/ Found(disk', size)
               \/ lk' # 0 /\ lk' < size /\ Found(disk', lk') 
    <2>1. CASE Sure(size)
      BY <1>6, <1>7, <2>1
    <2>2. CASE lk # 0 /\ lk < size /\ lk_synced = lk /\ ~ Overlap(lk, size) /\ Sure(lk)
      BY <1>2, <1>6, <1>7, <2>2
    <2>3. CASE lk # 0 /\ lk < size /\ lk_synced = lk /\ Overlap(lk, size) /\ ~ Sure(size)
      <3>1. Overlapping
        BY <1>7, <2>3 DEF Overlapping
      <3>2. ~ SuperblockSynced
        BY <2>3 DEF SuperblockSynced, is_valid_md, Sure, Found
      <3>3. pc \notin Copying /\ disk = synced /\ lk' = lk
        BY <1>2, <1>3, <1>8, <2>3, <3>1, <3>2 DEF Unsynced
      <3>4. Found(disk, size) \/ Found(disk, lk)
        BY <1>1, <1>8, <3>3 DEF FoundInv, TypeOK, Moving
      <3>5. CASE Found(disk, size)
        BY <2>3, <3>3, <3>5 DEF Sure, Found
      <3>6. CASE Found(disk, lk)
        BY <1>6, <1>7, <2>3, <3>3, <3>6 DEF Sure, Found
      <3> QED
        BY <3>4, <3>5, <3>6
    <2> QED
      BY <1>8, <2>1, <2>2, <2>3 DEF Safe
  <1>9. ASSUME ~ overlapped', FoundInv, exposed \/ Safe PROVE FoundInv'
    BY <1>1, <1>2, <1>8, <1>9 DEF FoundInv, Found, Copying, Closing
  <1>10. ASSUME ~ overlapped', ~ exposed, FoundInv, Safe PROVE Safe'
    BY <1>1, <1>2, <1>8, <1>10 DEF Safe, Sure, Found
  <1>11. overlapped \in BOOLEAN /\ exposed \in BOOLEAN
    BY <1>1 DEF TypeOK
  <1> QED
    BY <1>1, <1>2, <1>3, <1>5, <1>9, <1>10, <1>11 DEF IInv

-----------------------------------------------------------------------------
(* The theorems *)

\* Before the device grows everything is in its place.
LEMMA InitInv ==
  ASSUME Init
  PROVE  IInv
  <1>1. InitialSize \in Sizes /\ InitialSize \in Nat /\ InitialSize # 0
    BY MoveAssumption DEF Positive
  <1> DEFINE s == InitialSize
  <1>2. /\ md_offset(s) \in Nat /\ al_offset(s) \in Nat /\ bm_offset(s) \in Nat /\ bm_blocks(s) \in Nat
        /\ AlBlocks \in Nat
        /\ al_offset(s) = bm_offset(s) + bm_blocks(s)
        /\ md_offset(s) = al_offset(s) + AlBlocks
        /\ \A b \in Int : 0 <= b /\ b <= md_offset(s) => b \in Blocks
    BY <1>1, Layout
  <1>3. /\ size = s /\ lk = s /\ lk_synced = s /\ synced = disk /\ pc = "idle" /\ cur = 0
        /\ overlapped = FALSE /\ powerloss = FALSE /\ exposed = FALSE
    BY DEF Init
  <1>4. \A b \in Blocks : b \in Nat
    BY DEF Blocks
  <1>5. disk = [b \in Blocks |->
                  IF b = md_offset(s) THEN Superblock(s)
                  ELSE IF b \in al_offset(s) .. md_offset(s) - 1 THEN <<"al", b - al_offset(s)>>
                  ELSE IF b \in bm_offset(s) .. al_offset(s) - 1 THEN <<"bm", b - bm_offset(s)>>
                  ELSE <<"data", b>>]
    BY <1>3 DEF Init
  <1> HIDE DEF s
  <1>6. \A b \in Blocks : b < bm_offset(s) \/ b > md_offset(s) => disk[b] = <<"data", b>>
    BY <1>2, <1>4, <1>5
  <1>7. TypeOK
    <2>1. size \in Sizes /\ size \in Nat /\ InitialSize <= size /\ lk = size /\ lk_synced = size
      BY <1>1, <1>3 DEF s
    <2>2. \A b \in Blocks : b > md_offset(size) => disk[b] = <<"data", b>> /\ synced[b] = <<"data", b>>
      BY <1>3, <1>6
    <2>3. overlapped \in BOOLEAN /\ powerloss \in BOOLEAN /\ exposed \in BOOLEAN
      BY <1>3
    <2>4. pc = "idle" /\ cur = 0
      BY <1>3
    <2> QED
      BY <2>1, <2>2, <2>3, <2>4 DEF TypeOK, Moving, Copying, Closing
  <1>8. Found(disk, size)
    BY <1>2, <1>3, <1>5 DEF Found
  <1>9. Intact(size)
    <2>1. ASSUME NEW i \in 0 .. AlBlocks - 1 PROVE disk[al_offset(s) + i] = <<"al", i>>
      <3>1. al_offset(s) + i \in Blocks /\ al_offset(s) + i < md_offset(s) /\ (al_offset(s) + i) - al_offset(s) = i
        BY <1>2
      <3> QED
        BY <1>2, <1>5, <3>1
    <2>2. ASSUME NEW i \in 0 .. bm_blocks(s) - 1 PROVE disk[bm_offset(s) + i] = <<"bm", i>>
      <3>1. bm_offset(s) + i \in Blocks /\ bm_offset(s) + i < al_offset(s) /\ (bm_offset(s) + i) - bm_offset(s) = i
        BY <1>2
      <3> QED
        BY <1>2, <1>5, <3>1
    <2>3. \A b \in 0 .. bm_offset(s) - 1 : disk[b] = <<"data", b>>
      BY <1>2, <1>6
    <2> QED
      BY <1>3, <2>1, <2>2, <2>3 DEF Intact, s
  <1> QED
    BY <1>3, <1>7, <1>8, <1>9 DEF IInv, FoundInv, Safe, Sure, Found, IntactInv, Copying, Closing

\* Every step keeps the invariant.
LEMMA NextInv ==
  ASSUME GrowsByBlocks, IInv, [Next]_vars
  PROVE  IInv'
  <1>1. CASE Next
    BY <1>1, CheckResizeStep, MoveAlStep, MoveChunkStep, TrailStep, SuperblockStep, SyncStep, WipeStep, CloseStep,
       GrowStep, KilledStep, PowerFailsStep DEF Next
  <1>2. CASE UNCHANGED vars
    BY <1>2, StutterStep
  <1> QED
    BY <1>1, <1>2

\* The invariant, for every device that grows by whole blocks.
LEMMA Invariant ==
  ASSUME GrowsByBlocks
  PROVE  Spec => []IInv
  <1>1. Init => IInv
    BY InitInv
  <1>2. IInv /\ [Next]_vars => IInv'
    BY NextInv
  <1> QED
    BY <1>1, <1>2, PTL DEF Spec

\* However often commands are killed and power fails, and whichever unsynced
\* writes are lost then, the next command finds a superblock: the old one
\* until the new one has been synced (v08_move_internal_md_after_resize()).
\* What ends this is recorded in exposed: the file emptied for a superblock
\* that was not synced (v08_md_close()), or not synced when the device grew.
THEOREM SuperblockFound ==
  ASSUME GrowsByBlocks
  PROVE  Spec => []SuperblockSurvives
  <1>1. IInv => SuperblockSurvives
    <2> SUFFICES ASSUME TypeOK, FoundInv, pc = "idle", ~ exposed PROVE Opens # "none"
      BY DEF IInv, SuperblockSurvives
    <2>1. Found(disk, size) \/ (lk # 0 /\ lk < size /\ Found(disk, lk))
      BY DEF FoundInv
    <2>2. lk < size => lk # size
      <3> Sizes \subseteq Nat
        BY MoveAssumption DEF Positive
      <3> QED
        BY DEF TypeOK
    <2> QED
      BY <2>1, <2>2 DEF Opens, is_valid_md, Found
  <1> QED
    BY <1>1, Invariant, PTL

\* However often a command is killed, and wherever, the metadata that the
\* next one opens is complete: the activity log, the bitmap of the device
\* before it grew, and the data below it.
THEOREM MetadataComplete ==
  ASSUME GrowsByBlocks
  PROVE  Spec => []MetadataIntact
  <1>1. IInv => MetadataIntact
    <2> SUFFICES ASSUME TypeOK, IntactInv, pc = "idle"
                 PROVE  /\ Opens = "valid" => Intact(size)
                        /\ Opens = "last known" => Intact(lk)
                        /\ Opens # "none"
      BY DEF IInv, MetadataIntact
    <2>1. \/ Found(disk, size) /\ Intact(size)
          \/ lk # 0 /\ lk < size /\ Found(disk, lk) /\ Intact(lk) /\ ~ Found(disk, size)
      BY DEF IntactInv, Clean, Found
    <2>2. lk < size => lk # size
      <3> Sizes \subseteq Nat
        BY MoveAssumption DEF Positive
      <3> QED
        BY DEF TypeOK
    <2> QED
      BY <2>1, <2>2 DEF Opens, is_valid_md, Found
  <1> QED
    BY <1>1, Invariant, PTL
=============================================================================
