------------------------------ MODULE MetadataMove ------------------------------
(***************************************************************************)
(* drbdmeta check-resize (user/shared/drbdmeta.c): internal metadata is at *)
(* the end of the backing device, so a device that has grown while DRBD    *)
(* did not use it holds it at the wrong place.  The command finds it with  *)
(* the size it has recorded (the "last known" file, shared_tool.c) and     *)
(* moves activity log, bitmap and superblock, in chunks, to ranges that    *)
(* may overlap the old ones.                                               *)
(*                                                                         *)
(*   | data ...             [bitmap][AL][SB]|             last known       *)
(*   | data ...                      [bitmap     ][AL][SB]|                *)
(*                                                                         *)
(* The device is an array of 4k blocks.  It is opened without O_SYNC: what *)
(* is written may stay in a cache until a sync.  The process can be killed *)
(* between any two writes: all it wrote can be read, and nothing is synced *)
(* by that.  Power can fail, also when no command runs: each block, and    *)
(* the file with the last known size, then holds what it did at its last   *)
(* sync or anything that was written to it since.                          *)
(***************************************************************************)
EXTENDS Integers

CONSTANTS
  InitialSize,
  Sizes,             \* bound: the sizes of the device, in sectors
  BlockSectors,      \* sectors of a 4k block
  AlBlocks,          \* blocks of the activity log
  max_peers,
  WordSectors,       \* sectors that a word of a peer's bitmap covers
  WordsPerBlock,     \* words in a block
  buffer_size,       \* blocks of on_disk_buffer
  Modes,             \* bound: the values of --initialize-bitmap
  MaxGrowths, MaxCrashes

Positive == Nat \ {0}

ASSUME MoveAssumption ==
  /\ InitialSize \in Sizes /\ Sizes \subseteq Positive
  /\ {BlockSectors, AlBlocks, max_peers, WordSectors, WordsPerBlock, buffer_size} \subseteq Positive
  /\ AlBlocks <= buffer_size
  /\ 2 * BlockSectors <= WordSectors /\ max_peers <= WordsPerBlock  \* 8, 512, 1 .. 31 and 512
  /\ Modes \subseteq {"skip", "zero", "set"}
  /\ MaxGrowths \in Nat /\ MaxCrashes \in Nat

-----------------------------------------------------------------------------
(* Layout *)

Ceil(a, b) == (a + b - 1) \div b

bm_blocks(size) == Ceil(Ceil(size, WordSectors) * max_peers, WordsPerBlock)

md_offset(size) == (size - BlockSectors) \div BlockSectors
al_offset(size) == md_offset(size) - AlBlocks
bm_offset(size) == al_offset(size) - bm_blocks(size)

\* The superblock stores offsets relative to itself.
Superblock(size) == <<"sb", bm_blocks(size)>>
is_valid_md(block, size) == block = Superblock(size)

\* every layout fits its device
ASSUME LayoutAssumption == \A s \in Sizes : s > BlockSectors * (1 + AlBlocks + bm_blocks(s))

Blocks == UNION {0 .. md_offset(s) : s \in Sizes}

\* where the new metadata overlaps the old superblock (FIXME in the code)
Overlap(old, new) == bm_offset(new) <= md_offset(old)

VARIABLES
  size,       \* of the device
  disk,       \* what a read returns
  synced,     \* what stable storage holds: see Write
  lk,         \* the last known size, 0 if the file is missing or empty
  lk_synced,  \* what stable storage holds of it
  pc, mode, cur,
  growths, crashes,
  powerloss,  \* history: power has failed
  overlapped, \* history: a move into an overlapping range did not end
  exposed     \* history: the last known size was given up, or is needed,
              \* before what replaces it has reached stable storage

vars == <<size, disk, synced, lk, lk_synced, pc, mode, cur, growths, crashes, powerloss, overlapped, exposed>>

Unsynced == disk # synced \/ lk # lk_synced
SuperblockSynced == is_valid_md(disk[md_offset(size)], size) /\ is_valid_md(synced[md_offset(size)], size)
Overlapping == lk \notin {0, size} /\ Overlap(lk, size)

-----------------------------------------------------------------------------
(* Opening *)

\* v08_md_open(): v07_style_md_open(), then v08_check_for_resize()
Opens ==
  IF is_valid_md(disk[md_offset(size)], size) THEN "valid"
  ELSE IF lk # 0 /\ lk # size /\ is_valid_md(disk[md_offset(lk)], lk) THEN "last known"
  ELSE "none"

\* meta_chk_offline_resize()
check_resize(m) ==
  /\ pc = "idle"
  /\ CASE Opens = "valid" -> pc' = (IF lk # size THEN "close" ELSE "md") /\ UNCHANGED mode
       [] Opens = "last known" -> pc' = "al" /\ mode' = m
       [] OTHER -> UNCHANGED <<pc, mode>>
  /\ UNCHANGED <<size, disk, synced, lk, lk_synced, cur, growths, crashes, powerloss, overlapped, exposed>>

-----------------------------------------------------------------------------
(* v08_move_internal_md_after_resize() *)

\* PWRITE of n blocks at an offset.  What a block held may have reached
\* stable storage before it is written again.
Write(offset, n, content(_)) ==
  LET written == offset .. offset + n - 1
  IN /\ disk' = [b \in Blocks |-> IF b \in written THEN content(b) ELSE disk[b]]
     /\ \E back \in SUBSET {b \in written : disk[b] # synced[b]} :
          synced' = [b \in Blocks |-> IF b \in back THEN disk[b] ELSE synced[b]]

Copy(from, to, n) == LET block(b) == disk[from + (b - to)] IN Write(to, n, block)
Fill(offset, n, value) == LET block(b) == value IN Write(offset, n, block)

move_al ==
  /\ pc = "al"
  /\ Copy(al_offset(lk), al_offset(size), AlBlocks)
  /\ pc' = "bitmap" /\ cur' = al_offset(lk)
  /\ UNCHANGED <<size, lk, lk_synced, mode, growths, crashes, powerloss, overlapped, exposed>>

\* Mutant: the bitmap is moved from its start.
ChunkFromStart ==
  /\ pc = "bitmap"
  /\ LET done == al_offset(lk) - cur
         left == bm_blocks(lk) - done
         n == IF left > buffer_size THEN buffer_size ELSE left
     IN /\ Copy(bm_offset(lk) + done, bm_offset(size) + done, n)
        /\ IF left > buffer_size THEN cur' = cur - n /\ UNCHANGED pc
           ELSE pc' = "trail" /\ cur' = 0
  /\ UNCHANGED <<size, lk, lk_synced, mode, growths, crashes, powerloss, overlapped, exposed>>

\* One chunk of the bitmap, from the end: old byte 0 becomes new byte 0.
\* cur is the end of what has not been moved.
move_chunk ==
  /\ pc = "bitmap"
  /\ \/ /\ cur > bm_offset(lk) + buffer_size
        /\ Copy(cur - buffer_size, bm_offset(size) + (cur - buffer_size - bm_offset(lk)), buffer_size)
        /\ cur' = cur - buffer_size /\ UNCHANGED pc
     \/ /\ cur <= bm_offset(lk) + buffer_size
        /\ Copy(bm_offset(lk), bm_offset(size), cur - bm_offset(lk))
        /\ pc' = "trail" /\ cur' = 0
  /\ UNCHANGED <<size, lk, lk_synced, mode, growths, crashes, powerloss, overlapped, exposed>>

\* what --initialize-bitmap makes of the part for the new sectors, in one
\* write: nothing but this part depends on how far it has come
initialize_trail ==
  /\ pc = "trail"
  /\ IF mode = "skip" THEN UNCHANGED <<disk, synced>>
     ELSE Fill(bm_offset(size) + bm_blocks(lk), bm_blocks(size) - bm_blocks(lk), <<mode>>)
  /\ pc' = "super"
  /\ UNCHANGED <<size, lk, lk_synced, mode, cur, growths, crashes, powerloss, overlapped, exposed>>

write_superblock ==
  /\ pc = "super"
  /\ Fill(md_offset(size), 1, Superblock(size))
  /\ pc' = "sync"
  /\ UNCHANGED <<size, lk, lk_synced, mode, cur, growths, crashes, powerloss, overlapped, exposed>>

\* Mutant: the old metadata is wiped before the new has reached the disk.
WipeUnsynced ==
  /\ pc = "sync"
  /\ IF Overlap(lk, size) THEN pc' = "close" /\ UNCHANGED cur
     ELSE pc' = "wipe" /\ cur' = bm_offset(lk)
  /\ UNCHANGED <<size, disk, synced, lk, lk_synced, mode, growths, crashes, powerloss, overlapped, exposed>>

\* fdatasync(), and whether the old metadata is wiped
sync ==
  /\ pc = "sync"
  /\ synced' = disk /\ exposed' = FALSE
  /\ IF Overlap(lk, size) THEN pc' = "close" /\ UNCHANGED cur
     ELSE pc' = "wipe" /\ cur' = bm_offset(lk)
  /\ UNCHANGED <<size, disk, lk, lk_synced, mode, growths, crashes, powerloss, overlapped>>

wipe ==
  /\ pc = "wipe"
  /\ LET end == IF md_offset(lk) + 1 > bm_offset(size) THEN bm_offset(size) ELSE md_offset(lk) + 1
         n == IF end - cur > buffer_size THEN buffer_size ELSE end - cur
     IN /\ Fill(cur, n, <<"zero">>)
        /\ IF cur + n < end THEN cur' = cur + n /\ UNCHANGED pc
           ELSE pc' = "close" /\ cur' = 0
  /\ UNCHANGED <<size, lk, lk_synced, mode, growths, crashes, powerloss, overlapped, exposed>>

-----------------------------------------------------------------------------
(* v08_md_close(): lk_bdev_save() empties the file, writes it and syncs it;  *)
(* then generic_md_close() syncs the device.                                 *)

SaveLk(new) ==
  /\ lk' = new /\ lk_synced' \in {lk_synced, lk}
  /\ UNCHANGED <<size, disk, synced, mode, cur, growths, crashes, powerloss, overlapped>>

truncate_lk ==
  /\ pc = "close" /\ pc' = "save"
  /\ SaveLk(0)
  /\ exposed' = (exposed \/ ~ SuperblockSynced)

write_lk ==
  /\ pc = "save" /\ pc' = "fsync"
  /\ SaveLk(size)
  /\ UNCHANGED exposed

sync_lk ==
  /\ pc = "fsync" /\ pc' = "md"
  /\ lk_synced' = lk
  /\ UNCHANGED <<size, disk, synced, lk, mode, cur, growths, crashes, powerloss, overlapped, exposed>>

close_md ==
  /\ pc = "md" /\ pc' = "idle" /\ mode' = "skip"
  /\ synced' = disk /\ exposed' = FALSE
  /\ UNCHANGED <<size, disk, lk, lk_synced, cur, growths, crashes, powerloss, overlapped>>

-----------------------------------------------------------------------------
(* The environment (external) *)

\* The device grows after a command has recorded its size: drbdadm runs
\* check-resize before it attaches a device.
grow(s) ==
  /\ pc = "idle" /\ growths < MaxGrowths
  /\ lk = size /\ s > size
  /\ size' = s /\ growths' = growths + 1
  /\ exposed' = (exposed \/ lk_synced # lk)
  /\ UNCHANGED <<disk, synced, lk, lk_synced, pc, mode, cur, crashes, powerloss, overlapped>>

Copying == {"bitmap", "trail", "super"}  \* the new superblock is not there yet

Crash(lost) ==
  /\ crashes < MaxCrashes
  /\ crashes' = crashes + 1
  /\ pc' = "idle" /\ mode' = "skip" /\ cur' = 0
  /\ overlapped' = (overlapped \/ (Overlapping /\ (pc \in Copying \/ lost)))
  /\ UNCHANGED <<size, growths, exposed>>

\* what was written can be read, and is no nearer to stable storage
killed ==
  /\ pc # "idle"
  /\ Crash(FALSE)
  /\ UNCHANGED <<disk, synced, lk, lk_synced, powerloss>>

\* some of the writes since the last sync are lost
power_fails ==
  /\ pc # "idle" \/ Unsynced
  /\ Crash(Unsynced /\ ~ SuperblockSynced)
  /\ powerloss' = TRUE
  /\ \E lost \in SUBSET {b \in Blocks : disk[b] # synced[b]} :
       disk' = [b \in Blocks |-> IF b \in lost THEN synced[b] ELSE disk[b]]
  /\ lk' \in {lk, lk_synced}
  /\ synced' = disk' /\ lk_synced' = lk'

Init ==
  /\ size = InitialSize /\ lk = InitialSize /\ lk_synced = InitialSize
  /\ disk = [b \in Blocks |->
               IF b = md_offset(size) THEN Superblock(size)
               ELSE IF b \in al_offset(size) .. md_offset(size) - 1 THEN <<"al", b - al_offset(size)>>
               ELSE IF b \in bm_offset(size) .. al_offset(size) - 1 THEN <<"bm", b - bm_offset(size)>>
               ELSE <<"data", b>>]
  /\ synced = disk
  /\ pc = "idle" /\ mode = "skip" /\ cur = 0
  /\ growths = 0 /\ crashes = 0 /\ powerloss = FALSE /\ overlapped = FALSE /\ exposed = FALSE

Next ==
  \/ \E m \in Modes : check_resize(m)
  \/ move_al \/ move_chunk \/ initialize_trail \/ write_superblock \/ sync \/ wipe
  \/ truncate_lk \/ write_lk \/ sync_lk \/ close_md
  \/ \E s \in Sizes : grow(s)
  \/ killed \/ power_fails

Spec == Init /\ [][Next]_vars

-----------------------------------------------------------------------------
(* Properties *)

\* The activity log, the bitmap and the data of a device whose layout is
\* that of size s, as they were before it grew.
Intact(s) ==
  /\ \A i \in 0 .. AlBlocks - 1 : disk[al_offset(s) + i] = <<"al", i>>
  /\ \A i \in 0 .. bm_blocks(InitialSize) - 1 : disk[bm_offset(s) + i] = <<"bm", i>>
  /\ \A b \in 0 .. bm_offset(InitialSize) - 1 : disk[b] = <<"data", b>>

\* Whenever no command runs, also after it was killed anywhere and however
\* often, the metadata that the next command opens is complete, as are the
\* data (v08_move_internal_md_after_resize()).  Not after a power failure,
\* for nothing is synced before the superblock is written, and not after a
\* move into an overlapping range was interrupted.
MetadataIntact ==
  (pc = "idle" /\ ~ powerloss /\ ~ overlapped) =>
    /\ Opens = "valid" => Intact(size)
    /\ Opens = "last known" => Intact(lk)
    /\ Opens # "none"

\* Even power failures, also after kills, leave a superblock that the next
\* command finds: the old one is wiped after the new one has reached stable
\* storage (v08_move_internal_md_after_resize()).  Not where the file was
\* emptied for a superblock that a killed command had written and not synced
\* (v08_md_close() syncs the device after the file), nor where the device
\* grew before the file was synced, until the device is synced again.
SuperblockSurvives == (pc = "idle" /\ ~ overlapped /\ ~ exposed) => Opens # "none"

\* "to be able to find it regardless" (shared_tool.c): a superblock is found
\* whatever was interrupted, overlapping moves apart.
AlwaysFound == (pc = "idle" /\ ~ overlapped) => Opens # "none"

\* Nothing is left of the old metadata that could be taken for metadata:
\* there is one superblock on a device whose metadata is in place.
OneSuperblock ==
  (pc = "idle" /\ Opens = "valid" /\ lk = size) =>
    \A b \in Blocks : disk[b][1] = "sb" => b = md_offset(size)

\* An interrupted move into an overlapping range is noticed: metadata that
\* the next command opens is complete.
NoSilentDamage ==
  (pc = "idle" /\ ~ powerloss) =>
    /\ Opens = "valid" => Intact(size)
    /\ Opens = "last known" => Intact(lk)
=============================================================================
