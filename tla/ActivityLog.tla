----------------------------- MODULE ActivityLog -----------------------------
(***************************************************************************)
(* The activity log (AL) of a DRBD volume and "drbdmeta apply-al", which   *)
(* brings the on-disk bitmap up to date with it after a crash.             *)
(* user/shared/drbdmeta.c: meta_apply_al(), replay_al_84(), apply_al(),    *)
(* initialize_al() and what they call.                                     *)
(*                                                                         *)
(* While a volume is attached, the kernel (external) logs which extents it *)
(* may be writing to: one transaction per change of the active set, into a *)
(* ring of 4k blocks.  After a crash of a Primary the peers' copies of     *)
(* those extents may differ, so apply-al sets the bits of those extents in *)
(* the bitmap, then erases the log, then sets MDF_AL_CLEAN, without which  *)
(* the kernel does not attach.  The host may crash at any of these steps,  *)
(* and apply-al runs again.                                                *)
(*                                                                         *)
(* The metadata format is version 09 with the block device log (neither    *)
(* replay_al_07 nor replay_al_pmem).  Bitmap positions are counted in      *)
(* words of WordBits bits where the code counts bytes.                     *)
(***************************************************************************)
EXTENDS Integers, FiniteSets

CONSTANTS
  al_stripes, al_stripe_size_4k,
  AL_EXTENTS_MAX,              \* slots of hot_extent[]
  AL_CONTEXT_PER_TRANSACTION,
  AL_UPDATES_PER_TRANSACTION,
  NrElements,                  \* slots the kernel uses
  TrModulus,                   \* 2^32: transaction numbers are uint32_t
  Builds,                      \* what (int)a - (int)b < 0 is compiled to
  WordBits,                    \* 32: bits in a word of the bitmap
  PageWords,                   \* 1024: words in 4k
  BufferWords,                 \* buffer_size
  Geometries,                  \* bits_per_extent, max_peers, dev_bits
  Written,                     \* bound: the extents the application writes to
  FirstTrNumbers,              \* bound: where the kernel's numbers are at first
  MaxTransactions,             \* bound: transactions of the kernel
  MaxCrashes                   \* bound: crashes of the host

mx == al_stripes * al_stripe_size_4k

Blocks == 0 .. mx - 1
KernelSlots == 0 .. NrElements - 1
TrNumbers == 0 .. TrModulus - 1
GeometryType ==
  [bits_per_extent : Nat \ {0}, max_peers : Nat \ {0}, dev_bits : Nat \ {0}]

ASSUME ActivityLogAssumption ==
  /\ al_stripes \in Nat \ {0}
  /\ al_stripe_size_4k \in Nat \ {0}
  /\ AL_EXTENTS_MAX \in Nat
  /\ AL_CONTEXT_PER_TRANSACTION \in Nat \ {0}
  /\ AL_UPDATES_PER_TRANSACTION \in Nat \ {0}
  /\ NrElements \in 1 .. AL_EXTENTS_MAX
  /\ TrModulus \in Nat \ {0}
  /\ Builds \subseteq {"wrapping", "exact"}
  /\ WordBits \in Nat \ {0}
  /\ PageWords \in Nat \ {0}
  /\ BufferWords \in Nat \ {0}
  /\ Geometries \subseteq GeometryType
  /\ Written \subseteq Nat
  /\ FirstTrNumbers \subseteq TrNumbers
  /\ MaxTransactions \in Nat
  /\ MaxCrashes \in Nat

\* What the kernel and the ring promise each other: a full pass of the
\* context over the slots fits into the blocks besides the one being
\* overwritten, a block keeps its place when the numbers wrap around, and
\* the numbers in the ring are less than half the numbers apart.
ASSUME RingAssumption ==
  /\ (mx - 1) * AL_CONTEXT_PER_TRANSACTION >= NrElements
  /\ TrModulus % mx = 0
  /\ TrModulus >= 2 * mx

\* bits_per_extent and the bits of a word are powers of two
\* (is_power_of_2() asserted for the first): one divides the other.
ASSUME LayoutAssumption ==
  \A g \in Geometries :
    g.bits_per_extent % WordBits = 0 \/ WordBits % g.bits_per_extent = 0

FREE == -1                     \* ~0U in the code: no extent

Initialized == [type |-> "initialized"]
Corrupt == [type |-> "corrupt"]  \* wrong magic or checksum

VARIABLES
  al,                          \* on disk: the blocks of the log
  bitmap,                      \* on disk: the set bits
  flags,                       \* on disk: MDF_PRIMARY_IND, MDF_AL_CLEAN
  geometry,                    \* on disk: layout of the bitmap
  build,                       \* the compiler's choice
  kernel,                      \* attached, active, tr_number, tr_cycle
  pc, todo,                    \* apply-al: its step, the hot extents left
  exit_code,                   \* of the last apply-al that ended
  owed,                        \* extents active when the Primary crashed
  intact,                      \* the log is as the crash left it
  transactions, crashes        \* counters for the bounds

disk == <<al, bitmap, flags>>
tool == <<pc, todo, exit_code>>
bounds == <<transactions, crashes>>
vars == <<al, bitmap, flags, geometry, build, kernel, pc, todo, exit_code,
          owed, intact, transactions, crashes>>

-----------------------------------------------------------------------------
(* The bitmap.                                                             *)

ALIGN(x, a) == ((x + a - 1) \div a) * a
RoundDown(x, a) == (x \div a) * a

\* bm_bytes(), in words
bm_words ==
  ALIGN((ALIGN(geometry.dev_bits, 2 * WordBits) \div WordBits) * geometry.max_peers,
        PageWords)

Extents ==
  0 .. (geometry.dev_bits - 1) \div geometry.bits_per_extent

\* enr_to_bit_range()
EnrToBitRange(enr) ==
  LET bit_s == enr * geometry.bits_per_extent
      bit_e == bit_s + geometry.bits_per_extent
      pos_s == (bit_s \div WordBits) * geometry.max_peers
      pos_e == ((bit_e + WordBits - 1) \div WordBits) * geometry.max_peers
  IN  [bit_s |-> bit_s, bit_e |-> bit_e, pos_s |-> pos_s, pos_e |-> pos_e,
       aligned |-> RoundDown(pos_s, PageWords * geometry.max_peers)]

\* Fault: the memset() also where an extent is less than a word
SetBitsWholeWords(enr) ==
  (EnrToBitRange(enr).pos_s .. EnrToBitRange(enr).pos_e - 1) \X (0 .. WordBits - 1)

\* The bits apply_al() sets for an extent: whole words by memset(), or a
\* mask in one word of each peer.  A bit is <<word, bit in the word>>.
SetBits(enr) ==
  LET r == EnrToBitRange(enr)
  IN  IF geometry.bits_per_extent >= WordBits
        THEN (r.pos_s .. r.pos_e - 1) \X (0 .. WordBits - 1)
        ELSE LET low  == r.bit_s % WordBits
                 high == IF r.bit_e % WordBits = 0
                           THEN WordBits ELSE r.bit_e % WordBits
             IN  (r.pos_s .. r.pos_s + geometry.max_peers - 1)
                   \X (low .. high - 1)

\* "beyond end of bitmap!": apply_al() skips the extent
BeyondEnd(enr) == EnrToBitRange(enr).pos_e >= bm_words

-----------------------------------------------------------------------------
(* Replaying the log.                                                      *)

\* al_tr_number_to_on_disk_slot()
OnDiskSlot(b) ==
  LET t == b % mx
  IN  (t % al_stripes) * al_stripe_size_4k + t \div al_stripes

\* Fault: the numbers are compared as unsigned
BeforeUnsigned(a, b) == a < b

\* (int)a - (int)b < 0.  Where the subtraction overflows, the behaviour is
\* undefined: the build either wraps or compares the two ints.
Signed(n) == IF 2 * n >= TrModulus THEN n - TrModulus ELSE n

Before(a, b) ==
  IF build = "wrapping" THEN Signed((a - b) % TrModulus) < 0
                        ELSE Signed(a) < Signed(b)

AlCpu(b) == al[OnDiskSlot(b)]
IsValid(b) == AlCpu(b).type # "corrupt"
IsUpdate(b) == AlCpu(b).type = "update"

Valid == {b \in Blocks : IsValid(b)}
ValidUpdates == {b \in Blocks : IsUpdate(b)}

\* The loop of replay_al_84() that finds the oldest and the newest
\* transaction: its state after the blocks 0 .. b - 1; mx means none yet.
Cursors ==
  LET scan[b \in 0 .. mx] ==
        IF b = 0 THEN [oldest |-> mx, newest |-> mx]
        ELSE LET c  == scan[b - 1]
                 nr == AlCpu(b - 1).tr_number
             IN  IF ~IsUpdate(b - 1) THEN c
                 ELSE IF c.oldest = mx THEN [oldest |-> b - 1, newest |-> b - 1]
                 ELSE [oldest |-> IF Before(nr, AlCpu(c.oldest).tr_number)
                                    THEN b - 1 ELSE c.oldest,
                       newest |-> IF Before(AlCpu(c.newest).tr_number, nr)
                                    THEN b - 1 ELSE c.newest]
  IN  scan[mx]

HotSlots == 0 .. AL_EXTENTS_MAX - 1

ReplayContext(hot, tr) ==
  [s \in HotSlots |->
    LET i == s - tr.context_start_slot_nr
    IN  IF /\ i \in 0 .. AL_CONTEXT_PER_TRANSACTION - 1
           /\ tr.context[i] # FREE \/ s < tr.context_size
          THEN tr.context[i] ELSE hot[s]]

ReplayUpdates(hot, tr) ==
  [s \in HotSlots |-> IF s \in DOMAIN tr.updates THEN tr.updates[s] ELSE hot[s]]

ReplayTransaction(hot, tr) == ReplayUpdates(ReplayContext(hot, tr), tr)

\* hot_extent[] after the walk from the oldest to the newest transaction
HotExtent ==
  LET c    == Cursors
      last == IF c.newest < c.oldest THEN c.newest + mx ELSE c.newest
      hot[n \in 0 .. last - c.oldest + 1] ==
        IF n = 0 THEN [s \in HotSlots |-> FREE]
        ELSE LET idx == (c.oldest + n - 1) % mx
             IN  IF IsUpdate(idx) THEN ReplayTransaction(hot[n - 1], AlCpu(idx))
                                  ELSE hot[n - 1]
  IN  hot[last - c.oldest + 1]

\* hot_extent[] as apply_al() walks it: sorted, up to the first ~0U
HotSet == {HotExtent[s] : s \in HotSlots} \ {FREE}

\* Fault: no corrupt block is tolerated
ReplayResultStrict ==
  CASE Valid = {} -> "ENODATA"
    [] Valid # {} /\ Valid # Blocks -> "EINVAL"
    [] Valid = Blocks /\ ValidUpdates = {} -> "clean"
    [] OTHER -> "updates"

\* The value of replay_al_84(): -ENODATA, -EINVAL, 0, or a positive number
ReplayResult ==
  CASE Valid = {} -> "ENODATA"
    [] Valid # {} /\ ValidUpdates = {} ->
         IF Valid = Blocks \/ Valid = Blocks \ {0} THEN "clean" ELSE "EINVAL"
    [] OTHER -> "updates"

-----------------------------------------------------------------------------
(* drbdmeta apply-al.                                                      *)

NeedToApplyAl == flags.primary_ind

\* meta_apply_al() returns 1 or 2: nothing it can do about this log
ApplyAlRefuses ==
  /\ pc = "idle" /\ ~kernel.attached
  /\ ReplayResult \in {"ENODATA", "EINVAL"}
  /\ NeedToApplyAl
  /\ exit_code' = IF ReplayResult = "ENODATA" THEN 1 ELSE 2
  /\ UNCHANGED <<disk, geometry, build, kernel, pc, todo, owed, intact, bounds>>

\* The log is read and replayed into hot_extent[]: what is left to do
ApplyAlBegins ==
  /\ pc = "idle" /\ ~kernel.attached
  /\ \/ /\ ReplayResult = "updates" /\ NeedToApplyAl
        /\ todo' = HotSet
        /\ pc' = "apply"
     \/ /\ ReplayResult # "clean" /\ ~NeedToApplyAl
        /\ pc' = "init"
        /\ UNCHANGED todo
     \/ /\ ReplayResult = "clean"
        /\ pc' = "flags"
        /\ UNCHANGED todo
  /\ UNCHANGED <<disk, geometry, build, kernel, exit_code, owed, intact, bounds>>

First == CHOOSE e \in todo : \A f \in todo : e <= f

\* The hot extents that one read-modify-write of the bitmap covers
Chunk ==
  IF BeyondEnd(First) THEN {}
  ELSE {First} \union
       {e \in todo : /\ ~BeyondEnd(e)
                     /\ EnrToBitRange(e).pos_e
                          < EnrToBitRange(First).aligned + BufferWords}

\* Fault: the log is erased with the first chunk
ApplyChunkErasing ==
  /\ pc = "apply" /\ todo # {}
  /\ bitmap' = bitmap \union UNION {SetBits(e) : e \in Chunk}
  /\ todo' = todo \ (Chunk \union {First})
  /\ al' = [b \in Blocks |-> Initialized]
  /\ UNCHANGED <<flags, geometry, build, kernel, pc, exit_code, owed, intact, bounds>>

\* One pass of the loop of apply_al()
ApplyChunk ==
  /\ pc = "apply" /\ todo # {}
  /\ bitmap' = bitmap \union UNION {SetBits(e) : e \in Chunk}
  /\ todo' = todo \ (Chunk \union {First})
  /\ UNCHANGED <<al, flags, geometry, build, kernel, pc, exit_code,
                 owed, intact, bounds>>

ApplyDone ==
  /\ pc = "apply" /\ todo = {}
  /\ pc' = "init"
  /\ UNCHANGED <<disk, geometry, build, kernel, todo, exit_code,
                 owed, intact, bounds>>

\* initialize_al()
InitializeAl ==
  /\ pc = "init"
  /\ al' = [b \in Blocks |-> Initialized]
  /\ intact' = FALSE
  /\ pc' = "flags"
  /\ UNCHANGED <<bitmap, flags, geometry, build, kernel, todo, exit_code,
                 owed, bounds>>

\* The super block is written; MDF_PRIMARY_IND is not touched
SetAlClean ==
  /\ pc = "flags"
  /\ flags' = [flags EXCEPT !.al_clean = TRUE]
  /\ pc' = "idle"
  /\ exit_code' = 0
  /\ UNCHANGED <<al, bitmap, geometry, build, kernel, todo, owed, intact, bounds>>

\* The host crashes.  A write in flight may have reached any part of what
\* it covers; a 4k block of the log may be torn.
CrashDuringApplyAl ==
  /\ pc # "idle" /\ crashes < MaxCrashes
  /\ \/ /\ pc = "apply" /\ todo # {}
        /\ \E written \in SUBSET Chunk :
             bitmap' = bitmap \union UNION {SetBits(e) : e \in written}
        /\ UNCHANGED <<al, intact>>
     \/ /\ pc = "init"
        /\ \E written \in SUBSET Blocks : \E torn \in {{}} \union {{b} : b \in Blocks \ written} :
             al' = [b \in Blocks |-> IF b \in torn THEN Corrupt
                                     ELSE IF b \in written THEN Initialized
                                     ELSE al[b]]
        /\ intact' = FALSE
        /\ UNCHANGED bitmap
     \/ /\ pc = "flags"
        /\ UNCHANGED <<al, bitmap, intact>>
  /\ crashes' = crashes + 1
  /\ pc' = "idle"
  /\ todo' = {}
  /\ UNCHANGED <<flags, geometry, build, kernel, exit_code, owed, transactions>>

-----------------------------------------------------------------------------
(* The kernel (external).                                                  *)

Active == {kernel.active[s] : s \in KernelSlots} \ {FREE}
FreeSlots == {s \in KernelSlots : kernel.active[s] = FREE}

\* The context of the next transaction: the slots from tr_cycle on
Context ==
  [i \in 0 .. AL_CONTEXT_PER_TRANSACTION - 1 |->
    IF kernel.tr_cycle + i \in KernelSlots
      THEN kernel.active[kernel.tr_cycle + i] ELSE FREE]

\* A transaction moves extents into slots: free slots first, in order
LogTransaction ==
  /\ kernel.attached /\ flags.primary_ind
  /\ transactions < MaxTransactions
  /\ \E slots \in SUBSET KernelSlots : \E updates \in [slots -> (Written \intersect Extents) \ Active] :
       /\ Cardinality(slots) \in 1 .. AL_UPDATES_PER_TRANSACTION
       /\ \A s, t \in slots : updates[s] = updates[t] => s = t
       /\ \A s \in slots, t \in FreeSlots \ slots : s \in FreeSlots /\ s < t
       /\ al' = [al EXCEPT ![OnDiskSlot(kernel.tr_number)] =
                  [type |-> "update",
                   tr_number |-> kernel.tr_number,
                   context_size |-> NrElements,
                   context_start_slot_nr |-> kernel.tr_cycle,
                   context |-> Context,
                   updates |-> updates]]
       /\ kernel' =
            [kernel EXCEPT
              !.active = [s \in KernelSlots |-> IF s \in slots THEN updates[s] ELSE @[s]],
              !.tr_number = (@ + 1) % TrModulus,
              !.tr_cycle = IF @ + AL_CONTEXT_PER_TRANSACTION >= NrElements
                             THEN 0 ELSE @ + AL_CONTEXT_PER_TRANSACTION]
  /\ transactions' = transactions + 1
  /\ UNCHANGED <<bitmap, flags, geometry, build, tool, owed, intact, crashes>>

SetRole ==
  /\ kernel.attached
  /\ flags' = [flags EXCEPT !.primary_ind = ~@]
  /\ UNCHANGED <<al, bitmap, geometry, build, kernel, tool, owed, intact, bounds>>

\* What the kernel knows of the log of a volume that is not attached
Detached(n) ==
  [attached |-> FALSE, active |-> [s \in KernelSlots |-> FREE],
   tr_number |-> n, tr_cycle |-> 0]

\* A Secondary detaches: no write is under way.  The transaction numbers go
\* on unless the kernel module is unloaded.
Detach ==
  /\ kernel.attached /\ ~flags.primary_ind
  /\ \E n \in {0, kernel.tr_number} : kernel' = Detached(n)
  /\ owed' = {}
  /\ intact' = TRUE
  /\ UNCHANGED <<disk, geometry, build, tool, bounds>>

\* The host of an attached volume crashes, possibly with a transaction
\* half written.
Crash ==
  /\ kernel.attached /\ crashes < MaxCrashes
  /\ crashes' = crashes + 1
  /\ kernel' = Detached(0)
  /\ owed' = IF flags.primary_ind THEN Active ELSE {}
  /\ intact' = TRUE
  /\ \/ UNCHANGED al
     \/ /\ flags.primary_ind
        /\ al' = [al EXCEPT ![OnDiskSlot(kernel.tr_number)] = Corrupt]
  /\ UNCHANGED <<bitmap, flags, geometry, build, tool, transactions>>

\* The kernel attaches, and the peers resynchronize what the bitmap marks.
Attach ==
  /\ ~kernel.attached /\ pc = "idle" /\ flags.al_clean
  /\ flags' = [primary_ind |-> FALSE, al_clean |-> FALSE]
  /\ bitmap' = {}
  /\ owed' = {}
  /\ kernel' = [kernel EXCEPT !.attached = TRUE]
  /\ exit_code' = 0
  /\ intact' = TRUE
  /\ UNCHANGED <<al, geometry, build, pc, todo, bounds>>

-----------------------------------------------------------------------------

\* create-md or an earlier apply-al has initialized the log, and the kernel
\* has attached.
Init ==
  /\ al = [b \in Blocks |-> Initialized]
  /\ bitmap = {}
  /\ flags = [primary_ind |-> FALSE, al_clean |-> FALSE]
  /\ geometry \in Geometries
  /\ build \in Builds
  /\ \E n \in FirstTrNumbers : kernel = [Detached(n) EXCEPT !.attached = TRUE]
  /\ pc = "idle" /\ todo = {} /\ exit_code = 0
  /\ owed = {} /\ intact = TRUE
  /\ transactions = 0 /\ crashes = 0

Next ==
  \/ ApplyAlRefuses \/ ApplyAlBegins \/ ApplyChunk \/ ApplyDone
  \/ InitializeAl \/ SetAlClean \/ CrashDuringApplyAl
  \/ LogTransaction \/ SetRole \/ Detach \/ Crash \/ Attach

Spec == Init /\ [][Next]_vars

-----------------------------------------------------------------------------
(* Properties.                                                             *)

\* The bits of an extent, as the comment on the bitmap layout puts them:
\* words of 32 bits, of the peers in turn.
ExtentBits(enr) ==
  LET r == EnrToBitRange(enr)
  IN  {<<(bit \div WordBits) * geometry.max_peers + peer, bit % WordBits>> :
         bit \in r.bit_s .. r.bit_e - 1, peer \in 0 .. geometry.max_peers - 1}

Marked == \A e \in owed : ExtentBits(e) \subseteq bitmap

UpdateBlocks ==
  [type : {"update"}, tr_number : TrNumbers, context_size : {NrElements},
   context_start_slot_nr : KernelSlots,
   context : [0 .. AL_CONTEXT_PER_TRANSACTION - 1 -> Extents \union {FREE}],
   updates : UNION {[slots -> Extents] : slots \in SUBSET KernelSlots}]

\* The type invariant; a bit set in the bitmap lies within the bitmap.
TypeOK ==
  /\ \A b \in Blocks : al[b] \in UpdateBlocks \union {Initialized, Corrupt}
  /\ bitmap \subseteq (0 .. bm_words - 1) \X (0 .. WordBits - 1)
  /\ flags \in [primary_ind : BOOLEAN, al_clean : BOOLEAN]
  /\ geometry \in Geometries
  /\ build \in Builds
  /\ kernel \in [attached : BOOLEAN, active : [KernelSlots -> Extents \union {FREE}],
                 tr_number : TrNumbers, tr_cycle : KernelSlots]
  /\ pc \in {"idle", "apply", "init", "flags"}
  /\ todo \subseteq Extents
  /\ exit_code \in {0, 1, 2}
  /\ owed \subseteq Extents
  /\ intact \in BOOLEAN
  /\ transactions \in 0 .. MaxTransactions
  /\ crashes \in 0 .. MaxCrashes

\* replay_al_84() reconstructs the active set at the time of the newest
\* transaction: after the crash of a Primary the extents it hands to
\* apply_al() are the active ones, no more and no less, although the oldest
\* transactions are overwritten, the block written last may be torn and the
\* transaction numbers wrap around.
ReplayReconstructs ==
  (~kernel.attached /\ intact /\ flags.primary_ind /\ ReplayResult = "updates")
    => HotSet = owed

\* Where MDF_AL_CLEAN allows the kernel to attach, every extent that was
\* active when a Primary crashed has its bits set for every peer, whatever
\* crashes hit apply-al itself: apply_al() writes the bitmap before
\* initialize_al() erases the log, and both before the flag is set.
CleanMeansMarked ==
  (~kernel.attached /\ flags.al_clean) => Marked

\* Where apply-al gives up with exit code 1 or 2 (the two FIXMEs on a log
\* with corrupt blocks and no update), nothing is lost: no extent was
\* active, or an earlier apply-al had marked them all.
RefusalLosesNothing == (~kernel.attached /\ exit_code # 0) => Marked

\* As long as the log is as the crash left it, apply_al() has set bits of
\* the active extents only: its masks and chunks touch no neighbour.
OnlyActiveMarked ==
  (~kernel.attached /\ intact) => bitmap \subseteq UNION {ExtentBits(e) : e \in owed}

=============================================================================
