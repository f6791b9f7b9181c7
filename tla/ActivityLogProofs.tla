------------------------- MODULE ActivityLogProofs -------------------------
(***************************************************************************)
(* Proofs about ActivityLog: what replay_al_84() reconstructs, what        *)
(* apply_al() marks, and that neither a crash nor an exit code loses an    *)
(* active extent, for every size of the ring, of the context and of the    *)
(* kernel's slots, every modulus of the transaction numbers and every      *)
(* layout of the bitmap that the assumptions of ActivityLog allow.         *)
(*                                                                         *)
(* Two hypotheses stay in the theorems because the code needs them: that   *)
(* the subtraction in replay_al_84() wraps around (build = "wrapping"),    *)
(* and, for what is marked, that no extent ends where the bitmap ends      *)
(* (RoomyLayout): apply_al() skips such an extent.                         *)
(*                                                                         *)
(* The argument: seen from the number n of the kernel's next transaction,  *)
(* the ring holds the w newest transactions, the d-th newest in block      *)
(* At(n, d) with number Back(n, d), and no other (Window).  What is active *)
(* is what the newest transaction that mentions a slot says of it (Tells). *)
(* The context goes round the slots in fewer transactions than the ring    *)
(* has blocks (Cycle), so that the transaction that is overwritten or torn *)
(* says nothing that a newer one does not say (OldestIsDispensable).  The  *)
(* scan finds the ends of the window (ScanResult), the walk replays it     *)
(* oldest first (WalkResult), both by induction over a recursion, which is *)
(* done here as a least counterexample.                                    *)
(***************************************************************************)
EXTENDS ActivityLog, NaturalsInduction, WellFoundedInduction, TLAPS

-----------------------------------------------------------------------------
(* The ring, seen from the number n of the kernel's next transaction.      *)

C == AL_CONTEXT_PER_TRANSACTION

\* The number of the d-th newest transaction, and its logical block
Back(n, d) == IF n >= d THEN n - d ELSE n - d + TrModulus
At(n, d) == IF (n % mx) >= d THEN (n % mx) - d ELSE (n % mx) - d + mx

\* The log by logical blocks
ring == [b \in Blocks |-> AlCpu(b)]

\* What a transaction says about a slot of the kernel
Mentions(tr, s) == s \in DOMAIN tr.updates \/ s - tr.context_start_slot_nr \in 0 .. C - 1
Says(tr, s) ==
  IF s \in DOMAIN tr.updates THEN tr.updates[s] ELSE tr.context[s - tr.context_start_slot_nr]

\* A transaction as LogTransaction writes it
WellFormed(tr) ==
  /\ tr.context_size = NrElements
  /\ tr.context_start_slot_nr \in KernelSlots
  /\ DOMAIN tr.updates \subseteq KernelSlots
  /\ \A i \in 0 .. C - 1 :
       tr.context_start_slot_nr + i \notin KernelSlots => tr.context[i] = FREE

\* The w newest transactions are in the ring, each in its place, and no
\* other block is a transaction.
Window(R, n, w) ==
  /\ n \in TrNumbers /\ w \in 0 .. mx
  /\ \A d \in 1 .. w : /\ R[At(n, d)].type = "update"
                       /\ R[At(n, d)].tr_number = Back(n, d)
                       /\ WellFormed(R[At(n, d)])
  /\ \A d \in w + 1 .. mx : R[At(n, d)].type # "update"

\* v is what the newest of the transactions lo .. hi that mention slot s
\* says about it, or FREE.
Last(R, n, lo, hi, s, v) ==
  \/ \E d \in lo .. hi : /\ Mentions(R[At(n, d)], s)
                         /\ v = Says(R[At(n, d)], s)
                         /\ \A c \in lo .. d - 1 : ~ Mentions(R[At(n, c)], s)
  \/ v = FREE /\ \A d \in lo .. hi : ~ Mentions(R[At(n, d)], s)

Tells(R, n, w, act) == \A s \in KernelSlots : Last(R, n, 1, w, s, act[s])

\* The contexts of one pass of the kernel over its slots
Passes == (NrElements + C - 1) \div C

\* The context goes round: tr_cycle is the start of part b of the slots,
\* and the transactions before it logged the parts before it.
Cycle(R, n, w, cyc, b) ==
  /\ b \in 0 .. Passes - 1 /\ cyc = C * b
  /\ \A d \in 1 .. Passes :
       d <= w => R[At(n, d)].context_start_slot_nr = C * (IF d <= b THEN b - d ELSE b + Passes - d)

Values(act) == {act[s] : s \in KernelSlots} \ {FREE}
Actives == [KernelSlots -> Extents \union {FREE}]

\* A log from which the kernel goes on as transaction n, and one that a
\* crash left
KernelLog(R, n, act, cyc) ==
  \E w \in 0 .. mx, b \in 0 .. Passes - 1 :
    Window(R, n, w) /\ Tells(R, n, w, act) /\ Cycle(R, n, w, cyc, b)
CrashLog(R, S, A) ==
  \E n \in TrNumbers, w \in 0 .. mx, act \in A :
    Window(R, n, w) /\ Tells(R, n, w, act) /\ S = Values(act)

-----------------------------------------------------------------------------
(* The inductive invariant                                                 *)

\* The bitmap has room behind the last extent, so that apply_al() skips none.
RoomyLayout == \A e \in Extents : ~ BeyondEnd(e)

RoomyMarked == RoomyLayout => Marked
NoUpdates == \A b \in Blocks : ring[b].type # "update"

TypeInv ==
  /\ al = [b \in Blocks |-> al[b]]
  /\ flags \in [primary_ind : BOOLEAN, al_clean : BOOLEAN]
  /\ geometry \in Geometries
  /\ build = "wrapping"
  /\ kernel \in [attached : BOOLEAN, active : Actives, tr_number : TrNumbers, tr_cycle : KernelSlots]
  /\ owed \subseteq Extents
  /\ intact \in BOOLEAN

\* While the volume is attached the log tells what is active.
AttachedInv ==
  kernel.attached =>
    /\ pc = "idle" /\ bitmap = {} /\ exit_code = 0 /\ ~ flags.al_clean
    /\ KernelLog(ring, kernel.tr_number, kernel.active, kernel.tr_cycle)

\* The log that the crash of a Primary left tells what was active.
LogInv ==
  (~ kernel.attached /\ intact /\ flags.primary_ind) => CrashLog(ring, owed, Actives)

\* The extents that apply_al() is through with are marked, and no others.
ApplyInv ==
  /\ intact => bitmap \subseteq UNION {ExtentBits(e) : e \in owed}
  /\ pc = "apply" => flags.primary_ind
  /\ pc = "apply" /\ intact => todo \subseteq owed
  /\ pc = "apply" /\ intact /\ RoomyLayout => \A e \in owed \ todo : ExtentBits(e) \subseteq bitmap

\* Whoever has gone on from the log as the crash left it has marked all.
MarkedInv ==
  /\ ~ flags.primary_ind => owed = {}
  /\ ~ intact \/ pc \in {"init", "flags"} \/ flags.al_clean \/ exit_code # 0 => RoomyMarked
  /\ pc = "flags" \/ flags.al_clean => NoUpdates

DetachedInv ==
  ~ kernel.attached =>
    /\ ApplyInv /\ MarkedInv
    /\ kernel.active = [s \in KernelSlots |-> FREE] /\ kernel.tr_cycle = 0

IInv == TypeInv /\ AttachedInv /\ LogInv /\ DetachedInv

-----------------------------------------------------------------------------
(* What the proofs say of the two loops of replay_al_84() and of a bitmap  *)

\* The two loops of replay_al_84(), pass by pass: the scan over the blocks,
\* and the walk from the oldest transaction, in block o, to the newest
Nothing == [oldest |-> mx, newest |-> mx]
ScanStep(c, b) ==
  LET nr == AlCpu(b - 1).tr_number
  IN  IF ~IsUpdate(b - 1) THEN c
      ELSE IF c.oldest = mx THEN [oldest |-> b - 1, newest |-> b - 1]
      ELSE [oldest |-> IF Before(nr, AlCpu(c.oldest).tr_number)
                         THEN b - 1 ELSE c.oldest,
            newest |-> IF Before(AlCpu(c.newest).tr_number, nr)
                         THEN b - 1 ELSE c.newest]
AllFree == [s \in HotSlots |-> FREE]
WalkStep(h, o, n) ==
  LET idx == (o + n - 1) % mx
  IN  IF IsUpdate(idx) THEN ReplayTransaction(h, AlCpu(idx)) ELSE h

\* What the scan has found when it has seen the blocks below b
Seen(n, w, b, c) ==
  \/ c = Nothing /\ \A d \in 1 .. w : At(n, d) >= b
  \/ \E e, g \in 1 .. w : /\ c = [oldest |-> At(n, e), newest |-> At(n, g)]
                          /\ At(n, e) < b
                          /\ \A d \in 1 .. w : At(n, d) < b => g <= d /\ d <= e

\* What hot_extent[] tells after k transactions of the walk
Told(n, w, k, h) ==
  \A s \in HotSlots :
    IF s \in KernelSlots THEN Last(ring, n, w - k + 1, w, s, h[s]) ELSE h[s] = FREE

\* The places in the bitmap of the bits l .. h - 1 of P peers
Bits(W, P, l, h) ==
  {<<(bit \div W) * P + peer, bit % W>> : bit \in l .. h - 1, peer \in 0 .. P - 1}

\* The bits of the words of the parts a .. b - 1, and of a part of word u
Words(W, P, a, b) == (a * P .. b * P - 1) \X (0 .. W - 1)
Mask(P, u, lo, hi) == (u * P .. u * P + P - 1) \X (lo .. hi - 1)

\* Q is R after transaction n, or what is left of it, was written as x, and
\* Q seen from the next number m
Overwrites(R, Q, n, x) == \A b \in Blocks : Q[b] = IF b = n % mx THEN x ELSE R[b]
Shifted(R, Q, n, m, x) ==
  /\ m \in TrNumbers
  /\ Q[At(m, 1)] = x /\ Back(m, 1) = n
  /\ \A d \in 1 .. mx - 1 : Q[At(m, d + 1)] = R[At(n, d)] /\ Back(m, d + 1) = Back(n, d)

\* x is the transaction n of a kernel that is at part cyc of the slots, and
\* new is what is active after it.
Logs(x, n, act, cyc) ==
  /\ x.type = "update" /\ x.tr_number = n /\ x.context_start_slot_nr = cyc
  /\ WellFormed(x)
  /\ \A i \in 0 .. C - 1 : cyc + i \in KernelSlots => x.context[i] = act[cyc + i]
NextActive(x, act, new) ==
  \A s \in KernelSlots : new[s] = IF s \in DOMAIN x.updates THEN x.updates[s] ELSE act[s]
-----------------------------------------------------------------------------
(* Numbers *)

\* What division leaves.
LEMMA DivBounds ==
  ASSUME NEW a \in Int, NEW b \in Nat \ {0}
  PROVE  /\ a \div b \in Int /\ a % b \in 0 .. b - 1
         /\ a = b * (a \div b) + (a % b)
  BY SMT

\* Quotient and remainder are unique.
LEMMA ModUnique ==
  ASSUME NEW a \in Int, NEW m \in Nat \ {0}, NEW q \in Int, NEW r \in 0 .. m - 1,
         a = m * q + r
  PROVE  a % m = r /\ a \div m = q
<1> DEFINE p == a \div m
           s == a % m
<1>1. p \in Int /\ s \in 0 .. m - 1 /\ a = m * p + s
  BY DivBounds
<1> HIDE DEF p, s
<1>2. m * p - m * q = m * (p - q)
  BY <1>1
<1>3. p - q >= 1 => m * (p - q) >= m
  BY <1>1
<1>4. p - q <= -1 => m * (p - q) <= - m
  BY <1>1
<1>5. p = q
  BY <1>1, <1>2, <1>3, <1>4
<1> QED
  BY <1>1, <1>5 DEF p, s

\* A set of natural numbers has a least element.
LEMMA Least ==
  ASSUME NEW T, T \subseteq Nat, T # {}
  PROVE  \E x \in T : \A y \in T : x <= y
<1> DEFINE R == OpToRel(<, Nat)
<1>1. IsWellFoundedOn(R, Nat)
  BY NatLessThanWellFounded
<1>2. PICK x \in T : \A y \in T : ~ (<<y, x>> \in R)
  <2> HIDE DEF R
  <2> QED
    BY <1>1, WFMin
<1>3. \A y \in T : <<y, x>> \in R <=> y < x
  BY DEF OpToRel
<1>4. \A y \in T : ~ (y < x)
  <2> HIDE DEF R
  <2> QED
    BY <1>2, <1>3, Zenon
<1> QED
  <2> HIDE DEF R
  <2> QED
    BY <1>4

\* What the constants are for a proof.
LEMMA Consts ==
  /\ mx \in Nat /\ mx >= 2
  /\ C \in Nat \ {0}
  /\ NrElements \in Nat \ {0} /\ NrElements <= AL_EXTENTS_MAX /\ AL_EXTENTS_MAX \in Nat
  /\ TrModulus \in Nat /\ TrModulus >= 2 * mx
<1>1. mx \in Nat /\ mx >= 1
  <2>1. al_stripes \in Nat \ {0} /\ al_stripe_size_4k \in Nat \ {0}
    BY ActivityLogAssumption
  <2> QED
    BY <2>1 DEF mx
<1>2. C \in Nat \ {0} /\ NrElements \in Nat \ {0} /\ NrElements <= AL_EXTENTS_MAX /\ AL_EXTENTS_MAX \in Nat
  BY ActivityLogAssumption DEF C
<1>3. (mx - 1) * C >= NrElements
  BY RingAssumption DEF C
<1>4. mx # 1
  <2> SUFFICES ASSUME mx = 1 PROVE FALSE
    OBVIOUS
  <2>1. (mx - 1) * C = 0
    BY <1>2
  <2> QED
    BY <1>2, <1>3, <2>1
<1>5. TrModulus \in Nat /\ TrModulus >= 2 * mx
  BY ActivityLogAssumption, RingAssumption
<1> QED
  BY <1>1, <1>2, <1>4, <1>5

\* The transaction numbers wrap around at a multiple of the ring.
LEMMA Turns == \E q \in Int : TrModulus = mx * q
<1>1. TrModulus \in Int /\ mx \in Nat \ {0} /\ TrModulus % mx = 0
  BY Consts, RingAssumption
<1>2. TrModulus \div mx \in Int /\ TrModulus = mx * (TrModulus \div mx) + (TrModulus % mx)
  BY <1>1, DivBounds
<1>3. TrModulus = mx * (TrModulus \div mx)
  BY <1>1, <1>2
<1> QED
  BY <1>2, <1>3

\* One pass of the context fits into the ring besides one block.
LEMMA PassFits ==
  /\ Passes \in Nat \ {0} /\ Passes <= mx - 1
  /\ C * Passes >= NrElements /\ C * (Passes - 1) < NrElements
<1> DEFINE a == NrElements + C - 1
           p == a \div C
<1>1. a \in Nat /\ C \in Nat \ {0} /\ a = NrElements + C - 1 /\ NrElements \in Nat \ {0}
  BY Consts
<1>2. p \in Int /\ a % C \in 0 .. C - 1 /\ a = C * p + (a % C)
  BY <1>1, DivBounds
<1>3. Passes = p
  BY DEF Passes
<1> HIDE DEF a, p
<1>4. C * p <= a /\ C * p + C - 1 >= a
  BY <1>1, <1>2
<1>5. p >= 1
  <2>1. p <= 0 => C * p <= 0
    BY <1>1, <1>2
  <2> QED
    BY <1>1, <1>2, <1>4, <2>1
<1>6. C * (p - 1) = C * p - C
  BY <1>1, <1>2
<1>7. p <= mx - 1
  <2>1. mx \in Nat /\ (mx - 1) * C >= NrElements
    BY Consts, RingAssumption DEF C
  <2>2. p - 1 >= mx - 1 => C * (p - 1) >= C * (mx - 1)
    BY <1>1, <1>2, <2>1
  <2>3. C * (mx - 1) = (mx - 1) * C
    BY <1>1, <2>1
  <2> QED
    BY <1>1, <1>2, <1>4, <1>6, <2>1, <2>2, <2>3
<1> QED
  BY <1>1, <1>2, <1>3, <1>4, <1>5, <1>6, <1>7

\* The stripes share out the blocks: each logical block has a place of its own.
LEMMA SlotsDiffer ==
  ASSUME NEW t \in Blocks, NEW u \in Blocks
  PROVE  /\ OnDiskSlot(t) \in Blocks
         /\ OnDiskSlot(t) = OnDiskSlot(u) => t = u
<1> DEFINE a == al_stripes
           k == al_stripe_size_4k
<1>1. a \in Nat \ {0} /\ k \in Nat \ {0} /\ mx = a * k
  BY ActivityLogAssumption DEF mx
<1> HIDE DEF a, k
<1>2. mx \in Nat \ {0}
  BY Consts
<1>3. ASSUME NEW x \in Blocks
      PROVE  /\ OnDiskSlot(x) = (x % a) * k + x \div a
             /\ x % a \in 0 .. a - 1 /\ x \div a \in 0 .. k - 1
             /\ x = a * (x \div a) + (x % a)
             /\ OnDiskSlot(x) \in Blocks
             /\ OnDiskSlot(x) \div k = x % a /\ OnDiskSlot(x) % k = x \div a
  <2>1. x \in Int /\ 0 <= x /\ x < mx
    BY <1>2, <1>3 DEF Blocks
  <2>2. x % mx = x
    <3>1. x = mx * 0 + x /\ x \in 0 .. mx - 1
      BY <1>2, <2>1
    <3> QED
      BY <1>2, <2>1, <3>1, ModUnique
  <2> DEFINE q == x \div a
             r == x % a
  <2>3. q \in Int /\ r \in 0 .. a - 1 /\ x = a * q + r
    BY <1>1, <2>1, DivBounds
  <2>4. OnDiskSlot(x) = r * k + q
    BY <2>2 DEF OnDiskSlot, a, k
  <2> HIDE DEF q, r
  <2>5. q >= 0
    <3>1. q <= -1 => a * q <= - a
      BY <1>1, <2>3
    <3> QED
      BY <1>1, <2>1, <2>3, <3>1
  <2>6. q <= k - 1
    <3>1. q >= k => a * q >= a * k
      BY <1>1, <2>3
    <3> QED
      BY <1>1, <2>1, <2>3, <3>1
  <2>7. r * k >= 0 /\ r * k + q <= mx - 1
    <3>1. r * k >= 0
      BY <1>1, <2>3
    <3>2. r * k <= (a - 1) * k
      BY <1>1, <2>3
    <3>3. (a - 1) * k = a * k - k
      BY <1>1
    <3>4. r * k \in Int
      BY <1>1, <2>3
    <3> HIDE DEF a, k
    <3> QED
      BY <1>1, <1>2, <2>3, <2>6, <3>1, <3>2, <3>3, <3>4
  <2>8. r * k + q \in Blocks
    BY <1>1, <1>2, <2>3, <2>5, <2>7 DEF Blocks
  <2>9. (r * k + q) \div k = r /\ (r * k + q) % k = q
    <3>1. r * k + q \in Int /\ r * k + q = k * r + q /\ q \in 0 .. k - 1 /\ r \in Int
      BY <1>1, <2>3, <2>5, <2>6
    <3> QED
      BY <1>1, <3>1, ModUnique
  <2> QED
    BY <2>3, <2>4, <2>5, <2>6, <2>8, <2>9, <1>1 DEF q, r
<1>4. ASSUME OnDiskSlot(t) = OnDiskSlot(u) PROVE t = u
  <2>1. t % a = u % a /\ t \div a = u \div a
    BY <1>3, <1>4
  <2>2. t = a * (t \div a) + (t % a) /\ u = a * (u \div a) + (u % a)
    BY <1>3
  <2> QED
    BY <2>1, <2>2, Zenon
<1> QED
  BY <1>3, <1>4

-----------------------------------------------------------------------------
(* The ring *)

\* A number of a transaction, and its logical block.
LEMMA BackType ==
  ASSUME NEW n \in TrNumbers, NEW d \in 0 .. mx
  PROVE  /\ Back(n, d) \in TrNumbers
         /\ At(n, d) \in Blocks
         /\ Back(n, d) % mx = At(n, d)
<1> DEFINE o == n % mx
<1>1. mx \in Nat /\ mx >= 2 /\ TrModulus \in Nat /\ TrModulus >= 2 * mx
  BY Consts
<1>2. n \in Nat /\ n < TrModulus
  BY <1>1 DEF TrNumbers
<1>3. PICK Q \in Int : TrModulus = mx * Q
  BY Turns
<1> DEFINE q == n \div mx
<1>4. q \in Int /\ n = mx * q + o /\ o \in 0 .. mx - 1
  <2>1. mx \in Nat \ {0} /\ n \in Int
    BY <1>1, <1>2
  <2> QED
    BY <2>1, DivBounds
<1>5. At(n, d) = IF o >= d THEN o - d ELSE o - d + mx
  BY DEF At
<1> HIDE DEF o, q
<1>6. At(n, d) \in 0 .. mx - 1
  BY <1>1, <1>4, <1>5
<1>7. Back(n, d) \in TrNumbers
  BY <1>1, <1>2 DEF Back, TrNumbers
<1>8. \E p \in Int : n - d = mx * p + At(n, d)
  <2>1. CASE o >= d
    <3>1. n - d = mx * q + At(n, d)
      BY <1>1, <1>4, <1>5, <2>1
    <3> QED
      BY <1>4, <3>1
  <2>2. CASE ~ (o >= d)
    <3>1. mx * (q - 1) = mx * q - mx
      BY <1>1, <1>4
    <3>2. n - d = mx * (q - 1) + At(n, d)
      BY <1>1, <1>4, <1>5, <2>2, <3>1
    <3> QED
      BY <1>4, <3>2
  <2> QED
    BY <2>1, <2>2
<1>9. PICK p \in Int : n - d = mx * p + At(n, d)
  BY <1>8
<1>10. \E z \in Int : Back(n, d) = mx * z + At(n, d)
  <2>1. CASE n >= d
    BY <1>9, <2>1 DEF Back
  <2>2. CASE ~ (n >= d)
    <3>1. mx * (p + Q) = mx * p + mx * Q
      BY <1>1, <1>3, <1>9
    <3>2. Back(n, d) = n - d + TrModulus
      BY <2>2 DEF Back
    <3>3. Back(n, d) = mx * (p + Q) + At(n, d)
      BY <1>1, <1>2, <1>3, <1>6, <1>9, <3>1, <3>2
    <3> QED
      BY <1>3, <1>9, <3>3
  <2> QED
    BY <2>1, <2>2
<1>11. Back(n, d) % mx = At(n, d)
  <2>1. Back(n, d) \in Int /\ mx \in Nat \ {0}
    BY <1>1, <1>7 DEF TrNumbers
  <2>2. PICK z \in Int : Back(n, d) = mx * z + At(n, d)
    BY <1>10
  <2> QED
    BY <1>6, <2>1, <2>2, ModUnique
<1> QED
  BY <1>6, <1>7, <1>11 DEF Blocks

\* Different transactions of the ring lie in different blocks, and every
\* block has one.
LEMMA AtBijective ==
  ASSUME NEW n \in TrNumbers
  PROVE  /\ \A c, d \in 1 .. mx : At(n, c) = At(n, d) => c = d
         /\ \A b \in Blocks : \E d \in 1 .. mx : b = At(n, d)
         /\ At(n, mx) = n % mx
<1> DEFINE o == n % mx
<1>1. mx \in Nat /\ mx >= 2
  BY Consts
<1>2. o \in 0 .. mx - 1
  BY <1>1, Consts, DivBounds DEF TrNumbers
<1>3. \A d \in 0 .. mx : At(n, d) = IF o >= d THEN o - d ELSE o - d + mx
  BY DEF At
<1> HIDE DEF o
<1>4. ASSUME NEW b \in Blocks PROVE \E d \in 1 .. mx : b = At(n, d)
  <2>1. b \in 0 .. mx - 1
    BY DEF Blocks
  <2>2. CASE b < o
    <3>1. o - b \in 1 .. mx /\ At(n, o - b) = b
      BY <1>1, <1>2, <1>3, <2>1, <2>2
    <3> QED
      BY <3>1
  <2>3. CASE ~ (b < o)
    <3>1. o - b + mx \in 1 .. mx /\ At(n, o - b + mx) = b
      BY <1>1, <1>2, <1>3, <2>1, <2>3
    <3> QED
      BY <3>1
  <2> QED
    BY <2>2, <2>3
<1>5. \A c, d \in 1 .. mx : At(n, c) = At(n, d) => c = d
  BY <1>1, <1>2, <1>3
<1>6. At(n, mx) = o
  BY <1>1, <1>2, <1>3
<1> QED
  BY <1>4, <1>5, <1>6 DEF o

\* After one more transaction the d-th newest is the one after the d-th.
LEMMA BackShifts ==
  ASSUME NEW n \in TrNumbers, NEW m, m = (n + 1) % TrModulus
  PROVE  /\ m \in TrNumbers
         /\ At(m, 1) = n % mx /\ Back(m, 1) = n
         /\ \A d \in 1 .. mx - 1 : At(m, d + 1) = At(n, d) /\ Back(m, d + 1) = Back(n, d)
<1> DEFINE o == n % mx
           v == m % mx
<1>1. mx \in Nat /\ mx >= 2 /\ TrModulus \in Nat /\ TrModulus >= 2 * mx
  BY Consts
<1>2. n \in Nat /\ n < TrModulus
  BY <1>1 DEF TrNumbers
<1>3. m = IF n + 1 < TrModulus THEN n + 1 ELSE 0
  <2>1. CASE n + 1 < TrModulus
    <3>1. n + 1 = TrModulus * 0 + (n + 1) /\ n + 1 \in 0 .. TrModulus - 1
      BY <1>1, <1>2, <2>1
    <3> QED
      BY <1>1, <1>2, <2>1, <3>1, ModUnique
  <2>2. CASE ~ (n + 1 < TrModulus)
    <3>1. n + 1 = TrModulus * 1 + 0 /\ 0 \in 0 .. TrModulus - 1
      BY <1>1, <1>2, <2>2
    <3> QED
      BY <1>1, <1>2, <2>2, <3>1, ModUnique
  <2> QED
    BY <2>1, <2>2
<1>4. m \in TrNumbers
  BY <1>1, <1>2, <1>3 DEF TrNumbers
<1>5. o \in 0 .. mx - 1 /\ v \in 0 .. mx - 1
  <2>1. mx \in Nat \ {0} /\ n \in Int /\ m \in Int
    BY <1>1, <1>2, <1>3
  <2> QED
    BY <2>1, DivBounds
<1>6. Back(m, 1) = n
  BY <1>1, <1>2, <1>3 DEF Back
<1>7. At(m, 1) = o
  <2>1. Back(m, 1) % mx = At(m, 1)
    BY <1>1, <1>4, BackType
  <2> QED
    BY <1>6, <2>1
<1>8. \A d \in 1 .. mx - 1 : Back(m, d + 1) = Back(n, d)
  BY <1>1, <1>2, <1>3 DEF Back
<1>9. v = IF o + 1 < mx THEN o + 1 ELSE 0
  <2>1. At(m, 1) = IF v >= 1 THEN v - 1 ELSE v - 1 + mx
    BY DEF At
  <2> HIDE DEF o, v
  <2> QED
    BY <1>1, <1>5, <1>7, <2>1
<1>10. ASSUME NEW d \in 1 .. mx - 1 PROVE At(m, d + 1) = At(n, d)
  <2>1. At(m, d + 1) = IF v >= d + 1 THEN v - (d + 1) ELSE v - (d + 1) + mx
    BY DEF At
  <2>2. At(n, d) = IF o >= d THEN o - d ELSE o - d + mx
    BY DEF At
  <2> HIDE DEF o, v
  <2> QED
    BY <1>1, <1>5, <1>9, <2>1, <2>2
<1> QED
  BY <1>4, <1>6, <1>7, <1>8, <1>10

\* The comparison of replay_al_84(), where the subtraction wraps: of two
\* transactions of the ring the one farther back is before.
LEMMA BeforeIsOlder ==
  ASSUME NEW n \in TrNumbers, NEW c \in 1 .. mx, NEW d \in 1 .. mx, build = "wrapping"
  PROVE  Before(Back(n, c), Back(n, d)) <=> d < c
<1> DEFINE a == Back(n, c)
           b == Back(n, d)
           M == TrModulus
<1>1. mx \in Nat /\ mx >= 2 /\ M \in Nat /\ M >= 2 * mx
  BY Consts
<1>2. n \in Nat /\ n < M
  BY <1>1 DEF TrNumbers
<1>3. a \in Int /\ b \in Int /\ (a - b = d - c \/ a - b = d - c + M \/ a - b = d - c - M)
  BY <1>1, <1>2 DEF Back
<1> HIDE DEF a, b
<1>4. (a - b) % M = IF d < c THEN d - c + M ELSE d - c
  <2> DEFINE r == IF d < c THEN d - c + M ELSE d - c
  <2>1. r \in 0 .. M - 1
    BY <1>1
  <2>2. \E q \in Int : a - b = M * q + r
    <3>1. M * 0 = 0 /\ M * 1 = M /\ M * (-1) = - M /\ M * (-2) = - (2 * M)
      BY <1>1
    <3>2. a - b = M * 0 + r \/ a - b = M * 1 + r \/ a - b = M * (-1) + r \/ a - b = M * (-2) + r
      BY <1>1, <1>3, <3>1
    <3> HIDE DEF M, r
    <3> QED
      BY <3>2
  <2>3. PICK q \in Int : a - b = M * q + r
    BY <2>2
  <2> HIDE DEF M, r
  <2>4. (a - b) % M = r
    BY <1>1, <1>3, <2>1, <2>3, ModUnique
  <2> QED
    BY <2>4 DEF r
<1>5. Before(a, b) <=> Signed((a - b) % M) < 0
  BY DEF Before
<1> DEFINE z == (a - b) % M
<1>6. Before(a, b) <=> (IF 2 * z >= M THEN z - M ELSE z) < 0
  BY <1>5 DEF Signed
<1>7. z = IF d < c THEN d - c + M ELSE d - c
  BY <1>4
<1> HIDE DEF z, M
<1>8. Before(a, b) <=> d < c
  BY <1>1, <1>6, <1>7
<1> QED
  BY <1>8 DEF a, b

-----------------------------------------------------------------------------
(* The two loops of replay_al_84() *)

\* The recursion of the scan has a solution.
LEMMA ScanExists ==
  ASSUME NEW n \in Nat
  PROVE  \E f : f = [b \in 0 .. n |-> IF b = 0 THEN Nothing ELSE ScanStep(f[b - 1], b)]
<1> DEFINE Solves(f, k) == f = [b \in 0 .. k |-> IF b = 0 THEN Nothing ELSE ScanStep(f[b - 1], b)]
           T == {k \in Nat : ~ \E f : Solves(f, k)}
<1>1. ASSUME T # {} PROVE FALSE
  <2>1. PICK k \in T : \A y \in T : k <= y
    <3> HIDE DEF T
    <3>1. T \subseteq Nat
      BY DEF T
    <3> QED
      BY <1>1, <3>1, Least
  <2>2. k \in Nat /\ ~ \E f : Solves(f, k)
    BY <2>1
  <2>3. k # 0
    <3>1. Solves([b \in 0 .. 0 |-> Nothing], 0)
      OBVIOUS
    <3> QED
      BY <2>2, <3>1
  <2>4. k - 1 \in Nat /\ k - 1 \notin T
    <3> HIDE DEF T
    <3> QED
      BY <2>1, <2>2, <2>3
  <2>5. PICK g : Solves(g, k - 1)
    BY <2>4
  <2> DEFINE h == [b \in 0 .. k |-> IF b < k THEN g[b] ELSE ScanStep(g[b - 1], b)]
  <2>6. \A b \in 0 .. k : h[b] = IF b = 0 THEN Nothing ELSE ScanStep(h[b - 1], b)
    <3> SUFFICES ASSUME NEW b \in 0 .. k PROVE h[b] = IF b = 0 THEN Nothing ELSE ScanStep(h[b - 1], b)
      OBVIOUS
    <3>1. CASE b < k
      <4>1. b \in 0 .. k - 1
        BY <2>2, <3>1
      <4>2. g[b] = IF b = 0 THEN Nothing ELSE ScanStep(g[b - 1], b)
        BY <2>5, <4>1
      <4>3. h[b] = g[b] /\ (b # 0 => h[b - 1] = g[b - 1])
        BY <2>2, <3>1
      <4> HIDE DEF h
      <4> QED
        BY <4>2, <4>3
    <3>2. CASE b = k
      <4>1. h[b] = ScanStep(g[b - 1], b) /\ h[b - 1] = g[b - 1] /\ b # 0
        BY <2>2, <2>3, <3>2
      <4> HIDE DEF h
      <4> QED
        BY <4>1
    <3> QED
      BY <2>2, <3>1, <3>2
  <2>7. Solves(h, k)
    <3>1. h = [b \in 0 .. k |-> h[b]]
      OBVIOUS
    <3> HIDE DEF h
    <3> QED
      BY <2>6, <3>1
  <2> HIDE DEF h, Solves
  <2> QED
    BY <2>2, <2>7
<1>2. \E f : Solves(f, n)
  BY <1>1
<1> QED
  BY <1>2

\* The scan goes block by block.
LEMMA ScanRecursion ==
  \E f : /\ Cursors = f[mx] /\ f[0] = Nothing
         /\ \A b \in 1 .. mx : f[b] = ScanStep(f[b - 1], b)
<1> DEFINE f == CHOOSE f : f = [b \in 0 .. mx |-> IF b = 0 THEN Nothing ELSE ScanStep(f[b - 1], b)]
<1>1. Cursors = f[mx]
  BY DEF Cursors, ScanStep, Nothing
<1>2. mx \in Nat
  BY Consts
<1>3. f = [b \in 0 .. mx |-> IF b = 0 THEN Nothing ELSE ScanStep(f[b - 1], b)]
  BY <1>2, ScanExists
<1> HIDE DEF f
<1>4. f[0] = Nothing
  BY <1>2, <1>3
<1>5. \A b \in 1 .. mx : f[b] = ScanStep(f[b - 1], b)
  <2> SUFFICES ASSUME NEW b \in 1 .. mx PROVE f[b] = ScanStep(f[b - 1], b)
    OBVIOUS
  <2>1. b \in 0 .. mx /\ b # 0
    BY <1>2
  <2> QED
    BY <1>3, <2>1, Zenon
<1> QED
  BY <1>1, <1>4, <1>5

\* The recursion of the walk has a solution.
LEMMA WalkExists ==
  ASSUME NEW o, NEW n \in Nat
  PROVE  \E f : f = [b \in 0 .. n |-> IF b = 0 THEN AllFree ELSE WalkStep(f[b - 1], o, b)]
<1> DEFINE Solves(f, k) == f = [b \in 0 .. k |-> IF b = 0 THEN AllFree ELSE WalkStep(f[b - 1], o, b)]
           T == {k \in Nat : ~ \E f : Solves(f, k)}
<1>1. ASSUME T # {} PROVE FALSE
  <2>1. PICK k \in T : \A y \in T : k <= y
    <3> HIDE DEF T
    <3>1. T \subseteq Nat
      BY DEF T
    <3> QED
      BY <1>1, <3>1, Least
  <2>2. k \in Nat /\ ~ \E f : Solves(f, k)
    BY <2>1
  <2>3. k # 0
    <3>1. Solves([b \in 0 .. 0 |-> AllFree], 0)
      OBVIOUS
    <3> QED
      BY <2>2, <3>1
  <2>4. k - 1 \in Nat /\ k - 1 \notin T
    <3> HIDE DEF T
    <3> QED
      BY <2>1, <2>2, <2>3
  <2>5. PICK g : Solves(g, k - 1)
    BY <2>4
  <2> DEFINE h == [b \in 0 .. k |-> IF b < k THEN g[b] ELSE WalkStep(g[b - 1], o, b)]
  <2>6. \A b \in 0 .. k : h[b] = IF b = 0 THEN AllFree ELSE WalkStep(h[b - 1], o, b)
    <3> SUFFICES ASSUME NEW b \in 0 .. k PROVE h[b] = IF b = 0 THEN AllFree ELSE WalkStep(h[b - 1], o, b)
      OBVIOUS
    <3>1. CASE b < k
      <4>1. b \in 0 .. k - 1
        BY <2>2, <3>1
      <4>2. g[b] = IF b = 0 THEN AllFree ELSE WalkStep(g[b - 1], o, b)
        BY <2>5, <4>1
      <4>3. h[b] = g[b] /\ (b # 0 => h[b - 1] = g[b - 1])
        BY <2>2, <3>1
      <4> HIDE DEF h
      <4> QED
        BY <4>2, <4>3
    <3>2. CASE b = k
      <4>1. h[b] = WalkStep(g[b - 1], o, b) /\ h[b - 1] = g[b - 1] /\ b # 0
        BY <2>2, <2>3, <3>2
      <4> HIDE DEF h
      <4> QED
        BY <4>1
    <3> QED
      BY <2>2, <3>1, <3>2
  <2>7. Solves(h, k)
    <3>1. h = [b \in 0 .. k |-> h[b]]
      OBVIOUS
    <3> HIDE DEF h
    <3> QED
      BY <2>6, <3>1
  <2> HIDE DEF h, Solves
  <2> QED
    BY <2>2, <2>7
<1>2. \E f : Solves(f, n)
  BY <1>1
<1> QED
  BY <1>2

\* The walk goes transaction by transaction.
LEMMA WalkRecursion ==
  ASSUME NEW o, NEW k \in Nat, Cursors.oldest = o,
         k = (IF Cursors.newest < o THEN Cursors.newest + mx ELSE Cursors.newest) - o + 1
  PROVE  \E f : /\ HotExtent = f[k] /\ f[0] = AllFree
                /\ \A b \in 1 .. k : f[b] = WalkStep(f[b - 1], o, b)
<1> DEFINE Walk(c, l) == CHOOSE f : f = [b \in 0 .. l |-> IF b = 0 THEN AllFree ELSE WalkStep(f[b - 1], c, b)]
           f == Walk(o, k)
           l == (IF Cursors.newest < Cursors.oldest THEN Cursors.newest + mx ELSE Cursors.newest) - Cursors.oldest + 1
<1>1. HotExtent = Walk(Cursors.oldest, l)[l]
  BY DEF HotExtent, WalkStep, AllFree
<1>2. l = k
  BY Zenon
<1> HIDE DEF Walk, l
<1>3. HotExtent = Walk(o, k)[k]
  BY <1>1, <1>2, Zenon
<1>4. f = [b \in 0 .. k |-> IF b = 0 THEN AllFree ELSE WalkStep(f[b - 1], o, b)]
  BY WalkExists DEF Walk
<1> HIDE DEF f
<1>5. f[0] = AllFree
  BY <1>4
<1>6. \A b \in 1 .. k : f[b] = WalkStep(f[b - 1], o, b)
  <2> SUFFICES ASSUME NEW b \in 1 .. k PROVE f[b] = WalkStep(f[b - 1], o, b)
    OBVIOUS
  <2>1. b \in 0 .. k /\ b # 0
    OBVIOUS
  <2> QED
    BY <1>4, <2>1, Zenon
<1>7. HotExtent = f[k]
  BY <1>3 DEF f
<1> QED
  BY <1>5, <1>6, <1>7

\* One pass of the scan.
LEMMA ScanStepKeeps ==
  ASSUME NEW n, NEW w, Window(ring, n, w), build = "wrapping",
         NEW b \in 1 .. mx, NEW c, Seen(n, w, b - 1, c)
  PROVE  Seen(n, w, b, ScanStep(c, b))
<1>1. mx \in Nat /\ mx >= 2
  BY Consts
<1>2. n \in TrNumbers /\ w \in 0 .. mx
  BY DEF Window
<1>3. \A d \in 1 .. mx : At(n, d) \in Blocks /\ At(n, d) \in Int /\ At(n, d) < mx
  <2>1. \A d \in 1 .. mx : At(n, d) \in Blocks
    BY <1>1, <1>2, BackType
  <2> QED
    BY <1>1, <2>1 DEF Blocks
<1>4. \A x \in Blocks : AlCpu(x) = ring[x]
  BY DEF ring
<1>5. b - 1 \in Blocks
  BY <1>1 DEF Blocks
<1>6. PICK d \in 1 .. mx : b - 1 = At(n, d)
  BY <1>2, <1>5, AtBijective
<1>7. \A x \in 1 .. w : At(n, x) < b => At(n, x) < b - 1 \/ x = d
  <2> SUFFICES ASSUME NEW x \in 1 .. w, At(n, x) < b, ~ (At(n, x) < b - 1) PROVE x = d
    OBVIOUS
  <2>1. x \in 1 .. mx
    BY <1>1, <1>2
  <2>2. At(n, x) = b - 1
    BY <1>1, <1>3, <2>1
  <2> QED
    BY <1>2, <1>6, <2>1, <2>2, AtBijective
<1>8. CASE d > w
  <2>1. ~ IsUpdate(b - 1)
    <3>1. d \in w + 1 .. mx
      BY <1>1, <1>2, <1>8
    <3>2. ring[At(n, d)].type # "update"
      BY <3>1 DEF Window
    <3> QED
      BY <1>4, <1>5, <1>6, <3>2 DEF IsUpdate
  <2>2. ScanStep(c, b) = c
    BY <2>1 DEF ScanStep
  <2>3. \A x \in 1 .. w : At(n, x) < b => At(n, x) < b - 1
    BY <1>2, <1>7, <1>8
  <2>4. \A x \in 1 .. w : x \in 1 .. mx
    BY <1>1, <1>2
  <2>5. CASE c = Nothing /\ \A x \in 1 .. w : At(n, x) >= b - 1
    <3>1. \A x \in 1 .. w : At(n, x) >= b
      BY <1>1, <1>3, <2>3, <2>4, <2>5
    <3> QED
      BY <2>2, <2>5, <3>1 DEF Seen
  <2>6. ASSUME NEW e \in 1 .. w, NEW g \in 1 .. w,
               c = [oldest |-> At(n, e), newest |-> At(n, g)], At(n, e) < b - 1,
               \A x \in 1 .. w : At(n, x) < b - 1 => g <= x /\ x <= e
        PROVE  Seen(n, w, b, c)
    <3>1. At(n, e) < b /\ \A x \in 1 .. w : At(n, x) < b => g <= x /\ x <= e
      BY <1>1, <1>3, <2>3, <2>4, <2>6
    <3> QED
      BY <2>6, <3>1 DEF Seen
  <2> QED
    BY <2>2, <2>5, <2>6 DEF Seen
<1>9. CASE d <= w
  <2>1. d \in 1 .. w
    BY <1>1, <1>2, <1>9
  <2>2. \A x \in 1 .. w : ring[At(n, x)].type = "update" /\ ring[At(n, x)].tr_number = Back(n, x)
    BY DEF Window
  <2>3. IsUpdate(b - 1) /\ AlCpu(b - 1).tr_number = Back(n, d)
    BY <1>4, <1>5, <1>6, <2>1, <2>2 DEF IsUpdate
  <2>4. \A x \in 1 .. w : x \in 1 .. mx
    BY <1>1, <1>2
  <2>5. CASE c = Nothing /\ \A x \in 1 .. w : At(n, x) >= b - 1
    <3>1. ScanStep(c, b) = [oldest |-> At(n, d), newest |-> At(n, d)]
      BY <1>6, <2>3, <2>5 DEF ScanStep, Nothing
    <3>2. \A x \in 1 .. w : At(n, x) < b => d <= x /\ x <= d
      BY <1>1, <1>2, <1>3, <1>7, <2>4, <2>5
    <3>3. At(n, d) < b
      BY <1>6
    <3> QED
      BY <2>1, <3>1, <3>2, <3>3 DEF Seen
  <2>6. ASSUME NEW e \in 1 .. w, NEW g \in 1 .. w,
               c = [oldest |-> At(n, e), newest |-> At(n, g)], At(n, e) < b - 1,
               \A x \in 1 .. w : At(n, x) < b - 1 => g <= x /\ x <= e
        PROVE  Seen(n, w, b, ScanStep(c, b))
    <3>1. AlCpu(At(n, e)).tr_number = Back(n, e) /\ AlCpu(At(n, g)).tr_number = Back(n, g)
      BY <1>3, <1>4, <2>2, <2>4
    <3>2. At(n, e) # mx
      BY <1>1, <1>3, <2>4
    <3>3. Before(Back(n, d), Back(n, e)) <=> e < d
      BY <1>2, <2>1, <2>4, BeforeIsOlder
    <3>4. Before(Back(n, g), Back(n, d)) <=> d < g
      BY <1>2, <2>1, <2>4, BeforeIsOlder
    <3> DEFINE e2 == IF e < d THEN d ELSE e
               g2 == IF d < g THEN d ELSE g
    <3>5. ScanStep(c, b) = [oldest |-> IF e < d THEN b - 1 ELSE At(n, e),
                            newest |-> IF d < g THEN b - 1 ELSE At(n, g)]
      BY <2>3, <2>6, <3>1, <3>2, <3>3, <3>4 DEF ScanStep
    <3>6. ScanStep(c, b) = [oldest |-> At(n, e2), newest |-> At(n, g2)]
      BY <1>6, <3>5
    <3>7. e2 \in 1 .. w /\ g2 \in 1 .. w /\ e2 >= d /\ e2 >= e /\ g2 <= d /\ g2 <= g
      BY <1>2, <2>1
    <3>8. At(n, e2) < b
      BY <1>1, <1>3, <1>6, <2>4, <2>6
    <3> HIDE DEF e2, g2
    <3>9. \A x \in 1 .. w : At(n, x) < b => g2 <= x /\ x <= e2
      BY <1>2, <1>7, <2>1, <2>6, <3>7
    <3> QED
      BY <3>6, <3>7, <3>8, <3>9 DEF Seen
  <2> QED
    BY <2>5, <2>6 DEF Seen
<1> QED
  BY <1>1, <1>2, <1>8, <1>9

\* The scan finds the oldest and the newest transaction of the ring.
LEMMA ScanResult ==
  ASSUME NEW n, NEW w, Window(ring, n, w), build = "wrapping", w # 0
  PROVE  Cursors = [oldest |-> At(n, w), newest |-> At(n, 1)]
<1>1. mx \in Nat /\ mx >= 2 /\ n \in TrNumbers /\ w \in 1 .. mx
  BY Consts DEF Window
<1>2. PICK f : /\ Cursors = f[mx] /\ f[0] = Nothing
               /\ \A b \in 1 .. mx : f[b] = ScanStep(f[b - 1], b)
  BY ScanRecursion
<1> DEFINE T == {b \in 0 .. mx : ~ Seen(n, w, b, f[b])}
<1>3. \A d \in 1 .. w : At(n, d) \in Int /\ At(n, d) >= 0 /\ At(n, d) < mx
  <2>1. \A d \in 1 .. w : At(n, d) \in Blocks
    BY <1>1, BackType
  <2> QED
    BY <1>1, <2>1 DEF Blocks
<1>4. ASSUME T # {} PROVE FALSE
  <2>1. PICK b \in T : \A y \in T : b <= y
    <3> HIDE DEF T
    <3>1. T \subseteq Nat
      BY <1>1 DEF T
    <3> QED
      BY <1>4, <3>1, Least
  <2>2. b \in 0 .. mx /\ ~ Seen(n, w, b, f[b])
    BY <2>1
  <2>3. b # 0
    <3>1. Seen(n, w, 0, Nothing)
      BY <1>3 DEF Seen
    <3> QED
      BY <1>2, <2>2, <3>1
  <2>4. b \in 1 .. mx /\ b - 1 \in 0 .. mx /\ b - 1 \notin T
    <3> HIDE DEF T
    <3> QED
      BY <1>1, <2>1, <2>2, <2>3
  <2>5. Seen(n, w, b - 1, f[b - 1])
    BY <2>4
  <2>6. Seen(n, w, b, ScanStep(f[b - 1], b))
    BY <2>4, <2>5, ScanStepKeeps
  <2> QED
    BY <1>2, <2>2, <2>4, <2>6
<1>5. Seen(n, w, mx, f[mx])
  BY <1>1, <1>4
<1>6. 1 \in 1 .. w /\ w \in 1 .. w
  BY <1>1
<1>7. PICK e \in 1 .. w, g \in 1 .. w :
        /\ f[mx] = [oldest |-> At(n, e), newest |-> At(n, g)]
        /\ \A d \in 1 .. w : At(n, d) < mx => g <= d /\ d <= e
  <2>1. ~ \A d \in 1 .. w : At(n, d) >= mx
    BY <1>1, <1>3, <1>6
  <2> QED
    BY <1>5, <2>1 DEF Seen
<1>8. e = w /\ g = 1
  BY <1>1, <1>3, <1>6, <1>7
<1> QED
  BY <1>2, <1>7, <1>8

\* Pass k of the walk replays the transaction w - k + 1.
LEMMA WalkIndex ==
  ASSUME NEW n \in TrNumbers, NEW w \in 1 .. mx, NEW k \in 1 .. w
  PROVE  (At(n, w) + k - 1) % mx = At(n, w - k + 1)
<1> DEFINE o == n % mx
           a == At(n, w)
           z == At(n, w - k + 1)
<1>1. mx \in Nat /\ mx >= 2
  BY Consts
<1>2. o \in 0 .. mx - 1
  <2>1. mx \in Nat \ {0} /\ n \in Int
    BY <1>1, Consts DEF TrNumbers
  <2> QED
    BY <2>1, DivBounds
<1>3. a = (IF o >= w THEN o - w ELSE o - w + mx)
  BY DEF At
<1>4. z = IF o >= w - k + 1 THEN o - (w - k + 1) ELSE o - (w - k + 1) + mx
  BY DEF At
<1> HIDE DEF o, a, z
<1>5. z \in 0 .. mx - 1 /\ a + k - 1 \in Int /\ (a + k - 1 = z \/ a + k - 1 = mx + z)
  BY <1>1, <1>2, <1>3, <1>4
<1>6. a + k - 1 = mx * 0 + z \/ a + k - 1 = mx * 1 + z
  BY <1>1, <1>5
<1>7. (a + k - 1) % mx = z
  <2>1. mx \in Nat \ {0} /\ 0 \in Int /\ 1 \in Int
    BY <1>1
  <2> QED
    BY <1>5, <1>6, <2>1, ModUnique
<1> QED
  BY <1>7 DEF a, z

\* One pass of the walk.
LEMMA WalkStepKeeps ==
  ASSUME NEW n, NEW w, Window(ring, n, w), NEW k \in 1 .. w, NEW h, Told(n, w, k - 1, h)
  PROVE  Told(n, w, k, WalkStep(h, At(n, w), k))
<1> DEFINE d == w - k + 1
           tr == ring[At(n, d)]
           g == WalkStep(h, At(n, w), k)
<1>1. mx \in Nat /\ n \in TrNumbers /\ w \in 1 .. mx /\ w \in Nat /\ k \in Nat
  BY Consts DEF Window
<1>2. d \in 1 .. w /\ d \in 1 .. mx /\ w - (k - 1) + 1 = d + 1 /\ w - k + 1 = d
  BY <1>1
<1>3. At(n, d) \in Blocks
  BY <1>1, <1>2, BackType
<1>4. (At(n, w) + k - 1) % mx = At(n, d)
  BY <1>1, WalkIndex
<1>5. AlCpu(At(n, d)) = tr
  BY <1>3 DEF ring
<1>6. tr.type = "update" /\ WellFormed(tr)
  BY <1>2 DEF Window
<1> HIDE DEF d
<1>7. g = ReplayTransaction(h, tr)
  <2>1. IsUpdate(At(n, d))
    BY <1>5, <1>6 DEF IsUpdate
  <2> QED
    BY <1>4, <1>5, <2>1 DEF WalkStep
<1> HIDE DEF g
<1>8. SUFFICES ASSUME NEW s \in HotSlots
               PROVE  IF s \in KernelSlots THEN Last(ring, n, d, w, s, g[s]) ELSE g[s] = FREE
  BY <1>2 DEF Told, g
<1> DEFINE i == s - tr.context_start_slot_nr
<1>9. g[s] = IF s \in DOMAIN tr.updates THEN tr.updates[s]
             ELSE IF i \in 0 .. C - 1 /\ (tr.context[i] # FREE \/ s < tr.context_size)
             THEN tr.context[i] ELSE h[s]
  BY <1>7, <1>8 DEF ReplayTransaction, ReplayUpdates, ReplayContext, C
<1>10. /\ tr.context_size = NrElements /\ DOMAIN tr.updates \subseteq KernelSlots
       /\ tr.context_start_slot_nr \in KernelSlots
       /\ \A x \in 0 .. C - 1 : tr.context_start_slot_nr + x \notin KernelSlots => tr.context[x] = FREE
  BY <1>6 DEF WellFormed
<1>11. s \in Nat /\ NrElements \in Nat /\ C \in Nat
  BY <1>8, Consts DEF HotSlots
<1>12. IF s \in KernelSlots THEN Last(ring, n, d + 1, w, s, h[s]) ELSE h[s] = FREE
  BY <1>2, <1>8 DEF Told
<1>13. CASE s \notin KernelSlots
  <2>1. s \notin DOMAIN tr.updates /\ h[s] = FREE
    BY <1>10, <1>12, <1>13
  <2>2. ~ (s < tr.context_size)
    BY <1>10, <1>11, <1>13 DEF KernelSlots
  <2>3. i \in 0 .. C - 1 => tr.context[i] = FREE
    <3>1. tr.context_start_slot_nr + i = s
      BY <1>10, <1>11 DEF KernelSlots
    <3> HIDE DEF i, tr
    <3> QED
      BY <1>10, <1>13, <3>1
  <2> HIDE DEF i, tr
  <2> QED
    BY <1>9, <1>13, <2>1, <2>2, <2>3
<1>14. CASE s \in KernelSlots
  <2>1. s < tr.context_size
    BY <1>10, <1>11, <1>14 DEF KernelSlots
  <2>2. CASE Mentions(tr, s)
    <3>1. g[s] = Says(tr, s)
      BY <1>9, <2>1, <2>2 DEF Mentions, Says
    <3>2. \A c \in d .. d - 1 : ~ Mentions(ring[At(n, c)], s)
      BY <1>1, <1>2
    <3>3. d \in d .. w
      BY <1>1, <1>2
    <3> QED
      BY <1>14, <2>2, <3>1, <3>2, <3>3 DEF Last
  <2>3. CASE ~ Mentions(tr, s)
    <3>1. g[s] = h[s]
      BY <1>9, <2>3 DEF Mentions
    <3>2. \A c \in d .. w : c = d \/ c \in d + 1 .. w
      BY <1>1, <1>2
    <3>3. \A c \in d + 1 .. w : c \in d .. w
      BY <1>1, <1>2
    <3>4. CASE h[s] = FREE /\ \A c \in d + 1 .. w : ~ Mentions(ring[At(n, c)], s)
      <4>1. \A c \in d .. w : ~ Mentions(ring[At(n, c)], s)
        BY <2>3, <3>2, <3>4
      <4> QED
        BY <1>14, <3>1, <3>4, <4>1 DEF Last
    <3>5. ASSUME NEW c \in d + 1 .. w, Mentions(ring[At(n, c)], s),
                 h[s] = Says(ring[At(n, c)], s),
                 \A e \in d + 1 .. c - 1 : ~ Mentions(ring[At(n, e)], s)
          PROVE  Last(ring, n, d, w, s, g[s])
      <4>1. \A e \in d .. c - 1 : e = d \/ e \in d + 1 .. c - 1
        BY <1>1, <1>2
      <4>2. \A e \in d .. c - 1 : ~ Mentions(ring[At(n, e)], s)
        BY <2>3, <3>5, <4>1
      <4> HIDE DEF tr
      <4> QED
        BY <3>1, <3>3, <3>5, <4>2 DEF Last
    <3>6. Last(ring, n, d + 1, w, s, h[s])
      BY <1>12, <1>14
    <3> QED
      BY <1>14, <3>4, <3>5, <3>6 DEF Last
  <2> QED
    BY <2>2, <2>3
<1> QED
  BY <1>13, <1>14

\* The transactions of the ring decide what is told of a slot.
LEMMA LastUnique ==
  ASSUME NEW R, NEW n, NEW w \in Nat, NEW s, NEW u, NEW v,
         Last(R, n, 1, w, s, u), Last(R, n, 1, w, s, v)
  PROVE  u = v
<1>1. CASE \A d \in 1 .. w : ~ Mentions(R[At(n, d)], s)
  BY <1>1 DEF Last
<1>2. CASE \E d \in 1 .. w : Mentions(R[At(n, d)], s)
  <2>1. PICK d \in 1 .. w : /\ Mentions(R[At(n, d)], s) /\ u = Says(R[At(n, d)], s)
                            /\ \A c \in 1 .. d - 1 : ~ Mentions(R[At(n, c)], s)
    BY <1>2 DEF Last
  <2>2. PICK e \in 1 .. w : /\ Mentions(R[At(n, e)], s) /\ v = Says(R[At(n, e)], s)
                            /\ \A c \in 1 .. e - 1 : ~ Mentions(R[At(n, c)], s)
    BY <1>2 DEF Last
  <2>3. d < e => d \in 1 .. e - 1
    OBVIOUS
  <2>4. e < d => e \in 1 .. d - 1
    OBVIOUS
  <2>5. d = e
    BY <2>1, <2>2, <2>3, <2>4
  <2> QED
    BY <2>1, <2>2, <2>5
<1> QED
  BY <1>1, <1>2

\* replay_al_84() hands on what the transactions of the ring tell.
LEMMA WalkResult ==
  ASSUME NEW n, NEW w, Window(ring, n, w), build = "wrapping", w # 0,
         NEW act, Tells(ring, n, w, act)
  PROVE  HotSet = Values(act)
<1>1. mx \in Nat /\ mx >= 2 /\ n \in TrNumbers /\ w \in 1 .. mx /\ w \in Nat
  BY Consts DEF Window
<1> DEFINE o == At(n, w)
           z == At(n, 1)
<1>2. Cursors = [oldest |-> o, newest |-> z]
  BY ScanResult
<1>3. Cursors.oldest = o /\ Cursors.newest = z
  BY <1>2
<1>4. w = (IF z < o THEN z + mx ELSE z) - o + 1
  <2> DEFINE x == n % mx
  <2>1. x \in 0 .. mx - 1
    <3>1. mx \in Nat \ {0} /\ n \in Int
      BY <1>1, Consts DEF TrNumbers
    <3> QED
      BY <3>1, DivBounds
  <2>2. o = (IF x >= w THEN x - w ELSE x - w + mx) /\ z = (IF x >= 1 THEN x - 1 ELSE x - 1 + mx)
    BY DEF At
  <2> HIDE DEF o, z, x
  <2> QED
    BY <1>1, <2>1, <2>2
<1> HIDE DEF z
<1>5. w = (IF Cursors.newest < o THEN Cursors.newest + mx ELSE Cursors.newest) - o + 1
  BY <1>3, <1>4
<1>6. PICK f : /\ HotExtent = f[w] /\ f[0] = AllFree
               /\ \A b \in 1 .. w : f[b] = WalkStep(f[b - 1], o, b)
  <2> HIDE DEF o
  <2> QED
    BY <1>1, <1>3, <1>5, WalkRecursion
<1> DEFINE T == {b \in 0 .. w : ~ Told(n, w, b, f[b])}
<1>7. ASSUME T # {} PROVE FALSE
  <2>1. PICK b \in T : \A y \in T : b <= y
    <3> HIDE DEF T
    <3>1. T \subseteq Nat
      BY <1>1 DEF T
    <3> QED
      BY <1>7, <3>1, Least
  <2>2. b \in 0 .. w /\ ~ Told(n, w, b, f[b])
    BY <2>1
  <2>3. b # 0
    <3>1. \A d \in w - 0 + 1 .. w : FALSE
      BY <1>1
    <3>2. Told(n, w, 0, AllFree)
      BY <3>1 DEF Told, AllFree, Last
    <3> QED
      BY <1>6, <2>2, <3>2
  <2>4. b \in 1 .. w /\ b - 1 \in 0 .. w /\ b - 1 \notin T
    <3> HIDE DEF T
    <3> QED
      BY <1>1, <2>1, <2>2, <2>3
  <2>5. Told(n, w, b - 1, f[b - 1])
    BY <2>4
  <2>6. Told(n, w, b, WalkStep(f[b - 1], o, b))
    BY <2>4, <2>5, WalkStepKeeps
  <2> QED
    BY <1>6, <2>2, <2>4, <2>6
<1>8. Told(n, w, w, f[w])
  BY <1>1, <1>7
<1>9. w - w + 1 = 1
  BY <1>1
<1>10. \A s \in KernelSlots : s \in HotSlots
  BY Consts DEF KernelSlots, HotSlots
<1> DEFINE h == f[w]
<1>11. \A s \in KernelSlots : h[s] = act[s]
  <2> SUFFICES ASSUME NEW s \in KernelSlots PROVE h[s] = act[s]
    OBVIOUS
  <2>1. Last(ring, n, 1, w, s, h[s])
    BY <1>8, <1>9, <1>10 DEF Told
  <2>2. Last(ring, n, 1, w, s, act[s])
    BY DEF Tells
  <2> HIDE DEF h
  <2> QED
    BY <1>1, <2>1, <2>2, LastUnique
<1>12. \A s \in HotSlots \ KernelSlots : h[s] = FREE
  BY <1>8 DEF Told
<1> HIDE DEF h
<1>13. HotExtent = h
  BY <1>6 DEF h
<1> QED
  BY <1>10, <1>11, <1>12, <1>13 DEF HotSet, Values

-----------------------------------------------------------------------------
(* The bitmap *)

\* Numbers between multiples of m have quotients between the factors.
LEMMA QuotientRange ==
  ASSUME NEW m \in Nat \ {0}, NEW a \in Int, NEW b \in Int, NEW q \in Int, NEW r \in 0 .. m - 1,
         m * a <= m * q + r, m * q + r < m * b
  PROVE  a <= q /\ q < b
<1>1. q <= a - 1 => m * q <= m * (a - 1)
  OBVIOUS
<1>2. m * (a - 1) = m * a - m
  OBVIOUS
<1>3. q >= b => m * q >= m * b
  OBVIOUS
<1>4. m * q \in Int /\ m * a \in Int /\ m * b \in Int
  OBVIOUS
<1>5. a <= q
  BY <1>1, <1>2, <1>4
<1>6. q < b
  BY <1>3, <1>4
<1> QED
  BY <1>5, <1>6

\* And the other way round.
LEMMA QuotientBounds ==
  ASSUME NEW m \in Nat \ {0}, NEW a \in Int, NEW b \in Int, NEW q \in Int, NEW r \in 0 .. m - 1,
         a <= q, q < b
  PROVE  m * a <= m * q + r /\ m * q + r < m * b
<1>1. m * q >= m * a
  OBVIOUS
<1>2. m * b >= m * (q + 1)
  OBVIOUS
<1>3. m * (q + 1) = m * q + m
  OBVIOUS
<1>4. m * q \in Int /\ m * a \in Int /\ m * b \in Int
  OBVIOUS
<1> QED
  BY <1>1, <1>2, <1>3, <1>4

\* What is in Bits().
LEMMA BitsMembers ==
  ASSUME NEW W, NEW P, NEW l, NEW h, NEW z
  PROVE  z \in Bits(W, P, l, h) <=>
           \E bit \in l .. h - 1, peer \in 0 .. P - 1 : z = <<(bit \div W) * P + peer, bit % W>>
<1> DEFINE Place(bit, peer) == <<(bit \div W) * P + peer, bit % W>>
           I == l .. h - 1
           J == 0 .. P - 1
<1>1. Bits(W, P, l, h) = {Place(bit, peer) : bit \in I, peer \in J}
  BY DEF Bits
<1> HIDE DEF Place, I, J
<1>2. z \in Bits(W, P, l, h) <=> \E bit \in I, peer \in J : z = Place(bit, peer)
  BY <1>1
<1> QED
  BY <1>2 DEF Place, I, J

\* The bits of some words.
LEMMA WholeWords ==
  ASSUME NEW W \in Nat \ {0}, NEW P \in Nat \ {0}, NEW a \in Nat, NEW b \in Nat,
         NEW l, NEW h, l = W * a, h = W * b
  PROVE  Bits(W, P, l, h) = Words(W, P, a, b)
<1> DEFINE Place(bit, peer) == <<(bit \div W) * P + peer, bit % W>>
           I == l .. h - 1
           J == 0 .. P - 1
           S == Bits(W, P, l, h)
           X == a * P .. b * P - 1
           Y == 0 .. W - 1
<1>1. ASSUME NEW bit \in I, NEW peer \in J
      PROVE  Place(bit, peer) \in X \X Y
  <2> DEFINE q == bit \div W
             r == bit % W
  <2>1. W * a \in Int /\ W * b \in Int /\ bit \in Int /\ W * a <= bit /\ bit < W * b
    OBVIOUS
  <2>2. q \in Int /\ r \in 0 .. W - 1 /\ bit = W * q + r
    BY <2>1, DivBounds
  <2> HIDE DEF q, r
  <2>3. a <= q /\ q < b
    BY <2>1, <2>2, QuotientRange
  <2>4. P * a <= P * q + peer /\ P * q + peer < P * b
    BY <2>2, <2>3, QuotientBounds
  <2>5. a * P = P * a /\ b * P = P * b /\ q * P = P * q /\ P * q \in Int /\ P * a \in Int /\ P * b \in Int
    BY <2>2
  <2>6. q * P + peer \in X
    BY <2>4, <2>5
  <2> HIDE DEF X
  <2> QED
    BY <2>2, <2>6 DEF q, r
<1>2. ASSUME NEW x \in X, NEW y \in Y PROVE <<x, y>> \in S
  <2> DEFINE q == x \div P
             r == x % P
             bit == W * q + y
  <2>1. a * P = P * a /\ b * P = P * b /\ P * a \in Int /\ P * b \in Int
    OBVIOUS
  <2>2. x \in Int /\ P * a <= x /\ x < P * b
    BY <1>2, <2>1
  <2>3. q \in Int /\ r \in 0 .. P - 1 /\ x = P * q + r
    BY <2>2, DivBounds
  <2> HIDE DEF q, r
  <2>4. a <= q /\ q < b
    BY <2>2, <2>3, QuotientRange
  <2>5. W * a <= bit /\ bit < W * b
    BY <1>2, <2>3, <2>4, QuotientBounds
  <2>6. bit \in Int /\ W * a \in Int /\ W * b \in Int
    BY <1>2, <2>3
  <2>7. bit \div W = q /\ bit % W = y
    BY <1>2, <2>3, <2>6, ModUnique
  <2> HIDE DEF bit
  <2>8. bit \in W * a .. W * b - 1
    BY <2>5, <2>6
  <2>9. x = (bit \div W) * P + r
    BY <2>3, <2>7
  <2>10. <<x, y>> = Place(bit, r) /\ bit \in I /\ r \in J
    BY <2>3, <2>7, <2>8, <2>9
  <2> QED
    BY <2>10, BitsMembers, Zenon
<1>3. S \subseteq X \X Y
  <2> SUFFICES ASSUME NEW z \in S PROVE z \in X \X Y
    OBVIOUS
  <2>1. z \in Bits(W, P, l, h)
    OBVIOUS
  <2>2. \E bit \in l .. h - 1, peer \in 0 .. P - 1 : z = <<(bit \div W) * P + peer, bit % W>>
    BY ONLY <2>1, BitsMembers
  <2>3. PICK bit \in I, peer \in J : z = Place(bit, peer)
    BY ONLY <2>2
  <2> HIDE DEF X, Y, S, I, J, Place
  <2> QED
    BY <1>1, <2>3
<1>4. X \X Y \subseteq S
  <2> HIDE DEF S, X, Y
  <2> QED
    BY <1>2
<1> QED
  <2> HIDE DEF S, X, Y
  <2>1. S = X \X Y
    BY <1>3, <1>4
  <2> QED
    BY <2>1 DEF S, X, Y, Words

\* Some bits of one word of each peer.
LEMMA MaskedWord ==
  ASSUME NEW W \in Nat \ {0}, NEW P \in Nat \ {0}, NEW u \in Nat,
         NEW lo \in 0 .. W, NEW hi \in 0 .. W,
         NEW l, NEW h, l = W * u + lo, h = W * u + hi
  PROVE  Bits(W, P, l, h) = Mask(P, u, lo, hi)
<1> DEFINE Place(bit, peer) == <<(bit \div W) * P + peer, bit % W>>
           I == l .. h - 1
           J == 0 .. P - 1
           S == Bits(W, P, l, h)
           X == u * P .. u * P + P - 1
           Y == lo .. hi - 1
<1>1. W * u \in Int /\ u * P \in Int
  OBVIOUS
<1>2. ASSUME NEW y \in Y
      PROVE  W * u + y \in Int /\ (W * u + y) \div W = u /\ (W * u + y) % W = y
  <2>1. W * u + y \in Int /\ y \in 0 .. W - 1 /\ u \in Int
    BY <1>1, <1>2
  <2> QED
    BY <2>1, ModUnique
<1>3. ASSUME NEW bit \in I, NEW peer \in J
      PROVE  Place(bit, peer) \in X \X Y
  <2> DEFINE y == bit - W * u
  <2>1. y \in Y /\ bit = W * u + y
    BY <1>1
  <2> HIDE DEF y
  <2>2. bit \div W = u /\ bit % W = y
    BY <1>2, <2>1
  <2>3. u * P + peer \in X
    BY <1>1
  <2>4. Place(bit, peer) = <<u * P + peer, y>>
    BY <2>2
  <2> HIDE DEF X, Y, Place
  <2> QED
    BY <2>1, <2>3, <2>4
<1>4. ASSUME NEW x \in X, NEW y \in Y PROVE <<x, y>> \in S
  <2> DEFINE peer == x - u * P
             bit == W * u + y
  <2>1. peer \in 0 .. P - 1 /\ x = u * P + peer
    BY <1>1, <1>4
  <2>2. bit \in W * u + lo .. W * u + hi - 1
    BY <1>1, <1>4
  <2>3. bit \div W = u /\ bit % W = y
    BY <1>2, <1>4
  <2> HIDE DEF peer, bit
  <2>4. <<x, y>> = Place(bit, peer) /\ bit \in I /\ peer \in J
    BY <2>1, <2>2, <2>3
  <2> HIDE DEF bit, peer
  <2> QED
    BY <2>4, BitsMembers, Zenon
<1>5. S \subseteq X \X Y
  <2> SUFFICES ASSUME NEW z \in S PROVE z \in X \X Y
    OBVIOUS
  <2>1. z \in Bits(W, P, l, h)
    OBVIOUS
  <2>2. \E bit \in l .. h - 1, peer \in 0 .. P - 1 : z = <<(bit \div W) * P + peer, bit % W>>
    BY ONLY <2>1, BitsMembers
  <2>3. PICK bit \in I, peer \in J : z = Place(bit, peer)
    BY ONLY <2>2
  <2> HIDE DEF X, Y, S, I, J, Place
  <2> QED
    BY <1>3, <2>3
<1>6. X \X Y \subseteq S
  <2> HIDE DEF S, X, Y
  <2> QED
    BY <1>4
<1> QED
  <2> HIDE DEF S, X, Y
  <2>1. S = X \X Y
    BY <1>5, <1>6
  <2> QED
    BY <2>1 DEF S, X, Y, Mask

\* apply_al() sets the bits of the extent, and no other.
LEMMA SetBitsExact ==
  ASSUME geometry \in Geometries, NEW e \in Extents
  PROVE  SetBits(e) = ExtentBits(e)
<1> DEFINE W == WordBits
           B == geometry.bits_per_extent
           P == geometry.max_peers
           s == e * B
<1>1. W \in Nat \ {0} /\ B \in Nat \ {0} /\ P \in Nat \ {0}
  BY ActivityLogAssumption DEF GeometryType
<1>2. B % W = 0 \/ W % B = 0
  BY LayoutAssumption
<1>3. e \in Nat
  BY DEF Extents
<1>4. ExtentBits(e) = Bits(W, P, s, s + B)
  <2> DEFINE r == EnrToBitRange(e)
  <2>1. ExtentBits(e) = Bits(W, P, r.bit_s, r.bit_e)
    BY DEF ExtentBits, Bits
  <2>2. r.bit_s = s /\ r.bit_e = s + B
    BY DEF EnrToBitRange
  <2> HIDE DEF r, s, B
  <2> QED
    BY <2>1, <2>2
<1>5. SetBits(e) =
        IF B >= W
          THEN ((s \div W) * P .. ((s + B + W - 1) \div W) * P - 1) \X (0 .. W - 1)
          ELSE ((s \div W) * P .. (s \div W) * P + P - 1)
                 \X (s % W .. (IF (s + B) % W = 0 THEN W ELSE (s + B) % W) - 1)
  BY DEF SetBits, EnrToBitRange
<1> HIDE DEF W, B, P
<1>6. s \in Nat
  BY <1>1, <1>3
<1>7. CASE B >= W
  <2>1. PICK c \in Int : B = W * c
    <3>1. CASE B % W = 0
      <4>1. B \div W \in Int /\ B = W * (B \div W) + (B % W)
        BY <1>1, DivBounds
      <4>2. W * (B \div W) \in Int
        BY <1>1, <4>1
      <4>3. B = W * (B \div W)
        BY <1>1, <3>1, <4>1, <4>2
      <4> QED
        BY <4>1, <4>3
    <3>2. CASE W % B = 0
      <4> DEFINE q == W \div B
      <4>1. q \in Int /\ W = B * q + (W % B)
        BY <1>1, DivBounds
      <4> HIDE DEF q
      <4>2. B * q \in Int /\ W = B * q
        BY <1>1, <3>2, <4>1
      <4>3. q >= 1
        <5>1. q <= 0 => B * q <= 0
          BY <1>1, <4>1
        <5> QED
          BY <1>1, <4>1, <4>2, <5>1
      <4>4. B * q >= B
        BY <1>1, <4>1, <4>3
      <4>5. B = W * 1
        BY <1>1, <1>7, <4>2, <4>4
      <4> QED
        BY <4>5
    <3> QED
      BY <1>2, <3>1, <3>2
  <2>2. c \in Nat
    <3>1. c <= -1 => W * c <= - W
      BY <1>1, <2>1
    <3> QED
      BY <1>1, <2>1, <3>1
  <2> DEFINE a == e * c
             b == a + c
  <2>3. a \in Nat /\ b \in Nat
    BY <1>3, <2>2
  <2>4. s = W * a
    BY <1>1, <1>3, <2>1, <2>2
  <2> HIDE DEF a
  <2>5. s + B = W * b
    BY <1>1, <2>1, <2>2, <2>3, <2>4
  <2> HIDE DEF b, s
  <2>6. s \div W = a
    <3>1. s = W * a + 0 /\ 0 \in 0 .. W - 1 /\ s \in Int /\ a \in Int
      BY <1>1, <1>6, <2>3, <2>4
    <3> QED
      BY <1>1, <3>1, ModUnique
  <2>7. (s + B + W - 1) \div W = b
    <3>1. s + B + W - 1 = W * b + (W - 1) /\ W - 1 \in 0 .. W - 1 /\ s + B + W - 1 \in Int /\ b \in Int
      BY <1>1, <1>6, <2>3, <2>5
    <3> QED
      BY <1>1, <3>1, ModUnique
  <2>8. SetBits(e) = Words(W, P, a, b)
    BY <1>5, <1>7, <2>6, <2>7 DEF Words
  <2> DEFINE h == s + B
  <2>9. h = W * b
    BY <2>5
  <2> HIDE DEF h
  <2>10. Bits(W, P, s, h) = Words(W, P, a, b)
    BY <1>1, <2>3, <2>4, <2>9, WholeWords
  <2> QED
    BY <1>4, <2>8, <2>10, Zenon DEF h
<1>8. CASE ~ (B >= W)
  <2>1. W % B = 0
    <3> SUFFICES ASSUME B % W = 0 PROVE FALSE
      BY <1>2
    <3>1. B = W * 0 + B /\ B \in 0 .. W - 1 /\ B \in Int
      BY <1>1, <1>8
    <3>2. B % W = B
      BY <1>1, <3>1, ModUnique
    <3> QED
      BY <1>1, <3>2
  <2> DEFINE c == W \div B
  <2>2. c \in Int /\ W = B * c
    <3>1. c \in Int /\ W = B * c + (W % B)
      BY <1>1, DivBounds
    <3> HIDE DEF c
    <3> QED
      BY <1>1, <2>1, <3>1
  <2> HIDE DEF c
  <2>3. c \in Nat \ {0}
    <3>1. c <= 0 => B * c <= 0
      BY <1>1, <2>2
    <3> QED
      BY <1>1, <2>2, <3>1
  <2> DEFINE u == e \div c
             v == e % c
             lo == B * v
             hi == lo + B
  <2>4. u \in Int /\ v \in 0 .. c - 1 /\ e = c * u + v
    BY <1>3, <2>3, DivBounds
  <2> HIDE DEF u, v
  <2>5. u \in Nat
    <3>1. u <= -1 => c * u <= - c
      BY <2>3, <2>4
    <3> QED
      BY <1>3, <2>3, <2>4, <3>1
  <2>6. lo \in 0 .. W - 1 /\ hi \in 1 .. W
    <3>1. B * v >= 0 /\ B * v \in Int
      BY <1>1, <2>4
    <3>2. B * (v + 1) <= B * c
      BY <1>1, <2>3, <2>4
    <3>3. B * (v + 1) = B * v + B
      BY <1>1, <2>4
    <3> QED
      BY <1>1, <2>2, <3>1, <3>2, <3>3
  <2>7. s = W * u + lo
    <3>1. e * B = B * (c * u) + B * v
      BY <1>1, <2>3, <2>4, <2>5
    <3>2. B * (c * u) = (B * c) * u
      BY <1>1, <2>3, <2>5
    <3> QED
      BY <2>2, <3>1, <3>2
  <2> HIDE DEF lo, s
  <2>8. s + B = W * u + hi /\ W * u \in Int
    BY <1>1, <1>6, <2>5, <2>6, <2>7
  <2>9. s \div W = u /\ s % W = lo
    <3>1. s \in Int /\ u \in Int
      BY <1>6, <2>5
    <3> QED
      BY <1>1, <2>6, <2>7, <3>1, ModUnique
  <2> HIDE DEF hi
  <2>10. (IF (s + B) % W = 0 THEN W ELSE (s + B) % W) = hi
    <3>1. s + B \in Int /\ u \in Int
      BY <1>1, <1>6, <2>5
    <3>2. CASE hi = W
      <4>1. W * (u + 1) = W * u + W
        BY <1>1, <2>5
      <4>2. s + B = W * (u + 1) + 0 /\ 0 \in 0 .. W - 1 /\ u + 1 \in Int
        BY <1>1, <2>5, <2>8, <3>1, <3>2, <4>1
      <4>3. (s + B) % W = 0
        BY <1>1, <3>1, <4>2, ModUnique
      <4> QED
        BY <3>2, <4>3
    <3>3. CASE hi # W
      <4>1. hi \in 0 .. W - 1 /\ hi # 0
        BY <1>1, <2>6, <3>3
      <4>2. (s + B) % W = hi
        BY <1>1, <2>8, <3>1, <4>1, ModUnique
      <4> QED
        BY <4>1, <4>2
    <3> QED
      BY <3>2, <3>3
  <2>11. SetBits(e) = Mask(P, u, lo, hi)
    BY <1>5, <1>8, <2>9, <2>10 DEF Mask
  <2> DEFINE h == s + B
  <2>12. h = W * u + hi
    BY <2>8
  <2> HIDE DEF h
  <2>13. lo \in 0 .. W /\ hi \in 0 .. W
    BY <1>1, <2>6
  <2>14. Bits(W, P, s, h) = Mask(P, u, lo, hi)
    BY <1>1, <2>5, <2>7, <2>12, <2>13, MaskedWord
  <2> QED
    BY <1>4, <2>11, <2>14, Zenon DEF h
<1> QED
  BY <1>7, <1>8

-----------------------------------------------------------------------------
(* A transaction more, and a transaction torn *)

\* A write to the log changes one logical block.
LEMMA RingAfterWrite ==
  ASSUME al = [b \in Blocks |-> al[b]], NEW n \in TrNumbers, NEW x,
         al' = [al EXCEPT ![OnDiskSlot(n)] = x]
  PROVE  /\ al' = [b \in Blocks |-> al'[b]]
         /\ Overwrites(ring, ring', n, x)
<1> DEFINE t == n % mx
<1>1. mx \in Nat \ {0} /\ n \in Int
  BY Consts DEF TrNumbers
<1>2. t \in 0 .. mx - 1 /\ t \in Blocks
  BY <1>1, DivBounds DEF Blocks
<1>3. OnDiskSlot(n) = OnDiskSlot(t)
  <2>1. t % mx = t
    <3>1. t = mx * 0 + t /\ t \in Int
      BY <1>1, <1>2
    <3> HIDE DEF t
    <3> QED
      BY <1>1, <1>2, <3>1, ModUnique
  <2> QED
    BY <2>1 DEF OnDiskSlot
<1> HIDE DEF t
<1>4. al' = [al EXCEPT ![OnDiskSlot(t)] = x]
  BY <1>3
<1>5. OnDiskSlot(t) \in Blocks
  BY <1>2, SlotsDiffer
<1>6. al' = [b \in Blocks |-> IF b = OnDiskSlot(t) THEN x ELSE al[b]]
  BY <1>4, <1>5
<1>7. ASSUME NEW b \in Blocks PROVE ring'[b] = IF b = t THEN x ELSE ring[b]
  <2>1. ring'[b] = al'[OnDiskSlot(b)] /\ ring[b] = al[OnDiskSlot(b)]
    BY DEF ring, AlCpu, OnDiskSlot
  <2>2. OnDiskSlot(b) \in Blocks /\ (OnDiskSlot(b) = OnDiskSlot(t) <=> b = t)
    BY <1>2, SlotsDiffer
  <2> QED
    BY <1>6, <2>1, <2>2
<1> QED
  BY <1>6, <1>7 DEF t, Overwrites

\* The d-th newest transaction becomes the one after it.
LEMMA RingShifts ==
  ASSUME NEW R, NEW Q, NEW x, NEW n \in TrNumbers, NEW m, m = (n + 1) % TrModulus,
         Overwrites(R, Q, n, x)
  PROVE  Shifted(R, Q, n, m, x)
<1>1. mx \in Nat /\ mx >= 2
  BY Consts
<1>2. /\ m \in TrNumbers
      /\ At(m, 1) = n % mx /\ Back(m, 1) = n
      /\ \A d \in 1 .. mx - 1 : At(m, d + 1) = At(n, d) /\ Back(m, d + 1) = Back(n, d)
  BY BackShifts
<1>3. /\ \A c, d \in 1 .. mx : At(n, c) = At(n, d) => c = d
      /\ At(n, mx) = n % mx
  BY AtBijective
<1>4. mx \in 1 .. mx /\ mx \in 0 .. mx
  BY <1>1
<1>5. n % mx \in Blocks
  BY <1>3, <1>4, BackType
<1>6. ASSUME NEW d \in 1 .. mx - 1 PROVE Q[At(m, d + 1)] = R[At(n, d)]
  <2>1. d \in 1 .. mx /\ d \in 0 .. mx /\ d # mx
    BY <1>1
  <2>2. At(n, d) \in Blocks /\ At(n, d) # n % mx
    BY <1>3, <1>4, <2>1, BackType
  <2> QED
    BY <1>2, <2>2 DEF Overwrites
<1> QED
  BY <1>2, <1>5, <1>6 DEF Overwrites, Shifted

\* The window after one more transaction.
LEMMA WindowGrows ==
  ASSUME NEW R, NEW Q, NEW x, NEW n, NEW w, Window(R, n, w), NEW m, m = (n + 1) % TrModulus,
         Overwrites(R, Q, n, x),
         x.type = "update", x.tr_number = n, WellFormed(x),
         NEW v, v = IF w < mx THEN w + 1 ELSE mx
  PROVE  Window(Q, m, v)
<1>1. mx \in Nat /\ mx >= 2 /\ n \in TrNumbers /\ w \in 0 .. mx
  BY Consts DEF Window
<1>2. /\ m \in TrNumbers
      /\ Q[At(m, 1)] = x /\ Back(m, 1) = n
      /\ \A d \in 1 .. mx - 1 : Q[At(m, d + 1)] = R[At(n, d)] /\ Back(m, d + 1) = Back(n, d)
  <2>1. Shifted(R, Q, n, m, x)
    BY <1>1, RingShifts
  <2> QED
    BY <2>1 DEF Shifted
<1>3. v \in 1 .. mx /\ v - 1 <= w /\ (v < mx => v = w + 1)
  BY <1>1
<1>4. ASSUME NEW d \in 1 .. v
      PROVE  Q[At(m, d)].type = "update" /\ Q[At(m, d)].tr_number = Back(m, d) /\ WellFormed(Q[At(m, d)])
  <2>1. CASE d = 1
    BY <1>2, <2>1
  <2>2. CASE d # 1
    <3> DEFINE c == d - 1
    <3>1. c \in 1 .. mx - 1 /\ c \in 1 .. w /\ c + 1 = d
      BY <1>1, <1>3, <2>2
    <3> HIDE DEF c
    <3>2. R[At(n, c)].type = "update" /\ R[At(n, c)].tr_number = Back(n, c) /\ WellFormed(R[At(n, c)])
      BY <3>1 DEF Window
    <3>3. Q[At(m, d)] = R[At(n, c)] /\ Back(m, d) = Back(n, c)
      BY <1>2, <3>1
    <3> QED
      BY <3>2, <3>3
  <2> QED
    BY <2>1, <2>2
<1>5. ASSUME NEW d \in v + 1 .. mx PROVE Q[At(m, d)].type # "update"
  <2> DEFINE c == d - 1
  <2>1. c \in 1 .. mx - 1 /\ c \in w + 1 .. mx /\ c + 1 = d
    BY <1>1, <1>3
  <2> HIDE DEF c
  <2>2. R[At(n, c)].type # "update"
    BY <2>1 DEF Window
  <2> QED
    BY <1>2, <2>1, <2>2
<1>6. v \in 0 .. mx
  BY <1>1, <1>3
<1> QED
  BY <1>2, <1>4, <1>5, <1>6 DEF Window

\* The context goes round the slots: the transactions of one pass mention
\* all of them.
LEMMA Coverage ==
  ASSUME NEW R, NEW n, NEW w, NEW cyc, NEW b, Cycle(R, n, w, cyc, b), Passes <= w, w \in Nat,
         NEW s \in KernelSlots
  PROVE  \E d \in 1 .. Passes : Mentions(R[At(n, d)], s)
<1> DEFINE p == Passes
           q == s \div C
           r == s % C
<1>1. C \in Nat \ {0} /\ NrElements \in Nat /\ s \in Nat /\ s < NrElements
  BY Consts DEF KernelSlots
<1>2. p \in Nat \ {0} /\ C * p >= NrElements
  BY PassFits
<1>3. q \in Int /\ r \in 0 .. C - 1 /\ s = C * q + r
  BY <1>1, DivBounds
<1>4. b \in 0 .. p - 1 /\
      \A d \in 1 .. p : d <= w => R[At(n, d)].context_start_slot_nr = C * (IF d <= b THEN b - d ELSE b + p - d)
  BY DEF Cycle
<1> HIDE DEF p, q, r
<1>5. q >= 0 /\ q < p
  <2>1. C * 0 <= C * q + r /\ C * q + r < C * p
    <3>1. C * p \in Int /\ C * q \in Int /\ C * 0 = 0
      BY <1>1, <1>2, <1>3
    <3> QED
      BY <1>1, <1>2, <1>3, <3>1
  <2> QED
    BY <1>1, <1>2, <1>3, <2>1, QuotientRange
<1> DEFINE d == IF q < b THEN b - q ELSE b + p - q
<1>6. d \in 1 .. p /\ (IF d <= b THEN b - d ELSE b + p - d) = q
  BY <1>2, <1>3, <1>4, <1>5
<1>7. d <= w
  BY <1>2, <1>6 DEF p
<1> HIDE DEF d
<1>8. R[At(n, d)].context_start_slot_nr = C * q
  BY <1>4, <1>6, <1>7
<1>9. s - C * q = r
  <2>1. C * q \in Int
    BY <1>1, <1>3
  <2> QED
    BY <1>1, <1>3, <2>1
<1>10. Mentions(R[At(n, d)], s)
  BY <1>3, <1>8, <1>9 DEF Mentions
<1> QED
  BY <1>6, <1>10 DEF p

\* The newest transactions besides the oldest of a full ring tell it all.
LEMMA OldestIsDispensable ==
  ASSUME NEW R, NEW n, NEW w, Window(R, n, w), NEW cyc, NEW b, Cycle(R, n, w, cyc, b),
         NEW s \in KernelSlots, NEW u, Last(R, n, 1, w, s, u)
  PROVE  \/ \E d \in 1 .. w : /\ d <= mx - 1
                              /\ Mentions(R[At(n, d)], s) /\ u = Says(R[At(n, d)], s)
                              /\ \A c \in 1 .. d - 1 : ~ Mentions(R[At(n, c)], s)
         \/ u = FREE /\ \A d \in 1 .. w : ~ Mentions(R[At(n, d)], s)
<1>1. mx \in Nat /\ mx >= 2 /\ w \in 0 .. mx /\ w \in Nat
  BY Consts DEF Window
<1>2. Passes \in Nat \ {0} /\ Passes <= mx - 1
  BY PassFits
<1>3. ASSUME NEW d \in 1 .. w, Mentions(R[At(n, d)], s), u = Says(R[At(n, d)], s),
             \A c \in 1 .. d - 1 : ~ Mentions(R[At(n, c)], s)
      PROVE  d <= mx - 1
  <2> SUFFICES ASSUME ~ (d <= mx - 1) PROVE FALSE
    OBVIOUS
  <2>1. d = mx /\ w = mx
    BY <1>1
  <2>2. Passes <= w
    BY <1>1, <1>2, <2>1
  <2>3. PICK c \in 1 .. Passes : Mentions(R[At(n, c)], s)
    BY <1>1, <2>2, Coverage
  <2>4. c \in 1 .. d - 1
    BY <1>1, <1>2, <2>1
  <2> QED
    BY <1>3, <2>3, <2>4
<1> QED
  BY <1>3 DEF Last

\* The ring tells what is active after one more transaction, although it
\* may have overwritten the oldest.
LEMMA TellsNext ==
  ASSUME NEW R, NEW Q, NEW x, NEW n, NEW w, Window(R, n, w), NEW m, m = (n + 1) % TrModulus,
         NEW act, NEW cyc \in KernelSlots, NEW p, Tells(R, n, w, act), Cycle(R, n, w, cyc, p),
         Overwrites(R, Q, n, x),
         x.context_start_slot_nr = cyc,
         \A i \in 0 .. C - 1 : cyc + i \in KernelSlots => x.context[i] = act[cyc + i],
         NEW new, NextActive(x, act, new),
         NEW v, v = IF w < mx THEN w + 1 ELSE mx
  PROVE  Tells(Q, m, v, new)
<1>1. mx \in Nat /\ mx >= 2 /\ n \in TrNumbers /\ w \in 0 .. mx
  BY Consts DEF Window
<1>2. /\ Q[At(m, 1)] = x
      /\ \A d \in 1 .. mx - 1 : Q[At(m, d + 1)] = R[At(n, d)]
  <2>1. Shifted(R, Q, n, m, x)
    BY <1>1, RingShifts
  <2> QED
    BY <2>1 DEF Shifted
<1>3. v \in 1 .. mx /\ v - 1 <= w /\ (v < mx => v = w + 1)
  BY <1>1
<1> SUFFICES ASSUME NEW s \in KernelSlots PROVE Last(Q, m, 1, v, s, new[s])
  BY DEF Tells
<1>4. s \in Nat /\ cyc \in Nat /\ C \in Nat
  BY Consts DEF KernelSlots
<1>5. CASE Mentions(x, s)
  <2>1. new[s] = Says(x, s)
    <3>1. CASE s \in DOMAIN x.updates
      BY <3>1 DEF Says, NextActive
    <3>2. CASE s \notin DOMAIN x.updates
      <4> DEFINE i == s - cyc
      <4>1. i \in 0 .. C - 1 /\ cyc + i = s
        BY <1>4, <1>5, <3>2 DEF Mentions
      <4>2. Says(x, s) = x.context[i]
        BY <3>2 DEF Says
      <4> HIDE DEF i
      <4>3. x.context[i] = act[s]
        BY <4>1
      <4> QED
        BY <3>2, <4>2, <4>3 DEF NextActive
    <3> QED
      BY <3>1, <3>2
  <2>2. \A c \in 1 .. 1 - 1 : FALSE
    OBVIOUS
  <2>3. 1 \in 1 .. v
    BY <1>3
  <2> QED
    BY <1>2, <1>5, <2>1, <2>2, <2>3 DEF Last
<1>6. CASE ~ Mentions(x, s)
  <2>1. new[s] = act[s]
    BY <1>6 DEF Mentions, NextActive
  <2>2. \A e \in 1 .. v : e = 1 \/ (e - 1 \in 1 .. w /\ e - 1 \in 1 .. mx - 1 /\ (e - 1) + 1 = e)
    BY <1>1, <1>3
  <2>3. \A e \in 1 .. v : e = 1 \/ Q[At(m, e)] = R[At(n, e - 1)]
    <3> SUFFICES ASSUME NEW e \in 1 .. v, e # 1 PROVE Q[At(m, e)] = R[At(n, e - 1)]
      OBVIOUS
    <3> DEFINE c == e - 1
    <3>1. c \in 1 .. mx - 1 /\ c + 1 = e
      BY <2>2
    <3> HIDE DEF c
    <3>2. Q[At(m, e)] = R[At(n, c)]
      BY <1>2, <3>1
    <3> QED
      BY <3>2 DEF c
  <2>4. Last(R, n, 1, w, s, act[s])
    BY DEF Tells
  <2>5. CASE act[s] = FREE /\ \A d \in 1 .. w : ~ Mentions(R[At(n, d)], s)
    <3>1. \A e \in 1 .. v : ~ Mentions(Q[At(m, e)], s)
      BY <1>2, <1>6, <2>2, <2>3, <2>5
    <3> QED
      BY <2>1, <2>5, <3>1 DEF Last
  <2>6. ASSUME NEW d \in 1 .. w, d <= mx - 1, Mentions(R[At(n, d)], s), act[s] = Says(R[At(n, d)], s),
               \A c \in 1 .. d - 1 : ~ Mentions(R[At(n, c)], s)
        PROVE  Last(Q, m, 1, v, s, new[s])
    <3> DEFINE e == d + 1
    <3>1. d \in 1 .. mx - 1 /\ e \in 1 .. v
      BY <1>1, <1>3, <2>6
    <3>2. Q[At(m, e)] = R[At(n, d)]
      BY <1>2, <3>1
    <3>3. ASSUME NEW c \in 1 .. e - 1 PROVE ~ Mentions(Q[At(m, c)], s)
      <4>1. c \in 1 .. v /\ (c = 1 \/ c - 1 \in 1 .. d - 1)
        BY <1>1, <1>3, <3>1
      <4> QED
        BY <1>2, <1>6, <2>3, <2>6, <4>1
    <3> HIDE DEF e
    <3>4. Mentions(Q[At(m, e)], s) /\ new[s] = Says(Q[At(m, e)], s)
      BY <2>1, <2>6, <3>2
    <3> QED
      BY <3>1, <3>3, <3>4 DEF Last
  <2> QED
    BY <2>4, <2>5, <2>6, OldestIsDispensable
<1> QED
  BY <1>5, <1>6

\* The context after one more transaction.
LEMMA CycleNext ==
  ASSUME NEW R, NEW Q, NEW x, NEW n, NEW w, Window(R, n, w), NEW m, m = (n + 1) % TrModulus,
         NEW cyc, NEW b, Cycle(R, n, w, cyc, b),
         Overwrites(R, Q, n, x),
         x.context_start_slot_nr = cyc,
         NEW v, v = IF w < mx THEN w + 1 ELSE mx,
         NEW next, next = IF cyc + C >= NrElements THEN 0 ELSE cyc + C
  PROVE  \E c \in 0 .. Passes - 1 : Cycle(Q, m, v, next, c)
<1> DEFINE p == Passes
           c == IF b + 1 = p THEN 0 ELSE b + 1
<1>1. mx \in Nat /\ mx >= 2 /\ n \in TrNumbers /\ w \in 0 .. mx /\ C \in Nat \ {0} /\ NrElements \in Nat
  BY Consts DEF Window
<1>2. /\ Q[At(m, 1)] = x
      /\ \A d \in 1 .. mx - 1 : Q[At(m, d + 1)] = R[At(n, d)]
  <2>1. Shifted(R, Q, n, m, x)
    BY <1>1, RingShifts
  <2> QED
    BY <2>1 DEF Shifted
<1>3. p \in Nat \ {0} /\ p <= mx - 1 /\ C * p >= NrElements /\ C * (p - 1) < NrElements
  BY PassFits
<1>4. /\ b \in 0 .. p - 1 /\ cyc = C * b
      /\ \A d \in 1 .. p : d <= w => R[At(n, d)].context_start_slot_nr = C * (IF d <= b THEN b - d ELSE b + p - d)
  BY DEF Cycle
<1> HIDE DEF p
<1>5. c \in 0 .. p - 1
  BY <1>3, <1>4
<1>6. next = C * c
  <2>1. C * (b + 1) = cyc + C /\ C * b \in Int /\ C * 0 = 0
    BY <1>1, <1>4
  <2>2. CASE b + 1 = p
    BY <1>1, <1>3, <1>4, <2>1, <2>2
  <2>3. CASE b + 1 # p
    <3>1. b + 1 <= p - 1
      BY <1>3, <1>4, <2>3
    <3>2. C * (b + 1) <= C * (p - 1)
      BY <1>1, <1>3, <1>4, <3>1
    <3>3. C * (p - 1) \in Int
      BY <1>1, <1>3
    <3>4. ~ (cyc + C >= NrElements)
      BY <1>1, <1>3, <1>4, <2>1, <3>2, <3>3
    <3> QED
      BY <2>1, <2>3, <3>4
  <2> QED
    BY <2>2, <2>3
<1>7. ASSUME NEW e \in 1 .. p, e <= v
      PROVE  Q[At(m, e)].context_start_slot_nr = C * (IF e <= c THEN c - e ELSE c + p - e)
  <2>1. CASE e = 1
    <3>1. (IF e <= c THEN c - e ELSE c + p - e) = b
      BY <1>3, <1>4, <2>1
    <3> QED
      BY <1>2, <1>4, <2>1, <3>1
  <2>2. CASE e # 1
    <3> DEFINE d == e - 1
    <3>1. d \in 1 .. p /\ d \in 1 .. mx - 1 /\ d <= w /\ d + 1 = e
      BY <1>1, <1>3, <1>7, <2>2
    <3>2. (IF d <= b THEN b - d ELSE b + p - d) = (IF e <= c THEN c - e ELSE c + p - e)
      BY <1>3, <1>4
    <3> HIDE DEF d, c
    <3>3. Q[At(m, e)] = R[At(n, d)]
      BY <1>2, <3>1
    <3> QED
      BY <1>4, <3>1, <3>2, <3>3
  <2> QED
    BY <2>1, <2>2
<1> HIDE DEF c
<1>8. Cycle(Q, m, v, next, c)
  BY <1>5, <1>6, <1>7 DEF Cycle, p
<1> QED
  BY <1>5, <1>8 DEF p

\* A torn write loses at most the oldest transaction, and nothing it tells.
LEMMA TornTells ==
  ASSUME NEW R, NEW Q, NEW n, NEW w, Window(R, n, w), NEW act, NEW cyc, NEW b,
         Tells(R, n, w, act), Cycle(R, n, w, cyc, b),
         Overwrites(R, Q, n, Corrupt)
  PROVE  \E v \in 0 .. mx : Window(Q, n, v) /\ Tells(Q, n, v, act)
<1> DEFINE v == IF w = mx THEN mx - 1 ELSE w
<1>1. mx \in Nat /\ mx >= 2 /\ n \in TrNumbers /\ w \in 0 .. mx
  BY Consts DEF Window
<1>2. /\ \A c, d \in 1 .. mx : At(n, c) = At(n, d) => c = d
      /\ At(n, mx) = n % mx
  BY <1>1, AtBijective
<1>3. mx \in 1 .. mx /\ mx \in 0 .. mx
  BY <1>1
<1>4. \A d \in 1 .. mx : At(n, d) \in Blocks
  BY <1>1, BackType
<1>5. \A d \in 1 .. mx : d # mx => Q[At(n, d)] = R[At(n, d)]
  BY <1>2, <1>3, <1>4 DEF Overwrites
<1>6. Q[At(n, mx)].type # "update"
  BY <1>2, <1>3, <1>4 DEF Corrupt, Overwrites
<1>7. v \in 0 .. mx /\ v <= mx - 1 /\ v <= w /\ (w <= mx - 1 => v = w)
  BY <1>1
<1> HIDE DEF v
<1>8. Window(Q, n, v)
  <2>1. ASSUME NEW d \in 1 .. v
        PROVE  Q[At(n, d)].type = "update" /\ Q[At(n, d)].tr_number = Back(n, d) /\ WellFormed(Q[At(n, d)])
    <3>1. d \in 1 .. w /\ d \in 1 .. mx /\ d # mx
      BY <1>1, <1>7
    <3>2. R[At(n, d)].type = "update" /\ R[At(n, d)].tr_number = Back(n, d) /\ WellFormed(R[At(n, d)])
      BY <3>1 DEF Window
    <3> QED
      BY <1>5, <3>1, <3>2
  <2>2. ASSUME NEW d \in v + 1 .. mx PROVE Q[At(n, d)].type # "update"
    <3>1. CASE d = mx
      BY <1>6, <3>1
    <3>2. CASE d # mx
      <4>1. d \in w + 1 .. mx /\ d \in 1 .. mx
        <5>1. CASE w = mx
          BY <1>1, <3>2, <5>1 DEF v
        <5>2. CASE w # mx
          BY <1>1, <5>2 DEF v
        <5> QED
          BY <5>1, <5>2
      <4>2. R[At(n, d)].type # "update"
        BY <4>1 DEF Window
      <4> QED
        BY <1>5, <3>2, <4>1, <4>2
    <3> QED
      BY <3>1, <3>2
  <2> QED
    BY <1>1, <1>7, <2>1, <2>2 DEF Window
<1>9. ASSUME NEW s \in KernelSlots PROVE Last(Q, n, 1, v, s, act[s])
  <2>1. Last(R, n, 1, w, s, act[s])
    BY DEF Tells
  <2>2. \A d \in 1 .. v : d \in 1 .. w /\ Q[At(n, d)] = R[At(n, d)]
    BY <1>1, <1>5, <1>7
  <2>3. CASE act[s] = FREE /\ \A d \in 1 .. w : ~ Mentions(R[At(n, d)], s)
    <3>1. \A d \in 1 .. v : ~ Mentions(Q[At(n, d)], s)
      BY <2>2, <2>3
    <3> QED
      BY <2>3, <3>1 DEF Last
  <2>4. ASSUME NEW d \in 1 .. w, d <= mx - 1, Mentions(R[At(n, d)], s), act[s] = Says(R[At(n, d)], s),
               \A c \in 1 .. d - 1 : ~ Mentions(R[At(n, c)], s)
        PROVE  Last(Q, n, 1, v, s, act[s])
    <3>1. d \in 1 .. v /\ \A c \in 1 .. d - 1 : c \in 1 .. v
      BY <1>1, <1>7, <2>4 DEF v
    <3>2. Mentions(Q[At(n, d)], s) /\ act[s] = Says(Q[At(n, d)], s)
      BY <2>2, <2>4, <3>1
    <3>3. \A c \in 1 .. d - 1 : ~ Mentions(Q[At(n, c)], s)
      BY <2>2, <2>4, <3>1
    <3> QED
      BY <3>1, <3>2, <3>3 DEF Last
  <2> QED
    BY <2>1, <2>3, <2>4, OldestIsDispensable
<1> QED
  BY <1>7, <1>8, <1>9 DEF Tells

\* A log without transactions tells that nothing is active.
LEMMA EmptyTells ==
  ASSUME NEW R, NEW n \in TrNumbers, NEW act,
         \A b \in Blocks : R[b].type # "update", \A s \in KernelSlots : act[s] = FREE
  PROVE  /\ Window(R, n, 0) /\ Tells(R, n, 0, act)
         /\ 0 \in 0 .. mx /\ 0 \in 0 .. Passes - 1
         /\ Cycle(R, n, 0, 0, 0)
<1>1. mx \in Nat /\ mx >= 2 /\ C \in Nat
  BY Consts
<1>2. Passes \in Nat \ {0}
  BY PassFits
<1>3. \A d \in 1 .. 0 : FALSE
  OBVIOUS
<1>4. ASSUME NEW d \in 0 + 1 .. mx PROVE R[At(n, d)].type # "update"
  <2>1. d \in 0 .. mx
    BY <1>1
  <2> QED
    BY <2>1, BackType
<1>5. Window(R, n, 0)
  BY <1>1, <1>3, <1>4 DEF Window
<1>6. Tells(R, n, 0, act)
  BY <1>3 DEF Tells, Last
<1>7. Cycle(R, n, 0, 0, 0)
  <2>1. \A d \in 1 .. Passes : ~ (d <= 0)
    BY <1>2
  <2>2. 0 \in 0 .. Passes - 1 /\ 0 = C * 0
    BY <1>1, <1>2
  <2> QED
    BY <2>1, <2>2 DEF Cycle
<1> QED
  BY <1>1, <1>2, <1>5, <1>6, <1>7

\* The kernel goes on from its log.
LEMMA KernelLogNext ==
  ASSUME NEW R, NEW Q, NEW x, NEW n, NEW m, m = (n + 1) % TrModulus,
         NEW act, NEW cyc \in KernelSlots, KernelLog(R, n, act, cyc),
         Overwrites(R, Q, n, x), Logs(x, n, act, cyc), NEW new, NextActive(x, act, new),
         NEW next, next = IF cyc + C >= NrElements THEN 0 ELSE cyc + C
  PROVE  KernelLog(Q, m, new, next)
<1>1. PICK w \in 0 .. mx, b \in 0 .. Passes - 1 :
        Window(R, n, w) /\ Tells(R, n, w, act) /\ Cycle(R, n, w, cyc, b)
  BY DEF KernelLog
<1> DEFINE v == IF w < mx THEN w + 1 ELSE mx
<1>2. v = IF w < mx THEN w + 1 ELSE mx
  OBVIOUS
<1>3. v \in 0 .. mx
  BY Consts
<1> HIDE DEF v
<1>4. Window(Q, m, v)
  BY <1>1, <1>2, WindowGrows DEF Logs
<1>5. Tells(Q, m, v, new)
  BY <1>1, <1>2, TellsNext DEF Logs
<1>6. \E c \in 0 .. Passes - 1 : Cycle(Q, m, v, next, c)
  BY <1>1, <1>2, CycleNext DEF Logs
<1> QED
  BY <1>3, <1>4, <1>5, <1>6 DEF KernelLog

\* A crash leaves the log of the kernel, or that with one block torn.
LEMMA KernelLogCrash ==
  ASSUME NEW R, NEW Q, NEW n, NEW A, NEW act \in A, NEW cyc, KernelLog(R, n, act, cyc),
         Q = R \/ Overwrites(R, Q, n, Corrupt)
  PROVE  CrashLog(Q, Values(act), A)
<1>1. PICK w \in 0 .. mx, b \in 0 .. Passes - 1 :
        Window(R, n, w) /\ Tells(R, n, w, act) /\ Cycle(R, n, w, cyc, b)
  BY DEF KernelLog
<1>2. n \in TrNumbers
  BY <1>1 DEF Window
<1>3. CASE Q = R
  BY <1>1, <1>2, <1>3 DEF CrashLog
<1>4. CASE Overwrites(R, Q, n, Corrupt)
  <2>1. \E v \in 0 .. mx : Window(Q, n, v) /\ Tells(Q, n, v, act)
    BY <1>1, <1>4, TornTells
  <2> QED
    BY <1>2, <2>1 DEF CrashLog
<1> QED
  BY <1>3, <1>4

\* The kernel starts with a log without transactions.
LEMMA KernelLogStart ==
  ASSUME NEW R, NEW n \in TrNumbers, NEW act,
         \A b \in Blocks : R[b].type # "update", \A s \in KernelSlots : act[s] = FREE
  PROVE  KernelLog(R, n, act, 0)
  BY EmptyTells DEF KernelLog

\* A crash log without transactions: nothing was active.
LEMMA CrashLogEmpty ==
  ASSUME NEW R, NEW S, NEW A, CrashLog(R, S, A), \A b \in Blocks : R[b].type # "update"
  PROVE  S = {}
<1>1. PICK n \in TrNumbers, w \in 0 .. mx, act \in A :
        Window(R, n, w) /\ Tells(R, n, w, act) /\ S = Values(act)
  BY DEF CrashLog
<1>2. mx \in Nat /\ mx >= 2
  BY Consts
<1>3. w = 0
  <2> SUFFICES ASSUME w # 0 PROVE FALSE
    OBVIOUS
  <2>1. 1 \in 1 .. w /\ 1 \in 0 .. mx
    BY <1>2
  <2>2. R[At(n, 1)].type = "update"
    BY <1>1, <2>1 DEF Window
  <2>3. At(n, 1) \in Blocks
    BY <2>1, BackType
  <2> QED
    BY <2>2, <2>3
<1>4. \A s \in KernelSlots : act[s] = FREE
  <2>1. \A d \in 1 .. w : FALSE
    BY <1>3
  <2> QED
    BY <1>1, <2>1 DEF Tells, Last
<1> QED
  BY <1>1, <1>4 DEF Values

-----------------------------------------------------------------------------
(* States *)

\* Without a transaction there is nothing to replay, and otherwise there is.
LEMMA ResultSays ==
  /\ ReplayResult # "updates" => NoUpdates
  /\ ReplayResult = "updates" => ~ NoUpdates
<1>1. \A b \in Blocks : ring[b] = AlCpu(b)
  BY DEF ring
<1>2. NoUpdates <=> ValidUpdates = {}
  BY <1>1 DEF NoUpdates, ValidUpdates, IsUpdate
<1>3. Valid = {} => ValidUpdates = {}
  BY DEF Valid, ValidUpdates, IsUpdate, IsValid
<1>4. ReplayResult = "updates" <=> ~ (ValidUpdates = {})
  <2>1. CASE Valid = {}
    BY <1>3, <2>1 DEF ReplayResult
  <2>2. CASE Valid # {} /\ ValidUpdates = {}
    BY <2>2 DEF ReplayResult
  <2>3. CASE Valid # {} /\ ValidUpdates # {}
    BY <2>3 DEF ReplayResult
  <2> QED
    BY <1>3, <2>1, <2>2, <2>3
<1> QED
  BY <1>2, <1>4

\* The log as a crash left it: what replay_al_84() hands on is what was active.
LEMMA ReplayExact ==
  ASSUME IInv, ~ kernel.attached, intact, flags.primary_ind, ReplayResult = "updates"
  PROVE  HotSet = owed
<1>1. CrashLog(ring, owed, Actives) /\ build = "wrapping"
  BY DEF IInv, LogInv, TypeInv
<1>2. PICK n \in TrNumbers, w \in 0 .. mx, act \in Actives :
        Window(ring, n, w) /\ Tells(ring, n, w, act) /\ owed = Values(act)
  BY <1>1 DEF CrashLog
<1>3. w # 0
  <2> SUFFICES ASSUME w = 0 PROVE FALSE
    OBVIOUS
  <2>1. ASSUME NEW b \in Blocks PROVE ring[b].type # "update"
    <3>1. PICK d \in 1 .. mx : b = At(n, d)
      BY AtBijective
    <3>2. d \in w + 1 .. mx
      OBVIOUS
    <3> QED
      BY <1>2, <3>1, <3>2 DEF Window
  <2> QED
    BY <2>1, ResultSays DEF NoUpdates
<1> QED
  BY <1>1, <1>2, <1>3, WalkResult

\* Without a transaction in the log everything is marked.
LEMMA NothingOwed ==
  ASSUME IInv, ~ kernel.attached, NoUpdates
  PROVE  RoomyMarked
<1>1. MarkedInv
  BY DEF IInv, DetachedInv
<1>2. CASE ~ intact
  BY <1>1, <1>2 DEF MarkedInv
<1>3. CASE ~ flags.primary_ind
  BY <1>1, <1>3 DEF MarkedInv, RoomyMarked, Marked
<1>4. CASE intact /\ flags.primary_ind
  <2>1. CrashLog(ring, owed, Actives)
    BY <1>4 DEF IInv, LogInv
  <2>2. owed = {}
    BY <2>1, CrashLogEmpty DEF NoUpdates
  <2> QED
    BY <2>2 DEF RoomyMarked, Marked
<1> QED
  BY <1>2, <1>3, <1>4

-----------------------------------------------------------------------------
(* What a step leaves alone *)

\* The log.
LEMMA LogFrame ==
  ASSUME al' = al
  PROVE  ring' = ring /\ (NoUpdates' <=> NoUpdates)
<1>1. ring' = ring
  BY DEF ring, AlCpu, OnDiskSlot
<1> QED
  BY <1>1 DEF NoUpdates

\* The layout of the bitmap.
LEMMA LayoutFrame ==
  ASSUME geometry' = geometry
  PROVE  /\ Extents' = Extents /\ Actives' = Actives
         /\ (RoomyLayout' <=> RoomyLayout)
         /\ \A e : ExtentBits(e)' = ExtentBits(e)
<1> DEFINE BitsOf(g, e) ==
      Bits(WordBits, g.max_peers, e * g.bits_per_extent, e * g.bits_per_extent + g.bits_per_extent)
<1>1. Extents' = Extents
  BY DEF Extents
<1>2. Actives' = Actives
  BY <1>1 DEF Actives
<1>3. RoomyLayout' <=> RoomyLayout
  BY <1>1 DEF RoomyLayout, BeyondEnd, EnrToBitRange, bm_words
<1>4. ASSUME NEW e PROVE ExtentBits(e)' = ExtentBits(e)
  <2>1. ExtentBits(e) = BitsOf(geometry, e)
    BY DEF ExtentBits, EnrToBitRange, Bits
  <2>2. ExtentBits(e)' = BitsOf(geometry', e)
    BY DEF ExtentBits, EnrToBitRange, Bits
  <2> HIDE DEF BitsOf
  <2> QED
    BY <2>1, <2>2
<1> QED
  BY <1>1, <1>2, <1>3, <1>4

\* What is marked stays marked while the bitmap grows.
LEMMA MarkedStays ==
  ASSUME geometry' = geometry, owed' = owed, bitmap \subseteq bitmap'
  PROVE  RoomyMarked => RoomyMarked'
<1>1. (RoomyLayout' <=> RoomyLayout) /\ \A e : ExtentBits(e)' = ExtentBits(e)
  BY LayoutFrame
<1>2. Marked => Marked'
  BY <1>1 DEF Marked
<1> QED
  BY <1>1, <1>2 DEF RoomyMarked

-----------------------------------------------------------------------------
(* The steps of apply-al *)

\* apply-al runs on a volume that is not attached.
LEMMA ToolDetached ==
  ASSUME IInv, pc # "idle"
  PROVE  ~ kernel.attached
  BY DEF IInv, AttachedInv

\* A step that leaves the log and the volume alone.
LEMMA ToolFrame ==
  ASSUME IInv, ~ kernel.attached, kernel' = kernel, al' = al, geometry' = geometry, build' = build,
         owed' = owed, intact' = intact,
         flags' \in [primary_ind : BOOLEAN, al_clean : BOOLEAN],
         flags'.primary_ind = flags.primary_ind,
         ApplyInv', MarkedInv'
  PROVE  IInv'
<1>1. ring' = ring
  BY LogFrame
<1>2. Extents' = Extents /\ Actives' = Actives
  BY LayoutFrame
<1>3. TypeInv'
  BY <1>2 DEF IInv, TypeInv
<1>4. AttachedInv'
  BY DEF AttachedInv
<1>5. LogInv'
  BY <1>1, <1>2 DEF IInv, LogInv
<1>6. DetachedInv'
  BY DEF IInv, DetachedInv
<1> QED
  BY <1>3, <1>4, <1>5, <1>6 DEF IInv

\* A step that leaves the bitmap alone, too.
LEMMA ApplyFrame ==
  ASSUME ApplyInv, geometry' = geometry, owed' = owed, intact' = intact, bitmap' = bitmap,
         pc' # "apply"
  PROVE  ApplyInv'
<1>1. \A e : ExtentBits(e)' = ExtentBits(e)
  BY LayoutFrame
<1> QED
  BY <1>1 DEF ApplyInv

\* meta_apply_al() gives up on the log.
LEMMA RefusesKeeps ==
  ASSUME IInv, ApplyAlRefuses
  PROVE  IInv'
<1> USE DEF ApplyAlRefuses, disk, bounds
<1>1. ~ kernel.attached /\ NoUpdates
  BY ResultSays
<1>2. ApplyInv /\ MarkedInv /\ TypeInv
  BY <1>1 DEF IInv, DetachedInv
<1>3. ApplyInv'
  BY <1>2, ApplyFrame
<1>4. RoomyMarked'
  <2>1. RoomyMarked
    BY <1>1, NothingOwed
  <2> QED
    BY <2>1, MarkedStays
<1>5. NoUpdates' <=> NoUpdates
  BY LogFrame
<1>6. MarkedInv'
  BY <1>2, <1>4, <1>5 DEF MarkedInv
<1> QED
  BY <1>1, <1>2, <1>3, <1>6, ToolFrame DEF TypeInv

\* meta_apply_al() has read the log.
LEMMA BeginsKeeps ==
  ASSUME IInv, ApplyAlBegins
  PROVE  IInv'
<1> USE DEF disk, bounds
<1>1. ~ kernel.attached /\ pc = "idle" /\ al' = al /\ bitmap' = bitmap /\ flags' = flags /\ geometry' = geometry
      /\ build' = build /\ kernel' = kernel /\ exit_code' = exit_code /\ owed' = owed /\ intact' = intact
  BY DEF ApplyAlBegins
<1>2. ApplyInv /\ MarkedInv /\ TypeInv
  BY <1>1 DEF IInv, DetachedInv
<1>3. (NoUpdates' <=> NoUpdates) /\ (RoomyMarked => RoomyMarked') /\ \A e : ExtentBits(e)' = ExtentBits(e)
  BY <1>1, LogFrame, MarkedStays, LayoutFrame
<1>4. CASE ReplayResult = "updates" /\ NeedToApplyAl /\ todo' = HotSet /\ pc' = "apply"
  <2>1. flags.primary_ind
    BY <1>4 DEF NeedToApplyAl
  <2>2. intact => todo' = owed
    BY <1>1, <1>4, <2>1, ReplayExact
  <2>3. ApplyInv'
    BY <1>1, <1>2, <1>3, <1>4, <2>1, <2>2 DEF ApplyInv
  <2>4. MarkedInv'
    BY <1>1, <1>2, <1>3, <1>4 DEF MarkedInv
  <2> QED
    BY <1>1, <1>2, <2>3, <2>4, ToolFrame DEF TypeInv
<1>5. CASE ReplayResult # "clean" /\ ~ NeedToApplyAl /\ pc' = "init"
  <2>1. owed = {}
    BY <1>2, <1>5 DEF NeedToApplyAl, MarkedInv
  <2>2. RoomyMarked'
    BY <1>3, <2>1 DEF RoomyMarked, Marked
  <2>3. ApplyInv'
    BY <1>1, <1>2, <1>5, ApplyFrame
  <2>4. MarkedInv'
    BY <1>1, <1>2, <1>3, <1>5, <2>2 DEF MarkedInv
  <2> QED
    BY <1>1, <1>2, <2>3, <2>4, ToolFrame DEF TypeInv
<1>6. CASE ReplayResult = "clean" /\ pc' = "flags"
  <2>1. NoUpdates
    BY <1>6, ResultSays
  <2>2. RoomyMarked'
    BY <1>1, <1>3, <2>1, NothingOwed
  <2>3. ApplyInv'
    BY <1>1, <1>2, <1>6, ApplyFrame
  <2>4. MarkedInv'
    BY <1>1, <1>2, <1>3, <1>6, <2>1, <2>2 DEF MarkedInv
  <2> QED
    BY <1>1, <1>2, <2>3, <2>4, ToolFrame DEF TypeInv
<1> QED
  BY <1>4, <1>5, <1>6 DEF ApplyAlBegins

\* What a pass of the loop of apply_al() covers.
LEMMA ChunkIsOwed ==
  ASSUME IInv, pc = "apply", todo # {}, intact
  PROVE  /\ Chunk \subseteq todo /\ First \in todo /\ todo \subseteq owed
         /\ \A e \in Chunk : SetBits(e) = ExtentBits(e)
         /\ RoomyLayout => First \in Chunk
<1>1. ~ kernel.attached
  BY ToolDetached
<1>2. todo \subseteq owed /\ owed \subseteq Extents /\ geometry \in Geometries
  BY <1>1 DEF IInv, DetachedInv, ApplyInv, TypeInv
<1>3. First \in todo
  <2>1. todo \subseteq Nat
    BY <1>2 DEF Extents
  <2>2. \E e \in todo : \A f \in todo : e <= f
    BY <2>1, Least
  <2> QED
    BY <2>2 DEF First
<1>4. Chunk \subseteq todo
  BY <1>3 DEF Chunk
<1>5. \A e \in Chunk : SetBits(e) = ExtentBits(e)
  BY <1>2, <1>4, SetBitsExact
<1>6. RoomyLayout => First \in Chunk
  BY <1>2, <1>3 DEF RoomyLayout, Chunk
<1> QED
  BY <1>2, <1>3, <1>4, <1>5, <1>6

\* A pass of the loop of apply_al() preserves the invariant.
LEMMA ChunkKeeps ==
  ASSUME IInv, ApplyChunk
  PROVE  IInv'
<1> USE DEF bounds
<1>1. pc = "apply" /\ todo # {} /\ al' = al /\ flags' = flags /\ geometry' = geometry /\ build' = build
      /\ kernel' = kernel /\ pc' = pc /\ exit_code' = exit_code /\ owed' = owed /\ intact' = intact
  BY DEF ApplyChunk
<1>2. ~ kernel.attached
  BY <1>1, ToolDetached
<1>3. ApplyInv /\ MarkedInv /\ TypeInv
  BY <1>2 DEF IInv, DetachedInv
<1>4. bitmap' = bitmap \union UNION {SetBits(e) : e \in Chunk} /\ todo' = todo \ (Chunk \union {First})
  BY DEF ApplyChunk
<1>5. bitmap \subseteq bitmap'
  BY <1>4
<1>6. (NoUpdates' <=> NoUpdates) /\ (RoomyMarked => RoomyMarked')
      /\ (RoomyLayout' <=> RoomyLayout) /\ \A e : ExtentBits(e)' = ExtentBits(e)
  BY <1>1, <1>5, LogFrame, MarkedStays, LayoutFrame
<1>7. MarkedInv'
  BY <1>1, <1>3, <1>6 DEF MarkedInv
<1>8. ApplyInv'
  <2>1. CASE ~ intact
    BY <1>1, <1>3, <2>1 DEF ApplyInv
  <2>2. CASE intact
    <3>1. /\ Chunk \subseteq todo /\ First \in todo /\ todo \subseteq owed
          /\ \A e \in Chunk : SetBits(e) = ExtentBits(e)
          /\ RoomyLayout => First \in Chunk
      BY <1>1, <2>2, ChunkIsOwed
    <3>2. bitmap \subseteq UNION {ExtentBits(e) : e \in owed}
      BY <1>3, <2>2 DEF ApplyInv
    <3>3. bitmap' \subseteq UNION {ExtentBits(e)' : e \in owed}
      <4>1. \A e \in Chunk : e \in owed /\ SetBits(e) = ExtentBits(e)'
        BY <1>6, <3>1
      <4>2. bitmap \subseteq UNION {ExtentBits(e)' : e \in owed}
        BY <1>6, <3>2
      <4> QED
        BY <1>4, <4>1, <4>2
    <3>4. todo' \subseteq owed
      BY <1>4, <3>1
    <3>5. ASSUME RoomyLayout, NEW e \in owed \ todo' PROVE ExtentBits(e)' \subseteq bitmap'
      <4>1. CASE e \in todo
        <5>1. e \in Chunk
          BY <1>4, <3>1, <3>5, <4>1
        <5>2. SetBits(e) \subseteq bitmap'
          BY <1>4, <5>1
        <5> QED
          BY <1>6, <3>1, <5>1, <5>2
      <4>2. CASE e \notin todo
        <5>1. ExtentBits(e) \subseteq bitmap
          BY <1>1, <1>3, <2>2, <3>5, <4>2 DEF ApplyInv
        <5> QED
          BY <1>5, <1>6, <5>1
      <4> QED
        BY <4>1, <4>2
    <3> QED
      BY <1>1, <1>3, <1>6, <3>3, <3>4, <3>5 DEF ApplyInv
  <2> QED
    BY <1>3, <2>1, <2>2 DEF TypeInv
<1> QED
  BY <1>1, <1>2, <1>3, <1>7, <1>8, ToolFrame DEF TypeInv

\* The end of apply_al().
LEMMA DoneKeeps ==
  ASSUME IInv, ApplyDone
  PROVE  IInv'
<1> USE DEF disk, bounds
<1>1. pc = "apply" /\ todo = {} /\ al' = al /\ bitmap' = bitmap /\ flags' = flags /\ geometry' = geometry
      /\ build' = build /\ kernel' = kernel /\ pc' = "init" /\ exit_code' = exit_code
      /\ owed' = owed /\ intact' = intact
  BY DEF ApplyDone
<1>2. ~ kernel.attached
  BY <1>1, ToolDetached
<1>3. ApplyInv /\ MarkedInv /\ TypeInv
  BY <1>2 DEF IInv, DetachedInv
<1>4. RoomyMarked
  <2>1. CASE ~ intact
    BY <1>3, <2>1 DEF MarkedInv
  <2>2. CASE intact
    BY <1>1, <1>3, <2>2 DEF ApplyInv, RoomyMarked, Marked
  <2> QED
    BY <2>1, <2>2
<1>5. (NoUpdates' <=> NoUpdates) /\ RoomyMarked'
  BY <1>1, <1>4, LogFrame, MarkedStays
<1>6. MarkedInv'
  BY <1>1, <1>3, <1>5 DEF MarkedInv
<1>7. ApplyInv'
  BY <1>1, <1>3, ApplyFrame
<1> QED
  BY <1>1, <1>2, <1>3, <1>6, <1>7, ToolFrame DEF TypeInv

\* The super block is written with MDF_AL_CLEAN.
LEMMA SetAlCleanKeeps ==
  ASSUME IInv, SetAlClean
  PROVE  IInv'
<1> USE DEF bounds
<1>1. pc = "flags" /\ al' = al /\ bitmap' = bitmap /\ geometry' = geometry
      /\ build' = build /\ kernel' = kernel /\ pc' = "idle" /\ exit_code' = 0
      /\ owed' = owed /\ intact' = intact /\ flags' = [flags EXCEPT !.al_clean = TRUE]
  BY DEF SetAlClean
<1>2. ~ kernel.attached
  BY <1>1, ToolDetached
<1>3. ApplyInv /\ MarkedInv /\ TypeInv
  BY <1>2 DEF IInv, DetachedInv
<1>4. /\ flags' \in [primary_ind : BOOLEAN, al_clean : BOOLEAN]
      /\ flags'.primary_ind = flags.primary_ind
  BY <1>1, <1>3 DEF TypeInv
<1>5. RoomyMarked /\ NoUpdates
  BY <1>1, <1>3 DEF MarkedInv
<1>6. NoUpdates' /\ RoomyMarked'
  BY <1>1, <1>5, LogFrame, MarkedStays
<1>7. MarkedInv'
  BY <1>1, <1>3, <1>4, <1>6 DEF MarkedInv
<1>8. ApplyInv'
  BY <1>1, <1>3, ApplyFrame
<1> QED
  BY <1>1, <1>2, <1>3, <1>4, <1>7, <1>8, ToolFrame

\* A step that erases blocks of the log: everything is marked.
LEMMA ErasingKeeps ==
  ASSUME IInv, pc = "init", NEW new, al' = [b \in Blocks |-> new[b]],
         \A b \in Blocks : new[b] \in {Initialized, Corrupt, al[b]},
         kernel' = kernel, bitmap' = bitmap, flags' = flags, geometry' = geometry, build' = build,
         owed' = owed, intact' = FALSE, pc' # "apply",
         pc' = "flags" => \A b \in Blocks : new[b] = Initialized
  PROVE  IInv'
<1>1. ~ kernel.attached
  BY ToolDetached
<1>2. ApplyInv /\ MarkedInv /\ TypeInv
  BY <1>1 DEF IInv, DetachedInv
<1>3. Extents' = Extents /\ Actives' = Actives
  BY LayoutFrame
<1>4. al' = [b \in Blocks |-> al'[b]] /\ \A b \in Blocks : al'[b] = new[b]
  OBVIOUS
<1>5. TypeInv'
  BY <1>2, <1>3, <1>4 DEF TypeInv
<1>6. AttachedInv'
  BY <1>1 DEF AttachedInv
<1>7. LogInv'
  BY DEF LogInv
<1>8. RoomyMarked'
  <2>1. RoomyMarked
    BY <1>2 DEF MarkedInv
  <2> QED
    BY <2>1, MarkedStays
<1>9. \A b \in Blocks : OnDiskSlot(b) \in Blocks
  BY SlotsDiffer
<1>10. /\ \A b \in Blocks : ring[b] = al[OnDiskSlot(b)]
       /\ \A b \in Blocks : ring'[b] = al'[OnDiskSlot(b)]
  BY DEF ring, AlCpu, OnDiskSlot
<1>11. \A b \in Blocks : ring'[b] \in {Initialized, Corrupt, ring[b]}
  BY <1>4, <1>9, <1>10
<1>12. NoUpdates => NoUpdates'
  BY <1>11 DEF NoUpdates, Initialized, Corrupt
<1>13. pc' = "flags" => NoUpdates'
  BY <1>4, <1>9, <1>10 DEF NoUpdates, Initialized
<1>14. MarkedInv'
  BY <1>2, <1>8, <1>12, <1>13 DEF MarkedInv
<1>15. ApplyInv'
  BY DEF ApplyInv
<1>16. DetachedInv'
  BY <1>1, <1>14, <1>15 DEF IInv, DetachedInv
<1> QED
  BY <1>5, <1>6, <1>7, <1>16 DEF IInv

\* initialize_al() erases the log.
LEMMA InitializeKeeps ==
  ASSUME IInv, InitializeAl
  PROVE  IInv'
<1> DEFINE new == [b \in Blocks |-> Initialized]
<1>1. /\ \A b \in Blocks : new[b] = Initialized
      /\ new = [b \in Blocks |-> new[b]]
  OBVIOUS
<1>2. al' = new
  BY DEF InitializeAl
<1> HIDE DEF new
<1>3. al' = [b \in Blocks |-> new[b]]
  BY <1>1, <1>2
<1> QED
  BY <1>1, <1>3, ErasingKeeps DEF InitializeAl

\* A crash of the host while apply-al runs.
LEMMA ToolCrashKeeps ==
  ASSUME IInv, CrashDuringApplyAl
  PROVE  IInv'
<1>1. pc # "idle" /\ flags' = flags /\ geometry' = geometry /\ build' = build /\ kernel' = kernel
      /\ pc' = "idle" /\ todo' = {} /\ exit_code' = exit_code /\ owed' = owed
  BY DEF CrashDuringApplyAl
<1>2. ~ kernel.attached
  BY <1>1, ToolDetached
<1>3. ApplyInv /\ MarkedInv /\ TypeInv
  BY <1>2 DEF IInv, DetachedInv
<1>4. ASSUME pc = "apply", todo # {}, al' = al, intact' = intact, NEW written \in SUBSET Chunk,
             bitmap' = bitmap \union UNION {SetBits(e) : e \in written}
      PROVE  IInv'
  <2>1. bitmap \subseteq bitmap'
    BY <1>4
  <2>2. (NoUpdates' <=> NoUpdates) /\ (RoomyMarked => RoomyMarked')
        /\ \A e : ExtentBits(e)' = ExtentBits(e)
    BY <1>1, <1>4, <2>1, LogFrame, MarkedStays, LayoutFrame
  <2>3. MarkedInv'
    BY <1>1, <1>3, <1>4, <2>2 DEF MarkedInv
  <2>4. intact => bitmap' \subseteq UNION {ExtentBits(e)' : e \in owed}
    <3> SUFFICES ASSUME intact PROVE bitmap' \subseteq UNION {ExtentBits(e)' : e \in owed}
      OBVIOUS
    <3>1. \A e \in Chunk : e \in owed /\ SetBits(e) = ExtentBits(e)'
      BY <1>4, <2>2, ChunkIsOwed
    <3>2. bitmap \subseteq UNION {ExtentBits(e)' : e \in owed}
      BY <1>3, <2>2 DEF ApplyInv
    <3> QED
      BY <1>4, <3>1, <3>2
  <2>5. ApplyInv'
    BY <1>1, <1>4, <2>4 DEF ApplyInv
  <2> QED
    BY <1>1, <1>2, <1>3, <1>4, <2>3, <2>5, ToolFrame DEF TypeInv
<1>5. ASSUME pc = "init", intact' = FALSE, bitmap' = bitmap,
             NEW written \in SUBSET Blocks, NEW torn,
             al' = [b \in Blocks |-> IF b \in torn THEN Corrupt
                                     ELSE IF b \in written THEN Initialized ELSE al[b]]
      PROVE  IInv'
  <2> DEFINE new == [b \in Blocks |-> IF b \in torn THEN Corrupt
                                      ELSE IF b \in written THEN Initialized ELSE al[b]]
  <2>1. /\ \A b \in Blocks : new[b] \in {Initialized, Corrupt, al[b]}
        /\ new = [b \in Blocks |-> new[b]] /\ al' = new
    BY <1>5
  <2> HIDE DEF new
  <2>2. al' = [b \in Blocks |-> new[b]]
    BY <2>1
  <2> QED
    BY <1>1, <1>5, <2>1, <2>2, ErasingKeeps
<1>6. ASSUME pc = "flags", al' = al, bitmap' = bitmap, intact' = intact PROVE IInv'
  <2>1. (NoUpdates' <=> NoUpdates) /\ (RoomyMarked => RoomyMarked')
    BY <1>1, <1>6, LogFrame, MarkedStays
  <2>2. MarkedInv'
    BY <1>1, <1>3, <1>6, <2>1 DEF MarkedInv
  <2>3. ApplyInv'
    BY <1>1, <1>3, <1>6, ApplyFrame
  <2> QED
    BY <1>1, <1>2, <1>3, <1>6, <2>2, <2>3, ToolFrame DEF TypeInv
<1> QED
  BY <1>4, <1>5, <1>6 DEF CrashDuringApplyAl

-----------------------------------------------------------------------------
(* The steps of the kernel *)

\* A transaction of the kernel.
LEMMA LogTransactionKeeps ==
  ASSUME IInv, LogTransaction
  PROVE  IInv'
<1>1. kernel.attached /\ bitmap' = bitmap /\ flags' = flags /\ geometry' = geometry /\ build' = build
      /\ pc' = pc /\ todo' = todo /\ exit_code' = exit_code /\ owed' = owed /\ intact' = intact
  BY DEF LogTransaction, tool
<1>2. TypeInv /\ AttachedInv
  BY DEF IInv
<1>3. PICK slots \in SUBSET KernelSlots : \E updates \in [slots -> (Written \intersect Extents) \ Active] :
        /\ al' = [al EXCEPT ![OnDiskSlot(kernel.tr_number)] =
                   [type |-> "update",
                    tr_number |-> kernel.tr_number,
                    context_size |-> NrElements,
                    context_start_slot_nr |-> kernel.tr_cycle,
                    context |-> Context,
                    updates |-> updates]]
        /\ kernel' =
             [kernel EXCEPT
               !.active = [s \in KernelSlots |-> IF s \in slots THEN updates[s] ELSE @[s]],
               !.tr_number = (@ + 1) % TrModulus,
               !.tr_cycle = IF @ + AL_CONTEXT_PER_TRANSACTION >= NrElements
                              THEN 0 ELSE @ + AL_CONTEXT_PER_TRANSACTION]
  BY DEF LogTransaction
<1>4. PICK updates \in [slots -> (Written \intersect Extents) \ Active] :
        /\ al' = [al EXCEPT ![OnDiskSlot(kernel.tr_number)] =
                   [type |-> "update",
                    tr_number |-> kernel.tr_number,
                    context_size |-> NrElements,
                    context_start_slot_nr |-> kernel.tr_cycle,
                    context |-> Context,
                    updates |-> updates]]
        /\ kernel' =
             [kernel EXCEPT
               !.active = [s \in KernelSlots |-> IF s \in slots THEN updates[s] ELSE @[s]],
               !.tr_number = (@ + 1) % TrModulus,
               !.tr_cycle = IF @ + AL_CONTEXT_PER_TRANSACTION >= NrElements
                              THEN 0 ELSE @ + AL_CONTEXT_PER_TRANSACTION]
  BY <1>3
<1> DEFINE x == [type |-> "update",
                 tr_number |-> kernel.tr_number,
                 context_size |-> NrElements,
                 context_start_slot_nr |-> kernel.tr_cycle,
                 context |-> Context,
                 updates |-> updates]
           n == kernel.tr_number
           act == kernel.active
           cyc == kernel.tr_cycle
           m == (n + 1) % TrModulus
           new == [s \in KernelSlots |-> IF s \in slots THEN updates[s] ELSE act[s]]
           next == IF cyc + C >= NrElements THEN 0 ELSE cyc + C
<1>5. kernel \in [attached : BOOLEAN, active : Actives, tr_number : TrNumbers, tr_cycle : KernelSlots]
  BY <1>2 DEF TypeInv
<1>6. n \in TrNumbers /\ act \in Actives /\ cyc \in KernelSlots /\ KernelLog(ring, n, act, cyc)
  BY <1>1, <1>2, <1>5 DEF AttachedInv
<1>7. kernel' = [attached |-> TRUE, active |-> new, tr_number |-> m, tr_cycle |-> next]
  BY <1>1, <1>4, <1>5 DEF C
<1>8. al' = [b \in Blocks |-> al'[b]] /\ Overwrites(ring, ring', n, x)
  <2>1. al = [b \in Blocks |-> al[b]]
    BY <1>2 DEF TypeInv
  <2>2. al' = [al EXCEPT ![OnDiskSlot(n)] = x]
    BY <1>4
  <2> HIDE DEF x, n
  <2> QED
    BY <1>6, <2>1, <2>2, RingAfterWrite
<1>9. /\ x.type = "update" /\ x.tr_number = n /\ x.context_size = NrElements
      /\ x.context_start_slot_nr = cyc /\ x.context = Context /\ x.updates = updates
  OBVIOUS
<1>10. DOMAIN updates = slots /\ slots \subseteq KernelSlots
  OBVIOUS
<1>11. Context = [i \in 0 .. C - 1 |-> IF cyc + i \in KernelSlots THEN act[cyc + i] ELSE FREE]
  BY DEF Context, C
<1>12. m = (n + 1) % TrModulus /\ next = (IF cyc + C >= NrElements THEN 0 ELSE cyc + C)
  OBVIOUS
<1>13. \A s \in KernelSlots : new[s] = IF s \in slots THEN updates[s] ELSE act[s]
  OBVIOUS
<1>14. new \in Actives
  <2>1. act \in [KernelSlots -> Extents \union {FREE}]
    BY <1>6 DEF Actives
  <2>2. \A s \in slots : updates[s] \in Extents
    OBVIOUS
  <2> HIDE DEF act
  <2> QED
    BY <2>1, <2>2 DEF Actives
<1> HIDE DEF x, n, act, cyc, m, new, next
<1>15. WellFormed(x)
  BY <1>6, <1>9, <1>10, <1>11 DEF WellFormed
<1>16. \A i \in 0 .. C - 1 : cyc + i \in KernelSlots => x.context[i] = act[cyc + i]
  BY <1>9, <1>11
<1>17. Logs(x, n, act, cyc) /\ NextActive(x, act, new)
  BY <1>9, <1>10, <1>13, <1>15, <1>16 DEF Logs, NextActive
<1>18. KernelLog(ring', m, new, next)
  BY <1>6, <1>8, <1>12, <1>17, KernelLogNext
<1>19. m \in TrNumbers
  BY <1>6, <1>12, BackShifts
<1>20. next \in KernelSlots
  BY <1>6, <1>12, Consts DEF KernelSlots
<1>21. Extents' = Extents /\ Actives' = Actives
  BY <1>1, LayoutFrame
<1>22. /\ kernel'.attached /\ kernel'.active = new /\ kernel'.tr_number = m /\ kernel'.tr_cycle = next
       /\ kernel' \in [attached : BOOLEAN, active : Actives, tr_number : TrNumbers, tr_cycle : KernelSlots]
  BY <1>7, <1>14, <1>19, <1>20
<1>23. TypeInv'
  BY <1>1, <1>2, <1>8, <1>21, <1>22 DEF TypeInv
<1>24. AttachedInv'
  BY <1>1, <1>2, <1>18, <1>22 DEF AttachedInv
<1>25. LogInv' /\ DetachedInv'
  BY <1>22 DEF LogInv, DetachedInv
<1> QED
  BY <1>23, <1>24, <1>25 DEF IInv

\* A change of the role.
LEMMA SetRoleKeeps ==
  ASSUME IInv, SetRole
  PROVE  IInv'
<1>1. kernel.attached /\ flags' = [flags EXCEPT !.primary_ind = ~ @] /\ al' = al /\ bitmap' = bitmap
      /\ geometry' = geometry /\ build' = build /\ kernel' = kernel
      /\ pc' = pc /\ exit_code' = exit_code /\ owed' = owed /\ intact' = intact
  BY DEF SetRole, tool
<1>2. TypeInv /\ AttachedInv
  BY DEF IInv
<1>3. /\ flags' \in [primary_ind : BOOLEAN, al_clean : BOOLEAN]
      /\ flags'.al_clean = flags.al_clean
  BY <1>1, <1>2 DEF TypeInv
<1>4. ring' = ring /\ Extents' = Extents /\ Actives' = Actives
  BY <1>1, LogFrame, LayoutFrame
<1>5. TypeInv'
  BY <1>1, <1>2, <1>3, <1>4 DEF TypeInv
<1>6. AttachedInv'
  BY <1>1, <1>2, <1>3, <1>4 DEF AttachedInv
<1>7. LogInv' /\ DetachedInv'
  BY <1>1 DEF LogInv, DetachedInv
<1> QED
  BY <1>5, <1>6, <1>7 DEF IInv

\* What Detached() is.
LEMMA DetachedRecord ==
  ASSUME NEW n \in TrNumbers
  PROVE  /\ Detached(n) \in [attached : BOOLEAN, active : Actives, tr_number : TrNumbers, tr_cycle : KernelSlots]
         /\ ~ Detached(n).attached /\ Detached(n).active = [s \in KernelSlots |-> FREE]
         /\ Detached(n).tr_cycle = 0
<1>1. 0 \in KernelSlots
  BY Consts DEF KernelSlots
<1>2. [s \in KernelSlots |-> FREE] \in Actives
  BY DEF Actives
<1> DEFINE free == [s \in KernelSlots |-> FREE]
<1>3. Detached(n) = [attached |-> FALSE, active |-> free, tr_number |-> n, tr_cycle |-> 0]
  BY DEF Detached
<1>4. free \in Actives
  BY <1>2
<1> HIDE DEF free
<1>5. /\ Detached(n) \in [attached : BOOLEAN, active : Actives, tr_number : TrNumbers, tr_cycle : KernelSlots]
      /\ ~ Detached(n).attached /\ Detached(n).active = free
      /\ Detached(n).tr_cycle = 0
  BY <1>1, <1>3, <1>4
<1> QED
  BY <1>5 DEF free

\* A step that ends the attachment, with the extents that are owed.
LEMMA DetachingKeeps ==
  ASSUME IInv, kernel.attached, NEW n \in TrNumbers, kernel' = Detached(n),
         al' = [b \in Blocks |-> al'[b]],
         bitmap' = bitmap, flags' = flags, geometry' = geometry, build' = build,
         pc' = pc, exit_code' = exit_code, intact' = TRUE,
         owed' \subseteq Extents, ~ flags.primary_ind => owed' = {},
         flags.primary_ind => CrashLog(ring', owed', Actives)
  PROVE  IInv'
<1>1. TypeInv /\ AttachedInv
  BY DEF IInv
<1>2. Extents' = Extents /\ Actives' = Actives
  BY LayoutFrame
<1>3. /\ kernel' \in [attached : BOOLEAN, active : Actives, tr_number : TrNumbers, tr_cycle : KernelSlots]
      /\ ~ kernel'.attached /\ kernel'.active = [s \in KernelSlots |-> FREE] /\ kernel'.tr_cycle = 0
  BY DetachedRecord
<1>4. TypeInv'
  BY <1>1, <1>2, <1>3 DEF TypeInv
<1>5. AttachedInv'
  BY <1>3 DEF AttachedInv
<1>6. LogInv'
  BY <1>2 DEF LogInv
<1>7. pc = "idle" /\ bitmap = {} /\ exit_code = 0 /\ ~ flags.al_clean
  BY <1>1 DEF AttachedInv
<1>8. ApplyInv'
  BY <1>7 DEF ApplyInv
<1>9. MarkedInv'
  BY <1>7 DEF MarkedInv
<1>10. DetachedInv'
  BY <1>3, <1>8, <1>9 DEF DetachedInv
<1> QED
  BY <1>4, <1>5, <1>6, <1>10 DEF IInv

\* A Secondary detaches.
LEMMA DetachKeeps ==
  ASSUME IInv, Detach
  PROVE  IInv'
<1>1. kernel.attached /\ ~ flags.primary_ind /\ al' = al /\ bitmap' = bitmap /\ flags' = flags
      /\ geometry' = geometry /\ build' = build /\ pc' = pc /\ exit_code' = exit_code
      /\ owed' = {} /\ intact' = TRUE
  BY DEF Detach, disk, tool
<1>2. TypeInv
  BY DEF IInv
<1>3. 0 \in TrNumbers /\ kernel.tr_number \in TrNumbers
  BY <1>2, Consts DEF TypeInv, TrNumbers
<1>4. PICK n \in {0, kernel.tr_number} : kernel' = Detached(n)
  BY DEF Detach
<1>5. n \in TrNumbers
  BY <1>3
<1>6. al' = [b \in Blocks |-> al'[b]]
  BY <1>1, <1>2 DEF TypeInv
<1>7. owed' \subseteq Extents
  BY <1>1
<1> QED
  BY <1>1, <1>4, <1>5, <1>6, <1>7, DetachingKeeps

\* A crash of the host while the volume is attached.
LEMMA CrashKeeps ==
  ASSUME IInv, Crash
  PROVE  IInv'
<1>1. kernel.attached /\ bitmap' = bitmap /\ flags' = flags
      /\ geometry' = geometry /\ build' = build /\ pc' = pc /\ exit_code' = exit_code
      /\ owed' = (IF flags.primary_ind THEN Active ELSE {}) /\ intact' = TRUE /\ kernel' = Detached(0)
  BY DEF Crash, tool
<1>2. TypeInv /\ AttachedInv
  BY DEF IInv
<1> DEFINE n == kernel.tr_number
           act == kernel.active
<1>3. 0 \in TrNumbers /\ n \in TrNumbers /\ act \in Actives /\ KernelLog(ring, n, act, kernel.tr_cycle)
  BY <1>1, <1>2, Consts DEF TypeInv, AttachedInv, TrNumbers
<1>4. al = [b \in Blocks |-> al[b]]
  BY <1>2 DEF TypeInv
<1>5. al' = [b \in Blocks |-> al'[b]] /\ (ring' = ring \/ Overwrites(ring, ring', n, Corrupt))
  <2>1. CASE al' = al
    BY <1>4, <2>1, LogFrame
  <2>2. CASE al' = [al EXCEPT ![OnDiskSlot(n)] = Corrupt]
    <3> HIDE DEF n
    <3> QED
      BY <1>3, <1>4, <2>2, RingAfterWrite
  <2> QED
    BY <2>1, <2>2 DEF Crash
<1>6. Active = Values(act)
  BY DEF Active, Values
<1>7. Values(act) \subseteq Extents
  <2>1. act \in [KernelSlots -> Extents \union {FREE}]
    BY <1>3 DEF Actives
  <2> HIDE DEF act
  <2> QED
    BY <2>1 DEF Values
<1> HIDE DEF n, act
<1>8. CrashLog(ring', Values(act), Actives)
  BY <1>3, <1>5, KernelLogCrash
<1>9. flags.primary_ind => owed' = Values(act)
  BY <1>1, <1>6
<1>10. ~ flags.primary_ind => owed' = {}
  BY <1>1
<1>11. owed' \subseteq Extents
  BY <1>7, <1>9, <1>10
<1>12. flags.primary_ind => CrashLog(ring', owed', Actives)
  BY <1>8, <1>9
<1> QED
  BY <1>1, <1>3, <1>5, <1>10, <1>11, <1>12, DetachingKeeps

\* The kernel attaches to a volume whose log is clean.
LEMMA AttachKeeps ==
  ASSUME IInv, Attach
  PROVE  IInv'
<1>1. ~ kernel.attached /\ pc = "idle" /\ flags.al_clean /\ al' = al /\ bitmap' = {}
      /\ flags' = [primary_ind |-> FALSE, al_clean |-> FALSE]
      /\ geometry' = geometry /\ build' = build /\ pc' = pc /\ exit_code' = 0
      /\ owed' = {} /\ intact' = TRUE /\ kernel' = [kernel EXCEPT !.attached = TRUE]
  BY DEF Attach
<1>2. TypeInv /\ MarkedInv /\ kernel.active = [s \in KernelSlots |-> FREE] /\ kernel.tr_cycle = 0
  BY <1>1 DEF IInv, DetachedInv
<1>3. ring' = ring /\ Extents' = Extents /\ Actives' = Actives
  BY <1>1, LogFrame, LayoutFrame
<1>4. /\ kernel' \in [attached : BOOLEAN, active : Actives, tr_number : TrNumbers, tr_cycle : KernelSlots]
      /\ kernel'.attached /\ kernel'.active = kernel.active /\ kernel'.tr_number = kernel.tr_number
      /\ kernel'.tr_cycle = kernel.tr_cycle
  BY <1>1, <1>2 DEF TypeInv
<1>5. /\ flags' \in [primary_ind : BOOLEAN, al_clean : BOOLEAN]
      /\ ~ flags'.al_clean
  BY <1>1
<1>6. TypeInv'
  BY <1>1, <1>2, <1>3, <1>4, <1>5 DEF TypeInv
<1>7. KernelLog(ring, kernel.tr_number, kernel.active, 0)
  <2>1. \A b \in Blocks : ring[b].type # "update"
    BY <1>1, <1>2 DEF MarkedInv, NoUpdates
  <2>2. kernel.tr_number \in TrNumbers /\ \A s \in KernelSlots : kernel.active[s] = FREE
    BY <1>2 DEF TypeInv
  <2> QED
    BY <2>1, <2>2, KernelLogStart
<1>8. KernelLog(ring', kernel'.tr_number, kernel'.active, kernel'.tr_cycle)
  BY <1>2, <1>3, <1>4, <1>7
<1>9. AttachedInv'
  BY <1>1, <1>5, <1>8 DEF AttachedInv
<1>10. LogInv' /\ DetachedInv'
  BY <1>4 DEF LogInv, DetachedInv
<1> QED
  BY <1>6, <1>9, <1>10 DEF IInv

-----------------------------------------------------------------------------
(* The theorems *)

\* The invariant holds when the kernel has attached to a fresh log.
LEMMA InitIInv ==
  ASSUME Init, build = "wrapping"
  PROVE  IInv
<1>1. PICK n \in FirstTrNumbers : kernel = [Detached(n) EXCEPT !.attached = TRUE]
  BY DEF Init
<1>2. n \in TrNumbers
  BY ActivityLogAssumption
<1>3. /\ Detached(n) \in [attached : BOOLEAN, active : Actives, tr_number : TrNumbers, tr_cycle : KernelSlots]
      /\ Detached(n).active = [s \in KernelSlots |-> FREE] /\ Detached(n).tr_cycle = 0
  BY <1>2, DetachedRecord
<1>4. /\ kernel \in [attached : BOOLEAN, active : Actives, tr_number : TrNumbers, tr_cycle : KernelSlots]
      /\ kernel.attached /\ kernel.active = [s \in KernelSlots |-> FREE] /\ kernel.tr_cycle = 0
  BY <1>1, <1>3
<1>5. TypeInv
  <2>1. al = [b \in Blocks |-> al[b]]
    BY DEF Init
  <2> QED
    BY <1>4, <2>1 DEF Init, TypeInv
<1>6. ASSUME NEW b \in Blocks PROVE ring[b].type # "update"
  <2>1. ring[b] = al[OnDiskSlot(b)] /\ OnDiskSlot(b) \in Blocks
    BY SlotsDiffer DEF ring, AlCpu
  <2>2. al[OnDiskSlot(b)] = Initialized
    BY <2>1 DEF Init
  <2> QED
    BY <2>1, <2>2 DEF Initialized
<1>7. KernelLog(ring, kernel.tr_number, kernel.active, kernel.tr_cycle)
  <2>1. kernel.tr_number \in TrNumbers /\ \A s \in KernelSlots : kernel.active[s] = FREE
    BY <1>4
  <2>2. KernelLog(ring, kernel.tr_number, kernel.active, 0)
    BY <1>6, <2>1, KernelLogStart
  <2> QED
    BY <1>4, <2>2
<1>8. AttachedInv
  BY <1>4, <1>7 DEF Init, AttachedInv
<1>9. LogInv /\ DetachedInv
  BY <1>4 DEF LogInv, DetachedInv
<1> QED
  BY <1>5, <1>8, <1>9 DEF IInv

\* A step that changes nothing.
LEMMA StutterKeeps ==
  ASSUME IInv, UNCHANGED vars
  PROVE  IInv'
<1>1. /\ al' = al /\ bitmap' = bitmap /\ flags' = flags /\ geometry' = geometry /\ build' = build
      /\ kernel' = kernel /\ pc' = pc /\ todo' = todo /\ exit_code' = exit_code
      /\ owed' = owed /\ intact' = intact
  BY DEF vars
<1>2. /\ ring' = ring /\ (NoUpdates' <=> NoUpdates) /\ Extents' = Extents /\ Actives' = Actives
      /\ (RoomyLayout' <=> RoomyLayout) /\ \A e : ExtentBits(e)' = ExtentBits(e)
  BY <1>1, LogFrame, LayoutFrame
<1>3. RoomyMarked' <=> RoomyMarked
  BY <1>1, <1>2 DEF RoomyMarked, Marked
<1>4. TypeInv' /\ AttachedInv' /\ LogInv'
  BY <1>1, <1>2 DEF IInv, TypeInv, AttachedInv, LogInv
<1>5. (ApplyInv => ApplyInv') /\ (MarkedInv => MarkedInv')
  BY <1>1, <1>2, <1>3 DEF ApplyInv, MarkedInv
<1>6. DetachedInv'
  BY <1>1, <1>5 DEF IInv, DetachedInv
<1> QED
  BY <1>4, <1>6 DEF IInv

\* Every step preserves the invariant.
LEMMA NextIInv ==
  ASSUME IInv, [Next]_vars
  PROVE  IInv'
<1>1. CASE ApplyAlRefuses
  BY <1>1, RefusesKeeps
<1>2. CASE ApplyAlBegins
  BY <1>2, BeginsKeeps
<1>3. CASE ApplyChunk
  BY <1>3, ChunkKeeps
<1>4. CASE ApplyDone
  BY <1>4, DoneKeeps
<1>5. CASE InitializeAl
  BY <1>5, InitializeKeeps
<1>6. CASE SetAlClean
  BY <1>6, SetAlCleanKeeps
<1>7. CASE CrashDuringApplyAl
  BY <1>7, ToolCrashKeeps
<1>8. CASE LogTransaction
  BY <1>8, LogTransactionKeeps
<1>9. CASE SetRole
  BY <1>9, SetRoleKeeps
<1>10. CASE Detach
  BY <1>10, DetachKeeps
<1>11. CASE Crash
  BY <1>11, CrashKeeps
<1>12. CASE Attach
  BY <1>12, AttachKeeps
<1>13. CASE UNCHANGED vars
  BY <1>13, StutterKeeps
<1> QED
  BY <1>1, <1>2, <1>3, <1>4, <1>5, <1>6, <1>7, <1>8, <1>9, <1>10, <1>11, <1>12, <1>13 DEF Next

\* The inductive invariant holds where (int)a - (int)b wraps around.
THEOREM LogIsConsistent == Spec /\ build = "wrapping" => []IInv
<1>1. Init /\ build = "wrapping" => IInv
  BY InitIInv
<1>2. IInv /\ [Next]_vars => IInv'
  BY NextIInv
<1> QED
  BY <1>1, <1>2, PTL DEF Spec

\* apply-al does not change the layout of the bitmap.
LEMMA RoomStays ==
  ASSUME RoomyLayout, [Next]_vars
  PROVE  RoomyLayout'
<1>1. geometry' = geometry
  BY DEF Next, vars, ApplyAlRefuses, ApplyAlBegins, ApplyChunk, ApplyDone, InitializeAl, SetAlClean,
         CrashDuringApplyAl, LogTransaction, SetRole, Detach, Crash, Attach
<1> QED
  BY <1>1, LayoutFrame

\* ReplayReconstructs, for every ring, context, number of slots and modulus
\* of the transaction numbers: after the crash of a Primary replay_al_84()
\* hands exactly the extents to apply_al() that were active.
THEOREM ReplayIsExact == Spec /\ build = "wrapping" => []ReplayReconstructs
<1>1. IInv => ReplayReconstructs
  BY ReplayExact DEF ReplayReconstructs
<1> QED
  BY <1>1, LogIsConsistent, PTL

\* OnlyActiveMarked, for every layout of the bitmap: as long as the log is as
\* the crash left it, apply_al() has set bits of the active extents only.
THEOREM MarksAreExact == Spec /\ build = "wrapping" => []OnlyActiveMarked
<1>1. IInv => OnlyActiveMarked
  BY DEF IInv, DetachedInv, ApplyInv, OnlyActiveMarked
<1> QED
  BY <1>1, LogIsConsistent, PTL

\* CleanMeansMarked, for every layout in which the bitmap has room behind the
\* last extent: where MDF_AL_CLEAN lets the kernel attach, every extent that
\* was active is marked for every peer, whatever crashes hit apply-al.
THEOREM CleanIsMarked == Spec /\ build = "wrapping" /\ RoomyLayout => []CleanMeansMarked
<1>1. IInv /\ RoomyLayout => CleanMeansMarked
  BY DEF IInv, DetachedInv, MarkedInv, RoomyMarked, CleanMeansMarked
<1>2. RoomyLayout /\ [Next]_vars => RoomyLayout'
  BY RoomStays
<1> QED
  BY <1>1, <1>2, LogIsConsistent, PTL DEF Spec

\* RefusalLosesNothing, for every such layout: where apply-al gives up with
\* exit code 1 or 2, no extent was active or all of them are marked.
THEOREM RefusalIsHarmless == Spec /\ build = "wrapping" /\ RoomyLayout => []RefusalLosesNothing
<1>1. IInv /\ RoomyLayout => RefusalLosesNothing
  BY DEF IInv, DetachedInv, MarkedInv, RoomyMarked, RefusalLosesNothing
<1>2. RoomyLayout /\ [Next]_vars => RoomyLayout'
  BY RoomStays
<1> QED
  BY <1>1, <1>2, LogIsConsistent, PTL DEF Spec
=============================================================================
