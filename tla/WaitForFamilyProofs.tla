------------------------- MODULE WaitForFamilyProofs -------------------------
(***************************************************************************)
(* Proofs about WaitForFamily: a wait reports no timeout before one has    *)
(* passed, and success only for what it has waited for.                    *)
(*                                                                         *)
(* The first rests on a bound on elapsed_ms(): each round of generic_recv()*)
(* counts less than one ms too much.  The second rests on two chains, from *)
(* the kernel module to the list: a state that a message tells of has been *)
(* so (MessagesInv, EntriesInv), and a peer device that has been there all *)
(* the time is named by the list that is sent, by a message in the socket  *)
(* or by an entry (ListInv).                                               *)
(***************************************************************************)
EXTENDS WaitForFamily, SequenceTheorems, WellFoundedInduction, TLAPS

-----------------------------------------------------------------------------
(* The invariant *)

\* What the history variables know of the kernel module.
KernelInv ==
  /\ \A pd \in PeerDevices : /\ Ready(repl_state[pd]) => pd \in was_up
                             /\ repl_state[pd] = Gone => pd \in was_gone
  /\ standalone \subseteq was_standalone

\* A message tells of something that has been so.
History == [connect |-> cmd.connect, up |-> was_up, gone |-> was_gone, alone |-> was_standalone]

Truthful(m, h) ==
  /\ m.kind = "peer_device" =>
       /\ m.state = L_ESTABLISHED \/ (h.connect /\ m.state > L_ESTABLISHED) => m.pd \in h.up
       /\ m.type = "destroy" => m.pd \in h.gone
  /\ m.kind = "connection" /\ m.type \notin {"create", "destroy"} /\ m.state = "StandAlone" => m.pd \in h.alone

MessagesInv ==
  /\ \A i \in DOMAIN sock : Truthful(sock[i], History)
  /\ \A i \in DOMAIN dump : Truthful(dump[i], History)

\* The end of a dump is its last part.
DumpInv == \A i \in DOMAIN dump : dump[i] = NLMSG_DONE <=> i = Len(dump)

\* What has been counted down of the timeout of an entry has passed.
Started == counted = MaxWait \/ clock - before <= counted
Fair(e, now, from, sum) ==
  \/ e.granted = Infinite /\ e.timeout_ms = Infinite
  \/ /\ e.granted \in Nat /\ e.timeout_ms \in 0 .. e.granted
     /\ e.granted * UnitsPerMs <= MaxWait
     /\ sum = MaxWait \/ (e.granted - e.timeout_ms) * UnitsPerMs <= sum - (now - from)

TimeInv == Started /\ \A i \in DOMAIN peer_devices : Fair(peer_devices[i], clock, before, counted)

\* An entry is up only if its peer device has been.
EntriesInv == \A i \in DOMAIN peer_devices : Ready(peer_devices[i].rs) => peer_devices[i].pd \in was_up

\* No peer device that has been there all the time is left out of the list.
Remembered(list, pd) == \E i \in DOMAIN list : list[i].pd = pd
Received(queue, pd, n) == \E i \in 1 .. n : i \in DOMAIN queue /\ queue[i].kind = "peer_device" /\ queue[i].pd = pd
ToCome(parts, pd) == \E i \in DOMAIN parts : parts[i] = Listed(pd)

Announced(list, queue, parts, pd) ==
  /\ Remembered(list, pd) \/ Received(queue, pd, Len(queue)) \/ ToCome(parts, pd)
  /\ \A d \in DOMAIN queue : queue[d] = NLMSG_DONE => Remembered(list, pd) \/ Received(queue, pd, d - 1)

ListInv ==
  /\ pc = "start" => peer_devices = <<>> /\ \A d \in DOMAIN sock : sock[d] # NLMSG_DONE
  /\ \A pd \in PeerDevices \ was_gone :
       /\ pc = "list" => Announced(peer_devices, sock, dump, pd)
       /\ pc \in {"choose", "recv"} /\ ~ hup => Remembered(peer_devices, pd)

IInv ==
  /\ TypeOK /\ KernelInv /\ MessagesInv /\ DumpInv /\ TimeInv /\ EntriesInv /\ ListInv
  /\ TimeoutNotEarly /\ HonestSuccess

-----------------------------------------------------------------------------
(* Numbers *)

\* A set of natural numbers has a least element.
LEMMA Least ==
  ASSUME NEW T, T \subseteq Nat, T # {}
  PROVE  \E x \in T : \A y \in T : x <= y
<1> DEFINE R == OpToRel(<, Nat)
<1>1. IsWellFoundedOn(R, Nat)
  BY NatLessThanWellFounded
<1>2. PICK x \in T : \A y \in T : ~ (<<y, x>> \in R)
  <2> HIDE DEF R
  <2> QED
    BY <1>1, WFMin
<1>3. \A y \in T : <<y, x>> \in R <=> y < x
  BY DEF OpToRel
<1>4. \A y \in T : ~ (y < x)
  <2> HIDE DEF R
  <2> QED
    BY <1>2, <1>3, Zenon
<1> QED
  <2> HIDE DEF R
  <2> QED
    BY <1>4

\* What division leaves.
LEMMA DivBounds ==
  ASSUME NEW a \in Int, NEW b \in Nat \ {0}
  PROVE  /\ a \div b \in Int /\ a % b \in 0 .. b - 1
         /\ a = (a \div b) * b + (a % b)
  BY SMT

\* A division of C errs by less than one.
LEMMA TruncatedBounds ==
  ASSUME NEW x \in Int
  PROVE  /\ Truncated(x) \in Int
         /\ Truncated(x) * UnitsPerMs <= x + UnitsPerMs - 1
         /\ x >= 0 => Truncated(x) >= 0
         /\ \A k \in Nat \ {0} : - x < k * UnitsPerMs => - Truncated(x) < k
<1> DEFINE u == UnitsPerMs
<1>1. u \in Nat \ {0}
  BY WaitAssumption
<1>2. CASE x >= 0
  <2> DEFINE q == x \div u
             r == x % u
  <2>1. q \in Int /\ r \in 0 .. u - 1 /\ x = q * u + r
    BY <1>1, DivBounds
  <2>2. Truncated(x) = q
    BY <1>2 DEF Truncated
  <2> HIDE DEF q, r, u
  <2>3. q >= 0
    <3>1. q < 0 => q * u <= - u
      BY <1>1, <2>1
    <3> QED
      BY <1>1, <1>2, <2>1, <3>1
  <2>4. q * u <= x + u - 1
    BY <1>1, <2>1
  <2>5. \A k \in Nat \ {0} : - q < k
    BY <2>1, <2>3
  <2> QED
    BY <2>1, <2>2, <2>3, <2>4, <2>5 DEF u
<1>3. CASE x < 0
  <2> DEFINE y == - x
             q == y \div u
             r == y % u
  <2>0. y \in Int /\ y = - x
    OBVIOUS
  <2>1. q \in Int /\ r \in 0 .. u - 1 /\ - x = q * u + r
    <3> HIDE DEF y
    <3> QED
      BY <1>1, <2>0, DivBounds
  <2>2. Truncated(x) = - q
    BY <1>3 DEF Truncated
  <2> HIDE DEF q, r, u
  <2>3. (- q) * u <= x + u - 1
    BY <1>1, <2>1
  <2>4. ASSUME NEW k \in Nat \ {0}, - x < k * u PROVE q < k
    <3>1. q >= k => q * u >= k * u
      BY <1>1, <2>1
    <3> QED
      BY <1>1, <2>1, <2>4, <3>1
  <2> QED
    BY <1>3, <2>1, <2>2, <2>3, <2>4 DEF u
<1> QED
  BY <1>2, <1>3

\* elapsed_ms() takes time for longer than it was by less than one ms, and never
\* goes back.
LEMMA ElapsedBounds ==
  ASSUME NEW from \in Nat, NEW to \in Nat, from <= to
  PROVE  /\ elapsed_ms(from, to) \in Nat
         /\ elapsed_ms(from, to) * UnitsPerMs <= to - from + UnitsPerMs - 1
<1> DEFINE u == UnitsPerMs
           m == MsPerSecond
           s == UnitsPerSecond
           a == from \div s
           b == to \div s
           c == from % s
           d == to % s
           t == Truncated(d - c)
<1>1. u \in Nat \ {0} /\ m \in Nat \ {0}
  BY WaitAssumption
<1>2. s = u * m
  BY DEF UnitsPerSecond
<1>3. s \in Nat \ {0}
  BY <1>1, <1>2
<1>4. /\ a \in Int /\ c \in 0 .. s - 1 /\ from = a * s + c
      /\ b \in Int /\ d \in 0 .. s - 1 /\ to = b * s + d
  <2> HIDE DEF s
  <2> QED
    BY <1>3, DivBounds
<1>5. elapsed_ms(from, to) = (b - a) * m + t
  BY DEF elapsed_ms
<1>6. d - c \in Int
  <2> HIDE DEF c, d, s
  <2> QED
    BY <1>3, <1>4
<1>7. /\ t \in Int /\ t * u <= d - c + u - 1 /\ (d - c >= 0 => t >= 0)
      /\ - (d - c) < m * u => - t < m
  <2>1. /\ t \in Int /\ t * u <= d - c + u - 1 /\ (d - c >= 0 => t >= 0)
        /\ \A k \in Nat \ {0} : - (d - c) < k * u => - t < k
    <3> HIDE DEF c, d
    <3> QED
      BY <1>6, TruncatedBounds
  <2> HIDE DEF c, d, t, u, m
  <2> QED
    BY <1>1, <2>1
<1> HIDE DEF a, b, c, d, t, s, u, m
<1>8. ((b - a) * m + t) * u <= to - from + u - 1
  <2>1. ((b - a) * m + t) * u = (b - a) * (u * m) + t * u
    BY <1>1, <1>4, <1>7
  <2>2. (b - a) * s = b * s - a * s
    BY <1>3, <1>4
  <2> QED
    BY <1>1, <1>2, <1>3, <1>4, <1>7, <2>1, <2>2
<1>9. b >= a
  <2>1. b < a => b * s + s <= a * s
    <3>1. b < a => (a - b - 1) * s >= 0
      BY <1>3, <1>4
    <3>2. (a - b - 1) * s = a * s - b * s - s
      BY <1>3, <1>4
    <3> QED
      BY <1>3, <1>4, <3>1, <3>2
  <2> QED
    BY <1>3, <1>4, <2>1
<1>10. (b - a) * m + t >= 0
  <2>1. CASE b = a
    <3>1. d >= c
      BY <1>3, <1>4, <2>1
    <3>2. (b - a) * m = 0
      BY <1>1, <1>4, <2>1
    <3> QED
      BY <1>1, <1>3, <1>4, <1>7, <3>1, <3>2
  <2>2. CASE b > a
    <3>1. (b - a) * m >= m
      <4>1. (b - a - 1) * m >= 0
        BY <1>1, <1>4, <2>2
      <4>2. (b - a - 1) * m = (b - a) * m - m
        BY <1>1, <1>4
      <4> QED
        BY <1>1, <1>4, <4>1, <4>2
    <3>2. - (d - c) < m * u
      BY <1>1, <1>2, <1>3, <1>4
    <3> QED
      BY <1>1, <1>4, <1>7, <3>1, <3>2
  <2> QED
    BY <1>4, <1>9, <2>1, <2>2
<1>11. (b - a) * m + t \in Int
  BY <1>1, <1>4, <1>7
<1> QED
  BY <1>5, <1>8, <1>10, <1>11 DEF u

-----------------------------------------------------------------------------
(* Messages *)

\* A message is what its kind says.
LEMMA Kinds ==
  /\ \A m \in Messages : /\ m.kind = "peer_device" => m \in PdMsgs
                         /\ m.kind = "connection" => m \in ConnMsgs
                         /\ m = Unloaded \/ m = NLMSG_DONE \/ m.kind \in {"peer_device", "connection"}
  /\ \A p \in Parts : \/ p = Nothing \/ p = NLMSG_DONE \/ p \in PdMsgs \/ p \in ConnMsgs
                      \/ \E pd \in PeerDevices : p = Listed(pd)
  /\ Unloaded.kind = "unload" /\ NLMSG_DONE.kind = "done" /\ Nothing.kind = "nothing"
  /\ \A pd \in PeerDevices : Listed(pd).kind = "listed" /\ Listed(pd).pd = pd
  /\ \A m \in PdMsgs : m.kind = "peer_device"
  /\ \A m \in ConnMsgs : m.kind = "connection"
  BY DEF Messages, Parts, PdMsgs, ConnMsgs, Unloaded, NLMSG_DONE, Nothing, Listed

\* What the kernel module sends.
LEMMA Composed ==
  /\ \A type \in {"listed", "exists", "change", "create", "destroy"}, pd \in PeerDevices \union OtherDevices, rs \in States :
       PdMsg(type, pd, rs) \in PdMsgs /\ PdMsg(type, pd, rs) \in Messages /\ PdMsg(type, pd, rs) \in Parts
  /\ \A type \in {"exists", "change", "create", "destroy"}, c \in Connections, cs \in {"StandAlone", "Unconnected"} :
       ConnMsg(type, c, cs) \in ConnMsgs /\ ConnMsg(type, c, cs) \in Messages /\ ConnMsg(type, c, cs) \in Parts
  /\ Unloaded \in Messages /\ NLMSG_DONE \in Messages /\ NLMSG_DONE \in Parts /\ Nothing \in Parts
  /\ \A pd \in PeerDevices : Listed(pd) \in Parts
  BY DEF PdMsg, ConnMsg, PdMsgs, ConnMsgs, Messages, Parts

\* The fields of a message.
LEMMA Fields ==
  ASSUME NEW type, NEW pd, NEW st
  PROVE  /\ PdMsg(type, pd, st).kind = "peer_device" /\ PdMsg(type, pd, st).type = type
         /\ PdMsg(type, pd, st).pd = pd /\ PdMsg(type, pd, st).state = st
         /\ ConnMsg(type, pd, st).kind = "connection" /\ ConnMsg(type, pd, st).type = type
         /\ ConnMsg(type, pd, st).pd = pd /\ ConnMsg(type, pd, st).state = st
  BY DEF PdMsg, ConnMsg

\* Messages of another kind claim nothing.
LEMMA NoClaim ==
  ASSUME NEW h
  PROVE  /\ Truthful(Unloaded, h) /\ Truthful(NLMSG_DONE, h) /\ Truthful(Nothing, h)
         /\ \A pd \in PeerDevices : Truthful(Listed(pd), h)
  BY Kinds DEF Truthful

-----------------------------------------------------------------------------
(* The socket *)

\* The socket has got one more message, or none, from a dump.
LEMMA RefillShape ==
  ASSUME NEW queue \in Seq(Messages), NEW parts \in Seq(Parts), KernelType, Refill(queue, parts)
  PROVE  \/ sock' = queue /\ dump' = parts
         \/ \E i \in 1 .. Len(parts) :
              /\ ~ Skipped(parts[i]) /\ \A j \in 1 .. i - 1 : Skipped(parts[j])
              /\ Sent(parts[i]) \in Messages
              /\ sock' \in Seq(Messages) /\ Len(sock') = Len(queue) + 1
              /\ \A k \in 1 .. Len(queue) : sock'[k] = queue[k]
              /\ sock'[Len(queue) + 1] = Sent(parts[i])
              /\ dump' \in Seq(Parts) /\ Len(dump') = Len(parts) - i
              /\ \A k \in 1 .. Len(parts) - i : dump'[k] = parts[i + k]
<1>1. CASE sock' = queue /\ dump' = parts
  BY <1>1
<1>2. CASE \E i \in DOMAIN parts :
             /\ ~ Skipped(parts[i]) /\ \A j \in 1 .. i - 1 : Skipped(parts[j])
             /\ sock' = Append(queue, Sent(parts[i]))
             /\ dump' = SubSeq(parts, i + 1, Len(parts))
  <2>1. Len(parts) \in Nat /\ DOMAIN parts = 1 .. Len(parts) /\ \A k \in 1 .. Len(parts) : parts[k] \in Parts
    BY LenProperties, ElementOfSeq
  <2>2. PICK i \in 1 .. Len(parts) :
             /\ ~ Skipped(parts[i]) /\ \A j \in 1 .. i - 1 : Skipped(parts[j])
             /\ sock' = Append(queue, Sent(parts[i]))
             /\ dump' = SubSeq(parts, i + 1, Len(parts))
    BY <1>2, <2>1
  <2> DEFINE p == parts[i]
  <2>3. Sent(p) \in Messages
    <3>1. p \in Parts /\ ~ Skipped(p)
      BY <2>1, <2>2
    <3> HIDE DEF p
    <3>2. CASE p.kind = "listed"
      <4>1. PICK pd \in PeerDevices : p = Listed(pd)
        BY <3>1, <3>2, Kinds
      <4>2. repl_state[pd] \in States
        BY <3>1, <4>1, Kinds DEF Skipped, KernelType
      <4>3. Sent(p) = PdMsg("listed", pd, repl_state[pd])
        BY <3>2, <4>1, Kinds DEF Sent
      <4> QED
        BY <4>2, <4>3, Composed
    <3>3. CASE p.kind # "listed"
      <4>1. Sent(p) = p
        BY <3>3 DEF Sent
      <4>2. p # Nothing
        BY <3>1 DEF Skipped
      <4> QED
        BY <3>1, <3>3, <4>1, <4>2, Kinds DEF Messages
    <3> QED
      BY <3>2, <3>3
  <2>4. /\ sock' \in Seq(Messages) /\ Len(sock') = Len(queue) + 1
        /\ \A k \in 1 .. Len(queue) : sock'[k] = queue[k]
        /\ sock'[Len(queue) + 1] = Sent(parts[i])
    BY <2>2, <2>3, AppendProperties
  <2>5. /\ dump' \in Seq(Parts)
        /\ Len(dump') = IF i + 1 <= Len(parts) THEN Len(parts) - (i + 1) + 1 ELSE 0
        /\ \A k \in 1 .. Len(parts) - (i + 1) + 1 : dump'[k] = parts[i + 1 + k - 1]
    <3>1. \A k \in i + 1 .. Len(parts) : parts[k] \in Parts
      BY <2>1
    <3> QED
      BY <2>1, <2>2, <3>1, SubSeqProperties
  <2>6. Len(dump') = Len(parts) - i /\ \A k \in 1 .. Len(parts) - i : dump'[k] = parts[i + k]
    <3> DEFINE n == Len(parts)
               l == Len(dump')
    <3>1. n \in Nat /\ i \in 1 .. n /\ l = (IF i + 1 <= n THEN n - (i + 1) + 1 ELSE 0)
      BY <2>1, <2>5
    <3>2. \A k \in 1 .. n - (i + 1) + 1 : dump'[k] = parts[i + 1 + k - 1]
      BY <2>5
    <3> HIDE DEF n, l
    <3>3. l = n - i
      BY <3>1
    <3>4. ASSUME NEW k \in 1 .. n - i PROVE dump'[k] = parts[i + k]
      <4>1. k \in 1 .. n - (i + 1) + 1 /\ i + 1 + k - 1 = i + k
        BY <3>1
      <4> QED
        BY <3>2, <4>1
    <3> QED
      BY <3>3, <3>4 DEF n, l
  <2> QED
    BY <2>2, <2>3, <2>4, <2>5, <2>6
<1> QED
  BY <1>1, <1>2 DEF Refill

\* What a dump sends is true.
LEMMA SentTruthful ==
  ASSUME TypeOK, KernelInv, NEW p \in Parts, Truthful(p, History), ~ Skipped(p)
  PROVE  Truthful(Sent(p), History)
<1>1. CASE p.kind = "listed"
  <2>1. PICK pd \in PeerDevices : p = Listed(pd)
    BY <1>1, Kinds
  <2>2. Sent(p) = PdMsg("listed", pd, repl_state[pd])
    BY <1>1, <2>1, Kinds DEF Sent
  <2> QED
    BY <2>2, Fields DEF Truthful, KernelInv, History, Ready
<1>2. CASE p.kind # "listed"
  BY <1>2 DEF Sent
<1> QED
  BY <1>1, <1>2

\* The socket and the rest of a dump stay truthful, and the dump ends with its
\* last part.
LEMMA RefillKeeps ==
  ASSUME TypeOK, KernelInv, NEW queue \in Seq(Messages), NEW parts \in Seq(Parts), Refill(queue, parts),
         \A i \in 1 .. Len(queue) : Truthful(queue[i], History),
         \A i \in 1 .. Len(parts) : Truthful(parts[i], History) /\ (parts[i] = NLMSG_DONE <=> i = Len(parts)),
         UNCHANGED History
  PROVE  sock' \in Seq(Messages) /\ dump' \in Seq(Parts) /\ MessagesInv' /\ DumpInv'
<1> DEFINE h == History
<1>1. h' = h
  OBVIOUS
<1>2. /\ Len(queue) \in Nat /\ DOMAIN queue = 1 .. Len(queue)
      /\ Len(parts) \in Nat /\ DOMAIN parts = 1 .. Len(parts) /\ \A i \in 1 .. Len(parts) : parts[i] \in Parts
  BY LenProperties, ElementOfSeq
<1>3. CASE sock' = queue /\ dump' = parts
  BY <1>1, <1>2, <1>3 DEF MessagesInv, DumpInv
<1>4. CASE ~ (sock' = queue /\ dump' = parts)
  <2>1. PICK i \in 1 .. Len(parts) :
              /\ ~ Skipped(parts[i]) /\ \A j \in 1 .. i - 1 : Skipped(parts[j])
              /\ Sent(parts[i]) \in Messages
              /\ sock' \in Seq(Messages) /\ Len(sock') = Len(queue) + 1
              /\ \A k \in 1 .. Len(queue) : sock'[k] = queue[k]
              /\ sock'[Len(queue) + 1] = Sent(parts[i])
              /\ dump' \in Seq(Parts) /\ Len(dump') = Len(parts) - i
              /\ \A k \in 1 .. Len(parts) - i : dump'[k] = parts[i + k]
    BY <1>4, RefillShape DEF TypeOK
  <2> DEFINE n == Len(parts)
             l == Len(queue)
  <2>2. DOMAIN sock' = 1 .. l + 1 /\ DOMAIN dump' = 1 .. n - i
    <3>1. DOMAIN sock' = 1 .. Len(sock') /\ DOMAIN dump' = 1 .. Len(dump')
      BY <2>1, LenProperties
    <3> QED
      BY <2>1, <3>1
  <2>3. Truthful(Sent(parts[i]), h)
    BY <1>2, <2>1, SentTruthful
  <2>4. ASSUME NEW k \in DOMAIN sock' PROVE Truthful(sock'[k], h)
    <3>1. k \in 1 .. l \/ k = l + 1
      <4> HIDE DEF l
      <4>1. l \in Nat
        BY <1>2 DEF l
      <4> QED
        BY <4>1, <2>2
    <3> QED
      BY <2>1, <2>3, <3>1
  <2>5. ASSUME NEW k \in DOMAIN dump' PROVE Truthful(dump'[k], h) /\ (dump'[k] = NLMSG_DONE <=> k = n - i)
    <3>1. n \in Nat /\ k \in 1 .. n - i /\ dump'[k] = parts[i + k] /\ i \in 1 .. n
      BY <1>2, <2>1, <2>2
    <3>2. i + k \in 1 .. n /\ (i + k = n <=> k = n - i)
      <4> HIDE DEF n
      <4> QED
        BY <3>1
    <3> QED
      BY <3>1, <3>2
  <2>6. MessagesInv'
    BY <1>1, <2>4, <2>5 DEF MessagesInv
  <2>7. DumpInv'
    BY <2>1, <2>5 DEF DumpInv
  <2> QED
    BY <2>1, <2>6, <2>7
<1> QED
  BY <1>3, <1>4

\* A notification is added at the end of the queue, or a part of it, or nothing.
LEMMA NotifyShape ==
  ASSUME NEW msgs \in Seq(Messages), SocketType, Notify(msgs)
  PROVE  /\ sock' \in Seq(Messages) /\ Len(sock') >= Len(sock) /\ overrun' \in BOOLEAN
         /\ \A i \in 1 .. Len(sock) : sock'[i] = sock[i]
         /\ \A i \in Len(sock) + 1 .. Len(sock') : \E j \in 1 .. Len(msgs) : sock'[i] = msgs[j]
<1> DEFINE n == Len(msgs)
           l == Len(sock)
           fits == IF n <= RcvBuf - l THEN n ELSE RcvBuf - l
           part == SubSeq(msgs, 1, fits)
<1>1. /\ n \in Nat /\ l \in Nat /\ RcvBuf \in Nat /\ sock \in Seq(Messages)
      /\ \A j \in 1 .. n : msgs[j] \in Messages
  BY LenProperties, ElementOfSeq, WaitAssumption DEF SocketType
<1>2. sock' = sock \o part /\ overrun' \in BOOLEAN
  BY DEF Notify, SocketType
<1>3. fits \in Int /\ fits <= n
  <2> HIDE DEF n, l
  <2> QED
    BY <1>1
<1> HIDE DEF fits
<1>4. /\ part \in Seq(Messages) /\ Len(part) = (IF 1 <= fits THEN fits - 1 + 1 ELSE 0)
      /\ \A j \in 1 .. fits - 1 + 1 : part[j] = msgs[1 + j - 1]
  <2>1. \A j \in 1 .. fits : msgs[j] \in Messages
    <3> HIDE DEF n
    <3> QED
      BY <1>1, <1>3
  <2> QED
    BY <1>3, <2>1, SubSeqProperties
<1> DEFINE k == Len(part)
<1>5. k \in Nat /\ k <= n /\ \A j \in 1 .. k : part[j] = msgs[j]
  <2> HIDE DEF part, n
  <2> QED
    BY <1>1, <1>3, <1>4
<1> HIDE DEF part
<1>6. /\ sock' \in Seq(Messages) /\ Len(sock') = l + k
      /\ \A i \in 1 .. l + k : sock'[i] = IF i <= l THEN sock[i] ELSE part[i - l]
  BY <1>1, <1>2, <1>4, ConcatProperties
<1> HIDE DEF k
<1>7. \A i \in 1 .. l : sock'[i] = sock[i]
  <2> SUFFICES ASSUME NEW i \in 1 .. l PROVE sock'[i] = sock[i]
    OBVIOUS
  <2>1. i \in 1 .. l + k /\ i <= l
    <3> HIDE DEF l
    <3> QED
      BY <1>1, <1>5
  <2> QED
    BY <1>6, <2>1
<1>8. ASSUME NEW i \in l + 1 .. l + k PROVE \E j \in 1 .. n : sock'[i] = msgs[j]
  <2>1. i \in 1 .. l + k /\ ~ (i <= l) /\ i - l \in 1 .. k /\ i - l \in 1 .. n
    <3> HIDE DEF l, n
    <3> QED
      BY <1>1, <1>5
  <2> QED
    BY <1>5, <1>6, <2>1
<1>9. Len(sock') >= l
  <2> HIDE DEF l
  <2> QED
    BY <1>1, <1>5, <1>6
<1> QED
  BY <1>2, <1>6, <1>7, <1>8, <1>9

\* What has been so stays so.
LEMMA StaysTruthful ==
  ASSUME NEW m, NEW h, NEW g, Truthful(m, h),
         h.connect = g.connect, h.up \subseteq g.up, h.gone \subseteq g.gone, h.alone \subseteq g.alone
  PROVE  Truthful(m, g)
  BY DEF Truthful

\* What happens in the kernel module keeps the invariant, if what it tells of
\* has been recorded.
LEMMA HappensKeeps ==
  ASSUME IInv, Happens, KernelType', KernelInv',
         sock' \in Seq(Messages), overrun' \in BOOLEAN, Len(sock') >= Len(sock),
         \A i \in 1 .. Len(sock) : sock'[i] = sock[i],
         \A i \in Len(sock) + 1 .. Len(sock') : sock'[i] # NLMSG_DONE /\ Truthful(sock'[i], History'),
         was_up \subseteq was_up', was_gone \subseteq was_gone', was_standalone \subseteq was_standalone', hup => hup'
  PROVE  IInv'
<1> DEFINE l == Len(sock)
           n == Len(sock')
<1>1. /\ pc \notin {"end", "undefined"}
      /\ UNCHANGED <<dump, cmd, ctx, timeout_type, pc, peer_devices, clock, before, counted, rv>>
  BY DEF Happens, command_vars, time_vars
<1>2. l \in Nat /\ DOMAIN sock = 1 .. l /\ n \in Nat /\ DOMAIN sock' = 1 .. n /\ n >= l
  BY LenProperties DEF IInv, TypeOK, SocketType
<1>3. \A i \in 1 .. n : i \in 1 .. l \/ i \in l + 1 .. n
  <2> HIDE DEF l, n
  <2> QED
    BY <1>2
<1>4. TypeOK'
  BY <1>1 DEF IInv, TypeOK, SocketType, CommandType, TimeType
<1>5. MessagesInv'
  <2> DEFINE h == History
             g == History'
  <2>1. h.connect = g.connect /\ h.up \subseteq g.up /\ h.gone \subseteq g.gone /\ h.alone \subseteq g.alone
    BY <1>1 DEF History
  <2>2. MessagesInv
    BY DEF IInv
  <2>3. \A i \in DOMAIN sock : Truthful(sock[i], h)
    BY <2>2 DEF MessagesInv
  <2>4. \A i \in DOMAIN dump : Truthful(dump[i], h)
    BY <2>2 DEF MessagesInv
  <2> HIDE DEF h, g
  <2>5. \A i \in DOMAIN dump : Truthful(dump[i], g)
    BY <2>1, <2>4, StaysTruthful
  <2>6. \A i \in DOMAIN sock : Truthful(sock[i], g)
    BY <2>1, <2>3, StaysTruthful
  <2>7. \A i \in DOMAIN sock' : Truthful(sock'[i], g)
    <3> SUFFICES ASSUME NEW i \in DOMAIN sock' PROVE Truthful(sock'[i], g)
      OBVIOUS
    <3>1. CASE i \in 1 .. l
      BY <1>2, <2>6, <3>1
    <3>2. CASE i \in l + 1 .. n
      BY <3>2 DEF g
    <3> QED
      BY <1>2, <1>3, <3>1, <3>2
  <2> QED
    BY <1>1, <2>5, <2>7 DEF MessagesInv, g
<1>6. DumpInv' /\ TimeInv'
  BY <1>1 DEF IInv, DumpInv, TimeInv, Started, Fair
<1>7. EntriesInv'
  BY <1>1 DEF IInv, EntriesInv, Ready
<1>8. ListInv'
  <2>1. ASSUME NEW pd \in PeerDevices, Announced(peer_devices, sock, dump, pd)
        PROVE  Announced(peer_devices, sock', dump, pd)
    <3>1. ASSUME NEW k \in Nat, Received(sock, pd, k) PROVE Received(sock', pd, k)
      <4>1. PICK i \in 1 .. k : i \in DOMAIN sock /\ sock[i].kind = "peer_device" /\ sock[i].pd = pd
        BY <3>1 DEF Received
      <4>2. i \in DOMAIN sock' /\ sock'[i] = sock[i]
        <5>1. i \in 1 .. l /\ i \in 1 .. n
          <6> HIDE DEF l, n
          <6> QED
            BY <1>2, <4>1
        <5> QED
          BY <1>2, <5>1
      <4> QED
        BY <4>1, <4>2 DEF Received
    <3>2. Received(sock, pd, l) => Received(sock', pd, n)
      <4>1. Received(sock, pd, l) => Received(sock, pd, n)
        <5> HIDE DEF l, n
        <5> QED
          BY <1>2 DEF Received
      <4> QED
        BY <1>2, <3>1, <4>1
    <3>3. ASSUME NEW d \in DOMAIN sock', sock'[d] = NLMSG_DONE
          PROVE  Remembered(peer_devices, pd) \/ Received(sock', pd, d - 1)
      <4>1. d \in 1 .. l
        BY <1>2, <1>3, <3>3
      <4>2. d \in DOMAIN sock /\ sock[d] = NLMSG_DONE
        BY <1>2, <3>3, <4>1
      <4>3. d - 1 \in Nat
        <5> HIDE DEF l, n
        <5> QED
          BY <1>2, <4>1
      <4> QED
        BY <2>1, <3>1, <4>2, <4>3 DEF Announced
    <3> QED
      BY <2>1, <3>2, <3>3 DEF Announced
  <2>2. ASSUME pc = "start" PROVE peer_devices = <<>> /\ \A d \in DOMAIN sock' : sock'[d] # NLMSG_DONE
    <3>1. peer_devices = <<>> /\ \A d \in DOMAIN sock : sock[d] # NLMSG_DONE
      BY <2>2 DEF IInv, ListInv
    <3> QED
      BY <1>2, <1>3, <3>1
  <2> QED
    BY <1>1, <2>1, <2>2 DEF IInv, ListInv
<1>9. TimeoutNotEarly' /\ HonestSuccess'
  BY <1>1 DEF TimeoutNotEarly, HonestSuccess
<1> QED
  BY <1>4, <1>5, <1>6, <1>7, <1>8, <1>9 DEF IInv

-----------------------------------------------------------------------------
(* The kernel module *)

\* A change and its notifications.
LEMMA NotifiedKeeps ==
  ASSUME IInv, Happens, KernelType', KernelInv', NEW msgs \in Seq(Messages), Notify(msgs),
         \A j \in 1 .. Len(msgs) : msgs[j] # NLMSG_DONE /\ Truthful(msgs[j], History'),
         was_up \subseteq was_up', was_gone \subseteq was_gone', was_standalone \subseteq was_standalone', hup => hup'
  PROVE  IInv'
<1>1. /\ sock' \in Seq(Messages) /\ Len(sock') >= Len(sock) /\ overrun' \in BOOLEAN
      /\ \A i \in 1 .. Len(sock) : sock'[i] = sock[i]
      /\ \A i \in Len(sock) + 1 .. Len(sock') : \E j \in 1 .. Len(msgs) : sock'[i] = msgs[j]
  BY NotifyShape DEF IInv, TypeOK
<1>2. \A i \in Len(sock) + 1 .. Len(sock') : sock'[i] # NLMSG_DONE /\ Truthful(sock'[i], History')
  BY <1>1
<1> QED
  BY <1>1, <1>2, HappensKeeps

\* One message, or two.
LEMMA FewMessages ==
  ASSUME NEW a \in Messages, NEW b \in Messages
  PROVE  /\ <<a>> \in Seq(Messages) /\ Len(<<a>>) = 1 /\ <<a>>[1] = a
         /\ <<a>> \o <<b>> = <<a, b>> /\ <<a, b>> \in Seq(Messages)
         /\ Len(<<a, b>>) = 2 /\ <<a, b>>[1] = a /\ <<a, b>>[2] = b
         /\ <<>> \o <<b>> = <<b>> /\ <<a>> \o <<>> = <<a>>
<1>1. <<a>> \in Seq(Messages) /\ Len(<<a>>) = 1 /\ <<a>>[1] = a /\ <<b>> \in Seq(Messages)
  OBVIOUS
<1>2. <<a, b>> \in Seq(Messages) /\ Len(<<a, b>>) = 2 /\ <<a, b>>[1] = a /\ <<a, b>>[2] = b
  OBVIOUS
<1>3. <<>> \o <<b>> = <<b>> /\ <<a>> \o <<>> = <<a>>
  BY <1>1, ConcatEmptySeq
<1>4. <<a>> \o <<b>> = Append(<<a>>, b)
  BY <1>1, AppendIsConcat
<1>5. Append(<<a>>, b) = <<a, b>>
  <2> DEFINE s == Append(<<a>>, b)
             u == <<a, b>>
  <2>1. s \in Seq(Messages) /\ Len(s) = 2 /\ s[1] = a /\ s[2] = b
    BY <1>1, AppendProperties
  <2>2. u \in Seq(Messages) /\ Len(u) = 2 /\ u[1] = a /\ u[2] = b
    BY <1>2
  <2> HIDE DEF s, u
  <2>3. \A i \in 1 .. Len(s) : s[i] = u[i]
    BY <2>1, <2>2
  <2>4. s = u
    BY <2>1, <2>2, <2>3, SeqEqual
  <2> QED
    BY <2>4 DEF s, u
<1> QED
  BY <1>1, <1>2, <1>3, <1>4, <1>5

\* Every change of the kernel module is recorded and told truthfully.
LEMMA KernelStep ==
  ASSUME IInv, NEW pd \in PeerDevices,
         \/ \E rs \in {Off, L_ESTABLISHED, Resync} : KernelChange(pd, rs)
         \/ KernelCreate(pd) \/ KernelDestroy(pd)
         \/ KernelStandAlone(Connection(pd)) \/ KernelConnects(Connection(pd))
  PROVE  IInv'
<1> DEFINE c == Connection(pd)
<1>1. KernelType /\ KernelInv /\ c \in Connections /\ repl_state \in [PeerDevices -> States \union {Gone}]
  BY DEF IInv, TypeOK, KernelType, Connections
<1>2. cmd' = cmd /\ changes' \in 0 .. MaxChanges /\ Happens
  BY <1>1, WaitAssumption DEF KernelChange, KernelCreate, KernelDestroy, KernelStandAlone, KernelConnects, Happens, KernelType, command_vars
<1>3. \A m \in PdMsgs \union ConnMsgs : m # NLMSG_DONE
  BY Kinds
<1>4. ~ Ready(Off) /\ ~ Ready(Gone) /\ Off \in States /\ Off # Gone
  BY DEF Ready, Off, Gone, L_ESTABLISHED, States
<1>5. ASSUME NEW rs \in {Off, L_ESTABLISHED, Resync}, KernelChange(pd, rs) PROVE IInv'
  <2> DEFINE m == PdMsg("change", pd, rs)
  <2>1. m \in Messages /\ m # NLMSG_DONE
    BY <1>3, Composed DEF States
  <2>2. /\ repl_state' = [repl_state EXCEPT ![pd] = rs] /\ Notify(<<m>>)
        /\ was_up' = (IF Ready(rs) THEN was_up \union {pd} ELSE was_up)
        /\ UNCHANGED <<hup, standalone, was_gone, was_standalone>>
    BY <1>5 DEF KernelChange
  <2>3. KernelType'
    BY <1>1, <1>2, <2>2 DEF KernelType, States
  <2>4. KernelInv'
    BY <1>1, <1>2, <2>2 DEF KernelInv, Ready, States, Gone, Off, L_ESTABLISHED, Resync
  <2>5. Truthful(m, History')
    BY <1>2, <2>2, Fields DEF Truthful, History, Ready
  <2> HIDE DEF m
  <2>6. \A j \in 1 .. Len(<<m>>) : <<m>>[j] # NLMSG_DONE /\ Truthful(<<m>>[j], History')
    BY <2>1, <2>5, FewMessages
  <2> QED
    BY <1>2, <2>1, <2>2, <2>3, <2>4, <2>6, FewMessages, NotifiedKeeps
<1>6. CASE KernelStandAlone(c)
  <2> DEFINE m == ConnMsg("change", c, "StandAlone")
  <2>1. m \in Messages /\ m # NLMSG_DONE
    BY <1>1, <1>3, Composed
  <2>2. /\ standalone' = standalone \union {c} /\ Notify(<<m>>)
        /\ was_standalone' = was_standalone \union {c}
        /\ UNCHANGED <<hup, repl_state, was_up, was_gone>>
    BY <1>6 DEF KernelStandAlone
  <2>3. KernelType'
    BY <1>1, <1>2, <2>2 DEF KernelType
  <2>4. KernelInv'
    BY <1>1, <1>2, <2>2 DEF KernelInv, Ready
  <2>5. Truthful(m, History')
    BY <2>2, Fields DEF Truthful, History
  <2> HIDE DEF m, c
  <2>6. \A j \in 1 .. Len(<<m>>) : <<m>>[j] # NLMSG_DONE /\ Truthful(<<m>>[j], History')
    BY <2>1, <2>5, FewMessages
  <2> QED
    BY <1>2, <2>1, <2>2, <2>3, <2>4, <2>6, FewMessages, NotifiedKeeps
<1>7. CASE KernelConnects(c)
  <2> DEFINE m == ConnMsg("change", c, "Unconnected")
  <2>1. m \in Messages /\ m # NLMSG_DONE
    BY <1>1, <1>3, Composed
  <2>2. /\ standalone' = standalone \ {c} /\ Notify(<<m>>)
        /\ UNCHANGED <<hup, repl_state, was_up, was_gone, was_standalone>>
    BY <1>7 DEF KernelConnects
  <2>3. KernelType'
    BY <1>1, <1>2, <2>2 DEF KernelType
  <2>4. KernelInv'
    BY <1>1, <1>2, <2>2 DEF KernelInv, Ready
  <2>5. Truthful(m, History')
    BY <2>2, Fields DEF Truthful, History
  <2> HIDE DEF m, c
  <2>6. \A j \in 1 .. Len(<<m>>) : <<m>>[j] # NLMSG_DONE /\ Truthful(<<m>>[j], History')
    BY <2>1, <2>5, FewMessages
  <2> QED
    BY <1>2, <2>1, <2>2, <2>3, <2>4, <2>6, FewMessages, NotifiedKeeps
<1>8. CASE KernelCreate(pd)
  <2> DEFINE m == PdMsg("create", pd, Off)
             p == ConnMsg("create", c, "StandAlone")
             new == Others(c) = {}
  <2>1. m \in Messages /\ m # NLMSG_DONE /\ p \in Messages /\ p # NLMSG_DONE
    BY <1>1, <1>3, <1>4, Composed
  <2>2. /\ repl_state' = [repl_state EXCEPT ![pd] = Off]
        /\ standalone' = (IF new THEN standalone \union {c} ELSE standalone)
        /\ was_standalone' = (IF new THEN was_standalone \union {c} ELSE was_standalone)
        /\ Notify((IF new THEN <<p>> ELSE <<>>) \o <<m>>)
        /\ UNCHANGED <<hup, was_up, was_gone>>
    BY <1>8 DEF KernelCreate
  <2> HIDE DEF new
  <2>3. KernelType'
    BY <1>1, <1>2, <1>4, <2>2 DEF KernelType
  <2>4. KernelInv'
    <3>1. ~ Ready(Off)'
      BY <1>2, <1>4 DEF Ready
    <3> QED
      BY <1>1, <1>2, <1>4, <2>2, <3>1 DEF KernelInv, Ready
  <2>5. Truthful(m, History') /\ Truthful(p, History')
    BY <1>2, <1>4, <2>2, Fields DEF Truthful, History, Ready
  <2> HIDE DEF m, c, p
  <2>6. CASE new
    <3>1. Notify(<<p, m>>)
      BY <2>1, <2>2, <2>6, FewMessages
    <3>2. \A j \in 1 .. Len(<<p, m>>) : <<p, m>>[j] # NLMSG_DONE /\ Truthful(<<p, m>>[j], History')
      BY <2>1, <2>5, FewMessages
    <3> QED
      BY <1>2, <2>1, <2>2, <2>3, <2>4, <3>1, <3>2, FewMessages, NotifiedKeeps
  <2>7. CASE ~ new
    <3>1. Notify(<<m>>)
      BY <2>1, <2>2, <2>7, FewMessages
    <3>2. \A j \in 1 .. Len(<<m>>) : <<m>>[j] # NLMSG_DONE /\ Truthful(<<m>>[j], History')
      BY <2>1, <2>5, FewMessages
    <3> QED
      BY <1>2, <2>1, <2>2, <2>3, <2>4, <3>1, <3>2, FewMessages, NotifiedKeeps
  <2> QED
    BY <2>6, <2>7
<1>9. CASE KernelDestroy(pd)
  <2> DEFINE m == PdMsg("destroy", pd, Off)
             p == ConnMsg("destroy", c, "StandAlone")
             last == Others(c) = {pd}
  <2>1. m \in Messages /\ m # NLMSG_DONE /\ p \in Messages /\ p # NLMSG_DONE
    BY <1>1, <1>3, <1>4, Composed
  <2>2. /\ repl_state' = [repl_state EXCEPT ![pd] = Gone]
        /\ standalone' = (IF last THEN standalone \ {c} ELSE standalone)
        /\ was_gone' = was_gone \union {pd}
        /\ Notify(<<m>> \o (IF last THEN <<p>> ELSE <<>>))
        /\ UNCHANGED <<hup, was_up, was_standalone>>
    BY <1>9 DEF KernelDestroy
  <2> HIDE DEF last
  <2>3. KernelType'
    BY <1>1, <1>2, <2>2 DEF KernelType
  <2>4. KernelInv'
    <3>1. ~ Ready(Gone)'
      BY <1>2, <1>4 DEF Ready
    <3> QED
      BY <1>1, <1>2, <2>2, <3>1 DEF KernelInv, Ready
  <2>5. Truthful(m, History') /\ Truthful(p, History')
    BY <1>2, <1>4, <2>2, Fields DEF Truthful, History, Ready
  <2> HIDE DEF m, c, p
  <2>6. CASE last
    <3>1. Notify(<<m, p>>)
      BY <2>1, <2>2, <2>6, FewMessages
    <3>2. \A j \in 1 .. Len(<<m, p>>) : <<m, p>>[j] # NLMSG_DONE /\ Truthful(<<m, p>>[j], History')
      BY <2>1, <2>5, FewMessages
    <3> QED
      BY <1>2, <2>1, <2>2, <2>3, <2>4, <3>1, <3>2, FewMessages, NotifiedKeeps
  <2>7. CASE ~ last
    <3>1. Notify(<<m>>)
      BY <2>1, <2>2, <2>7, FewMessages
    <3>2. \A j \in 1 .. Len(<<m>>) : <<m>>[j] # NLMSG_DONE /\ Truthful(<<m>>[j], History')
      BY <2>1, <2>5, FewMessages
    <3> QED
      BY <1>2, <2>1, <2>2, <2>3, <2>4, <3>1, <3>2, FewMessages, NotifiedKeeps
  <2> QED
    BY <2>6, <2>7
<1> QED
  BY <1>5, <1>6, <1>7, <1>8, <1>9

\* What else can happen meanwhile.
LEMMA OutsideStep ==
  ASSUME IInv, Hangup \/ ModuleUnload \/ \E pd \in OtherDevices : OtherResource(pd)
  PROVE  IInv'
<1>1. KernelType /\ KernelInv /\ Happens /\ SocketType
  BY DEF IInv, TypeOK, Hangup, ModuleUnload, OtherResource
<1>2. cmd' = cmd /\ changes' \in 0 .. MaxChanges
  BY <1>1, WaitAssumption DEF Happens, KernelType, command_vars
<1>3. hup' \in BOOLEAN /\ (hup => hup') /\ UNCHANGED <<repl_state, standalone, was_up, was_gone, was_standalone>>
  BY <1>1 DEF Hangup, ModuleUnload, OtherResource, KernelType
<1>4. KernelType' /\ KernelInv'
  BY <1>1, <1>2, <1>3 DEF KernelType, KernelInv, Ready
<1>5. CASE Hangup
  <2>1. UNCHANGED <<sock, overrun>>
    BY <1>5 DEF Hangup
  <2> DEFINE l == Len(sock)
  <2>2. l \in Nat /\ sock \in Seq(Messages) /\ overrun \in BOOLEAN
    BY <1>1, LenProperties DEF SocketType
  <2>3. l >= l /\ \A i \in l + 1 .. l : FALSE
    <3> HIDE DEF l
    <3> QED
      BY <2>2
  <2> QED
    BY <1>1, <1>3, <1>4, <2>1, <2>2, <2>3, HappensKeeps
<1>6. CASE ModuleUnload
  <2>1. Notify(<<Unloaded>>) /\ Unloaded \in Messages
    BY <1>6, Composed DEF ModuleUnload
  <2>2. Unloaded # NLMSG_DONE /\ Truthful(Unloaded, History')
    BY Kinds, NoClaim
  <2>3. \A j \in 1 .. Len(<<Unloaded>>) : <<Unloaded>>[j] # NLMSG_DONE /\ Truthful(<<Unloaded>>[j], History')
    BY <2>1, <2>2, FewMessages
  <2> QED
    BY <1>1, <1>3, <1>4, <2>1, <2>3, FewMessages, NotifiedKeeps
<1>7. ASSUME NEW pd \in OtherDevices, OtherResource(pd) PROVE IInv'
  <2> DEFINE m == PdMsg("change", pd, Off)
  <2>1. Notify(<<m>>) /\ m \in Messages
    BY <1>7, Composed DEF OtherResource, States
  <2>2. m # NLMSG_DONE /\ Truthful(m, History')
    BY Kinds, Fields DEF Truthful, Off, L_ESTABLISHED
  <2> HIDE DEF m
  <2>3. \A j \in 1 .. Len(<<m>>) : <<m>>[j] # NLMSG_DONE /\ Truthful(<<m>>[j], History')
    BY <2>1, <2>2, FewMessages
  <2> QED
    BY <1>1, <1>3, <1>4, <2>1, <2>3, FewMessages, NotifiedKeeps
<1> QED
  BY <1>5, <1>6, <1>7

-----------------------------------------------------------------------------
(* The dumps *)

\* A dump is its parts and the message that ends it.
LEMMA EndedDump ==
  ASSUME NEW f \in Seq(Parts), NEW h, \A i \in 1 .. Len(f) : f[i] # NLMSG_DONE /\ Truthful(f[i], h)
  PROVE  LET d == f \o <<NLMSG_DONE>>
         IN  /\ d \in Seq(Parts) /\ Len(d) = Len(f) + 1
             /\ \A i \in 1 .. Len(f) : d[i] = f[i]
             /\ \A i \in 1 .. Len(d) : Truthful(d[i], h) /\ (d[i] = NLMSG_DONE <=> i = Len(d))
<1> DEFINE d == Append(f, NLMSG_DONE)
           n == Len(f)
<1>1. NLMSG_DONE \in Parts /\ Truthful(NLMSG_DONE, h)
  BY Composed, NoClaim
<1>2. f \o <<NLMSG_DONE>> = d
  BY <1>1, AppendIsConcat
<1>3. d \in Seq(Parts) /\ Len(d) = n + 1 /\ (\A i \in 1 .. n : d[i] = f[i]) /\ d[n + 1] = NLMSG_DONE /\ n \in Nat
  BY <1>1, AppendProperties, LenProperties
<1>4. ASSUME NEW i \in 1 .. n + 1 PROVE Truthful(d[i], h) /\ (d[i] = NLMSG_DONE <=> i = n + 1)
  <2>1. (i \in 1 .. n /\ i # n + 1) \/ i = n + 1
    <3> HIDE DEF n
    <3> QED
      BY <1>3
  <2> QED
    BY <1>1, <1>3, <2>1
<1> HIDE DEF d
<1> QED
  BY <1>2, <1>3, <1>4

\* The list of the peer devices names all of them.
LEMMA ListParts ==
  ASSUME NEW h
  PROVE  /\ PeerDeviceList \in Seq(Parts)
         /\ \A i \in 1 .. Len(PeerDeviceList) : Truthful(PeerDeviceList[i], h) /\ (PeerDeviceList[i] = NLMSG_DONE <=> i = Len(PeerDeviceList))
         /\ \A pd \in PeerDevices : ToCome(PeerDeviceList, pd)
<1> DEFINE n == Len(DeviceList)
           f == [i \in 1 .. n |-> Listed(DeviceList[i])]
<1>1. n \in Nat /\ DOMAIN DeviceList = 1 .. n /\ \A i \in 1 .. n : DeviceList[i] \in PeerDevices
  BY WaitAssumption, LenProperties DEF PeerDevices, ToSet
<1>2. \A i \in 1 .. n : Listed(DeviceList[i]) \in Parts
  BY <1>1, Composed
<1> HIDE DEF n
<1>3. f \in Seq(Parts) /\ Len(f) = n /\ \A i \in 1 .. n : f[i] = Listed(DeviceList[i])
  BY <1>1, <1>2
<1>4. \A i \in 1 .. Len(f) : f[i] # NLMSG_DONE /\ Truthful(f[i], h)
  BY <1>1, <1>3, Kinds, NoClaim
<1>5. PeerDeviceList = f \o <<NLMSG_DONE>>
  BY DEF PeerDeviceList, n
<1> HIDE DEF f
<1> DEFINE d == f \o <<NLMSG_DONE>>
<1>6. /\ d \in Seq(Parts) /\ Len(d) = Len(f) + 1 /\ \A i \in 1 .. Len(f) : d[i] = f[i]
      /\ \A i \in 1 .. Len(d) : Truthful(d[i], h) /\ (d[i] = NLMSG_DONE <=> i = Len(d))
  BY <1>3, <1>4, EndedDump
<1> HIDE DEF d
<1>7. ASSUME NEW pd \in PeerDevices PROVE ToCome(d, pd)
  <2>1. PICK i \in 1 .. n : DeviceList[i] = pd
    BY <1>1 DEF PeerDevices, ToSet
  <2>2. d[i] = Listed(pd) /\ i \in 1 .. n + 1
    BY <1>1, <1>3, <1>6, <2>1
  <2>3. DOMAIN d = 1 .. n + 1
    BY <1>3, <1>6, LenProperties
  <2> QED
    BY <2>2, <2>3 DEF ToCome
<1>8. PeerDeviceList = d
  BY <1>5 DEF d
<1> QED
  BY <1>6, <1>7, <1>8

\* The initial state is true when it is requested.
LEMMA InitialParts ==
  ASSUME TypeOK, KernelInv
  PROVE  /\ InitialState \in Seq(Parts)
         /\ \A i \in 1 .. Len(InitialState) : Truthful(InitialState[i], History) /\ (InitialState[i] = NLMSG_DONE <=> i = Len(InitialState))
<1> DEFINE conn(c) == IF Others(c) = {} THEN Nothing
                      ELSE ConnMsg("exists", c, IF c \in standalone THEN "StandAlone" ELSE "Unconnected")
           dev(pd) == IF repl_state[pd] = Gone THEN Nothing ELSE PdMsg("exists", pd, repl_state[pd])
           n == Len(ConnectionList)
           k == Len(DeviceList)
           f == [i \in 1 .. n |-> conn(ConnectionList[i])]
           g == [i \in 1 .. k |-> dev(DeviceList[i])]
           h == History
<1>1. /\ n \in Nat /\ \A i \in 1 .. n : ConnectionList[i] \in Connections
      /\ k \in Nat /\ \A i \in 1 .. k : DeviceList[i] \in PeerDevices
  <2>1. n \in Nat /\ DOMAIN ConnectionList = 1 .. n /\ k \in Nat /\ DOMAIN DeviceList = 1 .. k
    BY WaitAssumption, LenProperties
  <2> QED
    BY <2>1, WaitAssumption DEF PeerDevices, ToSet
<1>2. ASSUME NEW c \in Connections PROVE conn(c) \in Parts /\ conn(c) # NLMSG_DONE /\ Truthful(conn(c), h)
  <2>1. CASE Others(c) = {}
    BY <2>1, Composed, Kinds, NoClaim
  <2>2. CASE Others(c) # {}
    <3> DEFINE cs == IF c \in standalone THEN "StandAlone" ELSE "Unconnected"
    <3>1. cs \in {"StandAlone", "Unconnected"} /\ (cs = "StandAlone" => c \in was_standalone)
      BY DEF KernelInv
    <3>2. conn(c) = ConnMsg("exists", c, cs)
      BY <2>2
    <3> HIDE DEF cs, conn
    <3>3. ConnMsg("exists", c, cs) \in Parts /\ ConnMsg("exists", c, cs) # NLMSG_DONE
      BY <3>1, Composed, Kinds
    <3>4. Truthful(ConnMsg("exists", c, cs), h)
      BY <3>1, Fields DEF Truthful, History
    <3> QED
      BY <3>2, <3>3, <3>4
  <2> QED
    BY <2>1, <2>2
<1>3. ASSUME NEW pd \in PeerDevices PROVE dev(pd) \in Parts /\ dev(pd) # NLMSG_DONE /\ Truthful(dev(pd), h)
  <2>1. CASE repl_state[pd] = Gone
    BY <2>1, Composed, Kinds, NoClaim
  <2>2. CASE repl_state[pd] # Gone
    <3>1. repl_state[pd] \in States
      BY <2>2 DEF TypeOK, KernelType
    <3>2. dev(pd) = PdMsg("exists", pd, repl_state[pd])
      BY <2>2
    <3> HIDE DEF dev
    <3>3. PdMsg("exists", pd, repl_state[pd]) \in Parts /\ PdMsg("exists", pd, repl_state[pd]) # NLMSG_DONE
      BY <3>1, Composed, Kinds
    <3>4. Truthful(PdMsg("exists", pd, repl_state[pd]), h)
      BY Fields DEF Truthful, History, KernelInv, Ready
    <3> QED
      BY <3>2, <3>3, <3>4
  <2> QED
    BY <2>1, <2>2
<1>4. InitialState = (f \o g) \o <<NLMSG_DONE>>
  BY DEF InitialState
<1> HIDE DEF n, k, conn, dev, h
<1>5. f \in Seq(Parts) /\ Len(f) = n /\ \A i \in 1 .. n : f[i] # NLMSG_DONE /\ Truthful(f[i], h)
  BY <1>1, <1>2
<1>6. g \in Seq(Parts) /\ Len(g) = k /\ \A i \in 1 .. k : g[i] # NLMSG_DONE /\ Truthful(g[i], h)
  BY <1>1, <1>3
<1> HIDE DEF f, g
<1>7. /\ f \o g \in Seq(Parts) /\ Len(f \o g) = n + k
      /\ \A i \in 1 .. n + k : (f \o g)[i] = IF i <= n THEN f[i] ELSE g[i - n]
  BY <1>5, <1>6, ConcatProperties
<1> DEFINE e == f \o g
<1>8. ASSUME NEW i \in 1 .. Len(e) PROVE e[i] # NLMSG_DONE /\ Truthful(e[i], h)
  <2>1. CASE i <= n
    BY <1>1, <1>5, <1>7, <2>1
  <2>2. CASE ~ (i <= n)
    <3>1. i - n \in 1 .. k
      BY <1>1, <1>7, <2>2
    <3> QED
      BY <1>1, <1>6, <1>7, <2>2, <3>1
  <2> QED
    BY <2>1, <2>2
<1>9. e \in Seq(Parts) /\ InitialState = e \o <<NLMSG_DONE>>
  BY <1>4, <1>7
<1> HIDE DEF e
<1> QED
  BY <1>8, <1>9, EndedDump DEF h

-----------------------------------------------------------------------------
(* Reading *)

\* What is left of the queue when its first message has been read.
LEMMA TailFacts ==
  ASSUME NEW queue \in Seq(Messages), queue # <<>>
  PROVE  /\ Tail(queue) \in Seq(Messages) /\ Head(queue) \in Messages /\ Head(queue) = queue[1]
         /\ Len(queue) \in Nat \ {0} /\ DOMAIN queue = 1 .. Len(queue)
         /\ Len(Tail(queue)) = Len(queue) - 1 /\ DOMAIN Tail(queue) = 1 .. Len(queue) - 1
         /\ \A i \in 1 .. Len(queue) - 1 : i + 1 \in 1 .. Len(queue) /\ Tail(queue)[i] = queue[i + 1]
<1> DEFINE t == Tail(queue)
           n == Len(queue)
<1>1. t \in Seq(Messages) /\ Len(t) = n - 1 /\ \A i \in 1 .. Len(t) : t[i] = queue[i + 1]
  BY HeadTailProperties
<1>2. Head(queue) \in Messages /\ Head(queue) = queue[1]
  BY HeadTailProperties DEF Head
<1>3. n \in Nat /\ n # 0 /\ DOMAIN queue = 1 .. n /\ DOMAIN t = 1 .. Len(t)
  BY <1>1, LenProperties, EmptySeq
<1> HIDE DEF t, n
<1>4. \A i \in 1 .. n - 1 : i + 1 \in 1 .. n
  BY <1>3
<1> QED
  BY <1>1, <1>2, <1>3, <1>4 DEF t, n

\* drbdsetup does not change what the kernel module keeps.
LEMMA ExternalKeeps ==
  ASSUME IInv, UNCHANGED external_vars
  PROVE  /\ KernelType' /\ KernelInv' /\ History' = History
         /\ UNCHANGED <<hup, cmd, ctx, timeout_type, repl_state, was_up, was_gone, was_standalone>>
<1>1. UNCHANGED <<repl_state, standalone, changes, hup, cmd, ctx, timeout_type, was_up, was_gone, was_standalone>>
  BY DEF external_vars, kernel_vars, command_vars, history_vars
<1>2. KernelType' /\ KernelInv'
  BY <1>1 DEF IInv, TypeOK, KernelType, KernelInv, Ready
<1> QED
  BY <1>1, <1>2 DEF History

\* The socket and the dump after a message has been read.
LEMMA ReadKeeps ==
  ASSUME IInv, UNCHANGED external_vars, sock # <<>>, Refill(Tail(sock), dump), UNCHANGED overrun
  PROVE  SocketType' /\ MessagesInv' /\ DumpInv'
<1> DEFINE t == Tail(sock)
<1>1. TypeOK /\ KernelInv /\ sock \in Seq(Messages) /\ dump \in Seq(Parts) /\ overrun \in BOOLEAN
  BY DEF IInv, TypeOK, SocketType
<1>2. t \in Seq(Messages) /\ \A i \in 1 .. Len(t) : Truthful(t[i], History)
  BY <1>1, TailFacts DEF IInv, MessagesInv
<1>3. \A i \in 1 .. Len(dump) : Truthful(dump[i], History) /\ (dump[i] = NLMSG_DONE <=> i = Len(dump))
  BY <1>1, LenProperties DEF IInv, MessagesInv, DumpInv
<1>4. UNCHANGED History
  BY ExternalKeeps
<1> HIDE DEF t
<1>5. sock' \in Seq(Messages) /\ dump' \in Seq(Parts) /\ MessagesInv' /\ DumpInv'
  BY <1>1, <1>2, <1>3, <1>4, RefillKeeps DEF t
<1> QED
  BY <1>1, <1>5 DEF SocketType

\* The socket and the dump after the request for a dump.
LEMMA RequestKeeps ==
  ASSUME IInv, UNCHANGED external_vars, NEW parts \in Seq(Parts), Refill(sock, parts), UNCHANGED overrun,
         \A i \in 1 .. Len(parts) : Truthful(parts[i], History) /\ (parts[i] = NLMSG_DONE <=> i = Len(parts))
  PROVE  SocketType' /\ MessagesInv' /\ DumpInv'
<1>1. TypeOK /\ KernelInv /\ sock \in Seq(Messages) /\ overrun \in BOOLEAN
  BY DEF IInv, TypeOK, SocketType
<1>2. \A i \in 1 .. Len(sock) : Truthful(sock[i], History)
  BY <1>1, LenProperties DEF IInv, MessagesInv
<1>3. UNCHANGED History
  BY ExternalKeeps
<1>4. sock' \in Seq(Messages) /\ dump' \in Seq(Parts) /\ MessagesInv' /\ DumpInv'
  BY <1>1, <1>2, <1>3, RefillKeeps
<1> QED
  BY <1>1, <1>4 DEF SocketType

\* A peer device that exists is not left out when the kernel goes on with the list.
LEMMA RefillAnnounces ==
  ASSUME TypeOK, KernelInv, NEW list, NEW queue \in Seq(Messages), NEW parts \in Seq(Parts),
         NEW pd \in PeerDevices \ was_gone, Announced(list, queue, parts, pd), Refill(queue, parts),
         \A i \in 1 .. Len(parts) : parts[i] = NLMSG_DONE <=> i = Len(parts)
  PROVE  Announced(list, sock', dump', pd)
<1>1. CASE sock' = queue /\ dump' = parts
  BY <1>1
<1>2. CASE ~ (sock' = queue /\ dump' = parts)
  <2>1. PICK i \in 1 .. Len(parts) :
              /\ ~ Skipped(parts[i]) /\ \A j \in 1 .. i - 1 : Skipped(parts[j])
              /\ Sent(parts[i]) \in Messages
              /\ sock' \in Seq(Messages) /\ Len(sock') = Len(queue) + 1
              /\ \A k \in 1 .. Len(queue) : sock'[k] = queue[k]
              /\ sock'[Len(queue) + 1] = Sent(parts[i])
              /\ dump' \in Seq(Parts) /\ Len(dump') = Len(parts) - i
              /\ \A k \in 1 .. Len(parts) - i : dump'[k] = parts[i + k]
    BY <1>2, RefillShape DEF TypeOK
  <2> DEFINE l == Len(queue)
             n == Len(parts)
             q == sock'
             d == dump'
  <2>2. /\ l \in Nat /\ DOMAIN queue = 1 .. l /\ n \in Nat /\ DOMAIN parts = 1 .. n /\ i \in 1 .. n
        /\ DOMAIN q = 1 .. l + 1 /\ DOMAIN d = 1 .. n - i
        /\ (\A k \in 1 .. l : q[k] = queue[k]) /\ q[l + 1] = Sent(parts[i])
        /\ \A k \in 1 .. n - i : d[k] = parts[i + k]
    <3>1. DOMAIN q = 1 .. Len(q) /\ DOMAIN d = 1 .. Len(d)
      BY <2>1, LenProperties
    <3> QED
      BY <2>1, <3>1, LenProperties
  <2>3. parts[i] \in Parts
    BY <2>2, ElementOfSeq
  <2>4. repl_state[pd] # Gone
    BY DEF KernelInv
  <2> HIDE DEF l, n, q, d
  <2>5. ASSUME NEW j \in 1 .. n, parts[j] = Listed(pd)
        PROVE  j >= i /\ (j = i => q[l + 1].kind = "peer_device" /\ q[l + 1].pd = pd)
                      /\ (j > i => j - i \in 1 .. n - i /\ d[j - i] = parts[j])
    <3>1. ~ Skipped(parts[j])
      BY <2>4, <2>5, Kinds DEF Skipped
    <3>2. ~ (j \in 1 .. i - 1)
      BY <2>1, <3>1
    <3>3. j = i => Sent(parts[i]) = PdMsg("listed", pd, repl_state[pd])
      BY <2>5, Kinds DEF Sent
    <3>4. j > i => j - i \in 1 .. n - i /\ i + (j - i) = j
      BY <2>2
    <3>5. j >= i
      BY <2>2, <3>2
    <3>6. j = i => q[l + 1].kind = "peer_device" /\ q[l + 1].pd = pd
      BY <2>2, <3>3, Fields
    <3>7. j > i => d[j - i] = parts[j]
      BY <2>2, <3>4
    <3> QED
      BY <3>4, <3>5, <3>6, <3>7
  <2>6. ASSUME NEW k \in 0 .. l, Received(queue, pd, k) PROVE Received(q, pd, k)
    BY <2>2, <2>6 DEF Received
  <2>7. Remembered(list, pd) \/ Received(q, pd, l + 1) \/ ToCome(d, pd)
    <3>1. CASE Remembered(list, pd)
      BY <3>1
    <3>2. CASE Received(queue, pd, l)
      <4>1. Received(q, pd, l)
        BY <2>2, <2>6, <3>2
      <4> QED
        BY <2>2, <4>1 DEF Received
    <3>3. CASE ToCome(parts, pd)
      <4>1. PICK j \in 1 .. n : parts[j] = Listed(pd)
        BY <2>2, <3>3 DEF ToCome
      <4>2. CASE j = i
        <5>1. l + 1 \in 1 .. l + 1 /\ l + 1 \in DOMAIN q
          BY <2>2
        <5> QED
          BY <2>5, <4>1, <4>2, <5>1 DEF Received
      <4>3. CASE j > i
        BY <2>2, <2>5, <4>1, <4>3 DEF ToCome
      <4> QED
        BY <2>2, <2>5, <4>1, <4>2, <4>3
    <3> QED
      BY <3>1, <3>2, <3>3 DEF Announced, l
  <2>8. ASSUME NEW k \in DOMAIN q, q[k] = NLMSG_DONE PROVE Remembered(list, pd) \/ Received(q, pd, k - 1)
    <3>1. CASE k \in 1 .. l
      <4>1. Remembered(list, pd) \/ Received(queue, pd, k - 1)
        BY <2>2, <2>8, <3>1 DEF Announced
      <4>2. k - 1 \in 0 .. l
        BY <2>2, <3>1
      <4> QED
        BY <2>6, <4>1, <4>2
    <3>2. CASE k = l + 1
      <4>1. Sent(parts[i]) = NLMSG_DONE
        BY <2>2, <2>8, <3>2
      <4>2. parts[i] = NLMSG_DONE
        BY <4>1, Kinds, Fields DEF Sent
      <4>3. i = n
        BY <2>2, <4>2 DEF n
      <4>4. ~ ToCome(parts, pd)
        <5> SUFFICES ASSUME NEW j \in 1 .. n, parts[j] = Listed(pd) PROVE FALSE
          BY <2>2 DEF ToCome
        <5>1. j = n
          BY <2>2, <2>5, <4>3
        <5> QED
          BY <4>2, <4>3, <5>1, Kinds
      <4>5. Remembered(list, pd) \/ Received(queue, pd, l)
        BY <4>4 DEF Announced, l
      <4>6. l \in 0 .. l /\ k - 1 = l
        BY <2>2, <3>2
      <4> QED
        BY <2>6, <4>5, <4>6
    <3> QED
      BY <2>2, <2>8, <3>1, <3>2
  <2>9. Len(q) = l + 1
    BY <2>1 DEF q, l
  <2> QED
    BY <2>7, <2>8, <2>9 DEF Announced, q, d
<1> QED
  BY <1>1, <1>2

\* Nor when the first message, which is remembered, is read.
LEMMA ReadAnnounces ==
  ASSUME NEW queue \in Seq(Messages), queue # <<>>, Head(queue) # NLMSG_DONE,
         NEW list, NEW longer, NEW parts, NEW pd, Announced(list, queue, parts, pd),
         Remembered(list, pd) => Remembered(longer, pd),
         Head(queue).kind = "peer_device" /\ Head(queue).pd = pd => Remembered(longer, pd)
  PROVE  Announced(longer, Tail(queue), parts, pd)
<1> DEFINE t == Tail(queue)
           n == Len(queue)
<1>1. /\ Head(queue) = queue[1] /\ n \in Nat \ {0} /\ DOMAIN queue = 1 .. n
      /\ DOMAIN t = 1 .. n - 1 /\ Len(t) = n - 1
      /\ \A i \in 1 .. n - 1 : i + 1 \in 1 .. n /\ t[i] = queue[i + 1]
  BY TailFacts
<1> HIDE DEF t, n
<1>2. ASSUME NEW k \in 1 .. n, Received(queue, pd, k) PROVE Remembered(longer, pd) \/ Received(t, pd, k - 1)
  <2>1. PICK i \in 1 .. k : i \in DOMAIN queue /\ queue[i].kind = "peer_device" /\ queue[i].pd = pd
    BY <1>2 DEF Received
  <2>2. CASE i = 1
    BY <1>1, <2>1, <2>2
  <2>3. CASE i # 1
    <3>1. i - 1 \in 1 .. k - 1 /\ i - 1 \in 1 .. n - 1 /\ (i - 1) + 1 = i
      BY <1>1, <2>1, <2>3
    <3>2. t[i - 1] = queue[i]
      BY <1>1, <3>1
    <3> QED
      BY <1>1, <2>1, <3>1, <3>2 DEF Received
  <2> QED
    BY <2>2, <2>3
<1>3. Remembered(longer, pd) \/ Received(t, pd, Len(t)) \/ ToCome(parts, pd)
  <2>1. n \in 1 .. n /\ Len(t) = n - 1
    BY <1>1
  <2> QED
    BY <1>2, <2>1 DEF Announced, n
<1>4. ASSUME NEW d \in DOMAIN t, t[d] = NLMSG_DONE PROVE Remembered(longer, pd) \/ Received(t, pd, d - 1)
  <2>1. d + 1 \in 1 .. n /\ queue[d + 1] = NLMSG_DONE /\ (d + 1) - 1 = d /\ d \in 1 .. n
    BY <1>1, <1>4
  <2>2. Remembered(list, pd) \/ Received(queue, pd, d)
    BY <1>1, <2>1 DEF Announced
  <2> QED
    BY <1>2, <2>1, <2>2
<1> QED
  BY <1>3, <1>4 DEF Announced, t

\* The entries and their timeouts, when neither they nor the time change.
LEMMA SameList ==
  ASSUME IInv, UNCHANGED <<external_vars, peer_devices, time_vars>>
  PROVE  TimeType' /\ TimeInv' /\ EntriesInv' /\ UNCHANGED <<clock, before, counted>>
<1>1. UNCHANGED <<peer_devices, clock, before, counted, cmd, was_up>>
  BY ExternalKeeps DEF time_vars
<1> QED
  BY <1>1 DEF IInv, TypeOK, TimeType, TimeInv, Started, EntriesInv, Ready

-----------------------------------------------------------------------------
(* The steps before the wait *)

\* list_peer_devices: the list that the kernel module begins to send has every
\* peer device that exists.
LEMMA ListStep ==
  ASSUME IInv, list_peer_devices
  PROVE  IInv'
<1>1. /\ pc = "start" /\ pc' = "list" /\ Refill(sock, PeerDeviceList)
      /\ UNCHANGED <<external_vars, overrun, peer_devices, time_vars, rv>>
  BY DEF list_peer_devices
<1>2. KernelType' /\ KernelInv' /\ UNCHANGED <<hup, cmd, ctx, was_gone>>
  BY <1>1, ExternalKeeps
<1>3. SocketType' /\ MessagesInv' /\ DumpInv'
  <2>1. /\ PeerDeviceList \in Seq(Parts)
        /\ \A i \in 1 .. Len(PeerDeviceList) : Truthful(PeerDeviceList[i], History) /\ (PeerDeviceList[i] = NLMSG_DONE <=> i = Len(PeerDeviceList))
    BY ListParts
  <2> QED
    BY <1>1, <2>1, RequestKeeps
<1>4. TimeType' /\ TimeInv' /\ EntriesInv'
  BY <1>1, SameList
<1>5. CommandType'
  BY <1>1, <1>2 DEF IInv, TypeOK, CommandType
<1>6. ListInv'
  <2> SUFFICES ASSUME NEW pd \in PeerDevices \ was_gone PROVE Announced(peer_devices, sock', dump', pd)
    BY <1>1, <1>2 DEF ListInv
  <2>1. \A d \in DOMAIN sock : sock[d] # NLMSG_DONE
    BY <1>1 DEF IInv, ListInv
  <2>2. Announced(peer_devices, sock, PeerDeviceList, pd)
    BY <2>1, ListParts DEF Announced
  <2>3. TypeOK /\ KernelInv /\ sock \in Seq(Messages)
    BY DEF IInv, TypeOK, SocketType
  <2> QED
    BY <1>1, <2>2, <2>3, ListParts, RefillAnnounces
<1>7. TimeoutNotEarly' /\ HonestSuccess'
  BY <1>1 DEF TimeoutNotEarly, HonestSuccess
<1> QED
  BY <1>2, <1>3, <1>4, <1>5, <1>6, <1>7 DEF IInv, TypeOK

\* A remembered message is an entry.
LEMMA EntryFacts ==
  ASSUME NEW m \in Messages, m \notin {Unloaded, NLMSG_DONE}
  PROVE  /\ Entry(m, 0) \in Entries /\ Entry(m, 0).pd = m.pd
         /\ Entry(m, 0).timeout_ms = 0 /\ Entry(m, 0).granted = 0
         /\ Entry(m, 0).rs = IF m.kind = "peer_device" THEN m.state ELSE Off
<1>1. m \in PdMsgs \/ m \in ConnMsgs
  BY Kinds
<1>2. m.pd \in PeerDevices \union OtherDevices \union Connections
  BY <1>1 DEF PdMsgs, ConnMsgs
<1>3. (IF m.kind = "peer_device" THEN m.state ELSE Off) \in States
  BY <1>1, Kinds DEF PdMsgs, ConnMsgs, States
<1> QED
  BY <1>2, <1>3 DEF Entry, Entries

\* A new entry is as true as its message, and nothing has been counted down.
LEMMA EntryFair ==
  ASSUME NEW m \in Messages, m \notin {Unloaded, NLMSG_DONE}, Truthful(m, History),
         NEW now \in Nat, NEW from \in 0 .. now, NEW sum \in 0 .. MaxWait,
         sum = MaxWait \/ now - from <= sum
  PROVE  Fair(Entry(m, 0), now, from, sum) /\ (Ready(Entry(m, 0).rs) => m.pd \in was_up)
<1>1. ~ Ready(Off)
  BY DEF Ready, Off, L_ESTABLISHED
<1>2. MaxWait \in Nat /\ UnitsPerMs \in Nat
  BY WaitAssumption
<1>3. Ready(Entry(m, 0).rs) => m.pd \in was_up
  BY <1>1, EntryFacts DEF Truthful, History, Ready
<1>4. Fair(Entry(m, 0), now, from, sum)
  BY <1>2, EntryFacts DEF Fair
<1> QED
  BY <1>3, <1>4

\* remember: a peer device is in the list once its message has been read.
LEMMA RememberStep ==
  ASSUME IInv, remember
  PROVE  IInv'
<1> DEFINE m == Head(sock)
           e == Entry(m, 0)
           n == Len(peer_devices)
<1>1. /\ pc = "list" /\ sock # <<>> /\ m \notin {Unloaded, NLMSG_DONE}
      /\ peer_devices' = Append(peer_devices, e)
      /\ Refill(Tail(sock), dump)
      /\ UNCHANGED <<external_vars, overrun, pc, time_vars, rv>>
  BY DEF remember, remember_peer_device
<1>2. KernelType' /\ KernelInv' /\ UNCHANGED <<hup, cmd, ctx, was_up, was_gone>>
  BY <1>1, ExternalKeeps
<1>3. SocketType' /\ MessagesInv' /\ DumpInv'
  BY <1>1, ReadKeeps
<1>4. /\ TypeOK /\ KernelInv /\ sock \in Seq(Messages) /\ dump \in Seq(Parts) /\ peer_devices \in Seq(Entries)
      /\ clock \in Nat /\ before \in 0 .. clock /\ counted \in 0 .. MaxWait
  BY DEF IInv, TypeOK, SocketType, CommandType, TimeType
<1>5. m \in Messages /\ Truthful(m, History)
  <2>1. m \in Messages /\ m = sock[1] /\ 1 \in DOMAIN sock
    BY <1>1, <1>4, TailFacts
  <2> QED
    BY <2>1 DEF IInv, MessagesInv
<1>6. /\ e \in Entries /\ e.pd = m.pd /\ Fair(e, clock, before, counted)
      /\ Ready(e.rs) => e.pd \in was_up
  BY <1>1, <1>4, <1>5, EntryFacts, EntryFair DEF IInv, TimeInv, Started
<1> HIDE DEF e, m
<1>7. /\ peer_devices' \in Seq(Entries) /\ n \in Nat /\ DOMAIN peer_devices = 1 .. n
      /\ DOMAIN peer_devices' = 1 .. n + 1 /\ (\A i \in 1 .. n : peer_devices'[i] = peer_devices[i])
      /\ peer_devices'[n + 1] = e
  <2>1. peer_devices' \in Seq(Entries) /\ Len(peer_devices') = n + 1
    BY <1>1, <1>4, <1>6, AppendProperties
  <2> QED
    BY <1>1, <1>4, <1>6, <2>1, AppendProperties, LenProperties
<1>8. UNCHANGED <<clock, before, counted, pc, rv>>
  BY <1>1 DEF time_vars
<1> HIDE DEF n
<1>9. \A i \in 1 .. n + 1 : i \in 1 .. n \/ i = n + 1
  BY <1>7
<1>10. CommandType' /\ TimeType'
  BY <1>2, <1>4, <1>7, <1>8 DEF TypeOK, CommandType, TimeType
<1>11. TimeInv' /\ EntriesInv'
  <2>1. Started'
    BY <1>8 DEF IInv, TimeInv, Started
  <2>2. ASSUME NEW i \in 1 .. n + 1
        PROVE  Fair(peer_devices'[i], clock, before, counted)
               /\ (Ready(peer_devices'[i].rs) => peer_devices'[i].pd \in was_up)
    BY <1>6, <1>7, <1>9 DEF IInv, TimeInv, EntriesInv
  <2> QED
    BY <1>2, <1>7, <1>8, <2>1, <2>2 DEF TimeInv, EntriesInv, Ready
<1>12. ListInv'
  <2> SUFFICES ASSUME NEW pd \in PeerDevices \ was_gone PROVE Announced(peer_devices', sock', dump', pd)
    BY <1>1, <1>2 DEF ListInv
  <2>1. Announced(peer_devices, sock, dump, pd)
    BY <1>1 DEF IInv, ListInv
  <2>2. Remembered(peer_devices, pd) => Remembered(peer_devices', pd)
    BY <1>7 DEF Remembered
  <2>3. m.pd = pd => Remembered(peer_devices', pd)
    <3>1. n + 1 \in DOMAIN peer_devices'
      BY <1>7
    <3> QED
      BY <1>6, <1>7, <3>1 DEF Remembered
  <2>4. Announced(peer_devices', Tail(sock), dump, pd)
    BY <1>1, <1>4, <2>1, <2>2, <2>3, ReadAnnounces DEF m
  <2>5. Tail(sock) \in Seq(Messages)
    BY <1>1, <1>4, TailFacts
  <2>6. \A i \in 1 .. Len(dump) : dump[i] = NLMSG_DONE <=> i = Len(dump)
    BY <1>4, LenProperties DEF IInv, DumpInv
  <2> QED
    BY <1>1, <1>4, <2>4, <2>5, <2>6, RefillAnnounces
<1>13. TimeoutNotEarly' /\ HonestSuccess'
  BY <1>1, <1>8 DEF TimeoutNotEarly, HonestSuccess
<1> QED
  BY <1>2, <1>3, <1>10, <1>11, <1>12, <1>13 DEF IInv, TypeOK

\* list_complete: when the end of the list is read, all that exist are remembered.
LEMMA ListCompleteStep ==
  ASSUME IInv, list_complete
  PROVE  IInv'
<1>1. /\ pc = "list" /\ sock # <<>>
      /\ UNCHANGED <<external_vars, overrun, time_vars>>
      /\ Refill(Tail(sock), dump) \/ UNCHANGED <<sock, dump>>
  BY DEF list_complete
<1>2. \/ pc' = "end" /\ rv' = 0 /\ peer_devices' = <<>>
      \/ pc' = "choose" /\ (hup \/ Head(sock) = NLMSG_DONE) /\ UNCHANGED <<peer_devices, rv>>
  BY DEF list_complete, Exit
<1>3. KernelType' /\ KernelInv' /\ History' = History /\ UNCHANGED <<hup, cmd, ctx, was_up, was_gone>>
  BY <1>1, ExternalKeeps
<1>4. SocketType' /\ MessagesInv' /\ DumpInv'
  <2>1. CASE Refill(Tail(sock), dump)
    BY <1>1, <2>1, ReadKeeps
  <2>2. CASE UNCHANGED <<sock, dump>>
    BY <1>1, <1>3, <2>2 DEF IInv, TypeOK, SocketType, MessagesInv, DumpInv
  <2> QED
    BY <1>1, <2>1, <2>2
<1>5. UNCHANGED <<clock, before, counted>>
  BY <1>1 DEF time_vars
<1>6. CommandType' /\ TimeType'
  <2>1. <<>> \in Seq(Entries)
    BY EmptySeq
  <2>2. peer_devices' \in Seq(Entries)
    BY <1>2, <2>1 DEF IInv, TypeOK, CommandType
  <2>3. pc' \in {"end", "choose"} /\ rv' \in {0, 5, 20}
    BY <1>2 DEF IInv, TypeOK, CommandType
  <2>4. CommandType'
    BY <1>3, <2>2, <2>3 DEF IInv, TypeOK, CommandType
  <2>5. TimeType'
    BY <1>5 DEF IInv, TypeOK, TimeType
  <2> QED
    BY <2>4, <2>5
<1>7. TimeInv' /\ EntriesInv'
  BY <1>2, <1>3, <1>5 DEF IInv, TimeInv, Started, EntriesInv, Ready
<1>8. ListInv'
  <2>1. CASE pc' = "end"
    BY <2>1 DEF ListInv
  <2>2. CASE pc' = "choose" /\ hup
    BY <1>3, <2>2 DEF ListInv
  <2>3. CASE pc' = "choose" /\ Head(sock) = NLMSG_DONE /\ UNCHANGED peer_devices
    <3> SUFFICES ASSUME NEW pd \in PeerDevices \ was_gone PROVE Remembered(peer_devices, pd)
      BY <1>3, <2>3 DEF ListInv
    <3>1. Announced(peer_devices, sock, dump, pd)
      BY <1>1 DEF IInv, ListInv
    <3>2. 1 \in DOMAIN sock /\ sock[1] = NLMSG_DONE
      BY <1>1, <2>3, TailFacts DEF IInv, TypeOK, SocketType
    <3>3. ~ Received(sock, pd, 1 - 1)
      BY DEF Received
    <3> QED
      BY <3>1, <3>2, <3>3 DEF Announced
  <2> QED
    BY <1>2, <2>1, <2>2, <2>3
<1>9. TimeoutNotEarly' /\ HonestSuccess'
  BY <1>2 DEF TimeoutNotEarly, HonestSuccess
<1> QED
  BY <1>3, <1>4, <1>6, <1>7, <1>8, <1>9 DEF IInv, TypeOK

\* A timeout that is granted is counted in full.
LEMMA TimeoutBounds ==
  ASSUME NEW t \in Timeouts, NEW type
  PROVE  \/ Timeout(t, type) = Infinite
         \/ Timeout(t, type) \in Nat /\ Timeout(t, type) * UnitsPerMs <= MaxWait
<1> DEFINE s == CASE type = "degraded" -> Normalized(t).degr
                  [] type = "outdated" -> Normalized(t).outdated
                  [] OTHER -> Normalized(t).wfc
<1>1. Timeout(t, type) = IF s = 0 THEN Infinite ELSE s * MsPerSecond
  BY DEF Timeout
<1>2. s \in {Normalized(t).wfc, Normalized(t).degr, Normalized(t).outdated}
  BY Zenon
<1>3. {Normalized(t).wfc, Normalized(t).degr, Normalized(t).outdated} \subseteq {t.wfc, t.degr, t.outdated}
  <2> DEFINE d == IF 0 < t.wfc /\ (t.wfc < t.degr \/ t.degr = 0) THEN t.wfc ELSE t.degr
             o == IF 0 < d /\ (d < t.outdated \/ t.outdated = 0) THEN t.wfc ELSE t.outdated
  <2>1. d \in {t.wfc, t.degr}
    OBVIOUS
  <2> HIDE DEF d
  <2>2. o \in {t.wfc, t.outdated}
    OBVIOUS
  <2> HIDE DEF o
  <2>3. Normalized(t) = [wfc |-> t.wfc, degr |-> d, outdated |-> o]
    BY DEF Normalized, d, o
  <2> QED
    BY <2>1, <2>2, <2>3
<1> HIDE DEF s
<1>4. s \in Nat /\ s * MsPerSecond * UnitsPerMs <= MaxWait /\ MsPerSecond \in Nat /\ UnitsPerMs \in Nat
  BY <1>2, <1>3, WaitAssumption
<1> QED
  BY <1>1, <1>4

\* choose_timeout(): the timeout of one entry, of which nothing has passed yet.
LEMMA ChooseStep ==
  ASSUME IInv, NEW i \in DOMAIN peer_devices, choose_timeout(i)
  PROVE  IInv'
<1> DEFINE ms == Timeout(ctx, timeout_type[peer_devices[i].pd])
           e == [peer_devices[i] EXCEPT !.timeout_ms = ms, !.granted = ms]
<1>1. pc = "choose" /\ UNCHANGED <<external_vars, socket_vars, time_vars>>
  BY DEF choose_timeout
<1>2. \/ peer_devices' = [peer_devices EXCEPT ![i] = e] /\ UNCHANGED <<pc, rv>>
      \/ pc' = "end" /\ rv' = 20 /\ UNCHANGED peer_devices
  BY DEF choose_timeout, Exit
<1>3. KernelType' /\ KernelInv' /\ History' = History /\ UNCHANGED <<hup, cmd, ctx, was_up, was_gone>>
  BY <1>1, ExternalKeeps
<1>4. UNCHANGED <<sock, overrun, dump, clock, before, counted>>
  BY <1>1 DEF socket_vars, time_vars
<1>5. SocketType' /\ MessagesInv' /\ DumpInv' /\ TimeType'
  BY <1>3, <1>4 DEF IInv, TypeOK, SocketType, MessagesInv, DumpInv, TimeType
<1>6. CASE pc' = "end" /\ rv' = 20 /\ UNCHANGED peer_devices
  <2>1. CommandType'
    BY <1>3, <1>6 DEF IInv, TypeOK, CommandType
  <2>2. TimeInv' /\ EntriesInv'
    BY <1>3, <1>4, <1>6 DEF IInv, TimeInv, Started, EntriesInv, Ready
  <2>3. ListInv' /\ TimeoutNotEarly' /\ HonestSuccess'
    BY <1>6 DEF ListInv, TimeoutNotEarly, HonestSuccess
  <2> QED
    BY <1>3, <1>5, <2>1, <2>2, <2>3 DEF IInv, TypeOK
<1>7. CASE peer_devices' = [peer_devices EXCEPT ![i] = e] /\ UNCHANGED <<pc, rv>>
  <2>1. peer_devices \in Seq(Entries) /\ ctx \in Timeouts /\ peer_devices[i] \in Entries
    BY ElementOfSeq, LenProperties DEF IInv, TypeOK, CommandType
  <2>2. ms = Infinite \/ (ms \in Nat /\ ms * UnitsPerMs <= MaxWait)
    BY <2>1, TimeoutBounds
  <2> HIDE DEF ms
  <2>3. /\ e \in Entries /\ e.pd = peer_devices[i].pd /\ e.rs = peer_devices[i].rs
        /\ e.timeout_ms = ms /\ e.granted = ms
    BY <2>1, <2>2 DEF Entries
  <2> HIDE DEF e
  <2>4. Fair(e, clock, before, counted)
    <3>1. /\ clock \in Nat /\ before \in 0 .. clock /\ counted \in 0 .. MaxWait /\ Started
          /\ UnitsPerMs \in Nat /\ MaxWait \in Nat
      BY WaitAssumption DEF IInv, TypeOK, TimeType, TimeInv
    <3> QED
      BY <2>2, <2>3, <3>1 DEF Fair, Started
  <2>5. peer_devices' \in Seq(Entries) /\ DOMAIN peer_devices' = DOMAIN peer_devices
    BY <1>7, <2>1, <2>3, ExceptSeq
  <2>6. \A j \in DOMAIN peer_devices : peer_devices'[j] = IF j = i THEN e ELSE peer_devices[j]
    BY <1>7, <2>1
  <2>7. \A j \in DOMAIN peer_devices : /\ peer_devices'[j].pd = peer_devices[j].pd
                                       /\ peer_devices'[j].rs = peer_devices[j].rs
    BY <2>3, <2>6
  <2>8. CommandType'
    BY <1>3, <1>7, <2>5 DEF IInv, TypeOK, CommandType
  <2>9. TimeInv'
    <3>1. \A j \in DOMAIN peer_devices : Fair(peer_devices'[j], clock, before, counted)
      BY <2>4, <2>6 DEF IInv, TimeInv
    <3> QED
      BY <1>4, <2>5, <3>1 DEF IInv, TimeInv, Started
  <2>10. EntriesInv'
    BY <1>3, <2>5, <2>7 DEF IInv, EntriesInv, Ready
  <2>11. ListInv'
    BY <1>1, <1>3, <1>7, <2>5, <2>7 DEF IInv, ListInv, Remembered
  <2>12. TimeoutNotEarly' /\ HonestSuccess'
    BY <1>1, <1>7 DEF TimeoutNotEarly, HonestSuccess
  <2> QED
    BY <1>3, <1>5, <2>8, <2>9, <2>10, <2>11, <2>12 DEF IInv, TypeOK
<1> QED
  BY <1>2, <1>6, <1>7

\* request_state: what the kernel module records as the initial state is true.
LEMMA RequestStep ==
  ASSUME IInv, request_state
  PROVE  IInv'
<1>1. /\ pc = "choose" /\ pc' = "recv" /\ Refill(sock, InitialState)
      /\ UNCHANGED <<external_vars, overrun, peer_devices, time_vars, rv>>
  BY DEF request_state
<1>2. KernelType' /\ KernelInv' /\ UNCHANGED <<hup, cmd, ctx, was_gone>>
  BY <1>1, ExternalKeeps
<1>3. SocketType' /\ MessagesInv' /\ DumpInv'
  <2>1. TypeOK /\ KernelInv
    BY DEF IInv
  <2> DEFINE parts == InitialState
  <2>2. /\ parts \in Seq(Parts)
        /\ \A i \in 1 .. Len(parts) : Truthful(parts[i], History) /\ (parts[i] = NLMSG_DONE <=> i = Len(parts))
    BY <2>1, InitialParts
  <2>3. Refill(sock, parts)
    BY <1>1
  <2> HIDE DEF parts
  <2> QED
    BY <1>1, <2>2, <2>3, RequestKeeps
<1>4. TimeType' /\ TimeInv' /\ EntriesInv'
  BY <1>1, SameList
<1>5. CommandType'
  BY <1>1, <1>2 DEF IInv, TypeOK, CommandType
<1>6. ListInv'
  BY <1>1, <1>2 DEF IInv, ListInv
<1>7. TimeoutNotEarly' /\ HonestSuccess'
  BY <1>1 DEF TimeoutNotEarly, HonestSuccess
<1> QED
  BY <1>2, <1>3, <1>4, <1>5, <1>6, <1>7 DEF IInv, TypeOK

-----------------------------------------------------------------------------
(* The wait *)

\* The shortest timeout is one of the list.
LEMMA ShortestOfList ==
  ASSUME NEW list \in Seq(Entries), shortest_timeout(list) # Infinite
  PROVE  \E i \in DOMAIN list : list[i].timeout_ms = shortest_timeout(list) /\ list[i].timeout_ms > 0
<1> DEFINE ts == {t \in {list[i].timeout_ms : i \in DOMAIN list} : t > 0}
<1>1. shortest_timeout(list) = IF ts = {} THEN Infinite ELSE CHOOSE t \in ts : \A u \in ts : t <= u
  BY DEF shortest_timeout
<1>2. \A i \in DOMAIN list : list[i].timeout_ms \in Nat \union {Infinite}
  <2>1. DOMAIN list = 1 .. Len(list) /\ \A i \in 1 .. Len(list) : list[i] \in Entries
    BY ElementOfSeq, LenProperties
  <2>2. \A e \in Entries : e.timeout_ms \in Nat \union {Infinite}
    BY DEF Entries
  <2> QED
    BY <2>1, <2>2
<1>3. ts \subseteq Nat
  BY <1>2 DEF Infinite
<1>4. ts # {}
  BY <1>1
<1>5. \E x \in ts : \A y \in ts : x <= y
  <2> HIDE DEF ts
  <2> QED
    BY <1>3, <1>4, Least
<1>6. shortest_timeout(list) \in ts
  <2>1. (CHOOSE t \in ts : \A u \in ts : t <= u) \in ts
    <3> HIDE DEF ts
    <3> QED
      BY <1>5
  <2> QED
    BY <1>1, <1>4, <2>1
<1> QED
  BY <1>6

\* Numbers of Fair, for an entry with a timeout.
LEMMA FairNumbers ==
  ASSUME NEW e, NEW now \in Nat, NEW from \in 0 .. now, NEW sum \in 0 .. MaxWait, Fair(e, now, from, sum)
  PROVE  /\ UnitsPerMs \in Nat \ {0} /\ MaxWait \in Nat
         /\ e.timeout_ms # Infinite =>
              /\ e.granted \in Nat /\ e.timeout_ms \in 0 .. e.granted /\ e.granted * UnitsPerMs <= MaxWait
              /\ sum = MaxWait \/ e.granted * UnitsPerMs - e.timeout_ms * UnitsPerMs <= sum - (now - from)
         /\ e.timeout_ms = Infinite => e.granted = Infinite
<1>1. UnitsPerMs \in Nat \ {0} /\ MaxWait \in Nat
  BY WaitAssumption
<1>2. ASSUME e.granted \in Nat, e.timeout_ms \in 0 .. e.granted
      PROVE  (e.granted - e.timeout_ms) * UnitsPerMs = e.granted * UnitsPerMs - e.timeout_ms * UnitsPerMs
  BY <1>1, <1>2
<1>3. e.timeout_ms \in Nat => e.timeout_ms # Infinite
  BY DEF Infinite
<1> QED
  BY <1>1, <1>2, <1>3 DEF Fair

\* Time passes.
LEMMA TickStep ==
  ASSUME IInv, Tick
  PROVE  IInv'
<1>1. /\ pc = "recv" /\ clock' = clock + 1 /\ counted' = Capped(counted + 1)
      /\ UNCHANGED <<external_vars, socket_vars, pc, peer_devices, before, rv>>
  BY DEF Tick, Polling
<1>2. KernelType' /\ KernelInv' /\ History' = History /\ UNCHANGED <<hup, cmd, ctx, was_up, was_gone>>
  BY <1>1, ExternalKeeps
<1>3. UNCHANGED <<sock, overrun, dump>>
  BY <1>1 DEF socket_vars
<1>4. SocketType' /\ MessagesInv' /\ DumpInv' /\ CommandType'
  BY <1>1, <1>2, <1>3 DEF IInv, TypeOK, SocketType, MessagesInv, DumpInv, CommandType
<1>5. clock \in Nat /\ before \in 0 .. clock /\ counted \in 0 .. MaxWait /\ MaxWait \in Nat
  BY WaitAssumption DEF IInv, TypeOK, TimeType
<1>6. counted' \in 0 .. MaxWait /\ (counted' = MaxWait \/ (counted' = counted + 1 /\ counted # MaxWait))
  BY <1>1, <1>5 DEF Capped
<1>7. TimeType'
  BY <1>1, <1>5, <1>6 DEF TimeType
<1>8. TimeInv'
  <2>1. Started'
    BY <1>1, <1>5, <1>6 DEF IInv, TimeInv, Started
  <2>2. ASSUME NEW i \in DOMAIN peer_devices PROVE Fair(peer_devices[i], clock + 1, before, counted')
    <3> DEFINE e == peer_devices[i]
               a == (e.granted - e.timeout_ms) * UnitsPerMs
    <3>1. Fair(e, clock, before, counted)
      BY DEF IInv, TimeInv
    <3>2. e.granted \in Nat /\ e.timeout_ms \in 0 .. e.granted => a \in Int
      BY WaitAssumption
    <3> HIDE DEF e
    <3>3. CASE e.granted = Infinite /\ e.timeout_ms = Infinite
      BY <3>3 DEF Fair, e
    <3>4. CASE e.granted \in Nat /\ e.timeout_ms \in 0 .. e.granted /\ e.granted * UnitsPerMs <= MaxWait
               /\ (counted = MaxWait \/ a <= counted - (clock - before))
      <4>1. counted' = MaxWait \/ a <= counted' - ((clock + 1) - before)
        <5> HIDE DEF a
        <5> QED
          BY <1>5, <1>6, <3>2, <3>4
      <4> QED
        BY <3>4, <4>1 DEF Fair, e
    <3> QED
      BY <3>1, <3>3, <3>4 DEF Fair
  <2> QED
    BY <1>1, <2>1, <2>2 DEF TimeInv
<1>9. EntriesInv' /\ ListInv'
  BY <1>1, <1>2 DEF IInv, EntriesInv, ListInv, Ready
<1>10. TimeoutNotEarly' /\ HonestSuccess'
  BY <1>1 DEF TimeoutNotEarly, HonestSuccess
<1> QED
  BY <1>2, <1>4, <1>7, <1>8, <1>9, <1>10 DEF IInv, TypeOK

\* An end of the wait that changes nothing else.
LEMMA EndKeeps ==
  ASSUME IInv, pc' = "end", rv' \in {0, 5, 20}, UNCHANGED <<external_vars, socket_vars, peer_devices, time_vars>>,
         TimeoutNotEarly', HonestSuccess'
  PROVE  IInv'
<1>1. KernelType' /\ KernelInv' /\ History' = History /\ UNCHANGED <<cmd, ctx, was_up, was_gone>>
  BY ExternalKeeps
<1>2. UNCHANGED <<sock, overrun, dump>>
  BY DEF socket_vars
<1>3. SocketType' /\ MessagesInv' /\ DumpInv'
  BY <1>1, <1>2 DEF IInv, TypeOK, SocketType, MessagesInv, DumpInv
<1>4. CommandType'
  BY <1>1 DEF IInv, TypeOK, CommandType
<1>5. TimeType' /\ TimeInv' /\ EntriesInv'
  BY SameList
<1>6. ListInv'
  BY DEF ListInv
<1> QED
  BY <1>1, <1>3, <1>4, <1>5, <1>6 DEF IInv, TypeOK

\* poll_hup() times out after the shortest timeout.
LEMMA PollTimeoutStep ==
  ASSUME IInv, poll_timeout
  PROVE  IInv'
<1>1. /\ Polling /\ clock >= Deadline /\ pc' = "end" /\ rv' = 5
      /\ UNCHANGED <<external_vars, socket_vars, peer_devices, time_vars>>
  BY DEF poll_timeout, Exit
<1>2. /\ clock \in Nat /\ before \in 0 .. clock /\ counted \in 0 .. MaxWait
      /\ peer_devices \in Seq(Entries)
  BY DEF IInv, TypeOK, TimeType, CommandType
<1>3. PICK i \in DOMAIN peer_devices : /\ peer_devices[i].timeout_ms = shortest_timeout(peer_devices)
                                       /\ peer_devices[i].timeout_ms > 0
  BY <1>1, <1>2, ShortestOfList DEF Polling
<1> DEFINE e == peer_devices[i]
           t == e.timeout_ms
           g == e.granted
           a == t * UnitsPerMs
           b == g * UnitsPerMs
<1>4. Fair(e, clock, before, counted) /\ clock >= before + a /\ t # Infinite /\ t > 0
  BY <1>1, <1>3 DEF IInv, TimeInv, Deadline, Polling
<1> HIDE DEF e
<1>5. /\ g \in Nat /\ t \in 0 .. g /\ b <= MaxWait
      /\ counted = MaxWait \/ b - a <= counted - (clock - before)
      /\ UnitsPerMs \in Nat \ {0} /\ MaxWait \in Nat
  BY <1>2, <1>4, FairNumbers
<1>6. a \in Nat /\ b \in Nat
  BY <1>5
<1>7. g > 0 /\ counted >= b
  <2>1. g > 0
    BY <1>4, <1>5
  <2>2. counted >= b
    <3> HIDE DEF a, b, t, g
    <3> QED
      BY <1>2, <1>4, <1>5, <1>6
  <2> QED
    BY <2>1, <2>2
<1>8. TimeoutNotEarly'
  <2>1. UNCHANGED <<peer_devices, counted>>
    BY <1>1 DEF time_vars
  <2> QED
    BY <1>7, <2>1 DEF TimeoutNotEarly, Elapsed, e
<1>9. HonestSuccess'
  BY <1>1 DEF HonestSuccess
<1> QED
  BY <1>1, <1>8, <1>9, EndKeeps

\* poll_error, recv_error: an error is neither a timeout nor, but for a closed
\* standard output, a success.
LEMMA ErrorStep ==
  ASSUME IInv, poll_error \/ recv_error
  PROVE  IInv'
<1>1. /\ pc' = "end" /\ UNCHANGED <<external_vars, socket_vars, peer_devices, time_vars>>
      /\ rv' = 20 \/ (rv' = 0 /\ hup)
  BY DEF poll_error, recv_error, Exit
<1>2. hup' = hup
  BY <1>1, ExternalKeeps
<1>3. TimeoutNotEarly' /\ HonestSuccess'
  BY <1>1, <1>2 DEF TimeoutNotEarly, HonestSuccess
<1> QED
  BY <1>1, <1>3, EndKeeps

\* Without its i-th element a sequence is one shorter, and the others move up.
LEMMA RemoveAtElements ==
  ASSUME NEW S, NEW s \in Seq(S), NEW i \in 1 .. Len(s)
  PROVE  /\ RemoveAt(s, i) \in Seq(S)
         /\ Len(RemoveAt(s, i)) = Len(s) - 1
         /\ \A j \in 1 .. Len(s) - 1 :
              RemoveAt(s, i)[j] = IF j < i THEN s[j] ELSE s[j + 1]
<1> DEFINE u == SubSeq(s, 1, i - 1)
           v == SubSeq(s, i + 1, Len(s))
<1>1. /\ Len(s) \in Nat
      /\ \A j \in 1 .. Len(s) : s[j] \in S
  BY LenProperties, ElementOfSeq
<1>2. /\ u \in Seq(S)
      /\ Len(u) = i - 1
      /\ \A j \in 1 .. i - 1 : u[j] = s[j]
  <2>1. \A j \in 1 .. i - 1 : s[j] \in S
    BY <1>1
  <2>2. /\ u \in Seq(S)
        /\ Len(u) = IF 1 <= i - 1 THEN i - 1 - 1 + 1 ELSE 0
        /\ \A j \in 1 .. i - 1 - 1 + 1 : u[j] = s[1 + j - 1]
    BY <1>1, <2>1, SubSeqProperties
  <2> HIDE DEF u
  <2> QED
    BY <1>1, <2>2
<1>3. /\ v \in Seq(S)
      /\ Len(v) = Len(s) - i
      /\ \A j \in 1 .. Len(s) - i : v[j] = s[i + j]
  <2>1. \A j \in i + 1 .. Len(s) : s[j] \in S
    BY <1>1
  <2>2. /\ v \in Seq(S)
        /\ Len(v) = IF i + 1 <= Len(s) THEN Len(s) - (i + 1) + 1 ELSE 0
        /\ \A j \in 1 .. Len(s) - (i + 1) + 1 : v[j] = s[i + 1 + j - 1]
    BY <1>1, <2>1, SubSeqProperties
  <2> HIDE DEF v
  <2> QED
    BY <1>1, <2>2
<1>4. RemoveAt(s, i) = u \o v
  BY DEF RemoveAt
<1> HIDE DEF u, v
<1>5. /\ u \o v \in Seq(S)
      /\ Len(u \o v) = Len(u) + Len(v)
      /\ \A j \in 1 .. Len(u) + Len(v) :
           (u \o v)[j] = IF j <= Len(u) THEN u[j] ELSE v[j - Len(u)]
  BY <1>2, <1>3, ConcatProperties
<1> DEFINE w == u \o v
<1>6. RemoveAt(s, i) = w
  BY <1>4
<1>7. /\ w \in Seq(S)
      /\ Len(w) = Len(s) - 1
      /\ \A j \in 1 .. Len(s) - 1 : w[j] = IF j <= i - 1 THEN u[j] ELSE v[j - (i - 1)]
  BY <1>1, <1>2, <1>3, <1>5
<1> HIDE DEF w
<1>8. \A j \in 1 .. Len(s) - 1 : w[j] = IF j < i THEN s[j] ELSE s[j + 1]
  BY <1>1, <1>2, <1>3, <1>7
<1> QED
  BY <1>6, <1>7, <1>8

\* peer_devices_remove() takes out an entry of that peer device, or nothing.
LEMMA RemoveFacts ==
  ASSUME NEW list \in Seq(Entries), NEW pd
  PROVE  LET l == peer_devices_remove(list, pd)
         IN  /\ l \in Seq(Entries)
             /\ \A i \in DOMAIN l : \E j \in DOMAIN list : l[i] = list[j]
             /\ \A j \in DOMAIN list : list[j].pd # pd => \E i \in DOMAIN l : l[i] = list[j]
<1> DEFINE found == {i \in DOMAIN list : list[i].pd = pd}
           n == Len(list)
           k == CHOOSE i \in found : \A j \in found : i <= j
           l == RemoveAt(list, k)
<1>1. n \in Nat /\ DOMAIN list = 1 .. n
  BY LenProperties
<1>2. CASE found = {}
  <2>1. peer_devices_remove(list, pd) = list
    BY <1>2 DEF peer_devices_remove
  <2> QED
    BY <2>1
<1>3. CASE found # {}
  <2>1. found \subseteq Nat
    <3> HIDE DEF n
    <3> QED
      BY <1>1
  <2>2. \E x \in found : \A y \in found : x <= y
    <3> HIDE DEF found
    <3> QED
      BY <1>3, <2>1, Least
  <2>3. k \in found
    <3> HIDE DEF found
    <3> QED
      BY <2>2
  <2>4. k \in 1 .. n /\ list[k].pd = pd
    BY <1>1, <2>3
  <2>5. peer_devices_remove(list, pd) = l
    BY <1>3 DEF peer_devices_remove
  <2> HIDE DEF k, found
  <2>6. /\ l \in Seq(Entries) /\ Len(l) = n - 1
        /\ \A j \in 1 .. n - 1 : l[j] = IF j < k THEN list[j] ELSE list[j + 1]
    BY <2>4, RemoveAtElements
  <2>7. DOMAIN l = 1 .. n - 1
    BY <2>6, LenProperties
  <2> HIDE DEF l, n
  <2>8. ASSUME NEW i \in 1 .. n - 1 PROVE \E j \in 1 .. n : l[i] = list[j]
    <3>1. i \in 1 .. n /\ i + 1 \in 1 .. n
      BY <1>1
    <3> QED
      BY <2>6, <3>1
  <2>9. ASSUME NEW j \in 1 .. n, list[j].pd # pd PROVE \E i \in 1 .. n - 1 : l[i] = list[j]
    <3>1. CASE j < k
      <4>1. j \in 1 .. n - 1
        BY <1>1, <2>4, <3>1
      <4> QED
        BY <2>6, <3>1, <4>1
    <3>2. CASE j > k
      <4>1. j - 1 \in 1 .. n - 1 /\ ~ (j - 1 < k) /\ (j - 1) + 1 = j
        BY <1>1, <2>4, <3>2
      <4>2. l[j - 1] = list[(j - 1) + 1]
        BY <2>6, <4>1
      <4> QED
        BY <4>1, <4>2
    <3> QED
      BY <1>1, <2>4, <2>9, <3>1, <3>2
  <2> QED
    BY <1>1, <2>5, <2>6, <2>7, <2>8, <2>9
<1> QED
  BY <1>2, <1>3

\* The list after a message about a peer device: its entries are as true and as
\* fair as they were, and no other peer device is lost.
LEMMA FollowedFacts ==
  ASSUME NEW list \in Seq(Entries), NEW m \in PdMsgs, Truthful(m, History),
         NEW now \in Nat, NEW sum \in 0 .. MaxWait,
         \A i \in DOMAIN list : /\ Fair(list[i], now, now, sum)
                                /\ Ready(list[i].rs) => list[i].pd \in was_up
  PROVE  LET l == Followed(list, m)
         IN  /\ l \in Seq(Entries)
             /\ \A i \in DOMAIN l : /\ Fair(l[i], now, now, sum)
                                    /\ Ready(l[i].rs) => l[i].pd \in was_up
             /\ \A pd : pd \notin was_gone /\ Remembered(list, pd) => Remembered(l, pd)
<1> DEFINE l == CASE m.type = "destroy" -> peer_devices_remove(list, m.pd)
                  [] m.type = "create" /\ list # <<>> -> remember_peer_device(list, m)
                  [] OTHER -> list
           f == [i \in DOMAIN l |-> IF l[i].pd = m.pd THEN [l[i] EXCEPT !.rs = m.state] ELSE l[i]]
           e == Entry(m, 0)
<1>1. Followed(list, m) = f
  BY DEF Followed
<1>2. /\ m \in Messages /\ m \notin {Unloaded, NLMSG_DONE} /\ m.kind = "peer_device"
      /\ m.state \in States
  <2>1. m \in Messages /\ m.kind = "peer_device"
    BY Kinds DEF Messages
  <2> QED
    BY <2>1, Kinds DEF PdMsgs
<1>3. /\ e \in Entries /\ e.pd = m.pd /\ Fair(e, now, now, sum)
      /\ Ready(e.rs) => e.pd \in was_up
  <2>1. now \in 0 .. now /\ now - now <= sum
    BY WaitAssumption
  <2> QED
    BY <1>2, <2>1, EntryFacts, EntryFair
<1> HIDE DEF e
<1>4. /\ l \in Seq(Entries)
      /\ \A i \in DOMAIN l : l[i] = e \/ \E j \in DOMAIN list : l[i] = list[j]
      /\ \A j \in DOMAIN list : list[j].pd \notin was_gone => \E i \in DOMAIN l : l[i] = list[j]
  <2>1. CASE m.type = "destroy"
    <3>1. l = peer_devices_remove(list, m.pd)
      BY <2>1
    <3>2. m.pd \in was_gone
      BY <1>2, <2>1 DEF Truthful, History
    <3> HIDE DEF l
    <3> QED
      BY <3>1, <3>2, RemoveFacts
  <2>2. CASE m.type = "create" /\ list # <<>>
    <3> DEFINE n == Len(list)
    <3>1. l = Append(list, e)
      BY <2>2 DEF remember_peer_device, e
    <3> HIDE DEF l
    <3>2. /\ l \in Seq(Entries) /\ Len(l) = n + 1 /\ (\A i \in 1 .. n : l[i] = list[i]) /\ l[n + 1] = e
      BY <1>3, <3>1, AppendProperties
    <3>3. DOMAIN l = 1 .. n + 1 /\ DOMAIN list = 1 .. n /\ n \in Nat
      BY <3>2, LenProperties
    <3> HIDE DEF n
    <3>4. \A i \in 1 .. n + 1 : i \in 1 .. n \/ i = n + 1
      BY <3>3
    <3>5. \A i \in 1 .. n : i \in 1 .. n + 1
      BY <3>3
    <3> QED
      BY <3>2, <3>3, <3>4, <3>5
  <2>3. CASE m.type # "destroy" /\ ~ (m.type = "create" /\ list # <<>>)
    <3>1. l = list
      BY <2>3
    <3> HIDE DEF l
    <3> QED
      BY <3>1
  <2> QED
    BY <2>1, <2>2, <2>3
<1> HIDE DEF l
<1>5. Len(l) \in Nat /\ DOMAIN l = 1 .. Len(l) /\ \A i \in DOMAIN l : l[i] \in Entries
  BY <1>4, LenProperties, ElementOfSeq
<1>6. \A i \in DOMAIN l : Fair(l[i], now, now, sum) /\ (Ready(l[i].rs) => l[i].pd \in was_up)
  BY <1>3, <1>4
<1>7. Ready(m.state) => m.pd \in was_up
  BY <1>2 DEF Truthful, History, Ready
<1>8. ASSUME NEW i \in DOMAIN l
      PROVE  /\ f[i] \in Entries /\ f[i].pd = l[i].pd /\ Fair(f[i], now, now, sum)
             /\ Ready(f[i].rs) => f[i].pd \in was_up
  <2> DEFINE x == l[i]
  <2>1. x \in Entries /\ Fair(x, now, now, sum) /\ (Ready(x.rs) => x.pd \in was_up)
    BY <1>5, <1>6, <1>8
  <2>2. f[i] = IF x.pd = m.pd THEN [x EXCEPT !.rs = m.state] ELSE x
    BY <1>8
  <2> HIDE DEF x
  <2>3. CASE x.pd = m.pd
    <3> DEFINE y == [x EXCEPT !.rs = m.state]
    <3>1. y \in Entries /\ y.pd = x.pd /\ y.rs = m.state /\ y.timeout_ms = x.timeout_ms /\ y.granted = x.granted
      BY <1>2, <2>1 DEF Entries
    <3>2. f[i] = y
      BY <2>2, <2>3
    <3> HIDE DEF y, f
    <3>3. Fair(y, now, now, sum)
      BY <2>1, <3>1 DEF Fair
    <3> QED
      BY <1>7, <2>3, <3>1, <3>2, <3>3 DEF x
  <2>4. CASE x.pd # m.pd
    BY <2>1, <2>2, <2>4 DEF x
  <2> QED
    BY <2>3, <2>4
<1>9. f \in Seq(Entries) /\ DOMAIN f = DOMAIN l
  BY <1>5, <1>8
<1> HIDE DEF f
<1>10. \A pd : pd \notin was_gone /\ Remembered(list, pd) => Remembered(f, pd)
  BY <1>4, <1>8, <1>9 DEF Remembered
<1> QED
  BY <1>1, <1>8, <1>9, <1>10

\* At the start of a round nothing of it has passed.
LEMMA RoundFacts ==
  ASSUME IInv, next_round
  PROVE  clock' \in Nat /\ before' = clock'
<1> DEFINE s == UnitsPerSecond
<1>1. s \in Nat \ {0} /\ clock \in Nat
  BY WaitAssumption DEF UnitsPerSecond, IInv, TypeOK, TimeType
<1>2. clock' = clock % s /\ before' = clock % s
  BY DEF next_round
<1> HIDE DEF s
<1> QED
  BY <1>1, <1>2, DivBounds

\* No time passes between a moment and itself.
LEMMA NoTime ==
  ASSUME NEW now \in Nat, NEW sum \in 0 .. MaxWait
  PROVE  now - now <= sum
  BY WaitAssumption

\* Time that is not counted down any more does no harm.
LEMMA FairLater ==
  ASSUME NEW e, NEW now \in Nat, NEW from \in 0 .. now, NEW sum \in 0 .. MaxWait, Fair(e, now, from, sum),
         NEW later \in Nat, NEW total \in 0 .. MaxWait, total = MaxWait \/ sum <= total
  PROVE  Fair(e, later, later, total)
<1> DEFINE a == (e.granted - e.timeout_ms) * UnitsPerMs
<1>1. MaxWait \in Nat /\ UnitsPerMs \in Nat
  BY WaitAssumption
<1>2. CASE e.granted = Infinite /\ e.timeout_ms = Infinite
  BY <1>2 DEF Fair
<1>3. CASE /\ e.granted \in Nat /\ e.timeout_ms \in 0 .. e.granted /\ e.granted * UnitsPerMs <= MaxWait
           /\ sum = MaxWait \/ a <= sum - (now - from)
  <2>1. a \in Int
    BY <1>1, <1>3
  <2>2. total = MaxWait \/ a <= total - (later - later)
    <3> HIDE DEF a
    <3> QED
      BY <1>1, <1>3, <2>1
  <2> QED
    BY <1>3, <2>2 DEF Fair
<1> QED
  BY <1>2, <1>3 DEF Fair

\* An entry that is counted down.
LEMMA CountedEntry ==
  ASSUME NEW e \in Entries, NEW now \in Nat, NEW from \in 0 .. now, NEW sum \in 0 .. MaxWait,
         Fair(e, now, from, sum), NEW k \in Nat, k * UnitsPerMs <= now - from + UnitsPerMs - 1,
         NEW later \in Nat
  PROVE  LET d == IF e.timeout_ms = Infinite THEN e
                  ELSE [e EXCEPT !.timeout_ms = IF @ - k < 0 THEN 0 ELSE @ - k]
         IN  /\ d \in Entries /\ d.pd = e.pd /\ d.rs = e.rs /\ d.granted = e.granted
             /\ Fair(d, later, later, Capped(sum + UnitsPerMs - 1))
<1> DEFINE u == UnitsPerMs
           t == e.timeout_ms
           g == e.granted
           total == Capped(sum + u - 1)
<1>1. u \in Nat \ {0} /\ MaxWait \in Nat
  BY WaitAssumption
<1>2. /\ t # Infinite => /\ g \in Nat /\ t \in 0 .. g /\ g * u <= MaxWait
                         /\ sum = MaxWait \/ g * u - t * u <= sum - (now - from)
      /\ t = Infinite => g = Infinite
  BY FairNumbers
<1>3. total \in 0 .. MaxWait /\ (total = MaxWait \/ (total = sum + u - 1 /\ sum # MaxWait)) /\ (total = MaxWait \/ sum <= total)
  <2> HIDE DEF u
  <2> QED
    BY <1>1 DEF Capped
<1> HIDE DEF total
<1>4. CASE t = Infinite
  <2>1. Fair(e, later, later, total)
    BY <1>3, FairLater
  <2> QED
    BY <1>4, <2>1 DEF total
<1>5. CASE t # Infinite
  <2> DEFINE x == IF t - k < 0 THEN 0 ELSE t - k
             d == [e EXCEPT !.timeout_ms = x]
  <2>1. g \in Nat /\ t \in 0 .. g /\ g * u <= MaxWait /\ (sum = MaxWait \/ g * u - t * u <= sum - (now - from))
    BY <1>2, <1>5
  <2> HIDE DEF t, g, u
  <2>2. x \in 0 .. g /\ x >= t - k
    BY <2>1
  <2> HIDE DEF x
  <2>3. d \in Entries /\ d.pd = e.pd /\ d.rs = e.rs /\ d.granted = g /\ d.timeout_ms = x
    <3>1. x \in Nat
      BY <2>1, <2>2
    <3> QED
      BY <3>1 DEF Entries, g
  <2>4. total = MaxWait \/ (g - x) * u <= total - (later - later)
    <3> SUFFICES ASSUME total # MaxWait PROVE (g - x) * u <= total
      <4>1. total - (later - later) = total
        BY <1>3
      <4> QED
        BY <4>1
    <3>1. total = sum + u - 1 /\ sum # MaxWait
      BY <1>3
    <3>2. (g - x) * u <= (g - t + k) * u
      <4>1. (g - t + k) - (g - x) >= 0
        BY <2>1, <2>2
      <4>2. ((g - t + k) - (g - x)) * u >= 0
        BY <1>1, <2>1, <2>2, <4>1
      <4>3. ((g - t + k) - (g - x)) * u = (g - t + k) * u - (g - x) * u
        BY <1>1, <2>1, <2>2
      <4> DEFINE p == (g - t + k) * u
                 q == (g - x) * u
      <4>4. p \in Int /\ q \in Int
        BY <1>1, <2>1, <2>2
      <4>5. p - q >= 0
        BY <4>2, <4>3
      <4> HIDE DEF p, q
      <4>6. q <= p
        BY <4>4, <4>5
      <4> QED
        BY <4>6 DEF p, q
    <3>3. (g - t + k) * u = g * u - t * u + k * u
      BY <1>1, <2>1
    <3> DEFINE gu == g * u
               tu == t * u
               ku == k * u
               r == (g - x) * u
    <3>4. gu \in Int /\ tu \in Int /\ ku \in Int /\ r \in Int
      BY <1>1, <2>1, <2>2
    <3>5. r <= gu - tu + ku /\ gu - tu <= sum - (now - from) /\ ku <= now - from + u - 1
      BY <2>1, <3>1, <3>2, <3>3 DEF u
    <3> HIDE DEF gu, tu, ku, r
    <3>6. r <= total
      BY <1>1, <3>1, <3>4, <3>5
    <3> QED
      BY <3>6 DEF r
  <2> HIDE DEF d
  <2>5. Fair(d, later, later, total)
    BY <2>1, <2>2, <2>3, <2>4 DEF Fair, u
  <2>6. d = IF e.timeout_ms = Infinite THEN e ELSE [e EXCEPT !.timeout_ms = IF @ - k < 0 THEN 0 ELSE @ - k]
    BY <1>5 DEF d, x, t
  <2>7. total = Capped(sum + UnitsPerMs - 1)
    BY DEF total, u
  <2> QED
    BY <2>3, <2>5, <2>6, <2>7 DEF g
<1> QED
  BY <1>4, <1>5

\* The list with the time of this round counted down.
LEMMA CountedDownFacts ==
  ASSUME IInv, NEW later \in Nat
  PROVE  LET l == CountedDown(peer_devices, clock)
         IN  /\ l \in Seq(Entries) /\ DOMAIN l = DOMAIN peer_devices
             /\ \A i \in DOMAIN l :
                  /\ l[i].pd = peer_devices[i].pd /\ l[i].rs = peer_devices[i].rs
                  /\ l[i].granted = peer_devices[i].granted
                  /\ Fair(l[i], later, later, Capped(counted + UnitsPerMs - 1))
             /\ Capped(counted + UnitsPerMs - 1) \in 0 .. MaxWait
<1> DEFINE list == peer_devices
           total == Capped(counted + UnitsPerMs - 1)
           k == elapsed_ms(before, clock)
           l == update_timeouts(list, k)
<1>1. /\ clock \in Nat /\ before \in 0 .. clock /\ counted \in 0 .. MaxWait /\ list \in Seq(Entries)
      /\ UnitsPerMs \in Nat \ {0} /\ MaxWait \in Nat
  BY WaitAssumption DEF IInv, TypeOK, TimeType, CommandType
<1>2. total \in 0 .. MaxWait /\ (total = MaxWait \/ counted <= total)
  BY <1>1 DEF Capped
<1>3. Len(list) \in Nat /\ DOMAIN list = 1 .. Len(list) /\ \A i \in DOMAIN list : list[i] \in Entries
  BY <1>1, LenProperties, ElementOfSeq
<1>4. \A i \in DOMAIN list : Fair(list[i], clock, before, counted)
  BY DEF IInv, TimeInv
<1> HIDE DEF total
<1>5. CASE shortest_timeout(list) = Infinite
  <2>1. CountedDown(list, clock) = list
    BY <1>5 DEF CountedDown
  <2>2. \A i \in DOMAIN list : Fair(list[i], later, later, total)
    BY <1>1, <1>2, <1>4, FairLater
  <2> QED
    BY <1>1, <1>2, <2>1, <2>2 DEF total
<1>6. CASE shortest_timeout(list) # Infinite
  <2>1. CountedDown(list, clock) = l
    BY <1>6 DEF CountedDown
  <2>2. before \in Nat /\ before <= clock
    BY <1>1
  <2>3. k \in Nat /\ k * UnitsPerMs <= clock - before + UnitsPerMs - 1
    BY <1>1, <2>2, ElapsedBounds
  <2> HIDE DEF k
  <2>4. DOMAIN l = DOMAIN list /\ \A i \in DOMAIN list :
          l[i] = IF list[i].timeout_ms = Infinite THEN list[i]
                 ELSE [list[i] EXCEPT !.timeout_ms = IF @ - k < 0 THEN 0 ELSE @ - k]
    BY DEF update_timeouts
  <2>5. ASSUME NEW i \in DOMAIN list
        PROVE  /\ l[i] \in Entries /\ l[i].pd = list[i].pd /\ l[i].rs = list[i].rs /\ l[i].granted = list[i].granted
               /\ Fair(l[i], later, later, total)
    <3> DEFINE e == list[i]
               d == IF e.timeout_ms = Infinite THEN e
                    ELSE [e EXCEPT !.timeout_ms = IF @ - k < 0 THEN 0 ELSE @ - k]
    <3>1. e \in Entries /\ Fair(e, clock, before, counted)
      BY <1>3, <1>4
    <3>2. l[i] = d
      BY <2>4
    <3> HIDE DEF e, l
    <3>3. /\ d \in Entries /\ d.pd = e.pd /\ d.rs = e.rs /\ d.granted = e.granted
          /\ Fair(d, later, later, Capped(counted + UnitsPerMs - 1))
      BY <1>1, <2>3, <3>1, CountedEntry
    <3> HIDE DEF d
    <3> QED
      BY <3>2, <3>3 DEF e, total
  <2>6. l \in Seq(Entries)
    BY <1>3, <2>4, <2>5 DEF update_timeouts
  <2> HIDE DEF l
  <2> QED
    BY <1>2, <2>1, <2>4, <2>5, <2>6 DEF total
<1> QED
  BY <1>5, <1>6

\* recv_done: the time of a round that ends with the end of the dump is not
\* counted down, which only makes the wait longer.
LEMMA DoneStep ==
  ASSUME IInv, recv_done
  PROVE  IInv'
<1>1. /\ pc = "recv" /\ sock # <<>> /\ Refill(Tail(sock), dump) /\ next_round
      /\ UNCHANGED <<external_vars, overrun, pc, rv, peer_devices, counted>>
  BY DEF recv_done
<1>2. KernelType' /\ KernelInv' /\ UNCHANGED <<hup, cmd, ctx, was_up, was_gone>>
  BY <1>1, ExternalKeeps
<1>3. SocketType' /\ MessagesInv' /\ DumpInv'
  BY <1>1, ReadKeeps
<1>4. clock' \in Nat /\ before' = clock'
  BY <1>1, RoundFacts
<1>5. clock \in Nat /\ before \in 0 .. clock /\ counted \in 0 .. MaxWait /\ MaxWait \in Nat
  BY WaitAssumption DEF IInv, TypeOK, TimeType
<1>6. CommandType' /\ TimeType'
  BY <1>1, <1>2, <1>4, <1>5 DEF IInv, TypeOK, CommandType, TimeType
<1>7. TimeInv'
  <2>1. Started'
    <3>1. counted' = counted
      BY <1>1
    <3>2. clock' - clock' <= counted
      BY <1>4, <1>5, NoTime
    <3> QED
      BY <1>4, <3>1, <3>2 DEF Started
  <2>2. ASSUME NEW i \in DOMAIN peer_devices PROVE Fair(peer_devices[i], clock', clock', counted)
    <3> DEFINE e == peer_devices[i]
               now == clock'
    <3>1. now \in Nat /\ Fair(e, clock, before, counted) /\ counted <= counted
      BY <1>4, <1>5 DEF IInv, TimeInv
    <3> HIDE DEF e, now
    <3>2. Fair(e, now, now, counted)
      BY <1>5, <3>1, FairLater
    <3> QED
      BY <3>2 DEF e, now
  <2> QED
    BY <1>1, <1>4, <2>1, <2>2 DEF TimeInv
<1>8. EntriesInv' /\ ListInv'
  BY <1>1, <1>2 DEF IInv, EntriesInv, ListInv, Ready
<1>9. TimeoutNotEarly' /\ HonestSuccess'
  BY <1>1 DEF TimeoutNotEarly, HonestSuccess
<1> QED
  BY <1>2, <1>3, <1>6, <1>7, <1>8, <1>9 DEF IInv, TypeOK

\* A timeout that has been counted down to zero has passed.
LEMMA ZeroHasPassed ==
  ASSUME NEW e, NEW now \in Nat, NEW sum \in 0 .. MaxWait, Fair(e, now, now, sum), e.timeout_ms = 0
  PROVE  e.granted \in Nat /\ sum >= e.granted * UnitsPerMs
<1> DEFINE b == e.granted * UnitsPerMs
           a == e.timeout_ms * UnitsPerMs
<1>1. now \in 0 .. now /\ e.timeout_ms # Infinite /\ MaxWait \in Nat
  BY WaitAssumption DEF Infinite
<1>2. /\ e.granted \in Nat /\ b <= MaxWait /\ UnitsPerMs \in Nat
      /\ sum = MaxWait \/ b - a <= sum - (now - now)
  BY <1>1, FairNumbers
<1>3. a = 0 /\ b \in Nat
  BY <1>2
<1> HIDE DEF a, b
<1>4. sum >= b
  BY <1>1, <1>2, <1>3
<1> QED
  BY <1>2, <1>4 DEF b

\* A notification that is received: the invariant holds of the next round if it
\* holds of the list, and at the end of the wait.
LEMMA NotificationKeeps ==
  ASSUME IInv, recv_notification,
         peer_devices' \in Seq(Entries),
         \A i \in DOMAIN peer_devices' : /\ Fair(peer_devices'[i], clock', clock', counted')
                                         /\ Ready(peer_devices'[i].rs) => peer_devices'[i].pd \in was_up,
         pc' = "recv" => \A pd : pd \notin was_gone /\ Remembered(peer_devices, pd) => Remembered(peer_devices', pd),
         pc' \in {"recv", "end", "undefined"}, rv' \in {0, 5, 20},
         TimeoutNotEarly', HonestSuccess'
  PROVE  IInv'
<1>1. /\ pc = "recv" /\ sock # <<>> /\ Refill(Tail(sock), dump) /\ next_round
      /\ counted' = Capped(counted + UnitsPerMs - 1) /\ UNCHANGED <<external_vars, overrun>>
  BY DEF recv_notification
<1>2. KernelType' /\ KernelInv' /\ UNCHANGED <<hup, cmd, ctx, was_up, was_gone>>
  BY <1>1, ExternalKeeps
<1>3. SocketType' /\ MessagesInv' /\ DumpInv'
  BY <1>1, ReadKeeps
<1>4. clock' \in Nat /\ before' = clock' /\ counted' \in 0 .. MaxWait /\ MaxWait \in Nat
  <2>1. counted \in 0 .. MaxWait /\ MaxWait \in Nat /\ UnitsPerMs \in Nat \ {0}
    BY WaitAssumption DEF IInv, TypeOK, TimeType
  <2>2. counted' \in 0 .. MaxWait
    BY <1>1, <2>1 DEF Capped
  <2> QED
    BY <1>1, <2>1, <2>2, RoundFacts
<1>5. CommandType'
  BY <1>2 DEF IInv, TypeOK, CommandType
<1>6. TimeType'
  BY <1>4 DEF TimeType
<1>7. TimeInv'
  <2>1. clock' - clock' <= counted'
    BY <1>4, NoTime
  <2>2. Started'
    BY <1>4, <2>1 DEF Started
  <2> QED
    BY <1>4, <2>2 DEF TimeInv
<1>8. EntriesInv'
  BY <1>2 DEF EntriesInv, Ready
<1>9. ListInv'
  BY <1>1, <1>2 DEF IInv, ListInv
<1> QED
  BY <1>2, <1>3, <1>5, <1>6, <1>7, <1>8, <1>9 DEF IInv, TypeOK

\* recv_notification: the time is counted down, then the message is applied.
LEMMA NotificationStep ==
  ASSUME IInv, recv_notification
  PROVE  IInv'
<1> DEFINE m == Head(sock)
           list == CountedDown(peer_devices, clock)
           now == clock'
           sum == counted'
<1>1. /\ pc = "recv" /\ sock # <<>> /\ m # NLMSG_DONE /\ next_round
      /\ sum = Capped(counted + UnitsPerMs - 1) /\ UNCHANGED external_vars
  BY DEF recv_notification
<1>2. cmd' = cmd /\ UNCHANGED <<was_up, was_gone, was_standalone, hup>>
  BY <1>1, ExternalKeeps
<1>3. now \in Nat
  BY <1>1, RoundFacts
<1>4. m \in Messages /\ Truthful(m, History)
  <2>1. m \in Messages /\ m = sock[1] /\ 1 \in DOMAIN sock
    BY <1>1, TailFacts DEF IInv, TypeOK, SocketType
  <2> QED
    BY <2>1 DEF IInv, MessagesInv
<1>5. rv \in {0, 5, 20} /\ peer_devices \in Seq(Entries)
  BY DEF IInv, TypeOK, CommandType
<1>6. /\ list \in Seq(Entries) /\ DOMAIN list = DOMAIN peer_devices /\ sum \in 0 .. MaxWait
      /\ \A i \in DOMAIN list :
           /\ list[i].pd = peer_devices[i].pd /\ list[i].rs = peer_devices[i].rs
           /\ list[i].granted = peer_devices[i].granted
           /\ Fair(list[i], now, now, sum)
  <2> HIDE DEF now, sum
  <2> QED
    BY <1>1, <1>3, CountedDownFacts
<1>7. \A i \in DOMAIN list : Ready(list[i].rs) => list[i].pd \in was_up
  BY <1>6 DEF IInv, EntriesInv
<1>8. \A pd : Remembered(peer_devices, pd) => Remembered(list, pd)
  BY <1>6 DEF Remembered
<1>9. CASE Expired(peer_devices, clock) /\ Exit(5) /\ peer_devices' = list
  <2>1. pc' = "end" /\ rv' = 5
    BY <1>9 DEF Exit
  <2>2. PICK i \in DOMAIN peer_devices : peer_devices[i].timeout_ms > 0 /\ peer_devices[i].timeout_ms = shortest_timeout(peer_devices)
    BY <1>5, <1>9, ShortestOfList DEF Expired
  <2>3. list[i].timeout_ms = 0 /\ i \in DOMAIN list
    BY <1>6, <1>9 DEF Expired, all_expired
  <2>4. peer_devices[i].granted > 0
    <3> DEFINE e == peer_devices[i]
    <3>1. Fair(e, clock, before, counted) /\ e.timeout_ms > 0
      BY <2>2 DEF IInv, TimeInv
    <3>2. e.timeout_ms # Infinite
      BY <1>9, <2>2 DEF Expired
    <3> HIDE DEF e
    <3>3. e.granted \in Nat /\ e.timeout_ms \in 0 .. e.granted
      BY <3>1, <3>2 DEF Fair
    <3>4. e.granted > 0
      BY <3>1, <3>3
    <3> QED
      BY <3>4 DEF e
  <2>5. sum >= list[i].granted * UnitsPerMs
    <3> DEFINE d == list[i]
    <3>1. Fair(d, now, now, sum) /\ d.timeout_ms = 0
      BY <1>6, <2>3
    <3> HIDE DEF d, now, sum
    <3>2. sum >= d.granted * UnitsPerMs
      BY <1>3, <1>6, <3>1, ZeroHasPassed
    <3> QED
      BY <3>2 DEF d
  <2>6. TimeoutNotEarly'
    BY <1>6, <1>9, <2>3, <2>4, <2>5 DEF TimeoutNotEarly, Elapsed
  <2>7. HonestSuccess'
    BY <2>1 DEF HonestSuccess
  <2> QED
    BY <1>6, <1>7, <1>9, <2>1, <2>6, <2>7, NotificationKeeps
<1>10. CASE Exit(20) /\ peer_devices' = list
  <2>1. pc' = "end" /\ rv' = 20
    BY <1>10 DEF Exit
  <2>2. TimeoutNotEarly' /\ HonestSuccess'
    BY <2>1 DEF TimeoutNotEarly, HonestSuccess
  <2> QED
    BY <1>6, <1>7, <1>10, <2>1, <2>2, NotificationKeeps
<1>11. CASE peer_devices' = list /\ UNCHANGED <<pc, rv>>
  <2>1. TimeoutNotEarly' /\ HonestSuccess'
    BY <1>1, <1>11 DEF TimeoutNotEarly, HonestSuccess
  <2> QED
    BY <1>1, <1>5, <1>6, <1>7, <1>8, <1>11, <2>1, NotificationKeeps
<1>12. CASE /\ m # Unloaded /\ Concerned(m)
            /\ peer_devices' = IF m.kind = "peer_device" THEN Followed(list, m) ELSE list
            /\ \/ FreesHead(list, m) /\ pc' = "undefined" /\ UNCHANGED rv
               \/ wait_for_family(list, m) /\ Exit(0)
               \/ UNCHANGED <<pc, rv>>
  <2>1. m.kind \in {"peer_device", "connection"} /\ (m.kind = "peer_device" => m \in PdMsgs)
    BY <1>1, <1>4, <1>12, Kinds
  <2> DEFINE l == peer_devices'
  <2>2. /\ l \in Seq(Entries)
        /\ \A i \in DOMAIN l : Fair(l[i], now, now, sum) /\ (Ready(l[i].rs) => l[i].pd \in was_up)
        /\ \A pd : pd \notin was_gone /\ Remembered(list, pd) => Remembered(l, pd)
    <3>1. CASE m.kind = "peer_device"
      <4> DEFINE f == Followed(list, m)
      <4>1. l = f
        BY <1>12, <3>1
      <4> HIDE DEF now, sum, l, m, list
      <4>2. /\ f \in Seq(Entries)
            /\ \A i \in DOMAIN f : Fair(f[i], now, now, sum) /\ (Ready(f[i].rs) => f[i].pd \in was_up)
            /\ \A pd : pd \notin was_gone /\ Remembered(list, pd) => Remembered(f, pd)
        BY <1>3, <1>4, <1>6, <1>7, <2>1, <3>1, FollowedFacts
      <4> HIDE DEF f
      <4> QED
        BY <4>1, <4>2
    <3>2. CASE m.kind # "peer_device"
      <4>1. l = list
        BY <1>12, <3>2
      <4> QED
        BY <1>6, <1>7, <4>1
    <3> QED
      BY <3>1, <3>2
  <2>3. \A pd : pd \notin was_gone /\ Remembered(peer_devices, pd) => Remembered(l, pd)
    BY <1>8, <2>2
  <2>4. \/ pc' = "undefined" /\ rv' = rv
        \/ pc' = "end" /\ rv' = 0 /\ wait_for_family(list, m)
        \/ pc' = "recv" /\ rv' = rv
    BY <1>1, <1>12 DEF Exit
  <2>5. TimeoutNotEarly'
    BY <2>4 DEF TimeoutNotEarly
  <2>6. HonestSuccess'
    <3> SUFFICES ASSUME pc' = "end", wait_for_family(list, m)
                 PROVE  \/ ~ cmd.after_sb /\ \E c \in was_standalone : Concerned([kind |-> "connection", pd |-> c])
                        \/ \A pd \in Wanted :
                             \/ pd \in was_up \union was_gone
                             \/ \E i \in DOMAIN l : /\ l[i].pd = pd /\ l[i].granted # Infinite
                                                    /\ sum >= l[i].granted * UnitsPerMs
      BY <1>2, <2>4 DEF HonestSuccess, Wanted, Targeted, Concerned, Elapsed
    <3>1. CASE m.kind = "connection"
      <4>1. ~ cmd.after_sb /\ m.pd \in was_standalone
        BY <1>4, <3>1 DEF wait_for_family, Truthful, History
      <4>2. Concerned([kind |-> "connection", pd |-> m.pd])
        BY <1>12, <3>1 DEF Concerned
      <4> QED
        BY <4>1, <4>2
    <3>2. CASE m.kind = "peer_device"
      <4> SUFFICES ASSUME NEW pd \in Wanted, pd \notin was_gone, pd \notin was_up
                   PROVE  \E i \in DOMAIN l : /\ l[i].pd = pd /\ l[i].granted # Infinite
                                              /\ sum >= l[i].granted * UnitsPerMs
        OBVIOUS
      <4>1. l = Followed(list, m) /\ \A i \in DOMAIN l : Targeted(l[i].pd) => Done(l[i])
        BY <1>12, <3>2 DEF wait_for_family
      <4>2. Remembered(peer_devices, pd)
        <5>1. ~ hup
          BY DEF recv_notification
        <5> QED
          BY <1>1, <5>1 DEF IInv, ListInv, Wanted
      <4>3. PICK i \in DOMAIN l : l[i].pd = pd
        BY <2>3, <4>2 DEF Remembered
      <4>4. Done(l[i])
        BY <4>1, <4>3 DEF Wanted
      <4> DEFINE e == l[i]
      <4>5. e.timeout_ms = 0 /\ Fair(e, now, now, sum)
        BY <2>2, <4>3, <4>4 DEF Done
      <4> HIDE DEF e, now, sum
      <4>6. e.granted \in Nat /\ sum >= e.granted * UnitsPerMs
        BY <1>3, <1>6, <4>5, ZeroHasPassed
      <4>7. e.granted # Infinite
        BY <4>6 DEF Infinite
      <4> QED
        BY <4>3, <4>6, <4>7 DEF e
    <3> QED
      BY <2>1, <3>1, <3>2
  <2>7. pc' \in {"recv", "end", "undefined"} /\ rv' \in {0, 5, 20}
    BY <1>5, <2>4
  <2> QED
    BY <2>2, <2>3, <2>5, <2>6, <2>7, NotificationKeeps
<1> QED
  BY <1>9, <1>10, <1>11, <1>12 DEF recv_notification

-----------------------------------------------------------------------------
(* The theorems *)

\* The invariant holds when drbdsetup starts.
LEMMA InitInv ==
  ASSUME Init
  PROVE  IInv
<1>1. PICK b \in Begins : cmd = b.cmd /\ repl_state = b.repl /\ standalone = b.standalone
  BY DEF Init
<1>2. /\ cmd \in [kind : {"resource", "connection", "volume"}, pd : PeerDevices, connect : BOOLEAN, after_sb : BOOLEAN]
      /\ repl_state \in [PeerDevices -> States \union {Gone}] /\ standalone \subseteq Connections
      /\ MaxChanges \in Nat /\ MaxWait \in Nat
  BY <1>1, WaitAssumption
<1>3. /\ ctx \in Timeouts /\ sock = <<>> /\ overrun = FALSE /\ dump = <<>> /\ hup = FALSE /\ changes = 0
      /\ pc = "start" /\ peer_devices = <<>> /\ rv = 0 /\ clock = 0 /\ before = 0 /\ counted = 0
  BY DEF Init
<1>4. <<>> \in Seq(Messages) /\ <<>> \in Seq(Parts) /\ <<>> \in Seq(Entries)
  BY EmptySeq
<1>5. TypeOK
  <2>1. KernelType
    <3>1. changes \in 0 .. MaxChanges
      BY <1>2, <1>3
    <3>2. hup \in BOOLEAN
      BY <1>3
    <3> QED
      BY <1>2, <3>1, <3>2, Zenon DEF KernelType
  <2>2. SocketType
    BY <1>3, <1>4 DEF SocketType
  <2>3. CommandType
    <3>1. peer_devices \in Seq(Entries)
      BY <1>3, <1>4
    <3>2. pc \in {"start", "list", "choose", "recv", "end", "undefined"} /\ rv \in {0, 5, 20}
      BY <1>3
    <3> QED
      BY <1>2, <1>3, <3>1, <3>2 DEF CommandType
  <2>4. TimeType
    BY <1>2, <1>3 DEF TimeType
  <2> QED
    BY <2>1, <2>2, <2>3, <2>4 DEF TypeOK
<1>6. KernelInv
  BY DEF Init, KernelInv
<1>7. MessagesInv /\ DumpInv /\ TimeInv /\ EntriesInv /\ ListInv
  BY <1>3 DEF MessagesInv, DumpInv, TimeInv, Started, EntriesInv, ListInv
<1>8. TimeoutNotEarly /\ HonestSuccess
  BY <1>3 DEF TimeoutNotEarly, HonestSuccess
<1> QED
  BY <1>5, <1>6, <1>7, <1>8 DEF IInv

\* Every step keeps the invariant.
LEMMA NextInv ==
  ASSUME IInv, [Next]_vars
  PROVE  IInv'
<1>1. CASE Step
  BY <1>1, ListStep, RememberStep, ListCompleteStep, ChooseStep, RequestStep, TickStep, PollTimeoutStep,
     ErrorStep, DoneStep, NotificationStep DEF Step
<1>2. CASE Hangup \/ ModuleUnload \/ \E pd \in OtherDevices : OtherResource(pd)
  BY <1>2, OutsideStep
<1>3. CASE \E pd \in PeerDevices : \/ \E rs \in {Off, L_ESTABLISHED, Resync} : KernelChange(pd, rs)
                                   \/ KernelCreate(pd) \/ KernelDestroy(pd)
                                   \/ KernelStandAlone(Connection(pd)) \/ KernelConnects(Connection(pd))
  BY <1>3, KernelStep
<1>4. CASE UNCHANGED vars
  <2>1. UNCHANGED <<repl_state, standalone, changes, sock, overrun, dump, hup, cmd, ctx, timeout_type, pc,
                    peer_devices, clock, before, counted, rv, was_up, was_gone, was_standalone>>
    BY <1>4 DEF vars, kernel_vars, socket_vars, command_vars, time_vars, history_vars
  <2>2. TypeOK'
    BY <2>1 DEF IInv, TypeOK, KernelType, SocketType, CommandType, TimeType
  <2>3. KernelInv' /\ EntriesInv'
    BY <2>1 DEF IInv, KernelInv, EntriesInv, Ready
  <2>4. MessagesInv' /\ DumpInv'
    BY <2>1 DEF IInv, MessagesInv, DumpInv, History
  <2>5. TimeInv' /\ ListInv'
    BY <2>1 DEF IInv, TimeInv, Started, ListInv
  <2>6. TimeoutNotEarly'
    BY <2>1 DEF IInv, TimeoutNotEarly, Elapsed
  <2>7. HonestSuccess'
    BY <2>1 DEF IInv, HonestSuccess, Elapsed, Wanted, Targeted, Concerned
  <2> QED
    BY <2>2, <2>3, <2>4, <2>5, <2>6, <2>7 DEF IInv
<1> QED
  BY <1>1, <1>2, <1>3, <1>4 DEF Next

\* The invariant holds whatever the kernel module does, for every resource, all
\* timeouts and every size of the receive buffer.
THEOREM Invariance == Spec => []IInv
<1>1. Init => IInv
  BY InitInv
<1>2. IInv /\ [Next]_vars => IInv'
  BY NextInv
<1> QED
  BY <1>1, <1>2, PTL DEF Spec

\* Types of all variables.
THEOREM TypeCorrect == Spec => []TypeOK
<1>1. IInv => TypeOK
  BY DEF IInv
<1> QED
  BY <1>1, Invariance, PTL

\* generic_recv() and update_timeouts() report no timeout before one has passed,
\* up to one ms for each message received.
THEOREM TimeoutsNotEarly == Spec => []TimeoutNotEarly
<1>1. IInv => TimeoutNotEarly
  BY DEF IInv
<1> QED
  BY <1>1, Invariance, PTL

\* wait_for_family() reports success only for what it has waited for, whatever
\* notifications come in between.
THEOREM SuccessIsHonest == Spec => []HonestSuccess
<1>1. IInv => HonestSuccess
  BY DEF IInv
<1> QED
  BY <1>1, Invariance, PTL
=============================================================================
