---------------------------- MODULE Events2Proofs ----------------------------
(***************************************************************************)
(* Proofs about drbdsetup events2.  print_event() applies the              *)
(* notifications of the kernel in order and each of them once, for any     *)
(* range of sequence numbers, any first number and any order of arrival in *)
(* which the first notification arrives first.  The lines it prints tell   *)
(* their reader everything that drbdsetup's copy of the objects holds, and *)
(* the copy is always a state the kernel was in.                           *)
(***************************************************************************)
EXTENDS Events2, SequenceTheorems, FiniteSetTheorems, WellFoundedInduction, TLAPS

-----------------------------------------------------------------------------
(* Sequence numbers *)

\* The wrapped signed difference of two sequence numbers orders them like
\* the notifications they belong to, and next_seq++ is the next number, as
\* long as fewer than 2^31 notifications lie between them.
LEMMA WireOrder ==
  ASSUME SignedWraps,
         NEW i \in 1 .. HalfRange - 1, NEW n \in 1 .. HalfRange - 1
  PROVE  /\ seq_a_less_or_equal_b(Wire(i), Wire(n)) <=> i <= n
         /\ Wire(i) = Wire(n) <=> i = n
         /\ NextSeq(Wire(n)) = Wire(n + 1)
<1>1. HalfRange \in Nat /\ FirstSeq \in 0 .. 2 * HalfRange - 1
  BY SeqAssumption
<1>2. /\ Wire(i) \in 0 .. 2 * HalfRange - 1
      /\ Wire(n) \in 0 .. 2 * HalfRange - 1
      /\ \/ Wire(i) = FirstSeq + i - 1
         \/ Wire(i) = FirstSeq + i - 1 - 2 * HalfRange
      /\ \/ Wire(n) = FirstSeq + n - 1
         \/ Wire(n) = FirstSeq + n - 1 - 2 * HalfRange
  BY <1>1 DEF Wire
<1>3. Wire(i) = Wire(n) <=> i = n
  BY <1>1, <1>2
<1>4. NextSeq(Wire(n)) = Wire(n + 1)
  BY <1>1 DEF NextSeq, Wire
<1>5. seq_a_less_or_equal_b(Wire(i), Wire(n)) <=> i <= n
  BY <1>1, <1>2 DEF seq_a_less_or_equal_b, int32
<1> QED
  BY <1>3, <1>4, <1>5

-----------------------------------------------------------------------------
(* The inductive invariant *)

\* the messages received and not yet applied
Stored == {stored_messages[i] : i \in DOMAIN stored_messages}

\* Only notifications that were sent are in flight or stored.
Numbered ==
  /\ sent \in 0 .. MaxMessages
  /\ \A m \in sock : m.idx \in 1 .. sent /\ m.act \notin {"exists", "done"}
  /\ \E S : stored_messages \in Seq(S)
  /\ \A m \in Stored : m.idx \in 1 .. sent

\* every notification is in flight, stored or applied only once
Unique ==
  /\ \A m, k \in sock : m.idx = k.idx => m = k
  /\ \A m \in sock, k \in Stored : m.idx # k.idx
  /\ \A i, j \in DOMAIN stored_messages : stored_messages[i].idx = stored_messages[j].idx => i = j

\* notification n is the one next_seq waits for
Awaited(n) ==
  /\ next_seq = Wire(n)
  /\ applied = 1 .. n - 1
  /\ \A m \in sock \union Stored : m.idx >= n

\* next_seq is the number of the first notification not applied.
Ordered ==
  /\ next_seq_known \in BOOLEAN
  /\ ~ next_seq_known => stored_messages = <<>> /\ applied = {}
  /\ next_seq_known => \E n \in 1 .. sent + 1 : Awaited(n)
  /\ "now" \in opts => sock = {} /\ ~ next_seq_known

OrderInv == Numbered /\ Unique /\ Ordered

Acts == {"create", "change", "destroy", "rename", "helper"}

\* The initial state satisfies the invariant.
LEMMA OrderInit == Init => OrderInv
<1> SUFFICES ASSUME Init PROVE OrderInv
  OBVIOUS
<1>1. stored_messages \in Seq({})
  BY DEF Init
<1>2. Stored = {}
  BY DEF Init, Stored
<1>3. MaxMessages \in Nat
  BY SeqAssumption
<1>4. Numbered
  BY <1>1, <1>2, <1>3 DEF Init, Numbered
<1>5. Unique
  BY <1>2 DEF Init, Unique
<1>6. Ordered
  BY DEF Init, Ordered
<1> QED
  BY <1>4, <1>5, <1>6 DEF OrderInv

\* What every kernel action does: a bundle of notifications of one kind.
LEMMA KernelNotifies ==
  ASSUME KernelNext
  PROVE  \E r, act, objs, infos, newKern : act \in Acts /\ Notify(r, act, objs, infos, newKern)
<1>1. ASSUME NEW r, NEW i, KernelCreateResource(r, i)
      PROVE  \E objs, infos, newKern : Notify(r, "create", objs, infos, newKern)
  BY <1>1 DEF KernelCreateResource
<1>2. ASSUME NEW r, NEW o, NEW is, KernelCreate(r, o, is)
      PROVE  \E objs, infos, newKern : Notify(r, "create", objs, infos, newKern)
  BY <1>2 DEF KernelCreate
<1>3. ASSUME NEW r, NEW S, NEW new, KernelChange(r, S, new)
      PROVE  \E objs, infos, newKern : Notify(r, "change", objs, infos, newKern)
  BY <1>3 DEF KernelChange
<1>4. ASSUME NEW r, NEW o, KernelDestroy(r, o)
      PROVE  \E objs, infos, newKern : Notify(r, "destroy", objs, infos, newKern)
  BY <1>4 DEF KernelDestroy
<1>5. ASSUME NEW r, NEW n, KernelRename(r, n)
      PROVE  \E objs, infos, newKern : Notify(r, "rename", objs, infos, newKern)
  BY <1>5 DEF KernelRename
<1>6. ASSUME NEW r, KernelHelper(r)
      PROVE  \E objs, infos, newKern : Notify(r, "helper", objs, infos, newKern)
  BY <1>6 DEF KernelHelper
<1>7. "create" \in Acts /\ "change" \in Acts /\ "destroy" \in Acts /\ "rename" \in Acts /\ "helper" \in Acts
  BY DEF Acts
<1>8. \/ \E r, i : KernelCreateResource(r, i)
      \/ \E r, o, is : KernelCreate(r, o, is)
      \/ \E r, S, new : KernelChange(r, S, new)
      \/ \E r, o : KernelDestroy(r, o)
      \/ \E r, n : KernelRename(r, n)
      \/ \E r : KernelHelper(r)
  BY DEF KernelNext
<1> QED
  BY <1>1, <1>2, <1>3, <1>4, <1>5, <1>6, <1>7, <1>8

\* New notifications have numbers of their own, larger than all the others.
LEMMA NotifyKeeps ==
  ASSUME OrderInv, NEW r, NEW act \in Acts, NEW objs, NEW infos, NEW newKern,
         Notify(r, act, objs, infos, newKern)
  PROVE  OrderInv'
<1> DEFINE n == Len(objs)
           New == {Msg(sent + i, act, r, objs[i], infos[objs[i]], i < n) : i \in 1 .. n}
<1>1. /\ sent \in 0 .. MaxMessages /\ MaxMessages \in Nat
      /\ n \in 1 .. MaxMessages - sent
      /\ sent' = sent + n
      /\ sock' = sock \/ sock' = sock \union New
      /\ "now" \in opts => sock' = sock
  BY SeqAssumption DEF OrderInv, Numbered, Notify
<1>2. UNCHANGED <<opts, next_seq, next_seq_known, stored_messages, applied>>
  BY DEF Notify, cmd_vars, order_vars
<1>3. Stored' = Stored
  BY <1>2 DEF Stored
<1>4. \A m \in New : /\ m.idx \in sent + 1 .. sent + n
                     /\ m.act = act
                     /\ \A k \in New : m.idx = k.idx => m = k
  <2>1. \A i \in 1 .. n : /\ Msg(sent + i, act, r, objs[i], infos[objs[i]], i < n).idx = sent + i
                          /\ Msg(sent + i, act, r, objs[i], infos[objs[i]], i < n).act = act
    BY DEF Msg
  <2> QED
    BY <1>1, <2>1
<1> HIDE DEF n, New
<1>5. Numbered'
  <2>1. \A m \in sock' : m.idx \in 1 .. sent' /\ m.act \notin {"exists", "done"}
    BY <1>1, <1>4 DEF OrderInv, Numbered, Acts
  <2> QED
    BY <1>1, <1>2, <1>3, <2>1 DEF OrderInv, Numbered
<1>6. Unique'
  <2>1. \A m \in sock, k \in New : m.idx # k.idx
    BY <1>1, <1>4 DEF OrderInv, Numbered
  <2>2. \A k \in Stored, m \in New : m.idx # k.idx
    BY <1>1, <1>4 DEF OrderInv, Numbered
  <2>3. \A m, k \in sock' : m.idx = k.idx => m = k
    BY <1>1, <1>4, <2>1 DEF OrderInv, Unique
  <2>4. \A m \in sock', k \in Stored' : m.idx # k.idx
    BY <1>1, <1>3, <2>2 DEF OrderInv, Unique
  <2> QED
    BY <1>2, <2>3, <2>4 DEF OrderInv, Unique
<1>7. Ordered'
  <2>1. ASSUME next_seq_known
        PROVE  \E j \in 1 .. sent' + 1 : Awaited(j)'
    <3>1. PICK j \in 1 .. sent + 1 : Awaited(j)
      BY <2>1 DEF OrderInv, Ordered
    <3>2. \A m \in sock' \union Stored' : m.idx >= j
      BY <1>1, <1>3, <1>4, <3>1 DEF Awaited
    <3>3. Awaited(j)'
      BY <1>2, <3>1, <3>2 DEF Awaited
    <3> QED
      BY <1>1, <3>1, <3>3
  <2> QED
    BY <1>1, <1>2, <2>1 DEF OrderInv, Ordered
<1> QED
  BY <1>5, <1>6, <1>7 DEF OrderInv

\* A step that only takes messages from the socket, and leaves what
\* print_event() keeps between two calls alone.
LEMMA FewerInFlight ==
  ASSUME OrderInv, sock' \subseteq sock,
         UNCHANGED <<sent, opts, next_seq, next_seq_known, stored_messages, applied>>
  PROVE  OrderInv'
<1>1. Stored' = Stored
  BY DEF Stored
<1>2. Numbered'
  BY <1>1 DEF OrderInv, Numbered
<1>3. Unique'
  BY <1>1 DEF OrderInv, Unique
<1>4. Ordered'
  <2>1. \A n : Awaited(n) => Awaited(n)'
    BY <1>1 DEF Awaited
  <2> QED
    BY <2>1 DEF OrderInv, Ordered
<1> QED
  BY <1>2, <1>3, <1>4 DEF OrderInv

\* A notification moves from the socket to the store.
LEMMA StoreKeeps ==
  ASSUME OrderInv, ~ ReorderFirst, NEW m \in sock,
         next_seq_known \/ m.idx = 1,
         sock' = sock \ {m}, UNCHANGED <<sent, opts>>,
         NEW hold, StoreNotification(m, hold)
  PROVE  OrderInv' /\ Stored' = Stored \union {m}
<1>1. /\ stored_messages' = Append(stored_messages, m)
      /\ next_seq' = IF next_seq_known THEN next_seq ELSE Wire(m.idx)
      /\ next_seq_known' = TRUE
      /\ applied' = applied
  BY DEF StoreNotification
<1>2. PICK S : stored_messages \in Seq(S)
  BY DEF OrderInv, Numbered
<1>3. stored_messages \in Seq(S \union {m})
  BY <1>2
<1>4. /\ stored_messages' \in Seq(S \union {m})
      /\ DOMAIN stored_messages = 1 .. Len(stored_messages)
      /\ DOMAIN stored_messages' = 1 .. Len(stored_messages) + 1
      /\ Len(stored_messages) \in Nat
      /\ \A i \in 1 .. Len(stored_messages) : stored_messages'[i] = stored_messages[i]
      /\ stored_messages'[Len(stored_messages) + 1] = m
  BY <1>1, <1>3, AppendProperties, LenProperties
<1>5. Stored' = Stored \union {m}
  BY <1>4 DEF Stored
<1>6. Numbered'
  BY <1>4, <1>5 DEF OrderInv, Numbered
<1>7. Unique'
  <2>1. \A k \in Stored : k.idx # m.idx
    BY DEF OrderInv, Unique
  <2>2. \A k, l \in sock' : k.idx = l.idx => k = l
    BY DEF OrderInv, Unique
  <2>3. \A k \in sock', l \in Stored' : k.idx # l.idx
    BY <1>5 DEF OrderInv, Unique
  <2>4. \A i \in 1 .. Len(stored_messages) : stored_messages[i].idx # m.idx
    BY <1>4, <2>1 DEF Stored
  <2>5. \A i, j \in DOMAIN stored_messages' :
          stored_messages'[i].idx = stored_messages'[j].idx => i = j
    BY <1>4, <2>4 DEF OrderInv, Unique
  <2> QED
    BY <2>2, <2>3, <2>5 DEF Unique
<1>8. \E n \in 1 .. sent + 1 : Awaited(n)'
  <2>1. CASE next_seq_known
    <3>1. PICK n \in 1 .. sent + 1 : Awaited(n)
      BY <2>1 DEF OrderInv, Ordered
    <3>2. Awaited(n)'
      BY <1>1, <1>5, <2>1, <3>1 DEF Awaited
    <3> QED
      BY <3>1, <3>2
  <2>2. CASE ~ next_seq_known
    <3>1. m.idx = 1 /\ applied = {} /\ Stored = {}
      BY <2>2 DEF OrderInv, Ordered, Stored
    <3>2. \A k \in sock' \union Stored' : k.idx >= 1
      BY <1>5, <3>1 DEF OrderInv, Numbered
    <3>3. 1 .. 1 - 1 = {}
      OBVIOUS
    <3>4. Awaited(1)'
      BY <1>1, <2>2, <3>1, <3>2, <3>3 DEF Awaited
    <3>5. sent \in Nat
      BY SeqAssumption DEF OrderInv, Numbered
    <3> QED
      BY <3>4, <3>5
  <2> QED
    BY <2>1, <2>2
<1>9. Ordered'
  BY <1>1, <1>8 DEF OrderInv, Ordered
<1> QED
  BY <1>5, <1>6, <1>7, <1>9 DEF OrderInv

\* A stored message that is due is the one awaited: applying it is a step of
\* the feed, and the next one is awaited.
LEMMA ApplyKeeps ==
  ASSUME OrderInv, SignedWraps, apply_stored_event
  PROVE  /\ OrderInv'
         /\ \E n \in 1 .. sent : /\ n \notin applied
                                 /\ 1 .. n - 1 \subseteq applied
                                 /\ applied' = applied \union {n}
         /\ "now" \notin opts /\ next_seq_known /\ Stored' \subseteq Stored
         /\ \E m \in Stored : /\ m.idx \in 1 .. sent /\ apply_event(m)
                              /\ Awaited(m.idx) /\ Awaited(m.idx + 1)'
<1>1. PICK p \in Due :
        /\ next_seq' = IF Wire(stored_messages[p].idx) = next_seq THEN NextSeq(next_seq) ELSE next_seq
        /\ stored_messages' = RemoveAt(stored_messages, p)
        /\ applied' = applied \union {stored_messages[p].idx}
        /\ apply_event(stored_messages[p])
  BY DEF apply_stored_event
<1>2. UNCHANGED <<sent, sock, opts, next_seq_known>>
  BY DEF apply_stored_event, kernel_vars, cmd_vars
<1> DEFINE m == stored_messages[p]
           L == Len(stored_messages)
<1>3. PICK S : stored_messages \in Seq(S)
  BY DEF OrderInv, Numbered
<1>4. L \in Nat /\ DOMAIN stored_messages = 1 .. L /\ p \in 1 .. L
  BY <1>3, LenProperties DEF Due
<1>5. m \in Stored
  BY <1>4 DEF Stored
<1>6. next_seq_known
  <2>1. stored_messages # <<>>
    BY <1>3, <1>4
  <2> QED
    BY <2>1 DEF OrderInv, Ordered
<1>7. PICK n \in 1 .. sent + 1 : Awaited(n)
  BY <1>6 DEF OrderInv, Ordered
<1>8. /\ sent \in 0 .. MaxMessages /\ MaxMessages \in Nat /\ HalfRange \in Nat
      /\ MaxMessages + 1 < HalfRange
      /\ m.idx \in 1 .. sent /\ m.idx >= n
  BY <1>5, <1>7, SeqAssumption DEF OrderInv, Numbered, Awaited
<1>9. m.idx \in 1 .. HalfRange - 1 /\ n \in 1 .. HalfRange - 1
  BY <1>7, <1>8
<1>10. seq_a_less_or_equal_b(Wire(m.idx), Wire(n))
  BY <1>7 DEF Due, Awaited
<1>11. m.idx = n
  BY <1>8, <1>9, <1>10, WireOrder
<1>12. next_seq' = Wire(n + 1)
  BY <1>1, <1>7, <1>9, <1>11, WireOrder DEF Awaited
<1>13. n \in 1 .. sent /\ n \notin applied /\ 1 .. n - 1 \subseteq applied /\ applied' = applied \union {n}
  BY <1>1, <1>7, <1>8, <1>11 DEF Awaited
<1>14. applied' = 1 .. (n + 1) - 1
  BY <1>7, <1>13 DEF Awaited
<1>15. /\ stored_messages' \in Seq(S)
       /\ DOMAIN stored_messages' = 1 .. L - 1
       /\ \A i \in 1 .. L - 1 :
            stored_messages'[i] = stored_messages[IF i < p THEN i ELSE i + 1]
  <2> DEFINE head == SubSeq(stored_messages, 1, p - 1)
             tail == SubSeq(stored_messages, p + 1, L)
  <2>1. /\ head \in Seq(S)
        /\ Len(head) = p - 1
        /\ \A i \in 1 .. p - 1 : head[i] = stored_messages[i]
    BY <1>3, <1>4, SubSeqProperties
  <2>2. /\ tail \in Seq(S)
        /\ Len(tail) = L - p
        /\ \A i \in 1 .. L - p : tail[i] = stored_messages[p + i]
    <3>1. p + 1 \in 1 .. L + 1 /\ L \in 0 .. L /\ L - (p + 1) + 1 = L - p
      BY <1>4
    <3>2. CASE p + 1 <= L
      BY <1>3, <1>4, <3>1, <3>2, SubSeqProperties
    <3>3. CASE p = L
      BY <1>3, <1>4, <3>1, <3>3, SubSeqProperties
    <3>4. p + 1 <= L \/ p = L
      <4> HIDE DEF L
      <4> QED
        BY <1>4
    <3> QED
      BY <3>2, <3>3, <3>4
  <2>3. stored_messages' = head \o tail
    BY <1>1 DEF RemoveAt
  <2> HIDE DEF L, head, tail
  <2>4. /\ head \o tail \in Seq(S)
        /\ Len(head \o tail) = Len(head) + Len(tail)
        /\ \A i \in 1 .. Len(head) + Len(tail) :
             (head \o tail)[i] = IF i <= Len(head) THEN head[i] ELSE tail[i - Len(head)]
    BY <2>1, <2>2, ConcatProperties
  <2>5. Len(head) + Len(tail) = L - 1
    BY <1>4, <2>1, <2>2
  <2>6. DOMAIN stored_messages' = 1 .. L - 1
    BY <2>3, <2>4, <2>5, LenProperties
  <2>7. \A i \in 1 .. L - 1 : i < p => (i \in 1 .. p - 1 /\ i <= p - 1)
    BY <1>4
  <2>8. \A i \in 1 .. L - 1 : ~ i < p => (~ i <= p - 1 /\ i - (p - 1) \in 1 .. L - p /\ p + (i - (p - 1)) = i + 1)
    BY <1>4
  <2>9. \A i \in 1 .. L - 1 : stored_messages'[i] = IF i <= p - 1 THEN head[i] ELSE tail[i - (p - 1)]
    BY <2>1, <2>3, <2>4, <2>5
  <2>10. \A i \in 1 .. L - 1 : stored_messages'[i] = stored_messages[IF i < p THEN i ELSE i + 1]
    BY <2>1, <2>2, <2>7, <2>8, <2>9
  <2> QED
    BY <2>3, <2>4, <2>6, <2>10
<1> HIDE DEF L
<1>16. \A k \in Stored' : k \in Stored /\ k.idx # m.idx
  <2> SUFFICES ASSUME NEW i \in 1 .. L - 1
               PROVE  /\ stored_messages'[i] \in Stored
                      /\ stored_messages'[i].idx # m.idx
    BY <1>15 DEF Stored
  <2>1. PICK j \in 1 .. L : j # p /\ stored_messages'[i] = stored_messages[j]
    <3>1. (IF i < p THEN i ELSE i + 1) \in 1 .. L /\ (IF i < p THEN i ELSE i + 1) # p
      BY <1>4
    <3> QED
      BY <1>15, <3>1
  <2> QED
    BY <1>4, <2>1 DEF Stored, OrderInv, Unique
<1>17. Numbered'
  BY <1>2, <1>15, <1>16 DEF OrderInv, Numbered
<1>18. Unique'
  <2>1. \A i, j \in DOMAIN stored_messages' :
          stored_messages'[i].idx = stored_messages'[j].idx => i = j
    <3> SUFFICES ASSUME NEW i \in 1 .. L - 1, NEW j \in 1 .. L - 1,
                        stored_messages'[i].idx = stored_messages'[j].idx
                 PROVE  i = j
      BY <1>15
    <3> DEFINE u == IF i < p THEN i ELSE i + 1
               v == IF j < p THEN j ELSE j + 1
    <3>1. u \in DOMAIN stored_messages /\ v \in DOMAIN stored_messages
      BY <1>4
    <3>2. stored_messages[u].idx = stored_messages[v].idx
      BY <1>15
    <3>3. u = v
      BY <3>1, <3>2 DEF OrderInv, Unique
    <3> QED
      BY <1>4, <3>3
  <2> QED
    BY <1>2, <1>16, <2>1 DEF OrderInv, Unique
<1>19. Awaited(n + 1)'
  <2>1. \A k \in sock \union Stored : k.idx \in Int /\ k.idx >= n
    BY <1>7 DEF OrderInv, Numbered, Awaited
  <2>2. \A k \in sock : k.idx # n
    BY <1>5, <1>11 DEF OrderInv, Unique
  <2>3. \A k \in sock' \union Stored' : k.idx >= n + 1
    BY <1>2, <1>7, <1>11, <1>16, <2>1, <2>2
  <2> QED
    BY <1>12, <1>14, <2>3 DEF Awaited
<1>20. Ordered'
  BY <1>2, <1>6, <1>8, <1>13, <1>19 DEF OrderInv, Ordered
<1>21. "now" \notin opts
  BY <1>6 DEF OrderInv, Ordered
<1>22. \E k \in Stored : /\ k.idx \in 1 .. sent /\ apply_event(k)
                         /\ Awaited(k.idx) /\ Awaited(k.idx + 1)'
  BY <1>1, <1>5, <1>7, <1>8, <1>11, <1>19
<1> QED
  BY <1>6, <1>13, <1>16, <1>17, <1>18, <1>20, <1>21, <1>22 DEF OrderInv

\* The environment of the proofs: a build whose signed subtraction wraps
\* around, no filter, and a first notification that is not overtaken.
InOrderStart == SignedWraps = TRUE /\ ReorderFirst = FALSE /\ Filter = "all"

\* One step either keeps the invariant and is a step of the feed, or it
\* changes nothing the feed sees.
LEMMA FeedStep ==
  ASSUME InOrderStart, OrderInv, [Next]_vars
  PROVE  OrderInv' /\ [Feed!Next]_(Feed!vars)
<1> USE DEF InOrderStart
<1> DEFINE Quiet == UNCHANGED <<sent, opts, next_seq, next_seq_known, stored_messages, applied>>
<1>1. ASSUME Quiet, sock' \subseteq sock, pc # "exit" \/ pc' = pc
      PROVE  OrderInv' /\ [Feed!Next]_(Feed!vars)
  <2>1. OrderInv'
    BY <1>1, FewerInFlight
  <2>2. CASE pc' = pc \/ pc' # "exit"
    BY <1>1, <2>1, <2>2 DEF Feed!vars
  <2>3. CASE pc' # pc /\ pc' = "exit"
    BY <1>1, <2>1, <2>3 DEF Feed!Next, Feed!Stop
  <2> QED
    BY <2>1, <2>2, <2>3
<1>2. CASE KernelNext
  <2>1. PICK r, act, objs, infos, newKern : act \in Acts /\ Notify(r, act, objs, infos, newKern)
    BY <1>2, KernelNotifies
  <2>2. OrderInv'
    BY <2>1, NotifyKeeps
  <2>3. /\ sent' \in sent + 1 .. MaxMessages
        /\ UNCHANGED <<applied, opts, pc>>
    BY <2>1, SeqAssumption DEF Notify, cmd_vars, order_vars, OrderInv, Numbered
  <2>4. CASE "now" \in opts
    BY <2>2, <2>3, <2>4 DEF Feed!vars
  <2>5. CASE "now" \notin opts
    BY <2>2, <2>3, <2>5 DEF Feed!Next, Feed!Issue
  <2> QED
    BY <2>2, <2>4, <2>5
<1>3. ASSUME NEW m \in sock, Overrun(m)
      PROVE  OrderInv' /\ [Feed!Next]_(Feed!vars)
  BY <1>1, <1>3 DEF Overrun, cmd_vars, order_vars
<1>4. CASE generic_send
  BY <1>1, <1>4 DEF generic_send, kernel_vars, order_vars
<1>5. CASE recv_dump
  <2> DEFINE h == Head(dump)
  <2>1. /\ pc = "recv" /\ h.act \in {"exists", "done"}
        /\ IF PassesFilter(h) THEN print_event(h) ELSE UNCHANGED <<pc, order_vars, data_vars>>
        /\ UNCHANGED <<sent, opts, sock>>
    BY <1>5 DEF recv_dump, Receive
  <2>2. Quiet
    BY <2>1 DEF print_event, DumpDone, ApplyExists, StoreNotification, order_vars
  <2> QED
    BY <1>1, <2>1, <2>2
<1>6. CASE recv_notification
  <2>1. PICK m \in sock : /\ next_seq_known \/ m.idx = 1
                          /\ sock' = sock \ {m}
                          /\ Receive(m)
    BY <1>6 DEF recv_notification
  <2>2. pc = "recv" /\ UNCHANGED <<sent, opts>>
    BY <1>6, <2>1 DEF recv_notification, Receive
  <2>3. m.act \notin {"exists", "done"} /\ PassesFilter(m)
    BY DEF OrderInv, Numbered, PassesFilter
  <2>4. StoreNotification(m, initial_state \/ receive_update)
    BY <2>1, <2>3 DEF Receive, print_event, DumpDone, ApplyExists
  <2>5. OrderInv'
    BY <2>1, <2>2, <2>4, StoreKeeps
  <2>6. applied' = applied /\ pc' # "exit"
    BY <2>4 DEF StoreNotification
  <2> QED
    BY <2>2, <2>5, <2>6 DEF Feed!vars
<1>7. CASE recv_nlmsg_done
  BY <1>1, <1>7 DEF recv_nlmsg_done, kernel_vars, order_vars
<1>8. CASE recv_overrun
  BY <1>1, <1>8 DEF recv_overrun, kernel_vars, order_vars
<1>9. CASE recv_module_unloaded
  BY <1>1, <1>9 DEF recv_module_unloaded, kernel_vars, order_vars
<1>10. CASE apply_stored_event
  <2>1. pc = "apply" /\ UNCHANGED <<sent, pc, opts>>
    BY <1>10 DEF apply_stored_event, kernel_vars, cmd_vars
  <2> QED
    BY <1>10, <2>1, ApplyKeeps DEF Feed!Next, Feed!Apply
<1>11. CASE print_event_returns
  BY <1>1, <1>11 DEF print_event_returns, kernel_vars, order_vars
<1>12. CASE read_next
  BY <1>1, <1>12 DEF read_next, kernel_vars, StdinReady
<1>13. CASE read_end
  BY <1>1, <1>13 DEF read_end, kernel_vars, order_vars, StdinReady
<1>14. CASE UNCHANGED vars
  BY <1>1, <1>14 DEF vars, kernel_vars, cmd_vars, order_vars
<1> QED
  BY <1>2, <1>3, <1>4, <1>5, <1>6, <1>7, <1>8, <1>9, <1>10, <1>11, <1>12, <1>13, <1>14 DEF Next

\* drbdsetup events2 implements the feed: every notification is applied once
\* and in the order in which the kernel issued it, whatever order print_event()
\* receives them in and wherever the 32 bit sequence number wraps around.
THEOREM FeedImplemented ==
  ASSUME InOrderStart
  PROVE  Spec => FeedSpec
<1>1. Init => Feed!Init
  BY DEF Init, Feed!Init
<1>2. OrderInv /\ [Next]_vars => OrderInv' /\ [Feed!Next]_(Feed!vars)
  BY FeedStep
<1> QED
  BY <1>1, <1>2, OrderInit, PTL DEF Spec, FeedSpec, Feed!SafeSpec

-----------------------------------------------------------------------------
(* Functions, sequences and sets *)

\* What Put() returns.
LEMMA PutValues ==
  ASSUME NEW t, NEW o, NEW v
  PROVE  /\ DOMAIN Put(t, o, v) = DOMAIN t \union {o}
         /\ Put(t, o, v)[o] = v
         /\ \A x \in DOMAIN t : x # o => Put(t, o, v)[x] = t[x]
  BY DEF Put

\* What Overlay() returns.
LEMMA OverlayValues ==
  ASSUME NEW t, NEW new
  PROVE  /\ DOMAIN Overlay(t, new) = DOMAIN t \union DOMAIN new
         /\ \A x \in DOMAIN new : Overlay(t, new)[x] = new[x]
         /\ \A x \in DOMAIN t : x \notin DOMAIN new => Overlay(t, new)[x] = t[x]
  BY DEF Overlay

\* What Without() returns.
LEMMA WithoutValues ==
  ASSUME NEW t, NEW S
  PROVE  /\ DOMAIN Without(t, S) = DOMAIN t \ S
         /\ \A x \in DOMAIN t \ S : Without(t, S)[x] = t[x]
  BY DEF Without, Restrict

\* A set of natural numbers has a least element.
LEMMA Least ==
  ASSUME NEW T, T \subseteq Nat, T # {}
  PROVE  \E x \in T : \A y \in T : x <= y
<1> DEFINE R == OpToRel(<, Nat)
<1>1. IsWellFoundedOn(R, Nat)
  BY NatLessThanWellFounded
<1>2. PICK x \in T : \A y \in T : ~ (<<y, x>> \in R)
  <2> HIDE DEF R
  <2> QED
    BY <1>1, WFMin
<1>3. \A y \in T : <<y, x>> \in R <=> y < x
  BY DEF OpToRel
<1>4. \A y \in T : ~ (y < x)
  <2> HIDE DEF R
  <2> QED
    BY <1>2, <1>3, Zenon
<1> QED
  <2> HIDE DEF R
  <2> QED
    BY <1>4

\* SetToSeq() lists elements of the set.
LEMMA ListedElements ==
  ASSUME NEW S, IsFiniteSet(S)
  PROVE  SetToSeq(S) \in Seq(S)
<1>1. Cardinality(S) \in Nat /\ ExistsBijection(1 .. Cardinality(S), S)
  BY FS_CardinalityType
<1>2. \E f \in [1 .. Cardinality(S) -> S] : IsInjective(f)
  BY <1>1 DEF ExistsBijection, Bijection, Injection
<1>3. SetToSeq(S) \in [1 .. Cardinality(S) -> S]
  BY <1>2 DEF SetToSeq
<1> QED
  BY <1>1, <1>3, SeqDef

\* The recursion that FlattenSeq() is defined by has a solution.
LEMMA FlattenExists ==
  ASSUME NEW ss, NEW n \in Nat
  PROVE  \E f : f = [i \in 1 .. n |-> IF i = 1 THEN ss[i] ELSE f[i - 1] \o ss[i]]
<1> DEFINE Solves(f, k) == f = [i \in 1 .. k |-> IF i = 1 THEN ss[i] ELSE f[i - 1] \o ss[i]]
           T == {k \in Nat : ~ \E f : Solves(f, k)}
<1>1. ASSUME T # {} PROVE FALSE
  <2>1. PICK k \in T : \A y \in T : k <= y
    <3> HIDE DEF T
    <3>1. T \subseteq Nat
      BY DEF T
    <3> QED
      BY <1>1, <3>1, Least
  <2>2. k \in Nat /\ ~ \E f : Solves(f, k)
    BY <2>1
  <2>3. k # 0
    <3>1. Solves([i \in 1 .. 0 |-> ss[i]], 0)
      OBVIOUS
    <3> QED
      BY <2>2, <3>1
  <2>4. k - 1 \in Nat /\ k - 1 \notin T
    <3> HIDE DEF T
    <3> QED
      BY <2>1, <2>2, <2>3
  <2>5. PICK g : Solves(g, k - 1)
    BY <2>4
  <2> DEFINE h == [i \in 1 .. k |-> IF i < k THEN g[i] ELSE IF i = 1 THEN ss[i] ELSE g[i - 1] \o ss[i]]
  <2>6. \A i \in 1 .. k : h[i] = IF i = 1 THEN ss[i] ELSE h[i - 1] \o ss[i]
    <3> SUFFICES ASSUME NEW i \in 1 .. k PROVE h[i] = IF i = 1 THEN ss[i] ELSE h[i - 1] \o ss[i]
      OBVIOUS
    <3>1. CASE i < k
      <4>1. i \in 1 .. k - 1
        BY <2>2, <3>1
      <4>2. g[i] = IF i = 1 THEN ss[i] ELSE g[i - 1] \o ss[i]
        BY <2>5, <4>1
      <4>3. h[i] = g[i] /\ (i # 1 => h[i - 1] = g[i - 1])
        BY <2>2, <3>1
      <4> HIDE DEF h
      <4> QED
        BY <4>2, <4>3
    <3>2. CASE i = k
      <4>1. h[i] = (IF i = 1 THEN ss[i] ELSE g[i - 1] \o ss[i]) /\ (i # 1 => h[i - 1] = g[i - 1])
        BY <2>2, <3>2
      <4> HIDE DEF h
      <4> QED
        BY <4>1
    <3> QED
      BY <2>2, <3>1, <3>2
  <2>7. Solves(h, k)
    <3>1. h = [i \in 1 .. k |-> h[i]]
      OBVIOUS
    <3> HIDE DEF h
    <3> QED
      BY <2>6, <3>1
  <2> HIDE DEF h, Solves
  <2> QED
    BY <2>2, <2>7
<1>2. \E f : Solves(f, n)
  BY <1>1
<1> QED
  BY <1>2

\* FlattenSeq() appends the sequences one after the other.
LEMMA FlattenRecursion ==
  ASSUME NEW ss, NEW n \in Nat \ {0}, Len(ss) = n
  PROVE  \E f : /\ FlattenSeq(ss) = f[n]
                /\ f[1] = ss[1]
                /\ \A i \in 2 .. n : f[i] = f[i - 1] \o ss[i]
<1> DEFINE f == CHOOSE f : f = [i \in 1 .. n |-> IF i = 1 THEN ss[i] ELSE f[i - 1] \o ss[i]]
<1>1. FlattenSeq(ss) = f[n]
  BY DEF FlattenSeq
<1>2. f = [i \in 1 .. n |-> IF i = 1 THEN ss[i] ELSE f[i - 1] \o ss[i]]
  BY FlattenExists
<1> HIDE DEF f
<1>3. f[1] = ss[1]
  BY <1>2
<1>4. \A i \in 2 .. n : f[i] = f[i - 1] \o ss[i]
  <2> SUFFICES ASSUME NEW i \in 2 .. n PROVE f[i] = f[i - 1] \o ss[i]
    OBVIOUS
  <2>1. i \in 1 .. n /\ i # 1
    OBVIOUS
  <2> QED
    BY <1>2, <2>1, Zenon
<1> QED
  BY <1>1, <1>3, <1>4

-----------------------------------------------------------------------------
(* What the reader of the lines knows *)

\* info is a state of o's kind
InfoOK(o, info) ==
  /\ o = resource => info \in ResourceInfo
  /\ o \in Devices => info \in DeviceInfo
  /\ o \in Connections => info \in ConnectionInfo
  /\ o \in PeerDevices => info \in PeerDeviceInfo
  /\ o \in Paths => info \in PathInfo

\* a message is about an object and has a state of its kind
Tells(m) ==
  /\ m.obj \in Objects
  /\ m.act \in {"exists", "create", "change"} => InfoOK(m.obj, m.info)

\* notification k continues a bundle of the resource r
Continues(k, r) == /\ k.res = r /\ k.act # "rename"
                   /\ k.act = "create" => k.obj # resource

\* notifications on their way to apply_event()
Waiting == sock \union Stored

\* A bundle has one resource, goes on with the next number and renames nothing.
MessagesInv ==
  /\ \A m \in Waiting : /\ m.act \in Acts /\ Tells(m)
                        /\ m.cont => m.idx < sent /\ m.act # "rename"
  /\ \A m, k \in Waiting : m.cont /\ k.idx = m.idx + 1 => Continues(k, m.res)

\* a part of a bundle of the dump, but not its first
Later(m) == m.act = "exists" /\ m.obj # resource

\* A dump is a sequence of whole bundles, the first of which may be cut.
DumpShape(d) ==
  /\ \E S : d \in Seq(S)
  /\ \A i \in DOMAIN d :
       /\ d[i].act = "exists" => Tells(d[i]) /\ (d[i].cont => i + 1 \in DOMAIN d)
       /\ i + 1 \in DOMAIN d =>
            /\ d[i + 1].act = "exists" => d[i].act = "exists"
            /\ Later(d[i + 1]) => d[i].cont
            /\ d[i].act = "exists" /\ d[i].cont => Later(d[i + 1]) /\ d[i + 1].res = d[i].res

\* the objects of the last dump are being received
Dumping == dump # <<>> /\ Head(dump).act = "exists"

\* No notification is applied between two objects of a dump.
DumpInv ==
  /\ DumpShape(dump)
  /\ Dumping => pc \in {"recv", "exit"} /\ expect_reply /\ (initial_state \/ receive_update)
  /\ pc = "send" => initial_state \/ receive_update

\* The kernel's resources and drbdsetup's copy are well formed.
TreesInv ==
  /\ DOMAIN kern \subseteq Resources
  /\ \A r \in DOMAIN kern : IsTree(kern[r])
  /\ \A r \in DOMAIN all_resources : IsTree(all_resources[r])

\* an entry of update_resources
IsEntry(e) == e \in [tree : {e.tree}, destroyed : BOOLEAN, rename : {e.rename}] /\ IsTree(e.tree)

\* Between two messages of a bundle the pending versions are of the bundle
\* that goes on.
Continuing ==
  /\ next_seq_known
  /\ \E n \in 1 .. sent : /\ Awaited(n)
                          /\ \A k \in Waiting : k.idx = n => k.res \in DOMAIN update_resources /\ Continues(k, k.res)

\* No version waits for the rest of its bundle once the bundle is received.
PendingInv ==
  /\ \A r \in DOMAIN update_resources : IsEntry(update_resources[r]) /\ update_resources[r].rename = NoName
  /\ DOMAIN update_resources # {} =>
       \/ Continuing
       \/ Dumping /\ Later(Head(dump)) /\ Head(dump).res \in DOMAIN update_resources

-----------------------------------------------------------------------------
(* The dump *)

\* The kinds of objects are told apart by their first component.
LEMMA KindsDiffer ==
  /\ \A o \in Devices : o[1] = "device" /\ o # resource
  /\ \A o \in Connections : o[1] = "connection" /\ o # resource
  /\ \A o \in PeerDevices : o[1] = "peer-device" /\ o # resource
  /\ \A o \in Paths : o[1] = "path" /\ o # resource
  BY DEF Devices, Connections, PeerDevices, Paths, device, connection, peer_device, path, resource

\* What a peer device or a path belongs to is a connection.
LEMMA TheirConnections == \A o \in PeerDevices \union Paths : ConnectionOf(o) \in Connections
  BY DEF PeerDevices, Paths, ConnectionOf, peer_device, path, Connections

\* An object of a tree has a state of its kind.
LEMMA TreeInfo ==
  ASSUME NEW t, IsTree(t), NEW o \in DOMAIN t
  PROVE  o \in Objects /\ InfoOK(o, t[o])
  BY DEF IsTree, InfoOK

\* a part of the dump that ends with the end of a bundle
Whole(d) ==
  /\ \E S : d \in Seq(S)
  /\ \A i \in 1 .. Len(d) : d[i].act = "exists" /\ Tells(d[i]) /\ (d[i].cont => i < Len(d))
  /\ Len(d) > 0 => ~ Later(d[1])
  /\ \A i \in 1 .. Len(d) - 1 : /\ Later(d[i + 1]) <=> d[i].cont
                                /\ d[i].cont => d[i + 1].res = d[i].res

\* Two such parts make one.
LEMMA WholeConcat ==
  ASSUME NEW a, NEW b, Whole(a), Whole(b)
  PROVE  Whole(a \o b)
<1>1. PICK S : a \in Seq(S)
  BY DEF Whole
<1>2. PICK T : b \in Seq(T)
  BY DEF Whole
<1>3. a \in Seq(S \union T) /\ b \in Seq(S \union T)
  BY <1>1, <1>2
<1> DEFINE c == a \o b
           m == Len(a)
           n == Len(b)
<1>4. m \in Nat /\ n \in Nat
  BY <1>1, <1>2
<1>5. c \in Seq(S \union T) /\ Len(c) = m + n
  BY <1>3, ConcatProperties
<1>6. \A i \in 1 .. m + n : c[i] = IF i <= m THEN a[i] ELSE b[i - m]
  BY <1>3, ConcatProperties
<1>7. /\ \A i \in 1 .. m : a[i].act = "exists" /\ Tells(a[i]) /\ (a[i].cont => i < m)
      /\ m > 0 => ~ Later(a[1])
      /\ \A i \in 1 .. m - 1 : (Later(a[i + 1]) <=> a[i].cont) /\ (a[i].cont => a[i + 1].res = a[i].res)
  BY DEF Whole
<1>8. /\ \A i \in 1 .. n : b[i].act = "exists" /\ Tells(b[i]) /\ (b[i].cont => i < n)
      /\ n > 0 => ~ Later(b[1])
      /\ \A i \in 1 .. n - 1 : (Later(b[i + 1]) <=> b[i].cont) /\ (b[i].cont => b[i + 1].res = b[i].res)
  BY DEF Whole
<1> HIDE DEF m, n, c
<1>9. \A i \in 1 .. m + n : c[i].act = "exists" /\ Tells(c[i]) /\ (c[i].cont => i < m + n)
  <2> SUFFICES ASSUME NEW i \in 1 .. m + n
               PROVE  c[i].act = "exists" /\ Tells(c[i]) /\ (c[i].cont => i < m + n)
    OBVIOUS
  <2>1. CASE i <= m
    <3>1. i \in 1 .. m /\ c[i] = a[i]
      BY <1>4, <1>6, <2>1
    <3>2. i < m => i < m + n
      BY <1>4
    <3> QED
      BY <1>7, <3>1, <3>2
  <2>2. CASE ~ i <= m
    <3>1. i - m \in 1 .. n /\ c[i] = b[i - m]
      BY <1>4, <1>6, <2>2
    <3>2. i - m < n => i < m + n
      BY <1>4
    <3> QED
      BY <1>8, <3>1, <3>2
  <2> QED
    BY <2>1, <2>2
<1>10. m + n > 0 => ~ Later(c[1])
  <2>1. CASE m > 0
    BY <1>4, <1>6, <1>7, <2>1
  <2>2. CASE m = 0
    BY <1>4, <1>6, <1>8, <2>2
  <2> QED
    BY <1>4, <2>1, <2>2
<1>11. \A i \in 1 .. (m + n) - 1 : (Later(c[i + 1]) <=> c[i].cont) /\ (c[i].cont => c[i + 1].res = c[i].res)
  <2> SUFFICES ASSUME NEW i \in 1 .. (m + n) - 1
               PROVE  (Later(c[i + 1]) <=> c[i].cont) /\ (c[i].cont => c[i + 1].res = c[i].res)
    OBVIOUS
  <2>1. CASE i < m
    <3>1. i \in 1 .. m - 1 /\ c[i] = a[i] /\ c[i + 1] = a[i + 1]
      BY <1>4, <1>6, <2>1
    <3> QED
      BY <1>7, <3>1
  <2>2. CASE i = m
    <3>1. m \in 1 .. m /\ n > 0 /\ c[i] = a[m] /\ c[i + 1] = b[1]
      BY <1>4, <1>6, <2>2
    <3> QED
      BY <1>4, <1>7, <1>8, <3>1
  <2>3. CASE i > m
    <3>1. i - m \in 1 .. n - 1 /\ c[i] = b[i - m] /\ c[i + 1] = b[(i - m) + 1]
      BY <1>4, <1>6, <2>3
    <3> QED
      BY <1>8, <3>1
  <2> QED
    BY <1>4, <2>1, <2>2, <2>3
<1>12. Whole(c)
  <2>1. \E U : c \in Seq(U)
    BY <1>5
  <2> QED
    BY <1>5, <1>9, <1>10, <1>11, <2>1 DEF Whole
<1> QED
  BY <1>12 DEF c

\* So does any number of them.
LEMMA WholeFlatten ==
  ASSUME NEW ss, NEW n \in Nat, Len(ss) = n, ss = [i \in 1 .. n |-> ss[i]], \A i \in 1 .. n : Whole(ss[i])
  PROVE  Whole(FlattenSeq(ss))
<1>1. CASE n = 0
  <2>1. ss = <<>>
    BY <1>1
  <2>2. FlattenSeq(ss) = <<>>
    BY <1>1, <2>1 DEF FlattenSeq
  <2>3. <<>> \in Seq({}) /\ Len(<<>>) = 0
    OBVIOUS
  <2>4. \E S : <<>> \in Seq(S)
    BY <2>3
  <2>5. 1 .. 0 = {} /\ 1 .. 0 - 1 = {} /\ ~ 0 > 0
    OBVIOUS
  <2>6. Whole(<<>>)
    BY <2>3, <2>4, <2>5 DEF Whole
  <2> QED
    BY <2>2, <2>6
<1>2. CASE n # 0
  <2>1. PICK f : /\ FlattenSeq(ss) = f[n] /\ f[1] = ss[1]
                 /\ \A i \in 2 .. n : f[i] = f[i - 1] \o ss[i]
    <3>1. n \in Nat \ {0}
      BY <1>2
    <3>2. \E f : /\ FlattenSeq(ss) = f[n]
                 /\ f[1] = ss[1]
                 /\ \A i \in 2 .. n : f[i] = f[i - 1] \o ss[i]
      BY ONLY <3>1, Len(ss) = n, FlattenRecursion, Zenon
    <3> QED
      BY <3>2, Zenon
  <2> DEFINE T == {i \in 1 .. n : ~ Whole(f[i])}
  <2>2. ASSUME T # {} PROVE FALSE
    <3>1. T \subseteq Nat
      OBVIOUS
    <3>2. PICK k \in T : \A y \in T : k <= y
      <4> HIDE DEF T
      <4> QED
        BY <2>2, <3>1, Least
    <3>3. k \in 1 .. n /\ ~ Whole(f[k])
      BY <3>2
    <3>4. k # 1
      BY <1>2, <2>1, <3>3
    <3>5. k \in 2 .. n /\ k - 1 \in 1 .. n /\ k - 1 \notin T
      <4> HIDE DEF T
      <4> QED
        BY <3>2, <3>3, <3>4
    <3>6. Whole(f[k - 1]) /\ Whole(ss[k])
      BY <3>3, <3>5
    <3>7. Whole(f[k - 1] \o ss[k])
      BY <3>6, WholeConcat
    <3>8. f[k] = f[k - 1] \o ss[k]
      BY <2>1, <3>5
    <3> QED
      BY <3>3, <3>7, <3>8
  <2> QED
    BY <1>2, <2>1, <2>2
<1> QED
  BY <1>1, <1>2

\* The objects of a resource in the order of the dump: the resource first.
Listing(s, t) ==
  /\ s \in Seq(DOMAIN t) /\ Len(s) >= 1 /\ s[1] = resource
  /\ \A i \in 2 .. Len(s) : s[i] # resource

\* More objects at the end.
LEMMA ListingConcat ==
  ASSUME NEW t, NEW s, Listing(s, t), NEW S, S \subseteq DOMAIN t \ {resource}, NEW u \in Seq(S)
  PROVE  Listing(s \o u, t)
<1> DEFINE D == DOMAIN t
           m == Len(s)
           n == Len(u)
<1>1. s \in Seq(D) /\ u \in Seq(D) /\ m \in Nat /\ n \in Nat /\ m >= 1 /\ s[1] = resource
  BY DEF Listing
<1>2. \A i \in 1 .. n : u[i] # resource
  OBVIOUS
<1>3. \A i \in 2 .. m : s[i] # resource
  BY DEF Listing
<1> HIDE DEF D
<1>4. /\ s \o u \in Seq(D) /\ Len(s \o u) = m + n
      /\ \A i \in 1 .. m + n : (s \o u)[i] = IF i <= m THEN s[i] ELSE u[i - m]
  BY <1>1, ConcatProperties
<1> HIDE DEF m, n
<1>5. (s \o u)[1] = resource /\ m + n >= 1
  BY <1>1, <1>4
<1>6. ASSUME NEW i \in 2 .. m + n PROVE (s \o u)[i] # resource
  <2>1. CASE i <= m
    <3>1. i \in 2 .. m /\ (s \o u)[i] = s[i]
      BY <1>1, <1>4, <2>1
    <3> QED
      BY <1>3, <3>1
  <2>2. CASE ~ i <= m
    <3>1. i - m \in 1 .. n /\ (s \o u)[i] = u[i - m]
      BY <1>1, <1>4, <2>2
    <3> QED
      BY <1>2, <3>1
  <2> QED
    BY <2>1, <2>2
<1> QED
  BY <1>4, <1>5, <1>6 DEF Listing, D

\* The messages about one resource are a bundle.
LEMMA DumpOfWhole ==
  ASSUME NEW r \in DOMAIN kern, IsTree(kern[r])
  PROVE  Whole(DumpOf(r))
<1> DEFINE t == kern[r]
           D == SetToSeq(Devices \intersect DOMAIN t)
           C == SetToSeq(Connections \intersect DOMAIN t)
           P == SetToSeq(PeerDevices \intersect DOMAIN t)
           objs == <<resource>> \o D \o C \o P
           n == Len(objs)
<1>1. DOMAIN t \subseteq Objects /\ resource \in DOMAIN t /\ IsTree(t)
  BY DEF IsTree
<1>2. \A S : S \subseteq DOMAIN t => IsFiniteSet(S)
  BY <1>1, ObjectAssumption, FS_Subset
<1>3. /\ D \in Seq(Devices \intersect DOMAIN t)
      /\ C \in Seq(Connections \intersect DOMAIN t)
      /\ P \in Seq(PeerDevices \intersect DOMAIN t)
  <2>1. /\ IsFiniteSet(Devices \intersect DOMAIN t)
        /\ IsFiniteSet(Connections \intersect DOMAIN t)
        /\ IsFiniteSet(PeerDevices \intersect DOMAIN t)
    BY <1>2
  <2> QED
    BY <2>1, ListedElements
<1>4. /\ Devices \intersect DOMAIN t \subseteq DOMAIN t \ {resource}
      /\ Connections \intersect DOMAIN t \subseteq DOMAIN t \ {resource}
      /\ PeerDevices \intersect DOMAIN t \subseteq DOMAIN t \ {resource}
  BY KindsDiffer
<1>5. DumpOf(r) = [i \in DOMAIN objs |-> Msg(0, "exists", r, objs[i], t[objs[i]], i < Len(objs))]
  BY DEF DumpOf
<1> HIDE DEF t, D, C, P
<1>6. Listing(<<resource>>, t)
  BY <1>1 DEF Listing
<1>7. Listing(<<resource>> \o D, t)
  BY <1>3, <1>4, <1>6, ListingConcat
<1>8. Listing(<<resource>> \o D \o C, t)
  BY <1>3, <1>4, <1>7, ListingConcat
<1>9. Listing(objs, t)
  BY <1>3, <1>4, <1>8, ListingConcat
<1> HIDE DEF objs
<1>10. n \in Nat /\ DOMAIN objs = 1 .. n /\ n >= 1 /\ objs[1] = resource
  BY <1>9, LenProperties DEF Listing
<1>11. \A i \in 1 .. n : objs[i] \in DOMAIN t
  BY <1>9, <1>10 DEF Listing
<1>12. \A i \in 2 .. n : objs[i] # resource
  BY <1>9 DEF Listing
<1> DEFINE d == [i \in 1 .. n |-> Msg(0, "exists", r, objs[i], t[objs[i]], i < n)]
<1>13. DumpOf(r) = d
  BY <1>5, <1>10
<1> HIDE DEF n
<1>14. \A i \in 1 .. n : /\ d[i].act = "exists" /\ d[i].res = r /\ d[i].obj = objs[i]
                         /\ d[i].info = t[objs[i]] /\ d[i].cont = (i < n)
  BY DEF Msg
<1>15. \A i \in 1 .. n : Tells(d[i])
  <2> SUFFICES ASSUME NEW i \in 1 .. n PROVE Tells(d[i])
    OBVIOUS
  <2>1. objs[i] \in Objects /\ InfoOK(objs[i], t[objs[i]])
    BY <1>1, <1>11, TreeInfo
  <2> HIDE DEF d
  <2> QED
    BY <1>14, <2>1 DEF Tells
<1>16. d \in Seq({d[i] : i \in 1 .. n}) /\ Len(d) = n
  <2>1. d \in [1 .. n -> {d[i] : i \in 1 .. n}]
    OBVIOUS
  <2> HIDE DEF d
  <2>2. d \in Seq({d[i] : i \in 1 .. n})
    BY <1>10, <2>1, SeqDef
  <2> QED
    BY <1>10, <2>1, <2>2, LenProperties
<1> HIDE DEF d
<1>17. ~ Later(d[1])
  BY <1>10, <1>14 DEF Later
<1>18. ASSUME NEW i \in 1 .. n - 1
       PROVE  (Later(d[i + 1]) <=> d[i].cont) /\ (d[i].cont => d[i + 1].res = d[i].res)
  <2>1. i \in 1 .. n /\ i + 1 \in 1 .. n /\ i + 1 \in 2 .. n /\ i < n
    BY <1>10
  <2> QED
    BY <1>12, <1>14, <2>1 DEF Later
<1>19. \A i \in 1 .. n : d[i].act = "exists" /\ Tells(d[i]) /\ (d[i].cont => i < n)
  BY <1>14, <1>15
<1>20. \E S : d \in Seq(S)
  BY <1>16
<1>21. Whole(d)
  BY <1>16, <1>17, <1>18, <1>19, <1>20 DEF Whole
<1> QED
  BY <1>13, <1>21

\* The answer to a request is made of bundles, then the end.
LEMMA DumpHasShape ==
  ASSUME DOMAIN kern \subseteq Resources, \A r \in DOMAIN kern : IsTree(kern[r])
  PROVE  DumpShape(Dump)
<1> DEFINE R == {r \in DOMAIN kern : Filter \in {"all", r}}
           rs == SetToSeq(R)
           n == Len(rs)
           ss == [i \in DOMAIN rs |-> DumpOf(rs[i])]
           a == FlattenSeq(ss)
           x == Msg(0, "done", NoName, resource, NoName, FALSE)
           y == Msg(0, "NLMSG_DONE", NoName, resource, NoName, FALSE)
<1>1. Dump = a \o <<x, y>>
  BY DEF Dump
<1>2. IsFiniteSet(R) /\ R \subseteq DOMAIN kern
  BY ObjectAssumption, FS_Subset
<1> HIDE DEF R
<1>3. rs \in Seq(R)
  BY <1>2, ListedElements
<1> HIDE DEF rs
<1>4. n \in Nat /\ DOMAIN rs = 1 .. n /\ \A i \in 1 .. n : rs[i] \in R
  BY <1>3, LenProperties
<1>5. ss = [i \in 1 .. n |-> ss[i]] /\ \A i \in 1 .. n : ss[i] = DumpOf(rs[i])
  BY <1>4
<1>6. \A i \in 1 .. n : Whole(ss[i])
  BY <1>2, <1>4, <1>5, DumpOfWhole
<1>7. Len(ss) = n
  <2>1. ss \in [1 .. n -> {ss[i] : i \in 1 .. n}]
    BY <1>5
  <2> HIDE DEF ss, n
  <2>2. ss \in Seq({ss[i] : i \in 1 .. n})
    BY <1>4, <2>1, SeqDef
  <2> QED
    BY <1>4, <2>1, <2>2, LenProperties
<1> HIDE DEF ss, n
<1>8. Whole(a)
  BY <1>4, <1>5, <1>6, <1>7, WholeFlatten
<1> HIDE DEF a
<1> DEFINE l == Len(a)
           d == a \o <<x, y>>
<1>9. PICK S : a \in Seq(S)
  BY <1>8 DEF Whole
<1> DEFINE S2 == S \union {x, y}
<1>10. a \in Seq(S2) /\ <<x, y>> \in Seq(S2) /\ Len(<<x, y>>) = 2
  <2> HIDE DEF x, y
  <2> QED
    BY <1>9
<1>11. l \in Nat
  BY <1>9
<1>12. x.act = "done" /\ y.act = "NLMSG_DONE"
  BY DEF Msg
<1> HIDE DEF x, y, S2
<1>13. /\ d \in Seq(S2) /\ Len(d) = l + 2
       /\ \A i \in 1 .. l + 2 : d[i] = IF i <= l THEN a[i] ELSE <<x, y>>[i - l]
  BY <1>10, ConcatProperties
<1>14. DOMAIN d = 1 .. l + 2
  BY <1>13, LenProperties
<1> HIDE DEF d, l
<1>15. (\A i \in 1 .. l : d[i] = a[i]) /\ d[l + 1] = x /\ d[l + 2] = y
  BY <1>11, <1>13
<1>16. /\ \A i \in 1 .. l : a[i].act = "exists" /\ Tells(a[i]) /\ (a[i].cont => i < l)
       /\ \A i \in 1 .. l - 1 : (Later(a[i + 1]) <=> a[i].cont) /\ (a[i].cont => a[i + 1].res = a[i].res)
  BY <1>8 DEF Whole, l
<1>17. ASSUME NEW i \in DOMAIN d
       PROVE  /\ d[i].act = "exists" => Tells(d[i]) /\ (d[i].cont => i + 1 \in DOMAIN d)
              /\ i + 1 \in DOMAIN d =>
                   /\ d[i + 1].act = "exists" => d[i].act = "exists"
                   /\ Later(d[i + 1]) => d[i].cont
                   /\ d[i].act = "exists" /\ d[i].cont => Later(d[i + 1]) /\ d[i + 1].res = d[i].res
  <2>1. CASE i < l
    <3>1. i \in 1 .. l /\ i \in 1 .. l - 1 /\ i + 1 \in 1 .. l /\ i + 1 \in DOMAIN d
      BY <1>11, <1>14, <2>1
    <3> QED
      BY <1>15, <1>16, <3>1
  <2>2. CASE i = l
    <3>1. i \in 1 .. l /\ ~ i < l
      BY <1>11, <1>14, <2>2
    <3> QED
      BY <1>12, <1>15, <1>16, <2>2, <3>1 DEF Later
  <2>3. CASE i = l + 1
    <3>1. d[i] = x /\ d[i + 1] = y
      BY <1>11, <1>15, <2>3
    <3> QED
      BY <1>12, <3>1 DEF Later
  <2>4. CASE i = l + 2
    <3>1. d[i] = y /\ i + 1 \notin DOMAIN d
      BY <1>11, <1>14, <1>15, <2>4
    <3> QED
      BY <1>12, <3>1
  <2> QED
    BY <1>11, <1>14, <2>1, <2>2, <2>3, <2>4
<1>18. DumpShape(d)
  <2>1. \E U : d \in Seq(U)
    BY <1>13
  <2> QED
    BY <1>17, <2>1 DEF DumpShape
<1> QED
  BY <1>1, <1>18 DEF d

\* What is left of a dump has the shape of one, and its first part follows.
LEMMA ShapeTail ==
  ASSUME NEW d, DumpShape(d), d # <<>>
  PROVE  /\ DumpShape(Tail(d))
         /\ Head(d).act = "exists" => Tells(Head(d)) /\ (Head(d).cont => Tail(d) # <<>>)
         /\ Tail(d) # <<>> =>
              /\ Head(Tail(d)).act = "exists" => Head(d).act = "exists"
              /\ Later(Head(Tail(d))) => Head(d).cont
              /\ Head(d).act = "exists" /\ Head(d).cont =>
                   Later(Head(Tail(d))) /\ Head(Tail(d)).res = Head(d).res
<1>1. PICK S : d \in Seq(S)
  BY DEF DumpShape
<1> DEFINE n == Len(d)
           e == Tail(d)
<1>2. n \in Nat /\ n >= 1 /\ DOMAIN d = 1 .. n
  BY <1>1, LenProperties
<1>3. e \in Seq(S) /\ Len(e) = n - 1
  BY <1>1, HeadTailProperties
<1>4. DOMAIN e = 1 .. n - 1
  BY <1>3, LenProperties
<1>5. \A i \in 1 .. n - 1 : e[i] = d[i + 1]
  BY <1>1, <1>3, HeadTailProperties
<1>6. Head(d) = d[1]
  BY <1>1
<1>7. e # <<>> => Head(e) = d[2] /\ n >= 2
  <2>1. e # <<>> => Head(e) = e[1] /\ Len(e) >= 1
    BY <1>3
  <2> HIDE DEF e, n
  <2> QED
    BY <1>2, <1>3, <1>5, <2>1
<1>8. n >= 2 => e # <<>>
  <2> HIDE DEF n, e
  <2>1. e = <<>> => Len(e) = 0
    OBVIOUS
  <2> QED
    BY <1>2, <1>3, <2>1
<1> HIDE DEF n, e
<1>9. ASSUME NEW i \in DOMAIN d
      PROVE  /\ d[i].act = "exists" => Tells(d[i]) /\ (d[i].cont => i + 1 \in DOMAIN d)
             /\ i + 1 \in DOMAIN d =>
                  /\ d[i + 1].act = "exists" => d[i].act = "exists"
                  /\ Later(d[i + 1]) => d[i].cont
                  /\ d[i].act = "exists" /\ d[i].cont => Later(d[i + 1]) /\ d[i + 1].res = d[i].res
  BY DEF DumpShape
<1>10. DumpShape(e)
  <2>1. ASSUME NEW i \in DOMAIN e
        PROVE  /\ e[i].act = "exists" => Tells(e[i]) /\ (e[i].cont => i + 1 \in DOMAIN e)
               /\ i + 1 \in DOMAIN e =>
                    /\ e[i + 1].act = "exists" => e[i].act = "exists"
                    /\ Later(e[i + 1]) => e[i].cont
                    /\ e[i].act = "exists" /\ e[i].cont => Later(e[i + 1]) /\ e[i + 1].res = e[i].res
    <3>1. i + 1 \in DOMAIN d /\ e[i] = d[i + 1]
      BY <1>2, <1>4, <1>5
    <3>2. (i + 1) + 1 \in DOMAIN d => i + 1 \in DOMAIN e
      BY <1>2, <1>4
    <3>3. i + 1 \in DOMAIN e => (i + 1) + 1 \in DOMAIN d /\ e[i + 1] = d[(i + 1) + 1]
      BY <1>2, <1>4, <1>5
    <3> QED
      BY <1>9, <3>1, <3>2, <3>3
  <2>2. \E U : e \in Seq(U)
    BY <1>3
  <2> QED
    BY <2>1, <2>2 DEF DumpShape
<1>11. 1 \in DOMAIN d /\ (e # <<>> => 1 + 1 \in DOMAIN d /\ d[1 + 1] = Head(e)) /\ (1 + 1 \in DOMAIN d => e # <<>>)
  BY <1>2, <1>7, <1>8
<1> QED
  BY <1>6, <1>9, <1>10, <1>11 DEF e

-----------------------------------------------------------------------------
(* Versions of a resource *)

\* Adding or changing an object.
LEMMA TreePut ==
  ASSUME NEW t, IsTree(t), NEW o \in Objects, NEW info, InfoOK(o, info),
         o \in PeerDevices \union Paths => ConnectionOf(o) \in DOMAIN t
  PROVE  IsTree(Put(t, o, info))
<1> DEFINE u == Put(t, o, info)
<1>1. DOMAIN u = DOMAIN t \union {o} /\ u[o] = info /\ \A x \in DOMAIN t : x # o => u[x] = t[x]
  BY DEF Put
<1> HIDE DEF u
<1>2. \A x \in DOMAIN u : x \in Objects /\ InfoOK(x, u[x])
  BY <1>1, TreeInfo
<1>3. \A x \in DOMAIN u : x \in PeerDevices \union Paths => ConnectionOf(x) \in DOMAIN u
  BY <1>1 DEF IsTree
<1>4. resource \in DOMAIN u
  BY <1>1 DEF IsTree
<1>5. IsTree(u)
  BY <1>2, <1>3, <1>4 DEF IsTree, InfoOK
<1> QED
  BY <1>5 DEF u

\* Removing an object with what belongs to it.
LEMMA TreeWithout ==
  ASSUME NEW t, IsTree(t), NEW S, resource \notin S,
         \A x \in DOMAIN t \intersect (PeerDevices \union Paths) : ConnectionOf(x) \in S => x \in S
  PROVE  IsTree(Without(t, S))
<1> DEFINE u == Without(t, S)
<1>1. DOMAIN u = DOMAIN t \ S /\ \A x \in DOMAIN t \ S : u[x] = t[x]
  BY WithoutValues
<1> HIDE DEF u
<1>2. \A x \in DOMAIN u : x \in Objects /\ InfoOK(x, u[x])
  BY <1>1, TreeInfo
<1>3. \A x \in DOMAIN u : x \in PeerDevices \union Paths => ConnectionOf(x) \in DOMAIN u
  BY <1>1 DEF IsTree
<1>4. resource \in DOMAIN u
  BY <1>1 DEF IsTree
<1>5. IsTree(u)
  BY <1>2, <1>3, <1>4 DEF IsTree, InfoOK
<1> QED
  BY <1>5 DEF u

\* A version with a new state of one of its objects.
LEMMA TreeExcept ==
  ASSUME NEW t, IsTree(t), NEW o \in DOMAIN t, NEW info, InfoOK(o, info)
  PROVE  IsTree([t EXCEPT ![o] = info])
<1> DEFINE u == [t EXCEPT ![o] = info]
<1>1. DOMAIN u = DOMAIN t /\ u[o] = info /\ \A x \in DOMAIN t : x # o => u[x] = t[x]
  OBVIOUS
<1> HIDE DEF u
<1>2. \A x \in DOMAIN u : x \in Objects /\ InfoOK(x, u[x])
  BY <1>1, TreeInfo
<1>3. IsTree(u)
  BY <1>1, <1>2 DEF IsTree, InfoOK
<1> QED
  BY <1>3 DEF u

\* delete_connection() takes the peer devices and paths with it.
LEMMA TreeDestroy ==
  ASSUME NEW t, IsTree(t), NEW o \in Objects, o # resource
  PROVE  IsTree(ApplyDestroy(t, o))
<1> DEFINE S == {o} \union {x \in PeerDevices \union Paths : ConnectionOf(x) = o}
<1>1. resource \notin S
  BY KindsDiffer
<1>2. ASSUME NEW x \in DOMAIN t \intersect (PeerDevices \union Paths), ConnectionOf(x) \in S
      PROVE  x \in S
  <2>1. ConnectionOf(x) \in Connections
    BY TheirConnections
  <2>2. ConnectionOf(x) = o
    BY <1>2, <2>1, KindsDiffer
  <2> QED
    BY <2>2
<1>3. IsTree(Without(t, S))
  <2> HIDE DEF S
  <2> QED
    BY <1>1, <1>2, TreeWithout
<1> QED
  BY <1>3 DEF ApplyDestroy

\* store_*_check() and the changes keep a version well formed.
LEMMA TreeStored ==
  ASSUME NEW t, IsTree(t), NEW o \in Objects, NEW info, InfoOK(o, info)
  PROVE  IsTree(StoreCheck(t, o, info)) /\ IsTree(ApplyChange(t, o, info))
<1>1. IsTree(StoreCheck(t, o, info))
  <2>1. CASE o \in DOMAIN t \/ (o \in PeerDevices \union Paths /\ ConnectionOf(o) \notin DOMAIN t)
    BY <2>1 DEF StoreCheck
  <2>2. CASE ~ (o \in DOMAIN t \/ (o \in PeerDevices \union Paths /\ ConnectionOf(o) \notin DOMAIN t))
    <3>1. IsTree(Put(t, o, info))
      BY <2>2, TreePut
    <3> QED
      BY <2>2, <3>1 DEF StoreCheck
  <2> QED
    BY <2>1, <2>2
<1>2. IsTree(ApplyChange(t, o, info))
  <2>1. CASE o \in DOMAIN t
    BY <2>1, TreeExcept DEF ApplyChange
  <2>2. CASE o \notin DOMAIN t
    BY <1>1, <2>2 DEF ApplyChange
  <2> QED
    BY <2>1, <2>2
<1> QED
  BY <1>1, <1>2

\* Changes of an entry of update_resources.
LEMMA EntryDestroyed ==
  ASSUME NEW e, IsEntry(e), NEW n, NEW a, a = [e EXCEPT !.destroyed = TRUE, !.rename = n]
  PROVE  IsEntry(a) /\ a.rename = n
<1> DEFINE T == {e.tree}
           N == {e.rename, n}
<1>1. e \in [tree : T, destroyed : BOOLEAN, rename : N] /\ n \in N /\ IsTree(e.tree)
  BY DEF IsEntry
<1> HIDE DEF T, N
<1>2. a \in [tree : T, destroyed : BOOLEAN, rename : N] /\ a.tree = e.tree /\ a.rename = n
  BY <1>1
<1> QED
  BY ONLY <1>1, <1>2 DEF IsEntry

\* Only the new name is set.
LEMMA EntryRenamed ==
  ASSUME NEW e, IsEntry(e), NEW n, NEW a, a = [e EXCEPT !.rename = n]
  PROVE  IsEntry(a) /\ a.rename = n /\ a.tree = e.tree /\ a.destroyed = e.destroyed
<1> DEFINE T == {e.tree}
           N == {e.rename, n}
<1>1. e \in [tree : T, destroyed : BOOLEAN, rename : N] /\ n \in N /\ IsTree(e.tree)
  BY DEF IsEntry
<1> HIDE DEF T, N
<1>2. /\ a \in [tree : T, destroyed : BOOLEAN, rename : N] /\ a.tree = e.tree /\ a.rename = n
      /\ a.destroyed = e.destroyed
  BY <1>1
<1> QED
  BY ONLY <1>1, <1>2 DEF IsEntry

\* apply_event() leaves an entry of update_resources well formed.
LEMMA EntryApplied ==
  ASSUME NEW e, IsEntry(e), NEW action, NEW m, m.obj \in Objects,
         action \in {"exists", "create", "change"} => InfoOK(m.obj, m.info)
  PROVE  /\ IsEntry(ApplyToEntry(e, action, m))
         /\ action # "rename" => ApplyToEntry(e, action, m).rename = NoName
         /\ action = "rename" => /\ ApplyToEntry(e, action, m).tree = e.tree
                                 /\ ApplyToEntry(e, action, m).destroyed = e.destroyed
<1> DEFINE a == ApplyToEntry(e, action, m)
<1>1. IsTree(e.tree)
  BY DEF IsEntry
<1>2. CASE action \in {"exists", "create"} /\ m.obj # resource
  <2> DEFINE x == StoreCheck(e.tree, m.obj, m.info)
  <2>1. a = [e EXCEPT !.tree = x, !.rename = NoName]
    BY <1>2 DEF ApplyToEntry
  <2>2. IsTree(x)
    BY <1>1, <1>2, TreeStored
  <2> HIDE DEF a, x
  <2>3. IsEntry(a) /\ a.rename = NoName
    <3> DEFINE T == {e.tree, x}
               N == {e.rename, NoName}
    <3>1. e \in [tree : T, destroyed : BOOLEAN, rename : N] /\ x \in T /\ NoName \in N
      BY DEF IsEntry
    <3> HIDE DEF T, N
    <3>2. a \in [tree : T, destroyed : BOOLEAN, rename : N] /\ a.tree = x /\ a.rename = NoName
      BY <2>1, <3>1
    <3> QED
      BY ONLY <2>2, <3>2 DEF IsEntry
  <2> QED
    BY <1>2, <2>3 DEF a
<1>3. CASE action = "change"
  <2> DEFINE x == ApplyChange(e.tree, m.obj, m.info)
  <2>1. a = [e EXCEPT !.tree = x, !.rename = NoName]
    BY <1>3 DEF ApplyToEntry
  <2>2. IsTree(x)
    BY <1>1, <1>3, TreeStored
  <2> HIDE DEF a, x
  <2>3. IsEntry(a) /\ a.rename = NoName
    <3> DEFINE T == {e.tree, x}
               N == {e.rename, NoName}
    <3>1. e \in [tree : T, destroyed : BOOLEAN, rename : N] /\ x \in T /\ NoName \in N
      BY DEF IsEntry
    <3> HIDE DEF T, N
    <3>2. a \in [tree : T, destroyed : BOOLEAN, rename : N] /\ a.tree = x /\ a.rename = NoName
      BY <2>1, <3>1
    <3> QED
      BY ONLY <2>2, <3>2 DEF IsEntry
  <2> QED
    BY <1>3, <2>3 DEF a
<1>4. CASE action = "destroy" /\ m.obj = resource
  <2>1. a = [e EXCEPT !.destroyed = TRUE, !.rename = NoName]
    BY <1>4 DEF ApplyToEntry
  <2> HIDE DEF a
  <2>3. IsEntry(a) /\ a.rename = NoName
    BY <1>1, <2>1, EntryDestroyed
  <2> QED
    BY <1>4, <2>3 DEF a
<1>5. CASE action = "destroy" /\ m.obj # resource
  <2> DEFINE x == ApplyDestroy(e.tree, m.obj)
  <2>1. a = [e EXCEPT !.tree = x, !.rename = NoName]
    BY <1>5 DEF ApplyToEntry
  <2>2. IsTree(x)
    BY <1>1, <1>5, TreeDestroy
  <2> HIDE DEF a, x
  <2>3. IsEntry(a) /\ a.rename = NoName
    <3> DEFINE T == {e.tree, x}
               N == {e.rename, NoName}
    <3>1. e \in [tree : T, destroyed : BOOLEAN, rename : N] /\ x \in T /\ NoName \in N
      BY DEF IsEntry
    <3> HIDE DEF T, N
    <3>2. a \in [tree : T, destroyed : BOOLEAN, rename : N] /\ a.tree = x /\ a.rename = NoName
      BY <2>1, <3>1
    <3> QED
      BY ONLY <2>2, <3>2 DEF IsEntry
  <2> QED
    BY <1>5, <2>3 DEF a
<1>6. CASE action = "rename"
  <2>1. a = [e EXCEPT !.rename = m.info]
    BY <1>6 DEF ApplyToEntry
  <2> HIDE DEF a
  <2>3. IsEntry(a) /\ a.rename = m.info /\ a.tree = e.tree /\ a.destroyed = e.destroyed
    BY <1>1, <2>1, EntryRenamed
  <2> QED
    BY <1>6, <2>3 DEF a
<1>7. CASE /\ ~ (action \in {"exists", "create"} /\ m.obj # resource)
           /\ action # "change" /\ action # "destroy" /\ action # "rename"
  <2>1. a = [e EXCEPT !.rename = NoName]
    BY <1>7 DEF ApplyToEntry
  <2> HIDE DEF a
  <2>3. IsEntry(a) /\ a.rename = NoName
    BY <1>1, <2>1, EntryRenamed
  <2> QED
    BY <1>7, <2>3 DEF a
<1> QED
  BY <1>2, <1>3, <1>4, <1>5, <1>6, <1>7

-----------------------------------------------------------------------------
(* The lines *)

\* a resource as a reader that knows all of it sees it
View(t) == [o \in DOMAIN t |-> Fields(t, o)]

\* The states of an object have the same fields.
LEMMA SameFields ==
  ASSUME NEW o \in Objects, NEW a, NEW b, InfoOK(o, a), InfoOK(o, b)
  PROVE  DOMAIN a = DOMAIN b /\ b = [f \in DOMAIN b |-> b[f]]
<1>1. CASE o = resource
  BY <1>1 DEF InfoOK, ResourceInfo
<1>2. CASE o \in Devices
  BY <1>2 DEF InfoOK, DeviceInfo
<1>3. CASE o \in Connections
  BY <1>3 DEF InfoOK, ConnectionInfo
<1>4. CASE o \in PeerDevices
  BY <1>4 DEF InfoOK, PeerDeviceInfo
<1>5. CASE o \in Paths
  BY <1>5 DEF InfoOK, PathInfo
<1> QED
  BY <1>1, <1>2, <1>3, <1>4, <1>5 DEF Objects

\* A line with all fields replaces what was known.
LEMMA OverlayAll ==
  ASSUME NEW a, NEW b, DOMAIN a \subseteq DOMAIN b, b = [f \in DOMAIN b |-> b[f]]
  PROVE  Overlay(a, b) = b
<1>1. DOMAIN a \union DOMAIN b = DOMAIN b
  OBVIOUS
<1>2. Overlay(a, b) = [f \in DOMAIN b |-> b[f]]
  BY <1>1 DEF Overlay
<1> QED
  BY <1>2

\* The fields of a resource's line.
LEMMA ResourceFields ==
  ASSUME NEW t, IsTree(t)
  PROVE  /\ DOMAIN Fields(t, resource) = {"role", "fail_io", "may_promote", "promotion_score"}
         /\ Fields(t, resource) = [f \in DOMAIN Fields(t, resource) |-> Fields(t, resource)[f]]
<1> DEFINE p == compute_promotion_info(t)
<1>1. DOMAIN p = {"may_promote", "promotion_score"}
  <2>1. \A x, y : DOMAIN [may_promote |-> x, promotion_score |-> y] = {"may_promote", "promotion_score"}
    OBVIOUS
  <2>2. \E x, y : p = [may_promote |-> x, promotion_score |-> y]
    <3> DEFINE devs == VolumesOf(t)
               withDisk == \A v \in devs : t[device(v)].disk # "Diskless"
               local == Cardinality({v \in devs : t[device(v)].disk = "UpToDate"})
               replicas == {count_up_to_date_replicas(t, v) : v \in devs}
               refused == \/ devs = {}
                          \/ t[resource].fail_io
                          \/ \E v \in devs : ~ t[device(v)].quorum
                          \/ 0 \in replicas
               may == /\ ~ have_primary(t)
                      /\ \A v \in devs : have_stable_up_to_date_replicas(t, v)
               score == (IF withDisk THEN 10000 ELSE 0) + 100 * Min({local, 99}) + Min(replicas \union {99})
    <3>1. p = IF refused THEN [may_promote |-> FALSE, promotion_score |-> 0]
              ELSE [may_promote |-> may, promotion_score |-> score]
      BY DEF compute_promotion_info
    <3> HIDE DEF p, refused, may, score
    <3> QED
      BY <3>1, Zenon
  <2> HIDE DEF p
  <2> QED
    BY <2>1, <2>2
<1>2. DOMAIN t[resource] = {"role", "fail_io"}
  BY DEF IsTree, ResourceInfo
<1>3. Fields(t, resource) = Overlay(p, t[resource])
  BY DEF Fields
<1> HIDE DEF p
<1>4. DOMAIN Overlay(p, t[resource]) = DOMAIN p \union DOMAIN t[resource]
  BY DEF Overlay
<1>5. Overlay(p, t[resource]) = [f \in DOMAIN Overlay(p, t[resource]) |-> Overlay(p, t[resource])[f]]
  BY DEF Overlay
<1> QED
  BY <1>1, <1>2, <1>3, <1>4, <1>5

\* The fields that differ are enough.
LEMMA OverlayChanged ==
  ASSUME NEW a, NEW b, DOMAIN a = DOMAIN b, b = [f \in DOMAIN b |-> b[f]],
         NEW C, C = {f \in DOMAIN b : a[f] # b[f]}
  PROVE  Overlay(a, Restrict(b, C)) = b
<1> DEFINE r == Restrict(b, C)
<1>1. DOMAIN r = C /\ \A f \in C : r[f] = b[f]
  BY DEF Restrict
<1> HIDE DEF r
<1>2. DOMAIN a \union DOMAIN r = DOMAIN b
  BY <1>1
<1>3. \A f \in DOMAIN b : (IF f \in DOMAIN r THEN r[f] ELSE a[f]) = b[f]
  BY <1>1
<1>4. Overlay(a, r) = [f \in DOMAIN b |-> b[f]]
  BY <1>2, <1>3 DEF Overlay
<1> QED
  BY <1>4 DEF r

\* The lines about a version, read with the previous version known, tell the
\* new one: print_changes() leaves out nothing that has changed.
LEMMA EntryRead ==
  ASSUME NEW e, IsEntry(e), ~ e.destroyed, NEW old, NEW seen,
         (old = <<>> /\ seen = <<>>) \/ (IsTree(old) /\ seen = View(old)),
         e.rename = NoName \/ (IsTree(old) /\ old = e.tree)
  PROVE  Consume(seen, print_changes(old, e)) = View(e.tree)
<1> DEFINE t == e.tree
           changed == print_resource_changes(old, t, e.rename)
           objs == print_object_changes(old, t) \union (IF changed = {} THEN {} ELSE {resource})
           F == [o \in objs |-> IF o = resource THEN Restrict(Fields(t, o), changed) ELSE Fields(t, o)]
           X == print_destroyed(old, e)
           G == X \union {o \in PeerDevices \union Paths : ConnectionOf(o) \in X}
           N == Fields(t, resource)
           O == Fields(old, resource)
           W == [o \in DOMAIN seen \union DOMAIN F |->
                   IF o \notin DOMAIN F THEN seen[o]
                   ELSE IF o \notin DOMAIN seen THEN F[o]
                   ELSE Overlay(seen[o], F[o])]
<1>1. Consume(seen, print_changes(old, e)) = Without(W, G)
  BY DEF Consume, print_changes
<1>2. IsTree(t)
  BY DEF IsEntry
<1>3. DOMAIN seen = DOMAIN old /\ (old = <<>> => DOMAIN old = {}) /\ (old # <<>> => IsTree(old) /\ seen = View(old))
  BY DEF View
<1>4. /\ X = {o \in DOMAIN old \ DOMAIN t : o \in PeerDevices \union Paths => ConnectionOf(o) \in DOMAIN t}
      /\ print_object_changes(old, t) = {o \in DOMAIN t \ {resource} : o \in DOMAIN old => old[o] # t[o]}
      /\ e.rename # NoName => changed = {}
      /\ e.rename = NoName => changed = {f \in DOMAIN N : old # <<>> => O[f] # N[f]}
  BY DEF print_destroyed, print_object_changes, print_resource_changes
<1>5. /\ DOMAIN N = {"role", "fail_io", "may_promote", "promotion_score"}
      /\ N = [f \in DOMAIN N |-> N[f]]
      /\ old # <<>> => /\ DOMAIN O = DOMAIN N
                       /\ O = [f \in DOMAIN O |-> O[f]]
  BY <1>2, <1>3, ResourceFields
<1>6. /\ DOMAIN F = objs
      /\ \A o \in objs : F[o] = IF o = resource THEN Restrict(N, changed) ELSE t[o]
  BY DEF Fields
<1>7. \A o : o # resource => Fields(t, o) = t[o] /\ Fields(old, o) = old[o]
  BY DEF Fields
<1>8. DOMAIN W = DOMAIN old \union objs /\ objs \subseteq DOMAIN t
  <2>1. resource \in DOMAIN t
    BY <1>2 DEF IsTree
  <2> HIDE DEF changed, F
  <2> QED
    BY <1>3, <1>4, <1>6, <2>1
<1>9. DOMAIN W \ G = DOMAIN t
  <2> HIDE DEF X, F, changed, W
  <2>1. ASSUME NEW o \in DOMAIN t PROVE o \in DOMAIN W /\ o \notin G
    <3>1. o \notin X
      BY <1>4
    <3>2. o \in PeerDevices \union Paths => ConnectionOf(o) \in DOMAIN t
      BY <1>2 DEF IsTree
    <3>3. o \notin G
      BY <1>4, <3>1, <3>2
    <3>4. CASE o \in DOMAIN old
      BY <1>8, <3>3, <3>4
    <3>5. CASE o \notin DOMAIN old /\ o # resource
      BY <1>4, <1>8, <3>3, <3>5
    <3>6. CASE o \notin DOMAIN old /\ o = resource
      <4>1. old = <<>>
        BY <1>3, <3>6 DEF IsTree
      <4>2. e.rename = NoName
        <5>1. ~ IsTree(old)
          BY <1>3, <4>1 DEF IsTree
        <5> QED
          BY <5>1
      <4>3. changed # {}
        BY <1>4, <1>5, <4>1, <4>2
      <4> QED
        BY <1>8, <3>3, <3>6, <4>3
    <3> QED
      BY <3>4, <3>5, <3>6
  <2>2. ASSUME NEW o \in DOMAIN W, o \notin DOMAIN t PROVE o \in G
    <3>1. o \in DOMAIN old /\ IsTree(old)
      BY <1>3, <1>8, <2>2
    <3>2. CASE o \in PeerDevices \union Paths /\ ConnectionOf(o) \notin DOMAIN t
      <4>1. ConnectionOf(o) \in DOMAIN old
        BY <3>1, <3>2 DEF IsTree
      <4>2. ConnectionOf(o) \notin PeerDevices \union Paths
        <5>1. ConnectionOf(o) \in Connections
          BY <3>2, TheirConnections
        <5> QED
          BY <5>1, KindsDiffer
      <4>3. ConnectionOf(o) \in X
        BY <1>4, <3>2, <4>1, <4>2
      <4> QED
        BY <3>2, <4>3
    <3>3. CASE ~ (o \in PeerDevices \union Paths /\ ConnectionOf(o) \notin DOMAIN t)
      BY <1>4, <2>2, <3>1, <3>3
    <3> QED
      BY <3>2, <3>3
  <2> QED
    BY <2>1, <2>2
<1>10. ASSUME NEW o \in DOMAIN t PROVE W[o] = Fields(t, o)
  <2>1. o \in DOMAIN W
    BY <1>9
  <2>2. W[o] = IF o \notin objs THEN seen[o]
               ELSE IF o \notin DOMAIN old THEN F[o]
               ELSE Overlay(seen[o], F[o])
    BY <1>3, <1>6, <2>1
  <2>3. o \in DOMAIN old => seen[o] = Fields(old, o) /\ IsTree(old) /\ old # <<>>
    BY <1>3 DEF View
  <2>4. o \in Objects /\ InfoOK(o, t[o])
    BY <1>2, TreeInfo
  <2>5. CASE o # resource
    <3> HIDE DEF W, F, changed
    <3>1. o \in objs <=> (o \in DOMAIN old => old[o] # t[o])
      BY <1>4, <2>5
    <3>2. CASE o \notin objs
      BY <1>7, <2>2, <2>3, <2>5, <3>1, <3>2
    <3>3. CASE o \in objs /\ o \notin DOMAIN old
      BY <1>6, <1>7, <2>2, <2>5, <3>3
    <3>4. CASE o \in objs /\ o \in DOMAIN old
      <4>1. InfoOK(o, old[o])
        BY <2>3, <3>4, TreeInfo
      <4>2. DOMAIN old[o] = DOMAIN t[o] /\ t[o] = [f \in DOMAIN t[o] |-> t[o][f]]
        BY <2>4, <4>1, SameFields
      <4>3. Overlay(old[o], t[o]) = t[o]
        BY <4>2, OverlayAll
      <4>4. W[o] = Overlay(seen[o], F[o]) /\ F[o] = t[o] /\ seen[o] = old[o]
        BY <1>6, <1>7, <2>2, <2>3, <2>5, <3>4
      <4> QED
        BY <1>7, <2>5, <4>3, <4>4
    <3> QED
      BY <3>2, <3>3, <3>4
  <2>6. CASE o = resource
    <3>1. resource \in objs <=> changed # {}
      BY <1>4
    <3> HIDE DEF W, F, objs
    <3>2. CASE e.rename # NoName
      <4>1. old = t /\ resource \notin objs /\ resource \in DOMAIN old
        BY <1>4, <2>6, <3>1, <3>2
      <4> QED
        BY <2>2, <2>3, <2>6, <4>1
    <3>3. CASE e.rename = NoName /\ old = <<>>
      <4>1. changed = DOMAIN N /\ changed # {}
        BY <1>4, <1>5, <3>3
      <4>2. resource \notin DOMAIN old
        BY <1>3, <3>3
      <4>3. W[o] = F[o] /\ F[o] = Restrict(N, changed)
        BY <1>6, <2>2, <2>6, <3>1, <4>1, <4>2
      <4>4. Restrict(N, DOMAIN N) = N
        <5> HIDE DEF N
        <5> QED
          BY <1>5 DEF Restrict
      <4> QED
        BY <2>6, <4>1, <4>3, <4>4
    <3>4. CASE e.rename = NoName /\ old # <<>>
      <4>1. resource \in DOMAIN old /\ seen[resource] = O
        <5>1. IsTree(old)
          BY <1>3, <3>4
        <5>2. resource \in DOMAIN old
          BY <5>1 DEF IsTree
        <5> QED
          BY <2>3, <2>6, <5>2
      <4>2. changed = {f \in DOMAIN N : O[f] # N[f]} /\ DOMAIN O = DOMAIN N
        BY <1>4, <1>5, <3>4
      <4>3. Overlay(O, Restrict(N, changed)) = N
        <5> HIDE DEF N, O, changed
        <5> QED
          BY <1>5, <4>2, OverlayChanged
      <4>4. CASE changed # {}
        BY <1>6, <2>2, <2>6, <3>1, <4>1, <4>3, <4>4
      <4>5. CASE changed = {}
        <5>1. W[o] = O
          BY <2>2, <2>6, <3>1, <4>1, <4>5
        <5>2. O = N
          <6> HIDE DEF N, O, changed
          <6>1. \A f \in DOMAIN N : O[f] = N[f]
            BY <4>2, <4>5
          <6>2. O = [f \in DOMAIN N |-> O[f]] /\ N = [f \in DOMAIN N |-> N[f]]
            BY <1>5, <3>4, <4>2
          <6>3. [f \in DOMAIN N |-> O[f]] = [f \in DOMAIN N |-> N[f]]
            BY <6>1
          <6> QED
            BY <6>2, <6>3
        <5> QED
          BY <2>6, <5>1, <5>2
      <4> QED
        BY <4>4, <4>5
    <3> QED
      BY <3>2, <3>3, <3>4
  <2> QED
    BY <2>5, <2>6
<1>11. Without(W, G) = [o \in DOMAIN t |-> Fields(t, o)]
  <2> HIDE DEF W, G
  <2>1. Without(W, G) = [o \in DOMAIN t |-> W[o]]
    BY <1>9 DEF Without, Restrict
  <2> QED
    BY <1>10, <2>1
<1> QED
  BY <1>1, <1>11 DEF View

\* the versions that wait for the rest of their bundle
EntriesOK ==
  \A r \in DOMAIN update_resources : IsEntry(update_resources[r]) /\ update_resources[r].rename = NoName

\* Storing the updates and reading their lines have the same result.
LEMMA UpdatesRead ==
  ASSUME TreesInv, ShownMatchesCopy, NEW upd,
         \A r \in DOMAIN upd : /\ IsEntry(upd[r])
                               /\ \/ upd[r].rename = NoName
                                  \/ r \in DOMAIN all_resources /\ upd[r].tree = all_resources[r],
         shown' = ReadUpdates(shown, [x \in DOMAIN upd |-> print_changes(OldVersion(x), upd[x])], upd),
         all_resources' = StoreUpdates(all_resources, upd)
  PROVE  /\ ShownMatchesCopy'
         /\ \A r \in DOMAIN all_resources' : IsTree(all_resources'[r])
<1> DEFINE lines == [x \in DOMAIN upd |-> print_changes(OldVersion(x), upd[x])]
           kept == DOMAIN all_resources \ DOMAIN upd
           live == {r \in DOMAIN upd : ~ upd[r].destroyed}
           names == kept \union {Target(upd, r) : r \in live}
           By(n) == CHOOSE r \in live : Target(upd, r) = n
           Seen(r) == IF r \in DOMAIN shown THEN shown[r] ELSE <<>>
<1>1. DOMAIN shown = DOMAIN all_resources /\ \A r \in DOMAIN shown : shown[r] = View(all_resources[r])
  BY DEF ShownMatchesCopy, View
<1>2. \A r \in DOMAIN all_resources : IsTree(all_resources[r])
  BY DEF TreesInv
<1>3. \A r \in DOMAIN upd : /\ lines[r] = print_changes(OldVersion(r), upd[r])
                            /\ lines[r].destroyed = print_destroyed(OldVersion(r), upd[r])
  BY DEF print_changes
<1>4. \A r \in DOMAIN upd : resource \in lines[r].destroyed <=> upd[r].destroyed
  <2> SUFFICES ASSUME NEW r \in DOMAIN upd
               PROVE  resource \in lines[r].destroyed <=> upd[r].destroyed
    OBVIOUS
  <2>1. resource \in DOMAIN upd[r].tree
    BY DEF IsEntry, IsTree
  <2>2. resource \in print_destroyed(OldVersion(r), upd[r]) <=> upd[r].destroyed
    BY <2>1 DEF print_destroyed
  <2> HIDE DEF lines
  <2> QED
    BY <1>3, <2>2
<1>5. live = {r \in DOMAIN upd : resource \notin lines[r].destroyed}
  <2> HIDE DEF lines
  <2> QED
    BY <1>4
<1>6. all_resources' = [n \in names |-> IF n \in kept THEN all_resources[n] ELSE upd[By(n)].tree]
  BY DEF StoreUpdates
<1> HIDE DEF lines
<1>7. shown' = [n \in names |-> IF n \in kept THEN shown[n] ELSE Consume(Seen(By(n)), lines[By(n)])]
  <2>1. shown' = ReadUpdates(shown, lines, upd)
    BY DEF lines
  <2> DEFINE liveR == {r \in DOMAIN upd : resource \notin lines[r].destroyed}
             keptR == DOMAIN shown \ DOMAIN upd
             Read(K, V) ==
               [n \in K \union {Target(upd, r) : r \in V} |->
                  IF n \in K THEN shown[n]
                  ELSE LET r == CHOOSE r \in V : Target(upd, r) = n
                       IN Consume(IF r \in DOMAIN shown THEN shown[r] ELSE <<>>, lines[r])]
  <2>2. shown' = Read(keptR, liveR)
    BY <2>1 DEF ReadUpdates
  <2>3. liveR = live /\ keptR = kept
    BY <1>1, <1>5
  <2> HIDE DEF liveR, keptR, live, kept, Read
  <2>4. shown' = Read(kept, live)
    BY <2>2, <2>3
  <2> QED
    BY <2>4 DEF Read
<1>8. \A n \in names : n \notin kept => By(n) \in live
  <2> SUFFICES ASSUME NEW n \in names, n \notin kept
               PROVE  By(n) \in live
    OBVIOUS
  <2>1. \E r \in live : Target(upd, r) = n
    OBVIOUS
  <2> HIDE DEF live
  <2> QED
    BY <2>1, Zenon
<1>9. ASSUME NEW r \in live
      PROVE  Consume(Seen(r), lines[r]) = View(upd[r].tree) /\ IsTree(upd[r].tree)
  <2> DEFINE old == OldVersion(r)
  <2>1. r \in DOMAIN upd /\ IsEntry(upd[r]) /\ ~ upd[r].destroyed
    OBVIOUS
  <2>2. lines[r] = print_changes(old, upd[r])
    BY <1>3, <2>1
  <2>3. (old = <<>> /\ Seen(r) = <<>>) \/ (IsTree(old) /\ Seen(r) = View(old))
    BY <1>1, <1>2 DEF OldVersion
  <2>4. upd[r].rename = NoName \/ (IsTree(old) /\ old = upd[r].tree)
    BY <1>2, <2>1 DEF OldVersion
  <2> HIDE DEF old, Seen
  <2>5. Consume(Seen(r), print_changes(old, upd[r])) = View(upd[r].tree)
    BY <2>1, <2>3, <2>4, EntryRead
  <2> QED
    BY <2>1, <2>2, <2>5 DEF IsEntry
<1> HIDE DEF live, kept, names, By, Seen
<1>10. DOMAIN all_resources' = names /\ DOMAIN shown' = names
  BY <1>6, <1>7
<1>11. \A n \in kept : n \in DOMAIN all_resources
  BY DEF kept
<1>12. \A n \in names : shown'[n] = View(all_resources'[n]) /\ IsTree(all_resources'[n])
  <2> SUFFICES ASSUME NEW n \in names
               PROVE  shown'[n] = View(all_resources'[n]) /\ IsTree(all_resources'[n])
    OBVIOUS
  <2>1. CASE n \in kept
    <3>1. shown'[n] = shown[n] /\ all_resources'[n] = all_resources[n]
      BY <1>6, <1>7, <2>1
    <3> QED
      BY <1>1, <1>2, <1>11, <2>1, <3>1
  <2>2. CASE n \notin kept
    <3>1. shown'[n] = Consume(Seen(By(n)), lines[By(n)]) /\ all_resources'[n] = upd[By(n)].tree
      BY <1>6, <1>7, <2>2
    <3> QED
      BY <1>8, <1>9, <2>2, <3>1
  <2> QED
    BY <2>1, <2>2
<1>13. ShownMatchesCopy'
  BY <1>10, <1>12 DEF ShownMatchesCopy, View
<1> QED
  BY <1>10, <1>12, <1>13

\* A resource on its own.
LEMMA BareTree ==
  ASSUME NEW info, InfoOK(resource, info)
  PROVE  IsTree(Bare(info))
<1> DEFINE t == Bare(info)
<1>1. DOMAIN t = {resource} /\ t[resource] = info
  BY DEF Bare
<1> HIDE DEF t
<1>2. IsTree(t)
  BY <1>1, KindsDiffer DEF IsTree, InfoOK, Objects
<1> QED
  BY <1>2 DEF t

\* One message: apply_event() drops it, adds it to the versions that are
\* waiting, or prints and stores them all.
LEMMA EventApplied ==
  ASSUME TreesInv, ShownMatchesCopy, EntriesOK, NEW m, Tells(m), apply_event(m),
         m.act = "rename" => ~ m.cont /\ m.res \notin DOMAIN update_resources
  PROVE  /\ \A r \in DOMAIN all_resources' : IsTree(all_resources'[r])
         /\ ShownMatchesCopy'
         /\ EntriesOK'
         /\ \/ /\ update_resources' = update_resources
               /\ m.res \in DOMAIN update_resources =>
                    m.obj = resource /\ (m.act = "create" \/ (m.act = "exists" /\ ~ receive_update))
            \/ m.cont /\ DOMAIN update_resources' = DOMAIN update_resources \union {m.res}
            \/ ~ m.cont /\ DOMAIN update_resources' = {}
<1> DEFINE action == IF m.act = "exists" /\ receive_update THEN "change" ELSE m.act
           r      == m.res
           create == m.obj = resource /\ action \in {"create", "exists"}
           inUpd  == r \in DOMAIN update_resources
           base   == IF inUpd THEN update_resources[r]
                     ELSE IF create THEN NewEntry(Bare(m.info)) ELSE NewEntry(all_resources[r])
           a      == ApplyToEntry(base, action, m)
           upd    == Put(update_resources, r, a)
<1>1. \/ create = (inUpd \/ r \in DOMAIN all_resources) /\ UNCHANGED data_vars
      \/ /\ create # (inUpd \/ r \in DOMAIN all_resources)
         /\ \/ m.cont /\ update_resources' = upd /\ UNCHANGED <<all_resources, shown>>
            \/ /\ ~ m.cont
               /\ shown' = ReadUpdates(shown, [x \in DOMAIN upd |-> print_changes(OldVersion(x), upd[x])], upd)
               /\ all_resources' = StoreUpdates(all_resources, upd)
               /\ update_resources' = <<>>
  BY DEF apply_event
<1>2. \A x \in DOMAIN all_resources : IsTree(all_resources[x])
  BY DEF TreesInv
<1>3. CASE create = (inUpd \/ r \in DOMAIN all_resources) /\ UNCHANGED data_vars
  <2>1. UNCHANGED <<update_resources, all_resources, shown>>
    BY <1>3 DEF data_vars
  <2>2. ShownMatchesCopy' /\ EntriesOK'
    BY <2>1 DEF ShownMatchesCopy, EntriesOK
  <2>3. inUpd => create
    BY <1>3
  <2>4. create => m.obj = resource /\ (m.act = "create" \/ (m.act = "exists" /\ ~ receive_update))
    OBVIOUS
  <2> HIDE DEF create
  <2> QED
    BY <1>2, <2>1, <2>2, <2>3, <2>4
<1>4. CASE create # (inUpd \/ r \in DOMAIN all_resources)
  <2>1. create \/ inUpd \/ r \in DOMAIN all_resources
    BY <1>4
  <2>2. \A t : IsTree(t) => IsEntry(NewEntry(t)) /\ NewEntry(t).tree = t /\ NewEntry(t).rename = NoName
    BY DEF NewEntry, IsEntry
  <2>3. create => IsTree(Bare(m.info))
    BY BareTree DEF Tells
  <2>4. IsEntry(base)
    BY <1>2, <2>1, <2>2, <2>3 DEF EntriesOK
  <2>5. m.obj \in Objects /\ (action \in {"exists", "create", "change"} => InfoOK(m.obj, m.info))
    BY DEF Tells
  <2>6. action = "rename" <=> m.act = "rename"
    OBVIOUS
  <2>7. m.act = "rename" => r \in DOMAIN all_resources /\ base.tree = all_resources[r]
    BY <1>2, <2>1, <2>2
  <2> HIDE DEF base, action
  <2>8. /\ IsEntry(a)
        /\ action # "rename" => a.rename = NoName
        /\ action = "rename" => a.tree = base.tree
    BY <2>4, <2>5, EntryApplied
  <2> HIDE DEF a, create
  <2>9. /\ DOMAIN upd = DOMAIN update_resources \union {r} /\ upd[r] = a
        /\ \A x \in DOMAIN update_resources : x # r => upd[x] = update_resources[x]
    BY DEF Put
  <2> HIDE DEF upd
  <2>10. \A x \in DOMAIN upd : /\ IsEntry(upd[x])
                               /\ \/ upd[x].rename = NoName
                                  \/ x \in DOMAIN all_resources /\ upd[x].tree = all_resources[x]
    BY <2>6, <2>7, <2>8, <2>9 DEF EntriesOK
  <2>11. CASE m.cont /\ update_resources' = upd /\ UNCHANGED <<all_resources, shown>>
    <3>1. ShownMatchesCopy'
      BY <2>11 DEF ShownMatchesCopy
    <3>2. EntriesOK'
      BY <2>6, <2>8, <2>9, <2>11 DEF EntriesOK
    <3> QED
      BY <1>2, <2>9, <2>11, <3>1, <3>2
  <2>12. CASE /\ ~ m.cont
              /\ shown' = ReadUpdates(shown, [x \in DOMAIN upd |-> print_changes(OldVersion(x), upd[x])], upd)
              /\ all_resources' = StoreUpdates(all_resources, upd)
              /\ update_resources' = <<>>
    <3>1. ShownMatchesCopy' /\ \A x \in DOMAIN all_resources' : IsTree(all_resources'[x])
      BY <2>10, <2>12, UpdatesRead
    <3>2. DOMAIN update_resources' = {}
      BY <2>12
    <3>3. EntriesOK'
      BY <3>2 DEF EntriesOK
    <3> QED
      BY <2>12, <3>1, <3>2, <3>3
  <2> QED
    BY <1>1, <1>4, <2>11, <2>12
<1> QED
  BY <1>1, <1>3, <1>4

-----------------------------------------------------------------------------
(* What the kernel module notifies *)

\* SetToSeq() lists every element of a set.
LEMMA ListedAll ==
  ASSUME NEW S, IsFiniteSet(S)
  PROVE  ToSet(SetToSeq(S)) = S
<1> DEFINE n == Cardinality(S)
           f == SetToSeq(S)
<1>1. n \in Nat /\ ExistsBijection(1 .. n, S)
  BY FS_CardinalityType
<1>2. \E g \in [1 .. n -> S] : IsInjective(g)
  BY <1>1 DEF ExistsBijection, Bijection, Injection
<1>3. f \in Injection(1 .. n, S)
  BY <1>2 DEF SetToSeq, Injection
<1> HIDE DEF f
<1>4. Cardinality(1 .. n) = n
  <2> HIDE DEF n
  <2>1. 1 \in Int /\ n \in Int
    BY <1>1
  <2>2. Cardinality(1 .. n) = IF 1 > n THEN 0 ELSE n - 1 + 1
    BY <2>1, FS_Interval
  <2> QED
    BY <1>1, <2>2
<1>5. f \in Surjection(1 .. n, S)
  BY <1>3, <1>4, FS_Injection
<1>6. f \in [1 .. n -> S] /\ \A t \in S : \E i \in 1 .. n : f[i] = t
  BY <1>5 DEF Surjection
<1> HIDE DEF n
<1>7. ToSet(f) = S
  BY <1>6 DEF ToSet
<1> QED
  BY <1>7 DEF f

\* A state the kernel gives to an object is of the object's kind.
LEMMA InfosFit ==
  ASSUME NEW o \in Objects, NEW i \in Infos[o[1]]
  PROVE  InfoOK(o, i)
<1>1. resource[1] = "resource"
  BY DEF resource
<1>2. CASE o = resource
  BY <1>1, <1>2, KindsDiffer, ObjectAssumption DEF InfoOK
<1>3. CASE o \in Devices
  BY <1>3, KindsDiffer, ObjectAssumption DEF InfoOK
<1>4. CASE o \in Connections
  BY <1>4, KindsDiffer, ObjectAssumption DEF InfoOK
<1>5. CASE o \in PeerDevices
  BY <1>5, KindsDiffer, ObjectAssumption DEF InfoOK
<1>6. CASE o \in Paths
  BY <1>6, KindsDiffer, ObjectAssumption DEF InfoOK
<1> QED
  BY <1>2, <1>3, <1>4, <1>5, <1>6 DEF Objects

\* A tree with new objects, or new states, is a tree.
LEMMA TreeOverlay ==
  ASSUME NEW t, IsTree(t), NEW new, DOMAIN new \subseteq Objects,
         \A o \in DOMAIN new :
           /\ InfoOK(o, new[o])
           /\ o \in PeerDevices \union Paths => ConnectionOf(o) \in DOMAIN t \union DOMAIN new
  PROVE  IsTree(Overlay(t, new))
<1> DEFINE u == Overlay(t, new)
<1>1. /\ DOMAIN u = DOMAIN t \union DOMAIN new
      /\ \A x \in DOMAIN new : u[x] = new[x]
      /\ \A x \in DOMAIN t : x \notin DOMAIN new => u[x] = t[x]
  BY OverlayValues
<1> HIDE DEF u
<1>2. \A x \in DOMAIN u : x \in Objects /\ InfoOK(x, u[x])
  BY <1>1, TreeInfo
<1>3. \A x \in DOMAIN u : x \in PeerDevices \union Paths => ConnectionOf(x) \in DOMAIN u
  BY <1>1 DEF IsTree
<1>4. resource \in DOMAIN u
  BY <1>1 DEF IsTree
<1>5. IsTree(u)
  BY <1>2, <1>3, <1>4 DEF IsTree, InfoOK
<1> QED
  BY <1>5 DEF u

\* what a bundle of notifications is about
Bundle(act, objs, infos) ==
  /\ act \in Acts /\ objs \in Seq(Objects)
  /\ \A i \in 1 .. Len(objs) :
       /\ act \in {"create", "change"} => InfoOK(objs[i], infos[objs[i]])
       /\ i > 1 => act # "rename" /\ (act = "create" => objs[i] # resource)

Trees(k) == DOMAIN k \subseteq Resources /\ \A r \in DOMAIN k : IsTree(k[r])

\* A bundle of one notification.
LEMMA BundleOfOne ==
  ASSUME NEW act \in Acts, NEW o \in Objects, NEW infos,
         act \in {"create", "change"} => InfoOK(o, infos[o])
  PROVE  Bundle(act, <<o>>, infos)
<1>1. <<o>> \in Seq(Objects) /\ Len(<<o>>) = 1 /\ <<o>>[1] = o
  OBVIOUS
<1>2. \A i \in 1 .. 1 : i = 1
  OBVIOUS
<1> HIDE DEF Acts
<1> QED
  BY <1>1, <1>2 DEF Bundle

\* A bundle about the objects of a set.
LEMMA BundleOfMany ==
  ASSUME NEW act \in Acts, act # "rename", NEW D, D \subseteq Objects, NEW infos, NEW s \in Seq(D),
         act \in {"create", "change"} => \A o \in D : InfoOK(o, infos[o]),
         act = "create" => resource \notin D
  PROVE  Bundle(act, s, infos)
<1>1. s \in Seq(Objects) /\ \A i \in 1 .. Len(s) : s[i] \in D
  OBVIOUS
<1> QED
  BY <1>1 DEF Bundle

\* The kernel's resources with one of them replaced.
LEMMA TreesExcept ==
  ASSUME NEW k, Trees(k), NEW r \in DOMAIN k, NEW t, IsTree(t), NEW new, new = [k EXCEPT ![r] = t]
  PROVE  Trees(new)
  BY DEF Trees


\* what a step of the kernel does, with well formed notifications
Notifies ==
  \E r, act, objs, infos, newKern :
    Notify(r, act, objs, infos, newKern) /\ Bundle(act, objs, infos) /\ Trees(newKern)

\* A new resource.
LEMMA CreatedResource ==
  ASSUME Trees(kern), NEW r \in NewResources, NEW i \in Infos["resource"], KernelCreateResource(r, i)
  PROVE  Notifies
<1> DEFINE k == Put(kern, r, Bare(i))
<1>1. Notify(r, "create", <<resource>>, Bare(i), k)
  BY DEF KernelCreateResource
<1>2. i \in ResourceInfo /\ r \in Resources
  BY ObjectAssumption, SeqAssumption
<1>3. resource \in Objects /\ InfoOK(resource, i)
  BY <1>2, KindsDiffer DEF Objects, InfoOK
<1>4. IsTree(Bare(i)) /\ Bare(i)[resource] = i
  BY <1>3, BareTree DEF Bare
<1>5. Bundle("create", <<resource>>, Bare(i))
  BY <1>3, <1>4, BundleOfOne DEF Acts
<1>6. Trees(k)
  <2>1. /\ DOMAIN k = DOMAIN kern \union {r} /\ k[r] = Bare(i)
        /\ \A x \in DOMAIN kern : x # r => k[x] = kern[x]
    BY DEF Put
  <2> HIDE DEF k
  <2> QED
    BY <1>2, <1>4, <2>1 DEF Trees
<1> QED
  BY <1>1, <1>5, <1>6, Zenon DEF Notifies

\* A new device, connection or path, with its peer devices.
LEMMA CreatedObject ==
  ASSUME Trees(kern), NEW r \in DOMAIN kern, NEW o \in Objects \ (PeerDevices \union {resource}), NEW is,
         DOMAIN is = {o[1], "peer-device"}, \A k \in DOMAIN is : is[k] \in Infos[k],
         KernelCreate(r, o, is)
  PROVE  Notifies
<1> DEFINE t     == kern[r]
           peers == {p \in Attached(o) \intersect PeerDevices :
                       {connection(p[2]), device(p[3])} \subseteq DOMAIN t \union {o}}
           D     == peers \union {o}
           new   == [p \in D |-> is[p[1]]]
           s     == SetToSeq(peers)
           k     == [kern EXCEPT ![r] = Overlay(t, new)]
<1>1. /\ o \in Paths => ConnectionOf(o) \in DOMAIN t
      /\ Notify(r, "create", <<o>> \o s, new, k)
  BY DEF KernelCreate
<1>2. /\ peers \subseteq PeerDevices /\ D \subseteq Objects /\ resource \notin D
      /\ \A p \in peers : ConnectionOf(p) \in DOMAIN t \union {o}
  BY KindsDiffer DEF Objects, ConnectionOf
<1>3. IsFiniteSet(peers)
  BY <1>2, ObjectAssumption, FS_Subset
<1> HIDE DEF peers
<1>4. \A p \in D : p[1] \in DOMAIN is
  BY <1>2, KindsDiffer
<1>5. DOMAIN new = D /\ \A p \in D : new[p] \in Infos[p[1]]
  BY <1>4
<1> HIDE DEF new
<1>6. \A p \in D : InfoOK(p, new[p])
  BY <1>2, <1>5, InfosFit
<1>7. <<o>> \o s \in Seq(D)
  <2>1. s \in Seq(peers)
    BY <1>3, ListedElements
  <2>2. s \in Seq(D) /\ <<o>> \in Seq(D)
    BY <2>1
  <2> HIDE DEF s, D
  <2> QED
    BY <2>2
<1>8. IsTree(Overlay(t, new))
  <2>1. IsTree(t)
    BY DEF Trees
  <2>2. \A x \in DOMAIN new : x \in PeerDevices \union Paths => ConnectionOf(x) \in DOMAIN t \union DOMAIN new
    BY <1>1, <1>2, <1>5
  <2> HIDE DEF t, D
  <2> QED
    BY <1>2, <1>5, <1>6, <2>1, <2>2, TreeOverlay
<1> HIDE DEF D, s
<1>9. Bundle("create", <<o>> \o s, new)
  BY <1>2, <1>6, <1>7, BundleOfMany DEF Acts
<1>10. Trees(k)
  <2> DEFINE u == Overlay(t, new)
  <2> HIDE DEF u
  <2>1. IsTree(u)
    BY <1>8 DEF u
  <2>2. k = [kern EXCEPT ![r] = u]
    BY DEF u
  <2> HIDE DEF k
  <2> QED
    BY <2>1, <2>2, TreesExcept
<1> HIDE DEF k
<1> QED
  BY <1>1, <1>9, <1>10, Zenon DEF Notifies

\* New states of some objects.
LEMMA ChangedObjects ==
  ASSUME Trees(kern), NEW r \in DOMAIN kern, NEW S, S \subseteq DOMAIN kern[r],
         NEW new, DOMAIN new = S, \A o \in S : new[o] \in Infos[o[1]], KernelChange(r, S, new)
  PROVE  Notifies
<1> DEFINE u == Overlay(kern[r], new)
           k == [kern EXCEPT ![r] = u]
           s == SetToSeq(S)
<1>1. Notify(r, "change", s, new, k)
  BY DEF KernelChange
<1>2. IsTree(kern[r]) /\ S \subseteq Objects
  BY DEF Trees, IsTree
<1>3. \A o \in S : InfoOK(o, new[o])
  BY <1>2, InfosFit
<1>4. \A o \in DOMAIN new : o \in PeerDevices \union Paths => ConnectionOf(o) \in DOMAIN kern[r] \union DOMAIN new
  BY <1>2 DEF IsTree
<1>5. IsTree(u)
  BY <1>2, <1>3, <1>4, TreeOverlay
<1>6. s \in Seq(S)
  <2>1. IsFiniteSet(S)
    BY <1>2, ObjectAssumption, FS_Subset
  <2> QED
    BY <2>1, ListedElements
<1> HIDE DEF u, s
<1>7. Bundle("change", s, new)
  BY <1>2, <1>3, <1>6, BundleOfMany DEF Acts
<1>8. Trees(k)
  BY <1>5, TreesExcept
<1> HIDE DEF k
<1> QED
  BY <1>1, <1>7, <1>8, Zenon DEF Notifies

\* An object goes, with what is attached to it.
LEMMA DestroyedObject ==
  ASSUME Trees(kern), NEW r \in DOMAIN kern, NEW o \in DOMAIN kern[r] \ PeerDevices, KernelDestroy(r, o)
  PROVE  Notifies
<1> DEFINE t    == kern[r]
           A    == Attached(o) \intersect DOMAIN t
           s    == SetToSeq(A)
           gone == s \o <<o>>
           k    == IF o = resource THEN Without(kern, {r}) ELSE [kern EXCEPT ![r] = Without(t, ToSet(gone))]
<1>1. Notify(r, "destroy", gone, t, k)
  BY DEF KernelDestroy
<1>2. IsTree(t) /\ DOMAIN t \subseteq Objects /\ A \subseteq DOMAIN t /\ A \subseteq PeerDevices \union Paths
  BY DEF Trees, IsTree, Attached
<1>3. IsFiniteSet(A)
  BY <1>2, ObjectAssumption, FS_Subset
<1>4. s \in Seq(A) /\ ToSet(s) = A
  BY <1>3, ListedElements, ListedAll
<1>5. gone \in Seq(DOMAIN t) /\ ToSet(gone) = A \union {o}
  <2> DEFINE D == DOMAIN t
             n == Len(s)
  <2>1. s \in Seq(D) /\ <<o>> \in Seq(D) /\ n \in Nat /\ Len(<<o>>) = 1 /\ <<o>>[1] = o
    BY <1>2, <1>4
  <2>2. o \in D
    OBVIOUS
  <2>3. DOMAIN s = 1 .. n
    BY <1>4, LenProperties
  <2> HIDE DEF D, s
  <2>4. gone \in Seq(D) /\ Len(gone) = n + 1 /\ \A i \in 1 .. n + 1 : gone[i] = IF i <= n THEN s[i] ELSE <<o>>[i - n]
    BY <2>1, ConcatProperties
  <2>5. DOMAIN gone = 1 .. n + 1
    BY <2>4, LenProperties
  <2> HIDE DEF n, gone
  <2>6. /\ \A i \in 1 .. n : i \in 1 .. n + 1 /\ gone[i] = s[i]
        /\ n + 1 \in 1 .. n + 1 /\ gone[n + 1] = o
        /\ \A i \in 1 .. n + 1 : i \in 1 .. n \/ i = n + 1
    <3>1. n + 1 \in 1 .. n + 1 /\ ~ (n + 1 <= n) /\ (n + 1) - n = 1
      BY <2>1
    <3>2. gone[n + 1] = o
      BY <2>1, <2>4, <3>1
    <3>3. \A i \in 1 .. n : i \in 1 .. n + 1 /\ i <= n
      BY <2>1
    <3>4. \A i \in 1 .. n + 1 : i \in 1 .. n \/ i = n + 1
      BY <2>1
    <3> QED
      BY <2>4, <3>1, <3>2, <3>3, <3>4
  <2>7. ToSet(gone) = ToSet(s) \union {o}
    BY <2>3, <2>5, <2>6 DEF ToSet
  <2> QED
    BY <1>4, <2>4, <2>7 DEF D
<1> HIDE DEF gone, s
<1>6. Bundle("destroy", gone, t)
  BY <1>2, <1>5, BundleOfMany DEF Acts
<1>7. Trees(k)
  <2>1. CASE o = resource
    <3>1. DOMAIN Without(kern, {r}) = DOMAIN kern \ {r} /\ \A x \in DOMAIN kern \ {r} : Without(kern, {r})[x] = kern[x]
      BY WithoutValues
    <3>2. k = Without(kern, {r})
      BY <2>1
    <3> HIDE DEF k
    <3> QED
      BY <3>1, <3>2 DEF Trees
  <2>2. CASE o # resource
    <3> DEFINE S == A \union {o}
               u == Without(t, S)
    <3>1. resource \notin S
      BY <1>2, <2>2, KindsDiffer
    <3>2. ASSUME NEW x \in DOMAIN t \intersect (PeerDevices \union Paths), ConnectionOf(x) \in S
          PROVE  x \in S
      <4>1. ConnectionOf(x) \in Connections
        BY TheirConnections
      <4>2. ConnectionOf(x) \notin A
        BY <1>2, <4>1, KindsDiffer
      <4>3. ConnectionOf(x) = o
        BY <3>2, <4>2
      <4>4. x \in Attached(o)
        BY <4>3 DEF Attached, ConnectionOf
      <4> QED
        BY <4>4
    <3> HIDE DEF S, t
    <3>3. IsTree(u)
      BY <1>2, <3>1, <3>2, TreeWithout
    <3> HIDE DEF u
    <3>4. k = [kern EXCEPT ![r] = u]
      BY <1>5, <2>2 DEF u, S
    <3> HIDE DEF k
    <3> QED
      BY <3>3, <3>4, TreesExcept
  <2> QED
    BY <2>1, <2>2
<1> HIDE DEF k, t
<1> QED
  BY <1>1, <1>6, <1>7, Zenon DEF Notifies

\* Another name for a resource.
LEMMA RenamedResource ==
  ASSUME Trees(kern), NEW r \in DOMAIN kern, NEW n \in Resources, KernelRename(r, n)
  PROVE  Notifies
<1> DEFINE w == Without(kern, {r})
           k == Put(w, n, kern[r])
<1>1. Notify(r, "rename", <<resource>>, Bare(n), k)
  BY DEF KernelRename
<1>2. Bundle("rename", <<resource>>, Bare(n))
  BY BundleOfOne DEF Acts, Objects
<1>3. DOMAIN w = DOMAIN kern \ {r} /\ \A x \in DOMAIN kern \ {r} : w[x] = kern[x]
  BY WithoutValues
<1> HIDE DEF w
<1>4. DOMAIN k = DOMAIN w \union {n} /\ k[n] = kern[r] /\ \A x \in DOMAIN w : x # n => k[x] = w[x]
  BY DEF Put
<1> HIDE DEF k
<1>5. Trees(k)
  BY <1>3, <1>4 DEF Trees
<1> QED
  BY <1>1, <1>2, <1>5, Zenon DEF Notifies

\* Every step of the kernel sends well formed bundles and keeps its
\* resources well formed.
LEMMA KernelBundles ==
  ASSUME Trees(kern), KernelNext
  PROVE  Notifies
<1>1. CASE \E r \in NewResources, i \in Infos["resource"] : KernelCreateResource(r, i)
  BY <1>1, CreatedResource
<1>2. ASSUME NEW r \in DOMAIN kern, NEW o \in Objects \ (PeerDevices \union {resource}),
             NEW is \in [{o[1], "peer-device"} -> UNION {Infos[k] : k \in {o[1], "peer-device"}}],
             \A k \in DOMAIN is : is[k] \in Infos[k], KernelCreate(r, o, is)
      PROVE  Notifies
  <2>1. DOMAIN is = {o[1], "peer-device"}
    OBVIOUS
  <2> QED
    BY <1>2, <2>1, CreatedObject
<1>3. ASSUME NEW r \in DOMAIN kern,
             NEW S \in kSubset(1, DOMAIN kern[r]) \union kSubset(MaxBundle, DOMAIN kern[r]),
             NEW new \in [S -> UNION {Infos[o[1]] : o \in S}],
             \A o \in S : new[o] \in Infos[o[1]], KernelChange(r, S, new)
      PROVE  Notifies
  <2>1. S \subseteq DOMAIN kern[r]
    BY DEF kSubset
  <2>2. DOMAIN new = S
    OBVIOUS
  <2> QED
    BY <1>3, <2>1, <2>2, ChangedObjects
<1>4. ASSUME NEW r \in DOMAIN kern, NEW o \in DOMAIN kern[r] \ PeerDevices, KernelDestroy(r, o)
      PROVE  Notifies
  BY <1>4, DestroyedObject
<1>5. ASSUME NEW r \in DOMAIN kern, NEW n \in Resources, KernelRename(r, n)
      PROVE  Notifies
  BY <1>5, RenamedResource
<1>6. ASSUME NEW r \in DOMAIN kern, KernelHelper(r)
      PROVE  Notifies
  <2>1. Notify(r, "helper", <<resource>>, Bare(NoName), kern)
    BY <1>6 DEF KernelHelper
  <2>2. Bundle("helper", <<resource>>, Bare(NoName))
    BY BundleOfOne DEF Acts, Objects
  <2> QED
    BY <2>1, <2>2, Zenon DEF Notifies
<1>7. ASSUME NEW r \in DOMAIN kern,
             \/ \E o \in Objects \ (PeerDevices \union {resource}) :
                  \E is \in [{o[1], "peer-device"} -> UNION {Infos[k] : k \in {o[1], "peer-device"}}] :
                    /\ \A k \in DOMAIN is : is[k] \in Infos[k]
                    /\ KernelCreate(r, o, is)
             \/ \E S \in kSubset(1, DOMAIN kern[r]) \union kSubset(MaxBundle, DOMAIN kern[r]) :
                  \E new \in [S -> UNION {Infos[o[1]] : o \in S}] :
                    /\ \A o \in S : new[o] \in Infos[o[1]]
                    /\ KernelChange(r, S, new)
             \/ \E o \in DOMAIN kern[r] \ PeerDevices : KernelDestroy(r, o)
             \/ \E n \in Resources : KernelRename(r, n)
             \/ KernelHelper(r)
      PROVE  Notifies
  BY ONLY <1>2, <1>3, <1>4, <1>5, <1>6, <1>7, Zenon
<1> QED
  BY ONLY KernelNext, <1>1, <1>7, Zenon DEF KernelNext


-----------------------------------------------------------------------------
(* The reader of the lines knows the copy *)

ShownInv == TreesInv /\ MessagesInv /\ DumpInv /\ PendingInv /\ ShownMatchesCopy

\* The initial state satisfies the invariant.
LEMMA ShownInit == Init => ShownInv
<1> SUFFICES ASSUME Init PROVE ShownInv
  OBVIOUS
<1>1. Waiting = {}
  BY DEF Init, Waiting, Stored
<1>2. /\ DOMAIN all_resources = {} /\ DOMAIN update_resources = {} /\ DOMAIN shown = {}
      /\ dump \in Seq({}) /\ DOMAIN dump = {} /\ ~ Dumping
      /\ initial_state /\ kern \in InitialKernels
  BY DEF Init, Dumping
<1>3. TreesInv
  BY <1>2, ObjectAssumption DEF TreesInv
<1>4. MessagesInv
  BY <1>1 DEF MessagesInv
<1>5. DumpInv
  BY <1>2 DEF DumpInv, DumpShape
<1>6. PendingInv
  BY <1>2 DEF PendingInv
<1>7. ShownMatchesCopy
  BY <1>2 DEF ShownMatchesCopy
<1> QED
  BY <1>3, <1>4, <1>5, <1>6, <1>7 DEF ShownInv

\* A bundle that is being received stays so while nothing is applied.
LEMMA StillContinuing ==
  ASSUME Continuing, sent \in Nat, sent' \in Nat, sent' >= sent,
         \A k \in Waiting' : k \in Waiting \/ (k.idx \in Int /\ k.idx > sent),
         next_seq_known => next_seq' = next_seq /\ next_seq_known',
         UNCHANGED <<applied, update_resources>>
  PROVE  Continuing'
<1>1. PICK n \in 1 .. sent :
        /\ Awaited(n)
        /\ \A k \in Waiting : k.idx = n => k.res \in DOMAIN update_resources /\ Continues(k, k.res)
  BY DEF Continuing
<1>2. next_seq_known' /\ next_seq' = next_seq
  BY DEF Continuing
<1>3. n \in 1 .. sent'
  OBVIOUS
<1>4. \A k \in Waiting' : k.idx >= n
  BY <1>1 DEF Awaited, Waiting
<1>5. Awaited(n)'
  BY <1>1, <1>2, <1>4 DEF Awaited, Waiting
<1>6. \A k \in Waiting' : k.idx = n => k.res \in DOMAIN update_resources' /\ Continues(k, k.res)
  BY <1>1
<1> QED
  BY <1>2, <1>3, <1>5, <1>6 DEF Continuing

\* A step that neither sends nor applies anything.
LEMMA QuietStep ==
  ASSUME OrderInv, ShownInv, Waiting' \subseteq Waiting,
         UNCHANGED <<kern, sent, applied, update_resources, all_resources, shown>>,
         next_seq_known => next_seq' = next_seq /\ next_seq_known',
         DumpInv', Dumping => dump' = dump
  PROVE  ShownInv'
<1>1. TreesInv'
  BY DEF ShownInv, TreesInv
<1>2. MessagesInv'
  BY DEF ShownInv, MessagesInv
<1>3. sent \in Nat
  BY SeqAssumption DEF OrderInv, Numbered
<1>4. Continuing => Continuing'
  BY <1>3, StillContinuing
<1>5. Dumping => Dumping' /\ Head(dump') = Head(dump)
  BY DEF Dumping
<1>6. PendingInv'
  BY <1>4, <1>5 DEF ShownInv, PendingInv
<1>7. ShownMatchesCopy'
  BY DEF ShownInv, ShownMatchesCopy
<1> QED
  BY <1>1, <1>2, <1>6, <1>7 DEF ShownInv

\* The messages of a new bundle follow the ones on their way.
LEMMA NotifyTells ==
  ASSUME OrderInv, ShownInv, NEW r, NEW act, NEW objs, NEW infos, NEW newKern,
         Notify(r, act, objs, infos, newKern), Bundle(act, objs, infos), Trees(newKern)
  PROVE  ShownInv'
<1> DEFINE n == Len(objs)
           New == {Msg(sent + i, act, r, objs[i], infos[objs[i]], i < n) : i \in 1 .. n}
<1>1. /\ sent \in Nat /\ n \in Nat /\ n >= 1
      /\ sent' = sent + n /\ kern' = newKern
      /\ sock' = sock \/ sock' = sock \union New
  BY SeqAssumption DEF OrderInv, Numbered, Notify
<1>2. UNCHANGED <<pc, opts, expect_reply, next_seq, next_seq_known, stored_messages, applied, dump,
                  initial_state, receive_update, update_resources, all_resources, shown>>
  BY DEF Notify, cmd_vars, order_vars, socket_vars, data_vars
<1>3. Waiting' = Waiting \/ Waiting' = Waiting \union New
  BY <1>1, <1>2 DEF Waiting, Stored
<1>4. \A m \in New : \E i \in 1 .. n :
        /\ m.idx = sent + i /\ m.act = act /\ m.res = r /\ m.obj = objs[i]
        /\ m.info = infos[objs[i]] /\ m.cont = (i < n)
  BY DEF Msg
<1> HIDE DEF n, New
<1>5. \A i \in 1 .. n :
        /\ objs[i] \in Objects
        /\ act \in {"create", "change"} => InfoOK(objs[i], infos[objs[i]])
        /\ i > 1 => act # "rename" /\ (act = "create" => objs[i] # resource)
  BY DEF Bundle, n
<1>6. act \in Acts
  BY DEF Bundle
<1>7. \A m \in Waiting : m.idx \in 1 .. sent
  BY DEF OrderInv, Numbered, Waiting
<1>8. \A m \in New : m.idx \in Int /\ m.idx > sent
  BY <1>1, <1>4
<1>9. TreesInv'
  BY <1>1, <1>2 DEF ShownInv, TreesInv, Trees
<1>10. MessagesInv'
  <2>1. ASSUME NEW m \in New
        PROVE  /\ m.act \in Acts /\ Tells(m)
               /\ m.cont => m.idx < sent' /\ m.act # "rename"
    <3>1. PICK i \in 1 .. n : /\ m.idx = sent + i /\ m.act = act /\ m.res = r /\ m.obj = objs[i]
                              /\ m.info = infos[objs[i]] /\ m.cont = (i < n)
      BY <1>4
    <3>2. Tells(m)
      BY <1>5, <1>6, <3>1 DEF Tells, Acts
    <3>3. m.cont => m.idx < sent' /\ m.act # "rename"
      <4>1. m.cont => i < n
        BY <3>1
      <4>2. i < n => sent + i < sent + n /\ i + 1 \in 1 .. n /\ i + 1 > 1
        BY <1>1
      <4> QED
        BY <1>1, <1>5, <3>1, <4>1, <4>2
    <3> QED
      BY <1>6, <3>1, <3>2, <3>3
  <2>2. ASSUME NEW m \in Waiting
        PROVE  /\ m.act \in Acts /\ Tells(m)
               /\ m.cont => m.idx < sent' /\ m.act # "rename"
    <3>1. /\ m.act \in Acts /\ Tells(m)
          /\ m.cont => m.idx < sent /\ m.act # "rename"
      BY DEF ShownInv, MessagesInv
    <3> QED
      BY <1>1, <1>7, <3>1
  <2>3. ASSUME NEW m \in Waiting, NEW k \in Waiting \union New, m.cont, k.idx = m.idx + 1
        PROVE  Continues(k, m.res)
    <3>1. m.idx < sent
      BY <2>3 DEF ShownInv, MessagesInv
    <3>2. k \in Waiting
      BY <1>1, <1>7, <1>8, <2>3, <3>1
    <3> QED
      BY <2>3, <3>2 DEF ShownInv, MessagesInv
  <2>4. ASSUME NEW m \in New, NEW k \in Waiting \union New, m.cont, k.idx = m.idx + 1
        PROVE  Continues(k, m.res)
    <3>1. k \in New
      BY <1>1, <1>7, <1>8, <2>4
    <3>2. PICK i \in 1 .. n : m.idx = sent + i /\ m.res = r
      BY <1>4
    <3>3. PICK j \in 1 .. n : k.idx = sent + j /\ k.act = act /\ k.res = r /\ k.obj = objs[j]
      BY <1>4, <3>1
    <3>4. j > 1
      BY <1>1, <2>4, <3>2, <3>3
    <3> QED
      BY <1>5, <3>2, <3>3, <3>4 DEF Continues
  <2>5. Waiting' \subseteq Waiting \union New
    BY <1>3
  <2> QED
    BY <2>1, <2>2, <2>3, <2>4, <2>5 DEF MessagesInv
<1>11. DumpInv'
  BY <1>2 DEF ShownInv, DumpInv, Dumping
<1>12. PendingInv'
  <2>1. Continuing => Continuing'
    <3>1. sent' \in Nat /\ sent' >= sent
      BY <1>1
    <3>2. \A k \in Waiting' : k \in Waiting \/ (k.idx \in Int /\ k.idx > sent)
      BY <1>3, <1>8
    <3> QED
      BY <1>1, <1>2, <3>1, <3>2, StillContinuing
  <2> QED
    BY <1>2, <2>1 DEF ShownInv, PendingInv, Dumping
<1>13. ShownMatchesCopy'
  BY <1>2 DEF ShownInv, ShownMatchesCopy
<1> QED
  BY <1>9, <1>10, <1>11, <1>12, <1>13 DEF ShownInv


\* A message of the dump.
LEMMA DumpStep ==
  ASSUME InOrderStart, OrderInv, ShownInv, recv_dump
  PROVE  ShownInv'
<1> DEFINE h == Head(dump)
<1>1. /\ pc = "recv" /\ dump # <<>> /\ h.act \in {"exists", "done"} /\ dump' = Tail(dump)
      /\ UNCHANGED <<kern, sent, sock, expect_reply>>
      /\ print_event(h)
  BY DEF recv_dump, Receive, PassesFilter, InOrderStart
<1>2. DumpShape(dump)
  BY DEF ShownInv, DumpInv
<1>3. /\ DumpShape(dump')
      /\ h.act = "exists" => Tells(h) /\ (h.cont => dump' # <<>>)
      /\ dump' # <<>> =>
           /\ Head(dump').act = "exists" => h.act = "exists"
           /\ h.act = "exists" /\ h.cont => Later(Head(dump')) /\ Head(dump').res = h.res
  BY <1>1, <1>2, ShapeTail
<1>4. Dumping' => h.act = "exists"
  BY <1>3 DEF Dumping
<1>5. Dumping <=> h.act = "exists"
  BY <1>1 DEF Dumping
<1>6. CASE h.act = "done"
  <2>1. /\ pc' = "apply"
        /\ UNCHANGED <<next_seq, next_seq_known, stored_messages, applied, update_resources, all_resources, shown>>
    BY <1>1, <1>6 DEF print_event, DumpDone, ApplyExists, StoreNotification, data_vars
  <2>2. ~ Dumping /\ ~ Dumping'
    BY <1>4, <1>5, <1>6
  <2>3. DumpInv'
    BY <1>3, <2>1, <2>2 DEF DumpInv
  <2>4. Waiting' = Waiting
    BY <1>1, <2>1 DEF Waiting, Stored
  <2> QED
    BY <1>1, <2>1, <2>2, <2>3, <2>4, QuietStep
<1>7. CASE h.act = "exists"
  <2>1. /\ apply_event(h)
        /\ UNCHANGED <<pc, initial_state, receive_update, next_seq, next_seq_known, stored_messages, applied>>
    BY <1>1, <1>7 DEF print_event, DumpDone, ApplyExists, StoreNotification, order_vars
  <2>2. Waiting' = Waiting
    BY <1>1, <2>1 DEF Waiting, Stored
  <2>3. TreesInv /\ ShownMatchesCopy /\ EntriesOK /\ MessagesInv /\ DumpInv /\ PendingInv
    BY DEF ShownInv, PendingInv, EntriesOK
  <2> DEFINE U == DOMAIN update_resources
             V == DOMAIN update_resources'
  <2>4. /\ \A r \in DOMAIN all_resources' : IsTree(all_resources'[r])
        /\ ShownMatchesCopy'
        /\ EntriesOK'
        /\ \/ update_resources' = update_resources /\ (h.res \in U => h.obj = resource)
           \/ h.cont /\ V = U \union {h.res}
           \/ ~ h.cont /\ V = {}
    <3> HIDE DEF h
    <3>1. h.act = "rename" => ~ h.cont /\ h.res \notin DOMAIN update_resources
      BY <1>7
    <3> QED
      BY <1>3, <1>7, <2>1, <2>3, <3>1, EventApplied
  <2>5. TreesInv'
    BY <1>1, <2>3, <2>4 DEF TreesInv
  <2>6. MessagesInv'
    BY <1>1, <2>2, <2>3 DEF MessagesInv
  <2>7. DumpInv'
    BY <1>1, <1>3, <1>5, <1>7, <2>1, <2>3 DEF DumpInv
  <2>8. ASSUME V # {}
        PROVE  \/ Continuing'
               \/ Dumping' /\ Later(Head(dump')) /\ Head(dump').res \in V
    <3>1. CASE h.cont /\ V = U \union {h.res}
      <4>1. dump' # <<>> /\ Later(Head(dump')) /\ Head(dump').res = h.res
        BY <1>3, <1>7, <3>1
      <4> QED
        BY <3>1, <4>1 DEF Dumping, Later
    <3>2. CASE update_resources' = update_resources /\ (h.res \in U => h.obj = resource)
      <4>1. ~ (Later(h) /\ h.res \in U)
        BY <3>2 DEF Later
      <4>2. Continuing
        BY <2>3, <2>8, <3>2, <4>1 DEF PendingInv
      <4>3. sent \in Nat
        BY SeqAssumption DEF OrderInv, Numbered
      <4> QED
        BY <1>1, <2>1, <2>2, <3>2, <4>2, <4>3, StillContinuing
    <3> QED
      BY <2>4, <2>8, <3>1, <3>2
  <2>9. PendingInv'
    BY <2>4, <2>8 DEF PendingInv, EntriesOK
  <2> QED
    BY <2>4, <2>5, <2>6, <2>7, <2>9 DEF ShownInv
<1> QED
  BY <1>1, <1>6, <1>7

\* A stored notification is applied.
LEMMA StoredStep ==
  ASSUME InOrderStart, OrderInv, ShownInv, apply_stored_event
  PROVE  ShownInv'
<1>1. PICK m \in Stored : /\ m.idx \in 1 .. sent /\ apply_event(m)
                          /\ Awaited(m.idx) /\ Awaited(m.idx + 1)'
  BY ApplyKeeps DEF InOrderStart
<1>2. next_seq_known /\ Stored' \subseteq Stored
  BY ApplyKeeps DEF InOrderStart
<1>3. /\ pc = "apply"
      /\ UNCHANGED <<kern, sent, sock, dump, pc, expect_reply, initial_state, receive_update, next_seq_known>>
  BY DEF apply_stored_event, kernel_vars, cmd_vars, socket_vars
<1>4. Waiting' \subseteq Waiting /\ m \in Waiting
  BY <1>1, <1>2, <1>3 DEF Waiting
<1>5. TreesInv /\ ShownMatchesCopy /\ EntriesOK /\ MessagesInv /\ DumpInv /\ PendingInv
  BY DEF ShownInv, PendingInv, EntriesOK
<1>6. ~ Dumping
  BY <1>3, <1>5 DEF DumpInv
<1>7. /\ m.act \in Acts /\ Tells(m)
      /\ m.cont => m.idx < sent /\ m.act # "rename"
      /\ \A k \in Waiting : m.cont /\ k.idx = m.idx + 1 => Continues(k, m.res)
  BY <1>4, <1>5 DEF MessagesInv
<1> DEFINE U == DOMAIN update_resources
           V == DOMAIN update_resources'
<1>8. ASSUME U # {}
      PROVE  m.res \in U /\ Continues(m, m.res)
  <2>1. PICK n \in 1 .. sent :
          /\ Awaited(n)
          /\ \A k \in Waiting : k.idx = n => k.res \in U /\ Continues(k, k.res)
    BY <1>5, <1>6, <1>8 DEF PendingInv, Continuing
  <2>2. 1 .. n - 1 = 1 .. m.idx - 1
    BY <1>1, <2>1 DEF Awaited
  <2>3. n = m.idx
    <3>1. n < m.idx => n \in 1 .. m.idx - 1 /\ n \notin 1 .. n - 1
      BY <1>1
    <3>2. m.idx < n => m.idx \in 1 .. n - 1 /\ m.idx \notin 1 .. m.idx - 1
      BY <1>1
    <3> QED
      BY <1>1, <2>2, <3>1, <3>2
  <2> QED
    BY <1>4, <2>1, <2>3
<1>9. m.act = "rename" => ~ m.cont /\ m.res \notin U
  BY <1>7, <1>8 DEF Continues
<1>10. /\ \A r \in DOMAIN all_resources' : IsTree(all_resources'[r])
       /\ ShownMatchesCopy'
       /\ EntriesOK'
       /\ \/ /\ update_resources' = update_resources
             /\ m.res \in U => m.obj = resource /\ m.act \in {"create", "exists"}
          \/ m.cont /\ V = U \union {m.res}
          \/ ~ m.cont /\ V = {}
  BY <1>1, <1>5, <1>7, <1>9, EventApplied
<1>11. TreesInv'
  BY <1>3, <1>5, <1>10 DEF TreesInv
<1>12. MessagesInv'
  BY <1>3, <1>4, <1>5 DEF MessagesInv
<1>13. DumpInv'
  BY <1>3, <1>5 DEF DumpInv, Dumping
<1>14. ASSUME V # {}
       PROVE  Continuing'
  <2>1. m.cont /\ V = U \union {m.res}
    <3>1. ~ (update_resources' = update_resources /\ (m.res \in U => m.obj = resource /\ m.act \in {"create", "exists"}))
      BY <1>7, <1>8, <1>14 DEF Continues, Acts
    <3> QED
      BY <1>10, <1>14, <3>1
  <2>2. m.idx + 1 \in 1 .. sent'
    <3>1. sent \in Nat
      BY SeqAssumption DEF OrderInv, Numbered
    <3> QED
      BY <1>1, <1>3, <1>7, <2>1, <3>1
  <2>3. \A k \in Waiting' : k.idx = m.idx + 1 => k.res \in V /\ Continues(k, k.res)
    BY <1>4, <1>7, <2>1 DEF Continues
  <2> QED
    BY <1>1, <1>2, <1>3, <2>2, <2>3 DEF Continuing
<1>15. PendingInv'
  BY <1>10, <1>14 DEF PendingInv, EntriesOK
<1> QED
  BY <1>10, <1>11, <1>12, <1>13, <1>15 DEF ShownInv

\* Every step keeps the invariant.
LEMMA ShownStep ==
  ASSUME InOrderStart, OrderInv, ShownInv, [Next]_vars
  PROVE  ShownInv'
<1> USE DEF InOrderStart
<1>1. TreesInv /\ MessagesInv /\ DumpInv /\ PendingInv
  BY DEF ShownInv
<1> DEFINE Calm == UNCHANGED <<kern, sent, next_seq, next_seq_known, stored_messages, applied,
                               update_resources, all_resources, shown>>
<1>2. ASSUME Calm, sock' \subseteq sock, DumpInv', Dumping => dump' = dump
      PROVE  ShownInv'
  <2>1. Waiting' \subseteq Waiting
    BY <1>2 DEF Waiting, Stored
  <2> QED
    BY <1>2, <2>1, QuietStep
<1>3. ASSUME Calm, sock' \subseteq sock, UNCHANGED <<dump, expect_reply, initial_state, receive_update>>,
             pc' = pc \/ pc' = "exit" \/ (pc' = "recv" /\ pc = "apply")
      PROVE  ShownInv'
  <2>1. DumpInv'
    BY <1>1, <1>3 DEF DumpInv, Dumping
  <2> QED
    BY <1>2, <1>3, <2>1
<1>4. CASE KernelNext
  <2>1. Trees(kern)
    BY <1>1 DEF TreesInv, Trees
  <2>2. PICK r, act, objs, infos, newKern :
          Notify(r, act, objs, infos, newKern) /\ Bundle(act, objs, infos) /\ Trees(newKern)
    BY <1>4, <2>1, KernelBundles DEF Notifies
  <2> QED
    BY <2>2, NotifyTells
<1>5. ASSUME NEW m \in sock, Overrun(m)
      PROVE  ShownInv'
  BY <1>3, <1>5 DEF Overrun, cmd_vars, order_vars, data_vars
<1>6. CASE generic_send
  <2>1. /\ pc = "send" /\ dump' = Dump /\ expect_reply' = TRUE /\ pc' = "recv"
        /\ UNCHANGED <<initial_state, receive_update, sock>> /\ Calm
    BY <1>6 DEF generic_send, kernel_vars, order_vars, data_vars
  <2>2. DumpShape(dump')
    BY <1>1, <2>1, DumpHasShape DEF TreesInv
  <2>3. ~ Dumping /\ (initial_state \/ receive_update)
    BY <1>1, <2>1 DEF DumpInv
  <2>4. DumpInv'
    BY <2>1, <2>2, <2>3 DEF DumpInv
  <2> QED
    BY <1>2, <2>1, <2>3, <2>4
<1>7. CASE recv_dump
  BY <1>7, DumpStep
<1>8. CASE recv_notification
  <2>1. PICK m \in sock : /\ next_seq_known \/ m.idx = 1
                          /\ sock' = sock \ {m}
                          /\ Receive(m)
    BY <1>8 DEF recv_notification
  <2>2. UNCHANGED <<kern, sent, opts, dump, expect_reply>> /\ pc = "recv"
    BY <1>8, <2>1 DEF recv_notification, Receive
  <2>3. m.act \notin {"exists", "done"} /\ PassesFilter(m)
    BY DEF OrderInv, Numbered, PassesFilter
  <2>4. StoreNotification(m, initial_state \/ receive_update)
    BY <2>1, <2>3 DEF Receive, print_event, DumpDone, ApplyExists
  <2>5. /\ pc' = IF initial_state \/ receive_update THEN "recv" ELSE "apply"
        /\ next_seq_known => next_seq' = next_seq /\ next_seq_known'
        /\ UNCHANGED <<initial_state, receive_update, applied, update_resources, all_resources, shown>>
    BY <2>4 DEF StoreNotification, data_vars
  <2>6. Stored' = Stored \union {m}
    BY <2>1, <2>2, <2>4, StoreKeeps
  <2>7. Waiting' \subseteq Waiting
    BY <2>1, <2>6 DEF Waiting
  <2>8. DumpInv'
    BY <1>1, <2>2, <2>5 DEF DumpInv, Dumping
  <2> QED
    BY <2>2, <2>5, <2>7, <2>8, QuietStep
<1>9. CASE recv_nlmsg_done
  <2>1. /\ dump # <<>> /\ Head(dump).act = "NLMSG_DONE" /\ dump' = Tail(dump)
        /\ pc' # "send" /\ UNCHANGED <<initial_state, receive_update, sock>> /\ Calm
    BY <1>9 DEF recv_nlmsg_done, kernel_vars, order_vars, data_vars
  <2>2. DumpShape(dump') /\ ~ Dumping'
    BY <1>1, <2>1, ShapeTail DEF DumpInv, Dumping
  <2>3. ~ Dumping
    BY <2>1 DEF Dumping
  <2>4. DumpInv'
    BY <2>1, <2>2 DEF DumpInv
  <2> QED
    BY <1>2, <2>1, <2>3, <2>4
<1>10. CASE recv_overrun
  BY <1>3, <1>10 DEF recv_overrun, kernel_vars, socket_vars, order_vars, data_vars
<1>11. CASE recv_module_unloaded
  BY <1>3, <1>11 DEF recv_module_unloaded, kernel_vars, socket_vars, order_vars, data_vars
<1>12. CASE apply_stored_event
  BY <1>12, StoredStep
<1>13. CASE print_event_returns
  BY <1>3, <1>13 DEF print_event_returns, kernel_vars, socket_vars, order_vars, data_vars
<1>14. CASE read_next
  <2>1. /\ StdinReady /\ pc' = "send" /\ (initial_state' \/ receive_update')
        /\ UNCHANGED <<kern, sent, sock, dump, next_seq, next_seq_known, stored_messages, applied, update_resources>>
        /\ \/ all_resources' = <<>> /\ shown' = <<>>
           \/ UNCHANGED <<all_resources, shown>>
    BY <1>14 DEF read_next, kernel_vars, socket_vars, data_vars
  <2>2. ~ Dumping /\ ~ Dumping'
    BY <1>1, <2>1 DEF DumpInv, StdinReady, Dumping
  <2>3. DumpInv'
    BY <1>1, <2>1, <2>2 DEF DumpInv
  <2>4. CASE UNCHANGED <<all_resources, shown>>
    BY <1>2, <2>1, <2>2, <2>3, <2>4
  <2>5. CASE all_resources' = <<>> /\ shown' = <<>>
    <3>1. DOMAIN all_resources' = {} /\ DOMAIN shown' = {}
      BY <2>5
    <3>2. TreesInv' /\ ShownMatchesCopy'
      BY <1>1, <2>1, <3>1 DEF TreesInv, ShownMatchesCopy
    <3>3. Waiting' = Waiting
      BY <2>1 DEF Waiting, Stored
    <3>4. MessagesInv'
      BY <1>1, <2>1, <3>3 DEF MessagesInv
    <3>5. sent \in Nat
      BY SeqAssumption DEF OrderInv, Numbered
    <3>6. Continuing => Continuing'
      BY <2>1, <3>3, <3>5, StillContinuing
    <3>7. PendingInv'
      BY <1>1, <2>1, <2>2, <3>6 DEF PendingInv
    <3> QED
      BY <2>3, <3>2, <3>4, <3>7 DEF ShownInv
  <2> QED
    BY <2>1, <2>4, <2>5
<1>15. CASE read_end
  BY <1>3, <1>15 DEF read_end, kernel_vars, socket_vars, order_vars, data_vars
<1>16. CASE UNCHANGED vars
  BY <1>3, <1>16 DEF vars, kernel_vars, socket_vars, cmd_vars, order_vars, data_vars
<1> QED
  BY <1>4, <1>5, <1>6, <1>7, <1>8, <1>9, <1>10, <1>11, <1>12, <1>13, <1>14, <1>15, <1>16 DEF Next

\* A program that reads the lines of drbdsetup events2 knows exactly what
\* drbdsetup's copy of the kernel's objects holds, after any mix of dumps and
\* notifications, for any set of resources, volumes and connections:
\* what print_changes() leaves out is what has not changed.
THEOREM LinesTellTheCopy ==
  ASSUME InOrderStart
  PROVE  Spec => []ShownMatchesCopy
<1>1. Init => OrderInv /\ ShownInv
  BY OrderInit, ShownInit
<1>2. OrderInv /\ ShownInv /\ [Next]_vars => OrderInv' /\ ShownInv'
  BY FeedStep, ShownStep
<1>3. ShownInv => ShownMatchesCopy
  BY DEF ShownInv
<1> QED
  BY <1>1, <1>2, <1>3, PTL DEF Spec

-----------------------------------------------------------------------------
(* The copy and the kernel's history *)

Has(k, r, o) == r \in DOMAIN k /\ o \in DOMAIN k[r]

\* What is in the pending versions and in the copy
MergeOf(all, upd) ==
  [x \in DOMAIN all \union DOMAIN upd |-> IF x \in DOMAIN upd THEN upd[x].tree ELSE all[x]]
Merged == MergeOf(all_resources, update_resources)

\* The copy c as apply_event() leaves it, without the delay of a bundle
Renamed(c, r, n) ==
  [x \in (DOMAIN c \ {r}) \union {n} |-> IF x \in DOMAIN c \ {r} THEN c[x] ELSE c[r]]
TreeAfter(t, action, m) ==
  IF action \in {"create", "exists"} THEN StoreCheck(t, m.obj, m.info)
  ELSE IF action = "change" THEN ApplyChange(t, m.obj, m.info)
  ELSE IF action = "destroy" THEN ApplyDestroy(t, m.obj)
  ELSE t
After(c, action, m) ==
  IF m.obj = resource /\ action \in {"create", "exists"}
  THEN IF m.res \in DOMAIN c THEN c ELSE Put(c, m.res, Bare(m.info))
  ELSE IF m.res \notin DOMAIN c THEN c
  ELSE IF action = "rename" THEN Renamed(c, m.res, m.info)
  ELSE IF action = "destroy" /\ m.obj = resource THEN Without(c, {m.res})
  ELSE Put(c, m.res, TreeAfter(c[m.res], action, m))

\* The notification m tells of the step of the kernel from K to L.
Elsewhere(K, L, r) == DOMAIN L = DOMAIN K /\ \A x \in DOMAIN K : x # r => L[x] = K[x]
Step(m, K, L) ==
  \/ /\ m.act = "create" /\ m.obj = resource
     /\ m.res \notin DOMAIN K /\ DOMAIN L = DOMAIN K \union {m.res} /\ L[m.res] = Bare(m.info)
     /\ \A x \in DOMAIN K : L[x] = K[x]
  \/ /\ m.act = "create" /\ m.obj # resource
     /\ m.res \in DOMAIN K /\ m.obj \notin DOMAIN K[m.res] /\ Elsewhere(K, L, m.res)
     /\ L[m.res] = Put(K[m.res], m.obj, m.info)
  \/ /\ m.act = "change"
     /\ m.res \in DOMAIN K /\ m.obj \in DOMAIN K[m.res] /\ Elsewhere(K, L, m.res)
     /\ L[m.res] = Put(K[m.res], m.obj, m.info)
  \/ /\ m.act = "destroy" /\ m.obj # resource
     /\ m.res \in DOMAIN K /\ Elsewhere(K, L, m.res)
     /\ L[m.res] = Without(K[m.res], {m.obj})
  \/ /\ m.act = "destroy" /\ m.obj = resource
     /\ DOMAIN L = DOMAIN K \ {m.res} /\ \A x \in DOMAIN L : L[x] = K[x]
     /\ m.res \in DOMAIN K /\ DOMAIN K[m.res] = {resource}
  \/ /\ m.act = "rename"
     /\ m.res \in DOMAIN K /\ m.info \notin DOMAIN K
     /\ DOMAIN L = (DOMAIN K \ {m.res}) \union {m.info}
     /\ L[m.info] = K[m.res] /\ \A x \in DOMAIN K \ {m.res} : L[x] = K[x]
  \/ m.act = "helper" /\ L = K

\* What is constant in the versions k .. s of the history H is right in the
\* version t of the resource r: whether o is there, and its state.  Of a path
\* drbdsetup may not know, but what it knows is right.
Same(H, k, s, r, o, i) ==
  i \in k .. s /\ Has(H[i], r, o) /\ \A j \in k .. s : Has(H[j], r, o) => H[j][r][o] = H[i][r][o]
AgreesAt(t, H, k, s, r, o) ==
  /\ o \in DOMAIN t => \E i \in k .. s : Has(H[i], r, o)
  /\ o \notin Paths /\ (\A i \in k .. s : r \in DOMAIN H[i] => o \in DOMAIN H[i][r]) => o \in DOMAIN t
  /\ o \in DOMAIN t /\ o \notin Paths => \A i \in k .. s : Same(H, k, s, r, o, i) => t[o] = H[i][r][o]
  /\ o \in DOMAIN t /\ o \in Paths => Has(H[k], r, o) /\ t[o] = H[k][r][o]

\* The copy c lacks a resource of some version only if it was removed since,
\* and will be created again.
Lists(c, H, k, s) ==
  \E d \in k .. s : \A r \in DOMAIN H[d] \ DOMAIN c :
    (\E i \in 0 .. k : r \in DOMAIN H[i]) /\ (\E i \in k .. d : r \notin DOMAIN H[i])

Agrees(c, H, k, s) ==
  /\ \A r \in DOMAIN c, o \in Objects : AgreesAt(c[r], H, k, s, r, o)
  /\ Lists(c, H, k, s)

-----------------------------------------------------------------------------
(* The inductive invariant *)

\* every peer device has its device
Hosted(k) == \A r \in DOMAIN k : \A p \in PeerDevices \intersect DOMAIN k[r] : device(p[3]) \in DOMAIN k[r]

\* H[i] is the kernel's state after notification i, those within a bundle
\* included; B are the ends of the bundles.
History(H, B) ==
  /\ B \subseteq 0 .. sent /\ snap \in B /\ sent \in B /\ H[sent] = kern /\ Hosted(kern)
  /\ DOMAIN hist = 0 .. sent
  /\ \A i \in 0 .. sent : Trees(H[i]) /\ DOMAIN hist[i] = DOMAIN H[i]
  /\ \A i \in B : hist[i] = H[i]
  /\ \A i \in 1 .. sent : i \notin B => hist[i] = hist[i - 1]

\* A name that a rename has given up is not used again, a new one is new.
FreshIn(H, k, s, m) ==
  /\ \A i \in 0 .. k : m.info \notin DOMAIN H[i]
  /\ \A i \in k + 1 .. s : m.res \notin DOMAIN H[i]
FreshName(H, m) == FreshIn(H, m.idx - 1, sent, m)
Told(H, B) ==
  \A m \in Waiting :
    /\ m.cont <=> m.idx \notin B
    /\ Step(m, H[m.idx - 1], H[m.idx])
    /\ m.act = "rename" => m.idx - 1 \in B /\ m.info \in Resources /\ FreshName(H, m)
    /\ m.act = "destroy" /\ m.obj = resource => ~ m.cont

\* the rest of a dump of the kernel's state K
Ending(d) ==
  /\ Len(d) >= 2 /\ d[Len(d) - 1].act = "done"
  /\ \A i \in 1 .. Len(d) - 2 : d[i].act = "exists"
Truthful(d, K) ==
  \A i \in DOMAIN d : d[i].act = "exists" =>
    Has(K, d[i].res, d[i].obj) /\ d[i].obj \notin Paths /\ d[i].info = K[d[i].res][d[i].obj]
About(m, r, o) == m.act = "exists" /\ m.res = r /\ m.obj = o
Before(d, i, r, o) == \E j \in 1 .. i - 1 : About(d[j], r, o)
InOrder(c, d) ==
  \A i \in DOMAIN d : d[i].act = "exists" =>
    /\ d[i].obj # resource => d[i].res \in DOMAIN c \/ Before(d, i, d[i].res, resource)
    /\ d[i].obj \in PeerDevices =>
         Has(c, d[i].res, ConnectionOf(d[i].obj)) \/ Before(d, i, d[i].res, ConnectionOf(d[i].obj))
Partial(c, d, K) ==
  /\ \A r \in DOMAIN c : \A o \in DOMAIN c[r] : Has(K, r, o) /\ o \notin Paths /\ c[r][o] = K[r][o]
  /\ \A r \in DOMAIN K : \A o \in DOMAIN K[r] \ Paths :
       Has(c, r, o) \/ \E i \in DOMAIN d : About(d[i], r, o)
  /\ InOrder(c, d)

\* While a dump is received: its rest is true to the state it was made in.
Receiving(H) ==
  /\ pc # "stdin"
  /\ pc = "apply" => ~ initial_state /\ ~ receive_update
  /\ pc = "send" => initial_state \/ receive_update
  /\ pc # "send" /\ (initial_state \/ receive_update) =>
       expect_reply /\ Ending(dump) /\ Truthful(dump, H[snap])

CopyOf(H, k) ==
  /\ initial_state => ~ receive_update /\ k = 0
  /\ initial_state /\ pc = "send" => all_resources = <<>> /\ update_resources = <<>>
  /\ initial_state /\ pc # "send" => Partial(Merged, dump, H[snap])
  /\ receive_update /\ pc # "send" => k <= snap
  /\ ~ initial_state => Agrees(Merged, H, k, IF k <= snap THEN snap ELSE k)

PendingOnly(B, k) ==
  /\ \A r \in DOMAIN update_resources : ~ update_resources[r].destroyed
  /\ DOMAIN update_resources # {} =>
       \/ k \notin B
       \/ Dumping /\ Later(Head(dump)) /\ Head(dump).res \in DOMAIN update_resources

Settled(k) ==
  ~ initial_state /\ ~ receive_update /\ k >= snap => SameObjects(all_resources, hist[k])

Followed(H, B, k) ==
  /\ k \in 0 .. sent /\ applied = 1 .. k
  /\ History(H, B) /\ Told(H, B) /\ Receiving(H) /\ CopyOf(H, k) /\ PendingOnly(B, k) /\ Settled(k)

\* Nothing that was not dropped is missing.
Arriving ==
  /\ overrun \/ \A i \in 1 .. sent : i \in applied \/ \E m \in Waiting : m.idx = i
  /\ pc = "recv" /\ ~ initial_state /\ ~ receive_update => Due = {}

CopyInv == "now" \in opts \/ (Arriving /\ \E H, B, k : Followed(H, B, k))

-----------------------------------------------------------------------------
(* What the copy knows of the kernel's history *)

\* A version that agrees up to s agrees up to any later version.
LEMMA AtLater ==
  ASSUME NEW t, NEW H, NEW k \in Nat, NEW s \in Nat, NEW z \in Nat, s <= z, NEW r, NEW o,
         AgreesAt(t, H, k, s, r, o)
  PROVE  AgreesAt(t, H, k, z, r, o)
<1>1. k .. s \subseteq k .. z
  OBVIOUS
<1>2. o \in DOMAIN t => \E i \in k .. z : Has(H[i], r, o)
  BY <1>1 DEF AgreesAt
<1>3. o \notin Paths /\ (\A i \in k .. z : r \in DOMAIN H[i] => o \in DOMAIN H[i][r]) => o \in DOMAIN t
  BY <1>1 DEF AgreesAt
<1>4. ASSUME o \in DOMAIN t, o \notin Paths, NEW i \in k .. z, Same(H, k, z, r, o, i)
      PROVE  t[o] = H[i][r][o]
  <2>1. PICK j \in k .. s : Has(H[j], r, o)
    BY <1>4 DEF AgreesAt
  <2>2. H[j][r][o] = H[i][r][o]
    BY <1>1, <1>4, <2>1 DEF Same
  <2>3. Same(H, k, s, r, o, j)
    BY <1>1, <1>4, <2>1 DEF Same
  <2> QED
    BY <1>4, <2>2, <2>3 DEF AgreesAt
<1> QED
  BY <1>2, <1>3, <1>4 DEF AgreesAt

\* So does a copy.
LEMMA AgreesLater ==
  ASSUME NEW c, NEW H, NEW k \in Nat, NEW s \in Nat, NEW z \in Nat, s <= z, Agrees(c, H, k, s)
  PROVE  Agrees(c, H, k, z)
<1>1. \A r \in DOMAIN c, o \in Objects : AgreesAt(c[r], H, k, z, r, o)
  BY AtLater DEF Agrees
<1>2. k .. s \subseteq k .. z
  OBVIOUS
<1>3. Lists(c, H, k, z)
  BY <1>2 DEF Agrees, Lists
<1> QED
  BY <1>1, <1>3 DEF Agrees

\* A copy that agrees with one version has its objects.
LEMMA AgreesNow ==
  ASSUME NEW c, NEW H, NEW k \in Nat, Agrees(c, H, k, k),
         \A r \in DOMAIN c : IsTree(c[r]), Trees(H[k])
  PROVE  SameObjects(c, H[k])
<1>1. k .. k = {k}
  OBVIOUS
<1>2. \A r \in DOMAIN c, o \in Objects : AgreesAt(c[r], H, k, k, r, o)
  BY DEF Agrees
<1>3. \A r \in DOMAIN c, o \in Objects :
        /\ o \in DOMAIN c[r] => Has(H[k], r, o) /\ c[r][o] = H[k][r][o]
        /\ o \notin Paths /\ Has(H[k], r, o) => o \in DOMAIN c[r]
  BY <1>1, <1>2 DEF AgreesAt, Same, Has
<1>4. DOMAIN c = DOMAIN H[k]
  <2>1. \A r \in DOMAIN H[k] : r \in DOMAIN c
    BY <1>1 DEF Agrees, Lists
  <2>2. resource \in Objects
    BY DEF Objects
  <2>3. \A r \in DOMAIN c : r \in DOMAIN H[k]
    BY <1>3, <2>2 DEF Has, IsTree
  <2> QED
    BY <2>1, <2>3
<1>5. ASSUME NEW r \in DOMAIN c
      PROVE  /\ Without(c[r], Paths) = Without(H[k][r], Paths)
             /\ \A o \in DOMAIN c[r] \intersect Paths : o \in DOMAIN H[k][r] /\ c[r][o] = H[k][r][o]
  <2>1. DOMAIN c[r] \subseteq Objects /\ DOMAIN H[k][r] \subseteq Objects
    BY <1>4 DEF IsTree, Trees
  <2>2. DOMAIN c[r] \ Paths = DOMAIN H[k][r] \ Paths
    BY <1>3, <1>4, <2>1 DEF Has
  <2>3. \A o \in DOMAIN c[r] : o \in DOMAIN H[k][r] /\ c[r][o] = H[k][r][o]
    BY <1>3, <2>1 DEF Has
  <2> DEFINE D == DOMAIN c[r] \ Paths
  <2>4. [o \in D |-> c[r][o]] = [o \in D |-> H[k][r][o]]
    BY <2>3
  <2>5. Without(c[r], Paths) = [o \in D |-> c[r][o]] /\ Without(H[k][r], Paths) = [o \in D |-> H[k][r][o]]
    <3>1. DOMAIN c[r] \intersect D = D /\ DOMAIN H[k][r] \intersect D = D
      BY <2>2
    <3> QED
      BY <2>2, <3>1 DEF Without, Restrict
  <2> QED
    BY <2>3, <2>4, <2>5
<1> QED
  BY <1>4, <1>5 DEF SameObjects

\* The object o of resource r is the same in two versions of the kernel.
Unmoved(K, L, r, o) ==
  /\ r \in DOMAIN K <=> r \in DOMAIN L
  /\ Has(K, r, o) <=> Has(L, r, o)
  /\ Has(K, r, o) => L[r][o] = K[r][o]

\* ... so what is known of it stays right.
LEMMA AtUnmoved ==
  ASSUME NEW t, NEW u, NEW H, NEW k \in Nat, NEW s \in Nat, k < s, NEW r, NEW o,
         AgreesAt(t, H, k, s, r, o), Unmoved(H[k], H[k + 1], r, o),
         o \in DOMAIN u <=> o \in DOMAIN t, o \in DOMAIN t => u[o] = t[o]
  PROVE  AgreesAt(u, H, k + 1, s, r, o)
<1>1. k + 1 \in k + 1 .. s /\ \A i \in k .. s : i = k \/ i \in k + 1 .. s
  OBVIOUS
<1>2. k \in k .. s /\ k + 1 .. s \subseteq k .. s
  OBVIOUS
<1>3. o \in DOMAIN u => \E i \in k + 1 .. s : Has(H[i], r, o)
  BY <1>1 DEF AgreesAt, Unmoved
<1>4. o \notin Paths /\ (\A i \in k + 1 .. s : r \in DOMAIN H[i] => o \in DOMAIN H[i][r]) => o \in DOMAIN u
  BY <1>1 DEF AgreesAt, Unmoved, Has
<1>5. ASSUME o \in DOMAIN u, o \notin Paths, NEW i \in k + 1 .. s, Same(H, k + 1, s, r, o, i)
      PROVE  u[o] = H[i][r][o]
  <2>1. Has(H[k], r, o) => H[k][r][o] = H[i][r][o]
    BY <1>1, <1>5 DEF Same, Unmoved
  <2>2. Same(H, k, s, r, o, i)
    BY <1>1, <1>2, <1>5, <2>1 DEF Same
  <2> QED
    BY <1>2, <1>5, <2>2 DEF AgreesAt
<1>6. o \in DOMAIN u /\ o \in Paths => Has(H[k + 1], r, o) /\ u[o] = H[k + 1][r][o]
  BY DEF AgreesAt, Unmoved
<1> QED
  BY <1>3, <1>4, <1>5, <1>6 DEF AgreesAt

\* So it does for a resource that the kernel did not have before.
LEMMA AtAppears ==
  ASSUME NEW t, NEW H, NEW k \in Nat, NEW s \in Nat, k < s, NEW r, NEW o,
         AgreesAt(t, H, k, s, r, o), r \notin DOMAIN H[k]
  PROVE  AgreesAt(t, H, k + 1, s, r, o)
<1>1. k + 1 \in k + 1 .. s /\ \A i \in k .. s : i = k \/ i \in k + 1 .. s
  OBVIOUS
<1>2. k \in k .. s /\ k + 1 .. s \subseteq k .. s
  OBVIOUS
<1>3. ~ Has(H[k], r, o)
  BY DEF Has
<1>4. \A i \in k + 1 .. s : Same(H, k + 1, s, r, o, i) => Same(H, k, s, r, o, i)
  BY <1>1, <1>2, <1>3 DEF Same
<1> QED
  BY <1>1, <1>2, <1>3, <1>4 DEF AgreesAt

\* What is as in version k agrees from there on.
LEMMA AtExact ==
  ASSUME NEW t, NEW H, NEW k \in Nat, NEW s \in Nat, k <= s, NEW r, NEW o,
         r \in DOMAIN H[k],
         o \in DOMAIN t => Has(H[k], r, o) /\ t[o] = H[k][r][o],
         o \notin Paths /\ Has(H[k], r, o) => o \in DOMAIN t
  PROVE  AgreesAt(t, H, k, s, r, o)
<1>1. k \in k .. s
  OBVIOUS
<1> QED
  BY <1>1 DEF AgreesAt, Same, Has

\* A step of the kernel leaves the other resources and objects alone.
LEMMA StepElsewhere ==
  ASSUME NEW K, NEW L, NEW r \in DOMAIN K, Elsewhere(K, L, r), NEW x, NEW o,
         x # r \/ ((o \in DOMAIN K[r] <=> o \in DOMAIN L[r]) /\ (o \in DOMAIN K[r] => L[r][o] = K[r][o]))
  PROVE  Unmoved(K, L, x, o)
  BY DEF Elsewhere, Unmoved, Has

\* store_device_check() and the others, for a new object p.
LEMMA CreateAgrees ==
  ASSUME NEW t, NEW H, NEW k \in Nat, NEW s \in Nat, k < s, NEW r, NEW p \in Objects, NEW info,
         p # resource, \A i \in 0 .. s : Trees(H[i]),
         r \in DOMAIN H[k], p \notin DOMAIN H[k][r], Elsewhere(H[k], H[k + 1], r),
         H[k + 1][r] = Put(H[k][r], p, info),
         \A o \in Objects : AgreesAt(t, H, k, s, r, o)
  PROVE  \A o \in Objects : AgreesAt(StoreCheck(t, p, info), H, k + 1, s, r, o)
<1> DEFINE K == H[k]
           L == H[k + 1]
           u == StoreCheck(t, p, info)
<1>1. /\ k + 1 \in k + 1 .. s /\ k \in k .. s /\ k + 1 .. s \subseteq k .. s
      /\ \A i \in k .. s : i = k \/ i \in k + 1 .. s
      /\ k + 1 .. s \subseteq 0 .. s
  OBVIOUS
<1>2. /\ r \in DOMAIN L /\ p \in DOMAIN L[r] /\ L[r][p] = info
      /\ \A o : o # p => (o \in DOMAIN K[r] <=> o \in DOMAIN L[r]) /\ (o \in DOMAIN K[r] => L[r][o] = K[r][o])
  BY DEF Elsewhere, Put
<1>3. /\ u = t \/ (p \in DOMAIN u /\ u[p] = info)
      /\ \A o : o # p => (o \in DOMAIN u <=> o \in DOMAIN t) /\ (o \in DOMAIN t => u[o] = t[o])
      /\ u = t => p \in DOMAIN t \/ (p \in PeerDevices \union Paths /\ ConnectionOf(p) \notin DOMAIN t)
      /\ u # t => p \notin DOMAIN t
  <2>1. CASE p \in DOMAIN t \/ (p \in PeerDevices \union Paths /\ ConnectionOf(p) \notin DOMAIN t)
    <3>1. u = t
      BY <2>1 DEF StoreCheck
    <3> QED
      BY <2>1, <3>1
  <2>2. CASE ~ (p \in DOMAIN t \/ (p \in PeerDevices \union Paths /\ ConnectionOf(p) \notin DOMAIN t))
    <3>1. u = Put(t, p, info)
      BY <2>2 DEF StoreCheck
    <3>2. p \notin DOMAIN t /\ p \in DOMAIN u
      BY <2>2, <3>1 DEF Put
    <3> QED
      BY <3>1, <3>2 DEF Put
  <2> QED
    BY <2>1, <2>2
<1> HIDE DEF u
<1>4. ASSUME NEW o \in Objects, o # p
      PROVE  AgreesAt(u, H, k + 1, s, r, o)
  <2>1. Unmoved(K, L, r, o)
    BY <1>2, <1>4, StepElsewhere
  <2> QED
    BY <1>3, <1>4, <2>1, AtUnmoved
<1>5. AgreesAt(t, H, k, s, r, p)
  OBVIOUS
<1>6. Has(L, r, p) /\ ~ Has(K, r, p)
  BY <1>2 DEF Has
<1>7. CASE p \in DOMAIN t
  <2>1. u = t
    BY <1>3, <1>7
  <2>2. \A i \in k + 1 .. s : Same(H, k + 1, s, r, p, i) => Same(H, k, s, r, p, i)
    BY <1>1, <1>6 DEF Same
  <2>3. p \notin Paths
    BY <1>5, <1>6, <1>7 DEF AgreesAt
  <2>4. AgreesAt(u, H, k + 1, s, r, p)
    BY <1>1, <1>5, <1>6, <1>7, <2>1, <2>2, <2>3 DEF AgreesAt
  <2> QED
    BY <1>4, <2>4 DEF u
<1>8. CASE p \notin DOMAIN t /\ u # t
  <2>1. p \in DOMAIN u /\ u[p] = info
    BY <1>3, <1>8
  <2>2. \A i \in k + 1 .. s : Same(H, k + 1, s, r, p, i) => H[i][r][p] = info
    BY <1>1, <1>2, <1>6 DEF Same
  <2>3. AgreesAt(u, H, k + 1, s, r, p)
    BY <1>1, <1>2, <1>6, <2>1, <2>2 DEF AgreesAt
  <2> QED
    BY <1>4, <2>3 DEF u
<1>9. CASE p \notin DOMAIN t /\ u = t
  <2> DEFINE q == ConnectionOf(p)
  <2>1. p \in PeerDevices \union Paths /\ q \notin DOMAIN t
    BY <1>3, <1>9
  <2>2. q \in Connections /\ q \in Objects /\ q \notin Paths /\ q # p
    BY <2>1, TheirConnections, KindsDiffer DEF Objects
  <2>3. ASSUME \A i \in k + 1 .. s : r \in DOMAIN H[i] => p \in DOMAIN H[i][r]
        PROVE  FALSE
    <3>1. \A i \in k + 1 .. s : r \in DOMAIN H[i] => q \in DOMAIN H[i][r]
      BY <1>1, <2>1, <2>3 DEF Trees, IsTree
    <3>2. q \in DOMAIN K[r]
      BY <1>1, <1>2, <2>2, <3>1
    <3>3. \A i \in k .. s : r \in DOMAIN H[i] => q \in DOMAIN H[i][r]
      BY <1>1, <3>1, <3>2
    <3>4. AgreesAt(t, H, k, s, r, q)
      BY <2>2
    <3> QED
      BY <2>1, <2>2, <3>3, <3>4 DEF AgreesAt
  <2>4. AgreesAt(u, H, k + 1, s, r, p)
    BY <1>9, <2>3 DEF AgreesAt
  <2> QED
    BY <1>4, <2>4 DEF u
<1> QED
  BY <1>7, <1>8, <1>9

\* apply_event() of a new state of the object p.
LEMMA ChangeAgrees ==
  ASSUME NEW t, NEW H, NEW k \in Nat, NEW s \in Nat, k < s, NEW r, NEW p \in Objects, NEW info,
         r \in DOMAIN H[k], p \in DOMAIN H[k][r], Elsewhere(H[k], H[k + 1], r),
         H[k + 1][r] = Put(H[k][r], p, info),
         \A o \in Objects : AgreesAt(t, H, k, s, r, o)
  PROVE  \A o \in Objects : AgreesAt(ApplyChange(t, p, info), H, k + 1, s, r, o)
<1> DEFINE K == H[k]
           L == H[k + 1]
           u == ApplyChange(t, p, info)
<1>1. /\ k + 1 \in k + 1 .. s /\ k \in k .. s /\ k + 1 .. s \subseteq k .. s
      /\ \A i \in k .. s : i = k \/ i \in k + 1 .. s
  OBVIOUS
<1>2. /\ r \in DOMAIN L /\ p \in DOMAIN L[r] /\ L[r][p] = info
      /\ \A o : o # p => (o \in DOMAIN K[r] <=> o \in DOMAIN L[r]) /\ (o \in DOMAIN K[r] => L[r][o] = K[r][o])
  BY DEF Elsewhere, Put
<1>3. /\ \A o : o # p => (o \in DOMAIN u <=> o \in DOMAIN t) /\ (o \in DOMAIN t => u[o] = t[o])
      /\ \/ p \in DOMAIN u /\ u[p] = info
         \/ p \notin DOMAIN u /\ p \notin DOMAIN t
  <2>1. CASE p \in DOMAIN t
    BY <2>1 DEF ApplyChange
  <2>2. CASE p \notin DOMAIN t
    <3>1. u = t \/ u = Put(t, p, info)
      BY <2>2 DEF ApplyChange, StoreCheck
    <3> HIDE DEF u
    <3> QED
      BY <2>2, <3>1 DEF Put
  <2> QED
    BY <2>1, <2>2
<1> HIDE DEF u
<1>4. ASSUME NEW o \in Objects, o # p
      PROVE  AgreesAt(u, H, k + 1, s, r, o)
  <2>1. Unmoved(K, L, r, o)
    BY <1>2, <1>4, StepElsewhere
  <2> QED
    BY <1>3, <1>4, <2>1, AtUnmoved
<1>5. AgreesAt(t, H, k, s, r, p)
  OBVIOUS
<1>6. Has(L, r, p) /\ Has(K, r, p)
  BY <1>2 DEF Has
<1>7. AgreesAt(u, H, k + 1, s, r, p)
  <2>1. CASE p \in DOMAIN u /\ u[p] = info
    <3>1. \A i \in k + 1 .. s : Same(H, k + 1, s, r, p, i) => H[i][r][p] = info
      BY <1>1, <1>2, <1>6 DEF Same
    <3> QED
      BY <1>1, <1>2, <1>6, <2>1, <3>1 DEF AgreesAt
  <2>2. CASE p \notin DOMAIN u /\ p \notin DOMAIN t
    <3>1. (\A i \in k + 1 .. s : r \in DOMAIN H[i] => p \in DOMAIN H[i][r])
             => \A i \in k .. s : r \in DOMAIN H[i] => p \in DOMAIN H[i][r]
      BY <1>1
    <3> QED
      BY <1>5, <2>2, <3>1 DEF AgreesAt
  <2> QED
    BY <1>3, <2>1, <2>2
<1> QED
  BY <1>4, <1>7 DEF u

\* delete_device() and the others.
LEMMA DestroyAgrees ==
  ASSUME NEW t, NEW H, NEW k \in Nat, NEW s \in Nat, k < s, NEW r, NEW p \in Objects,
         p # resource, Trees(H[k + 1]),
         r \in DOMAIN H[k], Elsewhere(H[k], H[k + 1], r),
         H[k + 1][r] = Without(H[k][r], {p}),
         \A o \in Objects : AgreesAt(t, H, k, s, r, o)
  PROVE  \A o \in Objects : AgreesAt(ApplyDestroy(t, p), H, k + 1, s, r, o)
<1> DEFINE K == H[k]
           L == H[k + 1]
           G == {p} \union {x \in PeerDevices \union Paths : ConnectionOf(x) = p}
           u == ApplyDestroy(t, p)
<1>1. k + 1 \in k + 1 .. s
  OBVIOUS
<1>2. /\ r \in DOMAIN L /\ p \notin DOMAIN L[r]
      /\ \A o : o # p => (o \in DOMAIN K[r] <=> o \in DOMAIN L[r]) /\ (o \in DOMAIN K[r] => L[r][o] = K[r][o])
  <2>1. /\ DOMAIN Without(K[r], {p}) = DOMAIN K[r] \ {p}
        /\ \A x \in DOMAIN K[r] \ {p} : Without(K[r], {p})[x] = K[r][x]
    BY WithoutValues
  <2>2. r \in DOMAIN L /\ L[r] = Without(K[r], {p})
    BY DEF Elsewhere
  <2> QED
    BY <2>1, <2>2
<1>3. \A o : /\ o \in DOMAIN u <=> o \in DOMAIN t /\ o \notin G
             /\ o \in DOMAIN u => u[o] = t[o]
  <2>1. DOMAIN Without(t, G) = DOMAIN t \ G /\ \A x \in DOMAIN t \ G : Without(t, G)[x] = t[x]
    BY WithoutValues
  <2>2. u = Without(t, G)
    BY DEF ApplyDestroy
  <2> HIDE DEF u, G
  <2> QED
    BY <2>1, <2>2
<1>4. \A o \in G : o \notin DOMAIN L[r]
  BY <1>2 DEF Trees, IsTree
<1> HIDE DEF u, G
<1>5. ASSUME NEW o \in Objects
      PROVE  AgreesAt(u, H, k + 1, s, r, o)
  <2>1. CASE o \in G
    <3>1. o \notin DOMAIN u
      BY <1>3, <2>1
    <3> QED
      BY <1>1, <1>2, <1>4, <2>1, <3>1 DEF AgreesAt
  <2>2. CASE o \notin G
    <3>1. o # p
      BY <2>2 DEF G
    <3>2. Unmoved(K, L, r, o)
      BY <1>2, <3>1, StepElsewhere
    <3> QED
      BY <1>3, <2>2, <3>2, AtUnmoved
  <2> QED
    BY <2>1, <2>2
<1> QED
  BY <1>5 DEF u

\* A version under its new name.
LEMMA RenameAgrees ==
  ASSUME NEW t, NEW H, NEW k \in Nat, NEW s \in Nat, k < s, NEW r, NEW n, NEW o,
         r \in DOMAIN H[k], n \in DOMAIN H[k + 1], H[k + 1][n] = H[k][r],
         \A i \in k + 1 .. s : r \notin DOMAIN H[i],
         AgreesAt(t, H, k, s, r, o)
  PROVE  AgreesAt(t, H, k + 1, s, n, o)
<1> DEFINE K == H[k]
           L == H[k + 1]
<1>1. /\ k + 1 \in k + 1 .. s /\ k \in k .. s
      /\ \A i \in k .. s : i = k \/ i \in k + 1 .. s
  OBVIOUS
<1>2. \A i \in k + 1 .. s : ~ Has(H[i], r, o)
  BY DEF Has
<1>3. Has(K, r, o) <=> Has(L, n, o)
  BY DEF Has
<1>4. o \in DOMAIN t => Has(K, r, o) /\ Has(L, n, o)
  BY <1>1, <1>2, <1>3 DEF AgreesAt
<1>5. Has(K, r, o) => Same(H, k, s, r, o, k)
  BY <1>1, <1>2 DEF Same
<1>6. o \in DOMAIN t => t[o] = L[n][o]
  BY <1>1, <1>4, <1>5 DEF AgreesAt
<1>7. ASSUME o \notin Paths, \A i \in k + 1 .. s : n \in DOMAIN H[i] => o \in DOMAIN H[i][n]
      PROVE  o \in DOMAIN t
  <2>1. \A i \in k .. s : r \in DOMAIN H[i] => o \in DOMAIN H[i][r]
    BY <1>1, <1>7
  <2> QED
    BY <1>7, <2>1 DEF AgreesAt
<1>8. \A i \in k + 1 .. s : o \in DOMAIN t /\ Same(H, k + 1, s, n, o, i) => t[o] = H[i][n][o]
  BY <1>1, <1>4, <1>6 DEF Same
<1> QED
  BY <1>1, <1>4, <1>6, <1>7, <1>8 DEF AgreesAt

\* The names of the copy c, and of the copy e after one more notification.
LEMMA ListsNext ==
  ASSUME NEW c, NEW e, NEW H, NEW k \in Nat, NEW s \in Nat, k < s, Lists(c, H, k, s),
         DOMAIN H[k] \subseteq DOMAIN c => DOMAIN H[k + 1] \subseteq DOMAIN e,
         \A x \in DOMAIN c \ DOMAIN e : x \in DOMAIN H[k] /\ x \notin DOMAIN H[k + 1],
         \A x \in DOMAIN H[k + 1] \ DOMAIN H[k] : x \in DOMAIN e \/ \A i \in 0 .. k : x \notin DOMAIN H[i]
  PROVE  Lists(e, H, k + 1, s)
<1>1. PICK d \in k .. s : \A r \in DOMAIN H[d] \ DOMAIN c :
        (\E i \in 0 .. k : r \in DOMAIN H[i]) /\ (\E i \in k .. d : r \notin DOMAIN H[i])
  BY DEF Lists
<1>2. CASE d = k
  <2>1. DOMAIN H[k] \subseteq DOMAIN c
    <3>1. \A i \in k .. d : i = k
      BY <1>2
    <3> QED
      BY <1>1, <1>2, <3>1
  <2>2. DOMAIN H[k + 1] \ DOMAIN e = {}
    BY <2>1
  <2>3. k + 1 \in k + 1 .. s
    OBVIOUS
  <2> QED
    BY <2>2, <2>3 DEF Lists
<1>3. CASE d # k
  <2>1. d \in k + 1 .. s /\ k \in 0 .. k + 1 /\ 0 .. k \subseteq 0 .. k + 1 /\ k + 1 \in k + 1 .. d
    BY <1>3
  <2>2. \A i \in k .. d : i = k \/ i \in k + 1 .. d
    OBVIOUS
  <2>3. ASSUME NEW r \in DOMAIN H[d] \ DOMAIN e
        PROVE  (\E i \in 0 .. k + 1 : r \in DOMAIN H[i]) /\ (\E i \in k + 1 .. d : r \notin DOMAIN H[i])
    <3>1. CASE r \in DOMAIN c
      BY <2>1, <2>3, <3>1
    <3>2. CASE r \notin DOMAIN c
      <4>1. (\E i \in 0 .. k : r \in DOMAIN H[i]) /\ (\E i \in k .. d : r \notin DOMAIN H[i])
        BY <1>1, <3>2
      <4>2. r \notin DOMAIN H[k] => r \notin DOMAIN H[k + 1]
        BY <2>3, <4>1
      <4> QED
        BY <2>1, <2>2, <4>1, <4>2
    <3> QED
      BY <3>1, <3>2
  <2> QED
    BY <2>1, <2>3 DEF Lists
<1> QED
  BY <1>2, <1>3

-----------------------------------------------------------------------------
(* One more notification *)

\* A version of the copy that agrees with the history in every object
AgreesIn(t, H, k, s, r) == \A o \in Objects : AgreesAt(t, H, k, s, r, o)

\* The resources a notification is not about.
LEMMA OthersAgree ==
  ASSUME NEW c, NEW H, NEW k \in Nat, NEW s \in Nat, k < s, Agrees(c, H, k, s), NEW x \in DOMAIN c,
         x \in DOMAIN H[k] <=> x \in DOMAIN H[k + 1], x \in DOMAIN H[k] => H[k + 1][x] = H[k][x]
  PROVE  AgreesIn(c[x], H, k + 1, s, x)
<1>1. ASSUME NEW o \in Objects
      PROVE  AgreesAt(c[x], H, k + 1, s, x, o)
  <2>1. AgreesAt(c[x], H, k, s, x, o)
    BY DEF Agrees
  <2>2. Unmoved(H[k], H[k + 1], x, o)
    BY DEF Unmoved, Has
  <2> QED
    BY <2>1, <2>2, AtUnmoved
<1> QED
  BY <1>1 DEF AgreesIn

\* A resource is created: the copy gets it, empty.
LEMMA CreateResourceStep ==
  ASSUME NEW c, NEW H, NEW k \in Nat, NEW s \in Nat, k < s, Agrees(c, H, k, s), NEW m,
         Step(m, H[k], H[k + 1]), m.act = "create", m.obj = resource
  PROVE  Agrees(After(c, m.act, m), H, k + 1, s)
<1> DEFINE r == m.res
           info == m.info
           e == After(c, m.act, m)
<1>a. /\ r \notin DOMAIN H[k] /\ DOMAIN H[k + 1] = DOMAIN H[k] \union {r} /\ H[k + 1][r] = Bare(info)
      /\ \A x \in DOMAIN H[k] : H[k + 1][x] = H[k][x]
  BY DEF Step
<1>b. e = IF r \in DOMAIN c THEN c ELSE Put(c, r, Bare(info))
  BY DEF After
<1>c. /\ DOMAIN Put(c, r, Bare(info)) = DOMAIN c \union {r} /\ Put(c, r, Bare(info))[r] = Bare(info)
      /\ \A x \in DOMAIN c : x # r => Put(c, r, Bare(info))[x] = c[x]
  BY DEF Put
<1> HIDE DEF r, info, e
<1>d. /\ DOMAIN e = DOMAIN c \union {r} /\ \A x \in DOMAIN c : e[x] = c[x]
      /\ r \notin DOMAIN c => e[r] = Bare(info)
  BY <1>b, <1>c
<1>1. ASSUME NEW x \in DOMAIN e
      PROVE  AgreesIn(e[x], H, k + 1, s, x)
  <2>1. CASE x # r
    BY <1>a, <1>d, <1>1, <2>1, OthersAgree
  <2>2. CASE x = r /\ r \in DOMAIN c
    <3>1. e[x] = c[r]
      BY <1>d, <2>2
    <3>2. ASSUME NEW o \in Objects
          PROVE  AgreesAt(c[r], H, k + 1, s, r, o)
      <4>1. AgreesAt(c[r], H, k, s, r, o)
        BY <2>2 DEF Agrees
      <4> QED
        BY <1>a, <4>1, AtAppears
    <3> QED
      BY <2>2, <3>1, <3>2 DEF AgreesIn
  <2>3. CASE x = r /\ r \notin DOMAIN c
    <3>1. e[r] = H[k + 1][r] /\ r \in DOMAIN H[k + 1]
      BY <1>a, <1>d, <2>3
    <3>2. k + 1 \in Nat /\ k + 1 <= s
      OBVIOUS
    <3>3. ASSUME NEW o \in Objects
          PROVE  AgreesAt(e[r], H, k + 1, s, r, o)
      <4>1. /\ o \in DOMAIN e[r] => Has(H[k + 1], r, o) /\ e[r][o] = H[k + 1][r][o]
            /\ o \notin Paths /\ Has(H[k + 1], r, o) => o \in DOMAIN e[r]
        BY <3>1 DEF Has
      <4> QED
        BY <3>1, <3>2, <4>1, AtExact
    <3> QED
      BY <2>3, <3>3 DEF AgreesIn
  <2> QED
    BY <2>1, <2>2, <2>3
<1>2. Lists(c, H, k, s)
  BY DEF Agrees
<1>3. Lists(e, H, k + 1, s)
  <2>1. DOMAIN H[k] \subseteq DOMAIN c => DOMAIN H[k + 1] \subseteq DOMAIN e
    BY <1>a, <1>d
  <2>2. \A x \in DOMAIN c \ DOMAIN e : x \in DOMAIN H[k] /\ x \notin DOMAIN H[k + 1]
    BY <1>a, <1>d
  <2>3. \A x \in DOMAIN H[k + 1] \ DOMAIN H[k] : x \in DOMAIN e \/ \A i \in 0 .. k : x \notin DOMAIN H[i]
    BY <1>a, <1>d
  <2> QED
    BY <1>2, <2>1, <2>2, <2>3, ListsNext
<1> QED
  BY <1>1, <1>3 DEF Agrees, AgreesIn, e

\* A notification about the objects of the resource r
LEMMA ObjectStep ==
  ASSUME NEW c, NEW H, NEW k \in Nat, NEW s \in Nat, k < s, Agrees(c, H, k, s), NEW r,
         r \in DOMAIN H[k], Elsewhere(H[k], H[k + 1], r),
         NEW e, DOMAIN e = DOMAIN c, \A x \in DOMAIN c : x # r => e[x] = c[x],
         r \in DOMAIN c => AgreesIn(e[r], H, k + 1, s, r)
  PROVE  Agrees(e, H, k + 1, s)
<1>1. ASSUME NEW x \in DOMAIN e
      PROVE  AgreesIn(e[x], H, k + 1, s, x)
  <2>1. CASE x # r
    BY <1>1, <2>1, OthersAgree DEF Elsewhere
  <2>2. CASE x = r
    BY <2>2, <1>1
  <2> QED
    BY <2>1, <2>2
<1>2. Lists(c, H, k, s)
  BY DEF Agrees
<1>3. Lists(e, H, k + 1, s)
  <2>0. DOMAIN H[k + 1] = DOMAIN H[k]
    BY DEF Elsewhere
  <2>1. DOMAIN H[k] \subseteq DOMAIN c => DOMAIN H[k + 1] \subseteq DOMAIN e
    BY <2>0
  <2>2. \A x \in DOMAIN c \ DOMAIN e : x \in DOMAIN H[k] /\ x \notin DOMAIN H[k + 1]
    OBVIOUS
  <2>3. \A x \in DOMAIN H[k + 1] \ DOMAIN H[k] : x \in DOMAIN e \/ \A i \in 0 .. k : x \notin DOMAIN H[i]
    BY <2>0
  <2> QED
    BY <1>2, <2>1, <2>2, <2>3, ListsNext
<1> QED
  BY <1>1, <1>3 DEF Agrees, AgreesIn

\* A resource is removed.
LEMMA DestroyResourceStep ==
  ASSUME NEW c, NEW H, NEW k \in Nat, NEW s \in Nat, k < s, Agrees(c, H, k, s), NEW m,
         Step(m, H[k], H[k + 1]), m.act = "destroy", m.obj = resource
  PROVE  Agrees(After(c, m.act, m), H, k + 1, s)
<1> DEFINE r == m.res
           e == After(c, m.act, m)
<1>a. /\ r \in DOMAIN H[k] /\ DOMAIN H[k + 1] = DOMAIN H[k] \ {r}
      /\ \A x \in DOMAIN H[k + 1] : H[k + 1][x] = H[k][x]
  BY DEF Step
<1>b. e = IF r \in DOMAIN c THEN Without(c, {r}) ELSE c
  BY DEF After
<1>c. DOMAIN Without(c, {r}) = DOMAIN c \ {r} /\ \A x \in DOMAIN c \ {r} : Without(c, {r})[x] = c[x]
  BY WithoutValues
<1> HIDE DEF r, e
<1>d. DOMAIN e = DOMAIN c \ {r} /\ \A x \in DOMAIN e : e[x] = c[x]
  BY <1>b, <1>c
<1>1. ASSUME NEW x \in DOMAIN e
      PROVE  AgreesIn(e[x], H, k + 1, s, x)
  BY <1>a, <1>d, <1>1, OthersAgree
<1>2. Lists(c, H, k, s)
  BY DEF Agrees
<1>3. Lists(e, H, k + 1, s)
  <2>1. DOMAIN H[k] \subseteq DOMAIN c => DOMAIN H[k + 1] \subseteq DOMAIN e
    BY <1>a, <1>d
  <2>2. \A x \in DOMAIN c \ DOMAIN e : x \in DOMAIN H[k] /\ x \notin DOMAIN H[k + 1]
    BY <1>a, <1>d
  <2>3. \A x \in DOMAIN H[k + 1] \ DOMAIN H[k] : x \in DOMAIN e \/ \A i \in 0 .. k : x \notin DOMAIN H[i]
    BY <1>a, <1>d
  <2> QED
    BY <1>2, <2>1, <2>2, <2>3, ListsNext
<1> QED
  BY <1>1, <1>3 DEF Agrees, AgreesIn, e

\* A resource gets another name.
LEMMA RenameStep ==
  ASSUME NEW c, NEW H, NEW k \in Nat, NEW s \in Nat, k < s, Agrees(c, H, k, s), NEW m,
         Step(m, H[k], H[k + 1]), m.act = "rename", FreshIn(H, k, s, m)
  PROVE  Agrees(After(c, m.act, m), H, k + 1, s)
<1> DEFINE r == m.res
           n == m.info
           e == After(c, m.act, m)
<1>a. /\ r \in DOMAIN H[k] /\ n \notin DOMAIN H[k] /\ DOMAIN H[k + 1] = (DOMAIN H[k] \ {r}) \union {n}
      /\ H[k + 1][n] = H[k][r] /\ \A x \in DOMAIN H[k] \ {r} : H[k + 1][x] = H[k][x]
  BY DEF Step
<1>b. e = IF r \in DOMAIN c THEN Renamed(c, r, n) ELSE c
  BY DEF After
<1>c. (\A i \in 0 .. k : n \notin DOMAIN H[i]) /\ (\A i \in k + 1 .. s : r \notin DOMAIN H[i])
  BY DEF FreshIn
<1> HIDE DEF r, n, e
<1>0. /\ DOMAIN e = (DOMAIN c \ {r}) \union (IF r \in DOMAIN c THEN {n} ELSE {})
      /\ \A x \in DOMAIN c \ {r} : e[x] = c[x]
      /\ r \in DOMAIN c /\ n \notin DOMAIN c => e[n] = c[r]
      /\ n # r
  BY <1>a, <1>b DEF Renamed
<1>1. ASSUME NEW x \in DOMAIN e
      PROVE  AgreesIn(e[x], H, k + 1, s, x)
  <2>1. CASE x # n
    BY <1>0, <1>a, <1>1, <2>1, OthersAgree
  <2>2. CASE x = n /\ n \in DOMAIN c
    <3>1. e[x] = c[n]
      BY <1>0, <2>2
    <3>2. ASSUME NEW o \in Objects
          PROVE  AgreesAt(c[n], H, k + 1, s, n, o)
      <4>1. AgreesAt(c[n], H, k, s, n, o)
        BY <2>2 DEF Agrees
      <4> QED
        BY <1>a, <4>1, AtAppears
    <3> QED
      BY <2>2, <3>1, <3>2 DEF AgreesIn
  <2>3. CASE x = n /\ n \notin DOMAIN c
    <3>1. r \in DOMAIN c /\ e[x] = c[r]
      BY <1>0, <1>1, <2>3
    <3>2. ASSUME NEW o \in Objects
          PROVE  AgreesAt(c[r], H, k + 1, s, n, o)
      <4>1. AgreesAt(c[r], H, k, s, r, o)
        BY <3>1 DEF Agrees
      <4>2. n \in DOMAIN H[k + 1]
        BY <1>a
      <4> QED
        BY <1>a, <1>c, <4>1, <4>2, RenameAgrees
    <3> QED
      BY <2>3, <3>1, <3>2 DEF AgreesIn
  <2> QED
    BY <2>1, <2>2, <2>3
<1>2. Lists(c, H, k, s)
  BY DEF Agrees
<1>3. Lists(e, H, k + 1, s)
  <2>1. DOMAIN H[k] \subseteq DOMAIN c => DOMAIN H[k + 1] \subseteq DOMAIN e
    BY <1>0, <1>a
  <2>2. \A x \in DOMAIN c \ DOMAIN e : x \in DOMAIN H[k] /\ x \notin DOMAIN H[k + 1]
    BY <1>0, <1>a
  <2>3. \A x \in DOMAIN H[k + 1] \ DOMAIN H[k] : x \in DOMAIN e \/ \A i \in 0 .. k : x \notin DOMAIN H[i]
    BY <1>a, <1>c
  <2> QED
    BY <1>2, <2>1, <2>2, <2>3, ListsNext
<1> QED
  BY <1>1, <1>3 DEF Agrees, AgreesIn, e

\* apply_event() of the notification after those applied so far: what was
\* right of the versions k .. s is right of the versions k + 1 .. s.
LEMMA AgreesStep ==
  ASSUME NEW c, NEW H, NEW k \in Nat, NEW s \in Nat, k < s, Agrees(c, H, k, s),
         \A i \in 0 .. s : Trees(H[i]),
         NEW m, m.obj \in Objects, Step(m, H[k], H[k + 1]),
         m.act = "rename" => FreshIn(H, k, s, m)
  PROVE  Agrees(After(c, m.act, m), H, k + 1, s)
<1> DEFINE r == m.res
           p == m.obj
           K == H[k]
           L == H[k + 1]
           e == After(c, m.act, m)
<1>0. k + 1 \in 0 .. s /\ Trees(L)
  OBVIOUS
<1>1. CASE m.act = "create" /\ p = resource
  BY <1>1, CreateResourceStep
<1>2. ASSUME r \in DOMAIN K, Elsewhere(K, L, r), m.act # "rename", ~ (m.act = "create" /\ p = resource),
             ~ (m.act = "destroy" /\ p = resource), m.act # "exists",
             r \in DOMAIN c => AgreesIn(TreeAfter(c[r], m.act, m), H, k + 1, s, r)
      PROVE  Agrees(e, H, k + 1, s)
  <2>1. CASE r \notin DOMAIN c
    <3>1. e = c
      BY <1>2, <2>1 DEF After
    <3> HIDE DEF e
    <3> QED
      BY <1>2, <2>1, <3>1, ObjectStep
  <2>2. CASE r \in DOMAIN c
    <3> DEFINE u == TreeAfter(c[r], m.act, m)
    <3>1. e = Put(c, r, u)
      BY <1>2, <2>2 DEF After
    <3> HIDE DEF u
    <3>2. DOMAIN e = DOMAIN c /\ e[r] = u /\ \A x \in DOMAIN c : x # r => e[x] = c[x]
      <4>1. DOMAIN Put(c, r, u) = DOMAIN c \union {r} /\ Put(c, r, u)[r] = u
            /\ \A x \in DOMAIN c : x # r => Put(c, r, u)[x] = c[x]
        BY DEF Put
      <4> HIDE DEF e
      <4> QED
        BY <2>2, <3>1, <4>1
    <3>3. AgreesIn(e[r], H, k + 1, s, r)
      BY <1>2, <2>2, <3>2 DEF u
    <3> HIDE DEF e
    <3> QED
      BY <1>2, <3>2, <3>3, ObjectStep
  <2> QED
    BY <2>1, <2>2
<1>3. r \in DOMAIN c => \A o \in Objects : AgreesAt(c[r], H, k, s, r, o)
  BY DEF Agrees
<1>4. CASE m.act = "create" /\ p # resource
  <2>1. r \in DOMAIN K /\ p \notin DOMAIN K[r] /\ Elsewhere(K, L, r) /\ L[r] = Put(K[r], p, m.info)
    BY <1>4 DEF Step
  <2>2. ASSUME r \in DOMAIN c
        PROVE  AgreesIn(TreeAfter(c[r], m.act, m), H, k + 1, s, r)
    <3>1. TreeAfter(c[r], m.act, m) = StoreCheck(c[r], p, m.info)
      BY <1>4 DEF TreeAfter
    <3>2. \A o \in Objects : AgreesAt(StoreCheck(c[r], p, m.info), H, k + 1, s, r, o)
      BY <1>3, <1>4, <2>1, <2>2, CreateAgrees
    <3> QED
      BY <3>1, <3>2 DEF AgreesIn
  <2> QED
    BY <1>2, <1>4, <2>1, <2>2
<1>5. CASE m.act = "change"
  <2>1. r \in DOMAIN K /\ p \in DOMAIN K[r] /\ Elsewhere(K, L, r) /\ L[r] = Put(K[r], p, m.info)
    BY <1>5 DEF Step
  <2>2. ASSUME r \in DOMAIN c
        PROVE  AgreesIn(TreeAfter(c[r], m.act, m), H, k + 1, s, r)
    <3>1. TreeAfter(c[r], m.act, m) = ApplyChange(c[r], p, m.info)
      BY <1>5 DEF TreeAfter
    <3>2. \A o \in Objects : AgreesAt(ApplyChange(c[r], p, m.info), H, k + 1, s, r, o)
      BY <1>3, <1>5, <2>1, <2>2, ChangeAgrees
    <3> QED
      BY <3>1, <3>2 DEF AgreesIn
  <2> QED
    BY <1>2, <1>5, <2>1, <2>2
<1>6. CASE m.act = "destroy" /\ p # resource
  <2>1. r \in DOMAIN K /\ Elsewhere(K, L, r) /\ L[r] = Without(K[r], {p})
    BY <1>6 DEF Step
  <2>2. ASSUME r \in DOMAIN c
        PROVE  AgreesIn(TreeAfter(c[r], m.act, m), H, k + 1, s, r)
    <3>1. TreeAfter(c[r], m.act, m) = ApplyDestroy(c[r], p)
      BY <1>6 DEF TreeAfter
    <3>2. \A o \in Objects : AgreesAt(ApplyDestroy(c[r], p), H, k + 1, s, r, o)
      BY <1>0, <1>3, <1>6, <2>1, <2>2, DestroyAgrees
    <3> QED
      BY <3>1, <3>2 DEF AgreesIn
  <2> QED
    BY <1>2, <1>6, <2>1, <2>2
<1>7. CASE m.act = "destroy" /\ p = resource
  BY <1>7, DestroyResourceStep
<1>8. CASE m.act = "rename"
  BY <1>8, RenameStep
<1>9. CASE m.act = "helper"
  <2>1. L = K
    BY <1>9 DEF Step
  <2>2. DOMAIN e = DOMAIN c /\ \A x \in DOMAIN c : e[x] = c[x]
    <3>1. CASE r \notin DOMAIN c
      BY <1>9, <3>1 DEF After
    <3>2. CASE r \in DOMAIN c
      <4>1. e = Put(c, r, c[r])
        BY <1>9, <3>2 DEF After, TreeAfter
      <4>2. DOMAIN Put(c, r, c[r]) = DOMAIN c \union {r} /\ Put(c, r, c[r])[r] = c[r]
            /\ \A x \in DOMAIN c : x # r => Put(c, r, c[r])[x] = c[x]
        BY DEF Put
      <4> HIDE DEF e
      <4> QED
        BY <3>2, <4>1, <4>2
    <3> QED
      BY <3>1, <3>2
  <2> HIDE DEF e
  <2>3. ASSUME NEW x \in DOMAIN e
        PROVE  AgreesIn(e[x], H, k + 1, s, x)
    BY <2>1, <2>2, OthersAgree
  <2>4. Lists(c, H, k, s)
    BY DEF Agrees
  <2>5. /\ DOMAIN H[k] \subseteq DOMAIN c => DOMAIN H[k + 1] \subseteq DOMAIN e
        /\ \A x \in DOMAIN c \ DOMAIN e : x \in DOMAIN H[k] /\ x \notin DOMAIN H[k + 1]
        /\ \A x \in DOMAIN H[k + 1] \ DOMAIN H[k] : x \in DOMAIN e \/ \A i \in 0 .. k : x \notin DOMAIN H[i]
    BY <2>1, <2>2
  <2>6. Lists(e, H, k + 1, s)
    BY <2>4, <2>5, ListsNext
  <2> QED
    BY <2>3, <2>6 DEF e, Agrees, AgreesIn
<1> QED
  BY <1>1, <1>4, <1>5, <1>6, <1>7, <1>8, <1>9 DEF Step

-----------------------------------------------------------------------------
(* The messages of a dump *)

\* While an update is received, an "exists" message acts as a change to the
\* state of the object in the version s the dump was made from.
LEMMA AgreesUpdate ==
  ASSUME NEW c, NEW H, NEW k \in Nat, NEW s \in Nat, k <= s, Agrees(c, H, k, s),
         NEW m, m.obj \in Objects \ Paths, Has(H[s], m.res, m.obj), m.info = H[s][m.res][m.obj]
  PROVE  Agrees(After(c, "change", m), H, k, s)
<1> DEFINE r == m.res
           p == m.obj
           e == After(c, "change", m)
           u == ApplyChange(c[r], p, m.info)
<1>1. CASE r \notin DOMAIN c
  <2>1. e = c
    BY <1>1 DEF After
  <2> QED
    BY <2>1
<1>2. CASE r \in DOMAIN c
  <2>1. e = Put(c, r, u)
    BY <1>2 DEF After, TreeAfter
  <2>2. DOMAIN u = DOMAIN c[r] /\ (\A o \in DOMAIN c[r] : o # p => u[o] = c[r][o]) /\ (p \in DOMAIN u => u[p] = m.info)
    BY DEF ApplyChange
  <2> HIDE DEF e, u
  <2>3. DOMAIN e = DOMAIN c /\ e[r] = u /\ \A x \in DOMAIN c : x # r => e[x] = c[x]
    BY <1>2, <2>1 DEF Put
  <2>4. ASSUME NEW o \in Objects
        PROVE  AgreesAt(u, H, k, s, r, o)
    <3>1. AgreesAt(c[r], H, k, s, r, o)
      BY <1>2 DEF Agrees
    <3>2. CASE o # p
      BY <2>2, <3>1, <3>2 DEF AgreesAt
    <3>3. CASE o = p
      <4>1. s \in k .. s
        OBVIOUS
      <4>2. \A i \in k .. s : Same(H, k, s, r, o, i) => m.info = H[i][r][o]
        BY <3>3, <4>1 DEF Same
      <4> QED
        BY <2>2, <3>1, <3>3, <4>2 DEF AgreesAt
    <3> QED
      BY <3>2, <3>3
  <2>5. Lists(e, H, k, s)
    BY <2>3 DEF Agrees, Lists
  <2>6. \A x \in DOMAIN e, o \in Objects : AgreesAt(e[x], H, k, s, x, o)
    BY <2>3, <2>4 DEF Agrees
  <2> QED
    BY <2>5, <2>6 DEF Agrees, e
<1> QED
  BY <1>1, <1>2

\* The dump is complete: the copy agrees with the state it was made from.
LEMMA AgreesDump ==
  ASSUME NEW c, NEW H, NEW s \in Nat, NEW d, Partial(c, d, H[s]),
         \A i \in DOMAIN d : d[i].act # "exists",
         \A r \in DOMAIN c : IsTree(c[r]), Trees(H[s])
  PROVE  Agrees(c, H, 0, s)
<1>1. s \in 0 .. s
  OBVIOUS
<1>2. resource \in Objects /\ resource \notin Paths
  BY KindsDiffer DEF Objects
<1>3. \A r \in DOMAIN c : r \in DOMAIN H[s]
  BY DEF Partial, IsTree, Has
<1>4. \A r \in DOMAIN H[s] : \A o \in DOMAIN H[s][r] \ Paths : Has(c, r, o)
  BY DEF Partial, About
<1>5. \A r \in DOMAIN c : \A o \in DOMAIN c[r] : Has(H[s], r, o) /\ o \notin Paths /\ c[r][o] = H[s][r][o]
  BY DEF Partial
<1>6. ASSUME NEW r \in DOMAIN c, NEW o \in Objects
      PROVE  AgreesAt(c[r], H, 0, s, r, o)
  <2>1. o \in DOMAIN c[r] => \E i \in 0 .. s : Has(H[i], r, o)
    BY <1>1, <1>5
  <2>2. o \notin Paths /\ (\A i \in 0 .. s : r \in DOMAIN H[i] => o \in DOMAIN H[i][r]) => o \in DOMAIN c[r]
    BY <1>1, <1>3, <1>4 DEF Has
  <2>3. o \in DOMAIN c[r] => \A i \in 0 .. s : Same(H, 0, s, r, o, i) => c[r][o] = H[i][r][o]
    BY <1>1, <1>5 DEF Same
  <2> QED
    BY <1>5, <2>1, <2>2, <2>3 DEF AgreesAt
<1>7. DOMAIN H[s] \ DOMAIN c = {}
  BY <1>2, <1>4 DEF Trees, IsTree, Has
<1>8. Lists(c, H, 0, s)
  BY <1>1, <1>7 DEF Lists
<1> QED
  BY <1>6, <1>8 DEF Agrees

\* The copy e is c with the object of the message m.
Learnt(c, e, m) ==
  /\ DOMAIN c \subseteq DOMAIN e
  /\ \A r, o : Has(c, r, o) => Has(e, r, o) /\ e[r][o] = c[r][o]
  /\ \A r, o : Has(e, r, o) => Has(c, r, o) \/ (r = m.res /\ o = m.obj /\ e[r][o] = m.info)
  /\ Has(e, m.res, m.obj)

\* An "exists" message of the first dump adds its object.
LEMMA ExistsLearns ==
  ASSUME NEW c, \A r \in DOMAIN c : IsTree(c[r]), NEW m,
         m.obj \notin Paths,
         m.obj # resource => m.res \in DOMAIN c,
         m.obj \in PeerDevices => Has(c, m.res, ConnectionOf(m.obj))
  PROVE  Learnt(c, After(c, "exists", m), m)
<1> DEFINE r == m.res
           p == m.obj
           e == After(c, "exists", m)
<1>1. CASE p = resource /\ r \in DOMAIN c
  <2>1. e = c
    BY <1>1 DEF After
  <2>2. Has(c, r, p)
    BY <1>1 DEF Has, IsTree
  <2> QED
    BY <2>1, <2>2 DEF Learnt
<1>2. CASE p = resource /\ r \notin DOMAIN c
  <2>1. e = Put(c, r, Bare(m.info))
    BY <1>2 DEF After
  <2> HIDE DEF e
  <2>2. DOMAIN e = DOMAIN c \union {r} /\ e[r] = Bare(m.info) /\ \A x \in DOMAIN c : e[x] = c[x]
    BY <1>2, <2>1 DEF Put
  <2>3. DOMAIN Bare(m.info) = {p} /\ Bare(m.info)[p] = m.info
    BY <1>2 DEF Bare
  <2> QED
    BY <1>2, <2>2, <2>3 DEF Learnt, Has, e
<1>3. CASE p # resource
  <2> DEFINE u == StoreCheck(c[r], p, m.info)
  <2>0. r \in DOMAIN c
    BY <1>3
  <2>1. e = Put(c, r, u)
    BY <1>3, <2>0 DEF After, TreeAfter
  <2>2. u = IF p \in DOMAIN c[r] THEN c[r] ELSE Put(c[r], p, m.info)
    BY DEF StoreCheck, Has
  <2> HIDE DEF e, u
  <2>3. DOMAIN e = DOMAIN c /\ e[r] = u /\ \A x \in DOMAIN c : x # r => e[x] = c[x]
    BY <2>0, <2>1 DEF Put
  <2>4. /\ DOMAIN u = DOMAIN c[r] \union {p} /\ \A o \in DOMAIN c[r] : u[o] = c[r][o]
        /\ p \notin DOMAIN c[r] => u[p] = m.info
    <3>1. CASE p \in DOMAIN c[r]
      BY <2>2, <3>1
    <3>2. CASE p \notin DOMAIN c[r]
      BY <2>2, <3>2 DEF Put
    <3> QED
      BY <3>1, <3>2
  <2> QED
    BY <2>0, <2>3, <2>4 DEF Learnt, Has, e
<1> QED
  BY <1>1, <1>2, <1>3

\* The rest of a sequence.
LEMMA TailOf ==
  ASSUME NEW S, NEW d \in Seq(S), d # <<>>
  PROVE  /\ Tail(d) \in Seq(S) /\ Len(Tail(d)) = Len(d) - 1 /\ Len(d) \in Nat \ {0}
         /\ Head(d) = d[1] /\ DOMAIN d = 1 .. Len(d) /\ DOMAIN Tail(d) = 1 .. Len(d) - 1
         /\ \A i \in 1 .. Len(d) - 1 : Tail(d)[i] = d[i + 1] /\ i + 1 \in DOMAIN d
         /\ \A i \in DOMAIN d : i = 1 \/ (i - 1 \in 1 .. Len(d) - 1 /\ Tail(d)[i - 1] = d[i])
  OBVIOUS

\* The rest of the dump, once its first message is received.
LEMMA PartialStep ==
  ASSUME NEW c, NEW e, NEW K, NEW S, NEW d \in Seq(S), d # <<>>, Partial(c, d, K), Truthful(d, K),
         Head(d).act = "exists", Learnt(c, e, Head(d))
  PROVE  Partial(e, Tail(d), K)
<1> DEFINE T == Tail(d)
           m == d[1]
           n == Len(d)
<1>1. /\ Head(d) = m /\ n \in Nat \ {0} /\ DOMAIN d = 1 .. n /\ DOMAIN T = 1 .. n - 1
      /\ \A i \in 1 .. n - 1 : T[i] = d[i + 1] /\ i + 1 \in DOMAIN d
      /\ \A i \in DOMAIN d : i = 1 \/ (i - 1 \in 1 .. n - 1 /\ T[i - 1] = d[i])
  BY TailOf
<1>2. 1 \in DOMAIN d
  BY <1>1
<1>3. Has(K, m.res, m.obj) /\ m.obj \notin Paths /\ m.info = K[m.res][m.obj]
  BY <1>1, <1>2 DEF Truthful
<1>4. /\ DOMAIN c \subseteq DOMAIN e
      /\ \A r, o : Has(c, r, o) => Has(e, r, o) /\ e[r][o] = c[r][o]
      /\ \A r, o : Has(e, r, o) => Has(c, r, o) \/ (r = m.res /\ o = m.obj /\ e[r][o] = m.info)
      /\ Has(e, m.res, m.obj)
  BY <1>1 DEF Learnt
<1> HIDE DEF T, m, n
<1>5. \A r \in DOMAIN e : \A o \in DOMAIN e[r] : Has(K, r, o) /\ o \notin Paths /\ e[r][o] = K[r][o]
  BY <1>3, <1>4 DEF Partial, Has
<1>6. ASSUME NEW r \in DOMAIN K, NEW o \in DOMAIN K[r] \ Paths
      PROVE  Has(e, r, o) \/ \E i \in DOMAIN T : About(T[i], r, o)
  <2>1. Has(c, r, o) \/ \E i \in DOMAIN d : About(d[i], r, o)
    BY DEF Partial
  <2>2. CASE Has(c, r, o)
    BY <1>4, <2>2
  <2>3. CASE \E i \in DOMAIN d : About(d[i], r, o)
    <3>1. PICK i \in DOMAIN d : About(d[i], r, o)
      BY <2>3
    <3>2. CASE i = 1
      BY <1>4, <3>1, <3>2 DEF About, m
    <3>3. CASE i # 1
      BY <1>1, <3>1, <3>3
    <3> QED
      BY <3>2, <3>3
  <2> QED
    BY <2>1, <2>2, <2>3
<1>7. ASSUME NEW i \in DOMAIN T, NEW r, NEW o, Before(d, i + 1, r, o)
      PROVE  Has(e, r, o) \/ Before(T, i, r, o)
  <2>0. i \in Int
    BY <1>1
  <2>1. PICK j \in 1 .. (i + 1) - 1 : About(d[j], r, o)
    BY <1>7 DEF Before
  <2>2. CASE j = 1
    BY <1>4, <2>1, <2>2 DEF About, m
  <2>3. CASE j # 1
    <3>1. j \in DOMAIN d /\ j - 1 \in 1 .. i - 1
      BY <1>1, <2>0, <2>3
    <3>2. T[j - 1] = d[j]
      BY <1>1, <2>3, <3>1
    <3> QED
      BY <2>1, <3>1, <3>2 DEF Before
  <2> QED
    BY <2>2, <2>3
<1>8. ASSUME NEW i \in DOMAIN T, T[i].act = "exists"
      PROVE  /\ T[i].obj # resource => T[i].res \in DOMAIN e \/ Before(T, i, T[i].res, resource)
             /\ T[i].obj \in PeerDevices =>
                  Has(e, T[i].res, ConnectionOf(T[i].obj)) \/ Before(T, i, T[i].res, ConnectionOf(T[i].obj))
  <2>1. T[i] = d[i + 1] /\ i + 1 \in DOMAIN d
    BY <1>1
  <2>2. /\ T[i].obj # resource => T[i].res \in DOMAIN c \/ Before(d, i + 1, T[i].res, resource)
        /\ T[i].obj \in PeerDevices =>
             Has(c, T[i].res, ConnectionOf(T[i].obj)) \/ Before(d, i + 1, T[i].res, ConnectionOf(T[i].obj))
    BY <1>8, <2>1 DEF Partial, InOrder
  <2>3. T[i].obj # resource => T[i].res \in DOMAIN e \/ Before(T, i, T[i].res, resource)
    BY <1>4, <1>7, <2>2 DEF Has
  <2>4. T[i].obj \in PeerDevices =>
             Has(e, T[i].res, ConnectionOf(T[i].obj)) \/ Before(T, i, T[i].res, ConnectionOf(T[i].obj))
    BY <1>4, <1>7, <2>2
  <2> QED
    BY <2>3, <2>4
<1>9. InOrder(e, T)
  BY <1>8 DEF InOrder
<1> QED
  BY <1>5, <1>6, <1>9 DEF Partial, T

\* What is first in the rest of a dump is known to the copy.
LEMMA FirstInOrder ==
  ASSUME NEW c, NEW K, NEW S, NEW d \in Seq(S), d # <<>>, InOrder(c, d), Truthful(d, K), Head(d).act = "exists"
  PROVE  /\ Head(d).obj \notin Paths
         /\ Has(K, Head(d).res, Head(d).obj) /\ Head(d).info = K[Head(d).res][Head(d).obj]
         /\ Head(d).obj # resource => Head(d).res \in DOMAIN c
         /\ Head(d).obj \in PeerDevices => Has(c, Head(d).res, ConnectionOf(Head(d).obj))
<1>1. Head(d) = d[1] /\ 1 \in DOMAIN d
  OBVIOUS
<1>2. \A r, o : ~ Before(d, 1, r, o)
  BY DEF Before
<1> DEFINE m == d[1]
<1>3. m.act = "exists"
  BY <1>1
<1>4. Has(K, m.res, m.obj) /\ m.obj \notin Paths /\ m.info = K[m.res][m.obj]
  BY <1>1, <1>3 DEF Truthful
<1>5. /\ m.obj # resource => m.res \in DOMAIN c
      /\ m.obj \in PeerDevices => Has(c, m.res, ConnectionOf(m.obj))
  BY <1>1, <1>2, <1>3 DEF InOrder
<1> QED
  BY <1>1, <1>4, <1>5

\* The rest of a dump ends and is true like the whole.
LEMMA EndingTail ==
  ASSUME NEW K, NEW S, NEW d \in Seq(S), Ending(d), Truthful(d, K)
  PROVE  /\ d # <<>> /\ Head(d).act \in {"exists", "done"}
         /\ Head(d).act = "exists" => Ending(Tail(d))
         /\ Head(d).act = "done" => \A i \in DOMAIN Tail(d) : i = 1
         /\ Truthful(Tail(d), K)
<1>1. d # <<>> /\ Len(d) \in Nat
  BY DEF Ending
<1>2. /\ Len(Tail(d)) = Len(d) - 1
      /\ Head(d) = d[1] /\ DOMAIN d = 1 .. Len(d) /\ DOMAIN Tail(d) = 1 .. Len(d) - 1
      /\ \A i \in 1 .. Len(d) - 1 : Tail(d)[i] = d[i + 1] /\ i + 1 \in DOMAIN d
  BY <1>1, TailOf
<1> DEFINE T == Tail(d)
           n == Len(d)
<1>a. n \in Nat
  BY <1>1
<1>3. n >= 2 /\ d[n - 1].act = "done" /\ \A i \in 1 .. n - 2 : d[i].act = "exists"
  BY DEF Ending
<1> HIDE DEF T, n
<1>4. n = 2 \/ n > 2
  BY <1>a, <1>3
<1>5. CASE n = 2
  <2>1. Head(d).act = "done"
    BY <1>2, <1>3, <1>5
  <2>2. \A i \in DOMAIN T : i = 1
    BY <1>2, <1>5 DEF T, n
  <2> QED
    BY <1>1, <1>2, <2>1, <2>2 DEF Truthful, T, n
<1>6. CASE n > 2
  <2>0. n \in Nat
    BY <1>1 DEF n
  <2>1. Head(d).act = "exists"
    BY <1>2, <1>3, <1>6, <2>0
  <2>2. Len(T) >= 2 /\ T[Len(T) - 1].act = "done"
    <3>1. Len(T) = n - 1
      BY <1>2 DEF T, n
    <3>2. n - 2 \in 1 .. n - 1 /\ (n - 2) + 1 = n - 1
      BY <2>0, <1>6
    <3>3. T[n - 2] = d[n - 1]
      BY <1>2, <3>2 DEF T, n
    <3> QED
      BY <1>3, <1>6, <2>0, <3>1, <3>3
  <2>3. \A i \in 1 .. Len(T) - 2 : T[i].act = "exists"
    <3>1. Len(T) = n - 1
      BY <1>2 DEF T, n
    <3>2. ASSUME NEW i \in 1 .. n - 3
          PROVE  T[i].act = "exists"
      <4>1. i \in 1 .. n - 1 /\ i + 1 \in 1 .. n - 2
        BY <2>0
      <4>2. T[i] = d[i + 1]
        BY <1>2, <4>1 DEF T, n
      <4> QED
        BY <1>3, <4>1, <4>2
    <3> QED
      BY <2>0, <3>1, <3>2
  <2>4. Ending(T)
    BY <2>2, <2>3 DEF Ending
  <2> QED
    BY <1>1, <1>2, <2>1, <2>4 DEF Truthful, T, n
<1> QED
  BY <1>4, <1>5, <1>6

-----------------------------------------------------------------------------
(* What a dump says *)

\* A part of a dump of the state K, in an order that suits the copy c
Faithful(c, d, K) ==
  /\ \E S : d \in Seq(S)
  /\ \A i \in 1 .. Len(d) : d[i].act = "exists"
  /\ Truthful(d, K)
  /\ InOrder(c, d)
Mentions(d, r, o) == \E i \in DOMAIN d : About(d[i], r, o)

\* Two parts, one after the other.
LEMMA FaithfulConcat ==
  ASSUME NEW c, NEW a, NEW b, NEW K, Faithful(c, a, K), Faithful(c, b, K)
  PROVE  /\ Faithful(c, a \o b, K)
         /\ \A r, o : Mentions(a, r, o) \/ Mentions(b, r, o) => Mentions(a \o b, r, o)
<1>1. PICK S : a \in Seq(S)
  BY DEF Faithful
<1>2. PICK T : b \in Seq(T)
  BY DEF Faithful
<1>3. a \in Seq(S \union T) /\ b \in Seq(S \union T)
  BY <1>1, <1>2
<1> DEFINE d == a \o b
           m == Len(a)
           n == Len(b)
<1>4. m \in Nat /\ n \in Nat /\ DOMAIN a = 1 .. m /\ DOMAIN b = 1 .. n
  BY <1>1, <1>2
<1>5. d \in Seq(S \union T) /\ Len(d) = m + n /\ DOMAIN d = 1 .. m + n
  BY <1>3, ConcatProperties, LenProperties
<1>6. \A i \in 1 .. m + n : d[i] = IF i <= m THEN a[i] ELSE b[i - m]
  BY <1>3, ConcatProperties
<1> HIDE DEF m, n, d
<1>7. \A i \in 1 .. m : i \in DOMAIN d /\ d[i] = a[i]
  BY <1>4, <1>5, <1>6
<1>8. \A i \in 1 .. n : m + i \in DOMAIN d /\ d[m + i] = b[i]
  BY <1>4, <1>5, <1>6
<1>9. ASSUME NEW i \in DOMAIN d
      PROVE  \/ i \in 1 .. m /\ d[i] = a[i]
             \/ i - m \in 1 .. n /\ d[i] = b[i - m]
  BY <1>4, <1>5, <1>6
<1>10. \A r, o : Mentions(a, r, o) \/ Mentions(b, r, o) => Mentions(d, r, o)
  BY <1>4, <1>7, <1>8 DEF Mentions
<1>11. \A i \in 1 .. m + n : d[i].act = "exists"
  <2>1. (\A i \in 1 .. m : a[i].act = "exists") /\ (\A i \in 1 .. n : b[i].act = "exists")
    BY DEF Faithful, m, n
  <2> QED
    BY <1>5, <1>9, <2>1
<1>12. Truthful(d, K)
  <2>1. Truthful(a, K) /\ Truthful(b, K)
    BY DEF Faithful
  <2> QED
    BY <1>4, <1>9, <2>1 DEF Truthful
<1>13. ASSUME NEW i \in 1 .. m, NEW r, NEW o, Before(a, i, r, o)
       PROVE  Before(d, i, r, o)
  <2>1. PICK j \in 1 .. i - 1 : About(a[j], r, o)
    BY <1>13 DEF Before
  <2>2. j \in 1 .. m
    BY <1>4
  <2> QED
    BY <1>7, <2>1, <2>2 DEF Before
<1>14. ASSUME NEW i \in DOMAIN d, NEW r, NEW o, i - m \in 1 .. n, Before(b, i - m, r, o)
       PROVE  Before(d, i, r, o)
  <2>1. PICK j \in 1 .. (i - m) - 1 : About(b[j], r, o)
    BY <1>14 DEF Before
  <2>2. i \in Int
    BY <1>5
  <2>3. j \in 1 .. n /\ m + j \in 1 .. i - 1
    BY <1>4, <1>14, <2>2
  <2> QED
    BY <1>8, <2>1, <2>3 DEF Before
<1>15. InOrder(c, d)
  <2>1. InOrder(c, a) /\ InOrder(c, b)
    BY DEF Faithful
  <2> SUFFICES ASSUME NEW i \in DOMAIN d, d[i].act = "exists"
               PROVE  /\ d[i].obj # resource => d[i].res \in DOMAIN c \/ Before(d, i, d[i].res, resource)
                      /\ d[i].obj \in PeerDevices =>
                           Has(c, d[i].res, ConnectionOf(d[i].obj)) \/ Before(d, i, d[i].res, ConnectionOf(d[i].obj))
    BY DEF InOrder
  <2>2. CASE i \in 1 .. m /\ d[i] = a[i]
    <3>1. /\ d[i].obj # resource => d[i].res \in DOMAIN c \/ Before(a, i, d[i].res, resource)
          /\ d[i].obj \in PeerDevices =>
               Has(c, d[i].res, ConnectionOf(d[i].obj)) \/ Before(a, i, d[i].res, ConnectionOf(d[i].obj))
      BY <1>4, <2>1, <2>2 DEF InOrder
    <3> QED
      BY <1>13, <2>2, <3>1
  <2>3. CASE i - m \in 1 .. n /\ d[i] = b[i - m]
    <3> DEFINE j == i - m
    <3>0. j \in DOMAIN b /\ d[i] = b[j]
      BY <1>4, <2>3
    <3> HIDE DEF j
    <3>1. /\ d[i].obj # resource => d[i].res \in DOMAIN c \/ Before(b, j, d[i].res, resource)
          /\ d[i].obj \in PeerDevices =>
               Has(c, d[i].res, ConnectionOf(d[i].obj)) \/ Before(b, j, d[i].res, ConnectionOf(d[i].obj))
      BY <2>1, <3>0 DEF InOrder
    <3>2. \A r, o : Before(b, j, r, o) => Before(d, i, r, o)
      BY <1>14, <2>3 DEF j
    <3> QED
      BY <3>1, <3>2
  <2> QED
    BY <1>9, <2>2, <2>3
<1>16. Faithful(c, d, K)
  <2>1. \E U : d \in Seq(U)
    BY <1>5
  <2> QED
    BY <1>5, <1>11, <1>12, <1>15, <2>1 DEF Faithful
<1> QED
  BY <1>10, <1>16 DEF d

\* The first parts, put together
Gathered(c, f, ss, i, K) ==
  /\ Faithful(c, f[i], K)
  /\ \A j \in 1 .. i : \A r, o : Mentions(ss[j], r, o) => Mentions(f[i], r, o)

\* Any number of parts.
LEMMA FaithfulFlatten ==
  ASSUME NEW c, NEW K, NEW ss, NEW n \in Nat, Len(ss) = n, ss = [i \in 1 .. n |-> ss[i]],
         \A i \in 1 .. n : Faithful(c, ss[i], K)
  PROVE  /\ Faithful(c, FlattenSeq(ss), K)
         /\ \A i \in 1 .. n : \A r, o : Mentions(ss[i], r, o) => Mentions(FlattenSeq(ss), r, o)
<1>1. CASE n = 0
  <2>1. ss = <<>>
    BY <1>1
  <2>2. FlattenSeq(ss) = <<>>
    BY <1>1, <2>1 DEF FlattenSeq
  <2>3. <<>> \in Seq({}) /\ Len(<<>>) = 0 /\ DOMAIN <<>> = {} /\ 1 .. 0 = {}
    OBVIOUS
  <2>4. \E S : <<>> \in Seq(S)
    BY <2>3
  <2>5. Faithful(c, <<>>, K)
    BY <2>3, <2>4 DEF Faithful, Truthful, InOrder
  <2> QED
    BY <1>1, <2>2, <2>3, <2>5
<1>2. CASE n # 0
  <2>1. PICK f : /\ FlattenSeq(ss) = f[n] /\ f[1] = ss[1]
                 /\ \A i \in 2 .. n : f[i] = f[i - 1] \o ss[i]
    <3>1. n \in Nat \ {0}
      BY <1>2
    <3>2. \E f : /\ FlattenSeq(ss) = f[n]
                 /\ f[1] = ss[1]
                 /\ \A i \in 2 .. n : f[i] = f[i - 1] \o ss[i]
      BY ONLY <3>1, Len(ss) = n, FlattenRecursion, Zenon
    <3> QED
      BY <3>2, Zenon
  <2> DEFINE T == {i \in 1 .. n : ~ Gathered(c, f, ss, i, K)}
  <2>2. ASSUME T # {} PROVE FALSE
    <3>1. T \subseteq Nat
      OBVIOUS
    <3>2. PICK k \in T : \A y \in T : k <= y
      <4> HIDE DEF T
      <4> QED
        BY <2>2, <3>1, Least
    <3>3. k \in 1 .. n /\ ~ Gathered(c, f, ss, k, K)
      BY <3>2
    <3>4. CASE k = 1
      <4>1. \A j \in 1 .. 1 : j = 1
        OBVIOUS
      <4>2. f[1] = ss[1] /\ Faithful(c, ss[1], K)
        BY <1>2, <2>1
      <4> QED
        BY <3>3, <3>4, <4>1, <4>2 DEF Gathered
    <3>5. CASE k # 1
      <4>1. k \in 2 .. n /\ k - 1 \in 1 .. n /\ k - 1 \notin T
        <5> HIDE DEF T
        <5> QED
          BY <3>2, <3>3, <3>5
      <4>2. Gathered(c, f, ss, k - 1, K)
        BY <4>1
      <4> DEFINE g == f[k - 1]
      <4>3. Faithful(c, g, K) /\ Faithful(c, ss[k], K)
        BY <3>3, <4>2 DEF Gathered
      <4>4. f[k] = g \o ss[k]
        BY <2>1, <4>1
      <4>5. \A j \in 1 .. k - 1 : \A r, o : Mentions(ss[j], r, o) => Mentions(g, r, o)
        BY <4>2 DEF Gathered
      <4> HIDE DEF g
      <4>6. /\ Faithful(c, f[k], K)
            /\ \A r, o : Mentions(g, r, o) \/ Mentions(ss[k], r, o) => Mentions(f[k], r, o)
        BY <4>3, <4>4, FaithfulConcat
      <4>7. \A j \in 1 .. k : j = k \/ j \in 1 .. k - 1
        BY <4>1
      <4>8. \A j \in 1 .. k : \A r, o : Mentions(ss[j], r, o) => Mentions(f[k], r, o)
        BY <4>5, <4>6, <4>7
      <4> QED
        BY <3>3, <4>6, <4>8 DEF Gathered
    <3> QED
      BY <3>4, <3>5
  <2>3. n \in 1 .. n
    BY <1>2
  <2>4. Gathered(c, f, ss, n, K)
    BY <2>2, <2>3
  <2> QED
    BY <2>1, <2>4 DEF Gathered
<1> QED
  BY <1>1, <1>2

Listed(s, x) == \E i \in 1 .. Len(s) : s[i] = x

\* What is listed in s comes before whatever in d is not in S.
Ahead(s, S, d) ==
  \A i \in 1 .. Len(d) : d[i] \notin S =>
    \A x : Listed(s, x) => \E j \in 1 .. i - 1 : j \in 1 .. Len(d) /\ d[j] = x

\* What is in the first or the second list is in both together; what is not
\* in the first list is behind it.
LEMMA ListedConcat ==
  ASSUME NEW S, NEW s \in Seq(S), NEW T, NEW u \in Seq(T)
  PROVE  /\ s \o u \in Seq(S \union T)
         /\ \A x : Listed(s, x) \/ Listed(u, x) => Listed(s \o u, x)
         /\ Ahead(s, S, s \o u)
<1> DEFINE m == Len(s)
           n == Len(u)
           d == s \o u
<1>1. s \in Seq(S \union T) /\ u \in Seq(S \union T) /\ m \in Nat /\ n \in Nat
  OBVIOUS
<1>2. /\ d \in Seq(S \union T) /\ Len(d) = m + n
      /\ \A i \in 1 .. m + n : d[i] = IF i <= m THEN s[i] ELSE u[i - m]
  BY <1>1, ConcatProperties
<1>3. \A i \in 1 .. m : s[i] \in S
  OBVIOUS
<1> HIDE DEF m, n, d
<1>4. (\A i \in 1 .. m : i \in 1 .. m + n /\ d[i] = s[i]) /\ (\A i \in 1 .. n : m + i \in 1 .. m + n /\ d[m + i] = u[i])
  BY <1>1, <1>2
<1>5. \A x : Listed(s, x) \/ Listed(u, x) => Listed(d, x)
  BY <1>2, <1>4 DEF Listed, m, n
<1>6. ASSUME NEW x, NEW i \in 1 .. m + n, Listed(s, x), d[i] \notin S
      PROVE  \E j \in 1 .. i - 1 : j \in 1 .. m + n /\ d[j] = x
  <2>1. ~ i <= m
    BY <1>1, <1>3, <1>4, <1>6
  <2>2. PICK j \in 1 .. m : s[j] = x
    BY <1>6 DEF Listed, m
  <2>3. j \in 1 .. i - 1 /\ j \in 1 .. m + n
    BY <1>1, <2>1
  <2> QED
    BY <1>4, <2>2, <2>3
<1>7. Ahead(s, S, d)
  BY <1>2, <1>6 DEF Ahead
<1> QED
  BY <1>2, <1>5, <1>7 DEF d

\* The messages about one resource: all its objects but the paths, the
\* connections before the peer devices.
LEMMA DumpOfFaithful ==
  ASSUME NEW c, NEW r \in DOMAIN kern, IsTree(kern[r])
  PROVE  /\ Faithful(c, DumpOf(r), kern)
         /\ \A o \in DOMAIN kern[r] \ Paths : Mentions(DumpOf(r), r, o)
<1> DEFINE t == kern[r]
           SD == Devices \intersect DOMAIN t
           SC == Connections \intersect DOMAIN t
           SP == PeerDevices \intersect DOMAIN t
           D == SetToSeq(SD)
           C == SetToSeq(SC)
           P == SetToSeq(SP)
           b == <<resource>> \o D \o C
           objs == b \o P
           n == Len(objs)
<1>1. DOMAIN t \subseteq Objects /\ resource \in DOMAIN t /\ IsTree(t)
  BY DEF IsTree
<1>2. IsFiniteSet(SD) /\ IsFiniteSet(SC) /\ IsFiniteSet(SP)
  BY <1>1, ObjectAssumption, FS_Subset
<1>3. DumpOf(r) = [i \in DOMAIN objs |-> Msg(0, "exists", r, objs[i], t[objs[i]], i < Len(objs))]
  BY DEF DumpOf
<1>4. SD \subseteq DOMAIN t /\ SC \subseteq DOMAIN t /\ SP \subseteq DOMAIN t
  OBVIOUS
<1>5. DOMAIN t \ Paths \subseteq {resource} \union SD \union SC \union SP
  BY <1>1 DEF Objects
<1>6. \A o \in SP : o \notin {resource} \union SD \union SC
  BY KindsDiffer
<1>7. \A o \in {resource} \union SD \union SC \union SP : o \notin Paths /\ o \in DOMAIN t
  BY <1>1, KindsDiffer
<1>8. \A o \in SP : ConnectionOf(o) \in SC
  BY <1>1, TheirConnections DEF IsTree
<1>9. \A o \in DOMAIN t : o \in PeerDevices => o \in SP
  OBVIOUS
<1> HIDE DEF t, SD, SC, SP
<1>10. D \in Seq(SD) /\ C \in Seq(SC) /\ P \in Seq(SP)
  BY <1>2, ListedElements
<1>11. ASSUME NEW S, IsFiniteSet(S), NEW x \in S
       PROVE  Listed(SetToSeq(S), x)
  <2>1. ToSet(SetToSeq(S)) = S /\ SetToSeq(S) \in Seq(S)
    BY <1>11, ListedAll, ListedElements
  <2> QED
    BY <2>1 DEF ToSet, Listed
<1>12. /\ \A x \in SD : Listed(D, x)
       /\ \A x \in SC : Listed(C, x)
       /\ \A x \in SP : Listed(P, x)
  BY <1>2, <1>11
<1> HIDE DEF D, C, P
<1> DEFINE b0 == <<resource>>
           b1 == b0 \o D
<1>13. b0 \in Seq({resource}) /\ Listed(b0, resource) /\ b0[1] = resource
  BY DEF Listed
<1> HIDE DEF b0
<1>14. b1 \in Seq({resource} \union SD) /\ \A x \in {resource} \union SD : Listed(b1, x)
  <2>1. b1 \in Seq({resource} \union SD) /\ \A x : Listed(b0, x) \/ Listed(D, x) => Listed(b1, x)
    BY <1>10, <1>13, ListedConcat
  <2> QED
    BY <1>12, <1>13, <2>1
<1>15. b = b1 \o C
  BY DEF b0
<1> HIDE DEF b1, b
<1> DEFINE SB == {resource} \union SD \union SC
<1>16. b \in Seq(SB) /\ \A x \in SB : Listed(b, x)
  <2>1. b \in Seq(SB) /\ \A x : Listed(b1, x) \/ Listed(C, x) => Listed(b, x)
    BY <1>10, <1>14, <1>15, ListedConcat
  <2> QED
    BY <1>12, <1>14, <2>1
<1> HIDE DEF SB
<1>17. /\ objs \in Seq(SB \union SP)
       /\ \A x : Listed(b, x) \/ Listed(P, x) => Listed(objs, x)
       /\ Ahead(b, SB, objs)
  BY <1>10, <1>16, ListedConcat
<1>18. \A o \in DOMAIN t \ Paths : Listed(objs, o)
  BY <1>5, <1>12, <1>16, <1>17 DEF SB
<1>19. resource = objs[1]
  <2>1. b1[1] = resource /\ Len(b1) >= 1
    <3>1. b1 = <<resource>> \o D
      BY DEF b1, b0
    <3>2. <<resource>> \in Seq({resource} \union SD) /\ D \in Seq({resource} \union SD) /\ Len(<<resource>>) = 1
      BY <1>10
    <3>3. Len(D) \in Nat
      BY <3>2
    <3> HIDE DEF b0
    <3>4. /\ Len(<<resource>> \o D) = 1 + Len(D)
          /\ \A i \in 1 .. 1 + Len(D) : (<<resource>> \o D)[i] = IF i <= 1 THEN <<resource>>[i] ELSE D[i - 1]
      BY <3>2, ConcatProperties
    <3>5. 1 \in 1 .. 1 + Len(D) /\ <<resource>>[1] = resource
      BY <3>3
    <3> QED
      BY <3>1, <3>3, <3>4, <3>5
  <2>2. ASSUME NEW S, NEW s \in Seq(S), NEW u \in Seq(S), s[1] = resource, Len(s) >= 1
        PROVE  (s \o u)[1] = resource /\ Len(s \o u) >= 1
    BY <2>2, ConcatProperties
  <2>3. b[1] = resource /\ Len(b) >= 1
    <3>1. b1 \in Seq({resource} \union SD \union SC) /\ C \in Seq({resource} \union SD \union SC)
      BY <1>10, <1>14
    <3> QED
      BY <1>15, <2>1, <2>2, <3>1
  <2>4. b \in Seq(SB \union SP) /\ P \in Seq(SB \union SP)
    BY <1>10, <1>16
  <2> QED
    BY <2>2, <2>3, <2>4
<1> HIDE DEF objs
<1>20. n \in Nat /\ DOMAIN objs = 1 .. n
  BY <1>17, LenProperties
<1>21. \A i \in 1 .. n : objs[i] \in DOMAIN t /\ objs[i] \notin Paths
  BY <1>7, <1>17 DEF SB
<1> DEFINE d == [i \in 1 .. n |-> Msg(0, "exists", r, objs[i], t[objs[i]], i < n)]
<1>22. DumpOf(r) = d
  BY <1>3, <1>20
<1> HIDE DEF n
<1>23. \A i \in 1 .. n : /\ d[i].act = "exists" /\ d[i].res = r /\ d[i].obj = objs[i]
                         /\ d[i].info = t[objs[i]]
  BY DEF Msg
<1>24. d \in Seq({d[i] : i \in 1 .. n}) /\ Len(d) = n /\ DOMAIN d = 1 .. n
  <2>1. d \in [1 .. n -> {d[i] : i \in 1 .. n}]
    OBVIOUS
  <2> HIDE DEF d
  <2>2. d \in Seq({d[i] : i \in 1 .. n})
    BY <1>20, <2>1, SeqDef
  <2> QED
    BY <1>20, <2>1, <2>2, LenProperties
<1> HIDE DEF d
<1>25. Truthful(d, kern)
  BY <1>21, <1>23, <1>24 DEF Truthful, Has, t
<1>26. \A o \in DOMAIN t \ Paths : Mentions(d, r, o)
  BY <1>18, <1>23, <1>24 DEF Listed, Mentions, About, n
<1>27. ASSUME NEW i \in 1 .. n
       PROVE  /\ objs[i] # resource => Before(d, i, r, resource)
              /\ objs[i] \in PeerDevices => Before(d, i, r, ConnectionOf(objs[i]))
  <2>1. objs[i] # resource => Before(d, i, r, resource)
    <3>1. objs[i] # resource => 1 \in 1 .. i - 1 /\ 1 \in 1 .. n
      BY <1>19, <1>20
    <3> QED
      BY <1>19, <1>23, <3>1 DEF Before, About
  <2>2. ASSUME objs[i] \in PeerDevices
        PROVE  Before(d, i, r, ConnectionOf(objs[i]))
    <3>1. objs[i] \in SP
      BY <1>9, <1>21, <2>2
    <3>2. objs[i] \notin SB /\ ConnectionOf(objs[i]) \in SC
      BY <1>6, <1>8, <3>1 DEF SB
    <3>3. Listed(b, ConnectionOf(objs[i]))
      BY <1>16, <3>2 DEF SB
    <3>4. PICK j \in 1 .. i - 1 : j \in 1 .. n /\ objs[j] = ConnectionOf(objs[i])
      BY <1>17, <3>2, <3>3 DEF n, Ahead
    <3> QED
      BY <1>23, <3>4 DEF Before, About
  <2> QED
    BY <2>1, <2>2
<1>28. InOrder(c, d)
  BY <1>23, <1>24, <1>27 DEF InOrder
<1>29. Faithful(c, d, kern)
  <2>1. \E S : d \in Seq(S)
    BY <1>24
  <2> QED
    BY <1>23, <1>24, <1>25, <1>28, <2>1 DEF Faithful
<1> QED
  BY <1>22, <1>26, <1>29 DEF t

\* The answer to DRBD_ADM_GET_INITIAL_STATE tells the kernel's whole state
\* but the paths, and nothing else.
LEMMA DumpTells ==
  ASSUME Trees(kern), Filter = "all", NEW c, DOMAIN c = {}
  PROVE  Ending(Dump) /\ Truthful(Dump, kern) /\ Partial(c, Dump, kern)
<1> DEFINE R == {r \in DOMAIN kern : Filter \in {"all", r}}
           rs == SetToSeq(R)
           n == Len(rs)
           ss == [i \in DOMAIN rs |-> DumpOf(rs[i])]
           a == FlattenSeq(ss)
           x == Msg(0, "done", NoName, resource, NoName, FALSE)
           y == Msg(0, "NLMSG_DONE", NoName, resource, NoName, FALSE)
<1>0. \A r \in DOMAIN kern : IsTree(kern[r])
  BY DEF Trees
<1>1. Dump = a \o <<x, y>>
  BY DEF Dump
<1>2. R = DOMAIN kern
  OBVIOUS
<1>3. IsFiniteSet(R)
  BY <1>2, ObjectAssumption, FS_Subset DEF Trees
<1> HIDE DEF R
<1>4. rs \in Seq(R) /\ ToSet(rs) = R
  BY <1>3, ListedElements, ListedAll
<1> HIDE DEF rs
<1>5. /\ n \in Nat /\ DOMAIN rs = 1 .. n /\ \A i \in 1 .. n : rs[i] \in R
      /\ \A r \in R : \E i \in 1 .. n : rs[i] = r
  BY <1>4, LenProperties DEF ToSet
<1>6. ss = [i \in 1 .. n |-> ss[i]] /\ \A i \in 1 .. n : ss[i] = DumpOf(rs[i])
  BY <1>5
<1>7. \A i \in 1 .. n : /\ Faithful(c, ss[i], kern)
                        /\ \A o \in DOMAIN kern[rs[i]] \ Paths : Mentions(ss[i], rs[i], o)
  BY <1>0, <1>2, <1>5, <1>6, DumpOfFaithful
<1>8. Len(ss) = n
  <2>1. ss \in [1 .. n -> {ss[i] : i \in 1 .. n}]
    BY <1>6
  <2> HIDE DEF ss, n
  <2>2. ss \in Seq({ss[i] : i \in 1 .. n})
    BY <1>5, <2>1, SeqDef
  <2> QED
    BY <1>5, <2>1, <2>2, LenProperties
<1> HIDE DEF ss, n
<1>9. /\ Faithful(c, a, kern)
      /\ \A i \in 1 .. n : \A r, o : Mentions(ss[i], r, o) => Mentions(a, r, o)
  BY <1>5, <1>6, <1>7, <1>8, FaithfulFlatten
<1> HIDE DEF a
<1>10. \A r \in DOMAIN kern : \A o \in DOMAIN kern[r] \ Paths : Mentions(a, r, o)
  BY <1>2, <1>5, <1>7, <1>9
<1> DEFINE l == Len(a)
           d == a \o <<x, y>>
<1>11. PICK S : a \in Seq(S)
  BY <1>9 DEF Faithful
<1> DEFINE S2 == S \union {x, y}
<1>12. a \in Seq(S2) /\ <<x, y>> \in Seq(S2) /\ Len(<<x, y>>) = 2
  <2> HIDE DEF x, y
  <2> QED
    BY <1>11
<1>13. l \in Nat /\ DOMAIN a = 1 .. l
  BY <1>11
<1>14. x.act = "done" /\ y.act = "NLMSG_DONE"
  BY DEF Msg
<1> HIDE DEF x, y, S2
<1>15. /\ d \in Seq(S2) /\ Len(d) = l + 2
       /\ \A i \in 1 .. l + 2 : d[i] = IF i <= l THEN a[i] ELSE <<x, y>>[i - l]
  BY <1>12, ConcatProperties
<1>16. DOMAIN d = 1 .. l + 2
  BY <1>15, LenProperties
<1> HIDE DEF d, l
<1>17. (\A i \in 1 .. l : d[i] = a[i] /\ i \in DOMAIN d) /\ d[l + 1] = x /\ d[l + 2] = y
  BY <1>13, <1>15, <1>16
<1>18. \A i \in 1 .. l : a[i].act = "exists"
  BY <1>9 DEF Faithful, l
<1>19. \A i \in DOMAIN d : i \in 1 .. l \/ d[i].act # "exists"
  BY <1>13, <1>14, <1>16, <1>17
<1>20. Ending(d)
  <2>1. l + 2 >= 2 /\ (l + 2) - 1 = l + 1 /\ 1 .. (l + 2) - 2 = 1 .. l
    BY <1>13
  <2> QED
    BY <1>14, <1>15, <1>17, <1>18, <2>1 DEF Ending
<1>21. Truthful(d, kern)
  <2>1. Truthful(a, kern)
    BY <1>9 DEF Faithful
  <2> QED
    BY <1>13, <1>17, <1>19, <2>1 DEF Truthful
<1>22. \A r, o : Mentions(a, r, o) => Mentions(d, r, o)
  BY <1>13, <1>17 DEF Mentions
<1>23. ASSUME NEW i \in 1 .. l, NEW r, NEW o, Before(a, i, r, o)
       PROVE  Before(d, i, r, o)
  <2>1. PICK j \in 1 .. i - 1 : About(a[j], r, o)
    BY <1>23 DEF Before
  <2>2. j \in 1 .. l
    BY <1>13
  <2> QED
    BY <1>17, <2>1, <2>2 DEF Before
<1>24. InOrder(c, d)
  <2>1. InOrder(c, a)
    BY <1>9 DEF Faithful
  <2> SUFFICES ASSUME NEW i \in DOMAIN d, d[i].act = "exists"
               PROVE  /\ d[i].obj # resource => d[i].res \in DOMAIN c \/ Before(d, i, d[i].res, resource)
                      /\ d[i].obj \in PeerDevices =>
                           Has(c, d[i].res, ConnectionOf(d[i].obj)) \/ Before(d, i, d[i].res, ConnectionOf(d[i].obj))
    BY DEF InOrder
  <2>2. i \in 1 .. l /\ d[i] = a[i]
    BY <1>17, <1>19
  <2>3. /\ d[i].obj # resource => d[i].res \in DOMAIN c \/ Before(a, i, d[i].res, resource)
        /\ d[i].obj \in PeerDevices =>
             Has(c, d[i].res, ConnectionOf(d[i].obj)) \/ Before(a, i, d[i].res, ConnectionOf(d[i].obj))
    BY <1>13, <2>1, <2>2 DEF InOrder
  <2> QED
    BY <1>23, <2>2, <2>3
<1>25. Partial(c, d, kern)
  BY <1>10, <1>22, <1>24 DEF Partial, Mentions
<1> QED
  BY <1>1, <1>20, <1>21, <1>25 DEF d

-----------------------------------------------------------------------------
(* apply_event() and the copy with its pending versions *)

\* Functions with the same domain and the same values are the same.
LEMMA SameFunction ==
  ASSUME NEW f, NEW g, f = [x \in DOMAIN f |-> f[x]], g = [x \in DOMAIN g |-> g[x]],
         DOMAIN f = DOMAIN g, \A x \in DOMAIN f : f[x] = g[x]
  PROVE  f = g
  OBVIOUS

\* What MergeOf() returns.
LEMMA MergeValues ==
  ASSUME NEW all, NEW upd
  PROVE  /\ DOMAIN MergeOf(all, upd) = DOMAIN all \union DOMAIN upd
         /\ \A x \in DOMAIN upd : MergeOf(all, upd)[x] = upd[x].tree
         /\ \A x \in DOMAIN all : x \notin DOMAIN upd => MergeOf(all, upd)[x] = all[x]
         /\ MergeOf(all, upd) = [x \in DOMAIN MergeOf(all, upd) |-> MergeOf(all, upd)[x]]
  BY DEF MergeOf

\* What an event does to a pending version.
LEMMA EntryAfter ==
  ASSUME NEW e, IsEntry(e), NEW action, NEW m
  PROVE  /\ action # "rename" => ApplyToEntry(e, action, m).rename = NoName
         /\ action = "rename" => ApplyToEntry(e, action, m).rename = m.info
         /\ m.obj = resource /\ action \in {"create", "exists", "rename"} =>
              ApplyToEntry(e, action, m).tree = e.tree
         /\ ~ (m.obj = resource /\ action \in {"create", "exists", "destroy"}) /\ action # "rename" =>
              ApplyToEntry(e, action, m).tree = TreeAfter(e.tree, action, m)
         /\ ApplyToEntry(e, action, m).destroyed =
              (IF action = "destroy" /\ m.obj = resource THEN TRUE ELSE e.destroyed)
<1> DEFINE a == ApplyToEntry(e, action, m)
<1>1. ASSUME NEW x, a = [e EXCEPT !.tree = x, !.rename = NoName]
      PROVE  a.tree = x /\ a.rename = NoName /\ a.destroyed = e.destroyed
  <2> DEFINE T == {e.tree, x}
             N == {e.rename, NoName}
  <2>1. e \in [tree : T, destroyed : BOOLEAN, rename : N] /\ x \in T /\ NoName \in N
    BY DEF IsEntry
  <2> HIDE DEF T, N, a
  <2> QED
    BY <1>1, <2>1
<1>2. CASE action \in {"exists", "create"} /\ m.obj # resource
  <2> DEFINE x == StoreCheck(e.tree, m.obj, m.info)
  <2>1. a = [e EXCEPT !.tree = x, !.rename = NoName] /\ TreeAfter(e.tree, action, m) = x
    BY <1>2 DEF ApplyToEntry, TreeAfter
  <2>2. a.tree = x /\ a.rename = NoName /\ a.destroyed = e.destroyed
    <3> HIDE DEF a, x
    <3> QED
      BY <1>1, <2>1
  <2> HIDE DEF x
  <2> QED
    BY <1>2, <2>1, <2>2
<1>3. CASE action = "change"
  <2> DEFINE x == ApplyChange(e.tree, m.obj, m.info)
  <2>1. a = [e EXCEPT !.tree = x, !.rename = NoName] /\ TreeAfter(e.tree, action, m) = x
    BY <1>3 DEF ApplyToEntry, TreeAfter
  <2>2. a.tree = x /\ a.rename = NoName /\ a.destroyed = e.destroyed
    <3> HIDE DEF a, x
    <3> QED
      BY <1>1, <2>1
  <2> HIDE DEF x
  <2> QED
    BY <1>3, <2>1, <2>2
<1>4. CASE action = "destroy" /\ m.obj = resource
  <2>1. a = [e EXCEPT !.destroyed = TRUE, !.rename = NoName]
    BY <1>4 DEF ApplyToEntry
  <2>2. a.rename = NoName /\ a.destroyed = TRUE
    <3> DEFINE T == {e.tree}
               N == {e.rename, NoName}
    <3>1. e \in [tree : T, destroyed : BOOLEAN, rename : N] /\ NoName \in N
      BY DEF IsEntry
    <3> HIDE DEF T, N, a
    <3> QED
      BY <2>1, <3>1
  <2> QED
    BY <1>4, <2>2
<1>5. CASE action = "destroy" /\ m.obj # resource
  <2> DEFINE x == ApplyDestroy(e.tree, m.obj)
  <2>1. a = [e EXCEPT !.tree = x, !.rename = NoName] /\ TreeAfter(e.tree, action, m) = x
    BY <1>5 DEF ApplyToEntry, TreeAfter
  <2>2. a.tree = x /\ a.rename = NoName /\ a.destroyed = e.destroyed
    <3> HIDE DEF a, x
    <3> QED
      BY <1>1, <2>1
  <2> HIDE DEF x
  <2> QED
    BY <1>5, <2>1, <2>2
<1>6. CASE action = "rename"
  <2>1. a = [e EXCEPT !.rename = m.info]
    BY <1>6 DEF ApplyToEntry
  <2> HIDE DEF a
  <2>2. a.rename = m.info /\ a.tree = e.tree /\ a.destroyed = e.destroyed
    BY <2>1, EntryRenamed
  <2> QED
    BY <1>6, <2>2 DEF a
<1>7. CASE /\ ~ (action \in {"exists", "create"} /\ m.obj # resource)
           /\ action # "change" /\ action # "destroy" /\ action # "rename"
  <2>1. a = [e EXCEPT !.rename = NoName]
    BY <1>7 DEF ApplyToEntry
  <2>2. action \notin {"create", "exists"} => TreeAfter(e.tree, action, m) = e.tree
    BY <1>7 DEF TreeAfter
  <2> HIDE DEF a
  <2>3. a.rename = NoName /\ a.tree = e.tree /\ a.destroyed = e.destroyed
    BY <2>1, EntryRenamed
  <2> QED
    BY <1>7, <2>2, <2>3 DEF a
<1> QED
  BY <1>2, <1>3, <1>4, <1>5, <1>6, <1>7

\* The pending versions under their own names become the copy.
OwnNames(upd) == \A x \in DOMAIN upd : upd[x].rename = NoName
Survivors(all, upd) == {x \in DOMAIN all \union DOMAIN upd : x \in DOMAIN upd => ~ upd[x].destroyed}
\* Storing the pending versions leaves what was merged.
LEMMA UpdatesStored ==
  ASSUME NEW all, NEW upd, OwnNames(upd)
  PROVE  /\ DOMAIN StoreUpdates(all, upd) = Survivors(all, upd)
         /\ \A x \in DOMAIN StoreUpdates(all, upd) : StoreUpdates(all, upd)[x] = MergeOf(all, upd)[x]
<1> DEFINE kept == DOMAIN all \ DOMAIN upd
           live == {r \in DOMAIN upd : ~ upd[r].destroyed}
           D == kept \union {Target(upd, r) : r \in live}
<1>1. \A r \in live : Target(upd, r) = r
  BY DEF Target, OwnNames
<1>2. D = kept \union live
  BY <1>1
<1>3. StoreUpdates(all, upd) = [n \in D |-> IF n \in kept THEN all[n]
                                          ELSE upd[CHOOSE r \in live : Target(upd, r) = n].tree]
  BY DEF StoreUpdates
<1>4. ASSUME NEW n \in live
      PROVE  (CHOOSE r \in live : Target(upd, r) = n) = n
  <2>1. \E r \in live : Target(upd, r) = n
    BY <1>1
  <2> DEFINE y == CHOOSE r \in live : Target(upd, r) = n
  <2>2. y \in live /\ Target(upd, y) = n
    BY <2>1
  <2> HIDE DEF y
  <2>3. y = n
    BY <1>1, <2>2
  <2> QED
    BY <2>3 DEF y
<1>5. ASSUME NEW n \in D
      PROVE  StoreUpdates(all, upd)[n] = MergeOf(all, upd)[n]
  <2>1. CASE n \in kept
    BY <1>3, <2>1 DEF MergeOf
  <2>2. CASE n \notin kept
    <3>1. n \in live
      BY <1>2, <2>2
    <3>2. (CHOOSE r \in live : Target(upd, r) = n) = n
      BY <1>4, <3>1
    <3>3. StoreUpdates(all, upd)[n] = upd[n].tree
      BY <1>3, <2>2, <3>2
    <3> QED
      BY <3>1, <3>3 DEF MergeOf
  <2> QED
    BY <2>1, <2>2
<1>6. DOMAIN StoreUpdates(all, upd) = D
  BY <1>3
<1>7. D = Survivors(all, upd)
  BY <1>2 DEF Survivors
<1> QED
  BY <1>5, <1>6, <1>7

ActionOf(m) == IF m.act = "exists" /\ receive_update THEN "change" ELSE m.act

\* apply_event() changes the copy with its pending versions as if there were
\* no bundles.
LEMMA EventMerges ==
  ASSUME TreesInv, EntriesOK, NEW m, Tells(m), apply_event(m),
         \A x \in DOMAIN update_resources : ~ update_resources[x].destroyed,
         m.act = "rename" => ~ m.cont /\ DOMAIN update_resources = {} /\ m.info \in Resources,
         m.act = "destroy" /\ m.obj = resource => ~ m.cont
  PROVE  /\ Merged' = After(Merged, ActionOf(m), m)
         /\ \A x \in DOMAIN update_resources' : ~ update_resources'[x].destroyed
<1> DEFINE action == ActionOf(m)
           r      == m.res
           create == m.obj = resource /\ action \in {"create", "exists"}
           inUpd  == r \in DOMAIN update_resources
           base   == IF inUpd THEN update_resources[r]
                     ELSE IF create THEN NewEntry(Bare(m.info)) ELSE NewEntry(all_resources[r])
           a      == ApplyToEntry(base, action, m)
           upd    == Put(update_resources, r, a)
           c      == Merged
<1>1. \/ create = (inUpd \/ r \in DOMAIN all_resources) /\ UNCHANGED data_vars
      \/ /\ create # (inUpd \/ r \in DOMAIN all_resources)
         /\ \/ m.cont /\ update_resources' = upd /\ UNCHANGED all_resources
            \/ /\ ~ m.cont
               /\ all_resources' = StoreUpdates(all_resources, upd)
               /\ update_resources' = <<>>
  BY DEF apply_event, ActionOf
<1>2. \A x \in DOMAIN all_resources : IsTree(all_resources[x])
  BY DEF TreesInv
<1>3. /\ DOMAIN c = DOMAIN all_resources \union DOMAIN update_resources
      /\ \A x \in DOMAIN update_resources : c[x] = update_resources[x].tree
      /\ \A x \in DOMAIN all_resources : x \notin DOMAIN update_resources => c[x] = all_resources[x]
      /\ c = [x \in DOMAIN c |-> c[x]]
  BY MergeValues DEF Merged
<1>4. action = "rename" <=> m.act = "rename"
  BY DEF ActionOf
<1>5. action = "destroy" <=> m.act = "destroy"
  BY DEF ActionOf
<1>6. CASE create = (inUpd \/ r \in DOMAIN all_resources) /\ UNCHANGED data_vars
  <2>1. UNCHANGED <<update_resources, all_resources>>
    BY <1>6 DEF data_vars
  <2>2. Merged' = c
    BY <2>1 DEF Merged
  <2>3. create <=> r \in DOMAIN c
    BY <1>3, <1>6
  <2> HIDE DEF c, action
  <2>4. After(c, action, m) = c
    BY <2>3 DEF After
  <2> QED
    BY <2>1, <2>2, <2>4 DEF c, action
<1>7. CASE create # (inUpd \/ r \in DOMAIN all_resources)
  <2>1. create <=> r \notin DOMAIN c
    BY <1>3, <1>7
  <2>2. \A t : /\ IsTree(t) => IsEntry(NewEntry(t))
               /\ NewEntry(t).tree = t /\ NewEntry(t).rename = NoName /\ ~ NewEntry(t).destroyed
    BY DEF NewEntry, IsEntry
  <2>3. create => IsTree(Bare(m.info))
    BY BareTree DEF Tells, ActionOf
  <2>4. IsEntry(base)
    BY <1>2, <1>3, <2>1, <2>2, <2>3 DEF EntriesOK
  <2>5. ~ base.destroyed
    BY <2>2
  <2>6. create => base.tree = Bare(m.info)
    BY <1>3, <2>1, <2>2
  <2>7. ~ create => base.tree = c[r] /\ r \in DOMAIN c
    BY <1>3, <2>1, <2>2
  <2> HIDE DEF base, action
  <2>8. /\ action # "rename" => a.rename = NoName
        /\ action = "rename" => a.rename = m.info
        /\ m.obj = resource /\ action \in {"create", "exists", "rename"} => a.tree = base.tree
        /\ ~ (m.obj = resource /\ action \in {"create", "exists", "destroy"}) /\ action # "rename" =>
              a.tree = TreeAfter(base.tree, action, m)
        /\ a.destroyed = (IF action = "destroy" /\ m.obj = resource THEN TRUE ELSE base.destroyed)
    BY <2>4, EntryAfter
  <2> HIDE DEF a, c
  <2>9. /\ DOMAIN upd = DOMAIN update_resources \union {r} /\ upd[r] = a
        /\ \A x \in DOMAIN update_resources : x # r => upd[x] = update_resources[x]
    BY DEF Put
  <2> HIDE DEF upd
  <2> DEFINE M == MergeOf(all_resources, upd)
  <2>10. /\ DOMAIN M = DOMAIN c \union {r} /\ M[r] = a.tree
         /\ \A x \in DOMAIN c : x # r => M[x] = c[x]
         /\ M = [x \in DOMAIN M |-> M[x]]
    <3>1. /\ DOMAIN M = DOMAIN all_resources \union DOMAIN upd
          /\ \A x \in DOMAIN upd : M[x] = upd[x].tree
          /\ \A x \in DOMAIN all_resources : x \notin DOMAIN upd => M[x] = all_resources[x]
          /\ M = [x \in DOMAIN M |-> M[x]]
      BY MergeValues
    <3> HIDE DEF M
    <3> QED
      BY <1>3, <2>9, <3>1
  <2> HIDE DEF M
  \* the version of r, except where it goes or is renamed
  <2>11. ASSUME action # "rename", ~ (action = "destroy" /\ m.obj = resource)
         PROVE  After(c, action, m) = M
    <3>1. After(c, action, m) = Put(c, r, a.tree)
      <4>1. CASE create
        <5>1. a.tree = Bare(m.info)
          BY <2>6, <2>8, <4>1
        <5>2. After(c, action, m) = Put(c, r, Bare(m.info))
          BY <2>1, <4>1 DEF After
        <5> QED
          BY <5>1, <5>2
      <4>2. CASE ~ create
        <5>1. a.tree = TreeAfter(c[r], action, m)
          BY <2>7, <2>8, <2>11, <4>2
        <5>2. After(c, action, m) = Put(c, r, TreeAfter(c[r], action, m))
          BY <2>7, <2>11, <4>2 DEF After
        <5> QED
          BY <5>1, <5>2
      <4> QED
        BY <4>1, <4>2
    <3> DEFINE P == Put(c, r, a.tree)
    <3>2. /\ DOMAIN P = DOMAIN c \union {r} /\ P[r] = a.tree
          /\ \A x \in DOMAIN c : x # r => P[x] = c[x]
          /\ P = [x \in DOMAIN P |-> P[x]]
      BY DEF Put
    <3> HIDE DEF P
    <3>3. DOMAIN P = DOMAIN M /\ \A x \in DOMAIN P : P[x] = M[x]
      BY <2>10, <3>2
    <3>4. P = M
      BY <2>10, <3>2, <3>3, SameFunction
    <3> QED
      BY <3>1, <3>4 DEF P
  <2>12. CASE m.cont /\ update_resources' = upd /\ UNCHANGED all_resources
    <3>1. action # "rename" /\ ~ (action = "destroy" /\ m.obj = resource)
      BY <1>4, <1>5, <2>12
    <3>2. Merged' = M
      BY <2>12 DEF Merged, M
    <3>3. ~ a.destroyed
      BY <2>5, <2>8, <3>1
    <3>4. \A x \in DOMAIN update_resources' : ~ update_resources'[x].destroyed
      BY <2>9, <2>12, <3>3
    <3> QED
      BY <2>11, <3>1, <3>2, <3>4 DEF c, action
  <2>13. CASE /\ ~ m.cont
              /\ all_resources' = StoreUpdates(all_resources, upd)
              /\ update_resources' = <<>>
    <3> DEFINE N == Merged'
               A == all_resources'
    <3>1. DOMAIN update_resources' = {}
      BY <2>13
    <3>2. DOMAIN N = DOMAIN A /\ (\A x \in DOMAIN A : N[x] = A[x]) /\ N = [x \in DOMAIN N |-> N[x]]
      <4>1. /\ DOMAIN N = DOMAIN A \union DOMAIN update_resources'
            /\ \A x \in DOMAIN A : x \notin DOMAIN update_resources' => N[x] = A[x]
            /\ N = [x \in DOMAIN N |-> N[x]]
        BY MergeValues DEF Merged
      <4> HIDE DEF N, A
      <4> QED
        BY <3>1, <4>1
    <3>3. A = StoreUpdates(all_resources, upd)
      BY <2>13
    <3> HIDE DEF N, A
    <3>4. CASE action # "rename"
      <4>1. OwnNames(upd)
        BY <2>8, <2>9, <3>4 DEF EntriesOK, OwnNames
      <4>2. DOMAIN A = Survivors(all_resources, upd) /\ \A x \in DOMAIN A : A[x] = M[x]
        BY <3>3, <4>1, UpdatesStored DEF M
      <4>3. \A x \in DOMAIN upd : upd[x].destroyed <=> x = r /\ action = "destroy" /\ m.obj = resource
        BY <2>5, <2>8, <2>9
      <4>4. DOMAIN A = {x \in DOMAIN M : ~ (x = r /\ action = "destroy" /\ m.obj = resource)}
        <5>1. DOMAIN M = DOMAIN all_resources \union DOMAIN upd /\ r \in DOMAIN upd
          BY <1>3, <2>9, <2>10
        <5> QED
          BY <4>2, <4>3, <5>1 DEF Survivors
      <4>5. CASE ~ (action = "destroy" /\ m.obj = resource)
        <5>1. DOMAIN N = DOMAIN M /\ \A x \in DOMAIN N : N[x] = M[x]
          BY <3>2, <4>2, <4>4, <4>5
        <5>2. N = M
          BY <2>10, <3>2, <5>1, SameFunction
        <5> QED
          BY <2>11, <3>1, <3>4, <4>5, <5>2 DEF N, c, action
      <4>6. CASE action = "destroy" /\ m.obj = resource
        <5> DEFINE W == Without(c, {r})
        <5>1. After(c, action, m) = W
          BY <2>7, <4>6 DEF After
        <5>2. /\ DOMAIN W = DOMAIN c \ {r} /\ \A x \in DOMAIN c \ {r} : W[x] = c[x]
          BY WithoutValues
        <5>3. W = [x \in DOMAIN W |-> W[x]]
          BY DEF Without, Restrict
        <5> HIDE DEF W
        <5>4. DOMAIN N = DOMAIN W /\ \A x \in DOMAIN N : N[x] = W[x]
          <6>1. DOMAIN A = DOMAIN M \ {r}
            BY <4>4, <4>6
          <6>2. DOMAIN A = DOMAIN c \ {r}
            BY <2>10, <6>1
          <6> QED
            BY <2>10, <3>2, <4>2, <5>2, <6>2
        <5>5. N = W
          BY <3>2, <5>3, <5>4, SameFunction
        <5> QED
          BY <3>1, <5>1, <5>5 DEF N, c, action
      <4> QED
        BY <4>5, <4>6
    <3>5. CASE action = "rename"
      <4>1. DOMAIN update_resources = {} /\ m.info # NoName
        BY <1>4, <3>5, NameAssumption
      <4>2. DOMAIN upd = {r} /\ upd[r].rename = m.info /\ upd[r].tree = c[r] /\ ~ upd[r].destroyed
        <5>0. ~ create
          BY <3>5
        <5>1. a.tree = base.tree
          <6>1. CASE m.obj = resource
            BY <2>8, <3>5, <6>1
          <6>2. CASE m.obj # resource
            BY <2>4, <3>5, EntryApplied DEF a, Tells
          <6> QED
            BY <6>1, <6>2
        <5> QED
          BY <2>5, <2>7, <2>8, <2>9, <3>5, <4>1, <5>0, <5>1
      <4>3. DOMAIN all_resources = DOMAIN c /\ r \in DOMAIN c /\ \A x \in DOMAIN c : all_resources[x] = c[x]
        <5>1. ~ create
          BY <3>5
        <5> QED
          BY <1>3, <2>7, <4>1, <5>1
      <4> DEFINE live == {x \in DOMAIN upd : ~ upd[x].destroyed}
                 n == m.info
                 kept == DOMAIN all_resources \ DOMAIN upd
      <4>4. live = {r} /\ Target(upd, r) = n /\ kept = DOMAIN c \ {r}
        BY <4>1, <4>2, <4>3 DEF Target
      <4>5. A = [x \in kept \union {Target(upd, y) : y \in live} |->
                   IF x \in kept THEN all_resources[x]
                   ELSE upd[CHOOSE y \in live : Target(upd, y) = x].tree]
        BY <3>3 DEF StoreUpdates
      <4> HIDE DEF live, n, kept
      <4>6. (CHOOSE y \in live : Target(upd, y) = n) = r
        BY <4>4
      <4>7. {Target(upd, y) : y \in live} = {n}
        BY <4>4
      <4>8. /\ DOMAIN A = (DOMAIN c \ {r}) \union {n}
            /\ \A x \in DOMAIN c \ {r} : A[x] = c[x]
            /\ n \notin DOMAIN c \ {r} => A[n] = c[r]
        <5>1. DOMAIN A = kept \union {n}
          BY <4>5, <4>7
        <5>2. \A x \in kept : A[x] = all_resources[x]
          BY <4>5
        <5>3. n \notin kept => A[n] = upd[r].tree
          BY <4>5, <4>6, <4>7
        <5> QED
          BY <4>2, <4>3, <4>4, <5>1, <5>2, <5>3
      <4> DEFINE W == Renamed(c, r, n)
      <4>9. After(c, action, m) = W
        BY <3>5, <4>3 DEF After, n
      <4>10. /\ DOMAIN W = (DOMAIN c \ {r}) \union {n} /\ W = [x \in DOMAIN W |-> W[x]]
             /\ \A x \in DOMAIN c \ {r} : W[x] = c[x]
             /\ n \notin DOMAIN c \ {r} => W[n] = c[r]
        BY DEF Renamed
      <4> HIDE DEF W
      <4>11. DOMAIN N = DOMAIN W /\ \A x \in DOMAIN N : N[x] = W[x]
        BY <3>2, <4>8, <4>10
      <4>12. N = W
        BY <3>2, <4>10, <4>11, SameFunction
      <4> QED
        BY <3>1, <4>9, <4>12 DEF N, c, action
    <3> QED
      BY <3>4, <3>5
  <2> QED
    BY <1>1, <1>7, <2>12, <2>13
<1> QED
  BY <1>1, <1>6, <1>7

-----------------------------------------------------------------------------
(* The kernel's states within a bundle *)

\* G leads from the kernel's state to the new one, a notification at a time.
Unfolds(G, r, act, objs, infos, newKern) ==
  /\ G[0] = kern /\ G[Len(objs)] = newKern
  /\ \A i \in 0 .. Len(objs) : Trees(G[i])
  /\ \A i \in 0 .. Len(objs) - 1 : DOMAIN G[i] = DOMAIN kern
  /\ \A i \in 1 .. Len(objs) :
       Step(Msg(sent + i, act, r, objs[i], infos[objs[i]], i < Len(objs)), G[i - 1], G[i])
  /\ act = "rename" => /\ Len(objs) = 1 /\ infos[objs[1]] \in Resources
                       /\ \A i \in DOMAIN hist : infos[objs[1]] \notin DOMAIN hist[i]
  /\ act = "destroy" => \A i \in 1 .. Len(objs) - 1 : objs[i] # resource
  /\ \A x \in DOMAIN newKern \ DOMAIN kern : x \notin RenamedAway

\* what a step of the kernel does, with its steps in between
Develops ==
  \E r, act, objs, infos, newKern, G :
    /\ Notify(r, act, objs, infos, newKern) /\ Bundle(act, objs, infos)
    /\ Hosted(newKern) /\ Unfolds(G, r, act, objs, infos, newKern)

\* A bundle of one notification.
LEMMA UnfoldsOne ==
  ASSUME Trees(kern), NEW r, NEW act, NEW o, NEW infos, NEW newKern, Trees(newKern),
         Step(Msg(sent + 1, act, r, o, infos[o], FALSE), kern, newKern),
         act = "rename" => infos[o] \in Resources /\ \A i \in DOMAIN hist : infos[o] \notin DOMAIN hist[i],
         \A x \in DOMAIN newKern \ DOMAIN kern : x \notin RenamedAway
  PROVE  \E G : Unfolds(G, r, act, <<o>>, infos, newKern)
<1> DEFINE G == [i \in 0 .. 1 |-> IF i = 0 THEN kern ELSE newKern]
           objs == <<o>>
<1>1. Len(objs) = 1 /\ objs[1] = o
  OBVIOUS
<1>2. G[0] = kern /\ G[1] = newKern /\ (\A i \in 0 .. 1 : i = 0 \/ i = 1) /\ (\A i \in 1 .. 1 : i = 1)
  OBVIOUS
<1>3. 1 - 1 = 0 /\ (\A i \in 0 .. 0 : i = 0) /\ 1 .. 0 = {} /\ (1 < 1) = FALSE
  OBVIOUS
<1> HIDE DEF G, objs
<1>4. \A i \in 1 .. 1 : Step(Msg(sent + i, act, r, objs[i], infos[objs[i]], i < 1), G[i - 1], G[i])
  BY <1>1, <1>2, <1>3
<1>5. Unfolds(G, r, act, objs, infos, newKern)
  BY <1>1, <1>2, <1>3, <1>4 DEF Unfolds
<1> QED
  BY <1>5 DEF objs

\* One notification about an object of a resource
ObjStep(act, o, info, t, u) ==
  \/ act = "create" /\ o # resource /\ o \notin DOMAIN t /\ u = Put(t, o, info)
  \/ act = "change" /\ o \in DOMAIN t /\ u = Put(t, o, info)
  \/ act = "destroy" /\ o # resource /\ u = Without(t, {o})

\* The versions of a resource, from t to u
Versions(V, act, objs, infos, t, u) ==
  /\ V[0] = t /\ V[Len(objs)] = u
  /\ \A i \in 0 .. Len(objs) : IsTree(V[i])
  /\ \A i \in 1 .. Len(objs) : ObjStep(act, objs[i], infos[objs[i]], V[i - 1], V[i])

\* A bundle about the objects of the resource r, whose versions are V.
LEMMA UnfoldsMany ==
  ASSUME Trees(kern), NEW r \in DOMAIN kern, NEW act, NEW objs, NEW infos, NEW newKern, NEW V,
         Len(objs) \in Nat \ {0}, Elsewhere(kern, newKern, r),
         Versions(V, act, objs, infos, kern[r], newKern[r])
  PROVE  \E G : Unfolds(G, r, act, objs, infos, newKern)
<1> DEFINE n == Len(objs)
           G == [i \in 0 .. n |-> IF i = 0 THEN kern ELSE IF i = n THEN newKern ELSE [kern EXCEPT ![r] = V[i]]]
<1>1. n \in Nat /\ n > 0
  OBVIOUS
<1>2. V[0] = kern[r] /\ newKern[r] = V[n] /\ (\A i \in 0 .. n : IsTree(V[i]))
      /\ \A i \in 1 .. n : ObjStep(act, objs[i], infos[objs[i]], V[i - 1], V[i])
  BY DEF Versions
<1> HIDE DEF n
<1>3. G[0] = kern /\ G[n] = newKern
  BY <1>1
<1>4. ASSUME NEW i \in 0 .. n
      PROVE  /\ DOMAIN G[i] = DOMAIN kern /\ G[i][r] = V[i]
             /\ \A x \in DOMAIN kern : x # r => G[i][x] = kern[x]
  <2>1. CASE i = 0
    BY <1>2, <1>3, <2>1
  <2>2. CASE i = n
    BY <1>2, <1>3, <2>2 DEF Elsewhere
  <2>3. CASE i # 0 /\ i # n
    <3>1. G[i] = [kern EXCEPT ![r] = V[i]]
      BY <2>3
    <3> HIDE DEF G
    <3> QED
      BY <3>1
  <2> QED
    BY <2>1, <2>2, <2>3
<1> HIDE DEF G
<1>5. \A i \in 0 .. n : Trees(G[i])
  BY <1>2, <1>4 DEF Trees
<1>6. ASSUME NEW i \in 1 .. n
      PROVE  Step(Msg(sent + i, act, r, objs[i], infos[objs[i]], i < n), G[i - 1], G[i])
  <2> DEFINE m == Msg(sent + i, act, r, objs[i], infos[objs[i]], i < n)
             K == G[i - 1]
             L == G[i]
             T == V[i - 1]
  <2>1. i - 1 \in 0 .. n /\ i \in 0 .. n
    BY <1>1
  <2>2. m.act = act /\ m.res = r /\ m.obj = objs[i] /\ m.info = infos[objs[i]]
    BY DEF Msg
  <2>3. K[r] = T /\ L[r] = V[i] /\ r \in DOMAIN K /\ Elsewhere(K, L, r)
    BY <1>4, <2>1 DEF Elsewhere
  <2>4. ObjStep(act, objs[i], infos[objs[i]], T, V[i])
    BY <1>2
  <2> HIDE DEF m, K, L, T
  <2>5. Step(m, K, L)
    BY <2>2, <2>3, <2>4 DEF Step, ObjStep
  <2> QED
    BY <2>5 DEF m, K, L
<1>7. \A i \in 1 .. n : act \in {"create", "change", "destroy"} /\ (act = "destroy" => objs[i] # resource)
  BY <1>2 DEF ObjStep
<1>8. act # "rename" /\ (act = "destroy" => \A i \in 1 .. n - 1 : objs[i] # resource)
  <2>1. 1 \in 1 .. n /\ 1 .. n - 1 \subseteq 1 .. n
    BY <1>1
  <2> QED
    BY <1>7, <2>1
<1>9. 0 .. n - 1 \subseteq 0 .. n
  BY <1>1
<1>10. \A x \in DOMAIN newKern \ DOMAIN kern : x \notin RenamedAway
  BY DEF Elsewhere
<1>11. Unfolds(G, r, act, objs, infos, newKern)
  BY <1>3, <1>4, <1>5, <1>6, <1>8, <1>9, <1>10 DEF Unfolds, n
<1> QED
  BY <1>11

\* the first objects of a bundle
First(objs, i) == {objs[j] : j \in 1 .. i}

\* One object more.
LEMMA FirstNext ==
  ASSUME NEW objs, NEW i \in Nat \ {0}
  PROVE  First(objs, i) = First(objs, i - 1) \union {objs[i]} /\ First(objs, 0) = {}
<1>1. \A j \in 1 .. i : j \in 1 .. i - 1 \/ j = i
  OBVIOUS
<1>2. 1 .. i - 1 \subseteq 1 .. i /\ i \in 1 .. i /\ 1 .. 0 = {}
  OBVIOUS
<1> QED
  BY <1>1, <1>2 DEF First

\* SetToSeq() lists an element once.
LEMMA ListedOnce ==
  ASSUME NEW S, IsFiniteSet(S), NEW i \in 1 .. Len(SetToSeq(S)), NEW j \in 1 .. Len(SetToSeq(S)),
         SetToSeq(S)[i] = SetToSeq(S)[j]
  PROVE  i = j
<1>1. Cardinality(S) \in Nat /\ ExistsBijection(1 .. Cardinality(S), S)
  BY FS_CardinalityType
<1>2. \E f \in [1 .. Cardinality(S) -> S] : IsInjective(f)
  BY <1>1 DEF ExistsBijection, Bijection, Injection
<1>3. SetToSeq(S) \in [1 .. Cardinality(S) -> S] /\ IsInjective(SetToSeq(S))
  BY <1>2 DEF SetToSeq
<1>4. SetToSeq(S) \in Seq(S)
  BY ListedElements
<1>5. DOMAIN SetToSeq(S) = 1 .. Len(SetToSeq(S))
  BY <1>4, LenProperties
<1> HIDE DEF IsInjective
<1> DEFINE s == SetToSeq(S)
<1>6. \A a, b \in DOMAIN s : s[a] = s[b] => a = b
  <2> HIDE DEF s
  <2>1. IsInjective(s)
    BY <1>3 DEF s
  <2> QED
    BY <2>1 DEF IsInjective
<1> QED
  BY <1>5, <1>6

\* A new resource.
LEMMA ResourceDevelops ==
  ASSUME Trees(kern), Hosted(kern), ~ ReuseNames, NEW r \in NewResources, NEW i \in Infos["resource"],
         KernelCreateResource(r, i)
  PROVE  Develops
<1> DEFINE k == Put(kern, r, Bare(i))
           m == Msg(sent + 1, "create", r, resource, Bare(i)[resource], FALSE)
<1>1. Notify(r, "create", <<resource>>, Bare(i), k) /\ r \notin DOMAIN kern /\ r \notin RenamedAway
  BY DEF KernelCreateResource
<1>2. i \in ResourceInfo /\ r \in Resources
  BY ObjectAssumption, SeqAssumption
<1>3. resource \in Objects /\ InfoOK(resource, i)
  BY <1>2, KindsDiffer DEF Objects, InfoOK
<1>4. IsTree(Bare(i)) /\ Bare(i)[resource] = i /\ DOMAIN Bare(i) = {resource}
  BY <1>3, BareTree DEF Bare
<1>5. Bundle("create", <<resource>>, Bare(i))
  BY <1>3, <1>4, BundleOfOne DEF Acts
<1>6. /\ DOMAIN k = DOMAIN kern \union {r} /\ k[r] = Bare(i)
      /\ \A x \in DOMAIN kern : x # r => k[x] = kern[x]
  BY DEF Put
<1> HIDE DEF k
<1>7. Trees(k)
  BY <1>2, <1>4, <1>6 DEF Trees
<1>8. Hosted(k)
  BY <1>4, <1>6, KindsDiffer DEF Hosted
<1>9. m.act = "create" /\ m.obj = resource /\ m.res = r /\ m.info = i
  BY <1>4 DEF Msg
<1> HIDE DEF m
<1>10. Step(m, kern, k)
  BY <1>1, <1>6, <1>9 DEF Step
<1>11. \A x \in DOMAIN k \ DOMAIN kern : x \notin RenamedAway
  BY <1>1, <1>6
<1>12. \E G : Unfolds(G, r, "create", <<resource>>, Bare(i), k)
  BY <1>7, <1>10, <1>11, UnfoldsOne DEF m
<1> QED
  BY <1>1, <1>5, <1>8, <1>12, Zenon DEF Develops

\* A resource is renamed to a name that was never used.
LEMMA RenameDevelops ==
  ASSUME Trees(kern), Hosted(kern), ~ ReuseNames, DOMAIN hist = 0 .. sent, sent \in Nat,
         NEW r \in DOMAIN kern, NEW n \in Resources, KernelRename(r, n)
  PROVE  Develops
<1> DEFINE w == Without(kern, {r})
           k == Put(w, n, kern[r])
           m == Msg(sent + 1, "rename", r, resource, Bare(n)[resource], FALSE)
<1>1. /\ Notify(r, "rename", <<resource>>, Bare(n), k) /\ n \notin DOMAIN kern
      /\ \A i \in DOMAIN hist : n \notin DOMAIN hist[i]
  BY DEF KernelRename
<1>2. Bundle("rename", <<resource>>, Bare(n))
  BY BundleOfOne DEF Acts, Objects
<1>3. DOMAIN w = DOMAIN kern \ {r} /\ \A x \in DOMAIN kern \ {r} : w[x] = kern[x]
  BY WithoutValues
<1> HIDE DEF w
<1>4. DOMAIN k = DOMAIN w \union {n} /\ k[n] = kern[r] /\ \A x \in DOMAIN w : x # n => k[x] = w[x]
  BY DEF Put
<1> HIDE DEF k
<1>5. Trees(k) /\ Hosted(k)
  BY <1>3, <1>4 DEF Trees, Hosted
<1>6. m.act = "rename" /\ m.obj = resource /\ m.res = r /\ m.info = n /\ Bare(n)[resource] = n
  BY DEF Msg, Bare
<1> HIDE DEF m
<1>7. Step(m, kern, k)
  BY <1>1, <1>3, <1>4, <1>6 DEF Step
<1>8. n \notin RenamedAway
  <2>1. \A i \in 1 .. sent : i - 1 \in DOMAIN hist
    OBVIOUS
  <2> QED
    BY <1>1, <2>1 DEF RenamedAway
<1>9. \A x \in DOMAIN k \ DOMAIN kern : x \notin RenamedAway
  BY <1>3, <1>4, <1>8
<1>10. Bare(n)[resource] \in Resources /\ \A i \in DOMAIN hist : Bare(n)[resource] \notin DOMAIN hist[i]
  BY <1>1, <1>6
<1>11. \E G : Unfolds(G, r, "rename", <<resource>>, Bare(n), k)
  BY <1>5, <1>7, <1>9, <1>10, UnfoldsOne DEF m
<1> QED
  BY <1>1, <1>2, <1>5, <1>11, Zenon DEF Develops

\* A helper program is called: nothing changes.
LEMMA HelperDevelops ==
  ASSUME Trees(kern), Hosted(kern), NEW r \in DOMAIN kern, KernelHelper(r)
  PROVE  Develops
<1> DEFINE m == Msg(sent + 1, "helper", r, resource, Bare(NoName)[resource], FALSE)
<1>1. Notify(r, "helper", <<resource>>, Bare(NoName), kern)
  BY DEF KernelHelper
<1>2. Bundle("helper", <<resource>>, Bare(NoName))
  BY BundleOfOne DEF Acts, Objects
<1>3. m.act = "helper"
  BY DEF Msg
<1> HIDE DEF m
<1>4. Step(m, kern, kern)
  BY <1>3 DEF Step
<1>5. \E G : Unfolds(G, r, "helper", <<resource>>, Bare(NoName), kern)
  BY <1>4, UnfoldsOne DEF m
<1> QED
  BY <1>1, <1>2, <1>5, Zenon DEF Develops

\* The objects of a bundle can be created or changed in their order.
Fits(act, objs, t) ==
  \A i \in 1 .. Len(objs) :
    /\ objs[i] \in PeerDevices \union Paths => ConnectionOf(objs[i]) \in DOMAIN t \union First(objs, i)
    /\ act = "create" => objs[i] # resource /\ objs[i] \notin DOMAIN t \union First(objs, i - 1)
    /\ act = "change" => objs[i] \in DOMAIN t

\* The versions of a resource meanwhile.
LEMMA OverlayVersions ==
  ASSUME NEW t, IsTree(t), NEW act \in {"create", "change"}, NEW objs, NEW new,
         Len(objs) \in Nat \ {0}, DOMAIN new = First(objs, Len(objs)), DOMAIN new \subseteq Objects,
         \A o \in DOMAIN new : InfoOK(o, new[o]), Fits(act, objs, t)
  PROVE  \E V : Versions(V, act, objs, new, t, Overlay(t, new))
<1> DEFINE n == Len(objs)
           V == [i \in 0 .. n |-> IF i = 0 THEN t ELSE Overlay(t, Restrict(new, First(objs, i)))]
<1>1. n \in Nat /\ n > 0 /\ DOMAIN new = First(objs, n)
  OBVIOUS
<1>2. \A i \in 1 .. n :
           /\ objs[i] \in PeerDevices \union Paths => ConnectionOf(objs[i]) \in DOMAIN t \union First(objs, i)
           /\ act = "create" => objs[i] # resource /\ objs[i] \notin DOMAIN t \union First(objs, i - 1)
           /\ act = "change" => objs[i] \in DOMAIN t
  BY DEF Fits
<1> HIDE DEF n
<1>3. ASSUME NEW i \in 0 .. n
      PROVE  First(objs, i) \subseteq DOMAIN new
  <2>1. 1 .. i \subseteq 1 .. n
    BY <1>1
  <2> QED
    BY <1>1, <2>1 DEF First
<1>4. ASSUME NEW i \in 0 .. n
      PROVE  /\ DOMAIN V[i] = DOMAIN t \union First(objs, i)
             /\ \A o \in DOMAIN V[i] : V[i][o] = IF o \in First(objs, i) THEN new[o] ELSE t[o]
             /\ i # 0 => V[i] = [o \in DOMAIN V[i] |-> V[i][o]]
  <2>1. CASE i = 0
    <3>1. V[i] = t /\ First(objs, i) = {}
      BY <2>1 DEF First
    <3> QED
      BY <2>1, <3>1
  <2>2. CASE i # 0
    <3> DEFINE F == First(objs, i)
               R == Restrict(new, F)
    <3>1. V[i] = Overlay(t, R)
      BY <2>2
    <3>2. F \subseteq DOMAIN new
      BY <1>3
    <3> HIDE DEF F, V
    <3>3. DOMAIN R = F /\ \A o \in F : R[o] = new[o]
      BY <3>2 DEF Restrict
    <3> HIDE DEF R
    <3> QED
      BY <3>1, <3>3 DEF Overlay, F
  <2> QED
    BY <2>1, <2>2
<1>5. V[0] = t
  BY <1>1
<1> HIDE DEF V
<1>6. V[n] = Overlay(t, new)
  <2> DEFINE W == Overlay(t, new)
             Y == V[n]
  <2>1. DOMAIN W = DOMAIN t \union DOMAIN new /\ \A o \in DOMAIN W : W[o] = IF o \in DOMAIN new THEN new[o] ELSE t[o]
    BY DEF Overlay
  <2>2. W = [o \in DOMAIN W |-> W[o]]
    BY DEF Overlay
  <2>3. n \in 0 .. n /\ n # 0
    BY <1>1
  <2>4. /\ DOMAIN Y = DOMAIN t \union First(objs, n)
        /\ \A o \in DOMAIN Y : Y[o] = IF o \in First(objs, n) THEN new[o] ELSE t[o]
        /\ Y = [o \in DOMAIN Y |-> Y[o]]
    BY <1>4, <2>3
  <2> HIDE DEF W, Y
  <2>5. DOMAIN Y = DOMAIN W /\ \A o \in DOMAIN Y : Y[o] = W[o]
    BY <1>1, <2>1, <2>4
  <2>6. Y = W
    BY <2>2, <2>4, <2>5, SameFunction
  <2> QED
    BY <2>6 DEF Y, W
<1>7. ASSUME NEW i \in 1 .. n
      PROVE  V[i] = Put(V[i - 1], objs[i], new[objs[i]])
  <2> DEFINE W == Put(V[i - 1], objs[i], new[objs[i]])
             X == V[i - 1]
             Y == V[i]
             o1 == objs[i]
             F == First(objs, i)
             E == First(objs, i - 1)
  <2>1. F = E \union {o1}
    <3>1. i \in Nat \ {0}
      BY <1>1
    <3> QED
      BY <3>1, FirstNext
  <2>2. i \in 0 .. n /\ i - 1 \in 0 .. n /\ i # 0
    BY <1>1
  <2>3. /\ DOMAIN Y = DOMAIN t \union F /\ Y = [o \in DOMAIN Y |-> Y[o]]
        /\ \A o \in DOMAIN Y : Y[o] = IF o \in F THEN new[o] ELSE t[o]
    BY <1>4, <2>2
  <2>4. DOMAIN X = DOMAIN t \union E /\ \A o \in DOMAIN X : X[o] = IF o \in E THEN new[o] ELSE t[o]
    BY <1>4, <2>2
  <2>5. W = Put(X, o1, new[o1])
    OBVIOUS
  <2> HIDE DEF X, Y, W, o1, E, F
  <2>6. /\ DOMAIN W = DOMAIN X \union {o1} /\ W = [o \in DOMAIN W |-> W[o]] /\ W[o1] = new[o1]
        /\ \A o \in DOMAIN X : o # o1 => W[o] = X[o]
    BY <2>5 DEF Put
  <2>7. DOMAIN Y = DOMAIN W /\ \A o \in DOMAIN Y : Y[o] = W[o]
    BY <2>1, <2>3, <2>4, <2>6
  <2>8. Y = W
    BY <2>3, <2>6, <2>7, SameFunction
  <2> QED
    BY <2>8 DEF Y, W
<1>8. ASSUME NEW i \in 0 .. n
      PROVE  IsTree(V[i])
  <2> DEFINE Y == V[i]
             F == First(objs, i)
  <2>1. DOMAIN Y = DOMAIN t \union F /\ \A o \in DOMAIN Y : Y[o] = IF o \in F THEN new[o] ELSE t[o]
    BY <1>4
  <2>2. \A o \in F : o \in Objects /\ InfoOK(o, new[o])
    BY <1>3
  <2>3. ASSUME NEW o \in F, o \in PeerDevices \union Paths
        PROVE  ConnectionOf(o) \in DOMAIN Y
    <3>1. PICK j \in 1 .. i : o = objs[j]
      BY DEF First
    <3>2. j \in 1 .. n /\ 1 .. j \subseteq 1 .. i
      BY <1>1
    <3>3. ConnectionOf(o) \in DOMAIN t \union First(objs, j)
      BY <1>2, <2>3, <3>1, <3>2
    <3>4. First(objs, j) \subseteq F
      BY <3>2 DEF First
    <3> QED
      BY <2>1, <3>3, <3>4
  <2>4. ASSUME NEW o \in DOMAIN Y
        PROVE  /\ o \in Objects /\ InfoOK(o, Y[o])
               /\ o \in PeerDevices \union Paths => ConnectionOf(o) \in DOMAIN Y
    <3>1. CASE o \in F
      BY <2>1, <2>2, <2>3, <3>1
    <3>2. CASE o \notin F
      <4>1. o \in DOMAIN t /\ Y[o] = t[o]
        BY <2>1, <3>2
      <4>2. o \in Objects /\ InfoOK(o, t[o])
        BY <4>1, TreeInfo
      <4>3. o \in PeerDevices \union Paths => ConnectionOf(o) \in DOMAIN t
        BY <4>1 DEF IsTree
      <4> QED
        BY <2>1, <4>1, <4>2, <4>3
    <3> QED
      BY <3>1, <3>2
  <2>5. resource \in DOMAIN Y
    BY <2>1 DEF IsTree
  <2> HIDE DEF Y
  <2>6. IsTree(Y)
    BY <2>4, <2>5 DEF IsTree, InfoOK
  <2> QED
    BY <2>6 DEF Y
<1>9. ASSUME NEW i \in 1 .. n
      PROVE  ObjStep(act, objs[i], new[objs[i]], V[i - 1], V[i])
  <2>1. i - 1 \in 0 .. n
    BY <1>1
  <2>2. DOMAIN V[i - 1] = DOMAIN t \union First(objs, i - 1)
    BY <1>4, <2>1
  <2>3. CASE act = "create"
    BY <1>2, <1>7, <2>2, <2>3 DEF ObjStep
  <2>4. CASE act = "change"
    BY <1>2, <1>7, <2>2, <2>4 DEF ObjStep
  <2> QED
    BY <2>3, <2>4
<1> QED
  BY <1>5, <1>6, <1>8, <1>9 DEF n, Versions

\* All objects of a bundle.
LEMMA FirstAll ==
  ASSUME NEW S, NEW s \in Seq(S), ToSet(s) = S
  PROVE  First(s, Len(s)) = S
<1>1. DOMAIN s = 1 .. Len(s)
  BY LenProperties
<1> QED
  BY <1>1 DEF First, ToSet

\* Objects change their state, one notification each.
LEMMA ChangeDevelops ==
  ASSUME Trees(kern), Hosted(kern), NEW r \in DOMAIN kern, NEW S, S \subseteq DOMAIN kern[r],
         NEW new, DOMAIN new = S, \A o \in S : new[o] \in Infos[o[1]], KernelChange(r, S, new)
  PROVE  Develops
<1> DEFINE t == kern[r]
           u == Overlay(t, new)
           k == [kern EXCEPT ![r] = u]
           s == SetToSeq(S)
<1>1. Notify(r, "change", s, new, k)
  BY DEF KernelChange
<1>2. IsTree(t) /\ S \subseteq Objects
  BY DEF Trees, IsTree
<1>3. \A o \in S : InfoOK(o, new[o])
  BY <1>2, InfosFit
<1>4. s \in Seq(S) /\ ToSet(s) = S
  <2>1. IsFiniteSet(S)
    BY <1>2, ObjectAssumption, FS_Subset
  <2> QED
    BY <2>1, ListedElements, ListedAll
<1>5. Len(s) \in Nat \ {0}
  <2>1. Len(s) \in Nat
    BY <1>4
  <2>2. Len(s) \in 1 .. MaxMessages - sent
    BY <1>1 DEF Notify
  <2> QED
    BY <2>1, <2>2
<1> HIDE DEF s
<1>6. Bundle("change", s, new)
  BY <1>2, <1>3, <1>4, BundleOfMany DEF Acts
<1>7. First(s, Len(s)) = S
  BY <1>4, FirstAll
<1>8. \A i \in 1 .. Len(s) : s[i] \in S
  BY <1>4
<1>9. Fits("change", s, t)
  BY <1>2, <1>8 DEF Fits, IsTree
<1> HIDE DEF t
<1>10. \E V : Versions(V, "change", s, new, t, u)
  BY <1>2, <1>3, <1>5, <1>7, <1>9, OverlayVersions
<1>11. DOMAIN u = DOMAIN t
  BY DEF Overlay, t
<1> HIDE DEF u
<1>12. DOMAIN k = DOMAIN kern /\ k[r] = u /\ \A x \in DOMAIN kern : x # r => k[x] = kern[x]
  OBVIOUS
<1> HIDE DEF k
<1>13. Elsewhere(kern, k, r)
  BY <1>12 DEF Elsewhere
<1>14. Hosted(k)
  BY <1>11, <1>12 DEF Hosted, t
<1>15. \E G : Unfolds(G, r, "change", s, new, k)
  BY <1>5, <1>10, <1>12, <1>13, UnfoldsMany DEF t
<1> QED
  BY <1>1, <1>6, <1>14, <1>15, Zenon DEF Develops

\* A new object, and the peer devices it completes.
LEMMA ObjectDevelops ==
  ASSUME Trees(kern), Hosted(kern), NEW r \in DOMAIN kern,
         NEW o \in Objects \ (PeerDevices \union {resource}), NEW is,
         DOMAIN is = {o[1], "peer-device"}, \A k \in DOMAIN is : is[k] \in Infos[k],
         KernelCreate(r, o, is)
  PROVE  Develops
<1> DEFINE t     == kern[r]
           peers == {p \in Attached(o) \intersect PeerDevices :
                       {connection(p[2]), device(p[3])} \subseteq DOMAIN t \union {o}}
           D     == peers \union {o}
           new   == [p \in D |-> is[p[1]]]
           s     == SetToSeq(peers)
           objs  == <<o>> \o s
           u     == Overlay(t, new)
           k     == [kern EXCEPT ![r] = u]
<1>1. /\ o \in Paths => ConnectionOf(o) \in DOMAIN t
      /\ Notify(r, "create", objs, new, k)
      /\ o \notin DOMAIN t
  BY DEF KernelCreate
<1>2. /\ peers \subseteq PeerDevices /\ D \subseteq Objects /\ resource \notin D
      /\ \A p \in peers : ConnectionOf(p) \in DOMAIN t \union {o} /\ device(p[3]) \in DOMAIN t \union {o}
      /\ \A p \in peers : o = connection(p[2]) \/ o = device(p[3]) \/ p \in Paths
  BY KindsDiffer DEF Objects, ConnectionOf, Attached
<1>a. IsTree(t)
  BY DEF Trees
<1>b. \A p \in peers : p \notin DOMAIN t
  <2> SUFFICES ASSUME NEW p \in peers, p \in DOMAIN t PROVE FALSE
    OBVIOUS
  <2>1. p \in PeerDevices /\ p \notin Paths
    BY <1>2, KindsDiffer
  <2>2. ConnectionOf(p) \in DOMAIN t
    BY <1>a, <2>1 DEF IsTree
  <2>3. device(p[3]) \in DOMAIN t
    BY <2>1 DEF Hosted
  <2> QED
    BY <1>1, <1>2, <2>1, <2>2, <2>3 DEF ConnectionOf
<1>3. IsFiniteSet(peers)
  BY <1>2, ObjectAssumption, FS_Subset
<1> HIDE DEF peers
<1>4. \A p \in D : p[1] \in DOMAIN is
  BY <1>2, KindsDiffer
<1>5. DOMAIN new = D /\ \A p \in D : new[p] \in Infos[p[1]]
  BY <1>4
<1> HIDE DEF new
<1>6. \A p \in D : InfoOK(p, new[p])
  BY <1>2, <1>5, InfosFit
<1>7. s \in Seq(peers) /\ ToSet(s) = peers
  BY <1>3, ListedElements, ListedAll
<1> DEFINE l == Len(s)
<1>8. l \in Nat /\ (\A i \in 1 .. l : s[i] \in peers) /\ \A p \in peers : \E i \in 1 .. l : s[i] = p
  <2>1. DOMAIN s = 1 .. l /\ l \in Nat
    BY <1>7, LenProperties
  <2> HIDE DEF s
  <2> QED
    BY <1>7, <2>1 DEF ToSet
<1>9. \A i, j \in 1 .. l : s[i] = s[j] => i = j
  BY <1>3, ListedOnce
<1>10. /\ objs \in Seq(D) /\ Len(objs) = 1 + l
       /\ \A i \in 1 .. 1 + l : objs[i] = IF i <= 1 THEN o ELSE s[i - 1]
  <2>1. s \in Seq(D) /\ <<o>> \in Seq(D) /\ Len(<<o>>) = 1 /\ <<o>>[1] = o
    BY <1>7
  <2> HIDE DEF s, D
  <2>2. /\ objs \in Seq(D) /\ Len(objs) = 1 + l
        /\ \A i \in 1 .. 1 + l : objs[i] = IF i <= 1 THEN <<o>>[i] ELSE s[i - 1]
    BY <2>1, ConcatProperties
  <2>3. \A i \in 1 .. 1 + l : i <= 1 => i = 1
    OBVIOUS
  <2> HIDE DEF objs, l
  <2> QED
    BY <2>1, <2>2, <2>3
<1> HIDE DEF s, l, objs
<1>11. Len(objs) \in Nat \ {0} /\ 1 \in 1 .. 1 + l
  BY <1>8, <1>10
<1>12. \A i \in 2 .. 1 + l : i - 1 \in 1 .. l /\ i \in 1 .. 1 + l /\ objs[i] = s[i - 1] /\ objs[i] \in peers
  BY <1>8, <1>10
<1>13. objs[1] = o /\ \A i \in 1 .. 1 + l : i = 1 \/ i \in 2 .. 1 + l
  BY <1>8, <1>10, <1>11
<1>14. \A p \in peers : \E i \in 1 .. 1 + l : objs[i] = p
  <2> SUFFICES ASSUME NEW p \in peers PROVE \E i \in 1 .. 1 + l : objs[i] = p
    OBVIOUS
  <2>1. PICK i \in 1 .. l : s[i] = p
    BY <1>8
  <2>2. i + 1 \in 2 .. 1 + l /\ (i + 1) - 1 = i
    BY <1>8
  <2> QED
    BY <1>12, <2>1, <2>2
<1>15. First(objs, Len(objs)) = D
  BY <1>10, <1>11, <1>12, <1>13, <1>14 DEF First
<1>16. ASSUME NEW i \in 1 .. Len(objs)
       PROVE  /\ objs[i] \in PeerDevices \union Paths => ConnectionOf(objs[i]) \in DOMAIN t \union First(objs, i)
              /\ objs[i] # resource /\ objs[i] \notin DOMAIN t \union First(objs, i - 1)
  <2>0. i \in 1 .. 1 + l
    BY <1>10
  <2>1. CASE i = 1
    <3>1. First(objs, i - 1) = {}
      BY <2>1 DEF First
    <3> QED
      BY <1>1, <1>2, <1>13, <2>1, <3>1
  <2>2. CASE i # 1
    <3>1. i \in 2 .. 1 + l /\ 1 \in 1 .. i
      BY <1>8, <2>0, <2>2
    <3>2. o \in First(objs, i)
      BY <1>13, <3>1 DEF First
    <3>3. objs[i] \in peers
      BY <1>12, <3>1
    <3>4. ASSUME objs[i] \in First(objs, i - 1) PROVE FALSE
      <4>1. PICK j \in 1 .. i - 1 : objs[j] = objs[i]
        BY <3>4 DEF First
      <4>2. j \in 1 .. 1 + l /\ j # i
        BY <1>8, <2>0
      <4>3. CASE j = 1
        BY <1>2, <1>13, <3>3, <4>1, <4>3
      <4>4. CASE j # 1
        <5>1. j \in 2 .. 1 + l
          BY <1>13, <4>2, <4>4
        <5>2. s[i - 1] = s[j - 1] /\ i - 1 \in 1 .. l /\ j - 1 \in 1 .. l
          BY <1>12, <3>1, <4>1, <5>1
        <5>3. i - 1 = j - 1
          BY <1>9, <5>2 DEF s, l
        <5> QED
          BY <2>0, <4>2, <5>3
      <4> QED
        BY <4>3, <4>4
    <3> QED
      BY <1>2, <1>b, <3>2, <3>3, <3>4
  <2> QED
    BY <2>1, <2>2
<1>17. Fits("create", objs, t)
  BY <1>16 DEF Fits
<1> HIDE DEF t, D
<1>18. \E V : Versions(V, "create", objs, new, t, u)
  BY <1>2, <1>5, <1>6, <1>11, <1>15, <1>17, <1>a, OverlayVersions
<1>19. DOMAIN u = DOMAIN t \union D
  BY <1>5 DEF Overlay
<1> HIDE DEF u
<1>20. DOMAIN k = DOMAIN kern /\ k[r] = u /\ \A x \in DOMAIN kern : x # r => k[x] = kern[x]
  OBVIOUS
<1> HIDE DEF k
<1>21. Elsewhere(kern, k, r)
  BY <1>20 DEF Elsewhere
<1>22. Hosted(k)
  <2>1. \A p \in PeerDevices \intersect DOMAIN t : device(p[3]) \in DOMAIN t
    BY DEF Hosted, t
  <2>2. \A p \in PeerDevices \intersect DOMAIN u : device(p[3]) \in DOMAIN u
    BY <1>2, <1>19, <2>1 DEF D, t
  <2> QED
    BY <1>20, <2>2 DEF Hosted
<1>23. Bundle("create", objs, new)
  BY <1>2, <1>6, <1>10, BundleOfMany DEF Acts
<1>24. \E G : Unfolds(G, r, "create", objs, new, k)
  BY <1>11, <1>18, <1>20, <1>21, UnfoldsMany DEF t
<1> QED
  BY <1>1, <1>22, <1>23, <1>24, Zenon DEF Develops

\* The objects of a bundle can be removed in their order.
Leaves(objs, t) ==
  \A i \in 1 .. Len(objs) :
    /\ objs[i] # resource
    /\ \A x \in DOMAIN t \intersect (PeerDevices \union Paths) : ConnectionOf(x) = objs[i] => x \in First(objs, i)

\* The versions of a resource meanwhile.
LEMMA WithoutVersions ==
  ASSUME NEW t, IsTree(t), NEW objs, NEW infos, Len(objs) \in Nat \ {0}, Leaves(objs, t)
  PROVE  \E V : Versions(V, "destroy", objs, infos, t, Without(t, First(objs, Len(objs))))
<1> DEFINE n == Len(objs)
           V == [i \in 0 .. n |-> IF i = 0 THEN t ELSE Without(t, First(objs, i))]
<1>1. n \in Nat /\ n > 0
  OBVIOUS
<1>2. \A i \in 1 .. n :
        /\ objs[i] # resource
        /\ \A x \in DOMAIN t \intersect (PeerDevices \union Paths) : ConnectionOf(x) = objs[i] => x \in First(objs, i)
  BY DEF Leaves
<1> HIDE DEF n
<1>3. V[0] = t /\ V[n] = Without(t, First(objs, n))
  BY <1>1
<1>4. ASSUME NEW i \in 0 .. n
      PROVE  /\ DOMAIN V[i] = DOMAIN t \ First(objs, i)
             /\ \A o \in DOMAIN V[i] : V[i][o] = t[o]
             /\ i # 0 => V[i] = Without(t, First(objs, i))
  <2>1. CASE i = 0
    <3>1. V[i] = t /\ First(objs, i) = {}
      BY <2>1 DEF First
    <3> QED
      BY <2>1, <3>1
  <2>2. CASE i # 0
    <3> DEFINE F == First(objs, i)
    <3>1. V[i] = Without(t, F)
      BY <2>2
    <3>2. DOMAIN Without(t, F) = DOMAIN t \ F /\ \A x \in DOMAIN t \ F : Without(t, F)[x] = t[x]
      BY WithoutValues
    <3> HIDE DEF V
    <3> QED
      BY <3>1, <3>2
  <2> QED
    BY <2>1, <2>2
<1> HIDE DEF V
<1>5. ASSUME NEW i \in 1 .. n
      PROVE  V[i] = Without(V[i - 1], {objs[i]})
  <2> DEFINE X == V[i - 1]
             Y == V[i]
             o1 == objs[i]
             W == Without(X, {o1})
             F == First(objs, i)
             E == First(objs, i - 1)
  <2>1. F = E \union {o1}
    <3>1. i \in Nat \ {0}
      BY <1>1
    <3> QED
      BY <3>1, FirstNext
  <2>2. i \in 0 .. n /\ i - 1 \in 0 .. n /\ i # 0
    BY <1>1
  <2>3. DOMAIN Y = DOMAIN t \ F /\ (\A o \in DOMAIN Y : Y[o] = t[o]) /\ Y = Without(t, F)
    BY <1>4, <2>2
  <2>4. DOMAIN X = DOMAIN t \ E /\ \A o \in DOMAIN X : X[o] = t[o]
    BY <1>4, <2>2
  <2> HIDE DEF X, Y, o1, E, F
  <2>5. DOMAIN W = DOMAIN X \ {o1} /\ \A o \in DOMAIN X \ {o1} : W[o] = X[o]
    BY WithoutValues
  <2>6. W = [o \in DOMAIN W |-> W[o]] /\ Y = [o \in DOMAIN Y |-> Y[o]]
    BY <2>3 DEF Without, Restrict
  <2> HIDE DEF W
  <2>7. DOMAIN Y = DOMAIN W /\ \A o \in DOMAIN Y : Y[o] = W[o]
    BY <2>1, <2>3, <2>4, <2>5
  <2>8. Y = W
    BY <2>6, <2>7, SameFunction
  <2> QED
    BY <2>8 DEF Y, W, X, o1
<1>6. ASSUME NEW i \in 0 .. n
      PROVE  IsTree(V[i])
  <2>1. CASE i = 0
    BY <1>3, <2>1
  <2>2. CASE i # 0
    <3> DEFINE F == First(objs, i)
    <3>1. V[i] = Without(t, F)
      BY <1>4, <2>2
    <3>2. resource \notin F
      <4>1. 1 .. i \subseteq 1 .. n
        BY <1>1
      <4> QED
        BY <1>2, <4>1 DEF First
    <3>3. ASSUME NEW x \in DOMAIN t \intersect (PeerDevices \union Paths), ConnectionOf(x) \in F
          PROVE  x \in F
      <4>1. PICK j \in 1 .. i : ConnectionOf(x) = objs[j]
        BY <3>3 DEF First
      <4>2. j \in 1 .. n /\ 1 .. j \subseteq 1 .. i
        BY <1>1
      <4>3. x \in First(objs, j)
        BY <1>2, <4>1, <4>2
      <4> QED
        BY <4>2, <4>3 DEF First
    <3> HIDE DEF F
    <3> QED
      BY <3>1, <3>2, <3>3, TreeWithout
  <2> QED
    BY <2>1, <2>2
<1>7. ASSUME NEW i \in 1 .. n
      PROVE  ObjStep("destroy", objs[i], infos[objs[i]], V[i - 1], V[i])
  BY <1>2, <1>5 DEF ObjStep
<1> QED
  BY <1>3, <1>6, <1>7 DEF n, Versions

\* An object goes, after what is attached to it.
LEMMA DestroyDevelops ==
  ASSUME Trees(kern), Hosted(kern), NEW r \in DOMAIN kern, NEW o \in DOMAIN kern[r] \ PeerDevices,
         KernelDestroy(r, o)
  PROVE  Develops
<1> DEFINE t    == kern[r]
           A    == Attached(o) \intersect DOMAIN t
           s    == SetToSeq(A)
           gone == s \o <<o>>
           k    == IF o = resource THEN Without(kern, {r}) ELSE [kern EXCEPT ![r] = Without(t, ToSet(gone))]
           n    == Len(s)
<1>1. Notify(r, "destroy", gone, t, k) /\ (o = resource => DOMAIN t = {o})
  BY DEF KernelDestroy
<1>2. /\ IsTree(t) /\ DOMAIN t \subseteq Objects /\ A \subseteq DOMAIN t
      /\ A \subseteq PeerDevices \union Paths
  BY DEF Trees, IsTree, Attached
<1>3. IsFiniteSet(A)
  BY <1>2, ObjectAssumption, FS_Subset
<1>4. s \in Seq(A) /\ ToSet(s) = A /\ n \in Nat /\ DOMAIN s = 1 .. n
  <2>1. s \in Seq(A) /\ ToSet(s) = A
    BY <1>3, ListedElements, ListedAll
  <2> QED
    BY <2>1, LenProperties
<1>5. /\ gone \in Seq(DOMAIN t) /\ Len(gone) = n + 1 /\ DOMAIN gone = 1 .. n + 1
      /\ \A i \in 1 .. n + 1 : gone[i] = IF i <= n THEN s[i] ELSE o
  <2> DEFINE D == DOMAIN t
  <2>1. s \in Seq(D) /\ <<o>> \in Seq(D) /\ n \in Nat /\ Len(<<o>>) = 1 /\ <<o>>[1] = o
    BY <1>2, <1>4
  <2> HIDE DEF D, s
  <2>2. gone \in Seq(D) /\ Len(gone) = n + 1 /\ \A i \in 1 .. n + 1 : gone[i] = IF i <= n THEN s[i] ELSE <<o>>[i - n]
    BY <2>1, ConcatProperties
  <2>3. DOMAIN gone = 1 .. n + 1
    BY <2>2, LenProperties
  <2> HIDE DEF n, gone
  <2>4. \A i \in 1 .. n + 1 : ~ (i <= n) => i - n = 1
    BY <2>1
  <2> QED
    BY <2>1, <2>2, <2>3, <2>4 DEF D
<1> HIDE DEF gone, s, n
<1>6. \A i \in 1 .. n : s[i] \in A
  BY <1>4
<1>7. Bundle("destroy", gone, t)
  BY <1>2, <1>5, BundleOfMany DEF Acts
<1>8. CASE o = resource
  <2>1. A = {}
    BY <1>1, <1>2, <1>8, KindsDiffer
  <2>2. n = 0
    <3>1. 1 .. n = {}
      BY <1>6, <2>1
    <3> QED
      BY <1>4, <3>1
  <2>3. Len(gone) = 1 /\ gone[1] = o /\ gone = <<o>>
    <3>1. 1 \in 1 .. 1 /\ ~ (1 <= 0) /\ 0 + 1 = 1
      OBVIOUS
    <3>2. Len(gone) = 1 /\ gone[1] = o
      BY <1>5, <2>2, <3>1
    <3>3. gone \in Seq(DOMAIN t) /\ <<o>> \in Seq(DOMAIN t) /\ Len(<<o>>) = 1 /\ <<o>>[1] = o
      BY <1>5
    <3>4. \A i \in 1 .. Len(gone) : gone[i] = <<o>>[i]
      <4>1. \A i \in 1 .. 1 : i = 1
        OBVIOUS
      <4> QED
        BY <3>2, <3>3, <4>1
    <3> QED
      BY <3>2, <3>3, <3>4, SeqEqual
  <2> DEFINE m == Msg(sent + 1, "destroy", r, o, t[o], FALSE)
             w == Without(kern, {r})
  <2>4. k = w
    BY <1>8
  <2> HIDE DEF k
  <2>5. DOMAIN w = DOMAIN kern \ {r} /\ \A x \in DOMAIN kern \ {r} : w[x] = kern[x]
    BY WithoutValues
  <2> HIDE DEF w
  <2>6. m.act = "destroy" /\ m.obj = o /\ m.res = r
    BY DEF Msg
  <2> HIDE DEF m
  <2>7. Step(m, kern, k)
    BY <1>1, <1>8, <2>4, <2>5, <2>6 DEF Step
  <2>8. Trees(k) /\ Hosted(k) /\ DOMAIN k \subseteq DOMAIN kern
    BY <2>4, <2>5 DEF Trees, Hosted
  <2>9. \E G : Unfolds(G, r, "destroy", <<o>>, t, k)
    BY <2>7, <2>8, UnfoldsOne DEF m
  <2>10. \E G : Unfolds(G, r, "destroy", gone, t, k)
    BY <2>3, <2>9
  <2> HIDE DEF t
  <2> QED
    BY <1>1, <1>7, <2>8, <2>10, Zenon DEF Develops
<1>9. CASE o # resource
  <2> DEFINE S == First(gone, Len(gone))
             u == Without(t, S)
  <2>1. S = ToSet(gone)
    BY <1>5 DEF First, ToSet
  <2>2. ASSUME NEW x \in A
        PROVE  \E j \in 1 .. n : gone[j] = x
    <3>1. PICK j \in 1 .. n : s[j] = x
      BY <1>4 DEF ToSet
    <3>2. j \in 1 .. n + 1 /\ j <= n
      BY <1>4
    <3> QED
      BY <1>5, <3>1, <3>2
  <2>3. n + 1 \in 1 .. n + 1 /\ gone[n + 1] = o /\ 1 .. n \subseteq 1 .. n + 1
    <3>1. n + 1 \in 1 .. n + 1 /\ ~ (n + 1 <= n) /\ 1 .. n \subseteq 1 .. n + 1
      BY <1>4
    <3> QED
      BY <1>5, <3>1
  <2>4. ASSUME NEW i \in 1 .. Len(gone)
        PROVE  /\ gone[i] # resource
               /\ \A x \in DOMAIN t \intersect (PeerDevices \union Paths) :
                    ConnectionOf(x) = gone[i] => x \in First(gone, i)
    <3>1. i \in 1 .. n + 1
      BY <1>5
    <3>2. CASE i <= n
      <4>1. gone[i] \in A
        BY <1>4, <1>5, <1>6, <3>1, <3>2
      <4> QED
        BY <1>2, <4>1, KindsDiffer, TheirConnections
    <3>3. CASE ~ (i <= n)
      <4>1. i = n + 1
        BY <1>4, <3>1, <3>3
      <4>2. ASSUME NEW x \in DOMAIN t \intersect (PeerDevices \union Paths), ConnectionOf(x) = o
            PROVE  x \in First(gone, i)
        <5>1. x \in A
          BY <4>2 DEF Attached, ConnectionOf
        <5> QED
          BY <2>2, <2>3, <4>1, <5>1 DEF First
      <4> QED
        BY <1>9, <2>3, <4>1, <4>2
    <3> QED
      BY <3>2, <3>3
  <2>5. Leaves(gone, t)
    BY <2>4 DEF Leaves
  <2>6. Len(gone) \in Nat \ {0}
    BY <1>4, <1>5
  <2> HIDE DEF A, t
  <2>7. \E V : Versions(V, "destroy", gone, t, t, u)
    BY <1>2, <2>5, <2>6, WithoutVersions
  <2>8. k = [kern EXCEPT ![r] = u]
    BY <1>9, <2>1
  <2> HIDE DEF k
  <2>9. DOMAIN k = DOMAIN kern /\ k[r] = u /\ \A x \in DOMAIN kern : x # r => k[x] = kern[x]
    BY <2>8
  <2>10. Elsewhere(kern, k, r)
    BY <2>9 DEF Elsewhere
  <2>11. DOMAIN u = DOMAIN t \ S
    BY WithoutValues
  <2> HIDE DEF u
  <2>12. S = A \union {o}
    <3>1. \A i \in 1 .. n + 1 : i \in 1 .. n \/ i = n + 1
      BY <1>4
    <3>2. \A i \in 1 .. n : gone[i] \in A
      BY <1>4, <1>5, <1>6
    <3>3. S \subseteq A \union {o}
      BY <1>5, <2>3, <3>1, <3>2 DEF First
    <3>4. A \union {o} \subseteq S
      BY <1>5, <2>2, <2>3 DEF First
    <3> QED
      BY <3>3, <3>4
  <2> HIDE DEF S
  <2>13. Hosted(k)
    <3>1. \A p \in PeerDevices \intersect DOMAIN t : device(p[3]) \in DOMAIN t
      BY DEF Hosted, t
    <3>2. ASSUME NEW p \in PeerDevices \intersect DOMAIN u
          PROVE  device(p[3]) \in DOMAIN u
      <4>1. device(p[3]) \in Devices
        BY DEF PeerDevices, peer_device, Devices
      <4>2. device(p[3]) \notin A
        BY <1>2, <4>1, KindsDiffer
      <4>3. device(p[3]) # o
        <5> SUFFICES ASSUME device(p[3]) = o PROVE FALSE
          OBVIOUS
        <5>1. p \in Attached(o)
          BY DEF Attached
        <5> QED
          BY <2>11, <2>12, <5>1 DEF A
      <4> QED
        BY <2>11, <2>12, <3>1, <4>2, <4>3
    <3> QED
      BY <2>9, <3>2 DEF Hosted
  <2>14. \E G : Unfolds(G, r, "destroy", gone, t, k)
    BY <2>6, <2>7, <2>9, <2>10, UnfoldsMany DEF t
  <2> QED
    BY <1>1, <1>7, <2>13, <2>14, Zenon DEF Develops
<1> QED
  BY <1>8, <1>9

\* Every step of the kernel goes through whole states.
LEMMA KernelDevelops ==
  ASSUME Trees(kern), Hosted(kern), ~ ReuseNames, DOMAIN hist = 0 .. sent, sent \in Nat, KernelNext
  PROVE  Develops
<1>1. CASE \E r \in NewResources, i \in Infos["resource"] : KernelCreateResource(r, i)
  BY <1>1, ResourceDevelops
<1>2. ASSUME NEW r \in DOMAIN kern, NEW o \in Objects \ (PeerDevices \union {resource}),
             NEW is \in [{o[1], "peer-device"} -> UNION {Infos[k] : k \in {o[1], "peer-device"}}],
             \A k \in DOMAIN is : is[k] \in Infos[k], KernelCreate(r, o, is)
      PROVE  Develops
  <2>1. DOMAIN is = {o[1], "peer-device"}
    OBVIOUS
  <2> QED
    BY <1>2, <2>1, ObjectDevelops
<1>3. ASSUME NEW r \in DOMAIN kern,
             NEW S \in kSubset(1, DOMAIN kern[r]) \union kSubset(MaxBundle, DOMAIN kern[r]),
             NEW new \in [S -> UNION {Infos[o[1]] : o \in S}],
             \A o \in S : new[o] \in Infos[o[1]], KernelChange(r, S, new)
      PROVE  Develops
  <2>1. S \subseteq DOMAIN kern[r]
    BY DEF kSubset
  <2>2. DOMAIN new = S
    OBVIOUS
  <2> QED
    BY <1>3, <2>1, <2>2, ChangeDevelops
<1>4. ASSUME NEW r \in DOMAIN kern, NEW o \in DOMAIN kern[r] \ PeerDevices, KernelDestroy(r, o)
      PROVE  Develops
  BY <1>4, DestroyDevelops
<1>5. ASSUME NEW r \in DOMAIN kern, NEW n \in Resources, KernelRename(r, n)
      PROVE  Develops
  BY <1>5, RenameDevelops
<1>6. ASSUME NEW r \in DOMAIN kern, KernelHelper(r)
      PROVE  Develops
  BY <1>6, HelperDevelops
<1>7. ASSUME NEW r \in DOMAIN kern,
             \/ \E o \in Objects \ (PeerDevices \union {resource}) :
                  \E is \in [{o[1], "peer-device"} -> UNION {Infos[k] : k \in {o[1], "peer-device"}}] :
                    /\ \A k \in DOMAIN is : is[k] \in Infos[k]
                    /\ KernelCreate(r, o, is)
             \/ \E S \in kSubset(1, DOMAIN kern[r]) \union kSubset(MaxBundle, DOMAIN kern[r]) :
                  \E new \in [S -> UNION {Infos[o[1]] : o \in S}] :
                    /\ \A o \in S : new[o] \in Infos[o[1]]
                    /\ KernelChange(r, S, new)
             \/ \E o \in DOMAIN kern[r] \ PeerDevices : KernelDestroy(r, o)
             \/ \E n \in Resources : KernelRename(r, n)
             \/ KernelHelper(r)
      PROVE  Develops
  BY ONLY <1>2, <1>3, <1>4, <1>5, <1>6, <1>7, Zenon
<1> QED
  BY ONLY KernelNext, <1>1, <1>7, Zenon DEF KernelNext

-----------------------------------------------------------------------------
(* Every step keeps the copy in step *)

\* only the versions up to s matter
LEMMA AgreesSame ==
  ASSUME NEW c, NEW H, NEW L, NEW k \in Nat, NEW s \in Nat, k <= s, \A i \in 0 .. s : L[i] = H[i],
         Agrees(c, H, k, s)
  PROVE  Agrees(c, L, k, s)
<1>1. \A i \in k .. s : i \in 0 .. s
  OBVIOUS
<1>2. k \in k .. s /\ \A i \in k .. s : L[i] = H[i]
  BY <1>1
<1>3. ASSUME NEW r \in DOMAIN c, NEW o \in Objects
      PROVE  AgreesAt(c[r], L, k, s, r, o)
  <2> DEFINE t == c[r]
  <2>1. AgreesAt(t, H, k, s, r, o)
    BY DEF Agrees
  <2> HIDE DEF t
  <2>2. \A i \in k .. s : Has(L[i], r, o) = Has(H[i], r, o) /\ L[i][r] = H[i][r]
    BY <1>2 DEF Has
  <2>3. \A i \in k .. s : Same(L, k, s, r, o, i) => Same(H, k, s, r, o, i)
    BY <2>2 DEF Same
  <2>4. AgreesAt(t, L, k, s, r, o)
    BY <1>2, <2>1, <2>2, <2>3 DEF AgreesAt
  <2> QED
    BY <2>4 DEF t
<1>4. Lists(c, L, k, s)
  <2>1. PICK d \in k .. s : \A r \in DOMAIN H[d] \ DOMAIN c :
          (\E i \in 0 .. k : r \in DOMAIN H[i]) /\ (\E i \in k .. d : r \notin DOMAIN H[i])
    BY DEF Agrees, Lists
  <2>2. (\A i \in 0 .. k : L[i] = H[i]) /\ (\A i \in k .. d : L[i] = H[i]) /\ L[d] = H[d]
    OBVIOUS
  <2> QED
    BY <2>1, <2>2 DEF Lists
<1> QED
  BY <1>3, <1>4 DEF Agrees

\* A step that leaves the kernel and what is applied alone.
LEMMA FollowedKept ==
  ASSUME NEW H, NEW B, NEW k, Followed(H, B, k), Waiting' \subseteq Waiting,
         UNCHANGED <<kern, sent, hist, applied>>, snap' \in B,
         Receiving(H)', CopyOf(H, k)', PendingOnly(B, k)', Settled(k)'
  PROVE  Followed(H, B, k)'
<1>1. History(H, B)'
  BY DEF Followed, History
<1>2. Told(H, B)'
  BY DEF Followed, Told, FreshName
<1> QED
  BY <1>1, <1>2 DEF Followed

\* A step that leaves the copy and the dump alone, too.
LEMMA FollowedCalm ==
  ASSUME NEW H, NEW B, NEW k, Followed(H, B, k), Waiting' \subseteq Waiting,
         UNCHANGED <<kern, sent, hist, applied, snap, initial_state, receive_update, update_resources,
                     all_resources, dump, expect_reply>>,
         pc' = "send" <=> pc = "send", pc' # "stdin",
         pc' = "apply" => ~ initial_state /\ ~ receive_update
  PROVE  Followed(H, B, k)'
<1>1. Receiving(H)'
  BY DEF Followed, Receiving
<1>2. Merged' = Merged
  BY DEF Merged
<1>3. CopyOf(H, k)'
  BY <1>2 DEF Followed, CopyOf
<1>4. PendingOnly(B, k)'
  BY DEF Followed, PendingOnly, Dumping
<1>5. Settled(k)'
  BY DEF Followed, Settled
<1>6. snap' \in B
  BY DEF Followed, History
<1> QED
  BY <1>1, <1>3, <1>4, <1>5, <1>6, FollowedKept

\* What nothing is missing means after a step that takes nothing away.
LEMMA ArrivingKept ==
  ASSUME Arriving, UNCHANGED <<sent, applied>>, Waiting \subseteq Waiting', overrun => overrun',
         pc' = "recv" /\ ~ initial_state' /\ ~ receive_update' => Due' = {}
  PROVE  Arriving'
  BY DEF Arriving

\* The initial state satisfies the invariant.
LEMMA CopyInit == InOrderStart /\ Init => CopyInv
<1> SUFFICES ASSUME InOrderStart, Init PROVE CopyInv
  OBVIOUS
<1> DEFINE E == [i \in {0} |-> kern]
<1>1. PICK H : H = E
  OBVIOUS
<1>2. H[0] = kern /\ 0 .. 0 = {0} /\ 1 .. 0 = {}
  BY <1>1
<1>3. /\ sent = 0 /\ snap = 0 /\ applied = {} /\ initial_state /\ ~ receive_update /\ pc = "send"
      /\ all_resources = <<>> /\ update_resources = <<>> /\ DOMAIN update_resources = {}
      /\ kern \in InitialKernels /\ DOMAIN hist = {0} /\ hist[0] = kern
  BY DEF Init
<1>4. Waiting = {}
  BY DEF Init, Waiting, Stored
<1>5. Trees(kern) /\ Hosted(kern)
  BY <1>3, ObjectAssumption, KernelAssumption DEF Trees, Hosted
<1>6. History(H, {0})
  BY <1>2, <1>3, <1>5 DEF History
<1>7. Told(H, {0})
  BY <1>4 DEF Told
<1>8. Receiving(H) /\ CopyOf(H, 0) /\ PendingOnly({0}, 0) /\ Settled(0)
  BY <1>3 DEF Receiving, CopyOf, PendingOnly, Settled
<1>9. Followed(H, {0}, 0)
  BY <1>2, <1>3, <1>6, <1>7, <1>8 DEF Followed
<1>10. Arriving
  BY <1>2, <1>3 DEF Arriving
<1> QED
  BY <1>9, <1>10 DEF CopyInv

\* What a step of the kernel adds to the history.
Extended(H, B, G, n, L, C) ==
  /\ \A i \in 0 .. sent : L[i] = H[i]
  /\ \A i \in 1 .. n : L[sent + i] = G[i]
  /\ C = B \union {sent + n}

\* The history goes on with the states of the new bundle.
LEMMA NotifyHistory ==
  ASSUME NEW H, NEW B, History(H, B), sent \in Nat,
         NEW r, NEW act, NEW objs, NEW infos, NEW newKern, NEW G, NEW L, NEW C,
         Notify(r, act, objs, infos, newKern), Hosted(newKern),
         Unfolds(G, r, act, objs, infos, newKern), Extended(H, B, G, Len(objs), L, C)
  PROVE  History(L, C)'
<1> DEFINE n == Len(objs)
<1>1. /\ n \in 1 .. MaxMessages - sent /\ sent' = sent + n /\ kern' = newKern /\ snap' = snap
      /\ hist' = [i \in 0 .. sent + n |-> IF i <= sent THEN hist[i]
                                          ELSE IF i = sent + n THEN newKern ELSE kern]
  BY DEF Notify
<1>2. n \in Nat /\ n >= 1
  BY <1>1, SeqAssumption
<1>3. /\ B \subseteq 0 .. sent /\ snap \in B /\ sent \in B /\ H[sent] = kern
      /\ (\A i \in 0 .. sent : Trees(H[i]) /\ DOMAIN hist[i] = DOMAIN H[i])
      /\ (\A i \in B : hist[i] = H[i])
      /\ \A i \in 1 .. sent : i \notin B => hist[i] = hist[i - 1]
  BY DEF History
<1>4. /\ \A i \in 0 .. sent : L[i] = H[i]
      /\ \A i \in 1 .. n : L[sent + i] = G[i]
      /\ C = B \union {sent + n}
  BY DEF Extended
<1>5. /\ G[0] = kern /\ G[n] = newKern /\ (\A i \in 0 .. n : Trees(G[i]))
      /\ \A i \in 0 .. n - 1 : DOMAIN G[i] = DOMAIN kern
  BY DEF Unfolds
<1> HIDE DEF n
<1>6. /\ DOMAIN hist' = 0 .. sent + n /\ \A i \in 0 .. sent : hist'[i] = hist[i]
      /\ \A i \in sent + 1 .. sent + n - 1 : hist'[i] = kern
      /\ hist'[sent + n] = newKern
  BY <1>1, <1>2
<1>7. C \subseteq 0 .. sent' /\ snap' \in C /\ sent' \in C
  BY <1>1, <1>2, <1>3, <1>4
<1>8. L[sent'] = kern' /\ Hosted(kern')
  <2>1. n \in 1 .. n
    BY <1>2
  <2> QED
    BY <1>1, <1>4, <1>5, <2>1
<1>9. ASSUME NEW i \in 0 .. sent'
      PROVE  \/ i \in 0 .. sent
             \/ /\ i \in sent + 1 .. sent + n - 1 /\ i - sent \in 0 .. n - 1 /\ i - sent \in 0 .. n
                /\ L[i] = G[i - sent]
             \/ i = sent + n
  <2>1. CASE i <= sent
    BY <2>1
  <2>2. CASE i > sent /\ i < sent + n
    <3>1. i - sent \in 1 .. n /\ i - sent \in 0 .. n - 1 /\ sent + (i - sent) = i
      BY <1>1, <1>2, <2>2
    <3>2. L[i] = G[i - sent]
      BY <1>4, <3>1
    <3> QED
      BY <1>2, <2>2, <3>1, <3>2
  <2> QED
    BY <1>1, <1>2, <2>1, <2>2
<1>10. ASSUME NEW i \in 0 .. sent'
       PROVE  Trees(L[i]) /\ DOMAIN hist'[i] = DOMAIN L[i]
  <2>1. CASE i \in 0 .. sent
    BY <1>3, <1>4, <1>6, <2>1
  <2>2. CASE i \in sent + 1 .. sent + n - 1 /\ i - sent \in 0 .. n - 1 /\ i - sent \in 0 .. n /\ L[i] = G[i - sent]
    BY <1>5, <1>6, <2>2
  <2>3. CASE i = sent + n
    <3>1. n \in 0 .. n
      BY <1>2
    <3> QED
      BY <1>1, <1>5, <1>6, <1>8, <2>3, <3>1
  <2> QED
    BY <1>9, <2>1, <2>2, <2>3
<1>11. ASSUME NEW i \in C
       PROVE  hist'[i] = L[i]
  <2>1. CASE i \in B
    BY <1>3, <1>4, <1>6, <2>1
  <2>2. CASE i = sent + n
    BY <1>1, <1>6, <1>8, <2>2
  <2> QED
    BY <1>4, <2>1, <2>2
<1>12. ASSUME NEW i \in 1 .. sent', i \notin C
       PROVE  hist'[i] = hist'[i - 1]
  <2>1. CASE i \in 1 .. sent
    <3>1. i \in 0 .. sent /\ i - 1 \in 0 .. sent
      BY <2>1
    <3>2. i \notin B
      BY <1>4, <1>12
    <3> QED
      BY <1>3, <1>6, <2>1, <3>1, <3>2
  <2>2. CASE i > sent
    <3>1. i # sent + n
      BY <1>4, <1>12
    <3>2. i \in sent + 1 .. sent + n - 1
      BY <1>1, <1>2, <2>2, <3>1
    <3>3. CASE i = sent + 1
      <4>1. hist'[i - 1] = hist[sent] /\ hist[sent] = kern
        BY <1>3, <1>6, <3>3
      <4> QED
        BY <1>6, <3>2, <4>1
    <3>4. CASE i # sent + 1
      <4>1. i - 1 \in sent + 1 .. sent + n - 1
        BY <1>2, <3>2, <3>4
      <4> QED
        BY <1>6, <3>2, <4>1
    <3> QED
      BY <3>3, <3>4
  <2> QED
    BY <1>1, <2>1, <2>2
<1> QED
  BY <1>1, <1>6, <1>7, <1>8, <1>10, <1>11, <1>12 DEF History

\* The name a rename has given up was freed.
LEMMA GivenUp ==
  ASSUME NEW H, NEW B, History(H, B), Told(H, B), NEW m \in Waiting, m.act = "rename", m.idx \in 1 .. sent,
         sent \in Nat
  PROVE  m.res \in RenamedAway
<1> DEFINE j == m.idx
           K == H[j - 1]
           L == H[j]
<1>1. j \in 1 .. sent /\ j \in 0 .. sent /\ j - 1 \in 0 .. sent
  OBVIOUS
<1>2. Step(m, K, L)
  BY DEF Told
<1>3. DOMAIN hist[j] = DOMAIN L /\ DOMAIN hist[j - 1] = DOMAIN K
  BY <1>1 DEF History
<1> HIDE DEF j, K, L
<1>4. /\ m.res \in DOMAIN K /\ m.info \notin DOMAIN K
      /\ DOMAIN L = (DOMAIN K \ {m.res}) \union {m.info}
  BY <1>2 DEF Step
<1>5. ~ (DOMAIN hist[j] \subseteq DOMAIN hist[j - 1]) /\ m.res \in DOMAIN hist[j - 1] \ DOMAIN hist[j]
  BY <1>3, <1>4
<1> QED
  BY <1>1, <1>5 DEF RenamedAway

\* The notifications of a step of the kernel tell of the states in between.
LEMMA NotifyTold ==
  ASSUME NEW H, NEW B, History(H, B), Told(H, B), sent \in Nat, \A m \in Waiting : m.idx \in 1 .. sent,
         NEW r, NEW act, NEW objs, NEW infos, NEW newKern, NEW G, NEW L, NEW C,
         Notify(r, act, objs, infos, newKern),
         Unfolds(G, r, act, objs, infos, newKern), Extended(H, B, G, Len(objs), L, C)
  PROVE  Told(L, C)'
<1> DEFINE n == Len(objs)
           M(i) == Msg(sent + i, act, r, objs[i], infos[objs[i]], i < n)
<1>1. /\ n \in 1 .. MaxMessages - sent /\ sent' = sent + n
      /\ Waiting' \subseteq Waiting \union {M(i) : i \in 1 .. n}
  <2>1. Stored' = Stored
    BY DEF Notify, order_vars, Stored
  <2> QED
    BY <2>1 DEF Notify, Waiting
<1>2. n \in Nat /\ n >= 1
  BY <1>1, SeqAssumption
<1>3. /\ B \subseteq 0 .. sent /\ sent \in B /\ H[sent] = kern /\ DOMAIN hist = 0 .. sent
      /\ \A i \in 0 .. sent : DOMAIN hist[i] = DOMAIN H[i]
  BY DEF History
<1>4. /\ \A i \in 0 .. sent : L[i] = H[i]
      /\ \A i \in 1 .. n : L[sent + i] = G[i]
      /\ C = B \union {sent + n}
  BY DEF Extended
<1>5. /\ G[0] = kern /\ G[n] = newKern
      /\ \A i \in 0 .. n - 1 : DOMAIN G[i] = DOMAIN kern
      /\ \A i \in 1 .. n : Step(M(i), G[i - 1], G[i])
      /\ act = "rename" => /\ n = 1 /\ infos[objs[1]] \in Resources
                           /\ \A i \in DOMAIN hist : infos[objs[1]] \notin DOMAIN hist[i]
      /\ act = "destroy" => \A i \in 1 .. n - 1 : objs[i] # resource
      /\ \A x \in DOMAIN newKern \ DOMAIN kern : x \notin RenamedAway
  BY DEF Unfolds
<1>6. \A i \in 1 .. n : /\ M(i).idx = sent + i /\ M(i).act = act /\ M(i).res = r /\ M(i).obj = objs[i]
                        /\ M(i).info = infos[objs[i]] /\ M(i).cont = (i < n)
  BY DEF Msg
<1> HIDE DEF n, M
<1>7. ASSUME NEW m \in Waiting
      PROVE  /\ m.cont <=> m.idx \notin C
             /\ Step(m, L[m.idx - 1], L[m.idx])
             /\ m.act = "rename" => m.idx - 1 \in C /\ m.info \in Resources /\ FreshIn(L, m.idx - 1, sent', m)
             /\ m.act = "destroy" /\ m.obj = resource => ~ m.cont
  <2> DEFINE j == m.idx
  <2>1. j \in 1 .. sent /\ j \in 0 .. sent /\ j - 1 \in 0 .. sent
    OBVIOUS
  <2>2. /\ m.cont <=> j \notin B
        /\ Step(m, H[j - 1], H[j])
        /\ m.act = "rename" => j - 1 \in B /\ m.info \in Resources /\ FreshIn(H, j - 1, sent, m)
        /\ m.act = "destroy" /\ m.obj = resource => ~ m.cont
    BY DEF Told, FreshName
  <2>3. m.act = "rename" => m.res \in RenamedAway
    BY <2>1, GivenUp
  <2> HIDE DEF j
  <2>4. m.cont <=> j \notin C
    BY <1>2, <1>4, <2>1, <2>2
  <2>5. Step(m, L[j - 1], L[j])
    BY <1>4, <2>1, <2>2
  <2>6. ASSUME m.act = "rename"
        PROVE  FreshIn(L, j - 1, sent', m)
    <3>1. (\A i \in 0 .. j - 1 : m.info \notin DOMAIN H[i]) /\ \A i \in j .. sent : m.res \notin DOMAIN H[i]
      BY <2>1, <2>2, <2>6 DEF FreshIn
    <3>2. (\A i \in 0 .. j - 1 : i \in 0 .. sent) /\ \A i \in j .. sent : i \in 0 .. sent
      BY <2>1
    <3>3. m.res \notin DOMAIN kern
      BY <1>3, <2>1, <3>1
    <3>4. m.res \notin DOMAIN newKern
      BY <1>5, <2>3, <2>6, <3>3
    <3>5. ASSUME NEW i \in j .. sent'
          PROVE  m.res \notin DOMAIN L[i]
      <4>1. CASE i <= sent
        <5>1. i \in j .. sent /\ i \in 0 .. sent
          BY <2>1, <4>1
        <5> QED
          BY <1>4, <3>1, <5>1
      <4>2. CASE i > sent
        <5>1. i - sent \in 1 .. n /\ sent + (i - sent) = i
          BY <1>1, <1>2, <2>1, <4>2
        <5>2. L[i] = G[i - sent]
          BY <1>4, <5>1
        <5>3. CASE i - sent = n
          BY <1>5, <3>4, <5>2, <5>3
        <5>4. CASE i - sent # n
          <6>1. i - sent \in 0 .. n - 1
            BY <1>2, <5>1, <5>4
          <6> QED
            BY <1>5, <3>3, <5>2, <6>1
        <5> QED
          BY <5>3, <5>4
      <4> QED
        BY <2>1, <4>1, <4>2
    <3>6. (j - 1) + 1 = j
      BY <2>1
    <3> QED
      BY <1>4, <3>1, <3>2, <3>5, <3>6 DEF FreshIn
  <2> QED
    BY <1>4, <2>2, <2>4, <2>5, <2>6 DEF j
<1>8. ASSUME NEW i \in 1 .. n
      PROVE  /\ M(i).cont <=> M(i).idx \notin C
             /\ Step(M(i), L[M(i).idx - 1], L[M(i).idx])
             /\ M(i).act = "rename" => /\ M(i).idx - 1 \in C /\ M(i).info \in Resources
                                       /\ FreshIn(L, M(i).idx - 1, sent', M(i))
             /\ M(i).act = "destroy" /\ M(i).obj = resource => ~ M(i).cont
  <2> DEFINE m == M(i)
  <2>1. m.idx = sent + i /\ m.act = act /\ m.res = r /\ m.obj = objs[i] /\ m.info = infos[objs[i]] /\ m.cont = (i < n)
    BY <1>6
  <2>2. Step(m, G[i - 1], G[i])
    BY <1>5
  <2> HIDE DEF m
  <2>3. sent + i \notin B /\ (sent + i \in C <=> i = n)
    BY <1>2, <1>3, <1>4
  <2>4. i < n <=> i # n
    BY <1>2
  <2>5. L[sent + i] = G[i] /\ L[(sent + i) - 1] = G[i - 1]
    <3>1. CASE i = 1
      <4>1. (sent + i) - 1 = sent /\ i - 1 = 0 /\ sent \in 0 .. sent
        BY <3>1
      <4> QED
        BY <1>3, <1>4, <1>5, <4>1
    <3>2. CASE i # 1
      <4>1. i - 1 \in 1 .. n /\ sent + (i - 1) = (sent + i) - 1
        BY <1>2, <3>2
      <4> QED
        BY <1>4, <4>1
    <3> QED
      BY <3>1, <3>2
  <2>6. ASSUME act = "rename"
        PROVE  m.idx - 1 \in C /\ m.info \in Resources /\ FreshIn(L, m.idx - 1, sent', m)
    <3>1. i = 1 /\ n = 1
      BY <1>5, <2>6
    <3>2. m.idx - 1 = sent /\ sent' = sent + 1 /\ m.idx = sent + 1
      BY <1>1, <2>1, <3>1
    <3>3. \A x \in 0 .. sent : m.info \notin DOMAIN L[x]
      BY <1>3, <1>4, <1>5, <2>1, <2>6, <3>1
    <3>4. m.res \notin DOMAIN G[1]
      BY <2>1, <2>2, <2>6, <3>1 DEF Step
    <3>5. \A x \in sent + 1 .. sent' : x = sent + 1
      BY <3>2
    <3>6. \A x \in sent + 1 .. sent' : m.res \notin DOMAIN L[x]
      BY <2>5, <3>1, <3>4, <3>5
    <3> QED
      BY <1>3, <1>4, <1>5, <2>1, <2>6, <3>1, <3>2, <3>3, <3>6 DEF FreshIn
  <2>7. act = "destroy" /\ objs[i] = resource => ~ (i < n)
    <3>1. i < n => i \in 1 .. n - 1
      BY <1>2
    <3> QED
      BY <1>5, <3>1
  <2>8. /\ m.cont <=> m.idx \notin C
        /\ Step(m, L[m.idx - 1], L[m.idx])
        /\ m.act = "rename" => m.idx - 1 \in C /\ m.info \in Resources /\ FreshIn(L, m.idx - 1, sent', m)
        /\ m.act = "destroy" /\ m.obj = resource => ~ m.cont
    BY <2>1, <2>2, <2>3, <2>4, <2>5, <2>6, <2>7
  <2> QED
    BY <2>8 DEF m
<1> QED
  BY <1>1, <1>7, <1>8 DEF Told, FreshName

\* A step of the kernel.
LEMMA NotifyFollowed ==
  ASSUME OrderInv, ShownInv, Arriving, "now" \notin opts, NEW H, NEW B, NEW k, Followed(H, B, k),
         NEW r, NEW act, NEW objs, NEW infos, NEW newKern, NEW G,
         Notify(r, act, objs, infos, newKern), Hosted(newKern),
         Unfolds(G, r, act, objs, infos, newKern)
  PROVE  Arriving' /\ \E L, C : Followed(L, C, k)'
<1> DEFINE n == Len(objs)
           E == [i \in 0 .. sent + n |-> IF i <= sent THEN H[i] ELSE G[i - sent]]
<1>1. /\ n \in 1 .. MaxMessages - sent /\ sent' = sent + n
      /\ \A i \in 0 .. sent + n : hist'[i] = IF i <= sent THEN hist[i] ELSE IF i = sent + n THEN newKern ELSE kern
      /\ UNCHANGED <<dump, overrun, pc, expect_reply, initial_state, receive_update, next_seq, stored_messages,
                     applied, update_resources, all_resources, snap>>
  BY DEF Notify, socket_vars, cmd_vars, order_vars, data_vars
<1>2. n \in Nat /\ n >= 1 /\ sent \in Nat
  BY <1>1, SeqAssumption DEF OrderInv, Numbered
<1>3. PICK L : L = E
  OBVIOUS
<1>4. PICK C : C = B \union {sent + n}
  OBVIOUS
<1>5. Extended(H, B, G, n, L, C)
  <2> HIDE DEF n
  <2>1. \A i \in 0 .. sent : i \in 0 .. sent + n /\ i <= sent
    BY <1>2
  <2>2. \A i \in 1 .. n : sent + i \in 0 .. sent + n /\ ~ (sent + i <= sent) /\ (sent + i) - sent = i
    BY <1>2
  <2>3. \A i \in 0 .. sent : L[i] = H[i]
    BY <1>3, <2>1
  <2>4. \A i \in 1 .. n : L[sent + i] = G[i]
    BY <1>3, <2>2
  <2> QED
    BY <1>4, <2>3, <2>4 DEF Extended
<1>6. \A m \in Waiting : m.idx \in 1 .. sent
  BY DEF OrderInv, Numbered, Waiting
<1>7. /\ k \in 0 .. sent /\ applied = 1 .. k
      /\ History(H, B) /\ Told(H, B) /\ Receiving(H) /\ CopyOf(H, k) /\ PendingOnly(B, k) /\ Settled(k)
  BY DEF Followed
<1>8. History(L, C)'
  BY <1>2, <1>5, <1>7, NotifyHistory
<1>9. Told(L, C)'
  BY <1>2, <1>5, <1>6, <1>7, NotifyTold
<1>10. Waiting \subseteq Waiting' /\ \A i \in 1 .. n : \E m \in Waiting' : m.idx = sent + i
  <2>1. Stored' = Stored
    BY <1>1 DEF Stored
  <2>2. sock' = sock \union {Msg(sent + i, act, r, objs[i], infos[objs[i]], i < n) : i \in 1 .. n}
    BY DEF Notify
  <2>3. \A i \in 1 .. n : Msg(sent + i, act, r, objs[i], infos[objs[i]], i < n).idx = sent + i
    BY DEF Msg
  <2> HIDE DEF n
  <2> QED
    BY <2>1, <2>2, <2>3 DEF Waiting
<1>11. snap \in 0 .. sent /\ \A i \in 0 .. sent : L[i] = H[i]
  BY <1>5, <1>7 DEF History, Extended
<1> HIDE DEF n, E
<1>12. Receiving(L)'
  BY <1>1, <1>7, <1>11 DEF Receiving
<1>13. CopyOf(L, k)'
  <2> DEFINE s == IF k <= snap THEN snap ELSE k
  <2>1. Merged' = Merged /\ s' = s
    BY <1>1 DEF Merged
  <2>2. s \in Nat /\ k <= s /\ s <= sent /\ k \in Nat
    BY <1>2, <1>7, <1>11
  <2>3. \A i \in 0 .. s : L[i] = H[i]
    BY <1>2, <1>11, <2>2
  <2>4. Agrees(Merged, H, k, s) => Agrees(Merged, L, k, s)
    BY <2>2, <2>3, AgreesSame
  <2>5. ~ initial_state => Agrees(Merged, L, k, s)
    BY <1>7, <2>4 DEF CopyOf
  <2>6. H[snap] = L[snap]
    BY <1>11
  <2> QED
    BY <1>1, <1>7, <2>1, <2>5, <2>6 DEF CopyOf
<1>14. PendingOnly(C, k)'
  <2>1. k \notin B => k \notin C
    BY <1>2, <1>4, <1>7
  <2>2. Dumping' = Dumping
    BY <1>1 DEF Dumping
  <2> QED
    BY <1>1, <1>7, <2>1, <2>2 DEF PendingOnly
<1>15. Settled(k)'
  <2>1. hist'[k] = hist[k]
    BY <1>1, <1>2, <1>7
  <2> QED
    BY <1>1, <1>7, <2>1 DEF Settled
<1>16. k \in 0 .. sent' /\ applied' = 1 .. k
  BY <1>1, <1>2, <1>7
<1>17. Followed(L, C, k)'
  BY <1>8, <1>9, <1>12, <1>13, <1>14, <1>15, <1>16 DEF Followed
<1>18. Arriving'
  <2>1. Due' = Due
    BY <1>1 DEF Due
  <2>2. ASSUME ~ overrun, NEW i \in 1 .. sent'
        PROVE  i \in applied' \/ \E m \in Waiting' : m.idx = i
    <3>1. CASE i <= sent
      <4>1. i \in 1 .. sent
        BY <1>2, <3>1
      <4> QED
        BY <1>1, <1>10, <2>2, <4>1 DEF Arriving
    <3>2. CASE i > sent
      <4>1. i - sent \in 1 .. n /\ sent + (i - sent) = i
        BY <1>1, <1>2, <3>2
      <4>2. \E m \in Waiting' : m.idx = sent + (i - sent)
        BY <1>10, <4>1
      <4> QED
        BY <4>1, <4>2
    <3> QED
      BY <1>2, <3>1, <3>2
  <2> QED
    BY <1>1, <2>1, <2>2 DEF Arriving
<1> QED
  BY <1>17, <1>18

\* What is known of the numbers.
LEMMA Numbers ==
  ASSUME OrderInv, NEW H, NEW B, History(H, B)
  PROVE  sent \in Nat /\ snap \in B /\ snap \in 0 .. sent /\ \A i \in 0 .. sent : Trees(H[i])
<1>1. sent \in Nat
  BY SeqAssumption DEF OrderInv, Numbered
<1>2. snap \in B /\ snap \in 0 .. sent /\ (\A i \in 0 .. sent : Trees(H[i]))
  BY DEF History
<1> QED
  BY <1>1, <1>2

\* A dump is requested.
LEMMA SendFollowed ==
  ASSUME InOrderStart, OrderInv, ShownInv, NEW H, NEW B, NEW k, Followed(H, B, k), generic_send
  PROVE  Followed(H, B, k)'
<1>1. /\ pc = "send" /\ dump' = Dump /\ snap' = sent /\ expect_reply' = TRUE /\ pc' = "recv"
      /\ UNCHANGED <<kern, sent, hist, sock, stored_messages, applied, initial_state, receive_update,
                     update_resources, all_resources>>
  BY DEF generic_send, kernel_vars, order_vars, data_vars
<1>2. /\ k \in 0 .. sent /\ applied = 1 .. k
      /\ History(H, B) /\ Told(H, B) /\ Receiving(H) /\ CopyOf(H, k) /\ PendingOnly(B, k) /\ Settled(k)
  BY DEF Followed
<1>3. /\ sent \in Nat /\ sent \in B /\ H[sent] = kern /\ snap \in 0 .. sent
      /\ initial_state \/ receive_update
  <2>1. sent \in Nat /\ snap \in 0 .. sent
    BY <1>2, Numbers
  <2>2. sent \in B /\ H[sent] = kern
    BY <1>2 DEF History
  <2>3. initial_state \/ receive_update
    BY <1>1, <1>2 DEF Receiving
  <2> QED
    BY <2>1, <2>2, <2>3
<1>4. Trees(kern) /\ Filter = "all" /\ ~ Dumping
  BY <1>1 DEF ShownInv, TreesInv, Trees, InOrderStart, DumpInv
<1>5. Waiting' = Waiting /\ Merged' = Merged
  BY <1>1 DEF Waiting, Stored, Merged
<1>6. DOMAIN <<>> = {}
  OBVIOUS
<1>7. Ending(Dump) /\ Truthful(Dump, kern)
  BY <1>4, <1>6, DumpTells
<1>8. Receiving(H)'
  BY <1>1, <1>3, <1>7 DEF Receiving
<1>9. ASSUME initial_state
      PROVE  Partial(Merged, Dump, kern)
  <2>1. all_resources = <<>> /\ update_resources = <<>>
    BY <1>1, <1>2, <1>9 DEF CopyOf
  <2>2. DOMAIN Merged = {}
    BY <1>6, <2>1 DEF Merged, MergeOf
  <2> QED
    BY <1>4, <2>2, DumpTells
<1>10. ASSUME ~ initial_state
       PROVE  Agrees(Merged, H, k, IF k <= sent THEN sent ELSE k)
  <2> DEFINE s == IF k <= snap THEN snap ELSE k
  <2>1. Agrees(Merged, H, k, s)
    BY <1>2, <1>10 DEF CopyOf
  <2>2. k \in Nat /\ s \in Nat /\ s <= sent /\ k <= sent
    BY <1>2, <1>3
  <2> HIDE DEF s
  <2>3. Agrees(Merged, H, k, sent)
    BY <1>3, <2>1, <2>2, AgreesLater
  <2> QED
    BY <2>2, <2>3
<1>11. k <= sent
  BY <1>2, <1>3
<1>12. CopyOf(H, k)'
  BY <1>1, <1>2, <1>3, <1>5, <1>9, <1>10, <1>11 DEF CopyOf
<1>13. PendingOnly(B, k)'
  BY <1>1, <1>2, <1>4 DEF PendingOnly
<1>14. Settled(k)'
  BY <1>1, <1>3 DEF Settled
<1> QED
  BY <1>1, <1>3, <1>5, <1>8, <1>12, <1>13, <1>14, FollowedKept

\* what the copy holds when nothing is pending
LEMMA MergedSame ==
  ASSUME NEW K, DOMAIN update_resources = {}, SameObjects(Merged, K)
  PROVE  SameObjects(all_resources, K)
<1>1. DOMAIN Merged = DOMAIN all_resources /\ \A r \in DOMAIN all_resources : Merged[r] = all_resources[r]
  BY DEF Merged, MergeOf
<1> QED
  BY <1>1 DEF SameObjects

\* The copy with the pending versions is well formed.
LEMMA MergedTrees ==
  ASSUME TreesInv, EntriesOK
  PROVE  \A r \in DOMAIN Merged : IsTree(Merged[r])
<1>1. /\ DOMAIN Merged = DOMAIN all_resources \union DOMAIN update_resources
      /\ \A x \in DOMAIN update_resources : Merged[x] = update_resources[x].tree
      /\ \A x \in DOMAIN all_resources : x \notin DOMAIN update_resources => Merged[x] = all_resources[x]
  BY DEF Merged, MergeOf
<1> QED
  BY <1>1 DEF TreesInv, EntriesOK, IsEntry

\* Nothing is pending and the copy agrees with the version k: it is that version.
LEMMA SettledNow ==
  ASSUME TreesInv, EntriesOK, NEW H, NEW B, NEW k \in Nat, History(H, B), k \in B,
         DOMAIN update_resources = {}, Agrees(Merged, H, k, k)
  PROVE  SameObjects(all_resources, hist[k])
<1>1. hist[k] = H[k] /\ Trees(H[k])
  BY DEF History
<1>2. SameObjects(Merged, H[k])
  BY <1>1, MergedTrees, AgreesNow
<1> QED
  BY <1>1, <1>2, MergedSame

\* The end of a dump.
LEMMA DoneFollowed ==
  ASSUME InOrderStart, OrderInv, ShownInv, NEW H, NEW B, NEW k, Followed(H, B, k), recv_dump,
         Head(dump).act = "done"
  PROVE  Followed(H, B, k)'
<1> DEFINE h == Head(dump)
<1>1. /\ pc = "recv" /\ dump # <<>> /\ dump' = Tail(dump)
      /\ UNCHANGED <<kern, sent, hist, sock, expect_reply, snap>>
      /\ print_event(h)
  BY DEF recv_dump, Receive, PassesFilter, InOrderStart
<1>2. /\ initial_state' = FALSE /\ receive_update' = FALSE /\ pc' = "apply"
      /\ UNCHANGED <<stored_messages, applied, update_resources, all_resources>>
  BY <1>1 DEF print_event, DumpDone, ApplyExists, StoreNotification, data_vars
<1>3. /\ k \in 0 .. sent /\ applied = 1 .. k
      /\ History(H, B) /\ Told(H, B) /\ Receiving(H) /\ CopyOf(H, k) /\ PendingOnly(B, k) /\ Settled(k)
  BY DEF Followed
<1>4. Waiting' = Waiting /\ Merged' = Merged
  BY <1>1, <1>2 DEF Waiting, Stored, Merged
<1>5. sent \in Nat /\ snap \in B /\ snap \in 0 .. sent
  BY <1>3, Numbers
<1>6. TreesInv /\ EntriesOK /\ DumpShape(dump) /\ ~ Dumping
  BY <1>1 DEF ShownInv, PendingInv, EntriesOK, DumpInv, Dumping
<1>7. Receiving(H)'
  BY <1>2 DEF Receiving
<1> DEFINE s == IF k <= snap THEN snap ELSE k
<1>8. Agrees(Merged, H, k, s)
  <2>1. CASE ~ initial_state
    BY <1>3, <2>1 DEF CopyOf
  <2>2. CASE initial_state
    <3>1. k = 0 /\ Partial(Merged, dump, H[snap]) /\ Ending(dump) /\ Truthful(dump, H[snap])
      BY <1>1, <1>3, <2>2 DEF CopyOf, Receiving
    <3>2. PICK S : dump \in Seq(S)
      BY <1>6 DEF DumpShape
    <3>3. \A i \in DOMAIN dump : dump[i].act # "exists"
      <4>1. \A i \in DOMAIN Tail(dump) : i = 1
        BY <3>1, <3>2, EndingTail
      <4>2. /\ Head(dump) = dump[1] /\ 1 \in DOMAIN dump
            /\ \A i \in DOMAIN dump : i = 1 \/ (i - 1 \in DOMAIN Tail(dump) /\ i = (i - 1) + 1)
        BY <1>1, <3>2, TailOf
      <4>3. \A i \in DOMAIN dump : i = 1 \/ i = 1 + 1
        BY <4>1, <4>2
      <4>4. 1 + 1 \in DOMAIN dump => dump[1 + 1].act # "exists"
        BY <1>6, <4>2 DEF DumpShape
      <4> QED
        BY <4>2, <4>3, <4>4
    <3>4. Trees(H[snap])
      BY <1>3, <1>5 DEF History
    <3>5. snap \in Nat /\ 0 <= snap
      BY <1>5
    <3>6. Agrees(Merged, H, 0, snap)
      BY <1>6, <3>1, <3>3, <3>4, <3>5, MergedTrees, AgreesDump
    <3> QED
      BY <3>1, <3>5, <3>6
  <2> QED
    BY <2>1, <2>2
<1>9. CopyOf(H, k)'
  BY <1>1, <1>2, <1>4, <1>8 DEF CopyOf
<1>10. PendingOnly(B, k)'
  BY <1>2, <1>3, <1>6 DEF PendingOnly
<1>11. Settled(k)'
  <2> SUFFICES ASSUME k >= snap PROVE SameObjects(all_resources, hist[k])
    BY <1>1, <1>2 DEF Settled
  <2>1. CASE ~ initial_state /\ ~ receive_update
    BY <1>3, <2>1 DEF Settled
  <2>2. CASE initial_state \/ receive_update
    <3>1. k <= snap
      BY <1>1, <1>3, <1>5, <2>2 DEF CopyOf
    <3>2. k = snap /\ k \in Nat
      BY <1>3, <1>5, <3>1
    <3>3. Agrees(Merged, H, k, k)
      BY <1>8, <3>1, <3>2
    <3>4. DOMAIN update_resources = {}
      BY <1>3, <1>5, <1>6, <3>2 DEF PendingOnly
    <3> QED
      BY <1>3, <1>5, <1>6, <3>2, <3>3, <3>4, SettledNow
  <2> QED
    BY <2>1, <2>2
<1> QED
  BY <1>1, <1>2, <1>4, <1>5, <1>7, <1>9, <1>10, <1>11, FollowedKept

\* An object of a dump.
LEMMA ExistsFollowed ==
  ASSUME InOrderStart, OrderInv, ShownInv, NEW H, NEW B, NEW k, Followed(H, B, k), recv_dump,
         Head(dump).act = "exists"
  PROVE  Followed(H, B, k)'
<1> DEFINE h == Head(dump)
<1>1. /\ pc = "recv" /\ dump # <<>> /\ dump' = Tail(dump)
      /\ UNCHANGED <<kern, sent, hist, sock, expect_reply, snap>>
      /\ print_event(h)
  BY DEF recv_dump, Receive, PassesFilter, InOrderStart
<1>2. /\ apply_event(h)
      /\ UNCHANGED <<pc, initial_state, receive_update, stored_messages, applied>>
  BY <1>1 DEF print_event, DumpDone, ApplyExists, StoreNotification, order_vars
<1>3. /\ k \in 0 .. sent /\ applied = 1 .. k
      /\ History(H, B) /\ Told(H, B) /\ Receiving(H) /\ CopyOf(H, k) /\ PendingOnly(B, k) /\ Settled(k)
  BY DEF Followed
<1>4. Waiting' = Waiting
  BY <1>1, <1>2 DEF Waiting, Stored
<1>5. sent \in Nat /\ snap \in B /\ snap \in 0 .. sent /\ Trees(H[snap])
  BY <1>3, Numbers
<1>6. /\ TreesInv /\ EntriesOK /\ ShownMatchesCopy /\ DumpShape(dump) /\ Dumping
      /\ initial_state \/ receive_update
  BY <1>1 DEF ShownInv, PendingInv, EntriesOK, DumpInv, Dumping
<1>7. PICK S : dump \in Seq(S)
  BY <1>6 DEF DumpShape
<1>8. expect_reply /\ Ending(dump) /\ Truthful(dump, H[snap])
  BY <1>1, <1>3, <1>6 DEF Receiving
<1>9. Ending(Tail(dump)) /\ Truthful(Tail(dump), H[snap])
  BY <1>7, <1>8, EndingTail
<1>10. /\ Tells(h) /\ (h.cont => Tail(dump) # <<>>)
       /\ Tail(dump) # <<>> /\ h.cont => Later(Head(Tail(dump))) /\ Head(Tail(dump)).res = h.res
  BY <1>1, <1>6, ShapeTail
<1>11. Receiving(H)'
  BY <1>1, <1>2, <1>3, <1>8, <1>9 DEF Receiving
<1> DEFINE U == DOMAIN update_resources
           V == DOMAIN update_resources'
<1>12. /\ Merged' = After(Merged, ActionOf(h), h)
       /\ \A x \in V : ~ update_resources'[x].destroyed
       /\ \/ update_resources' = update_resources /\ (h.res \in U => h.obj = resource)
          \/ h.cont /\ V = U \union {h.res}
          \/ ~ h.cont /\ V = {}
  <2>1. h.act = "exists"
    OBVIOUS
  <2>2. \A x \in U : ~ update_resources[x].destroyed
    BY <1>3 DEF PendingOnly
  <2> HIDE DEF h
  <2>3. /\ Merged' = After(Merged, ActionOf(h), h)
        /\ \A x \in V : ~ update_resources'[x].destroyed
    BY <1>2, <1>6, <1>10, <2>1, <2>2, EventMerges
  <2>4. \/ update_resources' = update_resources /\ (h.res \in U => h.obj = resource)
        \/ h.cont /\ V = U \union {h.res}
        \/ ~ h.cont /\ V = {}
    BY <1>2, <1>6, <1>10, <2>1, EventApplied
  <2> QED
    BY <2>3, <2>4
<1>13. PendingOnly(B, k)'
  <2> SUFFICES ASSUME V # {}
               PROVE  k \notin B \/ (Dumping' /\ Later(Head(dump')) /\ Head(dump').res \in V)
    BY <1>12 DEF PendingOnly
  <2>1. CASE update_resources' = update_resources /\ (h.res \in U => h.obj = resource)
    BY <1>3, <2>1 DEF PendingOnly, Later
  <2>2. CASE h.cont /\ V = U \union {h.res}
    BY <1>1, <1>10, <2>2 DEF Dumping, Later
  <2> QED
    BY <1>12, <2>1, <2>2
<1>14. Settled(k)'
  BY <1>2, <1>6 DEF Settled
<1>15. /\ h.obj \notin Paths /\ h.obj \in Objects
       /\ Has(H[snap], h.res, h.obj) /\ h.info = H[snap][h.res][h.obj]
  <2>1. 1 \in DOMAIN dump /\ h = dump[1]
    BY <1>1, <1>7
  <2> QED
    BY <1>8, <1>10, <2>1 DEF Truthful, Tells
<1>16. CASE initial_state
  <2>1. k = 0 /\ ~ receive_update /\ Partial(Merged, dump, H[snap])
    BY <1>1, <1>3, <1>16 DEF CopyOf
  <2>2. ActionOf(h) = "exists"
    BY <2>1 DEF ActionOf
  <2>3. /\ h.obj # resource => h.res \in DOMAIN Merged
        /\ h.obj \in PeerDevices => Has(Merged, h.res, ConnectionOf(h.obj))
    BY <1>1, <1>7, <1>8, <2>1, FirstInOrder DEF Partial
  <2> DEFINE c == Merged
             e == After(Merged, "exists", h)
  <2>4. \A r \in DOMAIN c : IsTree(c[r])
    BY <1>6, MergedTrees
  <2>5. Learnt(c, e, h)
    <3> HIDE DEF c, h
    <3>1. Learnt(c, After(c, "exists", h), h)
      BY <1>15, <2>3, <2>4, ExistsLearns DEF c
    <3> QED
      BY <3>1 DEF c
  <2> HIDE DEF c, e
  <2>6. Partial(e, Tail(dump), H[snap])
    BY <1>1, <1>7, <1>8, <2>1, <2>5, PartialStep DEF c
  <2>7. Partial(Merged', dump', H[snap])
    BY <1>1, <1>12, <2>2, <2>6 DEF e
  <2>8. CopyOf(H, k)'
    BY <1>1, <1>2, <1>16, <2>1, <2>7 DEF CopyOf
  <2> QED
    BY <1>1, <1>2, <1>4, <1>5, <1>11, <1>13, <1>14, <2>8, FollowedKept
<1>17. CASE ~ initial_state
  <2>1. receive_update /\ k <= snap /\ Agrees(Merged, H, k, snap)
    <3>1. receive_update
      BY <1>6, <1>17
    <3>2. k <= snap
      BY <1>1, <1>3, <3>1 DEF CopyOf
    <3>3. Agrees(Merged, H, k, IF k <= snap THEN snap ELSE k)
      BY <1>3, <1>17 DEF CopyOf
    <3> QED
      BY <3>1, <3>2, <3>3
  <2>2. ActionOf(h) = "change"
    BY <2>1 DEF ActionOf
  <2>3. k \in Nat /\ snap \in Nat
    BY <1>3, <1>5
  <2> HIDE DEF h
  <2>4. Agrees(After(Merged, "change", h), H, k, snap)
    BY <1>15, <2>1, <2>3, AgreesUpdate
  <2>5. Agrees(Merged', H, k, snap)
    BY <1>12, <2>2, <2>4
  <2>6. CopyOf(H, k)'
    BY <1>1, <1>2, <1>17, <2>1, <2>5 DEF CopyOf
  <2> QED
    BY <1>1, <1>2, <1>4, <1>5, <1>11, <1>13, <1>14, <2>6, FollowedKept
<1> QED
  BY <1>16, <1>17

\* The message that ends the answer.
LEMMA NlmsgDoneFollowed ==
  ASSUME OrderInv, ShownInv, "now" \notin opts, NEW H, NEW B, NEW k, Followed(H, B, k), recv_nlmsg_done
  PROVE  Followed(H, B, k)'
<1>1. /\ pc = "recv" /\ dump # <<>> /\ Head(dump).act = "NLMSG_DONE" /\ dump' = Tail(dump) /\ pc' = pc
      /\ UNCHANGED <<kern, sent, hist, sock, stored_messages, applied, initial_state, receive_update,
                     update_resources, all_resources, snap>>
  BY DEF recv_nlmsg_done, kernel_vars, order_vars, data_vars
<1>2. /\ k \in 0 .. sent /\ applied = 1 .. k
      /\ History(H, B) /\ Told(H, B) /\ Receiving(H) /\ CopyOf(H, k) /\ PendingOnly(B, k) /\ Settled(k)
  BY DEF Followed
<1>3. ~ initial_state /\ ~ receive_update
  <2> SUFFICES ASSUME initial_state \/ receive_update PROVE FALSE
    OBVIOUS
  <2>1. Ending(dump) /\ Truthful(dump, H[snap])
    BY <1>1, <1>2 DEF Receiving
  <2>2. PICK S : dump \in Seq(S)
    BY DEF ShownInv, DumpInv, DumpShape
  <2> QED
    BY <1>1, <2>1, <2>2, EndingTail
<1>4. Waiting' = Waiting /\ Merged' = Merged /\ ~ Dumping /\ snap \in B
  BY <1>1, <1>2 DEF Waiting, Stored, Merged, Dumping, History
<1>5. Receiving(H)'
  BY <1>1, <1>3 DEF Receiving
<1>6. CopyOf(H, k)'
  BY <1>1, <1>2, <1>3, <1>4 DEF CopyOf
<1>7. PendingOnly(B, k)'
  BY <1>1, <1>2, <1>4 DEF PendingOnly
<1>8. Settled(k)'
  BY <1>1, <1>2 DEF Settled
<1> QED
  BY <1>1, <1>4, <1>5, <1>6, <1>7, <1>8, FollowedKept

\* Removing one element of a sequence keeps the others.
LEMMA OthersRemain ==
  ASSUME NEW S, NEW s \in Seq(S), NEW p \in 1 .. Len(s), NEW i \in 1 .. Len(s), i # p
  PROVE  \E j \in DOMAIN RemoveAt(s, p) : RemoveAt(s, p)[j] = s[i]
<1> DEFINE L == Len(s)
           head == SubSeq(s, 1, p - 1)
           tail == SubSeq(s, p + 1, L)
<1>1. L \in Nat /\ p \in 1 .. L /\ i \in 1 .. L
  OBVIOUS
<1>2. head \in Seq(S) /\ Len(head) = p - 1 /\ \A j \in 1 .. p - 1 : head[j] = s[j]
  BY <1>1, SubSeqProperties
<1>3. tail \in Seq(S) /\ Len(tail) = L - p /\ \A j \in 1 .. L - p : tail[j] = s[p + j]
  <2>1. p + 1 \in 1 .. L + 1 /\ L \in 0 .. L /\ L - (p + 1) + 1 = L - p
    BY <1>1
  <2>2. CASE p + 1 <= L
    BY <1>1, <2>1, <2>2, SubSeqProperties
  <2>3. CASE p = L
    BY <1>1, <2>1, <2>3, SubSeqProperties
  <2>4. p + 1 <= L \/ p = L
    <3> HIDE DEF L
    <3> QED
      BY <1>1
  <2> QED
    BY <2>2, <2>3, <2>4
<1>4. RemoveAt(s, p) = head \o tail
  BY DEF RemoveAt
<1> HIDE DEF L, head, tail
<1>5. /\ head \o tail \in Seq(S)
      /\ Len(head \o tail) = Len(head) + Len(tail)
      /\ \A j \in 1 .. Len(head) + Len(tail) :
           (head \o tail)[j] = IF j <= Len(head) THEN head[j] ELSE tail[j - Len(head)]
  BY <1>2, <1>3, ConcatProperties
<1>6. Len(head) + Len(tail) = L - 1
  BY <1>1, <1>2, <1>3
<1> DEFINE R == RemoveAt(s, p)
<1>7. DOMAIN R = 1 .. L - 1 /\ \A j \in 1 .. L - 1 : R[j] = IF j <= p - 1 THEN head[j] ELSE tail[j - (p - 1)]
  BY <1>2, <1>4, <1>5, <1>6, LenProperties
<1> HIDE DEF R
<1>8. CASE i < p
  <2>1. i \in 1 .. L - 1 /\ i \in 1 .. p - 1 /\ i <= p - 1
    BY <1>1, <1>8
  <2>2. R[i] = s[i]
    BY <1>2, <1>7, <2>1
  <2> QED
    BY <1>7, <2>1, <2>2 DEF R
<1>9. CASE i > p
  <2>1. i - 1 \in 1 .. L - 1 /\ ~ (i - 1 <= p - 1) /\ (i - 1) - (p - 1) = i - p /\ i - p \in 1 .. L - p /\ p + (i - p) = i
    BY <1>1, <1>9
  <2>2. R[i - 1] = tail[i - p]
    BY <1>7, <2>1
  <2>3. tail[i - p] = s[i]
    BY <1>3, <2>1
  <2> QED
    BY <1>7, <2>1, <2>2, <2>3 DEF R
<1> QED
  BY <1>1, <1>8, <1>9

\* Applying a message takes only that message away.
LEMMA OthersWait ==
  ASSUME OrderInv, apply_stored_event
  PROVE  \A m \in Waiting : m \in Waiting' \/ m.idx \in applied'
<1>1. PICK p \in Due :
        /\ stored_messages' = RemoveAt(stored_messages, p)
        /\ applied' = applied \union {stored_messages[p].idx}
  BY DEF apply_stored_event
<1>2. sock' = sock
  BY DEF apply_stored_event, kernel_vars
<1>3. PICK S : stored_messages \in Seq(S)
  BY DEF OrderInv, Numbered
<1>4. DOMAIN stored_messages = 1 .. Len(stored_messages) /\ p \in 1 .. Len(stored_messages)
  BY <1>3, LenProperties DEF Due
<1> SUFFICES ASSUME NEW m \in Stored, m.idx \notin applied'
             PROVE  m \in Stored'
  BY <1>2 DEF Waiting
<1>5. PICK i \in 1 .. Len(stored_messages) : m = stored_messages[i]
  BY <1>4 DEF Stored
<1>6. i # p
  BY <1>1, <1>5
<1>7. \E j \in DOMAIN stored_messages' : stored_messages'[j] = m
  BY <1>1, <1>3, <1>4, <1>5, <1>6, OthersRemain
<1> QED
  BY <1>7 DEF Stored

\* A notification is applied.
LEMMA ApplyFollowed ==
  ASSUME InOrderStart, OrderInv, ShownInv, ShownInv', NEW H, NEW B, NEW k, Followed(H, B, k), apply_stored_event
  PROVE  Followed(H, B, k + 1)'
<1>1. PICK m \in Stored : /\ m.idx \in 1 .. sent /\ apply_event(m)
                          /\ Awaited(m.idx) /\ Awaited(m.idx + 1)'
  BY ApplyKeeps DEF InOrderStart
<1>2. next_seq_known /\ Stored' \subseteq Stored
  BY ApplyKeeps DEF InOrderStart
<1>3. /\ pc = "apply"
      /\ UNCHANGED <<kern, sent, hist, sock, dump, pc, expect_reply, initial_state, receive_update, snap>>
  BY DEF apply_stored_event, kernel_vars, cmd_vars, socket_vars
<1>4. /\ k \in 0 .. sent /\ applied = 1 .. k
      /\ History(H, B) /\ Told(H, B) /\ Receiving(H) /\ CopyOf(H, k) /\ PendingOnly(B, k) /\ Settled(k)
  BY DEF Followed
<1>5. sent \in Nat /\ snap \in B /\ snap \in 0 .. sent /\ (\A i \in 0 .. sent : Trees(H[i]))
  BY <1>4, Numbers
<1>6. ~ initial_state /\ ~ receive_update
  BY <1>3, <1>4 DEF Receiving
<1>7. /\ TreesInv /\ EntriesOK /\ ShownMatchesCopy /\ MessagesInv /\ PendingInv /\ DumpInv
      /\ TreesInv' /\ EntriesOK'
  BY DEF ShownInv, PendingInv, EntriesOK
<1>8. ~ Dumping
  BY <1>3, <1>7 DEF DumpInv
<1>9. m.idx = k + 1 /\ k \in Nat
  <2>1. 1 .. k = 1 .. m.idx - 1 /\ m.idx \in Nat /\ m.idx >= 1 /\ k \in Nat
    BY <1>1, <1>4, <1>5 DEF Awaited
  <2>2. m.idx - 1 < k => k \in 1 .. k /\ k \notin 1 .. m.idx - 1
    BY <2>1
  <2>3. k < m.idx - 1 => m.idx - 1 \in 1 .. m.idx - 1 /\ m.idx - 1 \notin 1 .. k
    BY <2>1
  <2> QED
    BY <2>1, <2>2, <2>3
<1>10. k + 1 \in 1 .. sent /\ k + 1 \in 0 .. sent /\ k < sent /\ (k + 1) - 1 = k
  BY <1>1, <1>5, <1>9
<1>11. applied' = 1 .. k + 1
  <2>1. (m.idx + 1) - 1 = k + 1
    BY <1>9
  <2> QED
    BY <1>1, <2>1 DEF Awaited
<1>12. m \in Waiting /\ Waiting' \subseteq Waiting
  BY <1>1, <1>2, <1>3 DEF Waiting
<1>13. /\ m.cont <=> k + 1 \notin B
       /\ Step(m, H[k], H[k + 1])
       /\ m.act = "rename" => k \in B /\ m.info \in Resources /\ FreshIn(H, k, sent, m)
       /\ m.act = "destroy" /\ m.obj = resource => ~ m.cont
  BY <1>4, <1>9, <1>10, <1>12 DEF Told, FreshName
<1>14. m.act \in Acts /\ Tells(m) /\ (m.cont => m.act # "rename") /\ m.obj \in Objects
  BY <1>7, <1>12 DEF MessagesInv, Tells
<1>15. m.act = "rename" => DOMAIN update_resources = {}
  BY <1>4, <1>8, <1>13 DEF PendingOnly
<1>16. ActionOf(m) = m.act /\ m.act # "exists"
  BY <1>14 DEF ActionOf, Acts
<1>17. Merged' = After(Merged, m.act, m) /\ \A x \in DOMAIN update_resources' : ~ update_resources'[x].destroyed
  <2>1. \A x \in DOMAIN update_resources : ~ update_resources[x].destroyed
    BY <1>4 DEF PendingOnly
  <2>2. m.act = "rename" => ~ m.cont /\ DOMAIN update_resources = {} /\ m.info \in Resources
    BY <1>13, <1>14, <1>15
  <2>3. /\ Merged' = After(Merged, ActionOf(m), m)
        /\ \A x \in DOMAIN update_resources' : ~ update_resources'[x].destroyed
    BY <1>1, <1>7, <1>13, <1>14, <2>1, <2>2, EventMerges
  <2> QED
    BY <1>16, <2>3
<1>18. Agrees(Merged', H, k + 1, IF k + 1 <= snap THEN snap ELSE k + 1)
  <2>1. Agrees(Merged, H, k, IF k <= snap THEN snap ELSE k)
    BY <1>4, <1>6 DEF CopyOf
  <2>2. PICK s \in Nat : s = IF k + 1 <= snap THEN snap ELSE k + 1
    BY <1>5, <1>9
  <2>3. k < s /\ s <= sent /\ (IF k <= snap THEN snap ELSE k) \in Nat /\ (IF k <= snap THEN snap ELSE k) <= s
    BY <1>5, <1>9, <1>10, <2>2
  <2>4. Agrees(Merged, H, k, s)
    BY <1>9, <2>1, <2>3, AgreesLater
  <2>5. \A i \in 0 .. s : Trees(H[i])
    BY <1>5, <2>3
  <2>6. m.act = "rename" => FreshIn(H, k, s, m)
    <3>1. \A i \in k + 1 .. s : i \in k + 1 .. sent
      BY <1>5, <1>9, <2>3
    <3> QED
      BY <1>13, <3>1 DEF FreshIn
  <2>7. Agrees(After(Merged, m.act, m), H, k + 1, s)
    BY <1>9, <1>13, <1>14, <2>3, <2>4, <2>5, <2>6, AgreesStep
  <2> QED
    BY <1>17, <2>2, <2>7
<1>19. DOMAIN update_resources' # {} => k + 1 \notin B
  <2> DEFINE U == DOMAIN update_resources
             V == DOMAIN update_resources'
  <2>1. ASSUME U # {}
        PROVE  m.res \in U /\ Continues(m, m.res)
    <3>1. PICK n \in 1 .. sent :
            /\ Awaited(n)
            /\ \A x \in Waiting : x.idx = n => x.res \in U /\ Continues(x, x.res)
      BY <1>7, <1>8, <2>1 DEF PendingInv, Continuing
    <3>2. 1 .. n - 1 = 1 .. k
      BY <1>4, <3>1 DEF Awaited
    <3>3. n = k + 1
      <4>1. n - 1 < k => k \in 1 .. k /\ k \notin 1 .. n - 1
        BY <1>9, <3>1
      <4>2. k < n - 1 => n - 1 \in 1 .. n - 1 /\ n - 1 \notin 1 .. k
        BY <1>9, <3>1
      <4> QED
        BY <1>9, <3>1, <3>2, <4>1, <4>2
    <3> QED
      BY <1>9, <1>12, <3>1, <3>3
  <2>2. m.act = "rename" => ~ m.cont /\ m.res \notin U
    BY <1>13, <1>14, <1>15
  <2>3. \/ /\ update_resources' = update_resources
           /\ m.res \in U => m.obj = resource /\ (m.act = "create" \/ (m.act = "exists" /\ ~ receive_update))
        \/ m.cont /\ V = U \union {m.res}
        \/ ~ m.cont /\ V = {}
    BY <1>1, <1>7, <1>14, <2>2, EventApplied
  <2> QED
    BY <1>13, <1>16, <2>1, <2>3 DEF Continues
<1>20. PendingOnly(B, k + 1)'
  BY <1>17, <1>19 DEF PendingOnly
<1>21. CopyOf(H, k + 1)'
  BY <1>3, <1>6, <1>18 DEF CopyOf
<1>22. Receiving(H)'
  BY <1>3, <1>4, <1>6 DEF Receiving
<1>23. History(H, B)' /\ Told(H, B)'
  BY <1>3, <1>4, <1>12 DEF History, Told, FreshName
<1>24. Settled(k + 1)'
  <2> SUFFICES ASSUME k + 1 >= snap PROVE SameObjects(all_resources', hist[k + 1])
    BY <1>3 DEF Settled
  <2>1. CASE k + 1 \in B
    <3>1. DOMAIN update_resources' = {}
      BY <1>19, <2>1
    <3>2. Agrees(Merged', H, k + 1, k + 1)
      <4>1. (IF k + 1 <= snap THEN snap ELSE k + 1) = k + 1
        BY <1>5, <1>9
      <4> QED
        BY <1>18, <4>1
    <3>3. hist[k + 1] = H[k + 1] /\ Trees(H[k + 1]) /\ k + 1 \in Nat
      BY <1>4, <1>5, <1>9, <1>10, <2>1 DEF History
    <3>4. \A r \in DOMAIN Merged' : IsTree(Merged'[r])
      <4>1. /\ DOMAIN Merged' = DOMAIN all_resources'
            /\ \A x \in DOMAIN all_resources' : Merged'[x] = all_resources'[x]
        BY <3>1 DEF Merged, MergeOf
      <4> QED
        BY <1>7, <4>1 DEF TreesInv
    <3>5. SameObjects(Merged', H[k + 1])
      BY <3>2, <3>3, <3>4, AgreesNow
    <3>6. /\ DOMAIN Merged' = DOMAIN all_resources'
          /\ \A x \in DOMAIN all_resources' : Merged'[x] = all_resources'[x]
      BY <3>1 DEF Merged, MergeOf
    <3> QED
      BY <3>3, <3>5, <3>6 DEF SameObjects
  <2>2. CASE k + 1 \notin B
    <3>1. m.cont
      BY <1>13, <2>2
    <3>2. all_resources' = all_resources
      BY <1>1, <3>1 DEF apply_event, data_vars
    <3>3. hist[k + 1] = hist[k]
      BY <1>4, <1>10, <2>2 DEF History
    <3>4. k >= snap
      BY <1>5, <1>9, <2>2
    <3> QED
      BY <1>4, <1>6, <3>2, <3>3, <3>4 DEF Settled
  <2> QED
    BY <2>1, <2>2
<1> QED
  BY <1>3, <1>10, <1>11, <1>20, <1>21, <1>22, <1>23, <1>24 DEF Followed

\* An update is requested.
LEMMA UpdateFollowed ==
  ASSUME ShownInv, "now" \notin opts, NEW H, NEW B, NEW k, Followed(H, B, k), read_next
  PROVE  Followed(H, B, k)'
<1>1. /\ StdinReady /\ pc' = "send" /\ receive_update' = TRUE
      /\ UNCHANGED <<kern, sent, hist, sock, dump, stored_messages, applied, initial_state, expect_reply,
                     update_resources, all_resources, snap>>
  BY DEF read_next, kernel_vars, socket_vars, data_vars
<1>2. /\ k \in 0 .. sent /\ applied = 1 .. k
      /\ History(H, B) /\ Told(H, B) /\ Receiving(H) /\ CopyOf(H, k) /\ PendingOnly(B, k) /\ Settled(k)
  BY DEF Followed
<1>3. pc = "recv" /\ ~ expect_reply
  BY <1>1, <1>2 DEF StdinReady, Receiving
<1>4. ~ initial_state /\ ~ Dumping
  BY <1>2, <1>3 DEF Receiving, ShownInv, DumpInv
<1>5. Waiting' = Waiting /\ Merged' = Merged /\ Dumping' = Dumping /\ snap \in B
  BY <1>1, <1>2 DEF Waiting, Stored, Merged, Dumping, History
<1>6. Receiving(H)'
  BY <1>1 DEF Receiving
<1>7. CopyOf(H, k)'
  BY <1>1, <1>2, <1>4, <1>5 DEF CopyOf
<1>8. PendingOnly(B, k)'
  BY <1>1, <1>2, <1>4, <1>5 DEF PendingOnly
<1>9. Settled(k)'
  BY <1>1 DEF Settled
<1> QED
  BY <1>1, <1>5, <1>6, <1>7, <1>8, <1>9, FollowedKept

\* Every step keeps the invariant.
LEMMA CopyStep ==
  ASSUME InOrderStart, ~ ReuseNames, OrderInv, ShownInv, OrderInv', ShownInv', CopyInv, [Next]_vars
  PROVE  CopyInv'
<1>1. opts' = opts
  <2>1. CASE KernelNext
    <3>1. PICK r, act, objs, infos, newKern : Notify(r, act, objs, infos, newKern)
      BY <2>1, KernelNotifies
    <3> QED
      BY <3>1 DEF Notify, cmd_vars
  <2>2. CASE \/ generic_send \/ recv_nlmsg_done \/ recv_overrun \/ recv_module_unloaded \/ apply_stored_event
             \/ print_event_returns \/ read_next \/ read_end \/ UNCHANGED vars
    BY <2>2 DEF generic_send, recv_nlmsg_done, recv_overrun, recv_module_unloaded, apply_stored_event,
                print_event_returns, read_next, read_end, vars, cmd_vars
  <2>3. CASE recv_dump \/ recv_notification
    BY <2>3 DEF recv_dump, recv_notification, Receive
  <2>4. ASSUME NEW m \in sock, Overrun(m)
        PROVE  opts' = opts
    BY <2>4 DEF Overrun, cmd_vars
  <2> QED
    BY <2>1, <2>2, <2>3, <2>4 DEF Next
<1>2. CASE "now" \in opts
  BY <1>1, <1>2 DEF CopyInv
<1>3. CASE "now" \notin opts
  <2>1. Arriving
    BY <1>3 DEF CopyInv
  <2>2. PICK H, B, k : Followed(H, B, k)
    BY <1>3 DEF CopyInv
  <2> SUFFICES Arriving' /\ \E L, C, l : Followed(L, C, l)'
    BY DEF CopyInv
  <2>3. ASSUME Followed(H, B, k)', Arriving'
        PROVE  Arriving' /\ \E L, C, l : Followed(L, C, l)'
    BY <2>3
  <2>4. /\ Receiving(H) /\ sent \in Nat /\ Trees(kern) /\ Hosted(kern) /\ DOMAIN hist = 0 .. sent
        /\ TreesInv /\ DumpInv
    <3>1. Receiving(H) /\ History(H, B)
      BY <2>2 DEF Followed
    <3>2. sent \in Nat
      BY <3>1, Numbers
    <3>3. Hosted(kern) /\ DOMAIN hist = 0 .. sent
      BY <3>1 DEF History
    <3>4. TreesInv /\ DumpInv /\ Trees(kern)
      BY DEF ShownInv, TreesInv, Trees
    <3> QED
      BY <3>1, <3>2, <3>3, <3>4
  <2>5. CASE KernelNext
    <3>1. PICK r, act, objs, infos, newKern, G :
            /\ Notify(r, act, objs, infos, newKern) /\ Bundle(act, objs, infos)
            /\ Hosted(newKern) /\ Unfolds(G, r, act, objs, infos, newKern)
      BY <2>4, <2>5, KernelDevelops DEF Develops
    <3>2. Arriving' /\ \E L, C : Followed(L, C, k)'
      BY <1>3, <2>1, <2>2, <3>1, NotifyFollowed
    <3> QED
      BY <3>2
  <2>6. ASSUME NEW m \in sock, Overrun(m)
        PROVE  Arriving' /\ \E L, C, l : Followed(L, C, l)'
    <3>1. /\ sock' \subseteq sock /\ overrun' = TRUE
          /\ UNCHANGED <<kern, sent, hist, dump, pc, expect_reply, initial_state, receive_update, next_seq,
                         stored_messages, applied, update_resources, all_resources, snap>>
      BY <2>6 DEF Overrun, cmd_vars, order_vars, data_vars
    <3>2. Waiting' \subseteq Waiting /\ Due' = Due
      BY <3>1 DEF Waiting, Stored, Due
    <3>3. pc' # "stdin" /\ (pc' = "apply" => ~ initial_state /\ ~ receive_update)
      BY <2>4, <3>1 DEF Receiving
    <3>4. Followed(H, B, k)'
      BY <2>2, <3>1, <3>2, <3>3, FollowedCalm
    <3>5. Arriving'
      BY <2>1, <3>1, <3>2 DEF Arriving
    <3> QED
      BY <2>3, <3>4, <3>5
  <2>7. CASE generic_send
    <3>1. Followed(H, B, k)'
      BY <2>2, <2>7, SendFollowed
    <3>2. /\ pc = "send" /\ UNCHANGED <<sent, sock, overrun, initial_state, receive_update, stored_messages, applied>>
      BY <2>7 DEF generic_send, kernel_vars, order_vars
    <3>3. Waiting' = Waiting
      BY <3>2 DEF Waiting, Stored
    <3>4. initial_state \/ receive_update
      BY <2>4, <3>2 DEF Receiving
    <3>5. Arriving'
      BY <2>1, <3>2, <3>3, <3>4, ArrivingKept
    <3> QED
      BY <2>3, <3>1, <3>5
  <2>8. CASE recv_dump
    <3>1. /\ pc = "recv" /\ Head(dump).act \in {"exists", "done"} /\ dump # <<>> /\ print_event(Head(dump))
          /\ UNCHANGED <<sent, sock, overrun>>
      BY <2>8 DEF recv_dump, Receive, PassesFilter, InOrderStart
    <3>2. /\ UNCHANGED <<stored_messages, applied>>
          /\ \/ pc' = "apply"
             \/ Head(dump).act = "exists" /\ UNCHANGED <<initial_state, receive_update>>
      BY <3>1 DEF print_event, DumpDone, ApplyExists, StoreNotification, order_vars
    <3>3. Waiting' = Waiting
      BY <3>1, <3>2 DEF Waiting, Stored
    <3>4. pc' = "apply" \/ initial_state' \/ receive_update'
      BY <2>4, <3>1, <3>2 DEF DumpInv, Dumping
    <3>5. Arriving'
      BY <2>1, <3>1, <3>2, <3>3, <3>4, ArrivingKept
    <3>6. Followed(H, B, k)'
      BY <2>2, <2>8, <3>1, ExistsFollowed, DoneFollowed
    <3> QED
      BY <2>3, <3>5, <3>6
  <2>9. CASE recv_notification
    <3>1. PICK m \in sock : /\ next_seq_known \/ m.idx = 1
                            /\ sock' = sock \ {m}
                            /\ Receive(m)
      BY <2>9 DEF recv_notification, InOrderStart
    <3>2. pc = "recv" /\ UNCHANGED <<kern, sent, hist, opts, overrun, dump, expect_reply, snap>>
      BY <2>9, <3>1 DEF recv_notification, Receive
    <3>3. m.act \notin {"exists", "done"} /\ PassesFilter(m)
      BY DEF OrderInv, Numbered, PassesFilter, InOrderStart
    <3>4. StoreNotification(m, initial_state \/ receive_update)
      BY <3>1, <3>3 DEF Receive, print_event, DumpDone, ApplyExists
    <3>5. /\ pc' = IF initial_state \/ receive_update THEN "recv" ELSE "apply"
          /\ UNCHANGED <<initial_state, receive_update, applied, update_resources, all_resources>>
      BY <3>4 DEF StoreNotification, data_vars
    <3>6. Stored' = Stored \union {m}
      BY <3>1, <3>2, <3>4, StoreKeeps DEF InOrderStart
    <3>7. Waiting' = Waiting
      BY <3>1, <3>6 DEF Waiting
    <3>8. Followed(H, B, k)'
      BY <2>2, <3>2, <3>5, <3>7, FollowedCalm
    <3>9. Arriving'
      BY <2>1, <3>2, <3>5, <3>7, ArrivingKept
    <3> QED
      BY <2>3, <3>8, <3>9
  <2>10. CASE recv_nlmsg_done
    <3>1. Followed(H, B, k)'
      BY <1>3, <2>2, <2>10, NlmsgDoneFollowed
    <3>2. /\ pc = "recv" /\ UNCHANGED <<sent, sock, overrun, initial_state, receive_update, next_seq,
                                        stored_messages, applied>>
      BY <2>10 DEF recv_nlmsg_done, kernel_vars, order_vars
    <3>3. Waiting' = Waiting /\ Due' = Due
      BY <3>2 DEF Waiting, Stored, Due
    <3>4. Arriving'
      BY <2>1, <3>2, <3>3 DEF Arriving
    <3> QED
      BY <2>3, <3>1, <3>4
  <2>11. ASSUME pc # "send", pc' = "exit",
                UNCHANGED <<kernel_vars, socket_vars, expect_reply, order_vars, data_vars, snap>>
         PROVE  Arriving' /\ \E L, C, l : Followed(L, C, l)'
    <3>1. UNCHANGED <<kern, sent, hist, sock, dump, overrun, expect_reply, initial_state, receive_update,
                      stored_messages, applied, update_resources, all_resources, snap>>
      BY <2>11 DEF kernel_vars, socket_vars, order_vars, data_vars
    <3>2. Waiting' = Waiting
      BY <3>1 DEF Waiting, Stored
    <3>3. Followed(H, B, k)'
      BY <2>2, <2>11, <3>1, <3>2, FollowedCalm
    <3>4. Arriving'
      BY <2>1, <2>11, <3>1, <3>2, ArrivingKept
    <3> QED
      BY <2>3, <3>3, <3>4
  <2>12. CASE recv_overrun \/ recv_module_unloaded \/ read_end
    BY <2>11, <2>12 DEF recv_overrun, recv_module_unloaded, read_end, StdinReady
  <2>13. CASE apply_stored_event
    <3>1. Followed(H, B, k + 1)'
      BY <2>2, <2>13, ApplyFollowed
    <3>2. \A m \in Waiting : m \in Waiting' \/ m.idx \in applied'
      BY <2>13, OthersWait
    <3>3. pc' = "apply" /\ UNCHANGED <<sent, overrun>> /\ applied \subseteq applied'
      BY <2>13 DEF apply_stored_event, kernel_vars, socket_vars, cmd_vars
    <3>4. Arriving'
      BY <2>1, <3>2, <3>3 DEF Arriving
    <3> QED
      BY <3>1, <3>4
  <2>14. CASE print_event_returns
    <3>1. /\ pc = "apply" /\ Due = {} /\ pc' = "recv"
          /\ UNCHANGED <<kern, sent, hist, sock, dump, overrun, expect_reply, initial_state, receive_update, next_seq,
                         stored_messages, applied, update_resources, all_resources, snap>>
      BY <2>14 DEF print_event_returns, kernel_vars, socket_vars, order_vars, data_vars
    <3>2. Waiting' = Waiting /\ Due' = Due
      BY <3>1 DEF Waiting, Stored, Due
    <3>3. Followed(H, B, k)'
      BY <2>2, <3>1, <3>2, FollowedCalm
    <3>4. Arriving'
      BY <2>1, <3>1, <3>2, ArrivingKept
    <3> QED
      BY <2>3, <3>3, <3>4
  <2>15. CASE read_next
    <3>1. Followed(H, B, k)'
      BY <1>3, <2>2, <2>15, UpdateFollowed
    <3>2. pc' = "send" /\ UNCHANGED <<sent, sock, overrun, stored_messages, applied>>
      BY <2>15 DEF read_next, kernel_vars, socket_vars
    <3>3. Waiting' = Waiting
      BY <3>2 DEF Waiting, Stored
    <3>4. Arriving'
      BY <2>1, <3>2, <3>3, ArrivingKept
    <3> QED
      BY <2>3, <3>1, <3>4
  <2>16. CASE UNCHANGED vars
    <3>1. UNCHANGED <<kern, sent, hist, sock, dump, overrun, pc, expect_reply, initial_state, receive_update, next_seq,
                      stored_messages, applied, update_resources, all_resources, snap>>
      BY <2>16 DEF vars, kernel_vars, socket_vars, cmd_vars, order_vars, data_vars
    <3>2. Waiting' = Waiting /\ Due' = Due
      BY <3>1 DEF Waiting, Stored, Due
    <3>3. pc' # "stdin" /\ (pc' = "apply" => ~ initial_state /\ ~ receive_update)
      BY <2>4, <3>1 DEF Receiving
    <3>4. Followed(H, B, k)'
      BY <2>2, <3>1, <3>2, <3>3, FollowedCalm
    <3>5. Arriving'
      BY <2>1, <3>1, <3>2 DEF Arriving
    <3> QED
      BY <2>3, <3>4, <3>5
  <2> QED
    BY <2>5, <2>6, <2>7, <2>8, <2>9, <2>10, <2>12, <2>13, <2>14, <2>15, <2>16 DEF Next
<1> QED
  BY <1>2, <1>3

\* The notifications 1 to k are k notifications.
LEMMA HowMany ==
  ASSUME NEW k \in Nat
  PROVE  Cardinality(1 .. k) = k
<1>1. Cardinality(1 .. k) = IF 1 > k THEN 0 ELSE k - 1 + 1
  BY FS_Interval
<1> QED
  BY <1>1

\* The invariant says what the copy is.
LEMMA CopyIsRight ==
  ASSUME OrderInv, CopyInv
  PROVE  CopyIsAKernelState
<1> DEFINE n == Cardinality(applied)
<1> SUFFICES ASSUME ~ initial_state, ~ receive_update, "now" \notin opts, n >= snap
             PROVE  SameObjects(all_resources, hist[n])
  BY DEF CopyIsAKernelState
<1>1. PICK H, B, k : Followed(H, B, k)
  BY DEF CopyInv
<1>2. k \in 0 .. sent /\ applied = 1 .. k /\ Settled(k)
  BY <1>1 DEF Followed
<1>3. k \in Nat
  BY <1>2, SeqAssumption DEF OrderInv, Numbered
<1>4. n = k
  BY <1>2, <1>3, HowMany
<1> HIDE DEF n
<1> QED
  BY <1>2, <1>4 DEF Settled

\* With a drained socket the invariant says that the copy is current.
LEMMA CopyConverges ==
  ASSUME InOrderStart, OrderInv, ShownInv, CopyInv
  PROVE  Converged
<1> SUFFICES ASSUME pc = "recv", dump = <<>>, sock = {}, ~ overrun, "now" \notin opts
             PROVE  stored_messages = <<>> /\ SameObjects(InFilter(all_resources), InFilter(kern))
  BY DEF Converged
<1>1. Arriving
  BY DEF CopyInv
<1>2. PICK H, B, k : Followed(H, B, k)
  BY DEF CopyInv
<1>3. k \in 0 .. sent /\ applied = 1 .. k /\ Settled(k) /\ Receiving(H) /\ History(H, B)
  BY <1>2 DEF Followed
<1>4. sent \in 0 .. MaxMessages /\ MaxMessages \in Nat /\ HalfRange \in Nat /\ MaxMessages + 1 < HalfRange
  BY SeqAssumption DEF OrderInv, Numbered
<1>5. ~ initial_state /\ ~ receive_update
  <2>1. Len(dump) = 0
    OBVIOUS
  <2>2. ~ Ending(dump)
    BY <2>1 DEF Ending
  <2> QED
    BY <1>3, <2>2 DEF Receiving
<1>6. Due = {} /\ Waiting = Stored
  BY <1>1, <1>5 DEF Arriving, Waiting
<1>7. \A i \in 1 .. sent : i \in applied \/ \E m \in Stored : m.idx = i
  BY <1>1, <1>6 DEF Arriving
<1>8. Stored = {}
  <2> SUFFICES ASSUME Stored # {} PROVE FALSE
    OBVIOUS
  <2>1. PICK x \in Stored : x.idx \in 1 .. sent
    BY DEF OrderInv, Numbered
  <2>2. stored_messages # <<>>
    BY DEF Stored
  <2>3. PICK n \in 1 .. sent + 1 : Awaited(n)
    BY <2>2 DEF OrderInv, Ordered
  <2>4. applied = 1 .. n - 1 /\ next_seq = Wire(n) /\ x.idx >= n
    BY <2>3 DEF Awaited
  <2>5. n \in 1 .. sent /\ n \notin applied
    BY <1>4, <2>1, <2>3, <2>4
  <2>6. PICK m \in Stored : m.idx = n
    BY <1>7, <2>5
  <2>7. PICK i \in DOMAIN stored_messages : m = stored_messages[i]
    BY DEF Stored
  <2>8. n \in 1 .. HalfRange - 1
    BY <1>4, <2>5
  <2>9. n <= n
    BY <2>8
  <2>10. seq_a_less_or_equal_b(Wire(n), Wire(n))
    BY <2>8, <2>9, WireOrder DEF InOrderStart
  <2>11. i \in Due
    BY <2>4, <2>6, <2>7, <2>10 DEF Due
  <2> QED
    BY <1>6, <2>11
<1>9. stored_messages = <<>>
  <2>1. PICK S : stored_messages \in Seq(S)
    BY DEF OrderInv, Numbered
  <2>2. DOMAIN stored_messages = {}
    BY <1>8 DEF Stored
  <2> QED
    BY <2>1, <2>2
<1>10. k = sent
  <2>1. k < sent => k + 1 \in 1 .. sent /\ k + 1 \notin 1 .. k
    BY <1>3, <1>4
  <2>2. \A i \in 1 .. sent : i \in 1 .. k
    BY <1>3, <1>7, <1>8
  <2>3. ~ (k < sent)
    BY <2>1, <2>2
  <2> QED
    BY <1>3, <1>4, <2>3
<1>11. SameObjects(all_resources, kern)
  <2>1. snap \in 0 .. sent /\ hist[sent] = kern
    BY <1>3 DEF History
  <2>2. k >= snap
    BY <1>4, <1>10, <2>1
  <2> QED
    BY <1>3, <1>5, <1>10, <2>1, <2>2 DEF Settled
<1>12. ASSUME NEW t
       PROVE  DOMAIN InFilter(t) = DOMAIN t /\ \A r \in DOMAIN t : InFilter(t)[r] = t[r]
  <2>1. {r \in DOMAIN t : Filter \in {"all", r}} = DOMAIN t
    BY DEF InOrderStart
  <2> QED
    BY <2>1 DEF InFilter, Restrict
<1>13. SameObjects(InFilter(all_resources), InFilter(kern))
  <2> DEFINE a == InFilter(all_resources)
             b == InFilter(kern)
  <2>1. /\ DOMAIN a = DOMAIN all_resources /\ \A r \in DOMAIN all_resources : a[r] = all_resources[r]
        /\ DOMAIN b = DOMAIN kern /\ \A r \in DOMAIN kern : b[r] = kern[r]
    BY <1>12
  <2> HIDE DEF a, b
  <2>2. SameObjects(a, b)
    BY <1>11, <2>1 DEF SameObjects
  <2> QED
    BY <2>2 DEF a, b
<1> QED
  BY <1>9, <1>13

\* drbdsetup's copy of the kernel's objects is always a state the kernel was
\* in between two of its changes, once the notifications from before the dump
\* are applied: no half of a bundle, nothing stale, nothing resurrected, in
\* whatever order dump and notifications arrive and for any resources, volumes,
\* connections and bounds.  A name that a rename gives up must not be used
\* again: the code does not tell the two resources apart.
THEOREM CopyFollowsTheKernel ==
  ASSUME InOrderStart, ~ ReuseNames
  PROVE  Spec => []CopyIsAKernelState
<1>1. Init => OrderInv /\ ShownInv /\ CopyInv
  BY OrderInit, ShownInit, CopyInit
<1>2. OrderInv /\ ShownInv /\ CopyInv /\ [Next]_vars => OrderInv' /\ ShownInv' /\ CopyInv'
  BY FeedStep, ShownStep, CopyStep
<1>3. OrderInv /\ CopyInv => CopyIsAKernelState
  BY CopyIsRight
<1> QED
  BY <1>1, <1>2, <1>3, PTL DEF Spec

\* Once the socket is drained without an overrun nothing is left in the store
\* and the copy is the kernel's current state: no notification is held back
\* and none was missed (print_event(), generic_recv()).
THEOREM CopyCatchesUp ==
  ASSUME InOrderStart, ~ ReuseNames
  PROVE  Spec => []Converged
<1>1. Init => OrderInv /\ ShownInv /\ CopyInv
  BY OrderInit, ShownInit, CopyInit
<1>2. OrderInv /\ ShownInv /\ CopyInv /\ [Next]_vars => OrderInv' /\ ShownInv' /\ CopyInv'
  BY FeedStep, ShownStep, CopyStep
<1>3. OrderInv /\ ShownInv /\ CopyInv => Converged
  BY CopyConverges
<1> QED
  BY <1>1, <1>2, <1>3, PTL DEF Spec
=============================================================================
