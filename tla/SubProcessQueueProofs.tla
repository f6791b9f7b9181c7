------------------------ MODULE SubProcessQueueProofs ------------------------
(***************************************************************************)
(* Proofs about the task queue of DRBDmon, for any number of worker slots, *)
(* any queue capacity and any number of tasks.                             *)
(***************************************************************************)
EXTENDS SubProcessQueue, SequenceTheorems, FiniteSetTheorems, TLAPS

-----------------------------------------------------------------------------
(* Lemmas about the linked lists *)

\* Queue::append_entry() adds one element at the end.
LEMMA AppendElems ==
  ASSUME NEW S, NEW s \in Seq(S), NEW e \in S
  PROVE  /\ Append(s, e) \in Seq(S)
         /\ ToSet(Append(s, e)) = ToSet(s) \union {e}
         /\ NoDuplicates(s) /\ e \notin ToSet(s) => NoDuplicates(Append(s, e))
<1> DEFINE t == Append(s, e)
<1>1. /\ t \in Seq(S)
      /\ Len(t) = Len(s) + 1
      /\ \A i \in 1 .. Len(s) : t[i] = s[i]
      /\ t[Len(s) + 1] = e
  BY AppendProperties
<1>2. /\ Len(s) \in Nat
      /\ DOMAIN s = 1 .. Len(s)
      /\ DOMAIN t = 1 .. Len(s) + 1
  BY <1>1, LenProperties
<1> HIDE DEF t
<1>3. ToSet(t) = ToSet(s) \union {e}
  BY <1>1, <1>2, SMT DEF ToSet
<1>4. NoDuplicates(s) /\ e \notin ToSet(s) => NoDuplicates(t)
  BY <1>1, <1>2, SMT DEF ToSet, NoDuplicates
<1> QED
  BY <1>1, <1>3, <1>4 DEF t

\* The element at position i is removed, the others keep their order.
LEMMA RemoveAtElements ==
  ASSUME NEW S, NEW s \in Seq(S), NEW i \in 1 .. Len(s)
  PROVE  /\ RemoveAt(s, i) \in Seq(S)
         /\ Len(RemoveAt(s, i)) = Len(s) - 1
         /\ \A j \in 1 .. Len(s) - 1 :
              RemoveAt(s, i)[j] = IF j < i THEN s[j] ELSE s[j + 1]
<1> DEFINE u == SubSeq(s, 1, i - 1)
           v == SubSeq(s, i + 1, Len(s))
<1>1. /\ Len(s) \in Nat
      /\ \A j \in 1 .. Len(s) : s[j] \in S
  BY LenProperties, ElementOfSeq
<1>2. /\ u \in Seq(S)
      /\ Len(u) = i - 1
      /\ \A j \in 1 .. i - 1 : u[j] = s[j]
  <2>1. \A j \in 1 .. i - 1 : s[j] \in S
    BY <1>1
  <2>2. /\ u \in Seq(S)
        /\ Len(u) = IF 1 <= i - 1 THEN i - 1 - 1 + 1 ELSE 0
        /\ \A j \in 1 .. i - 1 - 1 + 1 : u[j] = s[1 + j - 1]
    BY <1>1, <2>1, SubSeqProperties
  <2> HIDE DEF u
  <2> QED
    BY <1>1, <2>2
<1>3. /\ v \in Seq(S)
      /\ Len(v) = Len(s) - i
      /\ \A j \in 1 .. Len(s) - i : v[j] = s[i + j]
  <2>1. \A j \in i + 1 .. Len(s) : s[j] \in S
    BY <1>1
  <2>2. /\ v \in Seq(S)
        /\ Len(v) = IF i + 1 <= Len(s) THEN Len(s) - (i + 1) + 1 ELSE 0
        /\ \A j \in 1 .. Len(s) - (i + 1) + 1 : v[j] = s[i + 1 + j - 1]
    BY <1>1, <2>1, SubSeqProperties
  <2> HIDE DEF v
  <2> QED
    BY <1>1, <2>2
<1>4. RemoveAt(s, i) = u \o v
  BY DEF RemoveAt
<1> HIDE DEF u, v
<1>5. /\ u \o v \in Seq(S)
      /\ Len(u \o v) = Len(u) + Len(v)
      /\ \A j \in 1 .. Len(u) + Len(v) :
           (u \o v)[j] = IF j <= Len(u) THEN u[j] ELSE v[j - Len(u)]
  BY <1>2, <1>3, ConcatProperties
<1> DEFINE w == u \o v
<1>6. RemoveAt(s, i) = w
  BY <1>4
<1>7. /\ w \in Seq(S)
      /\ Len(w) = Len(s) - 1
      /\ \A j \in 1 .. Len(s) - 1 : w[j] = IF j <= i - 1 THEN u[j] ELSE v[j - (i - 1)]
  BY <1>1, <1>2, <1>3, <1>5
<1> HIDE DEF w
<1>8. \A j \in 1 .. Len(s) - 1 : w[j] = IF j < i THEN s[j] ELSE s[j + 1]
  BY <1>1, <1>2, <1>3, <1>7
<1> QED
  BY <1>6, <1>7, <1>8

\* Queue::remove_entry() takes one element out and leaves the others.
LEMMA UnlinkElems ==
  ASSUME NEW S, NEW s \in Seq(S), NEW e \in ToSet(s), NoDuplicates(s)
  PROVE  /\ Unlink(s, e) \in Seq(S)
         /\ ToSet(Unlink(s, e)) = ToSet(s) \ {e}
         /\ NoDuplicates(Unlink(s, e))
<1> DEFINE i == IndexIn(s, e)
           t == RemoveAt(s, i)
<1>1. Len(s) \in Nat /\ DOMAIN s = 1 .. Len(s)
  BY LenProperties
<1>2. i \in 1 .. Len(s) /\ s[i] = e
  BY <1>1 DEF ToSet, IndexIn
<1> HIDE DEF i
<1>3. /\ t \in Seq(S)
      /\ Len(t) = Len(s) - 1
      /\ \A j \in 1 .. Len(s) - 1 : t[j] = IF j < i THEN s[j] ELSE s[j + 1]
  BY <1>2, RemoveAtElements
<1>4. DOMAIN t = 1 .. Len(s) - 1
  BY <1>3, LenProperties
<1> HIDE DEF t
<1>5. NoDuplicates(t)
  BY <1>1, <1>2, <1>3, <1>4, SMT DEF NoDuplicates
<1>6. ASSUME NEW x \in ToSet(t) PROVE x \in ToSet(s) \ {e}
  BY <1>1, <1>2, <1>3, <1>4, SMT DEF NoDuplicates, ToSet
<1>7. ASSUME NEW x \in ToSet(s), x # e PROVE x \in ToSet(t)
  <2>1. PICK k \in 1 .. Len(s) : s[k] = x
    BY <1>1 DEF ToSet
  <2>2. CASE k < i
    <3>1. k \in 1 .. Len(s) - 1 /\ t[k] = x
      BY <1>1, <1>2, <1>3, <2>1, <2>2
    <3> QED
      BY <1>4, <3>1 DEF ToSet
  <2>3. CASE k > i
    <3>1. k - 1 \in 1 .. Len(s) - 1 /\ t[k - 1] = x
      BY <1>1, <1>2, <1>3, <2>1, <2>3
    <3> QED
      BY <1>4, <3>1 DEF ToSet
  <2> QED
    BY <1>2, <1>7, <2>1, <2>2, <2>3
<1>8. Unlink(s, e) = t
  BY DEF Unlink, t, i
<1> QED
  BY <1>3, <1>5, <1>6, <1>7, <1>8
-----------------------------------------------------------------------------
(* The inductive invariant *)

\* Ids that are in use were given out by add_entry().
IdsUsed == \A q \in Queues : \A e \in Elems(q) : e < next_id

\* terminate() works on a task.
TargetsLeft == ui.pc \in {"termLock", "termKill"} => ui.targets # <<>>

IInv ==
  /\ TypeOK
  /\ SlotStack
  /\ LockDiscipline
  /\ TasksFiled
  /\ IdsUsed
  /\ ActiveTasksExecuting
  /\ TargetsLeft

\* The initial state satisfies the inductive invariant.
LEMMA InitIInv == Init => IInv
<1> SUFFICES ASSUME Init PROVE IInv
  OBVIOUS
<1>1. \A q \in Queues : Elems(q) = {}
  BY DEF Init, Elems, ToSet
<1>2. TypeOK
  <2>1. ListsType
    BY QueueAssumption, EmptySeq, SMT DEF Init, ListsType, TASKQ_NONE
  <2>2. SlotsType
    BY QueueAssumption, SMT DEF Init, SlotsType, Slots
  <2>3. discard \subseteq DiscardFlags /\ shutdown \in BOOLEAN
    BY QueueAssumption DEF Init
  <2>4. worker \in [Slots -> [pc : WorkerPcs, task : Ids \union {NoTask},
                             exc : {"none", "bad_alloc", "subprocess"}]]
    BY DEF Init, WorkerPcs, Idle
  <2>5. ui \in [pc : UiPcs, targets : Seq(Ids), status : ExitStatus, pid : BOOLEAN]
    BY EmptySeq DEF Init, UiPcs, ExitStatus
  <2>6. process \in [Ids -> Handler]
    BY DEF Init, Handler, NewHandler, ExitStatus
  <2> QED
    BY <2>1, <2>2, <2>3, <2>4, <2>5, <2>6 DEF Init, TypeOK, ThreadsType
<1>3. SlotStack
  BY QueueAssumption DEF Init, SlotStack, Slots, Idle
<1>4. LockDiscipline
  BY QueueAssumption DEF Init, LockDiscipline, Free, Ui, Slots
<1>5. TasksFiled
  <2>1. {e \in Ids : InMap(e)} = {}
    BY <1>1 DEF InMap
  <2>2. entry_count = Cardinality({e \in Ids : InMap(e)})
    BY <2>1, FS_EmptySet DEF Init
  <2>3. \A q \in Queues : NoDuplicates(queue[q])
    BY DEF Init, NoDuplicates
  <2> QED
    BY <1>1, <2>2, <2>3 DEF TasksFiled
<1>6. IdsUsed
  BY <1>1 DEF IdsUsed
<1>7. ActiveTasksExecuting
  BY <1>1 DEF Init, ActiveTasksExecuting, Executing, Queues
<1>8. TargetsLeft
  BY DEF Init, TargetsLeft
<1> QED
  BY <1>2, <1>3, <1>4, <1>5, <1>6, <1>7, <1>8 DEF IInv
-----------------------------------------------------------------------------
(* What the operations on the lists keep *)

\* The ids in a queue are ids.
LEMMA ElemsAreIds ==
  ASSUME ListsType, NEW q \in Queues
  PROVE  queue[q] \in Seq(Ids) /\ Elems(q) \subseteq Ids
<1>1. queue[q] \in Seq(Ids)
  BY DEF ListsType
<1>2. \A i \in DOMAIN queue[q] : queue[q][i] \in Ids
  BY <1>1, LenProperties, ElementOfSeq
<1> QED
  BY <1>1, <1>2 DEF Elems, ToSet

\* The cursor stays a task id or TASKQ_NONE.
LEMMA NextSelectedType ==
  ASSUME NEW s \in Seq(Ids), NEW e \in ToSet(s), NEW sel \in Ids \union {TASKQ_NONE}
  PROVE  NextSelected(s, sel, e) \in Ids \union {TASKQ_NONE}
<1> DEFINE i == IndexIn(s, e)
<1>1. Len(s) \in Nat /\ DOMAIN s = 1 .. Len(s) /\ \A j \in 1 .. Len(s) : s[j] \in Ids
  BY LenProperties, ElementOfSeq
<1>2. i \in 1 .. Len(s)
  BY <1>1 DEF IndexIn, ToSet
<1>3. NextSelected(s, sel, e) =
        IF sel # e THEN sel
        ELSE IF i < Len(s) THEN s[i + 1]
        ELSE IF i > 1 THEN s[i - 1]
        ELSE TASKQ_NONE
  BY DEF NextSelected
<1> HIDE DEF i
<1>4. i < Len(s) => s[i + 1] \in Ids
  BY <1>1, <1>2
<1>5. i > 1 => s[i - 1] \in Ids
  BY <1>1, <1>2
<1> QED
  BY <1>3, <1>4, <1>5

\* Set of the tasks that exist: its size is what entry_count must be.
Tasks == {e \in Ids : InMap(e)}

\* There are finitely many tasks.
LEMMA TasksFinite == IsFiniteSet(Tasks)
<1>1. IsFiniteSet(Ids)
  BY QueueAssumption, FS_Interval DEF Ids
<1> QED
  BY <1>1, FS_Subset DEF Tasks

\* move_entry() keeps every task filed exactly once and loses none.
LEMMA MoveEntryLists ==
  ASSUME ListsType, TasksFiled, IdsUsed,
         NEW from \in Queues, NEW to \in Queues, from # to,
         NEW e \in Elems(from), MoveEntry(e, from, to)
  PROVE  /\ ListsType' /\ TasksFiled' /\ IdsUsed'
         /\ Elems(from)' = Elems(from) \ {e}
         /\ Elems(to)' = Elems(to) \union {e}
         /\ \A q \in Queues \ {from, to} : Elems(q)' = Elems(q)
<1>1. /\ queue[from] \in Seq(Ids) /\ queue[to] \in Seq(Ids)
      /\ e \in Ids /\ e \in ToSet(queue[from])
      /\ NoDuplicates(queue[from]) /\ NoDuplicates(queue[to])
      /\ e \notin ToSet(queue[to])
  BY ElemsAreIds DEF TasksFiled, Elems
<1>2. /\ Unlink(queue[from], e) \in Seq(Ids)
      /\ ToSet(Unlink(queue[from], e)) = ToSet(queue[from]) \ {e}
      /\ NoDuplicates(Unlink(queue[from], e))
  BY <1>1, UnlinkElems
<1>3. /\ Append(queue[to], e) \in Seq(Ids)
      /\ ToSet(Append(queue[to], e)) = ToSet(queue[to]) \union {e}
      /\ NoDuplicates(Append(queue[to], e))
  BY <1>1, AppendElems
<1>4. /\ queue' \in [Queues -> Seq(Ids)]
      /\ queue'[from] = Unlink(queue[from], e)
      /\ queue'[to] = Append(queue[to], e)
      /\ \A q \in Queues \ {from, to} : queue'[q] = queue[q]
  BY <1>2, <1>3 DEF MoveEntry, ListsType
<1>5. /\ Elems(from)' = Elems(from) \ {e}
      /\ Elems(to)' = Elems(to) \union {e}
      /\ \A q \in Queues \ {from, to} : Elems(q)' = Elems(q)
  BY <1>2, <1>3, <1>4 DEF Elems
<1>6. ListsType'
  <2>1. NextSelected(queue[from], selected_id[from], e) \in Ids \union {TASKQ_NONE}
    BY <1>1, NextSelectedType DEF ListsType
  <2>2. selected_id' \in [Queues -> Ids \union {TASKQ_NONE}]
    BY <2>1 DEF MoveEntry, ListsType
  <2> QED
    BY <1>4, <2>2 DEF MoveEntry, ListsType
<1>7. IdsUsed'
  BY <1>5 DEF IdsUsed, MoveEntry
<1>8. TasksFiled'
  <2>1. \A q \in Queues : NoDuplicates(queue'[q])
    BY <1>2, <1>3, <1>4 DEF TasksFiled
  <2>2. \A p, q \in Queues : p # q => Elems(p)' \intersect Elems(q)' = {}
    BY <1>5 DEF TasksFiled
  <2>3. \A x : InMap(x)' <=> InMap(x)
    BY <1>5 DEF InMap
  <2>4. {x \in Ids : InMap(x)'} = {x \in Ids : InMap(x)}
    BY <2>3
  <2>5. entry_count' = Cardinality({x \in Ids : InMap(x)'})
    BY <2>4 DEF MoveEntry, TasksFiled
  <2> QED
    BY <2>1, <2>2, <2>5 DEF TasksFiled
<1> QED
  BY <1>5, <1>6, <1>7, <1>8

\* remove_entry_impl() takes one task out and counts it out.
LEMMA DropEntryLists ==
  ASSUME ListsType, TasksFiled, IdsUsed,
         NEW from \in Queues, NEW e \in Elems(from), DropEntry(e, from)
  PROVE  /\ ListsType' /\ TasksFiled' /\ IdsUsed'
         /\ Elems(from)' = Elems(from) \ {e}
         /\ \A q \in Queues \ {from} : Elems(q)' = Elems(q)
<1>1. /\ queue[from] \in Seq(Ids)
      /\ e \in Ids /\ e \in ToSet(queue[from])
      /\ NoDuplicates(queue[from])
  BY ElemsAreIds DEF TasksFiled, Elems
<1>2. /\ Unlink(queue[from], e) \in Seq(Ids)
      /\ ToSet(Unlink(queue[from], e)) = ToSet(queue[from]) \ {e}
      /\ NoDuplicates(Unlink(queue[from], e))
  BY <1>1, UnlinkElems
<1>3. /\ queue' \in [Queues -> Seq(Ids)]
      /\ queue'[from] = Unlink(queue[from], e)
      /\ \A q \in Queues \ {from} : queue'[q] = queue[q]
  BY <1>2 DEF DropEntry, ListsType
<1>4. /\ Elems(from)' = Elems(from) \ {e}
      /\ \A q \in Queues \ {from} : Elems(q)' = Elems(q)
  BY <1>2, <1>3 DEF Elems
<1>5. ListsType'
  <2>1. NextSelected(queue[from], selected_id[from], e) \in Ids \union {TASKQ_NONE}
    BY <1>1, NextSelectedType DEF ListsType
  <2>2. selected_id' \in [Queues -> Ids \union {TASKQ_NONE}]
    BY <2>1 DEF DropEntry, ListsType
  <2>3. entry_count' \in Int
    BY DEF DropEntry, ListsType
  <2> QED
    BY <1>3, <2>2, <2>3 DEF DropEntry, ListsType
<1>6. IdsUsed'
  BY <1>4 DEF IdsUsed, DropEntry
<1>7. TasksFiled'
  <2>1. \A q \in Queues : NoDuplicates(queue'[q])
    BY <1>2, <1>3 DEF TasksFiled
  <2>2. \A p, q \in Queues : p # q => Elems(p)' \intersect Elems(q)' = {}
    BY <1>4 DEF TasksFiled
  <2>3. \A x : InMap(x)' <=> InMap(x) /\ x # e
    BY <1>4 DEF InMap, TasksFiled
  <2>4. Tasks' = Tasks \ {e} /\ e \in Tasks
    BY <1>1, <2>3 DEF Tasks, InMap, Elems
  <2>5. Cardinality(Tasks \ {e}) = Cardinality(Tasks) - 1
    BY <2>4, TasksFinite, FS_RemoveElement
  <2>6. (entry_count = Cardinality({x \in Ids : InMap(x)}))'
    BY <2>4, <2>5 DEF DropEntry, TasksFiled, Tasks
  <2> QED
    BY <2>1, <2>2, <2>6 DEF TasksFiled
<1> QED
  BY <1>4, <1>5, <1>6, <1>7

\* add_entry() files a new task under an id that was never used.
LEMMA AddEntryLists ==
  ASSUME ListsType, TasksFiled, IdsUsed, NEW activate \in BOOLEAN, AddEntry(activate)
  PROVE  /\ ListsType' /\ TasksFiled' /\ IdsUsed'
         /\ Elems("active")' = Elems("active")
<1> DEFINE to == IF activate THEN "ready" ELSE "wait"
<1>1. to \in Queues /\ to # "active"
  BY DEF Queues
<1>2. next_id \in Ids /\ queue[to] \in Seq(Ids) /\ next_id' = next_id + 1
      /\ next_id \in Nat /\ next_id < MaxTasks
  BY <1>1, QueueAssumption DEF AddEntry, ListsType, Ids
<1>3. \A q \in Queues : next_id \notin Elems(q)
  BY <1>2 DEF IdsUsed
<1>4. queue' = [queue EXCEPT ![to] = Append(@, next_id)]
  BY DEF AddEntry
<1> HIDE DEF to
<1>5. /\ Append(queue[to], next_id) \in Seq(Ids)
      /\ ToSet(Append(queue[to], next_id)) = ToSet(queue[to]) \union {next_id}
      /\ NoDuplicates(Append(queue[to], next_id))
  BY <1>1, <1>2, <1>3, AppendElems DEF TasksFiled, Elems
<1>6. /\ queue' \in [Queues -> Seq(Ids)]
      /\ queue'[to] = Append(queue[to], next_id)
      /\ \A q \in Queues \ {to} : queue'[q] = queue[q]
  BY <1>1, <1>4, <1>5 DEF ListsType
<1>7. /\ Elems(to)' = Elems(to) \union {next_id}
      /\ \A q \in Queues \ {to} : Elems(q)' = Elems(q)
  <2>1. ToSet(queue'[to]) = Elems(to) \union {next_id}
    BY <1>5, <1>6 DEF Elems
  <2>2. \A q \in Queues \ {to} : ToSet(queue'[q]) = Elems(q)
    BY <1>6 DEF Elems
  <2> QED
    BY <2>1, <2>2 DEF Elems, to
<1>8. ListsType'
  BY <1>2, <1>6, QueueAssumption DEF AddEntry, ListsType
<1>9. IdsUsed'
  <2> SUFFICES ASSUME NEW q \in Queues, NEW x \in Elems(q)' PROVE x < next_id'
    BY DEF IdsUsed
  <2>1. x = next_id \/ x \in Elems(q)
    BY <1>7
  <2>2. x \in Elems(q) => x < next_id /\ x \in Ids
    BY ElemsAreIds DEF IdsUsed
  <2> QED
    BY <1>2, <2>1, <2>2 DEF Ids
<1>10. TasksFiled'
  <2>1. \A q \in Queues : NoDuplicates(queue'[q])
    BY <1>5, <1>6 DEF TasksFiled
  <2>2. \A p, q \in Queues : p # q => Elems(p)' \intersect Elems(q)' = {}
    BY <1>3, <1>7 DEF TasksFiled
  <2>3. \A x : InMap(x)' <=> InMap(x) \/ x = next_id
    BY <1>1, <1>7 DEF InMap
  <2>4. Tasks' = Tasks \union {next_id} /\ next_id \notin Tasks
    BY <1>2, <1>3, <2>3 DEF Tasks, InMap
  <2>5. Cardinality(Tasks \union {next_id}) = Cardinality(Tasks) + 1
    BY <2>4, TasksFinite, FS_AddElement
  <2>6. (entry_count = Cardinality({x \in Ids : InMap(x)}))'
    BY <2>4, <2>5 DEF AddEntry, TasksFiled, Tasks
  <2> QED
    BY <2>1, <2>2, <2>6 DEF TasksFiled
<1> QED
  BY <1>1, <1>7, <1>8, <1>9, <1>10 DEF Queues

\* A step that leaves the lists alone leaves alone what is said of them.
LEMMA ListsUnchanged ==
  ASSUME ListsType, TasksFiled, IdsUsed, UNCHANGED lists
  PROVE  ListsType' /\ TasksFiled' /\ IdsUsed' /\ Elems("active")' = Elems("active")
  BY DEF ListsType, TasksFiled, IdsUsed, lists, Elems, InMap

-----------------------------------------------------------------------------
(* The steps of Next *)

\* Every task stays filed once and counted, whatever operation runs.
LEMMA ListsStep ==
  ASSUME IInv, [Next]_vars
  PROVE  ListsType' /\ TasksFiled' /\ IdsUsed'
<1> USE DEF IInv, TypeOK
<1>1. ASSUME NEW activate \in BOOLEAN, AddEntry(activate)
      PROVE  ListsType' /\ TasksFiled' /\ IdsUsed'
  BY <1>1, AddEntryLists
<1>2. ASSUME NEW e \in Ids, RemoveEntry(e) PROVE ListsType' /\ TasksFiled' /\ IdsUsed'
  <2>1. PICK q \in Queues : e \in Elems(q) /\ DropEntry(e, q)
    BY <1>2 DEF RemoveEntry
  <2> QED
    BY <2>1, DropEntryLists
<1>3. ASSUME NEW e \in Ids, ActivateEntry(e) \/ InactivateEntry(e)
      PROVE  ListsType' /\ TasksFiled' /\ IdsUsed'
  <2>1. PICK p, q \in Queues : p # q /\ e \in Elems(p) /\ MoveEntry(e, p, q)
    BY <1>3 DEF ActivateEntry, InactivateEntry, Queues
  <2> QED
    BY <2>1, MoveEntryLists
<1>4. ASSUME NEW q \in CursorQueues, NEW id \in Elems(q) \union {TASKQ_NONE},
             SetSelectedId(q, id)
      PROVE  ListsType' /\ TasksFiled' /\ IdsUsed'
  <2>1. q \in Queues /\ id \in Ids \union {TASKQ_NONE}
    BY QueueAssumption, ElemsAreIds
  <2>2. selected_id' \in [Queues -> Ids \union {TASKQ_NONE}]
    BY <1>4, <2>1 DEF SetSelectedId, ListsType
  <2>3. UNCHANGED <<queue, next_id, entry_count>>
    BY <1>4 DEF SetSelectedId
  <2> QED
    BY <2>2, <2>3 DEF ListsType, TasksFiled, IdsUsed, Elems, InMap
<1>5. ASSUME NEW s \in Slots, WorkerTake(s) \/ WorkerTakeNoMemory(s)
      PROVE  ListsType' /\ TasksFiled' /\ IdsUsed'
  <2>1. queue["ready"] \in Seq(Ids) /\ queue["ready"] # <<>>
    BY <1>5, ElemsAreIds DEF WorkerTake, WorkerTakeNoMemory, Queues
  <2>2. Head(queue["ready"]) \in Elems("ready")
    BY <2>1 DEF Elems, ToSet
  <2>3. PICK e \in Elems("ready") : e = Head(queue["ready"])
    BY <2>2
  <2>4. PICK q \in Queues : q # "ready" /\ MoveEntry(e, "ready", q)
    BY <1>5, <2>3 DEF WorkerTake, WorkerTakeNoMemory, Queues
  <2> QED
    BY <2>4, MoveEntryLists DEF Queues
<1>6. ASSUME NEW s \in Slots, WorkerEnd(s), fate # "aborted"
      PROVE  ListsType' /\ TasksFiled' /\ IdsUsed'
  <2>1. PICK e \in Elems("active") : e = worker[s].task
    BY <1>6 DEF WorkerEnd, ActiveTasksExecuting, Executing
  <2>2. DropEntry(e, "active") \/ MoveEntry(e, "active", "ended")
    BY <1>6, <2>1 DEF WorkerEnd, FileEnded
  <2> QED
    BY <2>2, DropEntryLists, MoveEntryLists DEF Queues
<1>7. UNCHANGED lists => ListsType' /\ TasksFiled' /\ IdsUsed'
  BY ListsUnchanged
<1> QED
  BY <1>1, <1>2, <1>3, <1>4, <1>5, <1>6, <1>7
     DEF Next, UiCalls, UiProceeds, WorkerProceeds, WorkerFails, Processes, Stopped, vars,
         TerminateTask, SetDiscard, BeginShutdown, ScheduleThread, ScheduleDone,
         TerminateLoadStatus, TerminateDisableSpawn, TerminateKill, TerminateDone,
         JoinThreads, WorkerStart, WorkerExit, ExecuteSpawn, ReadOutput, WaitPid,
         ThreadReturn, ExecuteThrows, ProcessEnds, OutputCloses

\* A live worker is counted: with active_count = 0 all slots would be free, since
\* an injection of the slots into themselves reaches every slot.
LEMMA LiveWorkerCounted ==
  ASSUME SlotsType, SlotStack, NEW s \in Slots, worker[s].pc \notin Idle
  PROVE  active_count \in 1 .. MAX_ACTIVE_COUNT
<1> SUFFICES ASSUME active_count = 0 PROVE FALSE
  BY QueueAssumption DEF SlotsType
<1>1. worker_slot_mgr \in Injection(Slots, Slots)
  BY QueueAssumption DEF SlotsType, SlotStack, Slots, Injection, IsInjective
<1>2. IsFiniteSet(Slots)
  BY QueueAssumption, FS_Interval DEF Slots
<1>3. worker_slot_mgr \in Surjection(Slots, Slots)
  BY <1>1, <1>2, FS_Injection
<1>4. \E i \in Slots : worker_slot_mgr[i] = s
  BY <1>3 DEF Surjection
<1> QED
  BY <1>4, QueueAssumption DEF SlotStack, Slots

\* ~WorkerGuard() gives back the slot of its worker.
LEMMA SlotReleased ==
  ASSUME TypeOK, SlotStack, NEW s \in Slots, worker[s].pc \notin Idle, ReleaseSlot(s)
  PROVE  SlotsType' /\ SlotStack'
<1>1. active_count \in 1 .. MAX_ACTIVE_COUNT
  BY LiveWorkerCounted DEF TypeOK
<1>2. /\ active_count' = active_count - 1
      /\ active_count - 1 \in Slots
      /\ worker_slot_mgr' = [worker_slot_mgr EXCEPT ![active_count - 1] = s]
  BY <1>1, QueueAssumption DEF ReleaseSlot, Slots
<1>3. /\ worker'[s].pc \in Idle
      /\ \A w \in Slots \ {s} : worker'[w].pc = worker[w].pc
  BY DEF ReleaseSlot, WorkerOn, TypeOK, ThreadsType, Idle
<1>4. SlotsType'
  BY <1>1, <1>2, QueueAssumption DEF TypeOK, SlotsType, Slots
<1>5. SlotStack'
  <2> DEFINE free == active_count .. MAX_ACTIVE_COUNT - 1
             freed == active_count - 1 .. MAX_ACTIVE_COUNT - 1
  <2>1. free \subseteq Slots /\ freed = free \union {active_count - 1}
        /\ active_count - 1 \notin free
    BY <1>1, QueueAssumption DEF Slots
  <2>2. /\ \A i \in free : worker_slot_mgr'[i] = worker_slot_mgr[i]
        /\ worker_slot_mgr'[active_count - 1] = s
    BY <1>2, <2>1 DEF TypeOK, SlotsType
  <2>3. \A i \in free : worker_slot_mgr[i] # s
    BY DEF SlotStack
  <2>4. \A i, j \in freed : i # j => worker_slot_mgr'[i] # worker_slot_mgr'[j]
    <3>1. \A i, j \in free : i # j => worker_slot_mgr[i] # worker_slot_mgr[j]
      BY DEF SlotStack
    <3> HIDE DEF free, freed
    <3> QED
      BY <2>1, <2>2, <2>3, <3>1
  <2>5. \A w \in Slots : worker'[w].pc \in Idle <=> \E i \in freed : worker_slot_mgr'[i] = w
    <3>1. \A w \in Slots : worker[w].pc \in Idle <=> \E i \in free : worker_slot_mgr[i] = w
      BY DEF SlotStack
    <3> HIDE DEF free, freed
    <3> QED
      BY <1>3, <2>1, <2>2, <3>1
  <2> QED
    BY <1>2, <2>4, <2>5 DEF SlotStack
<1> QED
  BY <1>4, <1>5

\* Slots are taken and given back only at the top of the free stack.
LEMMA SlotsStep ==
  ASSUME IInv, [Next]_vars
  PROVE  SlotsType' /\ SlotStack'
<1> USE DEF IInv, TypeOK
<1>1. ASSUME ScheduleThread PROVE SlotsType' /\ SlotStack'
  <2>1. active_count < MAX_ACTIVE_COUNT /\ active_count \in Slots
        /\ active_count' = active_count + 1 /\ worker_slot_mgr' = worker_slot_mgr
    <3>1. QueueCount > active_count /\ QueueCount \in Int /\ QueueCount <= MAX_ACTIVE_COUNT
      <4>1. Len(queue["ready"]) \in Nat /\ Len(queue["active"]) \in Nat
        BY ElemsAreIds, LenProperties DEF Queues
      <4>2. PICK r, a \in Nat : r = Len(queue["ready"]) /\ a = Len(queue["active"])
        BY <4>1, Zenon
      <4>3. QueueCount = IF r + a < MAX_ACTIVE_COUNT THEN r + a ELSE MAX_ACTIVE_COUNT
        BY <4>2, Zenon DEF QueueCount
      <4>4. QueueCount \in Int /\ QueueCount <= MAX_ACTIVE_COUNT
        BY <4>3, QueueAssumption
      <4> QED
        BY <1>1, <4>4 DEF ScheduleThread
    <3> QED
      BY <1>1, <3>1, QueueAssumption DEF ScheduleThread, SlotsType, Slots
  <2>2. PICK slot \in Slots : slot = worker_slot_mgr[active_count]
    BY <2>1 DEF SlotsType
  <2>3. /\ worker'[slot].pc \notin Idle
        /\ \A w \in Slots \ {slot} : worker'[w].pc = worker[w].pc
    BY <1>1, <2>2 DEF ScheduleThread, ThreadsType, Idle
  <2>4. SlotsType'
    BY <2>1, QueueAssumption DEF SlotsType, Slots
  <2>5. SlotStack'
    <3> DEFINE free == active_count .. MAX_ACTIVE_COUNT - 1
               left == active_count + 1 .. MAX_ACTIVE_COUNT - 1
    <3>1. free = left \union {active_count} /\ active_count \notin left
      BY <2>1, QueueAssumption DEF SlotsType
    <3>2. \A i, j \in free : i # j => worker_slot_mgr[i] # worker_slot_mgr[j]
      BY DEF SlotStack
    <3>3. \A w \in Slots : worker[w].pc \in Idle <=> \E i \in free : worker_slot_mgr[i] = w
      BY DEF SlotStack
    <3>4. \A w \in Slots : worker'[w].pc \in Idle <=> \E i \in left : worker_slot_mgr[i] = w
      <4> HIDE DEF free, left
      <4> QED
        BY <2>2, <2>3, <3>1, <3>2, <3>3
    <3> QED
      BY <2>1, <3>1, <3>2, <3>4 DEF SlotStack
  <2> QED
    BY <2>4, <2>5
<1>2. ASSUME NEW s \in Slots, ReleaseSlot(s), worker[s].pc \in {"loop", "ending"}
      PROVE  SlotsType' /\ SlotStack'
  BY <1>2, SlotReleased DEF Idle
<1>3. ASSUME UNCHANGED slots,
             \A s \in Slots : worker'[s].pc \in Idle <=> worker[s].pc \in Idle
      PROVE  SlotsType' /\ SlotStack'
  BY <1>3 DEF slots, SlotsType, SlotStack
<1>4. UNCHANGED <<slots, worker>> => SlotsType' /\ SlotStack'
  BY <1>3
<1>5. ASSUME NEW s \in Slots, WorkerProceeds(s) PROVE SlotsType' /\ SlotStack'
  <2>1. CASE WorkerExit(s)
    BY <2>1, <1>2 DEF WorkerExit
  <2>2. CASE WorkerEnd(s)
    <3>1. CASE ReleaseSlot(s)
      BY <2>2, <3>1, <1>2 DEF WorkerEnd
    <3>2. CASE worker' = WorkerOn(s, "loop", NoTask) /\ UNCHANGED slots
      BY <2>2, <3>2, <1>3 DEF WorkerEnd, WorkerOn, ThreadsType, Idle
    <3>3. CASE UNCHANGED <<slots, worker>>
      BY <3>3, <1>4
    <3> QED
      BY <2>2, <3>1, <3>2, <3>3 DEF WorkerEnd
  <2>3. CASE WorkerStart(s)
    BY <2>3, <1>3 DEF WorkerStart, WorkerAt, ThreadsType, Idle
  <2>4. CASE WorkerTake(s)
    BY <2>4, <1>3 DEF WorkerTake, WorkerOn, ThreadsType, Idle
  <2>5. ASSUME NEW spawn_ok \in BOOLEAN, ExecuteSpawn(s, spawn_ok)
        PROVE  SlotsType' /\ SlotStack'
    BY <2>5, <1>3 DEF ExecuteSpawn, WorkerAt, ThreadsType, Idle
  <2>6. CASE ReadOutput(s) \/ WaitPid(s) \/ ThreadReturn(s)
    BY <2>6, <1>3 DEF ReadOutput, WaitPid, ThreadReturn, WorkerAt, ThreadsType, Idle
  <2> QED
    BY <1>5, <2>1, <2>2, <2>3, <2>4, <2>5, <2>6 DEF WorkerProceeds
<1>6. ASSUME NEW s \in Slots, WorkerFails(s) PROVE SlotsType' /\ SlotStack'
  <2>1. CASE WorkerTakeNoMemory(s)
    BY <2>1, <1>2 DEF WorkerTakeNoMemory
  <2>2. ASSUME NEW exc, ExecuteThrows(s, exc) PROVE SlotsType' /\ SlotStack'
    BY <2>2, <1>3 DEF ExecuteThrows, ThreadsType, Idle
  <2> QED
    BY <1>6, <2>1, <2>2 DEF WorkerFails
<1>7. UiCalls => UNCHANGED <<slots, worker>>
  BY DEF UiCalls, AddEntry, RemoveEntry, ActivateEntry, InactivateEntry, TerminateTask,
         SetDiscard, SetSelectedId, BeginShutdown
<1>8. UiProceeds /\ ~ScheduleThread => UNCHANGED <<slots, worker>>
  BY DEF UiProceeds, ScheduleDone, TerminateLoadStatus, TerminateDisableSpawn,
         TerminateKill, TerminateDone, JoinThreads
<1>9. Processes \/ Stopped \/ UNCHANGED vars => UNCHANGED <<slots, worker>>
  BY DEF Processes, ProcessEnds, OutputCloses, Stopped, vars
<1> QED
  BY <1>1, <1>4, <1>5, <1>6, <1>7, <1>8, <1>9 DEF Next

\* A task handed to a worker is a task of the ready queue.
LEMMA HeadOfReady ==
  ASSUME ListsType, queue["ready"] # <<>>
  PROVE  Head(queue["ready"]) \in Elems("ready") /\ Head(queue["ready"]) \in Ids
<1>1. queue["ready"] \in Seq(Ids)
  BY ElemsAreIds DEF Queues
<1>2. Head(queue["ready"]) \in Ids
  BY <1>1, HeadTailProperties
<1>3. Head(queue["ready"]) \in Elems("ready")
  BY <1>1 DEF Elems, ToSet
<1> QED
  BY <1>2, <1>3

\* The threads, the lock, the process handlers and the modes keep their types.
LEMMA ThreadsStep ==
  ASSUME IInv, [Next]_vars
  PROVE  ThreadsType'
<1> USE DEF IInv, TypeOK
<1> DEFINE
      Worker  == [pc : WorkerPcs, task : Ids \union {NoTask},
                  exc : {"none", "bad_alloc", "subprocess"}]
      UiState == [pc : UiPcs, targets : Seq(Ids), status : ExitStatus, pid : BOOLEAN]
<1>1. ASSUME NEW e \in Ids, NEW h \in Handler
      PROVE  [process EXCEPT ![e] = h] \in [Ids -> Handler]
  BY DEF ThreadsType
<1>2. ASSUME NEW s \in Slots, NEW w \in Worker
      PROVE  [worker EXCEPT ![s] = w] \in [Slots -> Worker]
  BY DEF ThreadsType
<1>3. NewHandler \in Handler
      /\ \A x \in ExitStatus : [NewHandler EXCEPT !.exit_status = x] \in Handler
  BY DEF NewHandler, Handler, ExitStatus
<1> DEFINE Update(h) ==
      {[h EXCEPT !.enable_spawn = FALSE], [h EXCEPT !.killed = TRUE, !.woken = TRUE],
       [h EXCEPT !.pid = TRUE, !.os = "running", !.output = TRUE],
       [h EXCEPT !.output = FALSE]}
      \union {[h EXCEPT !.exit_status = x] : x \in ExitStatus}
      \union {[h EXCEPT !.os = how] : how \in {"zero", "nonzero", "signaled"}}
<1>3a. ASSUME NEW h \in Handler PROVE Update(h) \subseteq Handler
  <2>1. [h EXCEPT !.enable_spawn = FALSE] \in Handler
    BY DEF Handler
  <2>2. [h EXCEPT !.killed = TRUE, !.woken = TRUE] \in Handler
    BY DEF Handler
  <2>3. [h EXCEPT !.pid = TRUE, !.os = "running", !.output = TRUE] \in Handler
    BY DEF Handler
  <2>4. [h EXCEPT !.output = FALSE] \in Handler
    BY DEF Handler
  <2>5. \A x \in ExitStatus : [h EXCEPT !.exit_status = x] \in Handler
    BY DEF Handler
  <2>6. \A how \in {"zero", "nonzero", "signaled"} : [h EXCEPT !.os = how] \in Handler
    BY DEF Handler
  <2> QED
    BY ONLY <2>1, <2>2, <2>3, <2>4, <2>5, <2>6
<1>3b. ASSUME NEW e \in Ids, \E h \in Update(process[e]) : process' = [process EXCEPT ![e] = h]
       PROVE  process' \in [Ids -> Handler]
  <2>1. process[e] \in Handler
    BY DEF ThreadsType
  <2> HIDE DEF Update
  <2> QED
    BY <1>1, <1>3a, <1>3b, <2>1
<1>4. ASSUME NEW pc \in UiPcs, NEW t \in Seq(Ids), UiGoto(pc, t) PROVE ui' \in UiState
  BY <1>4 DEF UiGoto, ExitStatus
<1>5. UiCalls => ThreadsType'
  <2>1. ASSUME NEW activate \in BOOLEAN, AddEntry(activate) PROVE ThreadsType'
    BY <2>1, <1>4, EmptySeq DEF AddEntry, ThreadsType, modes, UiPcs
  <2>2. ASSUME NEW e \in Ids, RemoveEntry(e) PROVE ThreadsType'
    BY <2>2, <1>1, <1>3 DEF RemoveEntry, DropEntry, ThreadsType, modes
  <2>3. ASSUME NEW e \in Ids, ActivateEntry(e) \/ InactivateEntry(e) PROVE ThreadsType'
    BY <2>3, <1>4, EmptySeq DEF ActivateEntry, InactivateEntry, ThreadsType, modes, UiPcs
  <2>4. ASSUME NEW e \in Ids, TerminateTask(e) PROVE ThreadsType'
    <3>1. <<e>> \in Seq(Ids)
      OBVIOUS
    <3>2. ui' \in UiState
      BY <2>4, <3>1, <1>4 DEF TerminateTask, UiPcs
    <3> QED
      BY <2>4, <3>2 DEF TerminateTask, ThreadsType, modes
  <2>5. ASSUME NEW flags \in DiscardModes, SetDiscard(flags) PROVE ThreadsType'
    BY <2>5, QueueAssumption DEF SetDiscard, ThreadsType
  <2>6. ASSUME NEW q, NEW id, SetSelectedId(q, id) PROVE ThreadsType'
    BY <2>6 DEF SetSelectedId, ThreadsType, modes
  <2>7. CASE BeginShutdown
    <3>1. queue["active"] \in Seq(Ids)
      BY ElemsAreIds DEF Queues
    <3> QED
      BY <2>7, <3>1, <1>4 DEF BeginShutdown, ThreadsType, UiPcs
  <2> QED
    BY <2>1, <2>2, <2>3, <2>4, <2>5, <2>6, <2>7 DEF UiCalls
<1>6. UiProceeds => ThreadsType'
  <2>1. CASE ScheduleThread
    <3>1. PICK slot : worker' = [worker EXCEPT ![slot].pc = "starting"]
      BY <2>1 DEF ScheduleThread
    <3>2. worker' \in [Slots -> Worker]
      BY <3>1 DEF ThreadsType, WorkerPcs
    <3> QED
      BY <2>1, <3>2 DEF ScheduleThread, ThreadsType, modes
  <2>2. CASE ScheduleDone
    BY <2>2, <1>4, EmptySeq DEF ScheduleDone, ThreadsType, modes, UiPcs
  <2>3. CASE TerminateLoadStatus
    <3>1. PICK e \in Ids : e = Head(ui.targets)
      BY <2>3, HeadTailProperties DEF TerminateLoadStatus, ThreadsType
    <3>2. process[e].exit_status \in ExitStatus
      BY DEF ThreadsType, Handler
    <3> QED
      BY <2>3, <3>1, <3>2 DEF TerminateLoadStatus, ThreadsType, modes, UiPcs
  <2>4. CASE TerminateDisableSpawn
    <3>1. PICK e \in Ids : e = Head(ui.targets)
      BY <2>4, HeadTailProperties DEF TerminateDisableSpawn, ThreadsType, TargetsLeft
    <3>2. process[e].pid \in BOOLEAN /\ process' \in [Ids -> Handler]
      BY <2>4, <3>1, <1>3b DEF TerminateDisableSpawn, ThreadsType, Handler
    <3>3. ui' \in UiState
      BY <2>4, <3>1, <3>2 DEF TerminateDisableSpawn, ThreadsType, UiPcs
    <3> QED
      BY <2>4, <3>2, <3>3 DEF TerminateDisableSpawn, ThreadsType, modes
  <2>5. CASE TerminateKill
    <3>1. Tail(ui.targets) \in Seq(Ids)
      BY <2>5, HeadTailProperties DEF TerminateKill, ThreadsType, TargetsLeft
    <3>2. process' \in [Ids -> Handler]
      <4>1. PICK e \in Ids : e = Head(ui.targets)
        BY <2>5, HeadTailProperties DEF TerminateKill, ThreadsType, TargetsLeft
      <4>2. CASE process' = [process EXCEPT ![e] = [@ EXCEPT !.killed = TRUE, !.woken = TRUE]]
        BY <4>2, <1>3b
      <4> QED
        BY <2>5, <4>1, <4>2 DEF TerminateKill, ThreadsType
    <3> QED
      BY <2>5, <3>1, <3>2, <1>4 DEF TerminateKill, ThreadsType, modes, UiPcs
  <2>6. CASE TerminateDone \/ JoinThreads
    BY <2>6, <1>4, EmptySeq DEF TerminateDone, JoinThreads, ThreadsType, modes, UiPcs
  <2> QED
    BY <2>1, <2>2, <2>3, <2>4, <2>5, <2>6 DEF UiProceeds
<1>7. ASSUME NEW s \in Slots, ReleaseSlot(s)
      PROVE  worker' \in [Slots -> Worker] /\ queue_lock' \in Slots \union {Free, Ui}
  BY <1>7, <1>2 DEF ReleaseSlot, WorkerOn, WorkerPcs, Idle
<1>8. ASSUME NEW s \in Slots, NEW pc \in WorkerPcs, worker' = WorkerAt(s, pc)
      PROVE  worker' \in [Slots -> Worker]
  BY <1>8 DEF WorkerAt, ThreadsType
<1>9. ASSUME NEW s \in Slots, WorkerProceeds(s) \/ WorkerFails(s), fate # "aborted"
      PROVE  ThreadsType'
  <2>0. worker[s].pc \in Executing => worker[s].task \in Ids
    BY <1>9, ElemsAreIds DEF ActiveTasksExecuting, Queues
  <2>1. CASE WorkerStart(s)
    BY <2>1, <1>8 DEF WorkerStart, ThreadsType, modes, WorkerPcs
  <2>2. CASE WorkerExit(s)
    BY <2>2, <1>7 DEF WorkerExit, ThreadsType, modes
  <2>3. CASE WorkerTake(s)
    <3>1. worker' \in [Slots -> Worker]
      BY <2>3, <1>2, HeadOfReady DEF WorkerTake, WorkerOn, WorkerPcs, Executing
    <3> QED
      BY <2>3, <3>1 DEF WorkerTake, ThreadsType, modes
  <2>4. CASE WorkerTakeNoMemory(s)
    BY <2>4, <1>7 DEF WorkerTakeNoMemory, ThreadsType
  <2>5. ASSUME NEW exc \in {"bad_alloc", "subprocess"}, ExecuteThrows(s, exc)
        PROVE  ThreadsType'
    BY <2>5 DEF ExecuteThrows, ThreadsType, modes, WorkerPcs, Executing
  <2>6. ASSUME NEW spawn_ok \in BOOLEAN, ExecuteSpawn(s, spawn_ok) PROVE ThreadsType'
    <3>1. process' \in [Ids -> Handler]
      <4>1. PICK e \in Ids : e = worker[s].task
        BY <2>0, <2>6 DEF ExecuteSpawn, Executing
      <4>2. CASE process' = [process EXCEPT ![e] =
                  [@ EXCEPT !.pid = TRUE, !.os = "running", !.output = TRUE]]
        BY <4>2, <1>3b
      <4> QED
        BY <2>6, <4>1, <4>2 DEF ExecuteSpawn, ThreadsType
    <3>2. worker' \in [Slots -> Worker]
      BY <2>6, <1>8 DEF ExecuteSpawn, WorkerPcs, Executing
    <3> QED
      BY <2>6, <3>1, <3>2 DEF ExecuteSpawn, ThreadsType, modes
  <2>7. CASE ReadOutput(s) \/ ThreadReturn(s)
    BY <2>7, <1>8 DEF ReadOutput, ThreadReturn, ThreadsType, modes, WorkerPcs, Idle, Executing
  <2>8. CASE WaitPid(s)
    <3>1. process' \in [Ids -> Handler]
      <4>1. PICK e \in Ids : e = worker[s].task
        BY <2>0, <2>8 DEF WaitPid, Executing
      <4>2. PICK x \in ExitStatus : x = WExitStatus(process[e].os)
        BY DEF WExitStatus, ExitStatus
      <4>3. process' = [process EXCEPT ![e] = [@ EXCEPT !.exit_status = x]]
        BY <2>8, <4>1, <4>2 DEF WaitPid
      <4> QED
        BY <4>3, <1>3b
    <3> QED
      BY <2>8, <3>1, <1>8 DEF WaitPid, ThreadsType, modes, WorkerPcs, Executing
  <2>9. CASE WorkerEnd(s)
    <3>1. PICK e \in Elems("active") : e = worker[s].task
      BY <1>9, <2>9 DEF WorkerEnd, ActiveTasksExecuting, Executing
    <3>2. e \in Ids
      BY ElemsAreIds DEF Queues
    <3>3. process' \in [Ids -> Handler]
      <4>1. process[e].exit_status \in ExitStatus
        BY <3>2 DEF ThreadsType, Handler
      <4> QED
        BY <2>9, <3>1, <3>2, <4>1, <1>1, <1>3 DEF WorkerEnd, FileEnded, DropEntry
    <3>4. /\ worker' \in [Slots -> Worker]
          /\ queue_lock' \in Slots \union {Free, Ui}
          /\ fate' \in {"running", "oom", "aborted"}
      BY <2>9, <1>7, <1>2 DEF WorkerEnd, WorkerOn, WorkerPcs, ThreadsType
    <3> QED
      BY <2>9, <3>3, <3>4 DEF WorkerEnd, ThreadsType
  <2> QED
    BY <1>9, <2>1, <2>2, <2>3, <2>4, <2>5, <2>6, <2>7, <2>8, <2>9
       DEF WorkerProceeds, WorkerFails
<1>10. Processes => ThreadsType'
  <2>1. ASSUME NEW e \in Ids, NEW how \in {"zero", "nonzero", "signaled"}, ProcessEnds(e, how)
        PROVE  ThreadsType'
    <3>1. process' \in [Ids -> Handler]
      BY <2>1, <1>3b DEF ProcessEnds
    <3> QED
      BY <2>1, <3>1 DEF ProcessEnds, ThreadsType, modes
  <2>2. ASSUME NEW e \in Ids, OutputCloses(e) PROVE ThreadsType'
    <3>1. process' \in [Ids -> Handler]
      BY <2>2, <1>3b DEF OutputCloses
    <3> QED
      BY <2>2, <3>1 DEF OutputCloses, ThreadsType, modes
  <2> QED
    BY <2>1, <2>2, QueueAssumption DEF Processes
<1>11. Stopped \/ UNCHANGED vars => ThreadsType'
  BY DEF Stopped, vars, modes, ThreadsType
<1> QED
  BY <1>5, <1>6, <1>9, <1>10, <1>11 DEF Next

\* queue_lock has at most one owner, and the owner knows.
LEMMA LockStep ==
  ASSUME IInv, [Next]_vars
  PROVE  LockDiscipline'
<1> USE DEF IInv, TypeOK
<1> DEFINE UiLocked == {"sched", "term", "termLock", "termKill"}
<1>1. Slots \subseteq Nat /\ Free \notin Slots /\ Ui \notin Slots /\ Free # Ui
  BY QueueAssumption DEF Slots, Free, Ui
<1>2. ASSUME NEW s \in Slots, worker[s].pc = "loop" \/ queue_lock = Free, queue_lock' = Free,
             worker'[s].pc # "loop", ui' = ui,
             \A w \in Slots \ {s} : worker'[w].pc = worker[w].pc
      PROVE  LockDiscipline'
  BY <1>1, <1>2 DEF LockDiscipline
<1>3. ASSUME NEW s \in Slots, queue_lock = Free, queue_lock' = s,
             worker'[s].pc = "loop", ui' = ui,
             \A w \in Slots \ {s} : worker'[w].pc = worker[w].pc
      PROVE  LockDiscipline'
  BY <1>1, <1>3 DEF LockDiscipline
<1>4. ASSUME \A w \in Slots : worker'[w].pc = "loop" <=> worker[w].pc = "loop",
             UNCHANGED queue_lock, ui'.pc \in UiLocked <=> ui.pc \in UiLocked
      PROVE  LockDiscipline'
  BY <1>4 DEF LockDiscipline
<1>5. ASSUME UNCHANGED worker, queue_lock = Free, queue_lock' = Ui, ui'.pc \in UiLocked
      PROVE  LockDiscipline'
  BY <1>1, <1>5 DEF LockDiscipline
<1>6. ASSUME UNCHANGED worker, queue_lock = Ui, queue_lock' = Free, ui'.pc \notin UiLocked
      PROVE  LockDiscipline'
  BY <1>1, <1>6 DEF LockDiscipline
<1>7. UiCalls => LockDiscipline'
  <2>1. ASSUME NEW activate \in BOOLEAN, AddEntry(activate) PROVE LockDiscipline'
    BY <2>1, <1>4, <1>5 DEF AddEntry, UiIdle, UiGoto
  <2>2. ASSUME NEW e \in Ids, RemoveEntry(e) \/ InactivateEntry(e) PROVE LockDiscipline'
    BY <2>2, <1>4 DEF RemoveEntry, InactivateEntry
  <2>3. ASSUME NEW e \in Ids, ActivateEntry(e) \/ TerminateTask(e) PROVE LockDiscipline'
    BY <2>3, <1>5 DEF ActivateEntry, TerminateTask, UiIdle, UiGoto
  <2>4. ASSUME NEW flags, SetDiscard(flags) PROVE LockDiscipline'
    BY <2>4, <1>4 DEF SetDiscard
  <2>5. ASSUME NEW q, NEW id, SetSelectedId(q, id) PROVE LockDiscipline'
    BY <2>5, <1>4 DEF SetSelectedId
  <2>6. CASE BeginShutdown
    BY <2>6, <1>5 DEF BeginShutdown, UiIdle, UiGoto
  <2> QED
    BY <2>1, <2>2, <2>3, <2>4, <2>5, <2>6 DEF UiCalls
<1>8. UiProceeds => LockDiscipline'
  <2>1. CASE ScheduleThread
    <3> DEFINE slot == worker_slot_mgr[active_count]
    <3>1. /\ worker[slot].pc \in {"unused", "joinable"}
          /\ worker' = [worker EXCEPT ![slot].pc = "starting"]
      BY <2>1 DEF ScheduleThread
    <3> HIDE DEF slot
    <3>2. \A w \in Slots : worker'[w].pc = "loop" <=> worker[w].pc = "loop"
      BY <3>1 DEF ThreadsType
    <3> QED
      BY <2>1, <3>2, <1>4 DEF ScheduleThread
  <2>2. CASE ScheduleDone
    BY <2>2, <1>6 DEF ScheduleDone, UiGoto, LockDiscipline
  <2>3. CASE TerminateLoadStatus \/ TerminateDisableSpawn \/ TerminateKill
    <3>1. CASE TerminateLoadStatus
      BY <3>1, <1>4 DEF TerminateLoadStatus, ThreadsType
    <3>2. CASE TerminateDisableSpawn
      BY <3>2, <1>4 DEF TerminateDisableSpawn, ThreadsType
    <3>3. CASE TerminateKill
      BY <3>3, <1>4 DEF TerminateKill, UiGoto
    <3> QED
      BY <2>3, <3>1, <3>2, <3>3
  <2>4. CASE TerminateDone
    BY <2>4, <1>6 DEF TerminateDone, UiGoto, LockDiscipline
  <2>5. CASE JoinThreads
    BY <2>5, <1>4 DEF JoinThreads, UiGoto
  <2> QED
    BY <2>1, <2>2, <2>3, <2>4, <2>5 DEF UiProceeds
<1>9. ASSUME NEW s \in Slots, WorkerProceeds(s) \/ WorkerFails(s) PROVE LockDiscipline'
  <2>1. CASE WorkerStart(s)
    BY <2>1, <1>3 DEF WorkerStart, WorkerAt, ThreadsType
  <2>2. CASE WorkerExit(s) \/ WorkerTakeNoMemory(s)
    BY <2>2, <1>2 DEF WorkerExit, WorkerTakeNoMemory, ReleaseSlot, WorkerOn, ThreadsType
  <2>3. CASE WorkerTake(s)
    BY <2>3, <1>2 DEF WorkerTake, WorkerOn, ThreadsType
  <2>4. ASSUME NEW exc, ExecuteThrows(s, exc) PROVE LockDiscipline'
    BY <2>4, <1>4 DEF ExecuteThrows, ThreadsType
  <2>5. ASSUME NEW spawn_ok, ExecuteSpawn(s, spawn_ok) PROVE LockDiscipline'
    BY <2>5, <1>4 DEF ExecuteSpawn, WorkerAt, ThreadsType
  <2>6. CASE ReadOutput(s) \/ WaitPid(s) \/ ThreadReturn(s)
    BY <2>6, <1>4 DEF ReadOutput, WaitPid, ThreadReturn, WorkerAt, ThreadsType
  <2>7. CASE WorkerEnd(s)
    <3>1. CASE worker' = WorkerOn(s, "loop", NoTask) /\ queue_lock' = s
      BY <2>7, <3>1, <1>3 DEF WorkerEnd, WorkerOn, ThreadsType
    <3>2. CASE ReleaseSlot(s)
      BY <2>7, <3>2, <1>2 DEF WorkerEnd, ReleaseSlot, WorkerOn, ThreadsType
    <3>3. CASE UNCHANGED <<worker, queue_lock>>
      BY <2>7, <3>3, <1>4 DEF WorkerEnd
    <3> QED
      BY <2>7, <3>1, <3>2, <3>3 DEF WorkerEnd
  <2> QED
    BY <1>9, <2>1, <2>2, <2>3, <2>4, <2>5, <2>6, <2>7 DEF WorkerProceeds, WorkerFails
<1>10. Processes \/ Stopped \/ UNCHANGED vars => LockDiscipline'
  BY <1>4 DEF Processes, ProcessEnds, OutputCloses, Stopped, vars
<1> QED
  BY <1>7, <1>8, <1>9, <1>10 DEF Next

\* terminate() never runs out of tasks in the middle of one.
LEMMA TargetsStep ==
  ASSUME IInv, [Next]_vars
  PROVE  TargetsLeft'
<1> USE DEF IInv, TypeOK, TargetsLeft
<1>1. ASSUME NEW pc, NEW t, UiGoto(pc, t), pc \notin {"termLock", "termKill"}
      PROVE  TargetsLeft'
  BY <1>1 DEF UiGoto
<1>2. UNCHANGED ui => TargetsLeft'
  OBVIOUS
<1>3. UiCalls => TargetsLeft'
  <2>1. ASSUME NEW activate \in BOOLEAN, AddEntry(activate) PROVE TargetsLeft'
    BY <2>1, <1>1, <1>2 DEF AddEntry
  <2>2. ASSUME NEW e \in Ids, RemoveEntry(e) \/ InactivateEntry(e) PROVE TargetsLeft'
    BY <2>2, <1>2 DEF RemoveEntry, InactivateEntry
  <2>3. ASSUME NEW e \in Ids, ActivateEntry(e) \/ TerminateTask(e) PROVE TargetsLeft'
    BY <2>3, <1>1 DEF ActivateEntry, TerminateTask
  <2>4. CASE BeginShutdown
    BY <2>4, <1>1 DEF BeginShutdown
  <2> QED
    BY <1>2, <2>1, <2>2, <2>3, <2>4 DEF UiCalls, SetDiscard, SetSelectedId
<1>4. CASE TerminateLoadStatus \/ TerminateDisableSpawn
  BY <1>4 DEF TerminateLoadStatus, TerminateDisableSpawn, ThreadsType
<1>5. UiProceeds /\ ~TerminateLoadStatus /\ ~TerminateDisableSpawn => TargetsLeft'
  BY <1>1, <1>2 DEF UiProceeds, ScheduleThread, ScheduleDone, TerminateKill, TerminateDone,
                    JoinThreads
<1>6. ASSUME NEW s \in Slots, WorkerProceeds(s) \/ WorkerFails(s) PROVE TargetsLeft'
  BY <1>2, <1>6 DEF WorkerProceeds, WorkerFails, WorkerStart, WorkerExit, WorkerTake,
       ExecuteSpawn, ReadOutput, WaitPid, WorkerEnd, ThreadReturn, WorkerTakeNoMemory,
       ExecuteThrows
<1>7. Processes \/ Stopped \/ UNCHANGED vars => TargetsLeft'
  BY <1>2 DEF Processes, ProcessEnds, OutputCloses, Stopped, vars
<1> QED
  BY <1>3, <1>4, <1>5, <1>6, <1>7 DEF Next

\* The active queue and the tasks the workers execute change together.
LEMMA ActiveStep ==
  ASSUME IInv, [Next]_vars
  PROVE  ActiveTasksExecuting'
<1> USE DEF IInv, TypeOK
<1> DEFINE Runs(s) == worker[s].pc \in Executing
<1>1. ASSUME Elems("active")' = Elems("active"), fate # "aborted" \/ UNCHANGED fate,
             \A s \in Slots : (Runs(s)' <=> Runs(s)) /\ (Runs(s) => worker'[s].task = worker[s].task)
      PROVE  ActiveTasksExecuting'
  BY <1>1 DEF ActiveTasksExecuting
<1>2. UNCHANGED <<queue, worker, fate>> => ActiveTasksExecuting'
  BY DEF ActiveTasksExecuting, Elems
<1>3. ASSUME NEW activate \in BOOLEAN, AddEntry(activate) PROVE ActiveTasksExecuting'
  BY <1>1, <1>3, AddEntryLists DEF AddEntry, modes
<1>4. ASSUME NEW e \in Ids, RemoveEntry(e) PROVE ActiveTasksExecuting'
  <2>1. PICK q \in Queues \ {"active"} : e \in Elems(q) /\ DropEntry(e, q)
    BY <1>4 DEF RemoveEntry
  <2>2. Elems("active")' = Elems("active")
    BY <2>1, DropEntryLists DEF Queues
  <2> QED
    BY <1>1, <1>4, <2>2 DEF RemoveEntry, modes
<1>5. ASSUME NEW e \in Ids, ActivateEntry(e) \/ InactivateEntry(e)
      PROVE  ActiveTasksExecuting'
  <2>1. PICK p, q \in Queues \ {"active"} : p # q /\ e \in Elems(p) /\ MoveEntry(e, p, q)
    BY <1>5 DEF ActivateEntry, InactivateEntry, Queues
  <2>2. Elems("active")' = Elems("active")
    BY <2>1, MoveEntryLists DEF Queues
  <2> QED
    BY <1>1, <1>5, <2>2 DEF ActivateEntry, InactivateEntry, modes
<1>6. UiCalls => ActiveTasksExecuting'
  BY <1>2, <1>3, <1>4, <1>5
     DEF UiCalls, TerminateTask, SetDiscard, SetSelectedId, BeginShutdown, lists, modes
<1>7. UiProceeds => ActiveTasksExecuting'
  <2>1. CASE ScheduleThread
    <3> DEFINE slot == worker_slot_mgr[active_count]
    <3>1. /\ worker[slot].pc \in {"unused", "joinable"}
          /\ worker' = [worker EXCEPT ![slot].pc = "starting"]
      BY <2>1 DEF ScheduleThread
    <3> HIDE DEF slot
    <3>2. \A s \in Slots : (Runs(s)' <=> Runs(s)) /\ worker'[s].task = worker[s].task
      BY <3>1 DEF ThreadsType, Executing
    <3> QED
      BY <1>1, <2>1, <3>2 DEF ScheduleThread, lists, modes, Elems
  <2> QED
    BY <1>2, <2>1
       DEF UiProceeds, ScheduleDone, TerminateLoadStatus, TerminateDisableSpawn,
           TerminateKill, TerminateDone, JoinThreads, lists, modes
<1>8. ASSUME NEW s \in Slots, WorkerTake(s), fate # "aborted" PROVE ActiveTasksExecuting'
  <2>1. PICK e \in Elems("ready") : e = Head(queue["ready"])
    BY <1>8, HeadOfReady DEF WorkerTake
  <2>2. Elems("active")' = Elems("active") \union {e}
    BY <1>8, <2>1, MoveEntryLists DEF WorkerTake, Queues
  <2>3. e \notin Elems("active")
    BY DEF TasksFiled, Queues
  <2>4. /\ ~Runs(s) /\ Runs(s)' /\ worker'[s].task = e
        /\ \A w \in Slots \ {s} : worker'[w] = worker[w]
    BY <1>8, <2>1 DEF WorkerTake, WorkerOn, ThreadsType, Executing
  <2> QED
    BY <1>8, <2>2, <2>3, <2>4 DEF ActiveTasksExecuting
<1>9. ASSUME NEW s \in Slots, WorkerTakeNoMemory(s), fate # "aborted"
      PROVE  ActiveTasksExecuting'
  <2>1. PICK e \in Elems("ready") : e = Head(queue["ready"])
    BY <1>9, HeadOfReady DEF WorkerTakeNoMemory
  <2>2. Elems("active")' = Elems("active")
    BY <1>9, <2>1, MoveEntryLists DEF WorkerTakeNoMemory, Queues
  <2>3. /\ ~Runs(s) /\ ~Runs(s)'
        /\ \A w \in Slots \ {s} : worker'[w] = worker[w]
    BY <1>9 DEF WorkerTakeNoMemory, ReleaseSlot, WorkerOn, ThreadsType, Executing
  <2> QED
    BY <1>1, <1>9, <2>2, <2>3
<1>10. ASSUME NEW s \in Slots, WorkerEnd(s), fate # "aborted" PROVE ActiveTasksExecuting'
  <2>1. PICK e \in Elems("active") : e = worker[s].task
    BY <1>10 DEF WorkerEnd, ActiveTasksExecuting, Executing
  <2>2. DropEntry(e, "active") \/ MoveEntry(e, "active", "ended")
    BY <1>10, <2>1 DEF WorkerEnd, FileEnded
  <2>3. Elems("active")' = Elems("active") \ {e}
    BY <2>2, DropEntryLists, MoveEntryLists DEF Queues
  <2>4. CASE fate' = "aborted"
    BY <2>4 DEF ActiveTasksExecuting
  <2>5. CASE fate' # "aborted"
    <3>1. /\ Runs(s) /\ ~Runs(s)'
          /\ \A w \in Slots \ {s} : worker'[w] = worker[w]
      BY <1>10, <2>5 DEF WorkerEnd, ReleaseSlot, WorkerOn, ThreadsType, Executing
    <3> QED
      BY <1>10, <2>1, <2>3, <3>1 DEF ActiveTasksExecuting
  <2> QED
    BY <2>4, <2>5
<1>11. ASSUME NEW s \in Slots, WorkerProceeds(s) \/ WorkerFails(s), fate # "aborted"
       PROVE  ActiveTasksExecuting'
  <2>1. CASE WorkerStart(s)
    BY <2>1, <1>1 DEF WorkerStart, WorkerAt, ThreadsType, Executing, lists, modes, Elems
  <2>2. CASE WorkerExit(s)
    BY <2>2, <1>1 DEF WorkerExit, ReleaseSlot, WorkerOn, ThreadsType, Executing, lists, modes,
                      Elems
  <2>3. ASSUME NEW exc, ExecuteThrows(s, exc) PROVE ActiveTasksExecuting'
    BY <2>3, <1>1 DEF ExecuteThrows, ThreadsType, Executing, lists, modes, Elems
  <2>4. ASSUME NEW spawn_ok, ExecuteSpawn(s, spawn_ok) PROVE ActiveTasksExecuting'
    <3>1. \E pc \in {"reading", "ending"} : worker' = [worker EXCEPT ![s].pc = pc]
      BY <2>4 DEF ExecuteSpawn, WorkerAt
    <3>2. \A w \in Slots : (Runs(w)' <=> Runs(w)) /\ worker'[w].task = worker[w].task
      BY <2>4, <3>1 DEF ExecuteSpawn, ThreadsType, Executing
    <3> QED
      BY <1>1, <2>4, <3>2 DEF ExecuteSpawn, lists, modes, Elems
  <2>5. CASE ReadOutput(s) \/ WaitPid(s)
    <3>1. \E pc \in {"waiting", "ending"} : worker' = [worker EXCEPT ![s].pc = pc]
      BY <2>5 DEF ReadOutput, WaitPid, WorkerAt
    <3>2. \A w \in Slots : (Runs(w)' <=> Runs(w)) /\ worker'[w].task = worker[w].task
      BY <2>5, <3>1 DEF ReadOutput, WaitPid, ThreadsType, Executing
    <3> QED
      BY <1>1, <2>5, <3>2 DEF ReadOutput, WaitPid, lists, modes, Elems
  <2>6. CASE ThreadReturn(s)
    BY <2>6, <1>1 DEF ThreadReturn, WorkerAt, ThreadsType, Executing, lists, modes, Elems
  <2> QED
    BY <1>8, <1>9, <1>10, <1>11, <2>1, <2>2, <2>3, <2>4, <2>5, <2>6
       DEF WorkerProceeds, WorkerFails
<1>12. Processes \/ Stopped \/ UNCHANGED vars => ActiveTasksExecuting'
  BY <1>2 DEF Processes, ProcessEnds, OutputCloses, Stopped, vars, lists, modes
<1> QED
  BY <1>6, <1>7, <1>11, <1>12 DEF Next

-----------------------------------------------------------------------------
(* The theorems *)

\* The inductive invariant holds in every reachable state.
THEOREM Invariance == Spec => []IInv
<1>1. IInv /\ [Next]_vars => IInv'
  BY ListsStep, SlotsStep, ThreadsStep, LockStep, TargetsStep, ActiveStep DEF IInv, TypeOK
<1> QED
  BY InitIInv, <1>1, PTL DEF Spec

\* The variables of SubProcessQueue and SubProcessLx keep their types; the count of
\* live workers stays within the slots.
THEOREM TypeCorrect == Spec => []TypeOK
  BY Invariance, PTL DEF IInv

\* schedule_threads() never takes the slot of a live worker: the free part of
\* worker_slot_mgr is exactly the slots without one.
THEOREM SlotStackCorrect == Spec => []SlotStack
  BY Invariance, PTL DEF IInv

\* queue_lock protects the queues and slots from concurrent changes.
THEOREM LockDisciplineCorrect == Spec => []LockDiscipline
  BY Invariance, PTL DEF IInv

\* move_entry() and remove_entry_impl() lose no task and file none twice; entry_count
\* is the number of tasks.
THEOREM TasksFiledCorrect == Spec => []TasksFiled
  BY Invariance, PTL DEF IInv

\* A task a worker executes without the lock stays in the active queue, so that
\* remove_entry() cannot delete it.
THEOREM ActiveTasksCorrect == Spec => []ActiveTasksExecuting
  BY Invariance, PTL DEF IInv

-----------------------------------------------------------------------------
(* The cursors *)

\* Queue::remove_entry() moves the cursor to a task that stays, if there is one.
LEMMA NextSelectedStays ==
  ASSUME NEW s \in Seq(Ids), NoDuplicates(s), NEW e \in ToSet(s), NEW sel \in ToSet(s) \union {TASKQ_NONE}
  PROVE  NextSelected(s, sel, e) \in (ToSet(s) \ {e}) \union {TASKQ_NONE}
<1> DEFINE i == IndexIn(s, e)
<1>1. Len(s) \in Nat /\ DOMAIN s = 1 .. Len(s)
  BY LenProperties
<1>2. i \in 1 .. Len(s) /\ s[i] = e
  BY <1>1 DEF IndexIn, ToSet
<1>3. NextSelected(s, sel, e) =
        IF sel # e THEN sel
        ELSE IF i < Len(s) THEN s[i + 1]
        ELSE IF i > 1 THEN s[i - 1]
        ELSE TASKQ_NONE
  BY DEF NextSelected
<1> HIDE DEF i
<1>4. i < Len(s) => s[i + 1] \in ToSet(s) \ {e}
  BY <1>1, <1>2 DEF ToSet, NoDuplicates
<1>5. i > 1 => s[i - 1] \in ToSet(s) \ {e}
  BY <1>1, <1>2 DEF ToSet, NoDuplicates
<1> QED
  BY <1>3, <1>4, <1>5

\* A task that is moved or removed takes no cursor with it.
LEMMA CursorStep ==
  ASSUME IInv, CursorInQueue, [Next]_vars
  PROVE  CursorInQueue'
<1> USE DEF IInv, TypeOK
<1>1. ASSUME NEW from \in Queues, NEW e \in Elems(from),
             Elems(from)' = Elems(from) \ {e},
             selected_id' = [selected_id EXCEPT ![from] = NextSelected(queue[from], @, e)],
             \A q \in Queues \ {from} : Elems(q) \subseteq Elems(q)'
      PROVE  CursorInQueue'
  <2>1. queue[from] \in Seq(Ids) /\ NoDuplicates(queue[from])
    BY DEF ListsType, TasksFiled
  <2>2. NextSelected(queue[from], selected_id[from], e) \in (Elems(from) \ {e}) \union {TASKQ_NONE}
    BY <1>1, <2>1, NextSelectedStays DEF CursorInQueue, Elems
  <2>3. /\ selected_id'[from] = NextSelected(queue[from], selected_id[from], e)
        /\ \A q \in Queues \ {from} : selected_id'[q] = selected_id[q]
    BY <1>1 DEF ListsType
  <2> QED
    BY <1>1, <2>2, <2>3 DEF CursorInQueue
<1>2. ASSUME NEW from \in Queues, NEW to \in Queues, from # to, NEW e \in Elems(from), MoveEntry(e, from, to)
      PROVE  CursorInQueue'
  <2>1. /\ Elems(from)' = Elems(from) \ {e}
        /\ \A q \in Queues \ {from} : Elems(q) \subseteq Elems(q)'
    BY <1>2, MoveEntryLists
  <2> QED
    BY <1>1, <1>2, <2>1 DEF MoveEntry
<1>3. ASSUME NEW from \in Queues, NEW e \in Elems(from), DropEntry(e, from)
      PROVE  CursorInQueue'
  <2>1. /\ Elems(from)' = Elems(from) \ {e}
        /\ \A q \in Queues \ {from} : Elems(q) \subseteq Elems(q)'
    BY <1>3, DropEntryLists
  <2> QED
    BY <1>1, <1>3, <2>1 DEF DropEntry
<1>4. UNCHANGED lists => CursorInQueue'
  BY DEF lists, CursorInQueue, Elems
<1>5. ASSUME NEW activate \in BOOLEAN, AddEntry(activate) PROVE CursorInQueue'
  <2> DEFINE to == IF activate THEN "ready" ELSE "wait"
  <2>1. to \in Queues /\ next_id \in Ids /\ queue[to] \in Seq(Ids)
    BY <1>5, QueueAssumption DEF AddEntry, ListsType, Ids, Queues
  <2>2. queue' = [queue EXCEPT ![to] = Append(@, next_id)] /\ selected_id' = selected_id
    BY <1>5 DEF AddEntry
  <2> HIDE DEF to
  <2>3. ToSet(queue[to]) \subseteq ToSet(Append(queue[to], next_id))
    BY <2>1, AppendElems
  <2>4. \A q \in Queues : Elems(q) \subseteq ToSet(queue'[q])
    BY <2>1, <2>2, <2>3 DEF Elems, ListsType
  <2> QED
    BY <2>2, <2>4 DEF CursorInQueue, Elems
<1>6. ASSUME NEW e \in Ids, RemoveEntry(e) PROVE CursorInQueue'
  BY <1>3, <1>6 DEF RemoveEntry
<1>7. ASSUME NEW e \in Ids, ActivateEntry(e) \/ InactivateEntry(e) PROVE CursorInQueue'
  <2>1. PICK p, q \in Queues : p # q /\ e \in Elems(p) /\ MoveEntry(e, p, q)
    BY <1>7 DEF ActivateEntry, InactivateEntry, Queues
  <2> QED
    BY <1>2, <2>1
<1>8. ASSUME NEW q \in CursorQueues, NEW id \in Elems(q) \union {TASKQ_NONE}, SetSelectedId(q, id)
      PROVE  CursorInQueue'
  <2>1. q \in Queues /\ queue' = queue /\ selected_id' = [selected_id EXCEPT ![q] = id]
    BY <1>8, QueueAssumption DEF SetSelectedId
  <2> QED
    BY <2>1 DEF CursorInQueue, Elems, ListsType
<1>9. ASSUME NEW s \in Slots, WorkerTake(s) \/ WorkerTakeNoMemory(s) PROVE CursorInQueue'
  <2>1. Head(queue["ready"]) \in Elems("ready")
    BY <1>9, HeadOfReady DEF WorkerTake, WorkerTakeNoMemory
  <2>2. PICK q \in Queues : q # "ready" /\ MoveEntry(Head(queue["ready"]), "ready", q)
    BY <1>9 DEF WorkerTake, WorkerTakeNoMemory, Queues
  <2> QED
    BY <1>2, <2>1, <2>2 DEF Queues
<1>10. ASSUME NEW s \in Slots, WorkerEnd(s), fate # "aborted" PROVE CursorInQueue'
  <2>1. PICK e \in Elems("active") : e = worker[s].task
    BY <1>10 DEF WorkerEnd, ActiveTasksExecuting, Executing
  <2>2. DropEntry(e, "active") \/ MoveEntry(e, "active", "ended")
    BY <1>10, <2>1 DEF WorkerEnd, FileEnded
  <2> QED
    BY <1>2, <1>3, <2>2 DEF Queues
<1> HIDE DEF IInv, TypeOK
<1> QED
  BY <1>4, <1>5, <1>6, <1>7, <1>8, <1>9, <1>10
     DEF Next, UiCalls, UiProceeds, WorkerProceeds, WorkerFails, Processes, Stopped, vars,
         TerminateTask, SetDiscard, BeginShutdown, ScheduleThread, ScheduleDone,
         TerminateLoadStatus, TerminateDisableSpawn, TerminateKill, TerminateDone,
         JoinThreads, WorkerStart, WorkerExit, ExecuteSpawn, ReadOutput, WaitPid,
         ThreadReturn, ExecuteThrows, ProcessEnds, OutputCloses

\* The cursor of the displays is on a task of its queue or on none, however
\* the workers move the tasks under it: selected_id never names a deleted task.
THEOREM CursorCorrect == Spec => []CursorInQueue
<1>1. Init => CursorInQueue
  BY DEF Init, CursorInQueue
<1>2. IInv /\ CursorInQueue /\ [Next]_vars => CursorInQueue'
  BY CursorStep
<1> QED
  BY <1>1, <1>2, Invariance, PTL DEF Spec

-----------------------------------------------------------------------------
(* Workers for the ready tasks *)

\* There are enough workers, except between a call that makes a task ready
\* and the end of schedule_threads().
ReadyInv == ~ shutdown /\ fate = "running" /\ ui.pc # "sched" => active_count >= QueueCount

\* Queue::remove_entry() makes the list shorter by one.
LEMMA UnlinkLen ==
  ASSUME NEW S, NEW s \in Seq(S), NEW e \in ToSet(s)
  PROVE  Len(s) \in Nat /\ Len(Unlink(s, e)) = Len(s) - 1
<1>1. Len(s) \in Nat /\ DOMAIN s = 1 .. Len(s)
  BY LenProperties
<1>2. IndexIn(s, e) \in 1 .. Len(s)
  BY <1>1 DEF IndexIn, ToSet
<1> QED
  BY <1>1, <1>2, RemoveAtElements DEF Unlink

\* A worker that does not execute a task is not needed for an active one:
\* the active tasks have a worker each, and so active_count, the number of
\* the slots that are not free, is more than their number.
LEMMA OneWorkerMore ==
  ASSUME IInv, fate # "aborted", NEW s \in Slots, worker[s].pc = "loop"
  PROVE  Len(queue["active"]) \in Nat /\ active_count >= Len(queue["active"]) + 1
<1> DEFINE act == queue["active"]
           n == Len(act)
           m == n + (MAX_ACTIVE_COUNT - active_count)
<1>1. act \in Seq(Ids) /\ n \in Nat /\ DOMAIN act = 1 .. n /\ NoDuplicates(act)
  BY LenProperties DEF IInv, TypeOK, ListsType, TasksFiled, Queues
<1> HIDE DEF n
<1>2. /\ MAX_ACTIVE_COUNT \in Nat /\ active_count \in 0 .. MAX_ACTIVE_COUNT
      /\ worker_slot_mgr \in [Slots -> Slots]
  BY QueueAssumption DEF IInv, TypeOK, SlotsType
<1>3. ASSUME NEW i \in 1 .. n PROVE \E w \in Slots : worker[w].pc \in Executing /\ worker[w].task = act[i]
  <2>1. act[i] \in Elems("active")
    BY <1>1 DEF Elems, ToSet
  <2> QED
    BY <2>1 DEF IInv, ActiveTasksExecuting
<1> DEFINE W(i) == CHOOSE w \in Slots : worker[w].pc \in Executing /\ worker[w].task = act[i]
<1>4. \A i \in 1 .. n : W(i) \in Slots /\ worker[W(i)].pc \in Executing /\ worker[W(i)].task = act[i]
  BY <1>3
<1> HIDE DEF W
<1> DEFINE F(i) == active_count + (i - n - 1)
           f == [i \in 0 .. m |-> IF i = 0 THEN s ELSE IF i <= n THEN W(i) ELSE worker_slot_mgr[F(i)]]
<1>5. ASSUME NEW i \in n + 1 .. m
      PROVE  /\ F(i) \in active_count .. MAX_ACTIVE_COUNT - 1 /\ F(i) \in Slots
             /\ worker_slot_mgr[F(i)] \in Slots /\ worker[worker_slot_mgr[F(i)]].pc \in Idle
  <2>1. F(i) \in active_count .. MAX_ACTIVE_COUNT - 1 /\ F(i) \in Slots
    BY <1>1, <1>2 DEF Slots
  <2>2. worker_slot_mgr[F(i)] \in Slots
    BY <1>2, <2>1
  <2> QED
    BY <2>1, <2>2 DEF IInv, SlotStack
<1> HIDE DEF F
<1>6. m \in Nat /\ n <= m
  BY <1>1, <1>2
<1> HIDE DEF m
<1>7. \A i \in 0 .. m : f[i] \in Slots
  <2> SUFFICES ASSUME NEW i \in 0 .. m PROVE f[i] \in Slots
    OBVIOUS
  <2>1. CASE i = 0
    BY <2>1
  <2>2. CASE i \in 1 .. n
    BY <1>4, <1>1, <1>6, <2>2
  <2>3. CASE i \in n + 1 .. m
    BY <1>1, <1>5, <1>6, <2>3
  <2> QED
    BY <1>1, <1>6, <2>1, <2>2, <2>3
<1>8. ASSUME NEW i \in 0 .. m, NEW j \in 0 .. m, i < j, f[i] = f[j] PROVE FALSE
  <2>1. \/ f[i] = s /\ i = 0
        \/ f[i] = W(i) /\ i \in 1 .. n
        \/ f[i] = worker_slot_mgr[F(i)] /\ i \in n + 1 .. m
    BY <1>1, <1>6
  <2>2. \/ f[j] = W(j) /\ j \in 1 .. n
        \/ f[j] = worker_slot_mgr[F(j)] /\ j \in n + 1 .. m
    BY <1>1, <1>6, <1>8
  <2> HIDE DEF f
  <2>3. "loop" \notin Executing /\ "loop" \notin Idle /\ Executing \intersect Idle = {}
    BY DEF Executing, Idle
  <2>4. CASE i = 0
    BY <1>4, <1>5, <1>8, <2>1, <2>2, <2>3, <2>4, <1>1, <1>6
  <2>5. CASE i \in 1 .. n /\ j \in 1 .. n
    <3>1. W(i) = W(j)
      BY <1>1, <1>6, <1>8, <2>1, <2>2, <2>5
    <3>2. act[i] = act[j]
      BY <1>4, <2>5, <3>1
    <3> QED
      BY <1>1, <1>8, <2>5, <3>2 DEF NoDuplicates
  <2>6. CASE i \in 1 .. n /\ j \in n + 1 .. m
    <3>1. W(i) = worker_slot_mgr[F(j)]
      BY <1>1, <1>6, <1>8, <2>1, <2>2, <2>6
    <3> QED
      BY <1>4, <1>5, <2>3, <2>6, <3>1
  <2>7. CASE i \in n + 1 .. m /\ j \in n + 1 .. m
    <3>1. worker_slot_mgr[F(i)] = worker_slot_mgr[F(j)]
      BY <1>1, <1>6, <1>8, <2>1, <2>2, <2>7
    <3>2. F(i) # F(j)
      BY <1>1, <1>2, <1>6, <1>8, <2>7 DEF F
    <3> QED
      BY <1>5, <2>7, <3>1, <3>2 DEF IInv, SlotStack
  <2> QED
    BY <1>1, <1>6, <1>8, <2>4, <2>5, <2>6, <2>7
<1>9. f \in Injection(0 .. m, Slots)
  <2>1. f \in [0 .. m -> Slots]
    BY <1>7
  <2>2. ASSUME NEW i \in 0 .. m, NEW j \in 0 .. m, f[i] = f[j] PROVE i = j
    <3> HIDE DEF f
    <3> QED
      BY <1>6, <1>8, <2>2
  <2> QED
    BY <2>1, <2>2 DEF Injection, IsInjective
<1>10. IsFiniteSet(Slots) /\ Cardinality(Slots) = MAX_ACTIVE_COUNT
  BY <1>2, QueueAssumption, FS_Interval DEF Slots
<1>11. Cardinality(0 .. m) = m + 1
  BY <1>6, FS_Interval
<1>12. m + 1 <= MAX_ACTIVE_COUNT
  BY <1>9, <1>10, <1>11, FS_Injection
<1> QED
  BY <1>1, <1>2, <1>12 DEF m, n

\* Whatever operation runs, enough workers are left.
LEMMA ReadyStep ==
  ASSUME IInv, ReadyInv, [Next]_vars
  PROVE  ReadyInv'
<1> DEFINE len(q) == Len(queue[q])
           Now(q) == Len(queue'[q])
<1>1. MAX_ACTIVE_COUNT \in Nat /\ active_count \in Nat /\ active_count <= MAX_ACTIVE_COUNT
  BY QueueAssumption DEF IInv, TypeOK, SlotsType
<1>2. \A q \in Queues : queue[q] \in Seq(Ids) /\ len(q) \in Nat
  BY ElemsAreIds, LenProperties DEF IInv, TypeOK
<1> HIDE DEF len, Now
<1>3. ASSUME ui.pc # "sched" \/ active_count >= QueueCount, UNCHANGED active_count,
             shutdown' \/ ~ shutdown, fate' # "running" \/ fate = "running",
             Now("ready") \in Nat, Now("active") \in Nat,
             Now("ready") + Now("active") <= len("ready") + len("active")
      PROVE  ReadyInv'
  <2> DEFINE a == len("ready") + len("active")
             b == Now("ready") + Now("active")
  <2>1. a \in Nat /\ b \in Nat /\ b <= a
    BY <1>2, <1>3 DEF Queues
  <2>2. /\ QueueCount = IF a < MAX_ACTIVE_COUNT THEN a ELSE MAX_ACTIVE_COUNT
        /\ QueueCount' = IF b < MAX_ACTIVE_COUNT THEN b ELSE MAX_ACTIVE_COUNT
    BY DEF QueueCount, len, Now
  <2> HIDE DEF a, b
  <2>3. active_count >= QueueCount => active_count >= QueueCount'
    BY <1>1, <2>1, <2>2
  <2> QED
    BY <1>3, <2>3 DEF ReadyInv
<1>4. ASSUME UNCHANGED <<queue, active_count>>, shutdown' \/ ~ shutdown, fate' # "running" \/ fate = "running",
             ui.pc # "sched" \/ ui'.pc = "sched"
      PROVE  ReadyInv'
  BY <1>4 DEF ReadyInv, QueueCount
<1>5. ASSUME NEW from \in Queues, NEW to \in Queues, from # to, NEW e \in Elems(from), MoveEntry(e, from, to)
      PROVE  /\ Now(from) = len(from) - 1 /\ Now(to) = len(to) + 1
             /\ \A q \in Queues \ {from, to} : Now(q) = len(q)
  <2>1. Len(Unlink(queue[from], e)) = len(from) - 1
    BY <1>2, UnlinkLen DEF Elems, len
  <2>2. e \in Ids
    BY ElemsAreIds DEF IInv, TypeOK
  <2>3. Len(Append(queue[to], e)) = len(to) + 1
    BY <1>2, <2>2, AppendProperties DEF len
  <2>4. /\ queue'[from] = Unlink(queue[from], e)
        /\ queue'[to] = Append(queue[to], e)
        /\ \A q \in Queues \ {from, to} : queue'[q] = queue[q]
    BY <1>5 DEF MoveEntry, IInv, TypeOK, ListsType
  <2> QED
    BY <2>1, <2>3, <2>4 DEF len, Now
<1>6. ASSUME NEW from \in Queues, NEW e \in Elems(from), DropEntry(e, from)
      PROVE  /\ Now(from) = len(from) - 1 /\ len(from) >= 1
             /\ \A q \in Queues \ {from} : Now(q) = len(q)
  <2>1. Len(Unlink(queue[from], e)) = len(from) - 1 /\ len(from) >= 1
    <3>1. Len(Unlink(queue[from], e)) = len(from) - 1
      BY <1>2, UnlinkLen DEF Elems, len
    <3>2. len(from) # 0
      BY <1>2, LenProperties DEF Elems, ToSet, len
    <3> QED
      BY <1>2, <3>1, <3>2
  <2>2. /\ queue'[from] = Unlink(queue[from], e)
        /\ \A q \in Queues \ {from} : queue'[q] = queue[q]
    BY <1>6 DEF DropEntry, IInv, TypeOK, ListsType
  <2> QED
    BY <2>1, <2>2 DEF len, Now
<1>7. UiCalls => ReadyInv'
  <2>1. ASSUME NEW activate \in BOOLEAN, AddEntry(activate) PROVE ReadyInv'
    <3>1. CASE activate
      BY <2>1, <3>1 DEF AddEntry, UiGoto, ReadyInv
    <3>2. CASE ~ activate
      <4>1. queue' = [queue EXCEPT !["wait"] = Append(@, next_id)]
        BY <2>1, <3>2 DEF AddEntry
      <4>2. queue'["ready"] = queue["ready"] /\ queue'["active"] = queue["active"]
        BY <4>1 DEF IInv, TypeOK, ListsType, Queues
      <4> QED
        BY <1>2, <1>3, <2>1, <3>2, <4>2 DEF AddEntry, modes, slots, UiIdle, Queues, len, Now
    <3> QED
      BY <3>1, <3>2
  <2>2. ASSUME NEW e \in Ids, RemoveEntry(e) PROVE ReadyInv'
    <3>1. PICK q \in Queues \ {"active"} : e \in Elems(q) /\ DropEntry(e, q)
      BY <2>2 DEF RemoveEntry
    <3>2. Now("active") = len("active") /\ Now("ready") \in Nat /\ Now("ready") <= len("ready")
      BY <1>2, <1>6, <3>1 DEF Queues
    <3> QED
      BY <1>2, <1>3, <2>2, <3>2 DEF RemoveEntry, modes, slots, UiIdle, Queues
  <2>3. ASSUME NEW e \in Ids, ActivateEntry(e) PROVE ReadyInv'
    BY <2>3 DEF ActivateEntry, UiGoto, ReadyInv
  <2>4. ASSUME NEW e \in Ids, InactivateEntry(e) PROVE ReadyInv'
    <3>1. e \in Elems("ready") /\ MoveEntry(e, "ready", "wait")
      BY <2>4 DEF InactivateEntry
    <3>2. Now("active") = len("active") /\ Now("ready") = len("ready") - 1
      BY <1>5, <3>1 DEF Queues
    <3>3. len("ready") >= 1
      BY <1>2, <3>1, LenProperties DEF Elems, ToSet, Queues, len
    <3> QED
      BY <1>2, <1>3, <2>4, <3>2, <3>3 DEF InactivateEntry, modes, slots, UiIdle, Queues
  <2>5. ASSUME NEW e \in Ids, TerminateTask(e) PROVE ReadyInv'
    BY <1>4, <2>5 DEF TerminateTask, lists, slots, modes, UiIdle
  <2>6. ASSUME NEW flags, SetDiscard(flags) PROVE ReadyInv'
    BY <1>4, <2>6 DEF SetDiscard, lists, slots, UiIdle
  <2>7. ASSUME NEW q, NEW id, SetSelectedId(q, id) PROVE ReadyInv'
    BY <1>4, <2>7 DEF SetSelectedId, slots, modes, UiIdle
  <2>8. CASE BeginShutdown
    BY <2>8 DEF BeginShutdown, ReadyInv
  <2> QED
    BY <2>1, <2>2, <2>3, <2>4, <2>5, <2>6, <2>7, <2>8 DEF UiCalls
<1>8. UiProceeds => ReadyInv'
  <2>1. CASE ScheduleThread
    BY <2>1 DEF ScheduleThread, ReadyInv
  <2>2. CASE ScheduleDone
    BY <2>2, <1>1, <1>2 DEF ScheduleDone, ReadyInv, QueueCount, lists, slots, modes, Queues
  <2>3. CASE TerminateLoadStatus \/ TerminateDisableSpawn \/ TerminateKill \/ TerminateDone \/ JoinThreads
    BY <1>4, <2>3 DEF TerminateLoadStatus, TerminateDisableSpawn, TerminateKill, TerminateDone, JoinThreads,
                      lists, slots, modes
  <2> QED
    BY <2>1, <2>2, <2>3 DEF UiProceeds
<1>9. ASSUME NEW s \in Slots, WorkerProceeds(s) \/ WorkerFails(s), fate # "aborted" PROVE ReadyInv'
  <2>1. CASE WorkerStart(s) \/ (\E spawn_ok \in BOOLEAN : ExecuteSpawn(s, spawn_ok)) \/ ReadOutput(s) \/ WaitPid(s)
             \/ ThreadReturn(s) \/ (\E exc \in {"bad_alloc", "subprocess"} : ExecuteThrows(s, exc))
    BY <1>4, <2>1 DEF WorkerStart, ExecuteSpawn, ReadOutput, WaitPid, ThreadReturn, ExecuteThrows, lists, slots, modes
  <2>2. CASE WorkerExit(s)
    <3>1. CASE shutdown
      BY <2>2, <3>1 DEF WorkerExit, modes, ReadyInv
    <3>2. CASE ~ shutdown
      <4>1. queue["ready"] = <<>> /\ queue' = queue /\ active_count' = active_count - 1
        BY <2>2, <3>2 DEF WorkerExit, ReleaseSlot, lists
      <4>2. len("active") \in Nat /\ active_count >= len("active") + 1
        BY <1>9, <2>2, OneWorkerMore DEF WorkerExit, len
      <4>3. Now("ready") = 0
        BY <4>1, EmptySeq DEF Now
      <4> QED
        <5> DEFINE b == Now("ready") + Now("active")
        <5>1. b = len("active")
          <6>1. Now("active") = len("active")
            BY <4>1 DEF len, Now
          <6> QED
            BY <4>2, <4>3, <6>1
        <5>2. QueueCount' = IF b < MAX_ACTIVE_COUNT THEN b ELSE MAX_ACTIVE_COUNT
          BY DEF QueueCount, Now
        <5> HIDE DEF b
        <5>3. active_count' >= QueueCount'
          BY <1>1, <4>1, <4>2, <5>1, <5>2
        <5> QED
          BY <5>3 DEF ReadyInv
    <3> QED
      BY <3>1, <3>2
  <2>3. CASE WorkerTake(s)
    <3> DEFINE e == Head(queue["ready"])
    <3>1. e \in Elems("ready")
      BY <2>3, HeadOfReady DEF WorkerTake, IInv, TypeOK
    <3>2. MoveEntry(e, "ready", "active")
      BY <2>3 DEF WorkerTake
    <3> HIDE DEF e
    <3>3. Now("ready") = len("ready") - 1 /\ Now("active") = len("active") + 1
      BY <1>5, <3>1, <3>2 DEF Queues
    <3>4. len("ready") >= 1
      BY <1>2, <3>1, LenProperties DEF Elems, ToSet, Queues, len
    <3>5. ui.pc # "sched"
      BY <2>3, QueueAssumption DEF WorkerTake, IInv, LockDiscipline, Slots, Ui
    <3> QED
      BY <1>2, <1>3, <2>3, <3>3, <3>4, <3>5 DEF WorkerTake, slots, modes, Queues
  <2>4. CASE WorkerTakeNoMemory(s)
    BY <2>4 DEF WorkerTakeNoMemory, ReadyInv
  <2>5. CASE WorkerEnd(s)
    <3>1. CASE fate' # "running"
      BY <3>1 DEF ReadyInv
    <3>2. CASE fate' = "running"
      <4>1. PICK e \in Elems("active") : e = worker[s].task
        BY <1>9, <2>5 DEF WorkerEnd, ActiveTasksExecuting, Executing, IInv
      <4>2. DropEntry(e, "active") \/ MoveEntry(e, "active", "ended")
        BY <2>5, <4>1 DEF WorkerEnd, FileEnded
      <4>3. Now("active") = len("active") - 1 /\ Now("ready") = len("ready")
        BY <1>5, <1>6, <4>2 DEF Queues
      <4>4. len("active") >= 1
        BY <1>2, LenProperties DEF Elems, ToSet, Queues, len
      <4>5. ui.pc # "sched"
        BY <2>5, QueueAssumption DEF WorkerEnd, IInv, LockDiscipline, Free, Ui
      <4>6. UNCHANGED <<slots, fate, shutdown>>
        BY <2>5, <3>2 DEF WorkerEnd
      <4> QED
        BY <1>2, <1>3, <4>3, <4>4, <4>5, <4>6 DEF slots, Queues
    <3> QED
      BY <3>1, <3>2
  <2> QED
    BY <1>9, <2>1, <2>2, <2>3, <2>4, <2>5 DEF WorkerProceeds, WorkerFails
<1>10. Processes \/ Stopped \/ UNCHANGED vars => ReadyInv'
  BY <1>4 DEF Processes, ProcessEnds, OutputCloses, Stopped, vars, lists, slots, modes
<1> QED
  BY <1>7, <1>8, <1>9, <1>10 DEF Next

\* No ready task is left without a worker: whenever queue_lock is free there
\* are as many workers as tasks, up to MAX_ACTIVE_COUNT.  A worker that ends
\* because it found the ready queue empty was not needed.
THEOREM ReadyTasksHaveWorkers == Spec => []ReadyHasWorkers
<1>1. Init => ReadyInv
  <2> SUFFICES ASSUME Init PROVE ReadyInv
    OBVIOUS
  <2>1. Len(queue["ready"]) = 0 /\ Len(queue["active"]) = 0
    BY EmptySeq DEF Init, Queues
  <2>2. QueueCount = 0
    BY <2>1, QueueAssumption DEF QueueCount
  <2> QED
    BY <2>2 DEF Init, ReadyInv
<1>2. IInv /\ ReadyInv /\ [Next]_vars => ReadyInv'
  BY ReadyStep
<1>3. IInv /\ ReadyInv => ReadyHasWorkers
  BY DEF IInv, LockDiscipline, ReadyInv, ReadyHasWorkers, Free, Ui
<1> QED
  BY <1>1, <1>2, <1>3, Invariance, PTL DEF Spec

-----------------------------------------------------------------------------
(* Termination of the tasks at shutdown *)

Terminating == {"term", "termLock", "termKill"}

\* The tasks that are still to be terminated are active, and stay so, for
\* queue_lock is held.
TargetsActive == ui.pc \in Terminating => ToSet(ui.targets) \subseteq Elems("active")

\* The handler of a task that is neither active nor ended is new.
HandlersNew == \A e \in Ids : e \notin Elems("active") \union Elems("ended") => process[e] = NewHandler

\* What a worker has done, and what its handler says of it.
HandlerOf(s) ==
  LET p == process[worker[s].task] IN
  /\ worker[s].pc \in {"setup", "reading", "waiting"} => p.exit_status = "none"
  /\ worker[s].pc \in {"reading", "waiting"} => p.pid

\* What terminate() has loaded, against the worker of the task it is called for.
LoadedBy(s) ==
  ui.pc \in {"termLock", "termKill"} /\ worker[s].pc \in Executing /\ worker[s].task = Head(ui.targets) =>
    /\ ui.status # "none" => worker[s].pc = "ending"
    /\ ui.pc = "termKill" => ~ process[worker[s].task].enable_spawn
    /\ ui.pc = "termKill" /\ ~ ui.pid => worker[s].pc \in {"setup", "ending"}

\* terminate() has been called for the task of a worker: it will not start a
\* process, or has been woken and its process killed.
Terminated(s) ==
  LET p == process[worker[s].task] IN
  /\ worker[s].pc = "setup" => ~ p.enable_spawn
  /\ worker[s].pc = "reading" => p.woken
  /\ worker[s].pc \in {"reading", "waiting"} /\ p.os = "running" => p.killed

\* At shutdown each worker has been dealt with, or will be.
ShutdownInv(s) ==
  shutdown /\ worker[s].pc \in Executing =>
    Terminated(s) \/ (ui.pc \in Terminating /\ worker[s].task \in ToSet(ui.targets))

KillInv ==
  /\ ui.pc \in {"join", "gone"} => shutdown
  /\ shutdown => ui.pc \in Terminating \union {"join", "gone"}
  /\ TargetsActive
  /\ HandlersNew
  /\ \A s \in Slots : HandlerOf(s) /\ LoadedBy(s) /\ ShutdownInv(s)

\* A worker with a task has it in the active queue, and alone.
LEMMA WorkerTask ==
  ASSUME IInv, fate # "aborted", NEW s \in Slots, worker[s].pc \in Executing
  PROVE  /\ worker[s].task \in Elems("active") /\ worker[s].task \in Ids
         /\ worker[s].task \notin Elems("wait") \union Elems("ready") \union Elems("ended")
         /\ \A w \in Slots \ {s} : worker[w].pc \in Executing => worker[w].task # worker[s].task
<1>1. worker[s].task \in Elems("active")
  BY DEF IInv, ActiveTasksExecuting
<1>2. worker[s].task \in Ids
  BY <1>1, ElemsAreIds DEF IInv, TypeOK, Queues
<1>3. worker[s].task \notin Elems("wait") \union Elems("ready") \union Elems("ended")
  BY <1>1 DEF IInv, TasksFiled, Queues
<1> QED
  BY <1>1, <1>2, <1>3 DEF IInv, ActiveTasksExecuting

\* The queues that terminate() and the handlers depend on.
LEMMA HandlersStep ==
  ASSUME IInv, KillInv, [Next]_vars
  PROVE  TargetsActive' /\ HandlersNew'
<1> DEFINE act == Elems("active")
           end == Elems("ended")
<1>1. /\ process \in [Ids -> Handler] /\ ui.targets \in Seq(Ids)
      /\ ui \in [pc : UiPcs, targets : Seq(Ids), status : ExitStatus, pid : BOOLEAN]
      /\ worker \in [Slots -> [pc : WorkerPcs, task : Ids \union {NoTask}, exc : {"none", "bad_alloc", "subprocess"}]]
  BY DEF IInv, TypeOK, ThreadsType
<1>2. act \subseteq Ids /\ end \subseteq Ids
  BY ElemsAreIds DEF IInv, TypeOK, Queues
<1>3. TargetsActive /\ HandlersNew
  BY DEF KillInv
<1>4. queue_lock # Ui => ui.pc \notin Terminating
  BY DEF IInv, LockDiscipline, Terminating
<1>5. Free # Ui /\ \A s \in Slots : s # Ui
  BY QueueAssumption DEF Free, Ui, Slots
<1> HIDE DEF act, end
<1>6. ASSUME Elems("active")' = act, Elems("ended")' = end, UNCHANGED process,
             UNCHANGED ui \/ ui'.pc \notin Terminating
      PROVE  TargetsActive' /\ HandlersNew'
  BY <1>3, <1>6 DEF TargetsActive, HandlersNew, act, end
<1>7. UNCHANGED queue => Elems("active")' = act /\ Elems("ended")' = end
  BY DEF Elems, act, end
<1>8. ASSUME UiCalls PROVE TargetsActive' /\ HandlersNew'
  <2>1. UiIdle /\ ui.pc \notin Terminating
    BY <1>8 DEF UiCalls, AddEntry, RemoveEntry, ActivateEntry, InactivateEntry, TerminateTask, SetDiscard, SetSelectedId,
                BeginShutdown, UiIdle, Terminating
  <2>2. ASSUME NEW activate \in BOOLEAN, AddEntry(activate) PROVE TargetsActive' /\ HandlersNew'
    <3>1. PICK q \in {"ready", "wait"} : queue' = [queue EXCEPT ![q] = Append(@, next_id)]
      BY <2>2 DEF AddEntry
    <3>2. queue'["active"] = queue["active"] /\ queue'["ended"] = queue["ended"]
      BY <3>1 DEF IInv, TypeOK, ListsType, Queues
    <3>3. Elems("active")' = act /\ Elems("ended")' = end
      BY <3>2 DEF Elems, act, end
    <3>4. UNCHANGED ui \/ ui'.pc = "sched"
      BY <2>2 DEF AddEntry, UiGoto
    <3>5. UNCHANGED process
      BY <2>2 DEF AddEntry
    <3> QED
      BY <1>6, <3>3, <3>4, <3>5 DEF Terminating
  <2>3. ASSUME NEW e \in Ids, RemoveEntry(e) PROVE TargetsActive' /\ HandlersNew'
    <3>1. PICK q \in Queues \ {"active"} : e \in Elems(q) /\ DropEntry(e, q)
      BY <2>3 DEF RemoveEntry
    <3>2. Elems("active")' = act /\ (Elems("ended")' = end \/ Elems("ended")' = end \ {e})
      BY <3>1, DropEntryLists DEF Queues, act, end, IInv, TypeOK
    <3>3. process' = [process EXCEPT ![e] = NewHandler] /\ UNCHANGED ui
      BY <2>3, <3>1 DEF DropEntry, RemoveEntry
    <3>4. \A x \in Ids : process'[x] = IF x = e THEN NewHandler ELSE process[x]
      BY <1>1, <3>3
    <3>5. HandlersNew'
      BY <1>3, <3>2, <3>4 DEF HandlersNew, act, end
    <3>6. TargetsActive'
      BY <2>1, <3>3 DEF TargetsActive
    <3> QED
      BY <3>5, <3>6
  <2>4. ASSUME NEW e \in Ids, ActivateEntry(e) \/ InactivateEntry(e) PROVE TargetsActive' /\ HandlersNew'
    <3>1. PICK p, q \in {"wait", "ready"} : p # q /\ e \in Elems(p) /\ MoveEntry(e, p, q)
      BY <2>4 DEF ActivateEntry, InactivateEntry
    <3>2. Elems("active")' = act /\ Elems("ended")' = end
      BY <3>1, MoveEntryLists DEF Queues, act, end, IInv, TypeOK
    <3>3. (UNCHANGED ui \/ ui'.pc = "sched") /\ UNCHANGED process
      BY <2>4 DEF ActivateEntry, InactivateEntry, UiGoto
    <3> QED
      BY <1>6, <3>2, <3>3 DEF Terminating
  <2>5. ASSUME NEW e \in Ids, TerminateTask(e) PROVE TargetsActive' /\ HandlersNew'
    <3>1. UNCHANGED <<queue, process>> /\ ui'.targets = <<e>> /\ e \in act
      BY <2>5 DEF TerminateTask, UiGoto, lists, act
    <3>2. ToSet(<<e>>) = {e}
      BY DEF ToSet
    <3>3. HandlersNew' /\ Elems("active")' = act
      BY <1>3, <1>7, <3>1 DEF HandlersNew, act, end
    <3> QED
      BY <3>1, <3>2, <3>3 DEF TargetsActive
  <2>6. ASSUME NEW flags, SetDiscard(flags) PROVE TargetsActive' /\ HandlersNew'
    BY <1>6, <1>7, <2>6 DEF SetDiscard, lists
  <2>7. ASSUME NEW q, NEW id, SetSelectedId(q, id) PROVE TargetsActive' /\ HandlersNew'
    BY <1>6, <1>7, <2>7 DEF SetSelectedId
  <2>8. ASSUME BeginShutdown PROVE TargetsActive' /\ HandlersNew'
    <3>1. UNCHANGED <<queue, process>> /\ ui'.targets = queue["active"]
      BY <2>8 DEF BeginShutdown, UiGoto, lists
    <3>2. HandlersNew' /\ Elems("active")' = act
      BY <1>3, <1>7, <3>1 DEF HandlersNew, act, end
    <3> QED
      BY <3>1, <3>2 DEF TargetsActive, Elems
  <2> QED
    BY <1>8, <2>2, <2>3, <2>4, <2>5, <2>6, <2>7, <2>8 DEF UiCalls
<1>9. ASSUME UiProceeds PROVE TargetsActive' /\ HandlersNew'
  <2>1. UNCHANGED queue
    BY <1>9 DEF UiProceeds, ScheduleThread, ScheduleDone, TerminateLoadStatus, TerminateDisableSpawn, TerminateKill,
                TerminateDone, JoinThreads, lists
  <2>2. Elems("active")' = act /\ Elems("ended")' = end
    BY <1>7, <2>1
  <2>3. CASE ScheduleThread \/ ScheduleDone \/ TerminateDone \/ JoinThreads
    <3>1. UNCHANGED process /\ (UNCHANGED ui \/ ui'.pc \in {"idle", "join", "gone"})
      BY <2>3 DEF ScheduleThread, ScheduleDone, TerminateDone, JoinThreads, UiGoto
    <3> QED
      BY <1>6, <2>2, <3>1 DEF Terminating
  <2>4. CASE TerminateLoadStatus
    <3>1. UNCHANGED process /\ ui'.targets = ui.targets /\ ui.pc \in Terminating
      BY <1>1, <2>4 DEF TerminateLoadStatus, Terminating
    <3> QED
      BY <1>3, <2>2, <3>1 DEF TargetsActive, HandlersNew, act, end
  <2>5. CASE TerminateDisableSpawn \/ TerminateKill
    <3> DEFINE e == Head(ui.targets)
    <3>1. ui.pc \in Terminating /\ ui.targets # <<>>
      BY <2>5 DEF TerminateDisableSpawn, TerminateKill, Terminating, IInv, TargetsLeft
    <3>2. e \in ToSet(ui.targets) /\ Tail(ui.targets) \in Seq(Ids) /\ ToSet(Tail(ui.targets)) \subseteq ToSet(ui.targets)
      BY <1>1, <3>1, HeadTailProperties, LenProperties DEF ToSet
    <3>3. e \in act /\ ToSet(Tail(ui.targets)) \subseteq act
      BY <1>3, <3>1, <3>2 DEF TargetsActive, act
    <3>4. \A x \in Ids \ {e} : process'[x] = process[x]
      BY <1>1, <2>5 DEF TerminateDisableSpawn, TerminateKill
    <3>5. ui'.targets = ui.targets \/ ui'.targets = Tail(ui.targets)
      <4>1. TerminateDisableSpawn => ui'.targets = ui.targets
        BY <1>1 DEF TerminateDisableSpawn
      <4>2. TerminateKill => ui'.targets = Tail(ui.targets)
        BY DEF TerminateKill, UiGoto
      <4> QED
        BY <2>5, <4>1, <4>2
    <3> HIDE DEF e
    <3>6. HandlersNew'
      BY <1>3, <2>2, <3>3, <3>4 DEF HandlersNew, act, end
    <3>7. TargetsActive'
      BY <1>3, <2>2, <3>1, <3>3, <3>5 DEF TargetsActive, act
    <3> QED
      BY <3>6, <3>7
  <2> QED
    BY <1>9, <2>3, <2>4, <2>5 DEF UiProceeds
<1>10. ASSUME NEW s \in Slots, WorkerProceeds(s) \/ WorkerFails(s), fate # "aborted" PROVE TargetsActive' /\ HandlersNew'
  <2>1. CASE WorkerStart(s) \/ WorkerExit(s) \/ ReadOutput(s) \/ ThreadReturn(s)
             \/ (\E exc \in {"bad_alloc", "subprocess"} : ExecuteThrows(s, exc))
    BY <1>6, <1>7, <2>1 DEF WorkerStart, WorkerExit, ReadOutput, ThreadReturn, ExecuteThrows, lists
  <2>2. CASE WorkerTake(s) \/ WorkerTakeNoMemory(s)
    <3> DEFINE e == Head(queue["ready"])
    <3>1. e \in Elems("ready")
      BY <2>2, HeadOfReady DEF WorkerTake, WorkerTakeNoMemory, IInv, TypeOK
    <3>2. MoveEntry(e, "ready", "active") \/ MoveEntry(e, "ready", "ended")
      BY <2>2 DEF WorkerTake, WorkerTakeNoMemory
    <3> HIDE DEF e
    <3>3. act \union end \subseteq Elems("active")' \union Elems("ended")'
      BY <3>1, <3>2, MoveEntryLists DEF Queues, act, end, IInv, TypeOK
    <3>4. UNCHANGED <<process, ui>> /\ ui.pc \notin Terminating
      BY <1>4, <1>5, <2>2 DEF WorkerTake, WorkerTakeNoMemory, IInv, LockDiscipline
    <3> QED
      BY <1>3, <3>3, <3>4 DEF TargetsActive, HandlersNew, act, end
  <2>3. CASE (\E spawn_ok \in BOOLEAN : ExecuteSpawn(s, spawn_ok)) \/ WaitPid(s)
    <3>1. worker[s].task \in act
      BY <1>10, <2>3, WorkerTask DEF ExecuteSpawn, WaitPid, Executing, act
    <3>2. \A x \in Ids \ {worker[s].task} : process'[x] = process[x]
      BY <1>1, <2>3 DEF ExecuteSpawn, WaitPid
    <3>3. UNCHANGED <<queue, ui>>
      BY <2>3 DEF ExecuteSpawn, WaitPid, lists
    <3> QED
      BY <1>3, <1>7, <3>1, <3>2, <3>3 DEF TargetsActive, HandlersNew, act, end
  <2>4. CASE WorkerEnd(s)
    <3> DEFINE e == worker[s].task
    <3>1. e \in act /\ e \in Ids
      BY <1>10, <2>4, WorkerTask DEF WorkerEnd, Executing, act
    <3>2. \A x \in Ids \ {e} : process'[x] = process[x]
      BY <1>1, <2>4 DEF WorkerEnd, FileEnded, DropEntry
    <3>3. UNCHANGED ui /\ ui.pc \notin Terminating
      BY <1>4, <1>5, <2>4 DEF WorkerEnd
    <3>4. \/ DropEntry(e, "active")
          \/ MoveEntry(e, "active", "ended")
      BY <2>4 DEF WorkerEnd, FileEnded
    <3> HIDE DEF e
    <3>5. CASE DropEntry(e, "active")
      <4>1. Elems("active")' = act \ {e} /\ Elems("ended")' = end
        BY <3>1, <3>5, DropEntryLists DEF Queues, act, end, IInv, TypeOK
      <4>2. process'[e] = NewHandler
        BY <1>1, <3>1, <3>5 DEF DropEntry
      <4> QED
        BY <1>3, <3>2, <3>3, <4>1, <4>2 DEF TargetsActive, HandlersNew, act, end
    <3>6. CASE MoveEntry(e, "active", "ended")
      <4>1. Elems("active")' = act \ {e} /\ Elems("ended")' = end \union {e}
        BY <3>1, <3>6, MoveEntryLists DEF Queues, act, end, IInv, TypeOK
      <4> QED
        BY <1>3, <3>2, <3>3, <4>1 DEF TargetsActive, HandlersNew, act, end
    <3> QED
      BY <3>4, <3>5, <3>6
  <2> QED
    BY <1>10, <2>1, <2>2, <2>3, <2>4 DEF WorkerProceeds, WorkerFails
<1>11. ASSUME Processes PROVE TargetsActive' /\ HandlersNew'
  <2>1. PICK e \in Ids : /\ process[e] # NewHandler
                         /\ \A x \in Ids \ {e} : process'[x] = process[x]
    BY <1>1, <1>11 DEF Processes, ProcessEnds, OutputCloses, NewHandler
  <2>2. UNCHANGED <<queue, ui>>
    BY <1>11 DEF Processes, ProcessEnds, OutputCloses, lists
  <2> QED
    BY <1>3, <1>7, <2>1, <2>2 DEF TargetsActive, HandlersNew, act, end
<1>12. Stopped \/ UNCHANGED vars => TargetsActive' /\ HandlersNew'
  BY <1>6, <1>7 DEF Stopped, vars, lists
<1> QED
  BY <1>8, <1>9, <1>10, <1>11, <1>12 DEF Next

\* What a list of tasks holds is its first task and the tasks behind it.
LEMMA HeadTailElems ==
  ASSUME NEW S, NEW s \in Seq(S), s # <<>>
  PROVE  ToSet(s) = {Head(s)} \union ToSet(Tail(s)) /\ Tail(s) \in Seq(S)
<1>1. /\ Len(s) \in Nat /\ Len(s) >= 1 /\ DOMAIN s = 1 .. Len(s)
      /\ Head(s) = s[1] /\ Tail(s) \in Seq(S) /\ Len(Tail(s)) = Len(s) - 1
      /\ \A i \in 1 .. Len(s) - 1 : Tail(s)[i] = s[i + 1]
  BY LenProperties, HeadTailProperties, EmptySeq
<1>2. DOMAIN Tail(s) = 1 .. Len(s) - 1
  BY <1>1, LenProperties
<1>3. ASSUME NEW x \in ToSet(s) PROVE x = Head(s) \/ x \in ToSet(Tail(s))
  <2>1. PICK i \in 1 .. Len(s) : s[i] = x
    BY <1>1 DEF ToSet
  <2>2. CASE i # 1
    <3>1. i - 1 \in 1 .. Len(s) - 1 /\ Tail(s)[i - 1] = x
      BY <1>1, <2>1, <2>2
    <3> QED
      BY <1>2, <3>1 DEF ToSet
  <2> QED
    BY <1>1, <2>1, <2>2
<1>4. ASSUME NEW x \in ToSet(Tail(s)) PROVE x \in ToSet(s)
  <2>1. PICK i \in 1 .. Len(s) - 1 : Tail(s)[i] = x
    BY <1>2 DEF ToSet
  <2> QED
    BY <1>1, <2>1 DEF ToSet
<1>5. Head(s) \in ToSet(s)
  BY <1>1 DEF ToSet
<1> QED
  BY <1>1, <1>3, <1>4, <1>5

\* What the invariant says of a worker and the handler of its task.
WorkerInv(s) == HandlerOf(s) /\ LoadedBy(s) /\ ShutdownInv(s)

\* A worker that is left alone, and whose process at most ends.
LeftAlone(s) ==
  LET p == process[worker[s].task]
      q == process'[worker[s].task] IN
  /\ worker'[s] = worker[s]
  /\ worker[s].pc \in Executing =>
       /\ q.exit_status = p.exit_status /\ q.pid = p.pid /\ q.enable_spawn = p.enable_spawn
       /\ q.woken = p.woken /\ q.killed = p.killed
       /\ q.os = "running" => p.os = "running"

\* Of such a worker the same is true as before, as long as terminate() does
\* nothing, and outside of a shutdown.
LEMMA LeftAloneKeeps ==
  ASSUME NEW s \in Slots, WorkerInv(s), LeftAlone(s),
         \/ UNCHANGED <<ui, shutdown>>
         \/ ui'.pc \notin Terminating /\ ~ shutdown'
  PROVE  WorkerInv(s)'
<1>1. {"setup", "reading", "waiting", "ending"} = Executing
  BY DEF Executing
<1>2. HandlerOf(s)'
  BY <1>1 DEF WorkerInv, HandlerOf, LeftAlone
<1>3. LoadedBy(s)'
  BY <1>1 DEF WorkerInv, LoadedBy, LeftAlone, Terminating
<1>4. Terminated(s) /\ worker[s].pc \in Executing => Terminated(s)'
  BY <1>1 DEF Terminated, LeftAlone
<1>5. ShutdownInv(s)'
  BY <1>4 DEF WorkerInv, ShutdownInv, LeftAlone
<1> QED
  BY <1>2, <1>3, <1>5 DEF WorkerInv

\* terminate() and the shutdown: what they load and do, against the steps
\* that the workers take meanwhile.
LEMMA TerminateStep ==
  ASSUME IInv, KillInv, fate # "aborted", UiCalls \/ UiProceeds, NEW s \in Slots
  PROVE  WorkerInv(s)'
<1>1. /\ process \in [Ids -> Handler]
      /\ ui \in [pc : UiPcs, targets : Seq(Ids), status : ExitStatus, pid : BOOLEAN]
      /\ worker \in [Slots -> [pc : WorkerPcs, task : Ids \union {NoTask}, exc : {"none", "bad_alloc", "subprocess"}]]
  BY DEF IInv, TypeOK, ThreadsType
<1>2. WorkerInv(s) /\ (shutdown => ui.pc \in Terminating \union {"join", "gone"})
  BY DEF KillInv, WorkerInv
<1>3. Executing = {"setup", "reading", "waiting", "ending"}
  BY DEF Executing
<1>4. ASSUME worker'[s].pc \notin Executing PROVE WorkerInv(s)'
  BY <1>3, <1>4 DEF WorkerInv, HandlerOf, LoadedBy, ShutdownInv
<1>5. worker[s].pc \in Executing => worker[s].task \in Elems("active") /\ worker[s].task \in Ids
  BY WorkerTask
<1>6. CASE UiCalls /\ ~ BeginShutdown /\ ~ \E e \in Ids : TerminateTask(e)
  <2>1. ui.pc = "idle" /\ UNCHANGED <<shutdown, worker>>
    BY <1>6 DEF UiCalls, AddEntry, RemoveEntry, ActivateEntry, InactivateEntry, SetDiscard, SetSelectedId, UiIdle, modes
  <2>2. UNCHANGED ui \/ ui'.pc = "sched"
    BY <1>6 DEF UiCalls, AddEntry, RemoveEntry, ActivateEntry, InactivateEntry, SetDiscard, SetSelectedId, UiGoto
  <2>3. UNCHANGED process \/ \E e \in Ids : RemoveEntry(e)
    BY <1>6 DEF UiCalls, AddEntry, ActivateEntry, InactivateEntry, SetDiscard, SetSelectedId
  <2>4. worker[s].pc \in Executing => process'[worker[s].task] = process[worker[s].task]
    <3>1. ASSUME NEW e \in Ids, RemoveEntry(e), worker[s].pc \in Executing
          PROVE  process'[worker[s].task] = process[worker[s].task]
      <4>1. PICK q \in Queues \ {"active"} : e \in Elems(q) /\ DropEntry(e, q)
        BY <3>1 DEF RemoveEntry
      <4>2. e # worker[s].task
        BY <3>1, <4>1, WorkerTask DEF Queues
      <4> QED
        BY <1>1, <1>5, <3>1, <4>1, <4>2 DEF DropEntry
    <3> QED
      BY <2>3, <3>1
  <2>5. LeftAlone(s)
    BY <2>1, <2>4 DEF LeftAlone
  <2>6. UNCHANGED <<ui, shutdown>> \/ (ui'.pc \notin Terminating /\ ~ shutdown')
    BY <1>2, <2>1, <2>2 DEF Terminating
  <2> QED
    BY <1>2, <2>5, <2>6, LeftAloneKeeps
<1>7. ASSUME BeginShutdown \/ \E e \in Ids : TerminateTask(e) PROVE WorkerInv(s)'
  <2>1. UNCHANGED <<process, worker, queue>> /\ ui.pc = "idle" /\ ui'.pc = "term"
    BY <1>7 DEF BeginShutdown, TerminateTask, UiIdle, UiGoto, lists
  <2>2. shutdown' => ui'.targets = queue["active"]
    <3>1. ~ shutdown
      BY <1>2, <2>1 DEF Terminating
    <3>2. CASE BeginShutdown
      BY <3>2 DEF BeginShutdown, UiGoto
    <3>3. CASE \E e \in Ids : TerminateTask(e)
      BY <3>1, <3>3 DEF TerminateTask, modes
    <3> QED
      BY <1>7, <3>2, <3>3
  <2>3. HandlerOf(s)'
    BY <1>2, <2>1 DEF WorkerInv, HandlerOf
  <2>4. LoadedBy(s)'
    BY <2>1 DEF LoadedBy
  <2>5. ShutdownInv(s)'
    BY <1>5, <2>1, <2>2 DEF ShutdownInv, Terminating, Elems
  <2> QED
    BY <2>3, <2>4, <2>5 DEF WorkerInv
<1>8. CASE ScheduleThread \/ ScheduleDone
  <2>1. UNCHANGED <<process, shutdown>> /\ ui.pc = "sched" /\ (UNCHANGED ui \/ ui'.pc = "idle")
    BY <1>8 DEF ScheduleThread, ScheduleDone, modes, UiGoto
  <2>2. ~ shutdown
    BY <1>2, <2>1 DEF Terminating
  <2>3. worker'[s] = worker[s] \/ worker'[s].pc \notin Executing
    <3>1. CASE ScheduleThread
      <4> DEFINE slot == worker_slot_mgr[active_count]
      <4>1. worker' = [worker EXCEPT ![slot].pc = "starting"]
        BY <3>1 DEF ScheduleThread
      <4> HIDE DEF slot
      <4> QED
        BY <1>1, <1>3, <4>1
    <3>2. CASE ScheduleDone
      BY <3>2 DEF ScheduleDone
    <3> QED
      BY <1>8, <3>1, <3>2
  <2>4. CASE worker'[s] = worker[s]
    <3>1. LeftAlone(s)
      BY <2>1, <2>4 DEF LeftAlone
    <3> QED
      BY <1>2, <2>1, <2>2, <3>1, LeftAloneKeeps DEF Terminating
  <2> QED
    BY <1>4, <2>3, <2>4
<1>9. CASE TerminateLoadStatus
  <2>1. /\ UNCHANGED <<process, worker, shutdown>>
        /\ ui'.targets = ui.targets /\ ui.pc = "term" /\ ui'.pc = "termLock"
        /\ ui'.status = process[Head(ui.targets)].exit_status
    BY <1>1, <1>9 DEF TerminateLoadStatus, modes
  <2>2. HandlerOf(s)'
    BY <1>2, <2>1 DEF WorkerInv, HandlerOf
  <2>3. LoadedBy(s)'
    BY <1>2, <1>3, <2>1 DEF WorkerInv, HandlerOf, LoadedBy
  <2>4. ShutdownInv(s)'
    BY <1>2, <2>1 DEF WorkerInv, ShutdownInv, Terminated, Terminating
  <2> QED
    BY <2>2, <2>3, <2>4 DEF WorkerInv
<1>10. CASE TerminateDisableSpawn
  <2> DEFINE e == Head(ui.targets)
  <2>1. /\ UNCHANGED <<worker, shutdown>>
        /\ ui'.targets = ui.targets /\ ui.pc = "termLock" /\ ui'.pc = "termKill"
        /\ ui'.status = ui.status /\ ui'.pid = process[e].pid
        /\ process' = [process EXCEPT ![e] = [@ EXCEPT !.enable_spawn = FALSE]]
    BY <1>1, <1>10 DEF TerminateDisableSpawn, modes
  <2> HIDE DEF e
  <2>2. ASSUME worker[s].pc \in Executing
        PROVE  LET p == process[worker[s].task]
                   q == process'[worker[s].task]
               IN  /\ q.exit_status = p.exit_status /\ q.pid = p.pid /\ q.woken = p.woken /\ q.killed = p.killed
                   /\ q.os = p.os
                   /\ q.enable_spawn = IF worker[s].task = e THEN FALSE ELSE p.enable_spawn
    <3> DEFINE h == process[worker[s].task]
    <3>1. h \in Handler /\ worker[s].task \in Ids
      BY <1>1, <1>5, <2>2
    <3>2. CASE worker[s].task = e
      <4>1. process'[worker[s].task] = [h EXCEPT !.enable_spawn = FALSE]
        BY <1>1, <2>1, <3>1, <3>2
      <4> HIDE DEF h
      <4>2. LET q == [h EXCEPT !.enable_spawn = FALSE]
            IN  /\ q.exit_status = h.exit_status /\ q.pid = h.pid /\ q.woken = h.woken /\ q.killed = h.killed
                /\ q.os = h.os /\ q.enable_spawn = FALSE
        BY <3>1 DEF Handler
      <4> QED
        BY <3>2, <4>1, <4>2 DEF h
    <3>3. CASE worker[s].task # e
      <4>1. process'[worker[s].task] = h
        BY <1>1, <2>1, <3>1, <3>3
      <4> QED
        BY <3>3, <4>1
    <3> QED
      BY <3>2, <3>3
  <2>3. HandlerOf(s)'
    BY <1>2, <1>3, <2>1, <2>2 DEF WorkerInv, HandlerOf
  <2>4. LoadedBy(s)'
    BY <1>2, <1>3, <2>1, <2>2 DEF WorkerInv, HandlerOf, LoadedBy, e
  <2>5. Terminated(s) /\ worker[s].pc \in Executing => Terminated(s)'
    BY <1>3, <2>1, <2>2 DEF Terminated
  <2>6. ShutdownInv(s)'
    BY <1>2, <2>1, <2>5 DEF WorkerInv, ShutdownInv, Terminating
  <2> QED
    BY <2>3, <2>4, <2>6 DEF WorkerInv
<1>11. CASE TerminateKill
  <2> DEFINE e == Head(ui.targets)
             kills == ui.pid /\ ui.status = "none"
  <2>1. /\ UNCHANGED <<worker, shutdown>> /\ ui.pc = "termKill" /\ ui'.pc = "term" /\ ui'.targets = Tail(ui.targets)
        /\ IF kills THEN process' = [process EXCEPT ![e] = [@ EXCEPT !.killed = TRUE, !.woken = TRUE]]
           ELSE UNCHANGED process
    BY <1>11 DEF TerminateKill, UiGoto, modes
  <2>2. ToSet(ui.targets) = {e} \union ToSet(ui'.targets)
    BY <1>1, <2>1, HeadTailElems DEF IInv, TargetsLeft
  <2>3. worker[s].pc \in Executing /\ worker[s].task = e =>
          /\ ui.status # "none" => worker[s].pc = "ending"
          /\ ~ process[worker[s].task].enable_spawn
          /\ ~ ui.pid => worker[s].pc \in {"setup", "ending"}
    BY <1>2, <2>1 DEF WorkerInv, LoadedBy
  <2> HIDE DEF e
  <2>4. ASSUME worker[s].pc \in Executing
        PROVE  LET p == process[worker[s].task]
                   q == process'[worker[s].task]
               IN  /\ q.exit_status = p.exit_status /\ q.pid = p.pid /\ q.enable_spawn = p.enable_spawn
                   /\ q.os = p.os
                   /\ (p.woken => q.woken) /\ (p.killed => q.killed)
                   /\ worker[s].task = e /\ kills => q.woken /\ q.killed
    <3> DEFINE h == process[worker[s].task]
    <3>1. h \in Handler /\ worker[s].task \in Ids
      BY <1>1, <1>5, <2>4
    <3>2. CASE worker[s].task = e /\ kills
      <4>1. process'[worker[s].task] = [h EXCEPT !.killed = TRUE, !.woken = TRUE]
        BY <1>1, <2>1, <3>1, <3>2
      <4> HIDE DEF h
      <4>2. LET q == [h EXCEPT !.killed = TRUE, !.woken = TRUE]
            IN  /\ q.exit_status = h.exit_status /\ q.pid = h.pid /\ q.enable_spawn = h.enable_spawn
                /\ q.os = h.os /\ q.woken = TRUE /\ q.killed = TRUE
        BY <3>1 DEF Handler
      <4> QED
        BY <4>1, <4>2 DEF h
    <3>3. CASE ~ (worker[s].task = e /\ kills)
      <4>1. process'[worker[s].task] = h
        BY <1>1, <2>1, <3>1, <3>3
      <4> QED
        BY <3>3, <4>1
    <3> QED
      BY <3>2, <3>3
  <2> HIDE DEF kills
  <2>5. HandlerOf(s)'
    BY <1>2, <1>3, <2>1, <2>4 DEF WorkerInv, HandlerOf
  <2>6. LoadedBy(s)'
    BY <2>1 DEF LoadedBy
  <2>7. Terminated(s) /\ worker[s].pc \in Executing => Terminated(s)'
    BY <1>3, <2>1, <2>4 DEF Terminated
  <2>8. ASSUME worker[s].pc \in Executing, worker[s].task = e PROVE Terminated(s)'
    <3>1. CASE kills
      BY <1>3, <2>1, <2>3, <2>4, <2>8, <3>1 DEF Terminated
    <3>2. CASE ~ kills
      <4>1. worker[s].pc \in {"setup", "ending"}
        BY <2>3, <2>8, <3>2 DEF kills
      <4> QED
        BY <2>1, <2>3, <2>4, <2>8, <4>1 DEF Terminated
    <3> QED
      BY <3>1, <3>2
  <2>9. ShutdownInv(s)'
    BY <1>2, <2>1, <2>2, <2>7, <2>8 DEF WorkerInv, ShutdownInv, Terminating
  <2> QED
    BY <2>5, <2>6, <2>9 DEF WorkerInv
<1>12. CASE TerminateDone \/ JoinThreads
  <2>1. UNCHANGED <<process, worker, shutdown>> /\ ui'.pc \in {"idle", "join", "gone"} /\ (ui.pc = "join" \/ ui.targets = <<>>)
    BY <1>12 DEF TerminateDone, JoinThreads, UiGoto, modes
  <2>2. HandlerOf(s)'
    BY <1>2, <2>1 DEF WorkerInv, HandlerOf
  <2>3. LoadedBy(s)'
    BY <2>1 DEF LoadedBy
  <2>4. ShutdownInv(s)'
    <3>1. ui.pc = "join" \/ ToSet(ui.targets) = {}
      BY <2>1 DEF ToSet
    <3> QED
      BY <1>2, <2>1, <3>1 DEF WorkerInv, ShutdownInv, Terminated, Terminating
  <2> QED
    BY <2>2, <2>3, <2>4 DEF WorkerInv
<1> QED
  BY <1>6, <1>7, <1>8, <1>9, <1>10, <1>11, <1>12 DEF UiProceeds

\* A worker that takes a task, spawns, reads, waits or ends, wherever
\* terminate() is.
LEMMA WorkersStep ==
  ASSUME IInv, KillInv, fate # "aborted", NEW w \in Slots, WorkerProceeds(w) \/ WorkerFails(w), NEW s \in Slots
  PROVE  WorkerInv(s)'
<1>1. /\ process \in [Ids -> Handler]
      /\ worker \in [Slots -> [pc : WorkerPcs, task : Ids \union {NoTask}, exc : {"none", "bad_alloc", "subprocess"}]]
  BY DEF IInv, TypeOK, ThreadsType
<1>2. WorkerInv(s)
  BY DEF KillInv, WorkerInv
<1>3. Executing = {"setup", "reading", "waiting", "ending"}
  BY DEF Executing
<1>4. worker'[s].pc \notin Executing => WorkerInv(s)'
  BY <1>3 DEF WorkerInv, HandlerOf, LoadedBy, ShutdownInv
<1>5. \A x \in Slots : worker[x].pc \in Executing => worker[x].task \in Ids
  BY WorkerTask
<1>6. UNCHANGED <<ui, shutdown>>
  BY DEF WorkerProceeds, WorkerFails, WorkerStart, WorkerExit, WorkerTake, ExecuteSpawn, ReadOutput, WaitPid, WorkerEnd,
         ThreadReturn, WorkerTakeNoMemory, ExecuteThrows, modes
<1>7. CASE s # w
  <2>1. worker'[s] = worker[s]
    BY <1>1, <1>7
       DEF WorkerProceeds, WorkerFails, WorkerStart, WorkerExit, WorkerTake, ExecuteSpawn, ReadOutput, WaitPid, WorkerEnd,
           ThreadReturn, WorkerTakeNoMemory, ExecuteThrows, ReleaseSlot, WorkerAt, WorkerOn
  <2>2. worker[s].pc \in Executing => process'[worker[s].task] = process[worker[s].task]
    <3>1. UNCHANGED process
          \/ (worker[w].pc \in Executing /\ \A x \in Ids \ {worker[w].task} : process'[x] = process[x])
      BY <1>1, <1>3
         DEF WorkerProceeds, WorkerFails, WorkerStart, WorkerExit, WorkerTake, ExecuteSpawn, ReadOutput, WaitPid, WorkerEnd,
             ThreadReturn, WorkerTakeNoMemory, ExecuteThrows, FileEnded, DropEntry
    <3> QED
      BY <1>5, <1>7, <3>1, WorkerTask
  <2>3. LeftAlone(s)
    BY <2>1, <2>2 DEF LeftAlone
  <2> QED
    BY <1>2, <1>6, <2>3, LeftAloneKeeps
<1>8. CASE s = w /\ (WorkerStart(s) \/ WorkerExit(s) \/ ThreadReturn(s) \/ WorkerTakeNoMemory(s))
  <2>1. worker'[s].pc \in {"loop", "returning", "joinable"}
    BY <1>1, <1>8 DEF WorkerStart, WorkerExit, ThreadReturn, WorkerTakeNoMemory, ReleaseSlot, WorkerAt, WorkerOn
  <2> QED
    BY <1>3, <1>4, <2>1
<1>9. CASE s = w /\ WorkerTake(s)
  <2> DEFINE e == Head(queue["ready"])
  <2>1. e \in Elems("ready") /\ e \in Ids
    BY <1>9, HeadOfReady DEF WorkerTake, IInv, TypeOK
  <2>2. e \notin Elems("active") \union Elems("ended")
    BY <2>1 DEF IInv, TasksFiled, Queues
  <2>3. process[e] = NewHandler /\ UNCHANGED process
    BY <1>9, <2>1, <2>2 DEF KillInv, HandlersNew, WorkerTake
  <2>4. worker'[s].pc = "setup" /\ worker'[s].task = e
    BY <1>1, <1>9 DEF WorkerTake, WorkerOn
  <2> HIDE DEF e
  <2>5. ui.pc \notin Terminating /\ ~ shutdown
    BY <1>9, QueueAssumption DEF WorkerTake, IInv, LockDiscipline, Terminating, Slots, Ui
  <2>6. HandlerOf(s)'
    BY <2>3, <2>4 DEF HandlerOf, NewHandler
  <2> QED
    BY <1>6, <2>5, <2>6 DEF WorkerInv, LoadedBy, ShutdownInv, Terminating
<1>10. ASSUME s = w, NEW exc \in {"bad_alloc", "subprocess"}, ExecuteThrows(s, exc) PROVE WorkerInv(s)'
  <2>1. worker'[s].pc = "ending" /\ worker'[s].task = worker[s].task /\ UNCHANGED process /\ worker[s].pc \in Executing
    BY <1>1, <1>3, <1>10 DEF ExecuteThrows
  <2> QED
    BY <1>2, <1>6, <2>1 DEF WorkerInv, HandlerOf, LoadedBy, ShutdownInv, Terminated
<1>11. ASSUME s = w, NEW spawn_ok \in BOOLEAN, ExecuteSpawn(s, spawn_ok) PROVE WorkerInv(s)'
  <2> DEFINE h == process[worker[s].task]
  <2>1. h \in Handler /\ worker[s].task \in Ids /\ worker[s].pc = "setup"
    BY <1>1, <1>3, <1>5, <1>11 DEF ExecuteSpawn
  <2>2. CASE h.enable_spawn /\ spawn_ok
    <3>1. worker'[s].pc = "reading" /\ worker'[s].task = worker[s].task
      BY <1>1, <1>11, <2>2 DEF ExecuteSpawn, WorkerAt
    <3>2. process'[worker[s].task] = [h EXCEPT !.pid = TRUE, !.os = "running", !.output = TRUE]
      BY <1>1, <1>11, <2>1, <2>2 DEF ExecuteSpawn
    <3>3. LET q == [h EXCEPT !.pid = TRUE, !.os = "running", !.output = TRUE]
          IN  q.exit_status = h.exit_status /\ q.pid = TRUE /\ q.enable_spawn = h.enable_spawn
      <4> HIDE DEF h
      <4> QED
        BY <2>1 DEF Handler
    <3>4. HandlerOf(s)'
      BY <1>2, <2>1, <3>1, <3>2, <3>3 DEF WorkerInv, HandlerOf
    <3>5. LoadedBy(s)'
      BY <1>2, <1>3, <1>6, <2>1, <2>2, <3>1 DEF WorkerInv, LoadedBy
    <3>6. ShutdownInv(s)'
      BY <1>2, <1>3, <1>6, <2>1, <2>2, <3>1 DEF WorkerInv, ShutdownInv, Terminated
    <3> QED
      BY <3>4, <3>5, <3>6 DEF WorkerInv
  <2>3. CASE ~ (h.enable_spawn /\ spawn_ok)
    <3>1. worker'[s].pc = "ending" /\ worker'[s].task = worker[s].task /\ UNCHANGED process
      BY <1>1, <1>11, <2>3 DEF ExecuteSpawn, WorkerAt
    <3> QED
      BY <1>2, <1>3, <1>6, <2>1, <3>1 DEF WorkerInv, HandlerOf, LoadedBy, ShutdownInv, Terminated
  <2> QED
    BY <2>2, <2>3
<1>12. CASE s = w /\ ReadOutput(s)
  <2>1. /\ worker[s].pc = "reading" /\ worker'[s].pc = "waiting" /\ worker'[s].task = worker[s].task /\ UNCHANGED process
    BY <1>1, <1>12 DEF ReadOutput, WorkerAt
  <2> QED
    BY <1>2, <1>3, <1>6, <2>1 DEF WorkerInv, HandlerOf, LoadedBy, ShutdownInv, Terminated
<1>13. CASE s = w /\ WaitPid(s)
  <2> DEFINE h == process[worker[s].task]
             status == WExitStatus(h.os)
  <2>1. /\ worker[s].pc = "waiting" /\ worker'[s].pc = "ending" /\ worker'[s].task = worker[s].task
        /\ h \in Handler /\ worker[s].task \in Ids
    BY <1>1, <1>3, <1>5, <1>13 DEF WaitPid, WorkerAt
  <2>2. process'[worker[s].task] = [h EXCEPT !.exit_status = status]
    BY <1>1, <1>13, <2>1 DEF WaitPid
  <2> HIDE DEF status
  <2>3. [h EXCEPT !.exit_status = status].enable_spawn = h.enable_spawn
    <3> HIDE DEF h
    <3> QED
      BY <2>1 DEF Handler
  <2> QED
    BY <1>2, <1>3, <1>6, <2>1, <2>2, <2>3 DEF WorkerInv, HandlerOf, LoadedBy, ShutdownInv, Terminated
<1>14. CASE s = w /\ WorkerEnd(s)
  <2>1. worker'[s].pc \notin Executing \/ worker'[s] = worker[s]
    BY <1>1, <1>3, <1>14 DEF WorkerEnd, ReleaseSlot, WorkerOn
  <2>2. CASE worker'[s] = worker[s]
    <3>1. worker[s].pc = "ending" /\ queue_lock = Free
      BY <1>14 DEF WorkerEnd
    <3>2. ui.pc \notin Terminating
      BY <3>1 DEF IInv, LockDiscipline, Terminating, Free, Ui
    <3> QED
      BY <1>6, <2>2, <3>1, <3>2 DEF WorkerInv, HandlerOf, LoadedBy, ShutdownInv, Terminated, Terminating
  <2> QED
    BY <1>4, <2>1, <2>2
<1> QED
  BY <1>7, <1>8, <1>9, <1>10, <1>11, <1>12, <1>13, <1>14 DEF WorkerProceeds, WorkerFails

\* A process that ends or closes its output changes nothing that matters.
LEMMA ProcessesStep ==
  ASSUME IInv, KillInv, fate # "aborted", Processes, NEW s \in Slots
  PROVE  WorkerInv(s)'
<1>1. process \in [Ids -> Handler] /\ UNCHANGED <<worker, ui, shutdown>>
  BY DEF IInv, TypeOK, ThreadsType, Processes, ProcessEnds, OutputCloses, modes
<1>2. WorkerInv(s)
  BY DEF KillInv, WorkerInv
<1>3. ASSUME NEW x \in Ids
      PROVE  LET p == process[x]
                 q == process'[x]
             IN  /\ q.exit_status = p.exit_status /\ q.pid = p.pid /\ q.enable_spawn = p.enable_spawn
                 /\ q.woken = p.woken /\ q.killed = p.killed
                 /\ q.os = "running" => p.os = "running"
  <2> DEFINE h == process[x]
  <2>1. h \in Handler
    BY <1>1
  <2>2. CASE \E e \in Ids : \E how \in ExitCodes \union {"signaled"} : ProcessEnds(e, how)
    <3>1. PICK e \in Ids, how \in ExitCodes \union {"signaled"} : ProcessEnds(e, how)
      BY <2>2
    <3>2. process' = [process EXCEPT ![e] = [process[e] EXCEPT !.os = how]] /\ process[e].os = "running"
      BY <3>1 DEF ProcessEnds
    <3>3. CASE x = e
      <4>1. process'[x] = [h EXCEPT !.os = how] /\ h.os = "running"
        BY <1>1, <3>2, <3>3
      <4>2. LET q == [h EXCEPT !.os = how]
            IN  /\ q.exit_status = h.exit_status /\ q.pid = h.pid /\ q.enable_spawn = h.enable_spawn
                /\ q.woken = h.woken /\ q.killed = h.killed
        <5> HIDE DEF h
        <5> QED
          BY <2>1 DEF Handler
      <4> QED
        BY <4>1, <4>2
    <3>4. CASE x # e
      <4>1. process'[x] = process[x]
        BY <1>1, <3>2, <3>4
      <4> QED
        BY <4>1
    <3> QED
      BY <3>3, <3>4
  <2>3. CASE \E e \in Ids : OutputCloses(e)
    <3>1. PICK e \in Ids : OutputCloses(e)
      BY <2>3
    <3>2. process' = [process EXCEPT ![e] = [process[e] EXCEPT !.output = FALSE]]
      BY <3>1 DEF OutputCloses
    <3>3. CASE x = e
      <4>1. process'[x] = [h EXCEPT !.output = FALSE]
        BY <1>1, <3>2, <3>3
      <4>2. LET q == [h EXCEPT !.output = FALSE]
            IN  /\ q.exit_status = h.exit_status /\ q.pid = h.pid /\ q.enable_spawn = h.enable_spawn
                /\ q.woken = h.woken /\ q.killed = h.killed /\ q.os = h.os
        <5> HIDE DEF h
        <5> QED
          BY <2>1 DEF Handler
      <4> QED
        BY <4>1, <4>2
    <3>4. CASE x # e
      <4>1. process'[x] = process[x]
        BY <1>1, <3>2, <3>4
      <4> QED
        BY <4>1
    <3> QED
      BY <3>3, <3>4
  <2> QED
    BY <2>2, <2>3 DEF Processes
<1>4. LeftAlone(s)
  BY <1>1, <1>3, WorkerTask DEF LeftAlone
<1> QED
  BY <1>1, <1>2, <1>4, LeftAloneKeeps

\* Every step keeps what terminate() relies on.
LEMMA KillStep ==
  ASSUME IInv, KillInv, [Next]_vars
  PROVE  KillInv'
<1>1. TargetsActive' /\ HandlersNew'
  BY HandlersStep
<1>2. \A s \in Slots : WorkerInv(s)'
  <2>1. CASE UNCHANGED vars
    BY <2>1 DEF vars, modes, KillInv, WorkerInv, HandlerOf, LoadedBy, ShutdownInv, Terminated
  <2> QED
    BY <2>1, TerminateStep, WorkersStep, ProcessesStep DEF Next, Stopped
<1>3. (ui'.pc \in {"join", "gone"} => shutdown') /\ (shutdown' => ui'.pc \in Terminating \union {"join", "gone"})
  <2>1. /\ ui.pc \in {"join", "gone"} => shutdown
        /\ shutdown => ui.pc \in Terminating \union {"join", "gone"}
        /\ ui \in [pc : UiPcs, targets : Seq(Ids), status : ExitStatus, pid : BOOLEAN]
    BY DEF KillInv, IInv, TypeOK, ThreadsType
  <2>2. UNCHANGED <<ui, shutdown>> => (ui'.pc \in {"join", "gone"} => shutdown')
                                      /\ (shutdown' => ui'.pc \in Terminating \union {"join", "gone"})
    BY <2>1
  <2>3. UiCalls => \/ UNCHANGED <<ui, shutdown>>
                   \/ ui'.pc = "term" /\ shutdown'
                   \/ ui.pc = "idle" /\ UNCHANGED shutdown /\ ui'.pc \in {"sched", "term"}
    BY DEF UiCalls, AddEntry, RemoveEntry, ActivateEntry, InactivateEntry, SetDiscard, SetSelectedId, TerminateTask,
           BeginShutdown, UiIdle, UiGoto, modes
  <2>4. UiProceeds => /\ UNCHANGED shutdown
                      /\ \/ UNCHANGED ui
                         \/ ui.pc = "sched" /\ ui'.pc = "idle"
                         \/ ui.pc \in Terminating /\ ui'.pc \in Terminating
                         \/ ui.pc = "term" /\ ui'.pc = IF shutdown THEN "join" ELSE "idle"
                         \/ ui.pc = "join" /\ ui'.pc = "gone"
    <3>1. ScheduleThread => UNCHANGED <<ui, shutdown>>
      BY DEF ScheduleThread, modes
    <3>2. ScheduleDone => UNCHANGED shutdown /\ ui.pc = "sched" /\ ui'.pc = "idle"
      BY DEF ScheduleDone, UiGoto, modes
    <3>3. TerminateLoadStatus => UNCHANGED shutdown /\ ui.pc = "term" /\ ui'.pc = "termLock"
      BY <2>1 DEF TerminateLoadStatus, modes
    <3>4. TerminateDisableSpawn => UNCHANGED shutdown /\ ui.pc = "termLock" /\ ui'.pc = "termKill"
      BY <2>1 DEF TerminateDisableSpawn, modes
    <3>5. TerminateKill => UNCHANGED shutdown /\ ui.pc = "termKill" /\ ui'.pc = "term"
      BY DEF TerminateKill, UiGoto, modes
    <3>6. TerminateDone => UNCHANGED shutdown /\ ui.pc = "term" /\ ui'.pc = IF shutdown THEN "join" ELSE "idle"
      BY DEF TerminateDone, UiGoto, modes
    <3>7. JoinThreads => UNCHANGED shutdown /\ ui.pc = "join" /\ ui'.pc = "gone"
      BY DEF JoinThreads, UiGoto, modes
    <3> QED
      BY <3>1, <3>2, <3>3, <3>4, <3>5, <3>6, <3>7 DEF UiProceeds, Terminating
  <2>5. (\E s \in Slots : WorkerProceeds(s) \/ WorkerFails(s)) \/ Processes \/ Stopped \/ UNCHANGED vars
          => UNCHANGED <<ui, shutdown>>
    BY DEF WorkerProceeds, WorkerFails, WorkerStart, WorkerExit, WorkerTake, ExecuteSpawn, ReadOutput, WaitPid, WorkerEnd,
           ThreadReturn, WorkerTakeNoMemory, ExecuteThrows, Processes, ProcessEnds, OutputCloses, Stopped, vars, modes
  <2>6. CASE UiCalls
    BY <2>1, <2>2, <2>3, <2>6 DEF Terminating
  <2>7. CASE UiProceeds
    BY <2>1, <2>2, <2>4, <2>7 DEF Terminating
  <2> QED
    BY <2>2, <2>5, <2>6, <2>7 DEF Next
<1> QED
  BY <1>1, <1>2, <1>3 DEF KillInv, WorkerInv

\* The destructor does not wait for a process that nobody ends: when it joins
\* the workers, each one has been kept from spawning, or woken and its process
\* killed, although terminate() reads exit_status, enable_spawn and the pid
\* in steps between which the worker goes on.
THEOREM ShutdownTerminates == Spec => []ShutdownKills
<1>1. Init => KillInv
  <2> SUFFICES ASSUME Init PROVE KillInv
    OBVIOUS
  <2>1. /\ ui.pc = "idle" /\ shutdown = FALSE
        /\ \A s \in Slots : worker[s].pc = "unused"
        /\ \A e \in Ids : process[e] = NewHandler
    BY DEF Init
  <2> QED
    BY <2>1 DEF KillInv, TargetsActive, HandlersNew, HandlerOf, LoadedBy, ShutdownInv, Terminating, Executing
<1>2. IInv /\ KillInv /\ [Next]_vars => KillInv'
  BY KillStep
<1>3. KillInv => ShutdownKills
  BY DEF KillInv, ShutdownInv, Terminated, ShutdownKills, Terminating, Executing
<1> QED
  BY <1>1, <1>2, <1>3, Invariance, PTL DEF Spec
=============================================================================
