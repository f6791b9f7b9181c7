--------------------------- MODULE SubProcessQueue ---------------------------
(***************************************************************************)
(* The task queue of DRBDmon: user/drbdmon/subprocess/SubProcessQueue.cpp   *)
(* together with the external process handler it drives,                    *)
(* user/drbdmon/subprocess/Linux/SubProcessLx.cpp.                          *)
(*                                                                         *)
(* One user interface thread adds, moves, removes and terminates tasks; up *)
(* to MAX_ACTIVE_COUNT worker threads take tasks from the ready queue, run  *)
(* an external process for each and file the task in the ended queue.       *)
(* queue_lock protects the queues and the thread slots.  It is not held     *)
(* while a worker executes a process, nor while a finished thread returns.  *)
(***************************************************************************)
EXTENDS Integers, Sequences, FiniteSets, SequencesExt

CONSTANTS
  MAX_ACTIVE_COUNT,   \* number of worker thread slots
  MAX_ENTRY_COUNT,    \* capacity of the task queue
  MaxTasks,           \* bound on next_id: tasks created in one behaviour
  CursorQueues,       \* bound: the queues whose cursor the user moves
  DiscardModes,       \* bound: the discard settings the user chooses from
  ExitCodes           \* bound: the exit codes the external processes end with

Slots  == 0 .. MAX_ACTIVE_COUNT - 1
Ids    == 0 .. MaxTasks - 1
Queues == {"wait", "ready", "active", "ended"}

\* discard_finished_tasks, discard_succeeded_tasks: the flags that are set
DiscardFlags == {"finished", "succeeded"}

ASSUME QueueAssumption ==
  /\ MAX_ACTIVE_COUNT \in Nat \ {0}
  /\ MAX_ENTRY_COUNT \in Nat \ {0}
  /\ MaxTasks \in Nat \ {0}
  /\ CursorQueues \subseteq Queues
  /\ DiscardModes \subseteq SUBSET DiscardFlags
  /\ ExitCodes \subseteq {"zero", "nonzero"}

TASKQ_NONE == -1      \* UINT64_MAX in the code: no task is selected
NoTask     == -1
Free       == -1      \* queue_lock is not held
Ui         == -2      \* queue_lock is held by the user interface thread

\* Where a worker is.  A slot is "unused" until its first std::thread;
\* "returning" is between the unlock at the end of invoke_thread() and the
\* end of the thread, "joinable" after that.
Idle      == {"unused", "returning", "joinable"}
Executing == {"setup", "reading", "waiting", "ending"}
WorkerPcs == Idle \union {"starting", "loop"} \union Executing

UiPcs == {"idle", "sched", "term", "termLock", "termKill", "join", "gone"}

\* EXIT_STATUS_NONE, exit code 0, any other exit code
ExitStatus == {"none", "zero", "nonzero"}

\* A SubProcessLx object and the process it controls: how the process ended is
\* known to the operating system; output tells whether some process holds the
\* write ends of the output pipes; killed, whether SIGKILL was sent.
Handler == [enable_spawn : BOOLEAN, pid : BOOLEAN, exit_status : ExitStatus,
            woken : BOOLEAN, output : BOOLEAN, killed : BOOLEAN,
            os : {"none", "running", "zero", "nonzero", "signaled"}]
NewHandler == [enable_spawn |-> TRUE, pid |-> FALSE, exit_status |-> "none",
               woken |-> FALSE, output |-> FALSE, killed |-> FALSE, os |-> "none"]

VARIABLES
  queue,              \* the four linked lists, as sequences of task ids
  selected_id,        \* per queue, the id under the display's cursor
  next_id,
  entry_count,
  active_count,
  worker_slot_mgr,    \* free slots are those at positions >= active_count
  discard,            \* the DiscardFlags that are set
  shutdown,
  queue_lock,         \* Free, Ui or the slot of the worker that holds it
  worker,             \* per slot: pc, selected_entry, stored_exc
  ui,                 \* the user interface thread: pc, the tasks terminate() is
                      \* still to be called for, and what it has loaded
  process,            \* per task, its Handler
  fate                \* "oom" after notify_out_of_memory(), "aborted" after an
                      \* exception left a thread: std::terminate()

lists == <<queue, selected_id, next_id, entry_count>>
slots == <<active_count, worker_slot_mgr>>
modes == <<discard, shutdown, fate>>
vars  == <<lists, slots, modes, queue_lock, worker, ui, process>>

-----------------------------------------------------------------------------
(* The linked lists. *)

Elems(q) == ToSet(queue[q])
InMap(e) == \E q \in Queues : e \in Elems(q)
IndexIn(s, e) == CHOOSE i \in DOMAIN s : s[i] = e
Unlink(s, e) == RemoveAt(s, IndexIn(s, e))

\* Fault: the cursor is not looked at
NextSelectedKept(s, sel, e) == sel

\* Queue::remove_entry(): the cursor moves to the successor, else to the
\* predecessor, else to nothing.
NextSelected(s, sel, e) ==
  LET i == IndexIn(s, e)
  IN  IF sel # e THEN sel
      ELSE IF i < Len(s) THEN s[i + 1]
      ELSE IF i > 1 THEN s[i - 1]
      ELSE TASKQ_NONE

\* move_entry()
MoveEntry(e, from, to) ==
  /\ queue' = [queue EXCEPT ![from] = Unlink(@, e), ![to] = Append(@, e)]
  /\ selected_id' = [selected_id EXCEPT ![from] = NextSelected(queue[from], @, e)]
  /\ UNCHANGED <<next_id, entry_count>>

\* Fault: entry_count is not decremented
DropEntryUncounted(e, from) ==
  /\ queue' = [queue EXCEPT ![from] = Unlink(@, e)]
  /\ selected_id' = [selected_id EXCEPT ![from] = NextSelected(queue[from], @, e)]
  /\ process' = [process EXCEPT ![e] = NewHandler]
  /\ UNCHANGED <<next_id, entry_count>>

\* remove_entry_impl(): the entry and its process handler are deleted
DropEntry(e, from) ==
  /\ queue' = [queue EXCEPT ![from] = Unlink(@, e)]
  /\ selected_id' = [selected_id EXCEPT ![from] = NextSelected(queue[from], @, e)]
  /\ entry_count' = entry_count - 1
  /\ process' = [process EXCEPT ![e] = NewHandler]
  /\ UNCHANGED next_id

-----------------------------------------------------------------------------
Init ==
  /\ queue = [q \in Queues |-> <<>>]
  /\ selected_id = [q \in Queues |-> TASKQ_NONE]
  /\ next_id = 0
  /\ entry_count = 0
  /\ active_count = 0
  /\ worker_slot_mgr = [i \in Slots |-> i]
  /\ discard \in DiscardModes
  /\ shutdown = FALSE
  /\ queue_lock = Free
  /\ worker = [s \in Slots |-> [pc |-> "unused", task |-> NoTask, exc |-> "none"]]
  /\ ui = [pc |-> "idle", targets |-> <<>>, status |-> "none", pid |-> FALSE]
  /\ process = [e \in Ids |-> NewHandler]
  /\ fate = "running"

-----------------------------------------------------------------------------
(* The user interface thread.  Each operation runs under queue_lock. *)

UiIdle == ui.pc = "idle" /\ queue_lock = Free

UiGoto(pc, targets) ==
  ui' = [pc |-> pc, targets |-> targets, status |-> "none", pid |-> FALSE]

\* schedule_threads() wants this many workers
QueueCount ==
  LET wanted == Len(queue["ready"]) + Len(queue["active"])
  IN  IF wanted < MAX_ACTIVE_COUNT THEN wanted ELSE MAX_ACTIVE_COUNT

\* add_entry(); at capacity it throws QueueCapacityException and changes nothing
AddEntry(activate) ==
  /\ UiIdle
  /\ entry_count < MAX_ENTRY_COUNT
  /\ next_id < MaxTasks
  /\ queue' = [queue EXCEPT ![IF activate THEN "ready" ELSE "wait"] =
                 Append(@, next_id)]
  /\ next_id' = next_id + 1
  /\ entry_count' = entry_count + 1
  /\ IF activate THEN UiGoto("sched", <<>>) /\ queue_lock' = Ui
                 ELSE UNCHANGED <<ui, queue_lock>>
  /\ UNCHANGED <<selected_id, slots, modes, worker, process>>

\* Fault: active tasks can be removed
RemoveAnyEntry(e) ==
  /\ UiIdle
  /\ \E q \in Queues : e \in Elems(q) /\ DropEntry(e, q)
  /\ UNCHANGED <<slots, modes, queue_lock, worker, ui>>

\* remove_entry(): a task of the active queue stays
RemoveEntry(e) ==
  /\ UiIdle
  /\ \E q \in Queues \ {"active"} : e \in Elems(q) /\ DropEntry(e, q)
  /\ UNCHANGED <<slots, modes, queue_lock, worker, ui>>

\* Fault: no thread is scheduled
ActivateUnscheduled(e) ==
  /\ UiIdle
  /\ e \in Elems("wait")
  /\ MoveEntry(e, "wait", "ready")
  /\ UNCHANGED <<slots, modes, queue_lock, worker, ui, process>>

\* activate_entry()
ActivateEntry(e) ==
  /\ UiIdle
  /\ e \in Elems("wait")
  /\ MoveEntry(e, "wait", "ready")
  /\ UiGoto("sched", <<>>)
  /\ queue_lock' = Ui
  /\ UNCHANGED <<slots, modes, worker, process>>

\* inactivate_entry()
InactivateEntry(e) ==
  /\ UiIdle
  /\ e \in Elems("ready")
  /\ MoveEntry(e, "ready", "wait")
  /\ UNCHANGED <<slots, modes, queue_lock, worker, ui, process>>

\* One round of the loop in schedule_threads().  A thread object that still
\* belongs to an earlier worker is joined first, with queue_lock held.
ScheduleThread ==
  LET slot == worker_slot_mgr[active_count] IN
  /\ ui.pc = "sched"
  /\ QueueCount > active_count
  /\ worker[slot].pc \in {"unused", "joinable"}
  /\ worker' = [worker EXCEPT ![slot].pc = "starting"]
  /\ active_count' = active_count + 1
  /\ UNCHANGED <<lists, worker_slot_mgr, modes, queue_lock, ui, process>>

ScheduleDone ==
  /\ ui.pc = "sched"
  /\ QueueCount <= active_count
  /\ UiGoto("idle", <<>>)
  /\ queue_lock' = Free
  /\ UNCHANGED <<lists, slots, modes, worker, process>>

\* set_discard_finished_tasks() and set_discard_succeeded_tasks()
SetDiscard(flags) ==
  /\ UiIdle
  /\ discard' = flags
  /\ UNCHANGED <<lists, slots, shutdown, fate, queue_lock, worker, ui, process>>

\* set_..._queue_selected_id(): the task queue displays call these with
\* queue_lock held and with the id of a task they have just iterated over
SetSelectedId(q, id) ==
  /\ UiIdle
  /\ selected_id' = [selected_id EXCEPT ![q] = id]
  /\ UNCHANGED <<queue, next_id, entry_count, slots, modes, queue_lock, worker, ui,
                 process>>

\* terminate_task(): always called with force = true by the displays
TerminateTask(e) ==
  /\ UiIdle
  /\ e \in Elems("active")
  /\ UiGoto("term", <<e>>)
  /\ queue_lock' = Ui
  /\ UNCHANGED <<lists, slots, modes, worker, process>>

\* ~SubProcessQueue(): set shutdown, then terminate every active task
BeginShutdown ==
  /\ UiIdle
  /\ shutdown' = TRUE
  /\ UiGoto("term", queue["active"])
  /\ queue_lock' = Ui
  /\ UNCHANGED <<lists, slots, discard, fate, worker, process>>

\* SubProcessLx::terminate(): the exit status is loaded before proc_lock is taken
TerminateLoadStatus ==
  /\ ui.pc = "term"
  /\ ui.targets # <<>>
  /\ ui' = [ui EXCEPT !.pc = "termLock",
                      !.status = process[Head(ui.targets)].exit_status]
  /\ UNCHANGED <<lists, slots, modes, queue_lock, worker, process>>

\* SubProcessLx::terminate(): the section under proc_lock
TerminateDisableSpawn ==
  LET e == Head(ui.targets) IN
  /\ ui.pc = "termLock"
  /\ ui' = [ui EXCEPT !.pc = "termKill", !.pid = process[e].pid]
  /\ process' = [process EXCEPT ![e] = [@ EXCEPT !.enable_spawn = FALSE]]
  /\ UNCHANGED <<lists, slots, modes, queue_lock, worker>>

\* Fault: nothing is written to the wakeup pipe
TerminateNoWakeup ==
  LET e == Head(ui.targets) IN
  /\ ui.pc = "termKill"
  /\ IF ui.pid /\ ui.status = "none"
     THEN process' = [process EXCEPT ![e].killed = TRUE]
     ELSE UNCHANGED process
  /\ UiGoto("term", Tail(ui.targets))
  /\ UNCHANGED <<lists, slots, modes, queue_lock, worker>>

\* SubProcessLx::terminate(): kill() and the write to the wakeup pipe
TerminateKill ==
  LET e == Head(ui.targets) IN
  /\ ui.pc = "termKill"
  /\ IF ui.pid /\ ui.status = "none"
     THEN process' = [process EXCEPT ![e] = [@ EXCEPT !.killed = TRUE, !.woken = TRUE]]
     ELSE UNCHANGED process
  /\ UiGoto("term", Tail(ui.targets))
  /\ UNCHANGED <<lists, slots, modes, queue_lock, worker>>

\* The lock is released; the destructor goes on to join all threads
TerminateDone ==
  /\ ui.pc = "term"
  /\ ui.targets = <<>>
  /\ UiGoto(IF shutdown THEN "join" ELSE "idle", <<>>)
  /\ queue_lock' = Free
  /\ UNCHANGED <<lists, slots, modes, worker, process>>

\* All slots joined; the queue object and its entries are deleted
JoinThreads ==
  /\ ui.pc = "join"
  /\ \A s \in Slots : worker[s].pc \in {"unused", "joinable"}
  /\ UiGoto("gone", <<>>)
  /\ UNCHANGED <<lists, slots, modes, queue_lock, worker, process>>

-----------------------------------------------------------------------------
(* The worker threads: invoke_thread() *)

WorkerAt(s, pc) == [worker EXCEPT ![s].pc = pc]
WorkerOn(s, pc, task) == [worker EXCEPT ![s] = [pc |-> pc, task |-> task, exc |-> "none"]]

\* Fault: the slot is stored before active_count is decremented
ReleaseSlotAbove(s) ==
  /\ active_count' = active_count - 1
  /\ worker_slot_mgr' = [i \in Slots |-> IF i = active_count THEN s ELSE worker_slot_mgr[i]]
  /\ worker' = WorkerOn(s, "returning", NoTask)
  /\ queue_lock' = Free

\* Fault: the worker counts itself out and the guard does it again
ReleaseSlotTwice(s) ==
  /\ active_count' = active_count - 2
  /\ worker_slot_mgr' = [i \in Slots |-> IF i = active_count - 2 THEN s ELSE worker_slot_mgr[i]]
  /\ worker' = WorkerOn(s, "returning", NoTask)
  /\ queue_lock' = Free

\* ~WorkerGuard(), then the unlock at the end of invoke_thread()
ReleaseSlot(s) ==
  /\ active_count' = active_count - 1
  /\ worker_slot_mgr' = [worker_slot_mgr EXCEPT ![active_count - 1] = s]
  /\ worker' = WorkerOn(s, "returning", NoTask)
  /\ queue_lock' = Free

\* Fault: the worker does not wait for the lock
WorkerStartUnlocked(s) ==
  /\ worker[s].pc = "starting"
  /\ queue_lock' = s
  /\ worker' = WorkerAt(s, "loop")
  /\ UNCHANGED <<lists, slots, modes, ui, process>>

\* The thread function starts and acquires queue_lock
WorkerStart(s) ==
  /\ worker[s].pc = "starting"
  /\ queue_lock = Free
  /\ queue_lock' = s
  /\ worker' = WorkerAt(s, "loop")
  /\ UNCHANGED <<lists, slots, modes, ui, process>>

\* The loop condition is false
WorkerExit(s) ==
  /\ worker[s].pc = "loop"
  /\ shutdown \/ queue["ready"] = <<>>
  /\ ReleaseSlot(s)
  /\ UNCHANGED <<lists, modes, ui, process>>

\* The head of the ready queue is moved to the active queue, its process handler
\* created, the lock released
WorkerTake(s) ==
  LET e == Head(queue["ready"]) IN
  /\ worker[s].pc = "loop"
  /\ ~shutdown
  /\ queue["ready"] # <<>>
  /\ MoveEntry(e, "ready", "active")
  /\ worker' = WorkerOn(s, "setup", e)
  /\ queue_lock' = Free
  /\ UNCHANGED <<slots, modes, ui, process>>

\* create_subprocess_handler() throws std::bad_alloc: the task passes through
\* the active queue to the ended queue without the lock being released, and
\* the worker gives up with tasks possibly left in the ready queue
WorkerTakeNoMemory(s) ==
  /\ worker[s].pc = "loop"
  /\ ~shutdown
  /\ queue["ready"] # <<>>
  /\ MoveEntry(Head(queue["ready"]), "ready", "ended")
  /\ fate' = "oom"
  /\ ReleaseSlot(s)
  /\ UNCHANGED <<discard, shutdown, ui, process>>

\* SubProcessLx::execute(): an exception before posix_spawn(), or in
\* read_subproc_output(), where the process is then neither killed nor reaped
ExecuteThrows(s, exc) ==
  /\ worker[s].pc \in {"setup", "reading"}
  /\ worker' = [worker EXCEPT ![s].pc = "ending", ![s].exc = exc]
  /\ UNCHANGED <<lists, slots, modes, queue_lock, ui, process>>

\* The section under proc_lock: spawn, unless terminate() came first
ExecuteSpawn(s, spawn_ok) ==
  LET e == worker[s].task IN
  /\ worker[s].pc = "setup"
  /\ IF process[e].enable_spawn /\ spawn_ok
     THEN /\ process' = [process EXCEPT ![e] =
                            [@ EXCEPT !.pid = TRUE, !.os = "running", !.output = TRUE]]
          /\ worker' = WorkerAt(s, "reading")
     ELSE /\ worker' = WorkerAt(s, "ending")
          /\ UNCHANGED process
  /\ UNCHANGED <<lists, slots, modes, queue_lock, ui>>

\* read_subproc_output() returns: end of file on both pipes, or a wakeup
ReadOutput(s) ==
  /\ worker[s].pc = "reading"
  /\ process[worker[s].task].woken \/ ~process[worker[s].task].output
  /\ worker' = WorkerAt(s, "waiting")
  /\ UNCHANGED <<lists, slots, modes, queue_lock, ui, process>>

\* WEXITSTATUS() takes bits 8 to 15 of the wait status.  They are 0 for a
\* process that died from a signal, too.
WExitStatus(how) == IF how = "nonzero" THEN "nonzero" ELSE "zero"

\* waitpid() returns and the exit status is stored
WaitPid(s) ==
  LET e == worker[s].task IN
  /\ worker[s].pc = "waiting"
  /\ process[e].os # "running"
  /\ process' = [process EXCEPT ![e] = [@ EXCEPT !.exit_status = WExitStatus(process[e].os)]]
  /\ worker' = WorkerAt(s, "ending")
  /\ UNCHANGED <<lists, slots, modes, queue_lock, ui>>

DiscardFlag(e) ==
  \/ "finished" \in discard
  \/ "succeeded" \in discard /\ process[e].exit_status = "zero"

\* The task goes to the ended queue, or through it and away.  Of the handler of
\* an ended task only the exit status is used again.
FileEnded(e) ==
  IF DiscardFlag(e)
  THEN DropEntry(e, "active")
  ELSE /\ MoveEntry(e, "active", "ended")
       /\ process' = [process EXCEPT ![e] =
                        [NewHandler EXCEPT !.exit_status = process[e].exit_status]]

\* The worker has the lock again.  Without an exception it continues the loop; a
\* stored std::bad_alloc is rethrown and caught, and the worker ends; a stored
\* SubProcess::Exception is rethrown and not caught, and the program ends.
WorkerEnd(s) ==
  /\ worker[s].pc = "ending"
  /\ queue_lock = Free
  /\ FileEnded(worker[s].task)
  /\ \/ /\ worker[s].exc = "none"
        /\ worker' = WorkerOn(s, "loop", NoTask)
        /\ queue_lock' = s
        /\ UNCHANGED <<slots, fate>>
     \/ /\ worker[s].exc = "bad_alloc"
        /\ fate' = "oom"
        /\ ReleaseSlot(s)
     \/ /\ worker[s].exc = "subprocess"
        /\ fate' = "aborted"
        /\ UNCHANGED <<slots, worker, queue_lock>>
  /\ UNCHANGED <<discard, shutdown, ui>>

\* The thread function returns after the unlock
ThreadReturn(s) ==
  /\ worker[s].pc = "returning"
  /\ worker' = WorkerAt(s, "joinable")
  /\ UNCHANGED <<lists, slots, modes, queue_lock, ui, process>>

-----------------------------------------------------------------------------
(* The external processes *)

ProcessEnds(e, how) ==
  /\ process[e].os = "running"
  /\ how = "signaled" => process[e].killed
  /\ process' = [process EXCEPT ![e] = [@ EXCEPT !.os = how]]
  /\ UNCHANGED <<lists, slots, modes, queue_lock, worker, ui>>

\* The process (which may go on running) and its descendants have closed the
\* write ends of the output pipes
OutputCloses(e) ==
  /\ process[e].output
  /\ process' = [process EXCEPT ![e] = [@ EXCEPT !.output = FALSE]]
  /\ UNCHANGED <<lists, slots, modes, queue_lock, worker, ui>>

-----------------------------------------------------------------------------
UiCalls ==
  \/ \E activate \in BOOLEAN : AddEntry(activate)
  \/ \E e \in Ids : RemoveEntry(e)
  \/ \E e \in Ids : ActivateEntry(e)
  \/ \E e \in Ids : InactivateEntry(e)
  \/ \E e \in Ids : TerminateTask(e)
  \/ \E flags \in DiscardModes : SetDiscard(flags)
  \/ \E q \in CursorQueues : \E id \in Elems(q) \union {TASKQ_NONE} : SetSelectedId(q, id)
  \/ BeginShutdown

\* What the user interface thread does once inside an operation
UiProceeds ==
  \/ ScheduleThread
  \/ ScheduleDone
  \/ TerminateLoadStatus
  \/ TerminateDisableSpawn
  \/ TerminateKill
  \/ TerminateDone
  \/ JoinThreads

WorkerProceeds(s) ==
  \/ WorkerStart(s)
  \/ WorkerExit(s)
  \/ WorkerTake(s)
  \/ \E spawn_ok \in BOOLEAN : ExecuteSpawn(s, spawn_ok)
  \/ ReadOutput(s)
  \/ WaitPid(s)
  \/ WorkerEnd(s)
  \/ ThreadReturn(s)

WorkerFails(s) ==
  \/ WorkerTakeNoMemory(s)
  \/ \E exc \in {"bad_alloc", "subprocess"} : ExecuteThrows(s, exc)

Processes ==
  \/ \E e \in Ids : \E how \in ExitCodes \union {"signaled"} : ProcessEnds(e, how)
  \/ \E e \in Ids : OutputCloses(e)

\* The queue has been destroyed, or the program is gone
Stopped == (ui.pc = "gone" \/ fate = "aborted") /\ UNCHANGED vars

Next ==
  \/ /\ fate # "aborted"
     /\ \/ UiCalls
        \/ UiProceeds
        \/ \E s \in Slots : WorkerProceeds(s)
        \/ \E s \in Slots : WorkerFails(s)
        \/ Processes
  \/ Stopped

Spec == Init /\ [][Next]_vars

\* Threads inside an operation go on, and a process dies from SIGKILL.  Nothing
\* is assumed of the user, of when a process ends by itself, or of who gets a
\* contended queue_lock.
Up == fate # "aborted"
Fairness ==
  /\ WF_vars(Up /\ UiProceeds)
  /\ \A s \in Slots : WF_vars(Up /\ WorkerProceeds(s))
  /\ \A e \in Ids : WF_vars(Up /\ ProcessEnds(e, "signaled"))

FairSpec == Spec /\ Fairness

-----------------------------------------------------------------------------
(* Properties *)

ListsType ==
  /\ queue \in [Queues -> Seq(Ids)]
  /\ selected_id \in [Queues -> Ids \union {TASKQ_NONE}]
  /\ next_id \in 0 .. MaxTasks
  /\ entry_count \in Int
SlotsType ==
  /\ active_count \in 0 .. MAX_ACTIVE_COUNT
  /\ worker_slot_mgr \in [Slots -> Slots]
ThreadsType ==
  /\ discard \subseteq DiscardFlags
  /\ shutdown \in BOOLEAN
  /\ queue_lock \in Slots \union {Free, Ui}
  /\ worker \in [Slots -> [pc : WorkerPcs, task : Ids \union {NoTask},
                           exc : {"none", "bad_alloc", "subprocess"}]]
  /\ ui \in [pc : UiPcs, targets : Seq(Ids), status : ExitStatus, pid : BOOLEAN]
  /\ process \in [Ids -> Handler]
  /\ fate \in {"running", "oom", "aborted"}

\* Types of all variables.
TypeOK == ListsType /\ SlotsType /\ ThreadsType

\* The slots at positions >= active_count of worker_slot_mgr are distinct and are
\* exactly the slots without a live worker.  So schedule_threads() neither
\* overwrites the std::thread of a live worker (which would end the program) nor
\* joins, holding queue_lock, a thread that still waits for queue_lock.
SlotStack ==
  LET free == active_count .. MAX_ACTIVE_COUNT - 1 IN
  /\ \A i, j \in free : i # j => worker_slot_mgr[i] # worker_slot_mgr[j]
  /\ \A s \in Slots : worker[s].pc \in Idle <=> \E i \in free : worker_slot_mgr[i] = s

\* A worker inside the loop, and the user interface thread inside an operation,
\* own queue_lock: nobody else changes the queues or the slots meanwhile.
LockDiscipline ==
  /\ \A s \in Slots : queue_lock = s <=> worker[s].pc = "loop"
  /\ queue_lock = Ui <=> ui.pc \in {"sched", "term", "termLock", "termKill"}

NoDuplicates(s) == \A i, j \in DOMAIN s : s[i] = s[j] => i = j

\* Every task is in at most one queue, once, and entry_count counts the tasks.
TasksFiled ==
  /\ \A q \in Queues : NoDuplicates(queue[q])
  /\ \A p, q \in Queues : p # q => Elems(p) \intersect Elems(q) = {}
  /\ entry_count = Cardinality({e \in Ids : InMap(e)})

\* The active queue holds exactly the tasks that workers are executing, one
\* worker each: refusing to remove active tasks is enough to keep an entry that
\* a worker uses without the lock from being deleted.
ActiveTasksExecuting ==
  LET executing == {s \in Slots : worker[s].pc \in Executing} IN
  fate # "aborted" =>
    /\ Elems("active") = {worker[s].task : s \in executing}
    /\ \A s, w \in executing : s # w => worker[s].task # worker[w].task

\* Whenever the lock is free there are enough workers for the ready tasks, unless
\* a worker ran out of memory (DrbdMon then restarts) or the queue shuts down.
ReadyHasWorkers ==
  queue_lock = Free /\ ~shutdown /\ fate = "running" => active_count >= QueueCount

\* The cursor of a queue is on a task of that queue or on none.
CursorInQueue ==
  \A q \in Queues : selected_id[q] \in Elems(q) \union {TASKQ_NONE}

\* Once the destructor waits for the workers, every process a worker still
\* waits for has been sent SIGKILL and its worker has been woken.
ShutdownKills ==
  ui.pc = "join" =>
    \A s \in Slots :
      LET p == process[worker[s].task] IN
      /\ worker[s].pc = "reading" => p.woken
      /\ worker[s].pc \in {"reading", "waiting"} /\ p.os = "running" => p.killed

\* The destructor returns, or an uncaught exception has ended the program.
ShutdownCompletes == shutdown ~> (ui.pc = "gone" \/ fate = "aborted")

\* DRBDmon_Configuration_Guide.md: with "Discard successfully completed tasks",
\* tasks "where the external process ended with an exit code of 0 (zero)" are
\* discarded.  A task that was discarded for that reason ended with that code.
DiscardedTasksSucceeded ==
  [][\A e \in Ids :
       /\ e \in Elems("active")
       /\ \A q \in Queues : e \notin ToSet(queue'[q])
       /\ "finished" \notin discard
       => process[e].os = "zero"]_vars
=============================================================================
