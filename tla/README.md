# TLA+ models of drbd-utils

drbd-utils is the user space of DRBD: the tools that configure the replicated
block device (`drbdadm`, `drbdsetup`), maintain its on-disk metadata
(`drbdmeta`), watch it (`drbdmon`), and the scripts that tie it to a cluster
manager. This directory models the parts of it whose behaviour depends on
interleavings, crashes and ordering, model-checks them with TLC and proves
theorems about them with TLAPS. Paths below are relative to the repository.

    tlc -workers 2 -config SubProcessQueue_safety.cfg SubProcessQueue
    tlapm SubProcessQueueProofs.tla

## Inventory

| Component | State it keeps | Operations | What is hard | What makes it correct |
|---|---|---|---|---|
| DRBDmon task queue (`user/drbdmon/subprocess/SubProcessQueue.*`, `SubProcess*`, `Linux/SubProcessLx.*`) | four lists of tasks, a cursor in each, the stack of worker slots, a process handler per task | add, activate, inactivate, remove and terminate a task, discard settings, the worker threads, the destructor | up to 8 workers and the user's thread share the lists; a worker runs a process without the lock; shutdown races spawning | no task in two lists or in none, no slot shared, no process left behind, shutdown ends |
| DRBDmon core (`DrbdMon.cpp`, `drbdmon_main.cpp`, `EventsIo.cpp`, `EventsSourceSpawner.cpp`, `SubProcessNotification.cpp`, `IntervalTimer.cpp`) | the instance, the epoll batch, the notification mask, the display timer, signal mask, fail data | `run()` and its event branches, `monitor_loop()` | five event sources in any order; restart after any failure; wakeups from threads | no change, notification or termination signal is lost |
| DRBDmon objects (`objects/`) | resources, connections, volumes and their marks and alerts | events2 lines create, change, rename, destroy | marks are propagated incrementally | they equal a definition over the whole tree |
| DRBDmon displays, configuration, message log | the terminal, pages, a ring of messages | drawing, key decoding, saving | mostly layout | - |
| `drbdmeta apply-al` (`user/shared/drbdmeta.c`) | the log, the bitmap, the super block | replay the log, set bits, erase the log, set `MDF_AL_CLEAN` | crash of the host at any write, torn blocks, numbers that wrap | nothing written before the crash is missing from the bitmap |
| `drbdmeta` create, convert, resize, dump | super block, log, bitmap, the file with the last known size | create-md, convert, check-resize, dump, restore | a kill or a power failure in the middle of a move | the metadata is found and complete |
| `drbdsetup events2` (`user/v9/drbdsetup_events2.c`) | tree of objects, queue of pending notifications | initial dump, notifications, `--now`, `--poll` | notifications out of sequence, during and between dumps; a full socket | the lines printed rebuild the state of the kernel |
| `drbdsetup` commands and netlink (`drbdsetup.c`, `libgenl.c`) | socket, list of peer devices with their timeouts | wait-connect, wait-sync; one request, one reply | notifications between requests, several timeouts | a wait ends, and does not end too early |
| `drbdadm adjust` (`drbdadm_adjust.c`, `drbdadm_main.c`) | the deferred commands by stage | compare, schedule, run the stages | failure of one of several commands, connections that change meanwhile | an order the kernel accepts; success means adjusted |
| `drbdadm` parser, checks, dump | the configuration | parse, check, print | sequential | round trips, covered by the repository's tests |
| Shared tools, registry, usage count | lock files, registry | run commands, lock minors | little | - |
| Fencing and cluster scripts (`scripts/`) | the constraint in the CIB | fence, unfence | handlers on several nodes change the same constraint | two nodes never fence each other, a fenced peer stays fenced |
| DRBD 8.4 tools (`user/v84/`) | as version 9 | as version 9 | legacy copies | - |

How they interact: `drbdadm` runs `drbdsetup` and `drbdmeta` as commands;
`drbdsetup` talks netlink to the kernel; `drbdmon` runs `drbdsetup events2` as
its source of events (the pipe of `DrbdMonCore`; its lines are the inputs of
`ResourceDirectory`) and `drbdadm`/`drbdsetup` as the external processes of its
task queue; the workers of the queue wake up `drbdmon`'s main loop through
`SubProcessNotification`. `drbdmeta apply-al` is run before `drbdsetup attach`,
and `drbdmeta check-resize` by `drbdadm up`; they share the disk with the
kernel, never at the same time. The kernel calls the fencing script when a peer
is lost. `PROJECT.json` lists every component with its status and the hazards at
their lines.

## Modules

| Module | Models |
|---|---|
| `SubProcessQueue` | the task queue and its process handler |
| `SubProcessQueueProofs` | theorems about `SubProcessQueue` |
| `DrbdMonCore` | the main loop, event multiplexer, notifications, timer, source and restart loop |
| `DrbdMonCoreProofs` | its invariants, for any number of threads, lines and restarts |
| `ResourceDirectory`, `MCResourceDirectory` | DRBDmon's tree of objects with its flags |
| `ResourceDirectoryProofs` | its invariants, for any number of objects |
| `ActivityLog`, `MCActivityLog` | the activity log on disk, `apply-al`, and the kernel that writes the log (external) |
| `ActivityLogProofs` | its invariants, for any ring, context, modulus and layout |
| `MetadataMove` | `check-resize`: moving internal metadata, with kills and power failures |
| `MetadataMoveProofs` | its invariants, for any layout, sizes and number of failures |
| `DrbdObjects` | the objects of a resource and the promotion information, used by `Events2` |
| `Events2`, `MCEvents2` | `drbdsetup events2` and its socket |
| `NotificationFeed` | what events2 promises, abstractly |
| `Events2Proofs` | events2 implements the feed, its lines tell all of its copy, and the copy follows the kernel |
| `WaitForFamily`, `MCWaitForFamily` | the six `drbdsetup wait-*` commands |
| `WaitForFamilyProofs` | its invariants, for any number of peer devices, changes and timeouts |
| `Adjust`, `MCAdjust` | `drbdadm adjust` and the deferred commands |
| `CrmFencePeer`, `MCCrmFencePeer` | the fence-peer and unfence-peer handlers on several nodes |
| `CrmFencePeerProofs` | its invariants, for any number of nodes and handlers |

An `MC` module has the sets and functions that its configurations give to the
constants; modules whose constants a configuration can write down have none.

Definitions with a comment "Fault:" or "Mutant:" are single plausible mistakes
in the code. Nothing uses them; replacing the definition they vary by them shows
that a property notices the mistake (`PROJECT.json`, "mutants").

### SubProcessQueue

| Model | Code |
|---|---|
| `queue`, `selected_id`, `next_id`, `entry_count` | the four `Queue`s, their cursors, `next_id`, `entry_count` |
| `worker_slot_mgr`, `active_count` | the array of slots: those from `active_count` on are free |
| `queue_lock` | the mutex, by its holder |
| `worker[s]` | the thread of slot `s`: where it is in `invoke_thread()` and `execute()`, its task and stored exception |
| `ui` | the user's thread: where it is in `schedule_threads()`, `terminate_task()` and the destructor |
| `process[e]` | the `SubProcessLx` of task `e` and the process the operating system runs for it |
| `fate` | the two fatal ends: `notify_out_of_memory()` and `std::terminate()` |

A critical section is one action; the thread gives up the lock between actions
where the code does. `execute()` is cut where a `terminate()` of another thread
can come between: before the spawn, while reading the output, in `waitpid()`,
after it. `terminate()` is a sequence of actions too, with the values it has
loaded (`ui.status`, `ui.pid`). An external process ends at any time, by itself
or by a signal, and its children may hold its output pipes open after it. Any
allocation that the code makes may fail. The captured output, the command lines
and the Windows variant are left out, as are two failures of system calls: `std::thread`
may throw after the task is filed (`SubProcessQueue.cpp:347`; the task then stays ready until
something else starts a worker), and `waitpid()` may fail
(`SubProcessLx.cpp:194`; the task then ends as a failed one). `ReadyHasWorkers` does not
speak of a queue one of whose workers ended on `bad_alloc`.

### DrbdMonCore

`pc` is the place in `monitor_loop()` and `run()`. `fired_events` is the epoll
batch still to be handled, so what happened after the batch was taken is seen
only in the next one. A line of events2 is what `DrbdMon` tells apart: an
object that exists, `exists -`, a change, a line it refuses. `timer_armed` (what
the program believes) is apart from `timer` (what the operating system runs).
The source ends as `SIGCHLD`, end of file on its output and end of file on its
errors, which arrive independently. `writers` are threads that have set their
bit of the notification mask and have not written to the wakeup pipe yet.
Signals are a set, blocked or not (`exit_blocked`). `unreported` and
`separator_seen` are history variables for the properties. Between two instances only termination
signals are sent: the others stay blocked and pending there (`drbdmon_main.cpp:276`), and the next instance
reads them as if they came later. The contents of the display, options, help and the message log are left out.

### ResourceDirectory

`rsc_map` is the tree; each object has the properties its flags depend on and
its flag as the handlers left it. One action per line of events2 (create, change,
rename, destroy of each kind of object), with the order of the code: the object's
own flags, then the parents' where the change crosses from or to `NORM`, then
`problem_resources_update()`. Percentages, minors and memory failures are left out.

### ActivityLog

The disk is `al` (the blocks of the log), `bitmap` (the bits set) and `flags`.
`replay_al_84()` is a pure function of `al` (`Cursors`, `HotExtent`,
`ReplayResult`); `apply_al()` is one action per chunk it writes; then
`InitializeAl` and `SetAlClean`. A crash leaves any part of the write in flight on
the disk. Transaction numbers are modulo `TrModulus` (2^32 in the code) and are
compared as the code compares them, by the sign of a difference; the two results
of the undefined overflow are the two `build`s. The geometry keeps the code's
arithmetic with words in place of bytes: rounding, interleaved peers, extents that
are part of a word, and the chunk's limit. `LayoutAssumption` says that of `bits_per_extent` and the
bits of a word one divides the other: both are powers of two, which `drbdmeta.c:2179` asserts of the first.
The kernel is external: it is modelled as far as drbdmeta relies on it, by the
format of the transactions (`struct __packed al_transaction_on_disk`, comments
in `drbdmeta.c`). `owed` is a history variable: what was active at the crash.

### MetadataMove

The device is an array of 4k blocks whose contents are symbols (data, bitmap, log,
super block, initialized); `lk` is the file with the last known size. One action per `pwrite`
or sync of `v08_move_internal_md_after_resize()` and of `check-resize`: chunks of
`buffer_size` blocks, from the end of the bitmap on, its new part, the
super block, the sync, wiping the old super block; then `lk` is emptied, written and synced
(`lk_bdev_save()`), and after it the device (`generic_md_close()`). The device is opened
without `O_SYNC` (`drbdmeta_linux.c:246`), so `disk` is what a read returns, and `synced`
what stable storage holds, which may be as old as the last sync; a power failure
leaves each block as the one or the other. `lk` and `lk_synced` are the same of the file. A
kill loses nothing that was written and syncs nothing either: what it leaves is still at the
mercy of a power failure, also when no command runs. `exposed` (history) is set when the size on
record is emptied while the super block at the end of the device is not synced, or when the device
grows while the record is not synced, until the device is synced. The layout (`md_offset`, `al_offset`, `bm_offset`, `bm_blocks`) is
the code's arithmetic with small units.

### Events2

The kernel (external) changes its objects, numbers each notification and sends it
into a socket from which messages may be taken out of order, which
`print_event()` provides for; a full buffer drops one. A dump shows the kernel at the time it was requested (`snap`). `pc`,
`expect_reply`, `initial_state`, `receive_update`, `next_seq`, `stored_messages`,
`all_resources` and `update_resources` are the variables of the code.
`apply_event()` changes the copy; `print_changes()` compares the two versions and
prints lines, from which `shown` is rebuilt, as a reader of the output would. The
promotion information is computed as in the code, from `DrbdObjects`. Numbers are
modulo `2 * HalfRange`, and `SignedWraps` chooses between the two builds of a signed
difference. `hist` and `applied` are history variables. Statistics and timestamps
are left out. So are fields that are printed and not compared
(`drbdsetup_events2.c:689`, `779`): a change of such a field alone prints no line, and a reader
learns of it with the next change of the object. `print_changes()` compares all the fields that the model has.

`NotificationFeed` is the abstract specification: notifications are issued, and each
is applied once and in order while the monitor runs. `FeedSpec` is the
refinement: `INSTANCE NotificationFeed` with `applied` as it is, `sent` as 0 under
`--now` (which subscribes to nothing), and `running` as `pc # "exit"`.

### WaitForFamily

The command joins the group, lists the peer devices (`remember`, `list_complete`),
asks for the timeout of each (`choose_timeout`), requests the initial state and then
follows messages until it is done (`recv_notification`), a timeout has passed
(`poll_timeout`, `Expired`), or an error occurs. `sock` is the receive queue with its
limit, `dump` what the kernel has yet to send of a dump, which it sends as the
socket is read; `DeviceList` and `ConnectionList` are the objects in the order in which
the kernel lists them. Changes of the kernel module, its unloading and a hangup of standard
output happen between any two steps. Time passes while the command is in
`poll()`, in parts of a millisecond, so that the rounding of
`elapsed_ms` matters. Two pieces of undefined behaviour are modelled as such: the
volume of a connection's message is read uninitialized by the filter of
`generic_recv()` (the message passes or does not), and removing the head of the list
leaves a dangling pointer (`pc = "undefined"`). A hangup of standard output while the peer devices
are listed leaves the list as it is, and the command goes on with it (`drbdsetup.c:1734`); while it waits a hangup
ends it with 0. Left out are the error for a message without peer device information
(`drbdsetup.c:4488`), which the kernel module does not send, and the timeouts of 120 seconds of the requests before
the wait (`4152`, `1560`): in the model a reply comes, or another message in its place.

### Adjust

`conf` is the configuration, `kern` the kernel module (external: `Accepts` and
`Effect` say which commands it refuses and what they do), `shown` the output of
`drbdsetup show` that the comparison uses. `Plan` is `adjust_drbd()` as a
function: which commands are scheduled, in which stage, once or not, and what each
depends on. The execution is one action per command visited: it runs and succeeds, fails, is
skipped, or waits for the next pass; `next_stage` is the double loop of
`run_deferred_cmds()`. Connections are established or lost at any time, and `wait-connect` ends
by success, timeout or, as every command may, failure. A command belongs to a resource object, the one of the configuration or, for the
`del-peer` of a connection that is not configured, the one made of `drbdsetup show`
(`drbdadm_adjust.c:864`): a failed prerequisite stops the rest of its own object only. Left
out: adjusting a single volume (`ctx->vol`, `drbdadm_adjust.c:901`, `1125`) and
`sh-list-adjustable` (111).

### CrmFencePeer

A handler (a pair of a node and fence or unfence) is a program counter with the
copies it has read. Its steps are the script's calls of `cibadmin`, `crm_mon` and
`drbdsetup`: look for a constraint, check the peers, decide, query, patch, look again,
retry, exit. The CIB refuses a
patch made from an older copy. The membership and the states of DRBD change
meanwhile, and with the membership the CIB, which outdates all copies; a bounded number of commands fails or times out. Waiting is a step
that happens later. The poll for a peer that the cluster will fence and the retries of a patch share
`$SECONDS` and `$timeout`: a poll that ended by the timeout sets `late`, and a handler that is late gives up at
the first refused patch (`crm-fence-peer.9.sh:176`); one that is not may do so too, for the retries take
time. `timedout` (history) says that this happened because of a change that left the
constraint alone. The first look at the CIB reads the local copy (`cibadmin -Ql`), which may lag behind (`former`);
`holds` is false of success that is taken from such a copy. Left out: with `--flock-required` a handler
that does not get the lock file exits (1508), and an unfence handler that is called without a list of
up-to-date nodes sets up no constraint of its own (751). A disk that DRBD reports as unconfigured is a value of
`Disks`, which the run leaves out for time: with it there are 6,688,850 states, and the properties hold.

## Runs

| Run | Shows |
|---|---|
| `queue_safety` | Two workers, three tasks, capacity two. `SlotStack`: the free slots are distinct and no thread has one. `LockDiscipline`. `TasksFiled`: a task is in one list, and `entry_count` counts them. `ActiveTasksExecuting`: the active list is what the workers execute. `ReadyHasWorkers`: no ready task waits with a free worker, unless an exception ended one. `ShutdownKills`: after the destructor's `terminate()` a process is killed, gone or never spawned. |
| `queue_liveness` | Two workers, two tasks, cursors in two lists, discarding on: `CursorInQueue`, and `ShutdownCompletes` under fairness. |
| `core` | `WakeupPending`: a set notification has a byte in the pipe, a writer about to write one, or a main loop that is about to look. `UpdateScheduled`: an unreported change has a running timer, a pending signal or a draw under way. `ExitSignalsRouted`: a termination signal is either blocked, and then someone will read it, or kills. `ChangeReported`, `ExitHonored`, `FailureRecovered` under fairness. |
| `directory` | `FlagsPropagated`: the incremental marks are those computed from the tree. `ProblemsListed`: the list of problem resources is right as soon as the states of the peers' volumes are known. |
| `al_safety` | `ReplayReconstructs`, `CleanMeansMarked`, `RefusalLosesNothing`, `OnlyActiveMarked`, over two crashes. |
| `meta` | `MetadataIntact`: after kills anywhere, and outside the two cases its comment names, the next command opens complete metadata. `SuperblockSurvives`: power failures, also after kills, leave a super block that is found, but for the two cases of `exposed`. With three failures there are 2.2 million states, and both hold. |
| `events2` | `ShownMatchesCopy`: the lines carry everything that changed. `CopyIsAKernelState`: the copy never mixes two states. `Converged`: a drained socket means an up-to-date copy. `FeedSpec`, and under fairness `EveryNotificationApplied`. |
| `wait` | `HonestSuccess`: exit code 0 after waiting has a reason. `TimeoutNotEarly`. Under fairness `WaitEnds` (timeouts end a wait) and `ReachedEnds` (so does what it waits for, if nothing changed before the initial state was read). |
| `adjust` | `SuccessMeansAdjusted`. `NoCommandRefused`: the order is one the kernel accepts, unless a minor number changes or all of several paths of a connection that is up are replaced. `StaysConnected`. `OthersExecuted`: with progress every command is executed, and if the commands of a resource are skipped, those of the others that wait for none. Under fairness `AdjustEnds`. |
| `fence` | `FencedStayBanned`, `OneWinner`: both until something is lifted, and for success that was not taken from a local copy that lagged. `SomeoneWins`: unless a patch was refused by another change after the timeout. |
| `al_last_extent`, `events2_filter` | Violations, see the findings. |

Every run but the ones that look for a violation explores all its states.

### Bounds, and why they are enough

- Queue: two workers are the fewest that can give slots back in the other order
  than they took them; three tasks with capacity two reach the full queue and a
  worker that takes a second task. Under fairness two tasks, with cursors in the list a task
  leaves and in the one it enters. Ids are not reused, as in the code (64 bits).
- Core: a bundle of one line makes both sides of `BundleFull` happen with two
  lines; two inputs put a key or signal and a notification into one epoll batch;
  one fault is one restart, after which all inputs that are left can happen in the
  second instance.
- Directory: two resources (so that a rename has a target), up to six objects, and one
  state of each kind that the flags tell apart.
- Activity log: 2 stripes of 2 blocks make the striped order differ from the
  block order; three slots and one context entry per transaction make the context
  go round exactly once in the blocks that survive a torn write (the tightest ring
  that `RingAssumption` allows). Numbers are modulo 8, first ones 2 and 6, and five
  transactions, so that they cross the half (2^31) and wrap (2^32) with the ring
  full and its oldest block overwritten. Two crashes are one of the Primary and
  one of `apply-al`. The geometries have extents of four words and
  of half a word, one peer and two, and a buffer smaller than the bitmap, so that one
  replay takes several writes.
- Metadata: sizes for which old and new ranges overlap, touch and are apart, and for
  which the bitmap grows or does not; two growths and two failures, so that a command
  finds what an interrupted one and its interrupted successor left.
- Events2: three notifications with numbers that wrap at 2 * `HalfRange`; one resource
  that exists or not, with an object of each kind; one update requested; a buffer of one message
  and one overrun. Three messages are the fewest of which one arrives first, one late and one before its time.
- Wait: two peer devices, so that one is done, removed or expired while the other is
  not; timeouts of two milliseconds, one, and none, in half milliseconds; two
  changes (with three, 2,055,541 states, the invariants hold too); a buffer of two
  messages, which one change can overrun.
- Adjust: all pairs of two configured and running volumes of each kind; three
  peers with every kind of difference; new resources; both together; a connection both of whose paths are
  replaced; a changed minor number; two resources with two peers and with three, which are enough for skipped
  commands to end the loop; one command that fails, one connection that is lost. A new connection with two paths
  and peer device options for a new volume are in configurations of their own, which violate `SuccessMeansAdjusted` (below).
- Fence: three nodes, two that fence and a third that lifts; one fault, one
  change of the cluster.

### Fairness

- Queue: each step of the user's thread and of a worker happens if it stays
  possible (they are threads of the operating system, and a `std::mutex` that is free
  is taken by someone), and a process that got `SIGKILL` dies. Nothing is assumed of the
  user, nor of when another process ends: a process may run for ever, and shutdown
  must still end.
- Core: the main loop goes on, a thread that has set its bit writes the pipe, the
  running timer fires, and a source completes its initial report. Nothing is assumed
  of keys, signals, changes, of the source's failures, or of memory.
- Events2: drbdsetup's loop goes on while it has something to read, and a message in
  the socket is received. Nothing is assumed of the kernel or of stdin.
- Wait: the command goes on, and time passes while it is in `poll()`.
- Adjust: drbdadm goes on; a command it waits for ends (`wait-connect` by its
  timeout). Nothing is assumed of connections.

## Proofs

`SubProcessQueueProofs` proves, for every number of workers, capacity and number
of tasks, and every discard mode, that the queue's `TypeOK`, `SlotStack`,
`LockDiscipline`, `TasksFiled` and `ActiveTasksExecuting` are invariants. The
only assumption is `QueueAssumption` (the three numbers are positive, the choices
are of their types).

None of them is inductive alone. `SlotStack` needs to know which workers are idle,
which a step may change only under the lock; `TasksFiled` needs that the task a
worker files is in the active list, which is `ActiveTasksExecuting`, and that a
new id is in no list; that in turn needs `LockDiscipline`, so that no two threads
change the lists together. The inductive invariant `IInv` is their conjunction with
`IdsUsed` (the ids in lists and workers are below `next_id`) and `TargetsLeft` (the
tasks the user's thread still has to terminate are known ids). The step is proved per
group of conjuncts: `ListsStep`, `SlotsStep`, `ThreadsStep`, `LockStep`,
`TargetsStep`, `ActiveStep`, each with one case per action, on lemmas about
removing from and appending to sequences without duplicates. `Invariance` combines them,
and the theorems about the single properties follow.

Three more invariants of the queue are proved on top of `IInv`. `CursorInQueue` is
inductive with it. `ReadyHasWorkers` becomes inductive when it is stated for every moment but those between
filing a task and the end of `schedule_threads()` (`ReadyInv`).
`ShutdownKills` needs `KillInv`: for each place of a worker in `execute()`, what the
process handler of its task says (`HandlerOf`), what a `terminate()` under way has loaded of it (`LoadedBy`), and that a
worker not dealt with yet is still among the destructor's targets (`ShutdownInv`).

`Events2Proofs` proves the refinement `FeedImplemented`, `Spec => FeedSpec`: for any
resources, objects, options, range of numbers, first number and any number of notifications
below half of that range, events2 applies every notification at most once and in the
order of the kernel. It assumes what `InOrderStart` says: the build wraps signed
numbers, the first notification received is the first one sent, and the command is for
all resources; the supplementary configurations below show that each of the three is
needed. `FeedSpec` is not inductive: the number that
is due says nothing of which notification has it. `OrderInv` adds that only notifications that were
sent are in flight or stored (`Numbered`), that each is in one of the two, once (`Unique`), and that
`next_seq` is the number of the first one that was not applied (`Ordered`). `WireOrder` shows that the
wrapped difference orders numbers as the kernel issued them; `StoreKeeps` and
`ApplyKeeps` are the two halves of `print_event()`.

The second theorem there, `LinesTellTheCopy`, is `ShownMatchesCopy` under the same
`InOrderStart`, for any finite sets of resources, volumes and connections
(`ObjectAssumption`, which also says that the initial trees and the states of the objects are
of their types). A printed difference is right only if the version it is taken against is the
one the reader has, and a pending version is stored under its own name only if nothing renamed it meanwhile.
`ShownInv` therefore says that the trees are well formed (`TreesInv`); that the notifications
of a bundle have consecutive numbers, one resource and no rename or second creation among them
(`MessagesInv`, from `KernelBundles`, one lemma per change the kernel makes); that a dump consists of whole bundles
and that no notification is applied between two of its messages (`DumpInv`, `DumpHasShape`);
and that an entry of `update_resources` waits only while the rest of its own bundle
is on its way (`PendingInv`). `EntryRead` is the algorithmic core: reading `print_changes(old, new)` over what is
known of `old` gives exactly `new`, including `may_promote` and `promotion_score`, which change with objects the
line does not name, and the peer devices and paths that go silently with their connection.

The last two theorems there are `CopyFollowsTheKernel` (`CopyIsAKernelState`) and `CopyCatchesUp` (`Converged`), for any
resources, objects, number of notifications and dumps at any moment. Besides `InOrderStart` they assume that a name
that a rename has given up is not used again (`~ ReuseNames`; `Events2_rename.cfg` shows that it is needed), and
of the constants that a peer device of the initial state has its device (`KernelAssumption`) and that no resource has the name that
stands for NULL (`NameAssumption`). The difficulty is a dump that is newer than notifications still in
flight: these are applied to a copy that has their effect already, and in between the copy is a mixture of states.
`CopyInv` therefore speaks of the kernel's history: there are the states `H` after each notification, also within bundles, the
ends `B` of the bundles, and the last notification `k` applied (`Followed`; `KernelDevelops`
extends them, one lemma per change of the kernel). `Agrees(copy, H, k, s)` says what the mixture knows between `k` and
the dump `s`: whatever did not change from `k` to `s` is right in the copy, and what is in the copy was there at some point between.
Applying the next notification keeps it with `k + 1` (`AgreesStep`), a later dump acts as a set of changes and moves `s`
(`AgreesUpdate`), the first dump establishes it (`DumpTells`, `AgreesDump`), and at `k = s` it says that the copy is the kernel's state
(`AgreesNow`). It holds of the copy with the pending versions merged in (`EventMerges`),
which are none at the end of a bundle (`PendingOnly`). For `Converged`, `Arriving` adds that a notification which was not dropped is applied, in flight or
stored, and that nothing due is left stored.

`DrbdMonCoreProofs` proves `TypeOK`, `WakeupPending`, `UpdateScheduled` and
`ExitSignalsRouted` from `CoreAssumption` alone. `IInv` adds to them that an event of
standard input in the batch has its key still to be read (`KeysFired`); that a
notification cannot be left over from an earlier instance (`WakeupInv`); that a change
is recorded only once the initial state is known, else the end of a bundle would
neither report nor schedule it (`TimerInv`); and that `EventsIo` has blocked the
signals before `run()` goes on (`SignalInv`).

`ResourceDirectoryProofs` proves `FlagsPropagated` and `ProblemsListed`. `IInv` states the
incremental marks as a definition over the tree: each connection and each resource
has the mark computed from its children (`ConnectionState`, `ResourceState`), and the
problem list is what is marked. It is kept because a parent is recomputed
where a child's mark comes or goes and depends on nothing else. `DirectoryAssumption` keeps the
unknown role out of `Roles` (it is the alert that is lost, see below).

`MetadataMoveProofs` proves `SuperblockSurvives` and `MetadataIntact` for all sizes, bitmaps and buffers.
Two facts of the layout are assumed, which the code's numbers have (`MoveAssumption`: a word of the bitmap covers at
least two blocks, and a block has a word for each peer); the theorems assume also
`GrowsByBlocks`, without which `MetadataMove_subblock.cfg` breaks both. The layout lemmas say
that the bitmap never moves downwards and grows by less than the device. `FoundInv` says,
for each place of the command, where a super block is that a read finds. `Safe` says what a power failure leaves while
nothing is `exposed`: the new super block is on stable storage, or the old one and the size to find it with, or of a move into an overlapping
range that size;
`IntactInv` where the metadata is complete, with `BitmapSplit` for the loop of `move_bitmap`: what is
above `cur` has moved, what is below is still in its old place, though the
ranges overlap.

`CrmFencePeerProofs` proves `FencedStayBanned` and `OneWinner` for any number of nodes and
handlers, any leftover constraint and any fault, and `SomeoneWins` if there was no
constraint before (`Constraints = {{}}`; a leftover one can reject every node, and then all of
them give up as they should). The invariant says that a handler that claims success is
supported by the CIB now (`Bans`), that two rivals never both claim, and that a copy
that is still current does not reject the handler's node (`LocalOK`): the patch is
refused otherwise. `SomeoneInv` is the progress half: until something fails or is lifted or a patch is refused by
another change after the timeout, a handler has won, or there is no constraint and every handler is still trying.

`WaitForFamilyProofs` proves `TypeOK`, `TimeoutNotEarly` and `HonestSuccess` for any peer devices, timeouts, resolution
of the clock and number of changes. `WaitAssumption` asks that `MaxWait`, where the model
stops counting time, is no less than any timeout. `TimeInv` bounds what `elapsed_ms` counts too much: less than a
millisecond for each round of `generic_recv()`. `HonestSuccess` needs two chains from
the kernel to the list: a state that a message tells of has been so (`MessagesInv`, `EntriesInv`),
and a peer device that was never removed is named by what the dump has yet to send, by
a message in the socket before the end of the dump, or by an entry (`ListInv`, `DumpInv`), unless a hangup cut the list short. The shortest timeout is
a minimum over the list, and that it is one is proved by the least number principle (`Least`,
from the well-foundedness of the natural numbers), which stands in for induction.

`ActivityLogProofs` proves `ReplayReconstructs`, `OnlyActiveMarked`, `CleanMeansMarked` and
`RefusalLosesNothing` for any size of the ring, the context and the slots, any modulus and any layout
that `RingAssumption` and `LayoutAssumption` allow. All four assume the wrapping build; the last two
also `RoomyLayout`, that no extent ends where the bitmap ends. Both hypotheses are needed
(`ActivityLog_overflow.cfg`; run `al_last_extent`). The invariant looks back from the
kernel's next transaction: the ring holds the `w` newest transactions, the d-th newest in
its own block with its own number, and nothing else (`Window`); the newest
one that mentions a slot says what is in it (`Tells`); and the context goes once round the slots in
fewer transactions than the ring has blocks (`Cycle`). So the
transaction that the kernel overwrites, or that a crash tears, says nothing that a newer one does not
say (`OldestIsDispensable`, `TellsNext`, `TornTells`). On such a log the first loop of
`replay_al_84()` finds both ends of the window, although the comparison is by a wrapped
difference (`ScanResult`), and the second leaves in `hot_extent` what the window tells
(`WalkResult`). Both loops are recursive functions over a finite range; that they
satisfy their recursion and keep their loop invariant is proved by a least counterexample.
`SetBitsExact` is about the bitmap: the words that `memset` or a mask sets for an extent are
exactly its bits for all peers, by the arithmetic of words and peers.
`ApplyInv` and `MarkedInv` carry this through chunks and crashes: whoever has gone on from the log as the
crash left it has marked everything. TLC checked the conjunction `IInv` first, on instances with different
rings and contexts.

Only model-checked: the four invariants of `Adjust`, and everything under fairness, which this prover
cannot do. `Adjust`'s `Plan` is a computation over sequences of commands, and TLC checks it against the
kernel's `Accepts`.

## Findings

1. `al_last_extent`: `apply_al()` compares an exclusive end with `>=`
   (`drbdmeta.c:2220`), so that the last extent of a device whose bitmap fills its last
   4k is skipped as beyond the bitmap, and the log is then erased and marked clean.
   `al_safety` has room behind the last extent and holds.
2. `events2_filter`: with the name of a resource, notifications about others are dropped
   (`drbdsetup.c:1895`) before `print_event()` counts them: the next number never
   comes due, and nothing is printed any more.

Other disagreements of the code with what it seems to mean each have a
configuration that reproduces them. The properties of the runs above are
restricted so that they do not cover them.

| Configuration | Module | Violates | What happens |
|---|---|---|---|
| `SubProcessQueue_discard.cfg` | `SubProcessQueue` | `DiscardedTasksSucceeded` | `WEXITSTATUS` without `WIFEXITED` (`SubProcessLx.cpp:185`): a task whose process was killed by a signal counts as successful, and "discard succeeded tasks" removes it. |
| `DrbdMonCore_exists.cfg` | `DrbdMonCore` | `OutOfSyncAfterSeparator` | A key pressed during the initial report ends it for the program (`DrbdMon.cpp:277`); the next `exists` line is an error and restarts it. |
| `ActivityLog_overflow.cfg` | `MCActivityLog` | `ReplayReconstructs` | The sign of a difference of `int`s (`drbdmeta.c:1959`) is undefined where it overflows; a build that compares instead is wrong for a log that spans number 2^31. |
| `Events2_wrap.cfg` | `MCEvents2` | `AppliedInOrder` | The same in `seq_a_less_or_equal_b()` (`drbdsetup_events2.c:1110`). |
| `Events2_first.cfg` | `MCEvents2` | `Converged` | If the first notification received is not the first one sent, `next_seq` starts behind, and the earlier one is applied late. |
| `Events2_rename.cfg` | `MCEvents2` | `Converged` | A resource is renamed to a name that is used again: the copy keeps the objects of both. |
| `Adjust_lost.cfg` | `MCAdjust` | `SuccessMeansAdjusted` | A new volume and a replaced connection in one adjust: `peer-device-options` was scheduled for the volume, depends on `new-minor` only, and is not scheduled again for `new-peer` (`SCHEDULE_ONCE`, `drbdadm_main.c:684`; `drbdadm_adjust.c:812`). The options are set on the connection that is then deleted, and adjust returns 0. |
| `Adjust_others.cfg` | `MCAdjust` | `OtherResourcesFinished` | Commands that are skipped in each pass count as executed again (`drbdadm_main.c:966`); with enough of them the loop ends before another resource is finished. |
| `Adjust_minor.cfg` | `MCAdjust` | `EveryCommandAccepted` | A changed minor number: `new-minor` comes before the `del-minor` of the volume's old one, and the kernel refuses it. |
| `Adjust_paths.cfg` | `MCAdjust` | `EveryCommandAccepted` | Both paths of a connection are replaced: a disconnect is scheduled only for a single running path (`nr_running == 1`, `drbdadm_adjust.c:269`), and `del-path` comes before `new-path`, so that the kernel refuses to delete the last path of a connection that is up. |
| `Adjust_iterate.cfg` | `MCAdjust` | `SuccessMeansAdjusted` | A new connection with two paths: `new-path` is called for each, and the result is that of the last one (`drbdadm_main.c:755`). If only the first fails, adjust returns 0. |
| `ResourceDirectory_stale.cfg` | `MCResourceDirectory` | `FreshMonitorAgrees` | The flags of a peer's volume depend on its connection, whose change does not recompute them (`DrbdVolume.cpp:364`). |
| `CrmFencePeer_unfence.cfg` | `MCCrmFencePeer` | `UnfenceNeverBans` | Two unfence handlers: the one that still modifies creates the constraint again after the other has deleted it (`crm-fence-peer.9.sh:839`). |
| `CrmFencePeer_lagging.cfg` | `MCCrmFencePeer` | `FoundIsPlaced` | A handler that is called after the constraint was lifted reads the local copy of the CIB (`cibadmin -Ql`, `crm-fence-peer.9.sh:742`), which does not show it yet, and reports "suitable constraint already placed" (777). |
| `MetadataMove_unsynced.cfg` | `MetadataMove` | `AlwaysFound` | The command is killed after it wrote the new super block and before it synced it. The next one finds it, empties the file with the last known size (`shared_tool.c:239`) and would sync the device only after it (`drbdmeta.c:2942`, `2945`): a power failure in between loses the super block and the size with which the old one was found. |
| `MetadataMove_subblock.cfg` | `MetadataMove` | `MetadataIntact` | A growth of less than 4k leaves the super block in place while the bitmap may need one block more: it moves downwards, copied from the wrong end. |
| `MetadataMove_overlap.cfg` | `MetadataMove` | `NoSilentDamage` | A move into an overlapping range that is interrupted leaves damaged metadata that the next command opens (the FIXME at `drbdmeta.c:4874`). |
| `MetadataMove_stale.cfg` | `MetadataMove` | `OneSuperblock` | A kill between writing the new super block and wiping the old one leaves two. |
| `WaitForFamily_stale.cfg` | `MCWaitForFamily` | `AlwaysReachedEnds` | A part of the initial state that is read after a newer notification overwrites it: the wait goes on although everything is connected (`drbdsetup.c:4508`). |
| `WaitForFamily_outdated.cfg` | `MCWaitForFamily` | `OutdatedShortest` | "outdated-wfc-timeout implicitly set to degr-wfc-timeout" (`drbdsetup.c:1542`), but it is set to `wfc_timeout` (1540), which may be longer or infinite. |

Seen while reading, and not a configuration:

- `IntervalTimer`'s test whether the interval is exceeded leaves out the nanoseconds.
- `MessageLogNotification` is never made an observer of the message log.
- External processes inherit the signal mask, with SIGTERM blocked.
- `EventsSourceSpawner` waits once, with `WNOHANG`, for a source it has just sent SIGTERM
  (the comment at `DrbdMon.cpp:139` expects it to be reaped): it may stay a zombie.
- A crash of the host within `initialize_al()` can leave a log that `apply-al` refuses
  from then on; `RefusalLosesNothing` shows that everything is marked then.
- The order of the ring across 2^32 needs a number of blocks that divides 2^32.
- There is no sync between the writes of the moved bitmap and of its super block; the
  file with the last known size is truncated before it is written (`shared_tool.c:233`).
- The alert for an unknown role of a resource is lost with the next update of its flags
  (`DrbdResource.cpp:117`).
- The wait commands: an error while the peer devices are listed, and a hangup of standard output while
  they wait, end with exit code 0; a notification that arrives while they are listed becomes an entry of
  the list, and one that arrives between the requests for timeouts ends the command with 20;
  a peer device that is created while waiting has a timeout of 0 and counts as done; with a finite timeout beside
  an infinite one, the end of the first ends the wait unless a message arrives at that moment.

## Not modelled

The parser, dump, show, status and displays are sequential text processing, and most of the
code is that: the models cover a small share of the lines and most of the
concurrency. The 8.4 tools are legacy copies of the same functions.
`replay_al_07()` and `replay_al_pmem()` are older or special formats of the same log. `create-md`, `convert` and
restoring a dump write a new super block after a dialogue; shrinking and the uuid of the
backing device are left out of `MetadataMove`. The super block is written in
one sector and is not torn in the model. The DRBD proxy, the OCF agent, the
other scripts, and the Windows variants (`user/windrbd`) are left out. The kernel is
external. The reuse of process ids (`SubProcessLx.cpp:236`, accepted by the
comment there) is not modelled. The configuration commands of drbdsetup send one request
and print the answer.

## Plan

Done: `SubProcessQueue`, `DrbdMonCore`, `ActivityLog`, `Events2` with
`NotificationFeed`, `Adjust`, `ResourceDirectory`, `MetadataMove`, `CrmFencePeer`,
`WaitForFamily`; all invariants of the queue, the core, the directory, the activity log, the move, the fencing
handlers and the wait commands, and the refinement, the lines and the copy of events2 proved.

Theorems to come: the invariants of `Adjust`.

Compositions: `DrbdMonCore` takes `SubProcessQueue`'s notifications as `Threads`;
`NotificationFeed` is the source of `DrbdMonCore`.
