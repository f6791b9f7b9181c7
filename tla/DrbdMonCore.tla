----------------------------- MODULE DrbdMonCore -----------------------------
(***************************************************************************)
(* The main loop of DRBDmon: DrbdMon::run() (user/drbdmon/DrbdMon.cpp), its  *)
(* event multiplexer (platform/Linux/EventsIo.cpp), the notifications from  *)
(* the task queue's threads (SubProcessNotification.cpp), the display timer *)
(* (IntervalTimer.cpp), the events source process                            *)
(* (subprocess/EventsSourceSpawner.cpp) and the restart loop around them     *)
(* (monitor_loop() in drbdmon_main.cpp).                                     *)
(*                                                                         *)
(* One DrbdMon instance spawns the source, reads its lines, signals, keys   *)
(* and wakeups until it fails or is told to end; monitor_loop() then tears  *)
(* it down and starts the next one.                                         *)
(***************************************************************************)
EXTENDS Integers, Sequences, FiniteSets

CONSTANTS
  MAX_EVENT_BUNDLE,   \* lines processed before an intermediate display update
  EventsFiles,        \* is the source a file given by --events-log? (choices)
  Intervals,          \* is a display interval configured? (choices)
  MaxExists,          \* bound: 'exists' lines before the "exists -" line
  PipeSize,           \* bound: lines in the pipe from the source
  MaxInputs,          \* bound: changes, keys, signals and notifications, together
  MaxFaults           \* bound: failures of the source, of memory, of the start

ASSUME CoreAssumption ==
  /\ MAX_EVENT_BUNDLE \in Nat
  /\ EventsFiles \subseteq BOOLEAN
  /\ Intervals \subseteq BOOLEAN
  /\ {MaxExists, MaxInputs, MaxFaults} \subseteq Nat
  /\ PipeSize \in Nat \ {0}

\* start: monitor_loop() is about to create an instance.  setup: the source has
\* been spawned.  wait: in wait_event().  lines: processing the lines of the
\* buffer.  wakeup: wait_event() returned WAKEUP.  unwind: run() is left and its
\* objects are destroyed.  loop: back in monitor_loop().  delay: sleeping there.
Running == {"wait", "lines", "wakeup"}
Pcs     == Running \union {"start", "setup", "unwind", "loop", "delay", "ended"}

FinishActions == {"RESTART_IMMED", "RESTART_DELAYED", "TERMINATE",
                  "TERMINATE_NO_CLEAR", "DEBUG_MODE"}
FailInfos == {"NONE", "GENERIC", "OUT_OF_MEMORY", "EVENTS_SOURCE", "EVENTS_IO"}

Fds     == {"events", "error", "signal", "stdin", "wakeup"}
Signals == {"EXIT", "WINDOW_SIZE", "CHILD_PROC", "DEBUG", "TIMER"}
Notes   == {"SUBPROCESS_CHANGED", "OUT_OF_MEMORY"}

\* What DrbdMon tells apart in a line: 'exists' of an object, "exists -", any
\* 'create', 'change', 'rename' or 'destroy', and a line that is refused for its
\* contents (unparsable, or about an object that is unknown or known already).
Lines == {"exists", "separator", "change", "bad"}

VARIABLES
  \* monitor_loop() and the instance
  pc,
  fin_action, fail_data,
  exc,                \* "bad_alloc" while that exception leaves run()
  have_initial_state,
  timer_available, timer_armed,
  update_counter,
  unreported,         \* changes since notify_drbd_changed() was last called
  separator_seen,     \* this instance has processed an "exists -" line
  \* EventsIo and SubProcessNotification
  buffer,             \* complete lines read from the source
  events_eof,
  fired_events,       \* fired_events[current_event ..]: still to be handled
  notification_mask,
  writers,            \* threads between setting the mask and wakeup_wait()
  wakeup_pipe,        \* is there a byte in it?
  \* configuration
  dsp_interval,       \* is an interval configured?
  events_file,
  \* the operating system, the source and the user
  timer,              \* is the POSIX timer running?
  pending_signals,
  exit_blocked,       \* SIGTERM, SIGHUP and SIGINT are blocked
  source,             \* state, lines still to write before "exists -"
  pipe,               \* lines written by the source and not yet read
  error_output,       \* the source wrote to stderr
  dying,              \* sources of earlier instances that have not exited yet
  keys,               \* key presses not yet read
  left                \* what is left of the bounds

loopVars  == <<fin_action, fail_data, exc>>
instVars  == <<have_initial_state, timer_available, timer_armed,
               update_counter, unreported, separator_seen>>
ioVars    == <<buffer, events_eof, fired_events>>
noteVars  == <<notification_mask, writers, wakeup_pipe>>
confVars  == <<dsp_interval, events_file>>
sigVars   == <<timer, pending_signals, exit_blocked>>
srcVars   == <<source, pipe, error_output, dying>>
vars == <<pc, loopVars, instVars, ioVars, noteVars, confVars, sigVars, srcVars, keys, left>>

NoSource == [state |-> "none", exists |-> 0, live |-> FALSE]

Init ==
  /\ pc = "start"
  /\ fin_action = "RESTART_DELAYED"
  /\ fail_data = "NONE"
  /\ exc = "none"
  /\ have_initial_state = FALSE
  /\ timer_available = FALSE
  /\ timer_armed = FALSE
  /\ update_counter = 0
  /\ unreported = FALSE
  /\ separator_seen = FALSE
  /\ buffer = <<>>
  /\ events_eof = FALSE
  /\ fired_events = {}
  /\ notification_mask = {}
  /\ writers = 0
  /\ wakeup_pipe = FALSE
  /\ dsp_interval \in Intervals
  /\ events_file \in EventsFiles
  /\ timer = FALSE
  /\ pending_signals = {}
  /\ exit_blocked = FALSE
  /\ source = NoSource
  /\ pipe = <<>>
  /\ error_output = FALSE
  /\ dying = 0
  /\ keys = 0
  /\ left = [inputs |-> MaxInputs, faults |-> MaxFaults]

Spend(what) ==
  /\ left[what] > 0
  /\ left' = [left EXCEPT ![what] = @ - 1]

-----------------------------------------------------------------------------
(* How an instance ends *)

\* An exception that run() catches; its handler sets both fields
Throw(info) ==
  /\ pc' = "unwind"
  /\ fin_action' = "RESTART_DELAYED"
  /\ fail_data' = info
  /\ UNCHANGED exc

\* std::bad_alloc passes through run() and is caught in monitor_loop()
ThrowBadAlloc ==
  /\ pc' = "unwind"
  /\ exc' = "bad_alloc"
  /\ UNCHANGED <<fin_action, fail_data>>

\* Fault: the action is not recorded
ShutdownUnrecorded(action) == pc' = "unwind" /\ UNCHANGED loopVars

\* shutdown(), and the same two assignments for SIGNAL_EXIT and SIGNAL_DEBUG: the
\* loop in run() ends
Shutdown(action) ==
  /\ pc' = "unwind"
  /\ fin_action' = action
  /\ UNCHANGED <<fail_data, exc>>

-----------------------------------------------------------------------------
(* The start of an instance *)

\* The members of a DrbdMon object, as constructed or after its destruction
InstanceGone ==
  /\ have_initial_state' = FALSE
  /\ timer_available' = FALSE
  /\ timer_armed' = FALSE
  /\ update_counter' = 0
  /\ unreported' = FALSE
  /\ separator_seen' = FALSE

Spawned(s) ==
  /\ source' = s
  /\ pipe' = <<>>
  /\ error_output' = FALSE
  /\ UNCHANGED dying

\* The constructor, and run() up to the construction of EventsIo, which blocks
\* the signals
StartInstance(exists) ==
  /\ pc = "start"
  /\ timer_available' = dsp_interval
  /\ UNCHANGED <<have_initial_state, timer_armed, update_counter, unreported,
                 separator_seen>>
  /\ Spawned([state |-> "running", exists |-> exists, live |-> FALSE])
  /\ exit_blocked' = TRUE
  /\ pc' = "setup"
  /\ fin_action' = "RESTART_IMMED"
  /\ UNCHANGED <<fail_data, exc, ioVars, noteVars, confVars, timer, pending_signals,
                 keys, left>>

\* Not all of it works: no timer or invalid options (ConfigurationException), no
\* source process, no EventsIo, no memory
StartFails(what) ==
  /\ pc = "start"
  /\ Spend("faults")
  /\ Spawned(IF what = "EVENTS_IO" THEN [NoSource EXCEPT !.state = "running"] ELSE NoSource)
  /\ exit_blocked' \in IF what = "EVENTS_IO" THEN {exit_blocked, TRUE} ELSE {exit_blocked}
  /\ pc' = "unwind"
  /\ \/ what = "CONFIG" /\ fin_action' = "TERMINATE_NO_CLEAR" /\ UNCHANGED <<fail_data, exc>>
     \/ what \in FailInfos /\ Throw(what)
     \/ what = "bad_alloc" /\ fin_action' = "RESTART_IMMED" /\ exc' = what /\ UNCHANGED fail_data
  /\ UNCHANGED <<instVars, ioVars, noteVars, confVars, timer, pending_signals, keys>>

\* cleanup_child_processes(): waits, without blocking, for the current source and
\* for no other process
CleanupChildProcesses(next) ==
  IF source.state = "exited"
  THEN /\ source' = NoSource
       /\ Throw("EVENTS_SOURCE")
  ELSE /\ pc' = next
       /\ UNCHANGED <<source, loopVars>>

\* The rest of the initialisation; the initial display is shown
EnterLoop ==
  /\ pc = "setup"
  /\ CleanupChildProcesses("wait")
  /\ UNCHANGED <<instVars, ioVars, noteVars, confVars, sigVars, pipe, error_output, dying,
                 keys, left>>

-----------------------------------------------------------------------------
(* The main loop *)

\* The stdout and stderr pipes are at end of file once the source has exited
ReadyFds ==
  {fd \in Fds :
     \/ fd = "events" /\ (pipe # <<>> \/ source.state # "running")
     \/ fd = "error" /\ (error_output \/ source.state # "running")
     \/ fd = "signal" /\ pending_signals # {}
     \/ fd = "stdin" /\ keys > 0
     \/ fd = "wakeup" /\ wakeup_pipe}

\* wait_event(): epoll_wait(), when all events of the previous call are handled
EpollWait ==
  /\ pc = "wait"
  /\ fired_events = {}
  /\ ReadyFds # {}
  /\ fired_events' = ReadyFds
  /\ UNCHANGED <<pc, loopVars, instVars, buffer, events_eof, noteVars, confVars, sigVars,
                 srcVars, keys, left>>

\* wait_event(): the next of the fired events, in any order
Fired(fd) ==
  /\ pc = "wait"
  /\ fd \in fired_events
  /\ fired_events' = fired_events \ {fd}

\* read_events(): some of the lines, or end of file; at end of file for the second
\* time an EventsIoException
HandleEvents ==
  /\ Fired("events")
  /\ \/ /\ events_eof
        /\ Throw("EVENTS_IO")
        /\ UNCHANGED <<buffer, events_eof, pipe>>
     \/ /\ ~events_eof
        /\ \E n \in 1 .. Len(pipe) :
             /\ buffer' = SubSeq(pipe, 1, n)
             /\ pipe' = SubSeq(pipe, n + 1, Len(pipe))
        /\ pc' = "lines"
        /\ UNCHANGED <<events_eof, loopVars>>
     \/ /\ ~events_eof
        /\ pipe = <<>>
        /\ events_eof' = (source.state # "running")
        /\ UNCHANGED <<pc, loopVars, buffer, pipe>>
  /\ UNCHANGED <<instVars, noteVars, confVars, sigVars, source, error_output, dying,
                 keys, left>>

\* Anything on stderr, end of file included, is an EventsIoException
HandleError ==
  /\ Fired("error")
  /\ Throw("EVENTS_IO")
  /\ UNCHANGED <<instVars, buffer, events_eof, noteVars, confVars, sigVars, srcVars, keys,
                 left>>

NotifyDrbdChanged == unreported' = FALSE

\* is_interval_exceeded() and arm_timer() by their outcome: the interval is over,
\* the timer is set, or a TimerException
TimerOutcomes == {"exceeded", "armed", "failed"}

\* Fault: timer_armed is not checked for, and not set
CondDisplayUpdateUnmarked(dirty, outcome) ==
  \/ /\ outcome = "exceeded"
     /\ NotifyDrbdChanged
     /\ UNCHANGED <<timer_available, timer_armed, timer>>
  \/ /\ outcome = "armed"
     /\ timer' = TRUE
     /\ unreported' = dirty
     /\ UNCHANGED <<timer_available, timer_armed>>
  \/ /\ outcome = "failed"
     /\ timer_available' = FALSE
     /\ NotifyDrbdChanged
     /\ UNCHANGED <<timer_armed, timer>>

\* cond_display_update() and disable_interval_timer(); the change stays unreported
\* while the timer is armed
CondDisplayUpdate(dirty, outcome) ==
  \/ /\ timer_armed
     /\ unreported' = dirty
     /\ UNCHANGED <<timer_available, timer_armed, timer>>
  \/ /\ ~timer_armed /\ outcome = "exceeded"
     /\ NotifyDrbdChanged
     /\ UNCHANGED <<timer_available, timer_armed, timer>>
  \/ /\ ~timer_armed /\ outcome = "armed"
     /\ timer' = TRUE
     /\ timer_armed' = TRUE
     /\ unreported' = dirty
     /\ UNCHANGED timer_available
  \/ /\ ~timer_armed /\ outcome = "failed"
     /\ timer_available' = FALSE
     /\ timer_armed' = FALSE
     /\ NotifyDrbdChanged
     /\ UNCHANGED timer

\* What follows a bundle of lines once the initial state is known
UpdateDisplay(dirty, outcome) ==
  \/ timer_available /\ CondDisplayUpdate(dirty, outcome)
  \/ ~timer_available /\ NotifyDrbdChanged /\ UNCHANGED <<timer_available, timer_armed, timer>>

\* process_event_message() refuses 'exists' lines, the final one included, once it
\* has the initial state, and all other lines before
Refused(line) ==
  \/ line = "bad"
  \/ line \in {"exists", "separator"} /\ have_initial_state
  \/ line = "change" /\ ~have_initial_state

\* Fault: the failure stays recorded
AcceptStillFailed(line) ==
  /\ have_initial_state' = (have_initial_state \/ line = "separator")
  /\ separator_seen' = (separator_seen \/ line = "separator")
  /\ UNCHANGED <<pc, loopVars>>

\* "exists -" ends the initial display and reports the recovery from a failure
Accept(line) ==
  /\ have_initial_state' = (have_initial_state \/ line = "separator")
  /\ separator_seen' = (separator_seen \/ line = "separator")
  /\ fail_data' = IF line = "separator" THEN "NONE" ELSE fail_data
  /\ UNCHANGED <<pc, fin_action, exc>>

BundleFull == update_counter >= MAX_EVENT_BUNDLE

\* One round of the loop over the lines in the buffer: tokenize_event_message(),
\* and an intermediate update after MAX_EVENT_BUNDLE lines
ProcessLine(outcome) ==
  LET line == Head(buffer) IN
  /\ pc = "lines"
  /\ buffer # <<>>
  /\ buffer' = Tail(buffer)
  /\ \/ /\ Refused(line)
        /\ Throw("GENERIC")
        /\ UNCHANGED <<instVars, timer>>
     \/ /\ ~Refused(line)
        /\ Accept(line)
        /\ \/ /\ have_initial_state' /\ BundleFull
              /\ UpdateDisplay(TRUE, outcome)
              /\ update_counter' = 0
           \/ /\ have_initial_state' /\ ~BundleFull
              /\ unreported' = TRUE
              /\ update_counter' = update_counter + 1
              /\ UNCHANGED <<timer_available, timer_armed, timer>>
           \/ /\ ~have_initial_state'
              /\ UNCHANGED <<unreported, update_counter, timer_available, timer_armed, timer>>
  /\ UNCHANGED <<events_eof, fired_events, noteVars, confVars, pending_signals,
                 exit_blocked, srcVars, keys, left>>

\* The end of the lines in the buffer; update_counter starts anew with the next
LinesDone(outcome) ==
  /\ pc = "lines"
  /\ buffer = <<>>
  /\ pc' = "wait"
  /\ update_counter' = 0
  /\ \/ have_initial_state /\ UpdateDisplay(unreported, outcome)
     \/ ~have_initial_state /\ UNCHANGED <<unreported, timer_available, timer_armed, timer>>
  /\ UNCHANGED <<loopVars, have_initial_state, separator_seen, ioVars,
                 noteVars, confVars, pending_signals, exit_blocked, srcVars, keys, left>>

GetSignal(sig) ==
  /\ Fired("signal")
  /\ sig \in pending_signals
  /\ pending_signals' = pending_signals \ {sig}

\* SIGTERM, SIGINT and SIGHUP end the program, SIGUSR1 ends the instance
SignalExit(sig) ==
  /\ GetSignal(sig)
  /\ \/ sig = "EXIT" /\ Shutdown("TERMINATE")
     \/ sig = "DEBUG" /\ Shutdown("DEBUG_MODE")
  /\ UNCHANGED <<instVars, buffer, events_eof, noteVars, confVars, timer, exit_blocked,
                 srcVars, keys, left>>

\* terminal_size_changed() draws the display
SignalWindowSize ==
  /\ GetSignal("WINDOW_SIZE")
  /\ NotifyDrbdChanged
  /\ UNCHANGED <<pc, loopVars, have_initial_state, timer_available, timer_armed,
                 update_counter, separator_seen, buffer, events_eof, noteVars, confVars,
                 timer, exit_blocked, srcVars, keys, left>>

SignalChildProc ==
  /\ GetSignal("CHILD_PROC")
  /\ CleanupChildProcesses("wait")
  /\ UNCHANGED <<instVars, buffer, events_eof, noteVars, confVars, timer, exit_blocked,
                 pipe, error_output, dying, keys, left>>

\* Fault: timer_armed is not reset
SignalTimerStillArmed(clock_ok) ==
  /\ GetSignal("TIMER")
  /\ NotifyDrbdChanged
  /\ timer_available' = (timer_available /\ clock_ok)
  /\ UNCHANGED <<pc, loopVars, have_initial_state, timer_armed, update_counter,
                 separator_seen, buffer, events_eof, noteVars, confVars, timer,
                 exit_blocked, srcVars, keys, left>>

\* update_timestamp() disables the timer if the clock cannot be read
SignalTimer(clock_ok) ==
  /\ GetSignal("TIMER")
  /\ NotifyDrbdChanged
  /\ timer_available' = (timer_available /\ clock_ok)
  /\ timer_armed' = FALSE
  /\ UNCHANGED <<pc, loopVars, have_initial_state, update_counter, separator_seen, buffer,
                 events_eof, noteVars, confVars, timer, exit_blocked, srcVars, keys, left>>

\* What a key or a mouse action can do: nothing, draw the display, end the
\* program, or set the display interval, which draws the display too.  The first
\* one ends the initial display.
KeyEffects == {"none", "draw", "exit", "interval", "no_interval"}
HandleStdin(effect) ==
  /\ Fired("stdin")
  /\ keys' = keys - 1
  /\ have_initial_state' = TRUE
  /\ \/ effect = "exit" /\ Shutdown("TERMINATE")
     \/ effect # "exit" /\ UNCHANGED <<pc, loopVars>>
  /\ \/ effect \in {"interval", "no_interval"}
        /\ dsp_interval' = (effect = "interval")
        /\ timer_available' = dsp_interval'
     \/ effect \notin {"interval", "no_interval"}
        /\ UNCHANGED <<dsp_interval, timer_available>>
  /\ unreported' = (unreported /\ effect \in {"none", "exit"})
  /\ UNCHANGED <<timer_armed, update_counter, separator_seen, buffer, events_eof, noteVars,
                 events_file, sigVars, srcVars, left>>

\* wait_event() empties the wakeup pipe ...
HandleWakeup ==
  /\ Fired("wakeup")
  /\ wakeup_pipe' = FALSE
  /\ pc' = "wakeup"
  /\ UNCHANGED <<loopVars, instVars, buffer, events_eof, notification_mask, writers,
                 confVars, sigVars, srcVars, keys, left>>

\* ... and run() then takes the notifications
GetNotificationMask ==
  /\ pc = "wakeup"
  /\ notification_mask' = {}
  /\ IF "OUT_OF_MEMORY" \in notification_mask
     THEN ThrowBadAlloc
     ELSE pc' = "wait" /\ UNCHANGED loopVars
  /\ UNCHANGED <<instVars, ioVars, writers, wakeup_pipe, confVars, sigVars, srcVars, keys,
                 left>>

\* std::bad_alloc anywhere in the loop
NoMemory ==
  /\ pc \in Running
  /\ Spend("faults")
  /\ ThrowBadAlloc
  /\ UNCHANGED <<instVars, ioVars, noteVars, confVars, sigVars, srcVars, keys>>

-----------------------------------------------------------------------------
(* The end of an instance, and monitor_loop() *)

\* run() is left: the display is destroyed, which ends the task queue's threads;
\* then EventsIo; then the source is waited for and, if it is still there, sent
\* SIGTERM and waited for once more, both without blocking; then the timer.  A
\* pending timer signal may or may not survive its timer.
Unwind(reaped) ==
  /\ pc = "unwind"
  /\ writers = 0
  /\ pc' = "loop"
  /\ notification_mask' = {}
  /\ wakeup_pipe' = FALSE
  /\ buffer' = <<>>
  /\ events_eof' = FALSE
  /\ fired_events' = {}
  /\ timer' = FALSE
  /\ pending_signals' \in {pending_signals, pending_signals \ {"TIMER"}}
  /\ source' = NoSource
  /\ pipe' = <<>>
  /\ error_output' = FALSE
  /\ dying' = IF source.state = "running" /\ ~reaped THEN dying + 1 ELSE dying
  /\ InstanceGone
  /\ UNCHANGED <<loopVars, writers, confVars, exit_blocked, keys, left>>

\* What monitor_loop() makes of the end of run()
FinAction ==
  IF exc = "bad_alloc" THEN "RESTART_DELAYED"
  ELSE IF events_file THEN "TERMINATE"
  ELSE fin_action

\* Fault: the signals stay blocked during the delay
UnblockNothing(action) == UNCHANGED exit_blocked

\* Before the delay SIGTERM, SIGINT and SIGHUP get their default action back
UnblockSignals(action) == exit_blocked' = (exit_blocked /\ action # "RESTART_DELAYED")

\* The rest of one round of monitor_loop(), up to the delay.  A pending signal
\* that is unblocked ends the program.
MonitorLoop ==
  LET killed == ~exit_blocked' /\ "EXIT" \in pending_signals IN
  /\ pc = "loop"
  /\ fin_action' = FinAction
  /\ fail_data' = IF exc = "bad_alloc" THEN "OUT_OF_MEMORY" ELSE fail_data
  /\ exc' = "none"
  /\ UnblockSignals(FinAction)
  /\ pc' = IF FinAction \in {"TERMINATE", "TERMINATE_NO_CLEAR"} \/ killed THEN "ended"
           ELSE IF FinAction = "RESTART_DELAYED" THEN "delay"
           ELSE "start"
  /\ UNCHANGED <<instVars, ioVars, noteVars, confVars, timer, pending_signals, srcVars, keys,
                 left>>

DelayEnds ==
  /\ pc = "delay"
  /\ pc' = "start"
  /\ UNCHANGED <<loopVars, instVars, ioVars, noteVars, confVars, sigVars, srcVars, keys,
                 left>>

-----------------------------------------------------------------------------
(* The threads of the task queue: notify_queue_changed(), notify_out_of_memory() *)

Up == pc # "ended"

\* Fault: the main loop is not woken
NotifySetOnly(note) ==
  /\ pc \in Running \union {"unwind"}
  /\ Spend("inputs")
  /\ notification_mask' = notification_mask \union {note}
  /\ UNCHANGED <<pc, loopVars, instVars, ioVars, writers, wakeup_pipe, confVars, sigVars,
                 srcVars, keys>>

\* The section under notification_lock
NotifySet(note) ==
  /\ pc \in Running \union {"unwind"}
  /\ Spend("inputs")
  /\ notification_mask' = notification_mask \union {note}
  /\ writers' = writers + 1
  /\ UNCHANGED <<pc, loopVars, instVars, ioVars, wakeup_pipe, confVars, sigVars, srcVars,
                 keys>>

\* wakeup_wait()
NotifyWakeup ==
  /\ writers > 0
  /\ writers' = writers - 1
  /\ wakeup_pipe' = TRUE
  /\ UNCHANGED <<pc, loopVars, instVars, ioVars, notification_mask, confVars, sigVars,
                 srcVars, keys, left>>

-----------------------------------------------------------------------------
(* The operating system, the events source and the user *)

TimerFires ==
  /\ Up
  /\ timer
  /\ timer' = FALSE
  /\ pending_signals' = pending_signals \union {"TIMER"}
  /\ UNCHANGED <<pc, loopVars, instVars, ioVars, noteVars, confVars, exit_blocked, srcVars,
                 keys, left>>

\* Somebody sends a signal.  SIGCHLD comes from the processes of the task queue.
SendSignal(sig) ==
  /\ Up
  /\ Spend("inputs")
  /\ exit_blocked \/ sig = "EXIT"
  /\ IF exit_blocked
     THEN pending_signals' = pending_signals \union {sig} /\ UNCHANGED pc
     ELSE pc' = "ended" /\ UNCHANGED pending_signals
  /\ UNCHANGED <<loopVars, instVars, ioVars, noteVars, confVars, timer, exit_blocked,
                 srcVars, keys>>

PressKey ==
  /\ Up
  /\ Spend("inputs")
  /\ keys' = keys + 1
  /\ UNCHANGED <<pc, loopVars, instVars, ioVars, noteVars, confVars, sigVars, srcVars>>

SourceUp == Up /\ source.state = "running" /\ pc # "unwind"

Write(line) ==
  /\ SourceUp
  /\ Len(pipe) < PipeSize
  /\ pipe' = Append(pipe, line)
  /\ UNCHANGED <<pc, loopVars, instVars, ioVars, noteVars, confVars, sigVars, error_output,
                 dying, keys>>

\* drbdsetup events2 writes the initial state, then "exists -" ...
SourceInitial ==
  \/ /\ source.exists > 0
     /\ Write("exists")
     /\ source' = [source EXCEPT !.exists = @ - 1]
     /\ UNCHANGED left
  \/ /\ source.exists = 0 /\ ~source.live
     /\ Write("separator")
     /\ source' = [source EXCEPT !.live = TRUE]
     /\ UNCHANGED left

\* ... then the changes
SourceChange ==
  /\ source.live
  /\ Write("change")
  /\ Spend("inputs")
  /\ UNCHANGED source

\* A line that is bad or out of order
SourceMisbehaves(line) ==
  /\ Write(line)
  /\ Spend("faults")
  /\ UNCHANGED source

SourceError ==
  /\ SourceUp
  /\ Spend("faults")
  /\ error_output' = TRUE
  /\ UNCHANGED <<pc, loopVars, instVars, ioVars, noteVars, confVars, sigVars, source, pipe,
                 dying, keys>>

\* The source exits by itself: always possible at the end of a file
SourceExits ==
  /\ SourceUp
  /\ IF events_file /\ source.live THEN UNCHANGED left ELSE Spend("faults")
  /\ source' = [NoSource EXCEPT !.state = "exited"]
  /\ pending_signals' = pending_signals \union {"CHILD_PROC"}
  /\ UNCHANGED <<pc, loopVars, instVars, ioVars, noteVars, confVars, timer, exit_blocked,
                 pipe, error_output, dying, keys>>

\* The source of an earlier instance exits after SIGTERM
OldSourceExits ==
  /\ Up
  /\ dying > 0
  /\ dying' = dying - 1
  /\ pending_signals' = pending_signals \union {"CHILD_PROC"}
  /\ UNCHANGED <<pc, loopVars, instVars, ioVars, noteVars, confVars, timer, exit_blocked,
                 source, pipe, error_output, keys, left>>

-----------------------------------------------------------------------------
\* The steps of the main thread that no failure makes
MainProceeds ==
  \/ \E exists \in 0 .. MaxExists : StartInstance(exists)
  \/ EnterLoop
  \/ EpollWait
  \/ HandleEvents
  \/ HandleError
  \/ \E outcome \in TimerOutcomes : ProcessLine(outcome)
  \/ \E outcome \in TimerOutcomes : LinesDone(outcome)
  \/ \E sig \in {"EXIT", "DEBUG"} : SignalExit(sig)
  \/ SignalWindowSize
  \/ SignalChildProc
  \/ \E clock_ok \in BOOLEAN : SignalTimer(clock_ok)
  \/ \E effect \in KeyEffects : HandleStdin(effect)
  \/ HandleWakeup
  \/ GetNotificationMask
  \/ \E reaped \in BOOLEAN : Unwind(reaped)
  \/ MonitorLoop
  \/ DelayEnds

MainFails ==
  \/ \E what \in {"CONFIG", "EVENTS_SOURCE", "EVENTS_IO", "bad_alloc"} : StartFails(what)
  \/ NoMemory

Threads ==
  \/ \E note \in Notes : NotifySet(note)
  \/ NotifyWakeup

Environment ==
  \/ TimerFires
  \/ \E sig \in Signals \ {"TIMER"} : SendSignal(sig)
  \/ PressKey
  \/ SourceInitial
  \/ SourceChange
  \/ \E line \in {"bad", "exists", "change"} : SourceMisbehaves(line)
  \/ SourceError
  \/ SourceExits
  \/ OldSourceExits

\* The program has ended, or is blocked in epoll_wait() with nothing to come
Quiet ==
  /\ ~Up \/ (pc = "wait" /\ fired_events = {} /\ ReadyFds = {})
  /\ UNCHANGED vars

Next == MainProceeds \/ MainFails \/ Threads \/ Environment \/ Quiet

Spec == Init /\ [][Next]_vars

\* The main thread and the notifying threads run, the timer fires, and a source
\* that runs writes its initial state.
Fairness ==
  /\ WF_vars(MainProceeds)
  /\ WF_vars(NotifyWakeup)
  /\ WF_vars(TimerFires)
  /\ WF_vars(SourceInitial)

FairSpec == Spec /\ Fairness

-----------------------------------------------------------------------------
(* Properties *)

LoopType ==
  /\ pc \in Pcs
  /\ fin_action \in FinishActions
  /\ fail_data \in FailInfos
  /\ exc \in {"none", "bad_alloc"}
InstanceType ==
  /\ have_initial_state \in BOOLEAN /\ separator_seen \in BOOLEAN /\ unreported \in BOOLEAN
  /\ timer_available \in BOOLEAN /\ timer_armed \in BOOLEAN
  /\ update_counter \in 0 .. MAX_EVENT_BUNDLE
  /\ dsp_interval \in BOOLEAN /\ events_file \in BOOLEAN
IoType ==
  /\ buffer \in Seq(Lines) /\ events_eof \in BOOLEAN /\ fired_events \subseteq Fds
  /\ notification_mask \subseteq Notes /\ writers \in Nat /\ wakeup_pipe \in BOOLEAN
OutsideType ==
  /\ timer \in BOOLEAN /\ pending_signals \subseteq Signals /\ exit_blocked \in BOOLEAN
  /\ source \in [state : {"none", "running", "exited"}, exists : Nat, live : BOOLEAN]
  /\ pipe \in Seq(Lines) /\ error_output \in BOOLEAN /\ dying \in Nat /\ keys \in Nat
  /\ left \in [{"inputs", "faults"} -> Nat]

\* Types of all variables.
TypeOK == LoopType /\ InstanceType /\ IoType /\ OutsideType

\* A notification is never lost: while the mask is not empty in the main
\* loop, there is a byte in the wakeup pipe, or a thread about to write one, or the main loop has emptied
\* the pipe and is about to take the mask.
WakeupPending ==
  pc \in Running /\ notification_mask # {} => wakeup_pipe \/ writers > 0 \/ pc = "wakeup"

\* cond_display_update() relies on timer_armed: while it is set the timer runs or
\* its signal is on the way, and it is set whenever the main loop waits with a
\* change the display has not been told of.
UpdateScheduled ==
  /\ timer_armed => timer \/ "TIMER" \in pending_signals
  /\ pc = "wait" /\ unreported => timer_armed

\* run() reads events only while SIGTERM, SIGINT and SIGHUP are blocked (so that
\* they reach it in order and the terminal is restored), and sleeps in
\* monitor_loop() only while they are not.
ExitSignalsRouted ==
  /\ pc \in Running => exit_blocked
  /\ pc = "delay" => ~exit_blocked /\ "EXIT" \notin pending_signals

\* A change that DrbdMon has processed gets to the display, or the instance ends.
ChangeReported == unreported ~> (~unreported \/ pc = "unwind")

\* SIGTERM, SIGINT or SIGHUP ends the program, whatever happens to the instance.
ExitHonored == ("EXIT" \in pending_signals) ~> (pc = "ended")

\* Every failure is followed by an instance that gets the initial state and
\* reports the recovery, or by the end of the program.
FailureRecovered == (fail_data # "NONE") ~> (fail_data = "NONE" \/ pc = "ended")

\* DrbdMon.cpp: the out-of-sync error for an 'exists' line means "Received an
\* 'exists' event after the 'exists -' line that finishes current state reporting".
OutOfSyncAfterSeparator ==
  [][/\ pc = "lines" /\ buffer # <<>> /\ Head(buffer) \notin {"bad", "change"}
     /\ pc' = "unwind" /\ exc' = "none"
     => separator_seen]_vars
=============================================================================
