-------------------------- MODULE DrbdMonCoreProofs --------------------------
(***************************************************************************)
(* Proofs about the main loop of DRBDmon, for every size of a bundle, of   *)
(* the pipe and of the bounds on what happens outside: no notification of  *)
(* the task queue's threads is lost, no display update is forgotten, and   *)
(* the signals that end the program get to who is to handle them.          *)
(***************************************************************************)
EXTENDS DrbdMonCore, SequenceTheorems, TLAPS

\* There is no DrbdMon instance in its loop, nor one that is being destroyed.
Between == {"start", "setup", "loop", "delay"}

\* An event for standard input is handled while there is a key to read: keys
\* are read by the handler of that event only.
KeysFired == "stdin" \in fired_events => keys > 0

\* A notification cannot be left over from an earlier instance.
WakeupInv ==
  /\ WakeupPending
  /\ pc \in Between => notification_mask = {}

\* What keeps UpdateScheduled: a change is recorded only once the initial state
\* is known, or the end of a bundle would neither report nor schedule it; and
\* the main loop is entered without one.
TimerInv ==
  /\ timer_armed => timer \/ "TIMER" \in pending_signals
  /\ pc \in {"wait", "wakeup"} /\ unreported => timer_armed
  /\ unreported => have_initial_state
  /\ pc \in Between => ~ unreported

\* The constructor of EventsIo has blocked the signals before run() goes on.
SignalInv ==
  /\ pc \in Running \union {"setup"} => exit_blocked
  /\ pc = "delay" => ~ exit_blocked /\ "EXIT" \notin pending_signals

IInv == TypeOK /\ KeysFired /\ WakeupInv /\ TimerInv /\ SignalInv

-----------------------------------------------------------------------------
(* Types *)

\* The states of the source that an action writes down.
LEMMA SourceRecords ==
  /\ NoSource \in [state : {"none", "running", "exited"}, exists : Nat, live : BOOLEAN]
  /\ [NoSource EXCEPT !.state = "running"] \in [state : {"none", "running", "exited"}, exists : Nat, live : BOOLEAN]
  /\ [NoSource EXCEPT !.state = "exited"] \in [state : {"none", "running", "exited"}, exists : Nat, live : BOOLEAN]
  /\ \A n \in Nat : [state |-> "running", exists |-> n, live |-> FALSE]
                    \in [state : {"none", "running", "exited"}, exists : Nat, live : BOOLEAN]
  BY DEF NoSource

\* Initial values.
LEMMA Empty ==
  /\ <<>> \in Seq(Lines) /\ FALSE \in BOOLEAN /\ 0 \in 0 .. MAX_EVENT_BUNDLE /\ 0 \in Nat
  /\ {} \subseteq Fds /\ {} \subseteq Notes /\ {} \subseteq Signals
  BY CoreAssumption

\* A part of a sequence of lines is one.
LEMMA PartOfLines ==
  ASSUME NEW s \in Seq(Lines), NEW n \in 1 .. Len(s)
  PROVE  SubSeq(s, 1, n) \in Seq(Lines) /\ SubSeq(s, n + 1, Len(s)) \in Seq(Lines)
<1>1. \A i \in 1 .. Len(s) : s[i] \in Lines
  OBVIOUS
<1>2. SubSeq(s, 1, n) \in Seq(Lines)
  BY <1>1, SubSeqProperties
<1>3. SubSeq(s, n + 1, Len(s)) \in Seq(Lines)
  BY <1>1, SubSeqProperties
<1> QED
  BY <1>2, <1>3

\* How an instance ends: the fields that monitor_loop() reads.
LEMMA LoopTypeStep ==
  ASSUME TypeOK, [Next]_vars
  PROVE  LoopType'
<1> USE DEF TypeOK, LoopType, Pcs, Running, FinishActions, FailInfos
<1>1. ASSUME NEW exists \in 0 .. MaxExists, StartInstance(exists)
      PROVE  LoopType'
  BY <1>1 DEF StartInstance, Spawned, loopVars, instVars, ioVars, noteVars, confVars, sigVars, srcVars
<1>2. CASE EnterLoop
  BY <1>2 DEF EnterLoop, CleanupChildProcesses, Throw, loopVars, instVars, ioVars, noteVars, confVars, sigVars,
         srcVars
<1>3. CASE EpollWait
  BY <1>3 DEF EpollWait, loopVars, instVars, ioVars, noteVars, confVars, sigVars, srcVars
<1>4. CASE HandleEvents
  BY <1>4 DEF HandleEvents, Fired, Throw, loopVars, instVars, ioVars, noteVars, confVars, sigVars, srcVars
<1>5. CASE HandleError
  BY <1>5 DEF HandleError, Fired, Throw, loopVars, instVars, ioVars, noteVars, confVars, sigVars, srcVars
<1>6. ASSUME NEW outcome \in TimerOutcomes, ProcessLine(outcome)
      PROVE  LoopType'
  BY <1>6 DEF ProcessLine, Refused, Accept, Throw, BundleFull, UpdateDisplay, CondDisplayUpdate,
         NotifyDrbdChanged, loopVars, instVars, ioVars, noteVars, confVars, sigVars, srcVars
<1>7. ASSUME NEW outcome \in TimerOutcomes, LinesDone(outcome)
      PROVE  LoopType'
  BY <1>7 DEF LinesDone, UpdateDisplay, CondDisplayUpdate, NotifyDrbdChanged, loopVars, instVars, ioVars,
         noteVars, confVars, sigVars, srcVars
<1>8. ASSUME NEW sig \in {"EXIT", "DEBUG"}, SignalExit(sig)
      PROVE  LoopType'
  BY <1>8 DEF SignalExit, GetSignal, Fired, Shutdown, loopVars, instVars, ioVars, noteVars, confVars, sigVars,
         srcVars
<1>9. CASE SignalWindowSize
  BY <1>9 DEF SignalWindowSize, GetSignal, Fired, NotifyDrbdChanged, loopVars, instVars, ioVars, noteVars,
         confVars, sigVars, srcVars
<1>10. CASE SignalChildProc
  BY <1>10 DEF SignalChildProc, GetSignal, Fired, CleanupChildProcesses, Throw, loopVars, instVars, ioVars,
         noteVars, confVars, sigVars, srcVars
<1>11. ASSUME NEW clock_ok \in BOOLEAN, SignalTimer(clock_ok)
      PROVE  LoopType'
  BY <1>11 DEF SignalTimer, GetSignal, Fired, NotifyDrbdChanged, loopVars, instVars, ioVars, noteVars, confVars,
         sigVars, srcVars
<1>12. ASSUME NEW effect \in KeyEffects, HandleStdin(effect)
      PROVE  LoopType'
  BY <1>12 DEF HandleStdin, Fired, Shutdown, loopVars, instVars, ioVars, noteVars, confVars, sigVars, srcVars
<1>13. CASE HandleWakeup
  BY <1>13 DEF HandleWakeup, Fired, loopVars, instVars, ioVars, noteVars, confVars, sigVars, srcVars
<1>14. CASE GetNotificationMask
  BY <1>14 DEF GetNotificationMask, ThrowBadAlloc, loopVars, instVars, ioVars, noteVars, confVars, sigVars,
         srcVars
<1>15. ASSUME NEW reaped \in BOOLEAN, Unwind(reaped)
      PROVE  LoopType'
  BY <1>15 DEF Unwind, InstanceGone, NoSource, loopVars, instVars, ioVars, noteVars, confVars, sigVars, srcVars
<1>16. CASE MonitorLoop
  BY <1>16 DEF MonitorLoop, FinAction, UnblockSignals, loopVars, instVars, ioVars, noteVars, confVars, sigVars,
         srcVars
<1>17. CASE DelayEnds
  BY <1>17 DEF DelayEnds, loopVars, instVars, ioVars, noteVars, confVars, sigVars, srcVars
<1>18. ASSUME NEW what \in {"CONFIG", "EVENTS_SOURCE", "EVENTS_IO", "bad_alloc"}, StartFails(what)
      PROVE  LoopType'
  BY <1>18 DEF StartFails, Spend, Spawned, Throw, NoSource, loopVars, instVars, ioVars, noteVars, confVars,
         sigVars, srcVars
<1>19. CASE NoMemory
  BY <1>19 DEF NoMemory, Spend, ThrowBadAlloc, loopVars, instVars, ioVars, noteVars, confVars, sigVars, srcVars
<1>20. ASSUME NEW note \in Notes, NotifySet(note)
      PROVE  LoopType'
  BY <1>20 DEF NotifySet, Spend, loopVars, instVars, ioVars, noteVars, confVars, sigVars, srcVars
<1>21. CASE NotifyWakeup
  BY <1>21 DEF NotifyWakeup, loopVars, instVars, ioVars, noteVars, confVars, sigVars, srcVars
<1>22. CASE TimerFires
  BY <1>22 DEF TimerFires, Up, loopVars, instVars, ioVars, noteVars, confVars, sigVars, srcVars
<1>23. ASSUME NEW sig \in Signals \ {"TIMER"}, SendSignal(sig)
      PROVE  LoopType'
  BY <1>23 DEF SendSignal, Up, Spend, loopVars, instVars, ioVars, noteVars, confVars, sigVars, srcVars
<1>24. CASE PressKey
  BY <1>24 DEF PressKey, Up, Spend, loopVars, instVars, ioVars, noteVars, confVars, sigVars, srcVars
<1>25. CASE SourceInitial
  BY <1>25 DEF SourceInitial, Write, SourceUp, Up, loopVars, instVars, ioVars, noteVars, confVars, sigVars,
         srcVars
<1>26. CASE SourceChange
  BY <1>26 DEF SourceChange, Write, SourceUp, Up, Spend, loopVars, instVars, ioVars, noteVars, confVars,
         sigVars, srcVars
<1>27. ASSUME NEW line \in {"bad", "exists", "change"}, SourceMisbehaves(line)
      PROVE  LoopType'
  BY <1>27 DEF SourceMisbehaves, Write, SourceUp, Up, Spend, loopVars, instVars, ioVars, noteVars, confVars,
         sigVars, srcVars
<1>28. CASE SourceError
  BY <1>28 DEF SourceError, SourceUp, Up, Spend, loopVars, instVars, ioVars, noteVars, confVars, sigVars,
         srcVars
<1>29. CASE SourceExits
  BY <1>29 DEF SourceExits, SourceUp, Up, Spend, NoSource, loopVars, instVars, ioVars, noteVars, confVars,
         sigVars, srcVars
<1>30. CASE OldSourceExits
  BY <1>30 DEF OldSourceExits, Up, loopVars, instVars, ioVars, noteVars, confVars, sigVars, srcVars
<1>31. CASE UNCHANGED vars
  BY <1>31 DEF vars, loopVars, instVars, ioVars, noteVars, confVars, sigVars, srcVars
<1> QED
  BY <1>1, <1>2, <1>3, <1>4, <1>5, <1>6, <1>7, <1>8, <1>9, <1>10, <1>11, <1>12, <1>13, <1>14, <1>15, <1>16,
     <1>17, <1>18, <1>19, <1>20, <1>21, <1>22, <1>23, <1>24, <1>25, <1>26, <1>27, <1>28, <1>29, <1>30, <1>31 DEF
     Next, MainProceeds, MainFails, Threads, Environment, Quiet

\* The members of a DrbdMon object, among them the counter of the lines of a
\* bundle.
LEMMA InstanceTypeStep ==
  ASSUME TypeOK, [Next]_vars
  PROVE  InstanceType'
<1> USE DEF TypeOK, InstanceType
<1>1. ASSUME NEW exists \in 0 .. MaxExists, StartInstance(exists)
      PROVE  InstanceType'
  BY <1>1 DEF StartInstance, Spawned, loopVars, instVars, ioVars, noteVars, confVars, sigVars, srcVars
<1>2. CASE EnterLoop
  BY <1>2 DEF EnterLoop, CleanupChildProcesses, Throw, loopVars, instVars, ioVars, noteVars, confVars, sigVars,
         srcVars
<1>3. CASE EpollWait
  BY <1>3 DEF EpollWait, loopVars, instVars, ioVars, noteVars, confVars, sigVars, srcVars
<1>4. CASE HandleEvents
  BY <1>4 DEF HandleEvents, Fired, Throw, loopVars, instVars, ioVars, noteVars, confVars, sigVars, srcVars
<1>5. CASE HandleError
  BY <1>5 DEF HandleError, Fired, Throw, loopVars, instVars, ioVars, noteVars, confVars, sigVars, srcVars
<1>6. ASSUME NEW outcome \in TimerOutcomes, ProcessLine(outcome)
      PROVE  InstanceType'
  <2>1. CASE Refused(Head(buffer))
    <3>1. UNCHANGED <<instVars, confVars>>
      BY <1>6, <2>1 DEF ProcessLine
    <3> QED
      BY <3>1 DEF instVars, confVars
  <2>2. CASE ~ Refused(Head(buffer))
    <3>1. have_initial_state' \in BOOLEAN /\ separator_seen' \in BOOLEAN /\ UNCHANGED confVars
      BY <1>6, <2>2 DEF ProcessLine, Accept
    <3>2. update_counter' \in 0 .. MAX_EVENT_BUNDLE
      <4>1. \/ update_counter' = 0 \/ update_counter' = update_counter
            \/ ~ BundleFull /\ update_counter' = update_counter + 1
        BY <1>6, <2>2 DEF ProcessLine
      <4> QED
        BY <4>1, CoreAssumption DEF BundleFull
    <3>3. unreported' \in BOOLEAN /\ timer_available' \in BOOLEAN /\ timer_armed' \in BOOLEAN
      BY <1>6, <2>2 DEF ProcessLine, UpdateDisplay, CondDisplayUpdate, NotifyDrbdChanged
    <3> QED
      BY <3>1, <3>2, <3>3 DEF confVars
  <2> QED
    BY <2>1, <2>2
<1>7. ASSUME NEW outcome \in TimerOutcomes, LinesDone(outcome)
      PROVE  InstanceType'
  <2>1. UNCHANGED <<have_initial_state, separator_seen, confVars>>
    BY <1>7 DEF LinesDone
  <2>2. update_counter' \in 0 .. MAX_EVENT_BUNDLE
    BY <1>7, CoreAssumption DEF LinesDone
  <2>3. unreported' \in BOOLEAN /\ timer_available' \in BOOLEAN /\ timer_armed' \in BOOLEAN
    BY <1>7 DEF LinesDone, UpdateDisplay, CondDisplayUpdate, NotifyDrbdChanged
  <2> QED
    BY <2>1, <2>2, <2>3 DEF confVars
<1>8. ASSUME NEW sig \in {"EXIT", "DEBUG"}, SignalExit(sig)
      PROVE  InstanceType'
  BY <1>8 DEF SignalExit, GetSignal, Fired, Shutdown, loopVars, instVars, ioVars, noteVars, confVars, sigVars,
         srcVars
<1>9. CASE SignalWindowSize
  BY <1>9 DEF SignalWindowSize, GetSignal, Fired, NotifyDrbdChanged, loopVars, instVars, ioVars, noteVars,
         confVars, sigVars, srcVars
<1>10. CASE SignalChildProc
  BY <1>10 DEF SignalChildProc, GetSignal, Fired, CleanupChildProcesses, Throw, loopVars, instVars, ioVars,
         noteVars, confVars, sigVars, srcVars
<1>11. ASSUME NEW clock_ok \in BOOLEAN, SignalTimer(clock_ok)
      PROVE  InstanceType'
  BY <1>11 DEF SignalTimer, GetSignal, Fired, NotifyDrbdChanged, loopVars, instVars, ioVars, noteVars, confVars,
         sigVars, srcVars
<1>12. ASSUME NEW effect \in KeyEffects, HandleStdin(effect)
      PROVE  InstanceType'
  BY <1>12 DEF HandleStdin, Fired, Shutdown, loopVars, instVars, ioVars, noteVars, confVars, sigVars, srcVars
<1>13. CASE HandleWakeup
  BY <1>13 DEF HandleWakeup, Fired, loopVars, instVars, ioVars, noteVars, confVars, sigVars, srcVars
<1>14. CASE GetNotificationMask
  BY <1>14 DEF GetNotificationMask, ThrowBadAlloc, loopVars, instVars, ioVars, noteVars, confVars, sigVars,
         srcVars
<1>15. ASSUME NEW reaped \in BOOLEAN, Unwind(reaped)
      PROVE  InstanceType'
  <2>1. /\ have_initial_state' = FALSE /\ separator_seen' = FALSE /\ unreported' = FALSE
        /\ timer_available' = FALSE /\ timer_armed' = FALSE /\ update_counter' = 0 /\ UNCHANGED confVars
    BY <1>15 DEF Unwind, InstanceGone
  <2> QED
    BY <2>1, Empty DEF confVars
<1>16. CASE MonitorLoop
  BY <1>16 DEF MonitorLoop, FinAction, UnblockSignals, loopVars, instVars, ioVars, noteVars, confVars, sigVars,
         srcVars
<1>17. CASE DelayEnds
  BY <1>17 DEF DelayEnds, loopVars, instVars, ioVars, noteVars, confVars, sigVars, srcVars
<1>18. ASSUME NEW what \in {"CONFIG", "EVENTS_SOURCE", "EVENTS_IO", "bad_alloc"}, StartFails(what)
      PROVE  InstanceType'
  BY <1>18 DEF StartFails, Spend, Spawned, Throw, NoSource, loopVars, instVars, ioVars, noteVars, confVars,
         sigVars, srcVars
<1>19. CASE NoMemory
  BY <1>19 DEF NoMemory, Spend, ThrowBadAlloc, loopVars, instVars, ioVars, noteVars, confVars, sigVars, srcVars
<1>20. ASSUME NEW note \in Notes, NotifySet(note)
      PROVE  InstanceType'
  BY <1>20 DEF NotifySet, Spend, loopVars, instVars, ioVars, noteVars, confVars, sigVars, srcVars
<1>21. CASE NotifyWakeup
  BY <1>21 DEF NotifyWakeup, loopVars, instVars, ioVars, noteVars, confVars, sigVars, srcVars
<1>22. CASE TimerFires
  BY <1>22 DEF TimerFires, Up, loopVars, instVars, ioVars, noteVars, confVars, sigVars, srcVars
<1>23. ASSUME NEW sig \in Signals \ {"TIMER"}, SendSignal(sig)
      PROVE  InstanceType'
  BY <1>23 DEF SendSignal, Up, Spend, loopVars, instVars, ioVars, noteVars, confVars, sigVars, srcVars
<1>24. CASE PressKey
  BY <1>24 DEF PressKey, Up, Spend, loopVars, instVars, ioVars, noteVars, confVars, sigVars, srcVars
<1>25. CASE SourceInitial
  BY <1>25 DEF SourceInitial, Write, SourceUp, Up, loopVars, instVars, ioVars, noteVars, confVars, sigVars,
         srcVars
<1>26. CASE SourceChange
  BY <1>26 DEF SourceChange, Write, SourceUp, Up, Spend, loopVars, instVars, ioVars, noteVars, confVars,
         sigVars, srcVars
<1>27. ASSUME NEW line \in {"bad", "exists", "change"}, SourceMisbehaves(line)
      PROVE  InstanceType'
  BY <1>27 DEF SourceMisbehaves, Write, SourceUp, Up, Spend, loopVars, instVars, ioVars, noteVars, confVars,
         sigVars, srcVars
<1>28. CASE SourceError
  BY <1>28 DEF SourceError, SourceUp, Up, Spend, loopVars, instVars, ioVars, noteVars, confVars, sigVars,
         srcVars
<1>29. CASE SourceExits
  BY <1>29 DEF SourceExits, SourceUp, Up, Spend, NoSource, loopVars, instVars, ioVars, noteVars, confVars,
         sigVars, srcVars
<1>30. CASE OldSourceExits
  BY <1>30 DEF OldSourceExits, Up, loopVars, instVars, ioVars, noteVars, confVars, sigVars, srcVars
<1>31. CASE UNCHANGED vars
  BY <1>31 DEF vars, loopVars, instVars, ioVars, noteVars, confVars, sigVars, srcVars
<1> QED
  BY <1>1, <1>2, <1>3, <1>4, <1>5, <1>6, <1>7, <1>8, <1>9, <1>10, <1>11, <1>12, <1>13, <1>14, <1>15, <1>16,
     <1>17, <1>18, <1>19, <1>20, <1>21, <1>22, <1>23, <1>24, <1>25, <1>26, <1>27, <1>28, <1>29, <1>30, <1>31 DEF
     Next, MainProceeds, MainFails, Threads, Environment, Quiet

\* EventsIo and the notifications.
LEMMA IoTypeStep ==
  ASSUME TypeOK, [Next]_vars
  PROVE  IoType'
<1> USE DEF TypeOK, IoType, OutsideType
<1>1. ASSUME NEW exists \in 0 .. MaxExists, StartInstance(exists)
      PROVE  IoType'
  BY <1>1 DEF StartInstance, Spawned, loopVars, instVars, ioVars, noteVars, confVars, sigVars, srcVars
<1>2. CASE EnterLoop
  BY <1>2 DEF EnterLoop, CleanupChildProcesses, Throw, loopVars, instVars, ioVars, noteVars, confVars, sigVars,
         srcVars
<1>3. CASE EpollWait
  <2>1. fired_events' \subseteq Fds
    BY <1>3 DEF EpollWait, ReadyFds
  <2> QED
    BY <1>3, <2>1 DEF EpollWait, noteVars
<1>4. CASE HandleEvents
  <2>1. fired_events' \subseteq Fds /\ events_eof' \in BOOLEAN /\ UNCHANGED noteVars
    BY <1>4 DEF HandleEvents, Fired
  <2>2. buffer' = buffer \/ \E n \in 1 .. Len(pipe) : buffer' = SubSeq(pipe, 1, n)
    BY <1>4 DEF HandleEvents
  <2>3. pipe \in Seq(Lines)
    OBVIOUS
  <2>4. buffer' \in Seq(Lines)
    BY <2>2, <2>3, PartOfLines
  <2> QED
    BY <2>1, <2>4 DEF noteVars
<1>5. CASE HandleError
  BY <1>5 DEF HandleError, Fired, Throw, loopVars, instVars, ioVars, noteVars, confVars, sigVars, srcVars
<1>6. ASSUME NEW outcome \in TimerOutcomes, ProcessLine(outcome)
      PROVE  IoType'
  BY <1>6 DEF ProcessLine, Refused, Accept, Throw, BundleFull, UpdateDisplay, CondDisplayUpdate,
         NotifyDrbdChanged, loopVars, instVars, ioVars, noteVars, confVars, sigVars, srcVars
<1>7. ASSUME NEW outcome \in TimerOutcomes, LinesDone(outcome)
      PROVE  IoType'
  BY <1>7 DEF LinesDone, UpdateDisplay, CondDisplayUpdate, NotifyDrbdChanged, loopVars, instVars, ioVars,
         noteVars, confVars, sigVars, srcVars
<1>8. ASSUME NEW sig \in {"EXIT", "DEBUG"}, SignalExit(sig)
      PROVE  IoType'
  BY <1>8 DEF SignalExit, GetSignal, Fired, Shutdown, loopVars, instVars, ioVars, noteVars, confVars, sigVars,
         srcVars
<1>9. CASE SignalWindowSize
  BY <1>9 DEF SignalWindowSize, GetSignal, Fired, NotifyDrbdChanged, loopVars, instVars, ioVars, noteVars,
         confVars, sigVars, srcVars
<1>10. CASE SignalChildProc
  BY <1>10 DEF SignalChildProc, GetSignal, Fired, CleanupChildProcesses, Throw, loopVars, instVars, ioVars,
         noteVars, confVars, sigVars, srcVars
<1>11. ASSUME NEW clock_ok \in BOOLEAN, SignalTimer(clock_ok)
      PROVE  IoType'
  BY <1>11 DEF SignalTimer, GetSignal, Fired, NotifyDrbdChanged, loopVars, instVars, ioVars, noteVars, confVars,
         sigVars, srcVars
<1>12. ASSUME NEW effect \in KeyEffects, HandleStdin(effect)
      PROVE  IoType'
  BY <1>12 DEF HandleStdin, Fired, Shutdown, loopVars, instVars, ioVars, noteVars, confVars, sigVars, srcVars
<1>13. CASE HandleWakeup
  BY <1>13 DEF HandleWakeup, Fired, loopVars, instVars, ioVars, noteVars, confVars, sigVars, srcVars
<1>14. CASE GetNotificationMask
  BY <1>14 DEF GetNotificationMask, ThrowBadAlloc, loopVars, instVars, ioVars, noteVars, confVars, sigVars,
         srcVars
<1>15. ASSUME NEW reaped \in BOOLEAN, Unwind(reaped)
      PROVE  IoType'
  <2>1. buffer' = <<>> /\ events_eof' = FALSE /\ fired_events' = {}
    BY <1>15 DEF Unwind
  <2>2. notification_mask' = {} /\ writers' = writers /\ wakeup_pipe' = FALSE
    BY <1>15 DEF Unwind
  <2> QED
    BY <2>1, <2>2, Empty
<1>16. CASE MonitorLoop
  BY <1>16 DEF MonitorLoop, FinAction, UnblockSignals, loopVars, instVars, ioVars, noteVars, confVars, sigVars,
         srcVars
<1>17. CASE DelayEnds
  BY <1>17 DEF DelayEnds, loopVars, instVars, ioVars, noteVars, confVars, sigVars, srcVars
<1>18. ASSUME NEW what \in {"CONFIG", "EVENTS_SOURCE", "EVENTS_IO", "bad_alloc"}, StartFails(what)
      PROVE  IoType'
  BY <1>18 DEF StartFails, Spend, Spawned, Throw, NoSource, loopVars, instVars, ioVars, noteVars, confVars,
         sigVars, srcVars
<1>19. CASE NoMemory
  BY <1>19 DEF NoMemory, Spend, ThrowBadAlloc, loopVars, instVars, ioVars, noteVars, confVars, sigVars, srcVars
<1>20. ASSUME NEW note \in Notes, NotifySet(note)
      PROVE  IoType'
  BY <1>20 DEF NotifySet, Spend, loopVars, instVars, ioVars, noteVars, confVars, sigVars, srcVars
<1>21. CASE NotifyWakeup
  BY <1>21 DEF NotifyWakeup, loopVars, instVars, ioVars, noteVars, confVars, sigVars, srcVars
<1>22. CASE TimerFires
  BY <1>22 DEF TimerFires, Up, loopVars, instVars, ioVars, noteVars, confVars, sigVars, srcVars
<1>23. ASSUME NEW sig \in Signals \ {"TIMER"}, SendSignal(sig)
      PROVE  IoType'
  BY <1>23 DEF SendSignal, Up, Spend, loopVars, instVars, ioVars, noteVars, confVars, sigVars, srcVars
<1>24. CASE PressKey
  BY <1>24 DEF PressKey, Up, Spend, loopVars, instVars, ioVars, noteVars, confVars, sigVars, srcVars
<1>25. CASE SourceInitial
  BY <1>25 DEF SourceInitial, Write, SourceUp, Up, loopVars, instVars, ioVars, noteVars, confVars, sigVars,
         srcVars
<1>26. CASE SourceChange
  BY <1>26 DEF SourceChange, Write, SourceUp, Up, Spend, loopVars, instVars, ioVars, noteVars, confVars,
         sigVars, srcVars
<1>27. ASSUME NEW line \in {"bad", "exists", "change"}, SourceMisbehaves(line)
      PROVE  IoType'
  BY <1>27 DEF SourceMisbehaves, Write, SourceUp, Up, Spend, loopVars, instVars, ioVars, noteVars, confVars,
         sigVars, srcVars
<1>28. CASE SourceError
  BY <1>28 DEF SourceError, SourceUp, Up, Spend, loopVars, instVars, ioVars, noteVars, confVars, sigVars,
         srcVars
<1>29. CASE SourceExits
  BY <1>29 DEF SourceExits, SourceUp, Up, Spend, NoSource, loopVars, instVars, ioVars, noteVars, confVars,
         sigVars, srcVars
<1>30. CASE OldSourceExits
  BY <1>30 DEF OldSourceExits, Up, loopVars, instVars, ioVars, noteVars, confVars, sigVars, srcVars
<1>31. CASE UNCHANGED vars
  BY <1>31 DEF vars, loopVars, instVars, ioVars, noteVars, confVars, sigVars, srcVars
<1> QED
  BY <1>1, <1>2, <1>3, <1>4, <1>5, <1>6, <1>7, <1>8, <1>9, <1>10, <1>11, <1>12, <1>13, <1>14, <1>15, <1>16,
     <1>17, <1>18, <1>19, <1>20, <1>21, <1>22, <1>23, <1>24, <1>25, <1>26, <1>27, <1>28, <1>29, <1>30, <1>31 DEF
     Next, MainProceeds, MainFails, Threads, Environment, Quiet

\* The operating system, the source and the user.
LEMMA OutsideTypeStep ==
  ASSUME TypeOK, KeysFired, [Next]_vars
  PROVE  OutsideType'
<1> USE DEF TypeOK, OutsideType
<1>1. ASSUME NEW exists \in 0 .. MaxExists, StartInstance(exists)
      PROVE  OutsideType'
  <2>1. source' = [state |-> "running", exists |-> exists, live |-> FALSE] /\ pipe' = <<>> /\ error_output' = FALSE
        /\ exit_blocked' = TRUE /\ UNCHANGED <<timer, pending_signals, dying, keys, left>>
    BY <1>1 DEF StartInstance, Spawned
  <2>2. exists \in Nat
    BY CoreAssumption
  <2> QED
    BY <2>1, <2>2, SourceRecords, Empty
<1>2. CASE EnterLoop
  <2>1. source' = source \/ source' = NoSource
    BY <1>2 DEF EnterLoop, CleanupChildProcesses
  <2>2. pending_signals' \subseteq Signals /\ UNCHANGED <<timer, exit_blocked, pipe, error_output, dying, keys, left>>
    BY <1>2 DEF EnterLoop, sigVars
  <2> QED
    BY <2>1, <2>2, SourceRecords, Empty
<1>3. CASE EpollWait
  BY <1>3 DEF EpollWait, loopVars, instVars, ioVars, noteVars, confVars, sigVars, srcVars
<1>4. CASE HandleEvents
  <2>1. pipe' = pipe \/ \E n \in 1 .. Len(pipe) : pipe' = SubSeq(pipe, n + 1, Len(pipe))
    BY <1>4 DEF HandleEvents
  <2>2. pipe' \in Seq(Lines)
    BY <2>1, PartOfLines
  <2>3. UNCHANGED <<timer, pending_signals, exit_blocked, source, error_output, dying, keys, left>>
    BY <1>4 DEF HandleEvents, sigVars
  <2> QED
    BY <2>2, <2>3
<1>5. CASE HandleError
  BY <1>5 DEF HandleError, Fired, Throw, loopVars, instVars, ioVars, noteVars, confVars, sigVars, srcVars
<1>6. ASSUME NEW outcome \in TimerOutcomes, ProcessLine(outcome)
      PROVE  OutsideType'
  BY <1>6 DEF ProcessLine, Refused, Accept, Throw, BundleFull, UpdateDisplay, CondDisplayUpdate,
         NotifyDrbdChanged, loopVars, instVars, ioVars, noteVars, confVars, sigVars, srcVars
<1>7. ASSUME NEW outcome \in TimerOutcomes, LinesDone(outcome)
      PROVE  OutsideType'
  BY <1>7 DEF LinesDone, UpdateDisplay, CondDisplayUpdate, NotifyDrbdChanged, loopVars, instVars, ioVars,
         noteVars, confVars, sigVars, srcVars
<1>8. ASSUME NEW sig \in {"EXIT", "DEBUG"}, SignalExit(sig)
      PROVE  OutsideType'
  BY <1>8 DEF SignalExit, GetSignal, Fired, Shutdown, loopVars, instVars, ioVars, noteVars, confVars, sigVars,
         srcVars
<1>9. CASE SignalWindowSize
  BY <1>9 DEF SignalWindowSize, GetSignal, Fired, NotifyDrbdChanged, loopVars, instVars, ioVars, noteVars,
         confVars, sigVars, srcVars
<1>10. CASE SignalChildProc
  <2>1. source' = source \/ source' = NoSource
    BY <1>10 DEF SignalChildProc, CleanupChildProcesses
  <2>2. pending_signals' \subseteq Signals /\ UNCHANGED <<timer, exit_blocked, pipe, error_output, dying, keys, left>>
    BY <1>10 DEF SignalChildProc, GetSignal
  <2> QED
    BY <2>1, <2>2, SourceRecords, Empty
<1>11. ASSUME NEW clock_ok \in BOOLEAN, SignalTimer(clock_ok)
      PROVE  OutsideType'
  BY <1>11 DEF SignalTimer, GetSignal, Fired, NotifyDrbdChanged, loopVars, instVars, ioVars, noteVars, confVars,
         sigVars, srcVars
<1>12. ASSUME NEW effect \in KeyEffects, HandleStdin(effect)
      PROVE  OutsideType'
  <2>1. keys > 0 /\ keys' = keys - 1
    BY <1>12 DEF HandleStdin, Fired, KeysFired
  <2>2. UNCHANGED <<sigVars, srcVars, left>>
    BY <1>12 DEF HandleStdin
  <2> QED
    BY <2>1, <2>2 DEF sigVars, srcVars
<1>13. CASE HandleWakeup
  BY <1>13 DEF HandleWakeup, Fired, loopVars, instVars, ioVars, noteVars, confVars, sigVars, srcVars
<1>14. CASE GetNotificationMask
  BY <1>14 DEF GetNotificationMask, ThrowBadAlloc, loopVars, instVars, ioVars, noteVars, confVars, sigVars,
         srcVars
<1>15. ASSUME NEW reaped \in BOOLEAN, Unwind(reaped)
      PROVE  OutsideType'
  <2>1. source' = NoSource /\ pipe' = <<>> /\ error_output' = FALSE /\ timer' = FALSE
        /\ UNCHANGED <<exit_blocked, keys, left>>
    BY <1>15 DEF Unwind
  <2>2. pending_signals' \subseteq Signals /\ dying' \in Nat
    BY <1>15 DEF Unwind
  <2> QED
    BY <2>1, <2>2, SourceRecords, Empty
<1>16. CASE MonitorLoop
  BY <1>16 DEF MonitorLoop, FinAction, UnblockSignals, loopVars, instVars, ioVars, noteVars, confVars, sigVars,
         srcVars
<1>17. CASE DelayEnds
  BY <1>17 DEF DelayEnds, loopVars, instVars, ioVars, noteVars, confVars, sigVars, srcVars
<1>18. ASSUME NEW what \in {"CONFIG", "EVENTS_SOURCE", "EVENTS_IO", "bad_alloc"}, StartFails(what)
      PROVE  OutsideType'
  <2>1. source' \in {NoSource, [NoSource EXCEPT !.state = "running"]} /\ pipe' = <<>> /\ error_output' = FALSE
        /\ exit_blocked' \in {exit_blocked, TRUE} /\ UNCHANGED <<timer, pending_signals, dying, keys>>
    BY <1>18 DEF StartFails, Spawned
  <2>2. left' \in [{"inputs", "faults"} -> Nat]
    BY <1>18 DEF StartFails, Spend
  <2> QED
    BY <2>1, <2>2, SourceRecords, Empty
<1>19. CASE NoMemory
  BY <1>19 DEF NoMemory, Spend, ThrowBadAlloc, loopVars, instVars, ioVars, noteVars, confVars, sigVars, srcVars
<1>20. ASSUME NEW note \in Notes, NotifySet(note)
      PROVE  OutsideType'
  BY <1>20 DEF NotifySet, Spend, loopVars, instVars, ioVars, noteVars, confVars, sigVars, srcVars
<1>21. CASE NotifyWakeup
  BY <1>21 DEF NotifyWakeup, loopVars, instVars, ioVars, noteVars, confVars, sigVars, srcVars
<1>22. CASE TimerFires
  <2>1. timer' = FALSE /\ pending_signals' \subseteq Signals
    BY <1>22 DEF TimerFires, Signals
  <2>2. UNCHANGED <<exit_blocked, srcVars, keys, left>>
    BY <1>22 DEF TimerFires
  <2> QED
    BY <2>1, <2>2 DEF srcVars
<1>23. ASSUME NEW sig \in Signals \ {"TIMER"}, SendSignal(sig)
      PROVE  OutsideType'
  BY <1>23 DEF SendSignal, Up, Spend, loopVars, instVars, ioVars, noteVars, confVars, sigVars, srcVars
<1>24. CASE PressKey
  BY <1>24 DEF PressKey, Up, Spend, loopVars, instVars, ioVars, noteVars, confVars, sigVars, srcVars
<1>25. CASE SourceInitial
  <2>1. pipe' \in Seq(Lines)
    <3>1. pipe' = Append(pipe, "exists") \/ pipe' = Append(pipe, "separator")
      BY <1>25 DEF SourceInitial, Write
    <3>2. "exists" \in Lines /\ "separator" \in Lines
      BY DEF Lines
    <3>3. \A line \in Lines : Append(pipe, line) \in Seq(Lines)
      OBVIOUS
    <3> QED
      BY <3>1, <3>2, <3>3
  <2>2. source' \in [state : {"none", "running", "exited"}, exists : Nat, live : BOOLEAN]
    <3>1. \/ source.exists > 0 /\ source' = [source EXCEPT !.exists = source.exists - 1]
          \/ source' = [source EXCEPT !.live = TRUE]
      BY <1>25 DEF SourceInitial
    <3>2. source \in [state : {"none", "running", "exited"}, exists : Nat, live : BOOLEAN]
      OBVIOUS
    <3>3. CASE source.exists > 0 /\ source' = [source EXCEPT !.exists = source.exists - 1]
      <4>1. source.exists - 1 \in Nat
        BY <3>2, <3>3
      <4> QED
        BY <3>2, <3>3, <4>1
    <3>4. CASE source' = [source EXCEPT !.live = TRUE]
      BY <3>2, <3>4
    <3> QED
      BY <3>1, <3>3, <3>4
  <2>3. UNCHANGED <<sigVars, error_output, dying, keys, left>>
    BY <1>25 DEF SourceInitial, Write
  <2> QED
    BY <2>1, <2>2, <2>3 DEF sigVars
<1>26. CASE SourceChange
  <2>1. pipe' \in Seq(Lines)
    BY <1>26 DEF SourceChange, Write, Lines
  <2>2. left' \in [{"inputs", "faults"} -> Nat]
    BY <1>26 DEF SourceChange, Spend
  <2>3. UNCHANGED <<sigVars, source, error_output, dying, keys>>
    BY <1>26 DEF SourceChange, Write
  <2> QED
    BY <2>1, <2>2, <2>3 DEF sigVars
<1>27. ASSUME NEW line \in {"bad", "exists", "change"}, SourceMisbehaves(line)
      PROVE  OutsideType'
  <2>1. pipe' \in Seq(Lines)
    BY <1>27 DEF SourceMisbehaves, Write, Lines
  <2>2. left' \in [{"inputs", "faults"} -> Nat]
    BY <1>27 DEF SourceMisbehaves, Spend
  <2>3. UNCHANGED <<sigVars, source, error_output, dying, keys>>
    BY <1>27 DEF SourceMisbehaves, Write
  <2> QED
    BY <2>1, <2>2, <2>3 DEF sigVars
<1>28. CASE SourceError
  BY <1>28 DEF SourceError, SourceUp, Up, Spend, loopVars, instVars, ioVars, noteVars, confVars, sigVars,
         srcVars
<1>29. CASE SourceExits
  <2>1. source' = [NoSource EXCEPT !.state = "exited"] /\ UNCHANGED <<timer, exit_blocked, pipe, error_output, dying, keys>>
    BY <1>29 DEF SourceExits
  <2>2. left' \in [{"inputs", "faults"} -> Nat]
    BY <1>29 DEF SourceExits, Spend
  <2>3. pending_signals' \subseteq Signals
    BY <1>29 DEF SourceExits, Signals
  <2> QED
    BY <2>1, <2>2, <2>3, SourceRecords
<1>30. CASE OldSourceExits
  <2>1. dying' \in Nat /\ pending_signals' \subseteq Signals
    BY <1>30 DEF OldSourceExits, Signals
  <2>2. UNCHANGED <<timer, exit_blocked, source, pipe, error_output, keys, left>>
    BY <1>30 DEF OldSourceExits
  <2> QED
    BY <2>1, <2>2
<1>31. CASE UNCHANGED vars
  BY <1>31 DEF vars, loopVars, instVars, ioVars, noteVars, confVars, sigVars, srcVars
<1> QED
  BY <1>1, <1>2, <1>3, <1>4, <1>5, <1>6, <1>7, <1>8, <1>9, <1>10, <1>11, <1>12, <1>13, <1>14, <1>15, <1>16,
     <1>17, <1>18, <1>19, <1>20, <1>21, <1>22, <1>23, <1>24, <1>25, <1>26, <1>27, <1>28, <1>29, <1>30, <1>31 DEF
     Next, MainProceeds, MainFails, Threads, Environment, Quiet

\* No action takes a key that an event still to be handled stands for.
LEMMA KeysStep ==
  ASSUME TypeOK, KeysFired, [Next]_vars
  PROVE  KeysFired'
<1> USE DEF TypeOK, IoType, OutsideType, KeysFired
<1>1. ASSUME NEW exists \in 0 .. MaxExists, StartInstance(exists)
      PROVE  KeysFired'
  BY <1>1 DEF StartInstance, Spawned, loopVars, instVars, ioVars, noteVars, confVars, sigVars, srcVars
<1>2. CASE EnterLoop
  BY <1>2 DEF EnterLoop, CleanupChildProcesses, Throw, loopVars, instVars, ioVars, noteVars, confVars, sigVars,
         srcVars
<1>3. CASE EpollWait
  <2>1. fired_events' = ReadyFds /\ UNCHANGED keys
    BY <1>3 DEF EpollWait
  <2> QED
    BY <2>1 DEF ReadyFds
<1>4. CASE HandleEvents
  BY <1>4 DEF HandleEvents, Fired, Throw, loopVars, instVars, ioVars, noteVars, confVars, sigVars, srcVars
<1>5. CASE HandleError
  BY <1>5 DEF HandleError, Fired, Throw, loopVars, instVars, ioVars, noteVars, confVars, sigVars, srcVars
<1>6. ASSUME NEW outcome \in TimerOutcomes, ProcessLine(outcome)
      PROVE  KeysFired'
  BY <1>6 DEF ProcessLine, Refused, Accept, Throw, BundleFull, UpdateDisplay, CondDisplayUpdate,
         NotifyDrbdChanged, loopVars, instVars, ioVars, noteVars, confVars, sigVars, srcVars
<1>7. ASSUME NEW outcome \in TimerOutcomes, LinesDone(outcome)
      PROVE  KeysFired'
  BY <1>7 DEF LinesDone, UpdateDisplay, CondDisplayUpdate, NotifyDrbdChanged, loopVars, instVars, ioVars,
         noteVars, confVars, sigVars, srcVars
<1>8. ASSUME NEW sig \in {"EXIT", "DEBUG"}, SignalExit(sig)
      PROVE  KeysFired'
  BY <1>8 DEF SignalExit, GetSignal, Fired, Shutdown, loopVars, instVars, ioVars, noteVars, confVars, sigVars,
         srcVars
<1>9. CASE SignalWindowSize
  BY <1>9 DEF SignalWindowSize, GetSignal, Fired, NotifyDrbdChanged, loopVars, instVars, ioVars, noteVars,
         confVars, sigVars, srcVars
<1>10. CASE SignalChildProc
  BY <1>10 DEF SignalChildProc, GetSignal, Fired, CleanupChildProcesses, Throw, loopVars, instVars, ioVars,
         noteVars, confVars, sigVars, srcVars
<1>11. ASSUME NEW clock_ok \in BOOLEAN, SignalTimer(clock_ok)
      PROVE  KeysFired'
  BY <1>11 DEF SignalTimer, GetSignal, Fired, NotifyDrbdChanged, loopVars, instVars, ioVars, noteVars, confVars,
         sigVars, srcVars
<1>12. ASSUME NEW effect \in KeyEffects, HandleStdin(effect)
      PROVE  KeysFired'
  BY <1>12 DEF HandleStdin, Fired, Shutdown, loopVars, instVars, ioVars, noteVars, confVars, sigVars, srcVars
<1>13. CASE HandleWakeup
  BY <1>13 DEF HandleWakeup, Fired, loopVars, instVars, ioVars, noteVars, confVars, sigVars, srcVars
<1>14. CASE GetNotificationMask
  BY <1>14 DEF GetNotificationMask, ThrowBadAlloc, loopVars, instVars, ioVars, noteVars, confVars, sigVars,
         srcVars
<1>15. ASSUME NEW reaped \in BOOLEAN, Unwind(reaped)
      PROVE  KeysFired'
  BY <1>15 DEF Unwind, InstanceGone, NoSource, loopVars, instVars, ioVars, noteVars, confVars, sigVars, srcVars
<1>16. CASE MonitorLoop
  BY <1>16 DEF MonitorLoop, FinAction, UnblockSignals, loopVars, instVars, ioVars, noteVars, confVars, sigVars,
         srcVars
<1>17. CASE DelayEnds
  BY <1>17 DEF DelayEnds, loopVars, instVars, ioVars, noteVars, confVars, sigVars, srcVars
<1>18. ASSUME NEW what \in {"CONFIG", "EVENTS_SOURCE", "EVENTS_IO", "bad_alloc"}, StartFails(what)
      PROVE  KeysFired'
  BY <1>18 DEF StartFails, Spend, Spawned, Throw, NoSource, loopVars, instVars, ioVars, noteVars, confVars,
         sigVars, srcVars
<1>19. CASE NoMemory
  BY <1>19 DEF NoMemory, Spend, ThrowBadAlloc, loopVars, instVars, ioVars, noteVars, confVars, sigVars, srcVars
<1>20. ASSUME NEW note \in Notes, NotifySet(note)
      PROVE  KeysFired'
  BY <1>20 DEF NotifySet, Spend, loopVars, instVars, ioVars, noteVars, confVars, sigVars, srcVars
<1>21. CASE NotifyWakeup
  BY <1>21 DEF NotifyWakeup, loopVars, instVars, ioVars, noteVars, confVars, sigVars, srcVars
<1>22. CASE TimerFires
  BY <1>22 DEF TimerFires, Up, loopVars, instVars, ioVars, noteVars, confVars, sigVars, srcVars
<1>23. ASSUME NEW sig \in Signals \ {"TIMER"}, SendSignal(sig)
      PROVE  KeysFired'
  BY <1>23 DEF SendSignal, Up, Spend, loopVars, instVars, ioVars, noteVars, confVars, sigVars, srcVars
<1>24. CASE PressKey
  BY <1>24 DEF PressKey, Up, Spend, loopVars, instVars, ioVars, noteVars, confVars, sigVars, srcVars
<1>25. CASE SourceInitial
  BY <1>25 DEF SourceInitial, Write, SourceUp, Up, loopVars, instVars, ioVars, noteVars, confVars, sigVars,
         srcVars
<1>26. CASE SourceChange
  BY <1>26 DEF SourceChange, Write, SourceUp, Up, Spend, loopVars, instVars, ioVars, noteVars, confVars,
         sigVars, srcVars
<1>27. ASSUME NEW line \in {"bad", "exists", "change"}, SourceMisbehaves(line)
      PROVE  KeysFired'
  BY <1>27 DEF SourceMisbehaves, Write, SourceUp, Up, Spend, loopVars, instVars, ioVars, noteVars, confVars,
         sigVars, srcVars
<1>28. CASE SourceError
  BY <1>28 DEF SourceError, SourceUp, Up, Spend, loopVars, instVars, ioVars, noteVars, confVars, sigVars,
         srcVars
<1>29. CASE SourceExits
  BY <1>29 DEF SourceExits, SourceUp, Up, Spend, NoSource, loopVars, instVars, ioVars, noteVars, confVars,
         sigVars, srcVars
<1>30. CASE OldSourceExits
  BY <1>30 DEF OldSourceExits, Up, loopVars, instVars, ioVars, noteVars, confVars, sigVars, srcVars
<1>31. CASE UNCHANGED vars
  BY <1>31 DEF vars, loopVars, instVars, ioVars, noteVars, confVars, sigVars, srcVars
<1> QED
  BY <1>1, <1>2, <1>3, <1>4, <1>5, <1>6, <1>7, <1>8, <1>9, <1>10, <1>11, <1>12, <1>13, <1>14, <1>15, <1>16,
     <1>17, <1>18, <1>19, <1>20, <1>21, <1>22, <1>23, <1>24, <1>25, <1>26, <1>27, <1>28, <1>29, <1>30, <1>31 DEF
     Next, MainProceeds, MainFails, Threads, Environment, Quiet

-----------------------------------------------------------------------------
(* The three invariants *)

\* A notification stays on its way: the pipe is emptied before the mask is
\* taken, and the mask is set before the pipe is written to.
LEMMA WakeupStep ==
  ASSUME TypeOK, WakeupInv, [Next]_vars
  PROVE  WakeupInv'
<1> USE DEF TypeOK, LoopType, InstanceType, IoType, OutsideType, WakeupInv, WakeupPending, Between, Running
<1>1. ASSUME NEW exists \in 0 .. MaxExists, StartInstance(exists)
      PROVE  WakeupInv'
  BY <1>1 DEF StartInstance, Spawned, loopVars, instVars, ioVars, noteVars, confVars, sigVars, srcVars
<1>2. CASE EnterLoop
  BY <1>2 DEF EnterLoop, CleanupChildProcesses, Throw, loopVars, instVars, ioVars, noteVars, confVars, sigVars,
         srcVars
<1>3. CASE EpollWait
  BY <1>3 DEF EpollWait, loopVars, instVars, ioVars, noteVars, confVars, sigVars, srcVars
<1>4. CASE HandleEvents
  BY <1>4 DEF HandleEvents, Fired, Throw, loopVars, instVars, ioVars, noteVars, confVars, sigVars, srcVars
<1>5. CASE HandleError
  BY <1>5 DEF HandleError, Fired, Throw, loopVars, instVars, ioVars, noteVars, confVars, sigVars, srcVars
<1>6. ASSUME NEW outcome \in TimerOutcomes, ProcessLine(outcome)
      PROVE  WakeupInv'
  BY <1>6 DEF ProcessLine, Refused, Accept, Throw, BundleFull, UpdateDisplay, CondDisplayUpdate,
         NotifyDrbdChanged, loopVars, instVars, ioVars, noteVars, confVars, sigVars, srcVars
<1>7. ASSUME NEW outcome \in TimerOutcomes, LinesDone(outcome)
      PROVE  WakeupInv'
  BY <1>7 DEF LinesDone, UpdateDisplay, CondDisplayUpdate, NotifyDrbdChanged, loopVars, instVars, ioVars,
         noteVars, confVars, sigVars, srcVars
<1>8. ASSUME NEW sig \in {"EXIT", "DEBUG"}, SignalExit(sig)
      PROVE  WakeupInv'
  BY <1>8 DEF SignalExit, GetSignal, Fired, Shutdown, loopVars, instVars, ioVars, noteVars, confVars, sigVars,
         srcVars
<1>9. CASE SignalWindowSize
  BY <1>9 DEF SignalWindowSize, GetSignal, Fired, NotifyDrbdChanged, loopVars, instVars, ioVars, noteVars,
         confVars, sigVars, srcVars
<1>10. CASE SignalChildProc
  BY <1>10 DEF SignalChildProc, GetSignal, Fired, CleanupChildProcesses, Throw, loopVars, instVars, ioVars,
         noteVars, confVars, sigVars, srcVars
<1>11. ASSUME NEW clock_ok \in BOOLEAN, SignalTimer(clock_ok)
      PROVE  WakeupInv'
  BY <1>11 DEF SignalTimer, GetSignal, Fired, NotifyDrbdChanged, loopVars, instVars, ioVars, noteVars, confVars,
         sigVars, srcVars
<1>12. ASSUME NEW effect \in KeyEffects, HandleStdin(effect)
      PROVE  WakeupInv'
  BY <1>12 DEF HandleStdin, Fired, Shutdown, loopVars, instVars, ioVars, noteVars, confVars, sigVars, srcVars
<1>13. CASE HandleWakeup
  BY <1>13 DEF HandleWakeup, Fired, loopVars, instVars, ioVars, noteVars, confVars, sigVars, srcVars
<1>14. CASE GetNotificationMask
  BY <1>14 DEF GetNotificationMask, ThrowBadAlloc, loopVars, instVars, ioVars, noteVars, confVars, sigVars,
         srcVars
<1>15. ASSUME NEW reaped \in BOOLEAN, Unwind(reaped)
      PROVE  WakeupInv'
  BY <1>15 DEF Unwind, InstanceGone, NoSource, loopVars, instVars, ioVars, noteVars, confVars, sigVars, srcVars
<1>16. CASE MonitorLoop
  BY <1>16 DEF MonitorLoop, FinAction, UnblockSignals, loopVars, instVars, ioVars, noteVars, confVars, sigVars,
         srcVars
<1>17. CASE DelayEnds
  BY <1>17 DEF DelayEnds, loopVars, instVars, ioVars, noteVars, confVars, sigVars, srcVars
<1>18. ASSUME NEW what \in {"CONFIG", "EVENTS_SOURCE", "EVENTS_IO", "bad_alloc"}, StartFails(what)
      PROVE  WakeupInv'
  BY <1>18 DEF StartFails, Spend, Spawned, Throw, NoSource, loopVars, instVars, ioVars, noteVars, confVars,
         sigVars, srcVars
<1>19. CASE NoMemory
  BY <1>19 DEF NoMemory, Spend, ThrowBadAlloc, loopVars, instVars, ioVars, noteVars, confVars, sigVars, srcVars
<1>20. ASSUME NEW note \in Notes, NotifySet(note)
      PROVE  WakeupInv'
  BY <1>20 DEF NotifySet, Spend, loopVars, instVars, ioVars, noteVars, confVars, sigVars, srcVars
<1>21. CASE NotifyWakeup
  BY <1>21 DEF NotifyWakeup, loopVars, instVars, ioVars, noteVars, confVars, sigVars, srcVars
<1>22. CASE TimerFires
  BY <1>22 DEF TimerFires, Up, loopVars, instVars, ioVars, noteVars, confVars, sigVars, srcVars
<1>23. ASSUME NEW sig \in Signals \ {"TIMER"}, SendSignal(sig)
      PROVE  WakeupInv'
  BY <1>23 DEF SendSignal, Up, Spend, loopVars, instVars, ioVars, noteVars, confVars, sigVars, srcVars
<1>24. CASE PressKey
  BY <1>24 DEF PressKey, Up, Spend, loopVars, instVars, ioVars, noteVars, confVars, sigVars, srcVars
<1>25. CASE SourceInitial
  BY <1>25 DEF SourceInitial, Write, SourceUp, Up, loopVars, instVars, ioVars, noteVars, confVars, sigVars,
         srcVars
<1>26. CASE SourceChange
  BY <1>26 DEF SourceChange, Write, SourceUp, Up, Spend, loopVars, instVars, ioVars, noteVars, confVars,
         sigVars, srcVars
<1>27. ASSUME NEW line \in {"bad", "exists", "change"}, SourceMisbehaves(line)
      PROVE  WakeupInv'
  BY <1>27 DEF SourceMisbehaves, Write, SourceUp, Up, Spend, loopVars, instVars, ioVars, noteVars, confVars,
         sigVars, srcVars
<1>28. CASE SourceError
  BY <1>28 DEF SourceError, SourceUp, Up, Spend, loopVars, instVars, ioVars, noteVars, confVars, sigVars,
         srcVars
<1>29. CASE SourceExits
  BY <1>29 DEF SourceExits, SourceUp, Up, Spend, NoSource, loopVars, instVars, ioVars, noteVars, confVars,
         sigVars, srcVars
<1>30. CASE OldSourceExits
  BY <1>30 DEF OldSourceExits, Up, loopVars, instVars, ioVars, noteVars, confVars, sigVars, srcVars
<1>31. CASE UNCHANGED vars
  BY <1>31 DEF vars, loopVars, instVars, ioVars, noteVars, confVars, sigVars, srcVars
<1> QED
  BY <1>1, <1>2, <1>3, <1>4, <1>5, <1>6, <1>7, <1>8, <1>9, <1>10, <1>11, <1>12, <1>13, <1>14, <1>15, <1>16,
     <1>17, <1>18, <1>19, <1>20, <1>21, <1>22, <1>23, <1>24, <1>25, <1>26, <1>27, <1>28, <1>29, <1>30, <1>31 DEF
     Next, MainProceeds, MainFails, Threads, Environment, Quiet

\* A change that the display has not been told of stays scheduled.
LEMMA TimerStep ==
  ASSUME TypeOK, TimerInv, [Next]_vars
  PROVE  TimerInv'
<1> USE DEF TypeOK, LoopType, InstanceType, IoType, OutsideType, TimerInv, Between, Running
<1>1. ASSUME NEW exists \in 0 .. MaxExists, StartInstance(exists)
      PROVE  TimerInv'
  BY <1>1 DEF StartInstance, Spawned, loopVars, instVars, ioVars, noteVars, confVars, sigVars, srcVars
<1>2. CASE EnterLoop
  BY <1>2 DEF EnterLoop, CleanupChildProcesses, Throw, loopVars, instVars, ioVars, noteVars, confVars, sigVars,
         srcVars
<1>3. CASE EpollWait
  BY <1>3 DEF EpollWait, loopVars, instVars, ioVars, noteVars, confVars, sigVars, srcVars
<1>4. CASE HandleEvents
  BY <1>4 DEF HandleEvents, Fired, Throw, loopVars, instVars, ioVars, noteVars, confVars, sigVars, srcVars
<1>5. CASE HandleError
  BY <1>5 DEF HandleError, Fired, Throw, loopVars, instVars, ioVars, noteVars, confVars, sigVars, srcVars
<1>6. ASSUME NEW outcome \in TimerOutcomes, ProcessLine(outcome)
      PROVE  TimerInv'
  BY <1>6 DEF ProcessLine, Refused, Accept, Throw, BundleFull, UpdateDisplay, CondDisplayUpdate,
         NotifyDrbdChanged, loopVars, instVars, ioVars, noteVars, confVars, sigVars, srcVars
<1>7. ASSUME NEW outcome \in TimerOutcomes, LinesDone(outcome)
      PROVE  TimerInv'
  BY <1>7 DEF LinesDone, UpdateDisplay, CondDisplayUpdate, NotifyDrbdChanged, loopVars, instVars, ioVars,
         noteVars, confVars, sigVars, srcVars
<1>8. ASSUME NEW sig \in {"EXIT", "DEBUG"}, SignalExit(sig)
      PROVE  TimerInv'
  BY <1>8 DEF SignalExit, GetSignal, Fired, Shutdown, loopVars, instVars, ioVars, noteVars, confVars, sigVars,
         srcVars
<1>9. CASE SignalWindowSize
  BY <1>9 DEF SignalWindowSize, GetSignal, Fired, NotifyDrbdChanged, loopVars, instVars, ioVars, noteVars,
         confVars, sigVars, srcVars
<1>10. CASE SignalChildProc
  BY <1>10 DEF SignalChildProc, GetSignal, Fired, CleanupChildProcesses, Throw, loopVars, instVars, ioVars,
         noteVars, confVars, sigVars, srcVars
<1>11. ASSUME NEW clock_ok \in BOOLEAN, SignalTimer(clock_ok)
      PROVE  TimerInv'
  BY <1>11 DEF SignalTimer, GetSignal, Fired, NotifyDrbdChanged, loopVars, instVars, ioVars, noteVars, confVars,
         sigVars, srcVars
<1>12. ASSUME NEW effect \in KeyEffects, HandleStdin(effect)
      PROVE  TimerInv'
  BY <1>12 DEF HandleStdin, Fired, Shutdown, loopVars, instVars, ioVars, noteVars, confVars, sigVars, srcVars
<1>13. CASE HandleWakeup
  BY <1>13 DEF HandleWakeup, Fired, loopVars, instVars, ioVars, noteVars, confVars, sigVars, srcVars
<1>14. CASE GetNotificationMask
  BY <1>14 DEF GetNotificationMask, ThrowBadAlloc, loopVars, instVars, ioVars, noteVars, confVars, sigVars,
         srcVars
<1>15. ASSUME NEW reaped \in BOOLEAN, Unwind(reaped)
      PROVE  TimerInv'
  BY <1>15 DEF Unwind, InstanceGone, NoSource, loopVars, instVars, ioVars, noteVars, confVars, sigVars, srcVars
<1>16. CASE MonitorLoop
  BY <1>16 DEF MonitorLoop, FinAction, UnblockSignals, loopVars, instVars, ioVars, noteVars, confVars, sigVars,
         srcVars
<1>17. CASE DelayEnds
  BY <1>17 DEF DelayEnds, loopVars, instVars, ioVars, noteVars, confVars, sigVars, srcVars
<1>18. ASSUME NEW what \in {"CONFIG", "EVENTS_SOURCE", "EVENTS_IO", "bad_alloc"}, StartFails(what)
      PROVE  TimerInv'
  BY <1>18 DEF StartFails, Spend, Spawned, Throw, NoSource, loopVars, instVars, ioVars, noteVars, confVars,
         sigVars, srcVars
<1>19. CASE NoMemory
  BY <1>19 DEF NoMemory, Spend, ThrowBadAlloc, loopVars, instVars, ioVars, noteVars, confVars, sigVars, srcVars
<1>20. ASSUME NEW note \in Notes, NotifySet(note)
      PROVE  TimerInv'
  BY <1>20 DEF NotifySet, Spend, loopVars, instVars, ioVars, noteVars, confVars, sigVars, srcVars
<1>21. CASE NotifyWakeup
  BY <1>21 DEF NotifyWakeup, loopVars, instVars, ioVars, noteVars, confVars, sigVars, srcVars
<1>22. CASE TimerFires
  BY <1>22 DEF TimerFires, Up, loopVars, instVars, ioVars, noteVars, confVars, sigVars, srcVars
<1>23. ASSUME NEW sig \in Signals \ {"TIMER"}, SendSignal(sig)
      PROVE  TimerInv'
  BY <1>23 DEF SendSignal, Up, Spend, loopVars, instVars, ioVars, noteVars, confVars, sigVars, srcVars
<1>24. CASE PressKey
  BY <1>24 DEF PressKey, Up, Spend, loopVars, instVars, ioVars, noteVars, confVars, sigVars, srcVars
<1>25. CASE SourceInitial
  BY <1>25 DEF SourceInitial, Write, SourceUp, Up, loopVars, instVars, ioVars, noteVars, confVars, sigVars,
         srcVars
<1>26. CASE SourceChange
  BY <1>26 DEF SourceChange, Write, SourceUp, Up, Spend, loopVars, instVars, ioVars, noteVars, confVars,
         sigVars, srcVars
<1>27. ASSUME NEW line \in {"bad", "exists", "change"}, SourceMisbehaves(line)
      PROVE  TimerInv'
  BY <1>27 DEF SourceMisbehaves, Write, SourceUp, Up, Spend, loopVars, instVars, ioVars, noteVars, confVars,
         sigVars, srcVars
<1>28. CASE SourceError
  BY <1>28 DEF SourceError, SourceUp, Up, Spend, loopVars, instVars, ioVars, noteVars, confVars, sigVars,
         srcVars
<1>29. CASE SourceExits
  BY <1>29 DEF SourceExits, SourceUp, Up, Spend, NoSource, loopVars, instVars, ioVars, noteVars, confVars,
         sigVars, srcVars
<1>30. CASE OldSourceExits
  BY <1>30 DEF OldSourceExits, Up, loopVars, instVars, ioVars, noteVars, confVars, sigVars, srcVars
<1>31. CASE UNCHANGED vars
  BY <1>31 DEF vars, loopVars, instVars, ioVars, noteVars, confVars, sigVars, srcVars
<1> QED
  BY <1>1, <1>2, <1>3, <1>4, <1>5, <1>6, <1>7, <1>8, <1>9, <1>10, <1>11, <1>12, <1>13, <1>14, <1>15, <1>16,
     <1>17, <1>18, <1>19, <1>20, <1>21, <1>22, <1>23, <1>24, <1>25, <1>26, <1>27, <1>28, <1>29, <1>30, <1>31 DEF
     Next, MainProceeds, MainFails, Threads, Environment, Quiet

\* The signals are blocked and unblocked where the program gets to and leaves
\* the loop.
LEMMA SignalStep ==
  ASSUME TypeOK, SignalInv, [Next]_vars
  PROVE  SignalInv'
<1> USE DEF TypeOK, LoopType, InstanceType, IoType, OutsideType, SignalInv, Running
<1>1. ASSUME NEW exists \in 0 .. MaxExists, StartInstance(exists)
      PROVE  SignalInv'
  BY <1>1 DEF StartInstance, Spawned, loopVars, instVars, ioVars, noteVars, confVars, sigVars, srcVars
<1>2. CASE EnterLoop
  BY <1>2 DEF EnterLoop, CleanupChildProcesses, Throw, loopVars, instVars, ioVars, noteVars, confVars, sigVars,
         srcVars
<1>3. CASE EpollWait
  BY <1>3 DEF EpollWait, loopVars, instVars, ioVars, noteVars, confVars, sigVars, srcVars
<1>4. CASE HandleEvents
  BY <1>4 DEF HandleEvents, Fired, Throw, loopVars, instVars, ioVars, noteVars, confVars, sigVars, srcVars
<1>5. CASE HandleError
  BY <1>5 DEF HandleError, Fired, Throw, loopVars, instVars, ioVars, noteVars, confVars, sigVars, srcVars
<1>6. ASSUME NEW outcome \in TimerOutcomes, ProcessLine(outcome)
      PROVE  SignalInv'
  BY <1>6 DEF ProcessLine, Refused, Accept, Throw, BundleFull, UpdateDisplay, CondDisplayUpdate,
         NotifyDrbdChanged, loopVars, instVars, ioVars, noteVars, confVars, sigVars, srcVars
<1>7. ASSUME NEW outcome \in TimerOutcomes, LinesDone(outcome)
      PROVE  SignalInv'
  BY <1>7 DEF LinesDone, UpdateDisplay, CondDisplayUpdate, NotifyDrbdChanged, loopVars, instVars, ioVars,
         noteVars, confVars, sigVars, srcVars
<1>8. ASSUME NEW sig \in {"EXIT", "DEBUG"}, SignalExit(sig)
      PROVE  SignalInv'
  BY <1>8 DEF SignalExit, GetSignal, Fired, Shutdown, loopVars, instVars, ioVars, noteVars, confVars, sigVars,
         srcVars
<1>9. CASE SignalWindowSize
  BY <1>9 DEF SignalWindowSize, GetSignal, Fired, NotifyDrbdChanged, loopVars, instVars, ioVars, noteVars,
         confVars, sigVars, srcVars
<1>10. CASE SignalChildProc
  BY <1>10 DEF SignalChildProc, GetSignal, Fired, CleanupChildProcesses, Throw, loopVars, instVars, ioVars,
         noteVars, confVars, sigVars, srcVars
<1>11. ASSUME NEW clock_ok \in BOOLEAN, SignalTimer(clock_ok)
      PROVE  SignalInv'
  BY <1>11 DEF SignalTimer, GetSignal, Fired, NotifyDrbdChanged, loopVars, instVars, ioVars, noteVars, confVars,
         sigVars, srcVars
<1>12. ASSUME NEW effect \in KeyEffects, HandleStdin(effect)
      PROVE  SignalInv'
  BY <1>12 DEF HandleStdin, Fired, Shutdown, loopVars, instVars, ioVars, noteVars, confVars, sigVars, srcVars
<1>13. CASE HandleWakeup
  BY <1>13 DEF HandleWakeup, Fired, loopVars, instVars, ioVars, noteVars, confVars, sigVars, srcVars
<1>14. CASE GetNotificationMask
  BY <1>14 DEF GetNotificationMask, ThrowBadAlloc, loopVars, instVars, ioVars, noteVars, confVars, sigVars,
         srcVars
<1>15. ASSUME NEW reaped \in BOOLEAN, Unwind(reaped)
      PROVE  SignalInv'
  BY <1>15 DEF Unwind, InstanceGone, NoSource, loopVars, instVars, ioVars, noteVars, confVars, sigVars, srcVars
<1>16. CASE MonitorLoop
  BY <1>16 DEF MonitorLoop, FinAction, UnblockSignals, loopVars, instVars, ioVars, noteVars, confVars, sigVars,
         srcVars
<1>17. CASE DelayEnds
  BY <1>17 DEF DelayEnds, loopVars, instVars, ioVars, noteVars, confVars, sigVars, srcVars
<1>18. ASSUME NEW what \in {"CONFIG", "EVENTS_SOURCE", "EVENTS_IO", "bad_alloc"}, StartFails(what)
      PROVE  SignalInv'
  BY <1>18 DEF StartFails, Spend, Spawned, Throw, NoSource, loopVars, instVars, ioVars, noteVars, confVars,
         sigVars, srcVars
<1>19. CASE NoMemory
  BY <1>19 DEF NoMemory, Spend, ThrowBadAlloc, loopVars, instVars, ioVars, noteVars, confVars, sigVars, srcVars
<1>20. ASSUME NEW note \in Notes, NotifySet(note)
      PROVE  SignalInv'
  BY <1>20 DEF NotifySet, Spend, loopVars, instVars, ioVars, noteVars, confVars, sigVars, srcVars
<1>21. CASE NotifyWakeup
  BY <1>21 DEF NotifyWakeup, loopVars, instVars, ioVars, noteVars, confVars, sigVars, srcVars
<1>22. CASE TimerFires
  BY <1>22 DEF TimerFires, Up, loopVars, instVars, ioVars, noteVars, confVars, sigVars, srcVars
<1>23. ASSUME NEW sig \in Signals \ {"TIMER"}, SendSignal(sig)
      PROVE  SignalInv'
  BY <1>23 DEF SendSignal, Up, Spend, loopVars, instVars, ioVars, noteVars, confVars, sigVars, srcVars
<1>24. CASE PressKey
  BY <1>24 DEF PressKey, Up, Spend, loopVars, instVars, ioVars, noteVars, confVars, sigVars, srcVars
<1>25. CASE SourceInitial
  BY <1>25 DEF SourceInitial, Write, SourceUp, Up, loopVars, instVars, ioVars, noteVars, confVars, sigVars,
         srcVars
<1>26. CASE SourceChange
  BY <1>26 DEF SourceChange, Write, SourceUp, Up, Spend, loopVars, instVars, ioVars, noteVars, confVars,
         sigVars, srcVars
<1>27. ASSUME NEW line \in {"bad", "exists", "change"}, SourceMisbehaves(line)
      PROVE  SignalInv'
  BY <1>27 DEF SourceMisbehaves, Write, SourceUp, Up, Spend, loopVars, instVars, ioVars, noteVars, confVars,
         sigVars, srcVars
<1>28. CASE SourceError
  BY <1>28 DEF SourceError, SourceUp, Up, Spend, loopVars, instVars, ioVars, noteVars, confVars, sigVars,
         srcVars
<1>29. CASE SourceExits
  BY <1>29 DEF SourceExits, SourceUp, Up, Spend, NoSource, loopVars, instVars, ioVars, noteVars, confVars,
         sigVars, srcVars
<1>30. CASE OldSourceExits
  BY <1>30 DEF OldSourceExits, Up, loopVars, instVars, ioVars, noteVars, confVars, sigVars, srcVars
<1>31. CASE UNCHANGED vars
  BY <1>31 DEF vars, loopVars, instVars, ioVars, noteVars, confVars, sigVars, srcVars
<1> QED
  BY <1>1, <1>2, <1>3, <1>4, <1>5, <1>6, <1>7, <1>8, <1>9, <1>10, <1>11, <1>12, <1>13, <1>14, <1>15, <1>16,
     <1>17, <1>18, <1>19, <1>20, <1>21, <1>22, <1>23, <1>24, <1>25, <1>26, <1>27, <1>28, <1>29, <1>30, <1>31 DEF
     Next, MainProceeds, MainFails, Threads, Environment, Quiet

\* The inductive invariant holds in all reachable states.
THEOREM Invariance == Spec => []IInv
<1>1. Init => IInv
  <2> SUFFICES ASSUME Init PROVE IInv
    OBVIOUS
  <2>1. LoopType
    BY DEF Init, LoopType, Pcs, Running, FinishActions, FailInfos
  <2>2. InstanceType
    BY CoreAssumption, Empty DEF Init, InstanceType
  <2>3. IoType
    BY Empty DEF Init, IoType
  <2>4. OutsideType
    <3>1. left = [inputs |-> MaxInputs, faults |-> MaxFaults] /\ MaxInputs \in Nat /\ MaxFaults \in Nat
      BY CoreAssumption DEF Init
    <3>2. left \in [{"inputs", "faults"} -> Nat]
      BY <3>1
    <3> QED
      BY <3>2, SourceRecords, Empty DEF Init, OutsideType
  <2>5. KeysFired /\ WakeupInv /\ TimerInv /\ SignalInv
    BY DEF Init, KeysFired, WakeupInv, WakeupPending, TimerInv, SignalInv, Between, Running
  <2> QED
    BY <2>1, <2>2, <2>3, <2>4, <2>5 DEF IInv, TypeOK
<1>2. IInv /\ [Next]_vars => IInv'
  <2> SUFFICES ASSUME IInv, [Next]_vars PROVE IInv'
    OBVIOUS
  <2>1. TypeOK /\ KeysFired /\ WakeupInv /\ TimerInv /\ SignalInv
    BY DEF IInv
  <2>2. TypeOK'
    BY <2>1, LoopTypeStep, InstanceTypeStep, IoTypeStep, OutsideTypeStep DEF TypeOK
  <2> QED
    BY <2>1, <2>2, KeysStep, WakeupStep, TimerStep, SignalStep DEF IInv
<1> QED
  BY <1>1, <1>2, PTL DEF Spec

\* The variables of the main loop keep their types; update_counter does not pass
\* MAX_EVENT_BUNDLE, and no key is read that has not been pressed.
THEOREM TypeCorrect == Spec => []TypeOK
<1>1. IInv => TypeOK
  BY DEF IInv
<1> QED
  BY <1>1, Invariance, PTL

\* Whatever a thread of the task queue notifies the main loop of, and at whatever
\* point of wait_event() it does, the main loop will be woken for it.
THEOREM NotificationsArrive == Spec => []WakeupPending
<1>1. IInv => WakeupPending
  BY DEF IInv, WakeupInv
<1> QED
  BY <1>1, Invariance, PTL

\* While the main loop waits, a change that the display has not been told of has a
\* timer, running or expired, to see to it: also when the timer fails, the clock
\* cannot be read, the interval is changed or the instance is replaced.
THEOREM DisplayUpdateScheduled == Spec => []UpdateScheduled
<1>1. IInv => UpdateScheduled
  BY DEF IInv, TimerInv, UpdateScheduled
<1> QED
  BY <1>1, Invariance, PTL

\* The main loop runs with the signals that end the program blocked, and
\* monitor_loop() sleeps with them unblocked and none pending, however the
\* instance has ended.
THEOREM ExitSignalsReachTheLoop == Spec => []ExitSignalsRouted
<1>1. IInv => ExitSignalsRouted
  BY DEF IInv, SignalInv, ExitSignalsRouted
<1> QED
  BY <1>1, Invariance, PTL
=============================================================================
