---------------------------- MODULE WaitForFamily ----------------------------
(***************************************************************************)
(* drbdsetup wait-connect-* and wait-sync-*: generic_events_cmd(),         *)
(* generic_recv(), choose_timeout() and wait_for_family() of               *)
(* user/v9/drbdsetup.c, on the netlink socket of user/shared/libgenl.c.    *)
(*                                                                         *)
(* drbdsetup joins the group of the notifications, lists the peer devices  *)
(* of the resource, asks for the timeout of each one, and requests the     *)
(* initial state.  From then on it follows the states of the peer devices, *)
(* while the kernel module (external) changes them at any time.            *)
(***************************************************************************)
EXTENDS Integers, Sequences, FiniteSets, SequencesExt

CONSTANTS
  DeviceList,     \* <<resource, connection, volume>> of resource 1, in the order of the kernel module
  ConnectionList, \* <<resource, connection, NoVolume>>, in that order
  OtherDevices,   \* peer devices of other resources
  Timeouts,       \* [wfc, degr, outdated]: options, in seconds; 0: for ever
  Begins,         \* bound: [cmd, repl, standalone, type]: the commands, and states of the kernel module
  UnitsPerMs, MsPerSecond,
  MaxWait,        \* bound on the time that is counted, at least the longest timeout
  MaxChanges,     \* bound on what happens meanwhile
  RcvBuf          \* size of the socket's receive buffer, in messages

NoVolume == 0
Connection(pd) == <<pd[1], pd[2], NoVolume>>
PeerDevices == ToSet(DeviceList)
Connections == {Connection(pd) : pd \in PeerDevices}

\* enum drbd_repl_state, as far as it matters
Gone == -1
Off == 0
L_ESTABLISHED == 1
Resync == 2
States == {Off, L_ESTABLISHED, Resync}

ASSUME WaitAssumption ==
  /\ DeviceList \in Seq(Nat \X Nat \X Nat) /\ \A pd \in PeerDevices : pd[1] = 1
  /\ ConnectionList \in Seq(Nat \X Nat \X Nat) /\ ToSet(ConnectionList) = Connections
  /\ \A pd \in OtherDevices : pd[1] # 1
  /\ \A b \in Begins : b.cmd \in [kind : {"resource", "connection", "volume"}, pd : PeerDevices,
                                  connect : BOOLEAN, after_sb : BOOLEAN]
                   /\ b.repl \in [PeerDevices -> States \union {Gone}]
                   /\ b.standalone \subseteq Connections
  /\ \A t \in Timeouts : {t.wfc, t.degr, t.outdated} \subseteq Nat
  /\ UnitsPerMs \in Nat \ {0} /\ MsPerSecond \in Nat \ {0} /\ RcvBuf \in Nat \ {0}
  /\ MaxChanges \in Nat
  /\ MaxWait \in Nat /\ \A t \in Timeouts : \A s \in {t.wfc, t.degr, t.outdated} :
                         s * MsPerSecond * UnitsPerMs <= MaxWait

VARIABLES
  repl_state,     \* kernel: of each peer device; Gone: it does not exist
  standalone,     \* kernel: connections that are StandAlone
  sock, overrun,  \* the receive queue; it has dropped a message
  dump,           \* what the kernel has still to send of a dump
  hup,            \* standard output has been closed
  changes,
  timeout_type,   \* kernel: "default", "degraded" or "outdated", of each peer device
  cmd, ctx,       \* [kind, pd, connect, after_sb]: the command; the timeouts of its options
  pc,             \* "start", "list", "choose", "recv", "end", "undefined"
  peer_devices,   \* the list
  clock, before,  \* in units, from a full second on; the start of this round of generic_recv()
  rv,
  counted, was_up, was_gone, was_standalone, quiet  \* history

kernel_vars  == <<repl_state, standalone, changes>>
socket_vars  == <<sock, overrun, dump>>
command_vars == <<cmd, ctx, timeout_type>>
time_vars    == <<clock, before, counted>>
history_vars == <<was_up, was_gone, was_standalone, quiet>>
vars == <<kernel_vars, socket_vars, hup, command_vars, pc, peer_devices, time_vars, rv, history_vars>>

Infinite == -1

\* messages
PdMsg(type, pd, rs) == [kind |-> "peer_device", type |-> type, pd |-> pd, state |-> rs]
ConnMsg(type, c, cstate) == [kind |-> "connection", type |-> type, pd |-> c, state |-> cstate]
Unloaded == [kind |-> "unload"]
NLMSG_DONE == [kind |-> "done"]

\* parts of a dump that are not messages yet
Listed(pd) == [kind |-> "listed", pd |-> pd]
Nothing == [kind |-> "nothing"]

Existing == {pd \in PeerDevices : repl_state[pd] # Gone}
Others(c) == {pd \in Existing : Connection(pd) = c}

-----------------------------------------------------------------------------
(* The options *)

\* What choose_timeout() makes of the options before it asks.
Normalized(t) ==
  LET degr == IF 0 < t.wfc /\ (t.wfc < t.degr \/ t.degr = 0) THEN t.wfc ELSE t.degr
      outdated == IF 0 < degr /\ (degr < t.outdated \/ t.outdated = 0) THEN t.wfc ELSE t.outdated
  IN [wfc |-> t.wfc, degr |-> degr, outdated |-> outdated]

\* of a peer device, in ms
Timeout(t, type) ==
  LET s == CASE type = "degraded" -> Normalized(t).degr
             [] type = "outdated" -> Normalized(t).outdated
             [] OTHER -> Normalized(t).wfc
  IN IF s = 0 THEN Infinite ELSE s * MsPerSecond

-----------------------------------------------------------------------------
(* The kernel module (external) *)

\* The notifications reach the socket, unless its buffer is full.
Notify(msgs) ==
  LET fits == IF Len(msgs) <= RcvBuf - Len(sock) THEN Len(msgs) ELSE RcvBuf - Len(sock)
  IN /\ sock' = sock \o SubSeq(msgs, 1, fits)
     /\ overrun' = (overrun \/ fits < Len(msgs))

\* What happens on the kernel's side while drbdsetup runs.
Happens ==
  /\ pc \notin {"end", "undefined"}
  /\ changes < MaxChanges /\ changes' = changes + 1
  /\ quiet' = (quiet /\ pc = "recv" /\ dump = <<>>)
  /\ UNCHANGED <<dump, command_vars, pc, peer_devices, time_vars, rv>>

Ready(rs) == rs = L_ESTABLISHED \/ (cmd.connect /\ rs > L_ESTABLISHED)

KernelChange(pd, rs) ==
  /\ repl_state[pd] \notin {Gone, rs} /\ (rs # Off => Connection(pd) \notin standalone)
  /\ repl_state' = [repl_state EXCEPT ![pd] = rs]
  /\ was_up' = IF Ready(rs) THEN was_up \union {pd} ELSE was_up
  /\ Notify(<<PdMsg("change", pd, rs)>>)
  /\ Happens /\ UNCHANGED <<hup, standalone, was_gone, was_standalone>>

KernelStandAlone(c) ==
  /\ c \notin standalone /\ Others(c) # {} /\ \A pd \in Others(c) : repl_state[pd] = Off
  /\ standalone' = standalone \union {c}
  /\ was_standalone' = was_standalone \union {c}
  /\ Notify(<<ConnMsg("change", c, "StandAlone")>>)
  /\ Happens /\ UNCHANGED <<hup, repl_state, was_up, was_gone>>

KernelConnects(c) ==
  /\ c \in standalone
  /\ standalone' = standalone \ {c}
  /\ Notify(<<ConnMsg("change", c, "Unconnected")>>)
  /\ Happens /\ UNCHANGED <<hup, repl_state, was_up, was_gone, was_standalone>>

\* a new volume; the first one of a peer comes with its connection
KernelCreate(pd) ==
  /\ repl_state[pd] = Gone
  /\ repl_state' = [repl_state EXCEPT ![pd] = Off]
  /\ LET c == Connection(pd)
         new == Others(c) = {}
     IN /\ standalone' = IF new THEN standalone \union {c} ELSE standalone
        /\ was_standalone' = IF new THEN was_standalone \union {c} ELSE was_standalone
        /\ Notify((IF new THEN <<ConnMsg("create", c, "StandAlone")>> ELSE <<>>) \o <<PdMsg("create", pd, Off)>>)
  /\ Happens /\ UNCHANGED <<hup, was_up, was_gone>>

KernelDestroy(pd) ==
  /\ repl_state[pd] # Gone
  /\ repl_state' = [repl_state EXCEPT ![pd] = Gone]
  /\ was_gone' = was_gone \union {pd}
  /\ LET c == Connection(pd)
         last == Others(c) = {pd}
     IN /\ standalone' = IF last THEN standalone \ {c} ELSE standalone
        /\ Notify(<<PdMsg("destroy", pd, Off)>> \o
                  (IF last THEN <<ConnMsg("destroy", c, "StandAlone")>> ELSE <<>>))
  /\ Happens /\ UNCHANGED <<hup, was_up, was_standalone>>

OtherResource(pd) ==
  /\ Notify(<<PdMsg("change", pd, Off)>>)
  /\ Happens /\ UNCHANGED <<hup, repl_state, standalone, was_up, was_gone, was_standalone>>

ModuleUnload ==
  /\ Notify(<<Unloaded>>)
  /\ Happens /\ UNCHANGED <<hup, repl_state, standalone, was_up, was_gone, was_standalone>>

\* The kernel adds the next part of a dump when drbdsetup reads, while at most
\* half of the buffer is used.  A list shows the state at that time, the
\* initial state is the one that was recorded when it was requested.
Skipped(part) == part = Nothing \/ (part.kind = "listed" /\ repl_state[part.pd] = Gone)
Sent(part) == IF part.kind = "listed" THEN PdMsg("listed", part.pd, repl_state[part.pd]) ELSE part

Refill(queue, parts) ==
  \/ /\ parts # <<>> /\ 2 * Len(queue) < RcvBuf
     /\ \E i \in DOMAIN parts :
          /\ ~ Skipped(parts[i]) /\ \A j \in 1 .. i - 1 : Skipped(parts[j])
          /\ sock' = Append(queue, Sent(parts[i]))
          /\ dump' = SubSeq(parts, i + 1, Len(parts))
  \/ ~ (parts # <<>> /\ 2 * Len(queue) < RcvBuf) /\ sock' = queue /\ dump' = parts

PeerDeviceList == [i \in 1 .. Len(DeviceList) |-> Listed(DeviceList[i])] \o <<NLMSG_DONE>>

\* DRBD_ADM_GET_INITIAL_STATE
InitialState ==
  LET conn(c) == IF Others(c) = {} THEN Nothing
                 ELSE ConnMsg("exists", c, IF c \in standalone THEN "StandAlone" ELSE "Unconnected")
      dev(pd) == IF repl_state[pd] = Gone THEN Nothing ELSE PdMsg("exists", pd, repl_state[pd])
  IN [i \in 1 .. Len(ConnectionList) |-> conn(ConnectionList[i])]
     \o [i \in 1 .. Len(DeviceList) |-> dev(DeviceList[i])] \o <<NLMSG_DONE>>

Hangup ==
  /\ ~ hup /\ hup' = TRUE
  /\ Happens /\ UNCHANGED <<repl_state, standalone, sock, overrun, was_up, was_gone, was_standalone>>

-----------------------------------------------------------------------------
(* Lists and timeouts *)

Entry(m, ms) == [pd |-> m.pd, rs |-> IF m.kind = "peer_device" THEN m.state ELSE Off,
                 timeout_ms |-> ms, granted |-> ms]

remember_peer_device(list, m) == Append(list, Entry(m, 0))

\* Mutant: an entry whose timeout has expired is taken for the shortest one.
ExpiredIsShortest(list) ==
  LET ts == {list[i].timeout_ms : i \in DOMAIN list} \ {Infinite}
  IN IF ts = {} THEN Infinite ELSE CHOOSE t \in ts : \A u \in ts : t <= u

shortest_timeout(list) ==
  LET ts == {t \in {list[i].timeout_ms : i \in DOMAIN list} : t > 0}
  IN IF ts = {} THEN Infinite ELSE CHOOSE t \in ts : \A u \in ts : t <= u

update_timeouts(list, elapsed) ==
  [i \in DOMAIN list |->
     IF list[i].timeout_ms = Infinite THEN list[i]
     ELSE [list[i] EXCEPT !.timeout_ms = IF @ - elapsed < 0 THEN 0 ELSE @ - elapsed]]

\* Mutant: the end of the wait is not looked for.
NeverExpired(list) == FALSE

all_expired(list) == \A i \in DOMAIN list : list[i].timeout_ms = 0

\* the difference of two results of gettimeofday() in ms; a division of C
\* truncates towards zero
UnitsPerSecond == UnitsPerMs * MsPerSecond
Truncated(x) == IF x >= 0 THEN x \div UnitsPerMs ELSE - ((- x) \div UnitsPerMs)

elapsed_ms(from, to) ==
  (to \div UnitsPerSecond - from \div UnitsPerSecond) * MsPerSecond
  + Truncated((to % UnitsPerSecond) - (from % UnitsPerSecond))

-----------------------------------------------------------------------------
(* wait_for_family() *)

\* The messages that generic_recv() hands on.  It compares the volume of a
\* connection's message, which has none, with a variable that is not
\* initialized: such a message may be handed on or not.
Concerned(m) ==
  /\ m.pd[1] = 1
  /\ cmd.kind \in {"connection", "volume"} => m.pd[2] = cmd.pd[2]
  /\ cmd.kind = "volume" /\ m.kind = "peer_device" => m.pd[3] = cmd.pd[3]

VolumeUninitialized(m) == cmd.kind = "volume" /\ m.kind = "connection"

\* Mutant: a wait for a connection counts the other ones too.
EveryConnection(pd) == cmd.kind = "volume" => pd = cmd.pd

\* the entries that the command is about
Targeted(pd) ==
  /\ cmd.kind = "volume" => pd = cmd.pd
  /\ cmd.kind = "connection" => pd[2] = cmd.pd[2]

\* Mutant: wait-sync is content with a resync.
ResyncIsDone(e) == e.rs >= L_ESTABLISHED \/ e.timeout_ms = 0

Done(e) == Ready(e.rs) \/ e.timeout_ms = 0

peer_devices_remove(list, pd) ==
  LET found == {i \in DOMAIN list : list[i].pd = pd}
  IN IF found = {} THEN list ELSE RemoveAt(list, CHOOSE i \in found : \A j \in found : i <= j)

\* The list after a message about a peer device.
Followed(list, m) ==
  LET l == CASE m.type = "destroy" -> peer_devices_remove(list, m.pd)
             [] m.type = "create" /\ list # <<>> -> remember_peer_device(list, m)
             [] OTHER -> list
  IN [i \in DOMAIN l |-> IF l[i].pd = m.pd THEN [l[i] EXCEPT !.rs = m.state] ELSE l[i]]

wait_for_family(list, m) ==
  IF m.kind = "connection"
  THEN m.type \notin {"create", "destroy"} /\ m.state = "StandAlone" /\ ~ cmd.after_sb
  ELSE \A i \in DOMAIN Followed(list, m) :
         Targeted(Followed(list, m)[i].pd) => Done(Followed(list, m)[i])

\* peer_devices_remove() frees the first entry, and only a copy of the
\* pointer to it is changed: what happens from then on is undefined.
FreesHead(list, m) ==
  m.kind = "peer_device" /\ m.type = "destroy" /\ list[1].pd = m.pd

-----------------------------------------------------------------------------
(* generic_events_cmd(), generic_recv() *)

Exit(code) == pc' = "end" /\ rv' = code

external_vars == <<kernel_vars, hup, command_vars, history_vars>>

\* the group has been joined; the request for the list
list_peer_devices ==
  /\ pc = "start" /\ pc' = "list"
  /\ Refill(sock, PeerDeviceList)
  /\ UNCHANGED <<external_vars, overrun, peer_devices, time_vars, rv>>

\* Whatever arrives is taken for a peer device.
remember ==
  /\ pc = "list" /\ sock # <<>> /\ ~ overrun /\ ~ hup
  /\ Head(sock) \notin {Unloaded, NLMSG_DONE}
  /\ peer_devices' = remember_peer_device(peer_devices, Head(sock))
  /\ Refill(Tail(sock), dump)
  /\ UNCHANGED <<external_vars, overrun, pc, time_vars, rv>>

\* Without peer devices, and after an error, there is nothing to wait for.
\* A hangup of standard output is no error here: the list is taken as it is.
list_complete ==
  /\ pc = "list" /\ sock # <<>>
  /\ \/ /\ ~ hup /\ (overrun \/ Head(sock) = Unloaded)
        /\ Exit(0) /\ peer_devices' = <<>>
        /\ Refill(Tail(sock), dump)
     \/ /\ hup \/ (~ overrun /\ Head(sock) = NLMSG_DONE)
        /\ IF peer_devices = <<>> THEN Exit(0) ELSE pc' = "choose" /\ UNCHANGED rv
        /\ IF hup THEN UNCHANGED <<sock, dump>> ELSE Refill(Tail(sock), dump)
        /\ UNCHANGED peer_devices
  /\ UNCHANGED <<external_vars, overrun, time_vars>>

\* The reply to the request is at the end of the queue, and the first message
\* of the queue is read.
choose_timeout(i) ==
  /\ pc = "choose"
  /\ peer_devices[i].granted = 0 /\ \A j \in 1 .. i - 1 : peer_devices[j].granted # 0
  /\ LET pd == peer_devices[i].pd
         known == sock = <<>> /\ ~ overrun /\ pd \in Existing \union OtherDevices
     IN \/ /\ known
           /\ LET ms == Timeout(ctx, timeout_type[pd])
              IN peer_devices' = [peer_devices EXCEPT ![i] = [@ EXCEPT !.timeout_ms = ms, !.granted = ms]]
           /\ UNCHANGED <<pc, rv>>
        \/ ~ known /\ Exit(20) /\ UNCHANGED peer_devices
  /\ UNCHANGED <<external_vars, socket_vars, time_vars>>

\* generic_get(): the request for the initial state
request_state ==
  /\ pc = "choose" /\ \A i \in DOMAIN peer_devices : peer_devices[i].granted # 0
  /\ pc' = "recv" /\ Refill(sock, InitialState)
  /\ UNCHANGED <<external_vars, overrun, peer_devices, time_vars, rv>>

\* for the history; what is longer than all timeouts is not told apart
Capped(t) == IF t > MaxWait THEN MaxWait ELSE t

\* gettimeofday() at the start of the next round
next_round == clock' = clock % UnitsPerSecond /\ before' = clock % UnitsPerSecond

\* poll_hup(): time passes until the timeout or a message
Polling == pc = "recv" /\ sock = <<>> /\ ~ hup /\ shortest_timeout(peer_devices) # Infinite
Deadline == before + shortest_timeout(peer_devices) * UnitsPerMs

Tick ==
  /\ Polling /\ clock < Deadline
  /\ clock' = clock + 1
  /\ counted' = Capped(counted + 1)
  /\ UNCHANGED <<external_vars, socket_vars, pc, peer_devices, before, rv>>

poll_timeout ==
  /\ Polling /\ clock >= Deadline
  /\ Exit(5)
  /\ UNCHANGED <<external_vars, socket_vars, peer_devices, time_vars>>

poll_error ==
  /\ pc = "recv" /\ hup /\ Exit(0)
  /\ UNCHANGED <<external_vars, socket_vars, peer_devices, time_vars>>

\* genl_recv_msgs(): the buffer has been too small
recv_error ==
  /\ pc = "recv" /\ ~ hup /\ sock # <<>> /\ overrun
  /\ Exit(20)
  /\ UNCHANGED <<external_vars, socket_vars, peer_devices, time_vars>>

recv_done ==
  /\ pc = "recv" /\ ~ hup /\ sock # <<>> /\ ~ overrun /\ Head(sock) = NLMSG_DONE
  /\ Refill(Tail(sock), dump)
  /\ next_round
  /\ UNCHANGED <<external_vars, overrun, pc, rv, peer_devices, counted>>

\* the timeouts are counted down, if there are any
CountedDown(list, now) ==
  IF shortest_timeout(list) = Infinite THEN list ELSE update_timeouts(list, elapsed_ms(before, now))

Expired(list, now) == shortest_timeout(list) # Infinite /\ all_expired(CountedDown(list, now))

recv_notification ==
  /\ pc = "recv" /\ ~ hup /\ sock # <<>> /\ ~ overrun /\ Head(sock) # NLMSG_DONE
  /\ Refill(Tail(sock), dump)
  /\ counted' = Capped(counted + UnitsPerMs - 1)
  /\ next_round
  /\ LET m == Head(sock)
         list == CountedDown(peer_devices, clock)
     IN \/ /\ Expired(peer_devices, clock)
           /\ Exit(5) /\ peer_devices' = list
        \/ /\ ~ Expired(peer_devices, clock) /\ m = Unloaded
           /\ Exit(20) /\ peer_devices' = list
        \/ /\ ~ Expired(peer_devices, clock) /\ m # Unloaded
           /\ ~ Concerned(m) \/ VolumeUninitialized(m)
           /\ peer_devices' = list /\ UNCHANGED <<pc, rv>>
        \/ /\ ~ Expired(peer_devices, clock) /\ m # Unloaded /\ Concerned(m)
           /\ peer_devices' = IF m.kind = "peer_device" THEN Followed(list, m) ELSE list
           /\ \/ FreesHead(list, m) /\ pc' = "undefined" /\ UNCHANGED rv
              \/ ~ FreesHead(list, m) /\ wait_for_family(list, m) /\ Exit(0)
              \/ ~ FreesHead(list, m) /\ ~ wait_for_family(list, m) /\ UNCHANGED <<pc, rv>>
  /\ UNCHANGED <<external_vars, overrun>>

-----------------------------------------------------------------------------
(* The specification *)

Init ==
  /\ ctx \in Timeouts
  /\ \E b \in Begins : cmd = b.cmd /\ repl_state = b.repl /\ standalone = b.standalone
                        /\ timeout_type = [pd \in PeerDevices \union OtherDevices |->
                                             IF pd \in PeerDevices THEN b.type[pd] ELSE "default"]
  /\ sock = <<>> /\ overrun = FALSE /\ dump = <<>> /\ hup = FALSE /\ changes = 0
  /\ pc = "start" /\ peer_devices = <<>> /\ rv = 0
  /\ clock = 0 /\ before = 0 /\ counted = 0
  /\ was_up = {pd \in PeerDevices : Ready(repl_state[pd])}
  /\ was_gone = {pd \in PeerDevices : repl_state[pd] = Gone}
  /\ was_standalone = standalone /\ quiet = TRUE

Step ==
  \/ list_peer_devices \/ remember \/ list_complete
  \/ \E i \in DOMAIN peer_devices : choose_timeout(i)
  \/ request_state
  \/ Tick \/ poll_timeout \/ poll_error
  \/ recv_error \/ recv_done \/ recv_notification

Next ==
  \/ Step
  \/ Hangup
  \/ ModuleUnload
  \/ \E pd \in PeerDevices : \/ \E rs \in {Off, L_ESTABLISHED, Resync} : KernelChange(pd, rs)
                             \/ KernelCreate(pd) \/ KernelDestroy(pd)
                             \/ KernelStandAlone(Connection(pd)) \/ KernelConnects(Connection(pd))
  \/ \E pd \in OtherDevices : OtherResource(pd)

\* drbdsetup runs, and time passes while it is in poll()
Spec == Init /\ [][Next]_vars /\ WF_vars(Step)

-----------------------------------------------------------------------------
(* Properties *)

PdMsgs == [kind : {"peer_device"}, type : {"listed", "exists", "change", "create", "destroy"},
           pd : PeerDevices \union OtherDevices, state : States]
ConnMsgs == [kind : {"connection"}, type : {"exists", "change", "create", "destroy"},
             pd : Connections, state : {"StandAlone", "Unconnected"}]
Messages == PdMsgs \union ConnMsgs \union {Unloaded, NLMSG_DONE}
Parts == PdMsgs \union ConnMsgs \union {Listed(pd) : pd \in PeerDevices} \union {Nothing, NLMSG_DONE}
Entries == [pd : PeerDevices \union OtherDevices \union Connections, rs : States,
            timeout_ms : Nat \union {Infinite}, granted : Nat \union {Infinite}]

KernelType ==
  /\ repl_state \in [PeerDevices -> States \union {Gone}] /\ standalone \subseteq Connections
  /\ changes \in 0 .. MaxChanges /\ hup \in BOOLEAN
SocketType ==
  /\ sock \in Seq(Messages) /\ overrun \in BOOLEAN /\ dump \in Seq(Parts)
CommandType ==
  /\ cmd \in [kind : {"resource", "connection", "volume"}, pd : PeerDevices, connect : BOOLEAN, after_sb : BOOLEAN]
  /\ ctx \in Timeouts
  /\ pc \in {"start", "list", "choose", "recv", "end", "undefined"} /\ rv \in {0, 5, 20}
  /\ peer_devices \in Seq(Entries)
TimeType ==
  /\ clock \in Nat /\ before \in 0 .. clock /\ counted \in 0 .. MaxWait

\* Types of all variables.
TypeOK == KernelType /\ SocketType /\ CommandType /\ TimeType

Ended == pc \in {"end", "undefined"}

\* the time that has passed, and what an error of less than one ms for each
\* message can add to it
Elapsed(ms) == counted >= ms * UnitsPerMs

\* the peer devices that the command is about
Wanted == {pd \in PeerDevices : Targeted(pd)}

\* A wait that has begun and ends with success has waited: each peer device
\* it is about was connected (in sync) at some time since it began, or its
\* timeout has passed, or it has been removed; or one of its connections has
\* been StandAlone and is not waited for (wait_for_family()).
HonestSuccess ==
  (pc = "end" /\ rv = 0 /\ peer_devices # <<>> /\ ~ hup)
  => \/ ~ cmd.after_sb /\ \E c \in was_standalone : Concerned([kind |-> "connection", pd |-> c])
     \/ \A pd \in Wanted :
          \/ pd \in was_up \union was_gone
          \/ \E i \in DOMAIN peer_devices : /\ peer_devices[i].pd = pd
                                            /\ peer_devices[i].granted # Infinite
                                            /\ Elapsed(peer_devices[i].granted)

\* A timeout is reported only if the shortest of the timeouts has passed, up
\* to one ms for each message received (update_timeouts(), generic_recv()).
TimeoutNotEarly ==
  (pc = "end" /\ rv = 5)
  => \E i \in DOMAIN peer_devices : peer_devices[i].granted > 0 /\ Elapsed(peer_devices[i].granted)

\* A wait for peer devices that all have a timeout ends, whatever happens
\* meanwhile (generic_recv(): poll_hup() or update_timeouts()).
WaitEnds ==
  (pc = "recv" /\ \A i \in DOMAIN peer_devices : peer_devices[i].granted # Infinite) ~> Ended

Reached ==
  /\ \E pd \in Wanted : repl_state[pd] # Gone
  /\ \A pd \in Wanted : repl_state[pd] = Gone \/ Ready(repl_state[pd])

\* A wait ends once everything it waits for is connected (in sync) and stays
\* so, if nothing changed before it had received the whole initial state
\* (wait_for_family(): every notification that concerns it is applied).
ReachedEnds == (<>[]Reached /\ []quiet) => <>Ended

\* The same, whenever the changes happen.
AlwaysReachedEnds == <>[]Reached => <>Ended

\* The timeout for outdated peers is no longer than the one for a degraded
\* cluster, to which choose_timeout() says it sets it.
OutdatedShortest ==
  LET t == Normalized(ctx) IN t.degr > 0 => t.outdated > 0 /\ t.outdated <= t.degr
=============================================================================
