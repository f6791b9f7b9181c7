------------------------------- MODULE Events2 -------------------------------
(***************************************************************************)
(* drbdsetup events2: the receive loop (generic_recv(), events2_poll() in  *)
(* user/v9/drbdsetup.c) and the handler of its messages (print_event(),    *)
(* apply_event() and what they call in user/v9/drbdsetup_events2.c).       *)
(*                                                                         *)
(* drbdsetup joins the multicast group of the kernel module, asks for a    *)
(* dump of the current state and then receives two kinds of messages that  *)
(* mix freely: the dump ("exists" messages, in order) and notifications    *)
(* of changes, which carry a sequence number and may arrive out of order.  *)
(* It keeps a copy of the kernel's objects and prints the differences      *)
(* between two versions of the copy; a program reading the lines rebuilds  *)
(* the objects from them.                                                  *)
(***************************************************************************)
EXTENDS DrbdObjects, Sequences

CONSTANTS
  Resources,      \* resource names
  Filter,         \* objname: one resource, or "all"
  HalfRange,      \* 2^31: half the range of nlmsg_seq
  FirstSeq,       \* nlmsg_seq of the first notification
  SignedWraps,    \* the build subtracts signed integers modulo 2^32
  ReorderFirst,   \* the first notifications, too, may be received out of order
  Infos,          \* bound: the states an object of a kind takes
  InitialKernels, \* bound: what is configured when drbdsetup starts
  ReuseNames,     \* a rename takes a name used before, or frees one used again
  NewResources,   \* bound: the names under which resources are created
  Modes,          \* bound: the option sets drbdsetup is started with
  MaxMessages,    \* bound on the notifications
  MaxBundle,      \* bound on the objects one state change touches
  MaxRequests,    \* bound on the updates requested on stdin
  RcvBuf,         \* messages the receive buffer of the socket holds
  Overruns        \* bound: how many messages the socket may drop

ASSUME SeqAssumption ==
  /\ HalfRange \in Nat /\ MaxMessages \in Nat
  /\ MaxMessages + 1 < HalfRange
  /\ FirstSeq \in 0 .. 2 * HalfRange - 1
  /\ SignedWraps \in BOOLEAN /\ ReorderFirst \in BOOLEAN /\ ReuseNames \in BOOLEAN
  /\ Modes \subseteq SUBSET {"now", "poll"}
  /\ NewResources \subseteq Resources
  /\ MaxRequests \in Nat /\ Overruns \in Nat /\ RcvBuf \in Nat /\ MaxBundle \in Nat

ASSUME ObjectAssumption ==
  /\ IsFiniteSet(Resources) /\ IsFiniteSet(Objects)
  /\ \A trees \in InitialKernels :
       DOMAIN trees \subseteq Resources /\ \A r \in DOMAIN trees : IsTree(trees[r])
  /\ Infos["resource"] \subseteq ResourceInfo /\ Infos["device"] \subseteq DeviceInfo
  /\ Infos["connection"] \subseteq ConnectionInfo /\ Infos["peer-device"] \subseteq PeerDeviceInfo
  /\ Infos["path"] \subseteq PathInfo

\* A peer device belongs to a device and a connection.
ASSUME KernelAssumption ==
  \A trees \in InitialKernels : \A r \in DOMAIN trees :
    \A p \in PeerDevices \intersect DOMAIN trees[r] : device(p[3]) \in DOMAIN trees[r]

VARIABLES
  \* the kernel module
  kern,              \* its resources
  sent,              \* number of changes it has notified
  hist,              \* hist[n]: its resources after notification n, whole bundles only
  \* the netlink socket
  sock,              \* notifications in flight
  dump,              \* rest of the answer to the last request
  overrun,           \* a message was dropped: recvmsg() will return ENOBUFS
  lost,              \* number of messages dropped
  \* drbdsetup
  opts,              \* opt_now, opt_poll
  pc,                \* "send", "recv", "apply", "stdin", "exit"
  requests,          \* updates requested on stdin
  expect_reply,
  initial_state,
  receive_update,
  next_seq,
  next_seq_known,
  stored_messages,
  update_resources,
  all_resources,
  \* the reader of the output, and history
  shown,             \* the objects as rebuilt from the printed lines
  applied,           \* notifications applied
  snap               \* value of sent when the last dump was made

kernel_vars == <<kern, sent, hist, sock>>
socket_vars == <<dump, overrun, lost>>
cmd_vars    == <<opts, pc, requests, expect_reply>>
order_vars  == <<initial_state, receive_update, next_seq, next_seq_known, stored_messages, applied>>
data_vars   == <<update_resources, all_resources, shown>>
vars == <<kernel_vars, socket_vars, cmd_vars, order_vars, data_vars, snap>>

NoName == "none"

\* A name is no NULL pointer.
ASSUME NameAssumption == NoName \notin Resources

-----------------------------------------------------------------------------
(* Sequence numbers: 32 bit, compared as a signed difference *)

\* nlmsg_seq of notification n
Wire(n) == IF FirstSeq + n - 1 < 2 * HalfRange THEN FirstSeq + n - 1
                                               ELSE FirstSeq + n - 1 - 2 * HalfRange

NextSeq(a) == IF a + 1 = 2 * HalfRange THEN 0 ELSE a + 1

int32(a) == IF a < HalfRange THEN a ELSE a - 2 * HalfRange

\* Mutant: any stored message is due.
AnySeqDue(a, b) == a >= 0 /\ b >= 0

\* Mutant: the message with the number next_seq is not due.
SeqLess(a, b) == int32(a) < int32(b)

\* (int32_t)a - (int32_t)b <= 0.  The subtraction may overflow, which is
\* undefined: an unoptimised build wraps around, an optimised one compares
\* the operands instead.
seq_a_less_or_equal_b(a, b) ==
  LET d == int32(a) - int32(b)
  IN IF SignedWraps THEN \/ d >= - HalfRange /\ d <= 0
                         \/ d >= HalfRange
                    ELSE int32(a) <= int32(b)

-----------------------------------------------------------------------------
(* The kernel module (external): what it sends, seen from drbdsetup *)

Msg(n, act, r, o, info, cont) ==
  [idx |-> n, act |-> act, res |-> r, obj |-> o, info |-> info, cont |-> cont]

\* A change is announced by a bundle of notifications of one kind, all but
\* the last one marked NOTIFY_CONTINUES.
Notify(r, act, objs, infos, newKern) ==
  LET n == Len(objs)
  IN /\ n \in 1 .. MaxMessages - sent /\ pc # "exit"
     /\ sent' = sent + n
     /\ kern' = newKern
     /\ hist' = [i \in 0 .. sent + n |-> IF i <= sent THEN hist[i]
                                         ELSE IF i = sent + n THEN newKern ELSE kern]
     /\ sock' = IF "now" \in opts THEN sock
                ELSE sock \union {Msg(sent + i, act, r, objs[i], infos[objs[i]], i < n) : i \in 1 .. n}
     /\ UNCHANGED <<socket_vars, cmd_vars, order_vars, data_vars, snap>>

\* objects created or removed together with o
Attached(o) ==
  {p \in PeerDevices : \/ o = connection(p[2]) \/ o = device(p[3])}
  \union {p \in Paths : o = connection(p[2])}

\* names a rename has freed
RenamedAway ==
  UNION {IF DOMAIN hist[i] \subseteq DOMAIN hist[i - 1] THEN {} ELSE DOMAIN hist[i - 1] \ DOMAIN hist[i] :
           i \in 1 .. sent}

KernelCreateResource(r, info) ==
  /\ r \notin DOMAIN kern /\ (ReuseNames \/ r \notin RenamedAway)
  /\ Notify(r, "create", <<resource>>, Bare(info), Put(kern, r, Bare(info)))

KernelCreate(r, o, infos) ==
  LET t     == kern[r]
      peers == {p \in Attached(o) \intersect PeerDevices :
                  {connection(p[2]), device(p[3])} \subseteq DOMAIN t \union {o}}
      new   == [p \in peers \union {o} |-> infos[p[1]]]
  IN /\ o \notin DOMAIN t
     /\ o \in Paths => ConnectionOf(o) \in DOMAIN t
     /\ Notify(r, "create", <<o>> \o SetToSeq(peers), new, [kern EXCEPT ![r] = Overlay(t, new)])

KernelChange(r, S, new) ==
  /\ \A o \in S : new[o] # kern[r][o]
  /\ Notify(r, "change", SetToSeq(S), new, [kern EXCEPT ![r] = Overlay(@, new)])

KernelDestroy(r, o) ==
  LET gone == SetToSeq(Attached(o) \intersect DOMAIN kern[r]) \o <<o>>
  IN /\ o = resource => DOMAIN kern[r] = {o}
     /\ Notify(r, "destroy", gone, kern[r],
               IF o = resource THEN Without(kern, {r})
               ELSE [kern EXCEPT ![r] = Without(@, ToSet(gone))])

KernelRename(r, n) ==
  /\ n \notin DOMAIN kern /\ (ReuseNames \/ \A i \in DOMAIN hist : n \notin DOMAIN hist[i])
  /\ Notify(r, "rename", <<resource>>, Bare(n), Put(Without(kern, {r}), n, kern[r]))

KernelHelper(r) == Notify(r, "helper", <<resource>>, Bare(NoName), kern)

\* The answer to DRBD_ADM_GET_INITIAL_STATE: one bundle of "exists" messages
\* per resource (paths have none), DRBD_INITIAL_STATE_DONE, NLMSG_DONE.
DumpOf(r) ==
  LET t == kern[r]
      objs == <<resource>> \o SetToSeq(Devices \intersect DOMAIN t)
              \o SetToSeq(Connections \intersect DOMAIN t) \o SetToSeq(PeerDevices \intersect DOMAIN t)
  IN [i \in DOMAIN objs |-> Msg(0, "exists", r, objs[i], t[objs[i]], i < Len(objs))]

Dump == LET rs == SetToSeq({r \in DOMAIN kern : Filter \in {"all", r}})
        IN FlattenSeq([i \in DOMAIN rs |-> DumpOf(rs[i])])
           \o << Msg(0, "done", NoName, resource, NoName, FALSE),
                 Msg(0, "NLMSG_DONE", NoName, resource, NoName, FALSE) >>

\* The receive buffer is full: the kernel drops the last notification.
Overrun(m) ==
  /\ lost < Overruns /\ pc # "exit"
  /\ Cardinality(sock) > RcvBuf /\ \A k \in sock : k.idx <= m.idx
  /\ sock' = sock \ {m}
  /\ lost' = lost + 1 /\ overrun' = TRUE
  /\ UNCHANGED <<kern, sent, hist, dump, cmd_vars, order_vars, data_vars, snap>>

-----------------------------------------------------------------------------
(* print_changes(): the lines for the difference of two versions *)

\* the fields a line about o can show
Fields(t, o) == IF o = resource THEN Overlay(compute_promotion_info(t), t[o]) ELSE t[o]

\* Mutant: only the resource's own state is compared.
ResourceChangesWithoutPromotion(old, new, rename) ==
  IF rename # NoName THEN {}
  ELSE {f \in DOMAIN Fields(new, resource) :
          old # <<>> => f \in DOMAIN old[resource] /\ old[resource][f] # new[resource][f]}

\* the fields of a resource's line; a renamed resource has another line
print_resource_changes(old, new, rename) ==
  IF rename # NoName THEN {}
  ELSE {f \in DOMAIN Fields(new, resource) :
          old # <<>> => Fields(old, resource)[f] # Fields(new, resource)[f]}

\* print_device_changes(), print_connection_changes(),
\* print_peer_device_changes(), print_path_changes(): the objects with a line
print_object_changes(old, new) ==
  {o \in DOMAIN new \ {resource} : o \in DOMAIN old => old[o] # new[o]}

\* the objects with a "destroy" line
print_destroyed(old, entry) ==
  {o \in DOMAIN old \ DOMAIN entry.tree :
     o \in PeerDevices \union Paths => ConnectionOf(o) \in DOMAIN entry.tree}
  \union (IF entry.destroyed THEN {resource} ELSE {})

\* The lines: "exists", "create" and "change" lines as a function from the
\* object to the fields printed, and the objects destroyed.
print_changes(old, entry) ==
  LET changed == print_resource_changes(old, entry.tree, entry.rename)
      objs    == print_object_changes(old, entry.tree)
                 \union (IF changed = {} THEN {} ELSE {resource})
  IN [fields |-> [o \in objs |-> IF o = resource THEN Restrict(Fields(entry.tree, o), changed)
                                 ELSE Fields(entry.tree, o)],
      destroyed |-> print_destroyed(old, entry)]

\* A reader of the stream (external): the objects of a resource after the
\* lines; a destroyed connection takes its peer devices and paths with it.
Consume(seen, lines) ==
  Without([o \in DOMAIN seen \union DOMAIN lines.fields |->
             IF o \notin DOMAIN lines.fields THEN seen[o]
             ELSE IF o \notin DOMAIN seen THEN lines.fields[o]
             ELSE Overlay(seen[o], lines.fields[o])],
          lines.destroyed \union {o \in PeerDevices \union Paths : ConnectionOf(o) \in lines.destroyed})

-----------------------------------------------------------------------------
(* apply_event() *)

NewEntry(t) == [tree |-> t, destroyed |-> FALSE, rename |-> NoName]

\* store_device_check(), store_connection_check(), store_peer_device_check(),
\* store_path_check(): an object that exists already, or whose connection is
\* unknown, is dropped.
StoreCheck(t, o, info) ==
  IF o \in DOMAIN t \/ (o \in PeerDevices \union Paths /\ ConnectionOf(o) \notin DOMAIN t)
  THEN t ELSE Put(t, o, info)

\* A change of an unknown object is ignored, except for paths: the dump does
\* not mention them.
ApplyChange(t, o, info) ==
  IF o \in DOMAIN t THEN [t EXCEPT ![o] = info]
  ELSE IF o \in Paths THEN StoreCheck(t, o, info) ELSE t

\* delete_device(), delete_connection(), delete_peer_device(), delete_path()
ApplyDestroy(t, o) ==
  Without(t, {o} \union {x \in PeerDevices \union Paths : ConnectionOf(x) = o})

ApplyToEntry(e, action, m) ==
  LET t == e.tree
  IN CASE action \in {"exists", "create"} /\ m.obj # resource ->
            [e EXCEPT !.tree = StoreCheck(t, m.obj, m.info), !.rename = NoName]
       [] action = "change" ->
            [e EXCEPT !.tree = ApplyChange(t, m.obj, m.info), !.rename = NoName]
       [] action = "destroy" /\ m.obj = resource ->
            [e EXCEPT !.destroyed = TRUE, !.rename = NoName]
       [] action = "destroy" /\ m.obj # resource ->
            [e EXCEPT !.tree = ApplyDestroy(t, m.obj), !.rename = NoName]
       [] action = "rename" -> [e EXCEPT !.rename = m.info]
       [] OTHER -> [e EXCEPT !.rename = NoName]

\* name under which store_resource() enters a resource
Target(upd, r) == IF upd[r].rename = NoName THEN r ELSE upd[r].rename

\* all_resources after the update: every old version goes; a resource that
\* was not destroyed is stored, unless its name is taken (tsearch() keeps
\* the entry it finds).
StoreUpdates(all, upd) ==
  LET kept == DOMAIN all \ DOMAIN upd
      live == {r \in DOMAIN upd : ~ upd[r].destroyed}
  IN [n \in kept \union {Target(upd, r) : r \in live} |->
        IF n \in kept THEN all[n]
        ELSE upd[CHOOSE r \in live : Target(upd, r) = n].tree]

\* the reader's resources after the lines for the update
ReadUpdates(seen, lines, upd) ==
  LET kept == DOMAIN seen \ DOMAIN upd
      live == {r \in DOMAIN upd : resource \notin lines[r].destroyed}
  IN [n \in kept \union {Target(upd, r) : r \in live} |->
        IF n \in kept THEN seen[n]
        ELSE LET r == CHOOSE r \in live : Target(upd, r) = n
             IN Consume(IF r \in DOMAIN seen THEN seen[r] ELSE <<>>, lines[r])]

OldVersion(r) == IF r \in DOMAIN all_resources THEN all_resources[r] ELSE <<>>

\* An "exists" message is a change while an update is received.  The entry
\* of update_resources is the pending one, a new one or a copy of the old
\* version.  The last message of a bundle prints and stores the versions.
apply_event(m) ==
  LET action == IF m.act = "exists" /\ receive_update THEN "change" ELSE m.act
      r      == m.res
      create == m.obj = resource /\ action \in {"create", "exists"}
      inUpd  == r \in DOMAIN update_resources
      base   == IF inUpd THEN update_resources[r]
                ELSE IF create THEN NewEntry(Bare(m.info)) ELSE NewEntry(all_resources[r])
  IN \/ /\ create = (inUpd \/ r \in DOMAIN all_resources)
        /\ UNCHANGED data_vars
     \/ /\ create # (inUpd \/ r \in DOMAIN all_resources)
        /\ \E upd \in {Put(update_resources, r, ApplyToEntry(base, action, m))} :
             \/ m.cont /\ update_resources' = upd /\ UNCHANGED <<all_resources, shown>>
             \/ /\ ~ m.cont
                /\ \E lines \in {[x \in DOMAIN upd |-> print_changes(OldVersion(x), upd[x])]} :
                     shown' = ReadUpdates(shown, lines, upd)
                /\ all_resources' = StoreUpdates(all_resources, upd)
                /\ update_resources' = <<>>

-----------------------------------------------------------------------------
(* print_event() *)

StoreNotification(m, hold) ==
  /\ m.act \notin {"done", "exists"}
  /\ next_seq' = IF next_seq_known THEN next_seq ELSE Wire(m.idx)
  /\ next_seq_known' = TRUE
  /\ stored_messages' = Append(stored_messages, m)
  /\ pc' = IF hold THEN "recv" ELSE "apply"
  /\ UNCHANGED <<initial_state, receive_update, applied, data_vars>>

DumpDone(m) ==
  /\ m.act = "done"
  /\ initial_state' = FALSE /\ receive_update' = FALSE
  /\ pc' = "apply"
  /\ UNCHANGED <<next_seq, next_seq_known, stored_messages, applied, data_vars>>

ApplyExists(m) ==
  /\ m.act = "exists"
  /\ apply_event(m)
  /\ UNCHANGED <<pc, order_vars>>

\* Mutant: notifications are applied while an update is received.
ApplyDuringUpdate(m) == DumpDone(m) \/ ApplyExists(m) \/ StoreNotification(m, initial_state)

print_event(m) ==
  DumpDone(m) \/ ApplyExists(m) \/ StoreNotification(m, initial_state \/ receive_update)

\* The loop at the end of print_event(): apply the first stored message
\* that is due, and start again.
Due == {i \in DOMAIN stored_messages :
          seq_a_less_or_equal_b(Wire(stored_messages[i].idx), next_seq)}

apply_stored_event ==
  /\ pc = "apply" /\ Due # {}
  /\ \E i \in Due :
       LET m == stored_messages[i]
       IN /\ \A j \in Due : i <= j
          /\ next_seq' = IF Wire(m.idx) = next_seq THEN NextSeq(next_seq) ELSE next_seq
          /\ stored_messages' = RemoveAt(stored_messages, i)
          /\ apply_event(m)
          /\ applied' = applied \union {m.idx}
  /\ UNCHANGED <<kernel_vars, socket_vars, cmd_vars, initial_state, receive_update, next_seq_known,
                 snap>>

print_event_returns ==
  /\ pc = "apply" /\ Due = {}
  /\ pc' = "recv"
  /\ UNCHANGED <<kernel_vars, socket_vars, opts, requests, expect_reply, order_vars,
                 data_vars, snap>>

-----------------------------------------------------------------------------
(* generic_send(), generic_recv(), events2_poll() *)

generic_send ==
  /\ pc = "send"
  /\ dump' = Dump
  /\ snap' = sent
  /\ expect_reply' = TRUE
  /\ pc' = "recv"
  /\ UNCHANGED <<kernel_vars, overrun, lost, opts, requests, order_vars, data_vars>>


\* Mutant: the error is ignored like an invalid message.
recv_overrun_continues ==
  /\ pc = "recv" /\ overrun
  /\ overrun' = FALSE
  /\ UNCHANGED <<kernel_vars, dump, lost, cmd_vars, order_vars, data_vars, snap>>

\* genl_recv_msgs() returns -E_RCV_ENOBUFS
recv_overrun ==
  /\ pc = "recv" /\ overrun
  /\ pc' = "exit"
  /\ UNCHANGED <<kernel_vars, socket_vars, opts, requests, expect_reply, order_vars, data_vars, snap>>

\* the filter by resource name; DRBD_INITIAL_STATE_DONE names no resource
PassesFilter(m) == m.act = "done" \/ Filter \in {"all", m.res}

Receive(m) ==
  /\ IF PassesFilter(m) THEN print_event(m) ELSE UNCHANGED <<pc, order_vars, data_vars>>
  /\ UNCHANGED <<kern, sent, hist, overrun, lost, opts, requests, expect_reply, snap>>

recv_dump ==
  /\ pc = "recv" /\ ~ overrun
  /\ dump # <<>> /\ Head(dump).act \in {"exists", "done"}
  /\ dump' = Tail(dump)
  /\ Receive(Head(dump))
  /\ UNCHANGED sock

recv_notification ==
  /\ pc = "recv" /\ ~ overrun
  /\ \E m \in sock : /\ ReorderFirst \/ next_seq_known \/ m.idx = 1
                     /\ sock' = sock \ {m}
                     /\ Receive(m)
  /\ UNCHANGED dump

\* NLMSG_DONE ends generic_recv() under --now
recv_nlmsg_done ==
  /\ pc = "recv" /\ ~ overrun
  /\ dump # <<>> /\ Head(dump).act = "NLMSG_DONE"
  /\ dump' = Tail(dump)
  /\ expect_reply' = FALSE
  /\ IF "now" \notin opts THEN UNCHANGED pc
     ELSE IF "poll" \in opts THEN pc' = "stdin"
     ELSE pc' = "exit"
  /\ UNCHANGED <<kernel_vars, overrun, lost, opts, requests, order_vars, data_vars, snap>>

\* stdin is looked at once the reply is complete
StdinReady == \/ pc = "stdin"
              \/ pc = "recv" /\ "poll" \in opts /\ ~ expect_reply

\* 'n' on stdin, with events2_prepare_update() or events2_reset(); the
\* reader that asks for a fresh dump forgets what it knew
read_next ==
  /\ StdinReady /\ requests < MaxRequests
  /\ requests' = requests + 1
  /\ pc' = "send"
  /\ IF "now" \in opts
     THEN /\ initial_state' = TRUE /\ UNCHANGED receive_update
          /\ all_resources' = <<>> /\ shown' = <<>> /\ UNCHANGED update_resources
     ELSE receive_update' = TRUE /\ UNCHANGED <<initial_state, data_vars>>
  /\ UNCHANGED <<kernel_vars, socket_vars, opts, expect_reply, next_seq, next_seq_known,
                 stored_messages, applied, snap>>

\* any other character or the end of stdin, a closed stdout
read_end ==
  /\ StdinReady \/ pc = "recv"
  /\ pc' = "exit"
  /\ UNCHANGED <<kernel_vars, socket_vars, opts, requests, expect_reply, order_vars, data_vars, snap>>

\* the kernel module is unloaded
recv_module_unloaded ==
  /\ pc = "recv" /\ "now" \notin opts
  /\ pc' = "exit"
  /\ UNCHANGED <<kernel_vars, socket_vars, opts, requests, expect_reply, order_vars, data_vars, snap>>

-----------------------------------------------------------------------------
(* The specification *)

Init ==
  /\ kern \in InitialKernels /\ sent = 0 /\ hist = [i \in {0} |-> kern]
  /\ sock = {} /\ dump = <<>> /\ overrun = FALSE /\ lost = 0
  /\ opts \in Modes
  /\ pc = "send" /\ requests = 0 /\ expect_reply = FALSE
  /\ initial_state = TRUE /\ receive_update = FALSE
  /\ next_seq = 0 /\ next_seq_known = FALSE /\ stored_messages = <<>>
  /\ update_resources = <<>> /\ all_resources = <<>> /\ shown = <<>>
  /\ applied = {} /\ snap = 0

KernelNext ==
  \/ \E r \in NewResources, i \in Infos["resource"] : KernelCreateResource(r, i)
  \/ \E r \in DOMAIN kern :
       \/ \E o \in Objects \ (PeerDevices \union {resource}) :
            \E is \in [{o[1], "peer-device"} -> UNION {Infos[k] : k \in {o[1], "peer-device"}}] :
              /\ \A k \in DOMAIN is : is[k] \in Infos[k]
              /\ KernelCreate(r, o, is)
       \/ \E S \in kSubset(1, DOMAIN kern[r]) \union kSubset(MaxBundle, DOMAIN kern[r]) :
            \E new \in [S -> UNION {Infos[o[1]] : o \in S}] :
              /\ \A o \in S : new[o] \in Infos[o[1]]
              /\ KernelChange(r, S, new)
       \/ \E o \in DOMAIN kern[r] \ PeerDevices : KernelDestroy(r, o)
       \/ \E n \in Resources : KernelRename(r, n)
       \/ KernelHelper(r)

Next ==
  \/ KernelNext
  \/ \E m \in sock : Overrun(m)
  \/ generic_send
  \/ recv_dump
  \/ recv_notification
  \/ recv_nlmsg_done
  \/ recv_overrun
  \/ recv_module_unloaded
  \/ apply_stored_event
  \/ print_event_returns
  \/ read_next
  \/ read_end

\* drbdsetup keeps running its loop, and the kernel delivers what is in flight
Fairness ==
  /\ WF_vars(generic_send) /\ WF_vars(recv_dump) /\ WF_vars(recv_nlmsg_done)
  /\ WF_vars(recv_notification) /\ WF_vars(recv_overrun)
  /\ WF_vars(apply_stored_event) /\ WF_vars(print_event_returns)

Spec == Init /\ [][Next]_vars /\ Fairness

-----------------------------------------------------------------------------
(* Properties *)

TypeOK ==
  /\ DOMAIN kern \subseteq Resources /\ \A r \in DOMAIN kern : IsTree(kern[r])
  /\ sent \in 0 .. MaxMessages /\ DOMAIN hist = 0 .. sent
  /\ \A m \in sock : m.idx \in 1 .. sent
  /\ lost \in 0 .. Overruns /\ overrun \in BOOLEAN
  /\ opts \subseteq {"now", "poll"}
  /\ pc \in {"send", "recv", "apply", "stdin", "exit"}
  /\ requests \in 0 .. MaxRequests
  /\ {expect_reply, initial_state, receive_update, next_seq_known} \subseteq BOOLEAN
  /\ next_seq \in 0 .. 2 * HalfRange - 1
  /\ \A i \in DOMAIN stored_messages : stored_messages[i].idx \in 1 .. sent
  /\ DOMAIN all_resources \subseteq Resources
  /\ \A r \in DOMAIN all_resources : IsTree(all_resources[r])
  /\ \A r \in DOMAIN update_resources : IsTree(update_resources[r].tree)
  /\ applied \subseteq 1 .. sent /\ snap \in 0 .. sent

\* Two versions of the resources agree, except that drbdsetup learns of a
\* path only when it changes.
SameObjects(view, actual) ==
  /\ DOMAIN view = DOMAIN actual
  /\ \A r \in DOMAIN view :
       /\ Without(view[r], Paths) = Without(actual[r], Paths)
       /\ \A o \in DOMAIN view[r] \intersect Paths :
            o \in DOMAIN actual[r] /\ view[r][o] = actual[r][o]

InFilter(trees) == Restrict(trees, {r \in DOMAIN trees : Filter \in {"all", r}})

\* A program that reads the lines knows exactly what drbdsetup's own copy
\* holds, including the promotion information, which changes with objects
\* other than the resource (print_changes(), print_resource_changes()).
ShownMatchesCopy ==
  /\ DOMAIN shown = DOMAIN all_resources
  /\ \A r \in DOMAIN shown : shown[r] = [o \in DOMAIN all_resources[r] |-> Fields(all_resources[r], o)]

\* Once the notifications from before the dump are applied, the copy is
\* always a state the kernel really was in between two of its changes: no
\* half of a bundle, no stale or resurrected object, whatever mix of dump
\* and notifications was received (print_event(), apply_event()).
CopyIsAKernelState ==
  LET n == Cardinality(applied)
  IN (~ initial_state /\ ~ receive_update /\ "now" \notin opts /\ n >= snap /\ Filter = "all")
     => SameObjects(all_resources, hist[n])

\* While drbdsetup runs and its socket is drained, no message is left in the
\* store and the copy is the kernel's state, for the resource or the
\* resources the command was given.
Converged ==
  (pc = "recv" /\ dump = <<>> /\ sock = {} /\ ~ overrun /\ "now" \notin opts)
  => stored_messages = <<>> /\ SameObjects(InFilter(all_resources), InFilter(kern))

\* Messages are applied in the order of their sequence numbers.
AppliedInOrder == applied = 1 .. Cardinality(applied)

Feed == INSTANCE NotificationFeed WITH
          sent <- IF "now" \in opts THEN 0 ELSE sent,
          running <- pc # "exit"

\* Every notification is applied once and in order: print_event() implements
\* the feed a monitor relies on.
FeedSpec == Feed!SafeSpec

\* While drbdsetup runs, every notification is applied in the end.
EveryNotificationApplied ==
  \A n \in 1 .. MaxMessages :
    (n <= sent /\ "now" \notin opts) ~> (n \in applied \/ pc = "exit")
=============================================================================
