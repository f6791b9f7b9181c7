-------------------------------- MODULE Adjust --------------------------------
(***************************************************************************)
(* drbdadm adjust: the comparison of the configuration with the running    *)
(* kernel module (user/v9/drbdadm_adjust.c), which schedules commands, and *)
(* the execution of the scheduled commands stage by stage                  *)
(* (schedule_deferred_cmd(), run_deferred_cmds() in drbdadm_main.c).       *)
(*                                                                         *)
(* The comparison is made once, from the output of "drbdsetup show".  Each *)
(* command then is a drbdsetup process of its own that may fail, while     *)
(* connections come and go.  Commands of one pass run in the order of      *)
(* their stages; a command whose dependency is not done yet waits for the  *)
(* next pass.                                                              *)
(***************************************************************************)
EXTENDS Integers, Sequences, FiniteSets, SequencesExt, TLC

CONSTANTS
  Cases,        \* bound: pairs of a configuration and a running kernel module
  FlagSets,     \* bound: subsets of {"disk", "net"}: without --skip-disk, --skip-net
  Progress,     \* values of adjust_with_progress
  MaxFailures,  \* bound on the commands that fail
  MaxLosses     \* bound on the connections that are lost meanwhile

ASSUME AdjustAssumption ==
  /\ FlagSets \subseteq SUBSET {"disk", "net"} /\ Progress \subseteq BOOLEAN
  /\ MaxFailures \in Nat /\ MaxLosses \in Nat
  /\ \A c \in Cases : DOMAIN c.conf = DOMAIN c.kern

VARIABLES
  conf,       \* the configuration files
  kern,       \* the kernel module
  shown,      \* what drbdsetup show reported
  pc,         \* "run", "end"
  flags, adjust_with_progress,
  deferred_cmds, done, scheduled, executed,
  stage,      \* stage that is executed
  last,       \* last command visited in it
  stage_rv, skip_further_deferred_command, ret,
  failures, losses, timeouts

vars == <<conf, kern, shown, pc, flags, adjust_with_progress, deferred_cmds, done, scheduled,
          executed, stage, last, stage_rv, skip_further_deferred_command, ret,
          failures, losses, timeouts>>

None == 0   \* no disk, no volume, no connection
Default == "default"
CState == [StandAlone |-> 0, Connecting |-> 1, Connected |-> 2]

\* A resource: its options, its volumes and its connections.  The kernel
\* module adds the state of a connection, and knows a resource or not.
Resources == DOMAIN conf

-----------------------------------------------------------------------------
(* schedule_deferred_cmd() *)

\* enum drbd_cfg_stage
Stages == <<"PREREQ", "RESOURCE", "DISK_PREP_DOWN", "DISK_PREP_UP", "NET_DISCONNECT",
            "NET_PREP_DOWN", "NET_PREP_UP", "NET_PATH", "NET", "PEER_DEVICE", "DISK",
            "NET_CONNECT", "WAIT_CONNECT">>

\* the stage of each command; the internal ones: *_defaults_cmd, wait_c_adj_cmd
InternalCommandStage ==
  "resource-options" :> "RESOURCE" @@ "disk-options-early" :> "DISK_PREP_UP"
  @@ "net-options" :> "NET" @@ "peer-device-options" :> "PEER_DEVICE"
  @@ "disk-options" :> "DISK" @@ "wait-connect" :> "WAIT_CONNECT"
CommandStage ==
  "new-resource" :> "PREREQ" @@ "detach" :> "DISK_PREP_DOWN" @@ "del-minor" :> "DISK_PREP_DOWN"
  @@ "new-minor" :> "DISK_PREP_UP" @@ "disconnect" :> "NET_DISCONNECT"
  @@ "del-peer" :> "NET_PREP_DOWN" @@ "del-path" :> "NET_PREP_DOWN"
  @@ "new-peer" :> "NET_PREP_UP" @@ "new-path" :> "NET_PATH"
  @@ "attach" :> "DISK" @@ "resize" :> "DISK" @@ "connect" :> "NET_CONNECT"
  @@ InternalCommandStage

\* the stages without which there is no point in trying to continue
Prerequisite == {"PREREQ", "DISK_PREP_DOWN", "DISK_PREP_UP", "NET_PREP_DOWN", "NET_PREP_UP"}

\* A command on a volume (or its minor), a connection or paths of it.  of:
\* whether ctx.res is the configured resource or the running one, two
\* objects of the same name.
Cmd(cmd, r, vol, conn, arg) ==
  [cmd |-> cmd, res |-> r, of |-> "conf", vol |-> vol, conn |-> conn, arg |-> arg, dep |-> 0]
Object(d) == <<d.of, d.res>>
ResCmd(cmd, r)         == Cmd(cmd, r, None, None, None)
VolCmd(cmd, r, v, m)   == Cmd(cmd, r, v, None, m)
ConnCmd(cmd, r, p)     == Cmd(cmd, r, None, p, None)
PathCmd(cmd, r, p, ps) == Cmd(cmd, r, None, p, ps)

\* What the functions of drbdadm_adjust.c hand on to each other: the
\* commands scheduled, the one the next command depends on (0: none), the
\* commands cancelled, the connections done and whether one is taken down.
NoPlan == [cmds |-> <<>>, dcmd |-> 0, cancelled |-> {}, seen |-> {}, disconnect |-> FALSE]

schedule_deferred_cmd(s, c) == [s EXCEPT !.cmds = Append(@, [c EXCEPT !.dep = s.dcmd])]

\* dcmd = adj_schedule_deferred_cmd(...)
Then(s, c) == [schedule_deferred_cmd(s, c) EXCEPT !.dcmd = Len(s.cmds) + 1]

ScheduleIf(cond, s, c) == IF cond THEN schedule_deferred_cmd(s, c) ELSE s
ThenIf(cond, s, c)     == IF cond THEN Then(s, c) ELSE s

\* SCHEDULE_ONCE
ThenOnce(s, c) ==
  LET same == {i \in DOMAIN s.cmds : LET d == s.cmds[i]
                                       IN d.cmd = c.cmd /\ d.res = c.res /\ d.conn = c.conn /\ d.vol = c.vol}
  IN IF same = {} THEN Then(s, c) ELSE [s EXCEPT !.dcmd = CHOOSE i \in same : \A j \in same : i <= j]

\* depends_on is a parameter of a function: its caller's dcmd stays
Restoring(s, t) == [t EXCEPT !.dcmd = s.dcmd]

cancel_deferred_cmd(s, i) == [s EXCEPT !.cancelled = @ \union {i}]

cancel_deferred_waits(s, r) ==
  [s EXCEPT !.cancelled =
     @ \union {i \in DOMAIN s.cmds : s.cmds[i].cmd = "wait-connect" /\ Object(s.cmds[i]) = <<"conf", r>>}]

\* Mutant: a cancelled command still counts.
CancelledCount(s) == Len(s.cmds)

\* scheduled_deferred_cmds
ScheduledCount(s) == Len(s.cmds) - Cardinality(s.cancelled)

Each(S, op(_, _), s) == FoldLeft(op, s, SetToSortSeq(S, LAMBDA a, b : a < b))

-----------------------------------------------------------------------------
(* adjust_drbd(): c is the configured resource, k the running one *)

Volumes(k) == IF k.exists THEN DOMAIN k.vols ELSE {}

\* compare_volumes(), compare_volume(): what is to be done with a volume
compare_volume(c, k, v) ==
  LET inC    == v \in DOMAIN c.vols
      inK    == v \in Volumes(k)
      minor  == inC /\ inK /\ c.vols[v].minor # k.vols[v].minor
      swap   == ~ inC \/ ~ inK \/ c.vols[v].disk # k.vols[v].disk \/ minor
      attach == inC /\ swap /\ c.vols[v].disk # None
      detach == inK /\ swap /\ k.vols[v].disk # None
      keep   == inC /\ inK /\ ~ attach /\ ~ detach /\ c.vols[v].disk # None
  IN [new_minor |-> ~ inK \/ minor, del_minor |-> ~ inC \/ minor,
      attach |-> attach, detach |-> detach,
      resize |-> keep /\ c.vols[v].size # k.vols[v].size,
      disk_opts |-> keep /\ c.vols[v].opts # k.vols[v].opts]

\* schedule_peer_device_options() for a set of connections and volumes: the
\* ones that are given options
schedule_peer_device_options(r, c, pds, s) ==
  LET given == {pv \in pds : c.conns[pv[1]].pd[pv[2]] # Default}
      one(t, p) == Each({pv[2] : pv \in {x \in given : x[1] = p}},
                        LAMBDA u, v : ThenOnce(u, Cmd("peer-device-options", r, v, p, None)), t)
  IN Restoring(s, Each({pv[1] : pv \in given}, one, s))

\* the volumes that are new, in adjust_drbd()
new_minors(r, c, k, fl, s) ==
  LET pds(v) == IF fl = {"disk", "net"} THEN (DOMAIN c.conns) \X {v} ELSE {}
      one(t, v) ==
        schedule_peer_device_options(r, c, pds(v), Then(t, VolCmd("new-minor", r, v, c.vols[v].minor)))
  IN Each({v \in DOMAIN c.vols : compare_volume(c, k, v).new_minor}, one, s)

bitmap_will_be_enabled(new, old) == old = "no-bitmap" /\ new # "no-bitmap"

AdjustVolume(r, v, c, k, adj, s) ==
  LET down == ThenIf(adj.detach, s, VolCmd("detach", r, v, k.vols[v].minor))
      del  == ThenIf(adj.del_minor, down, VolCmd("del-minor", r, v, k.vols[v].minor))
      up   == ScheduleIf(adj.attach, del, VolCmd("attach", r, v, c.vols[v].minor))
      opts == ScheduleIf(adj.disk_opts, up,
                VolCmd(IF bitmap_will_be_enabled(c.vols[v].opts, k.vols[v].opts)
                       THEN "disk-options-early" ELSE "disk-options", r, v, c.vols[v].minor))
  IN ScheduleIf(adj.resize, opts, VolCmd("resize", r, v, c.vols[v].minor))

adjust_disk(r, c, k, s) ==
  Restoring(s, Each(DOMAIN c.vols \union Volumes(k),
                    LAMBDA t, v : AdjustVolume(r, v, c, k, compare_volume(c, k, v), t), s))

adjust_peer_devices(r, c, k, p, s) ==
  LET one(t, v) ==
        LET pdo == Cmd("peer-device-options", r, v, p, None)
        IN IF v \notin Volumes(k) THEN Restoring(t, ThenOnce(t, pdo))
           ELSE IF c.conns[p].pd[v] # k.conns[p].pd[v] THEN schedule_deferred_cmd(t, pdo)
           ELSE t
  IN Each(DOMAIN c.vols, one, s)

\* Mutant: the last path is deleted without a disconnect.
DeleteConnectedPath(r, c, k, p, s) ==
  LET new  == c.conns[p].paths \ k.conns[p].paths
      gone == k.conns[p].paths \ c.conns[p].paths
      add  == Each(new, LAMBDA t, q : schedule_deferred_cmd(t, PathCmd("new-path", r, p, {q})), s)
  IN Each(gone, LAMBDA t, q : schedule_deferred_cmd(t, PathCmd("del-path", r, p, {q})), add)

\* The last path can only be deleted while the connection is down.
adjust_paths(r, c, k, p, s) ==
  LET new  == c.conns[p].paths \ k.conns[p].paths
      gone == k.conns[p].paths \ c.conns[p].paths
      dc   == Cardinality(k.conns[p].paths) = 1 /\ gone # {}
      add  == Each(new, LAMBDA t, q : schedule_deferred_cmd(t, PathCmd("new-path", r, p, {q})), s)
      down == ThenIf(dc /\ k.conns[p].cstate # "StandAlone", add, ConnCmd("disconnect", r, p))
      del  == Each(gone, LAMBDA t, q : schedule_deferred_cmd(t, PathCmd("del-path", r, p, {q})), down)
  IN [del EXCEPT !.dcmd = s.dcmd, !.disconnect = @ \/ dc]

connect_and_wait(r, p, s) == Then(Then(s, ConnCmd("connect", r, p)), ConnCmd("wait-connect", r, p))

\* One round of adjust_conn() for connection p, which is not known yet, or
\* whose state is at most max_cstate.
adjust_new(r, c, p, s) ==
  LET peer == Then(s, ConnCmd("new-peer", r, p))
      path == schedule_deferred_cmd(peer, PathCmd("new-path", r, p, c.conns[p].paths))
  IN connect_and_wait(r, p, schedule_peer_device_options(r, c, {p} \X (DOMAIN c.vols), path))

\* a change of the transport needs a new peer
AdjustOptions(r, c, k, p, immutable, s) ==
  IF immutable
  THEN schedule_peer_device_options(r, c, {p} \X (DOMAIN c.vols),
         [Then(Then(s, ConnCmd("del-peer", r, p)), ConnCmd("new-peer", r, p)) EXCEPT !.disconnect = TRUE])
  ELSE ScheduleIf(c.conns[p].net # k.conns[p].net, s, ConnCmd("net-options", r, p))

AdjustPaths(r, c, k, p, immutable, s) ==
  IF immutable THEN Then(s, PathCmd("new-path", r, p, c.conns[p].paths)) ELSE adjust_paths(r, c, k, p, s)

AdjustConnect(r, p, down, s) == IF down THEN connect_and_wait(r, p, s) ELSE s

adjust_running(r, c, k, p, s) ==
  LET new == c.conns[p]
      old == k.conns[p]
      immutable == new.transport # old.transport
      lastPath == Cardinality(old.paths) = 1 /\ ~ old.paths \subseteq new.paths
      opts == AdjustOptions(r, c, k, p, immutable, s)
      path == AdjustPaths(r, c, k, p, immutable, adjust_peer_devices(r, c, k, p, opts))
  IN AdjustConnect(r, p, old.cstate = "StandAlone" \/ immutable \/ lastPath, path)

\* Mutant: the chain of a connection's commands does not go on with the next one.
AllAtOnce(r, c, k, max_cstate, s) ==
  LET inK(p) == k.exists /\ p \in DOMAIN k.conns
      one(t, p) ==
        IF p \in t.seen \/ (inK(p) /\ CState[k.conns[p].cstate] > CState[max_cstate]) THEN t
        ELSE [(IF inK(p) THEN adjust_running(r, c, k, p, t) ELSE adjust_new(r, c, p, t))
              EXCEPT !.seen = @ \union {p}, !.dcmd = t.dcmd]
  IN Each(DOMAIN c.conns, one, s)

adjust_conn(r, c, k, max_cstate, s) ==
  LET inK(p) == k.exists /\ p \in DOMAIN k.conns
      one(t, p) ==
        IF p \in t.seen \/ (inK(p) /\ CState[k.conns[p].cstate] > CState[max_cstate]) THEN t
        ELSE [(IF inK(p) THEN adjust_running(r, c, k, p, t) ELSE adjust_new(r, c, p, t))
              EXCEPT !.seen = @ \union {p}]
  IN Each(DOMAIN c.conns, one, s)

\* Mutant: established connections are not looked at.
FirstRoundOnly(r, c, k, s) == cancel_deferred_waits(adjust_conn(r, c, k, "Connecting", s), r)

\* Waiting matters only where a connection is taken down, and not after the
\* last command.
CancelWaits(r, one_was_connected, s) ==
  LET wait == IF s.disconnect /\ one_was_connected THEN s ELSE cancel_deferred_waits(s, r)
  IN IF s.dcmd # 0 /\ s.cmds[s.dcmd].cmd = "wait-connect" THEN cancel_deferred_cmd(wait, s.dcmd) ELSE wait

adjust_net(r, c, k, s) ==
  LET conns == IF k.exists THEN DOMAIN k.conns ELSE {}
      adj == adjust_conn(r, c, k, "Connected", adjust_conn(r, c, k, "Connecting", s))
      gone(p) == [ConnCmd("del-peer", r, p) EXCEPT !.of = "running"]
      del == Each(conns \ DOMAIN c.conns, LAMBDA t, p : [Then(t, gone(p)) EXCEPT !.disconnect = TRUE], adj)
  IN CancelWaits(r, \E p \in conns : k.conns[p].cstate = "Connected", del)

AdjustResource(r, c, k, s) ==
  IF ~ k.exists THEN Then(s, ResCmd("new-resource", r))
  ELSE ThenIf(c.opts # k.opts, s, ResCmd("resource-options", r))

AdjustDisks(r, c, k, fl, s) == IF "disk" \in fl THEN adjust_disk(r, c, k, s) ELSE s
AdjustNet(r, c, k, fl, s)   == IF "net" \in fl THEN adjust_net(r, c, k, s) ELSE s

adjust_drbd(r, c, k, fl, s) ==
  LET start == [s EXCEPT !.dcmd = 0, !.seen = {}, !.disconnect = FALSE]
      minor == new_minors(r, c, k, fl, AdjustResource(r, c, k, start))
  IN AdjustNet(r, c, k, fl, AdjustDisks(r, c, k, fl, minor))

\* adm_adjust() for each of the resources: the commands scheduled
Plan(cs, ks, fl) == Each(DOMAIN cs, LAMBDA s, r : adjust_drbd(r, cs[r], ks[r], fl, s), NoPlan)

-----------------------------------------------------------------------------
(* The kernel module and the peers (external) *)

PeerDeviceDefaults(vols) == [v \in vols |-> Default]

\* does the kernel module accept the command?
Accepts(d) ==
  LET k == kern[d.res]
  IN CASE d.cmd = "new-resource" -> ~ k.exists
       [] d.cmd = "new-minor" ->
            /\ d.vol \notin DOMAIN k.vols
            /\ \A r \in Resources : \A v \in DOMAIN kern[r].vols : kern[r].vols[v].minor # d.arg
       [] d.cmd \in {"detach", "disk-options", "disk-options-early", "resize"} ->
            d.vol \in DOMAIN k.vols /\ k.vols[d.vol].minor = d.arg
       [] d.cmd \in {"del-minor", "attach"} ->
            d.vol \in DOMAIN k.vols /\ k.vols[d.vol].minor = d.arg /\ k.vols[d.vol].disk = None
       [] d.cmd = "new-peer" -> k.exists /\ d.conn \notin DOMAIN k.conns
       [] d.cmd = "new-path" -> d.conn \in DOMAIN k.conns /\ k.conns[d.conn].paths \intersect d.arg = {}
       [] d.cmd = "del-path" ->
            /\ d.conn \in DOMAIN k.conns /\ d.arg \subseteq k.conns[d.conn].paths
            /\ k.conns[d.conn].cstate # "StandAlone" => k.conns[d.conn].paths # d.arg
       [] d.cmd = "peer-device-options" -> d.conn \in DOMAIN k.conns /\ d.vol \in DOMAIN k.vols
       [] d.cmd = "connect" -> d.conn \in DOMAIN k.conns /\ k.conns[d.conn].cstate = "StandAlone"
       [] d.cmd \in {"net-options", "disconnect", "del-peer", "wait-connect"} -> d.conn \in DOMAIN k.conns
       [] OTHER -> k.exists

\* the resource in the kernel module after the command
Effect(d) ==
  LET k == kern[d.res]
      c == conf[d.res]
      without(f, x) == [y \in DOMAIN f \ {x} |-> f[y]]
      pds(vols) == [p \in DOMAIN k.conns |->
                      [k.conns[p] EXCEPT !.pd = [v \in vols |-> IF v \in DOMAIN @ THEN @[v] ELSE Default]]]
  IN CASE d.cmd = "new-resource" -> [exists |-> TRUE, opts |-> c.opts, vols |-> <<>>, conns |-> <<>>]
       [] d.cmd = "resource-options" -> [k EXCEPT !.opts = c.opts]
       [] d.cmd = "new-minor" ->
            [k EXCEPT !.vols = (d.vol :> [minor |-> d.arg, disk |-> None, opts |-> Default, size |-> Default]) @@ @,
                      !.conns = pds(DOMAIN k.vols \union {d.vol})]
       [] d.cmd = "del-minor" -> [k EXCEPT !.vols = without(@, d.vol), !.conns = pds(DOMAIN k.vols \ {d.vol})]
       [] d.cmd = "detach" -> [k EXCEPT !.vols[d.vol].disk = None]
       [] d.cmd = "attach" -> [k EXCEPT !.vols[d.vol] = c.vols[d.vol]]
       [] d.cmd \in {"disk-options", "disk-options-early"} -> [k EXCEPT !.vols[d.vol].opts = c.vols[d.vol].opts]
       [] d.cmd = "resize" -> [k EXCEPT !.vols[d.vol].size = c.vols[d.vol].size]
       [] d.cmd = "new-peer" ->
            [k EXCEPT !.conns = (d.conn :> [transport |-> c.conns[d.conn].transport, net |-> c.conns[d.conn].net,
                                            paths |-> {}, cstate |-> "StandAlone",
                                            pd |-> PeerDeviceDefaults(DOMAIN k.vols)]) @@ @]
       [] d.cmd = "del-peer" -> [k EXCEPT !.conns = without(@, d.conn)]
       [] d.cmd = "new-path" -> [k EXCEPT !.conns[d.conn].paths = @ \union d.arg]
       [] d.cmd = "del-path" -> [k EXCEPT !.conns[d.conn].paths = @ \ d.arg]
       [] d.cmd = "net-options" -> [k EXCEPT !.conns[d.conn].net = c.conns[d.conn].net]
       [] d.cmd = "peer-device-options" -> [k EXCEPT !.conns[d.conn].pd[d.vol] = c.conns[d.conn].pd[d.vol]]
       [] d.cmd = "connect" -> [k EXCEPT !.conns[d.conn].cstate = "Connecting"]
       [] d.cmd = "disconnect" -> [k EXCEPT !.conns[d.conn].cstate = "StandAlone"]
       [] OTHER -> k

connection_changes(r, p, from, to) ==
  /\ kern[r].conns[p].cstate = from
  /\ kern' = [kern EXCEPT ![r].conns[p].cstate = to]
  /\ UNCHANGED <<conf, shown, pc, flags, adjust_with_progress, deferred_cmds, done, scheduled, executed,
                 stage, last, stage_rv, skip_further_deferred_command, ret, failures, timeouts>>

\* The peer answers; the connection breaks.
peer_connects(r, p) == pc = "run" /\ connection_changes(r, p, "Connecting", "Connected") /\ UNCHANGED losses
connection_lost(r, p) ==
  /\ pc = "run" /\ losses < MaxLosses /\ losses' = losses + 1
  /\ connection_changes(r, p, "Connected", "Connecting")

-----------------------------------------------------------------------------
(* run_deferred_cmds() *)

\* What a call of drbdsetup may do: <<failed, resource afterwards, failures,
\* timeouts>>.
Succeeds(d) == IF Accepts(d) THEN {<<FALSE, Effect(d), 0, 0>>} ELSE {}
Fails(d) ==
  LET k == kern[d.res]
  IN IF ~ Accepts(d) THEN {<<TRUE, k, 0, 0>>}
     ELSE IF failures < MaxFailures THEN {<<TRUE, k, 1, 0>>} ELSE {}

\* adm_wait_c(): a timeout is no failure
WaitConnect(d) ==
  Fails(d) \union
  {<<FALSE, kern[d.res], 0, IF x[2].conns[d.conn].cstate = "Connected" THEN 0 ELSE 1>> : x \in Succeeds(d)}

\* One call for each path of the connection; the result is the last one's.
IteratePaths(d) ==
  LET lost == {F \in SUBSET d.arg : F # {} /\ Cardinality(F) <= MaxFailures - failures}
      final == CHOOSE q \in d.arg : \A o \in d.arg : o <= q
  IN IF ~ Accepts(d) THEN Fails(d)
     ELSE {<<final \in F, [kern[d.res] EXCEPT !.conns[d.conn].paths = @ \union (d.arg \ F)],
             Cardinality(F), 0>> : F \in lost} \union Succeeds(d)

call_cmd_fn(d) ==
  IF d.cmd = "wait-connect" THEN WaitConnect(d)
  ELSE IF d.cmd = "new-path" THEN IteratePaths(d)
  ELSE Succeeds(d) \union Fails(d)

has_unmet_dependency(d) == d.dep # 0 /\ d.dep \notin done

\* the commands of a stage after the i-th one that can be executed now
Pending(st, i) ==
  {j \in DOMAIN deferred_cmds : /\ j > i /\ j \notin done
                                /\ CommandStage[deferred_cmds[j].cmd] = Stages[st]
                                /\ ~ has_unmet_dependency(deferred_cmds[j])}

\* the loop of _run_deferred_cmds()
run_deferred_cmd ==
  /\ pc = "run" /\ stage # 0
  /\ \E i \in Pending(stage, last) :
       LET d == deferred_cmds[i]
       IN /\ \A j \in Pending(stage, last) : i <= j
          /\ last' = i
          /\ executed' = executed + 1
          /\ \/ /\ Object(d) \in skip_further_deferred_command
                /\ UNCHANGED <<kern, done, stage_rv, skip_further_deferred_command, failures, timeouts>>
             \/ /\ Object(d) \notin skip_further_deferred_command
                /\ \E x \in call_cmd_fn(d) :
                     /\ kern' = [kern EXCEPT ![d.res] = x[2]]
                     /\ stage_rv' = (stage_rv \/ x[1])
                     /\ skip_further_deferred_command' =
                          IF x[1] /\ Stages[stage] \in Prerequisite
                          THEN skip_further_deferred_command \union {Object(d)}
                          ELSE skip_further_deferred_command
                     /\ failures' = failures + x[3]
                     /\ timeouts' = timeouts + x[4]
                /\ done' = done \union {i}
  /\ UNCHANGED <<conf, shown, pc, flags, adjust_with_progress, deferred_cmds, scheduled, stage, ret, losses>>

\* Mutant: the stages are passed once.
SinglePass ==
  /\ pc = "run"
  /\ stage # 0 => Pending(stage, last) = {}
  /\ LET ahead == {st \in stage + 1 .. Len(Stages) : Pending(st, 0) # {}}
     IN \/ ahead # {} /\ stage' \in ahead /\ (\A st \in ahead : stage' <= st) /\ UNCHANGED pc
        \/ ahead = {} /\ pc' = "end" /\ stage' = 0
  /\ ret' = IF stage_rv THEN 1 ELSE ret
  /\ stage_rv' = FALSE /\ last' = 0
  /\ UNCHANGED <<conf, kern, shown, flags, adjust_with_progress, deferred_cmds, done, scheduled,
                 executed, skip_further_deferred_command, failures, losses, timeouts>>

\* The next stage with something to execute.  A failure ends the run at the
\* end of its stage, except under adjust-with-progress.
next_stage ==
  /\ pc = "run"
  /\ stage # 0 => Pending(stage, last) = {}
  /\ LET ahead == {st \in stage + 1 .. Len(Stages) : Pending(st, 0) # {}}
     IN \/ /\ stage_rv /\ ~ adjust_with_progress
           /\ pc' = "end" /\ ret' = 1
           /\ UNCHANGED <<stage, last, stage_rv>>
        \/ /\ ~ stage_rv \/ adjust_with_progress
           /\ ret' = IF stage_rv THEN 1 ELSE ret
           /\ stage_rv' = FALSE /\ last' = 0
           /\ \/ /\ ahead # {} /\ UNCHANGED pc
                 /\ stage' \in ahead /\ \A st \in ahead : stage' <= st
              \/ /\ ahead = {} /\ executed < scheduled /\ UNCHANGED pc
                 /\ stage' = 0
              \/ /\ ahead = {} /\ executed >= scheduled /\ pc' = "end"
                 /\ stage' = 0
  /\ UNCHANGED <<conf, kern, shown, flags, adjust_with_progress, deferred_cmds, done, scheduled,
                 executed, skip_further_deferred_command, failures, losses, timeouts>>

-----------------------------------------------------------------------------
(* The specification *)

\* the commands have been scheduled from the output of drbdsetup show
Init ==
  /\ flags \in FlagSets /\ adjust_with_progress \in Progress
  /\ \E c \in Cases :
       /\ conf = c.conf /\ kern = c.kern /\ shown = c.kern
       /\ \E p \in {Plan(c.conf, c.kern, flags)} :
            /\ deferred_cmds = p.cmds
            /\ done = p.cancelled
            /\ scheduled = ScheduledCount(p)
  /\ pc = "run" /\ executed = 0
  /\ stage = 0 /\ last = 0 /\ stage_rv = FALSE /\ ret = 0
  /\ skip_further_deferred_command = {}
  /\ failures = 0 /\ losses = 0 /\ timeouts = 0

Drbdadm == run_deferred_cmd \/ next_stage

Next ==
  \/ Drbdadm
  \/ \E r \in Resources : \E p \in DOMAIN kern[r].conns : peer_connects(r, p) \/ connection_lost(r, p)

\* drbdadm keeps running: every drbdsetup command returns, wait-connect by
\* its timeout
Spec == Init /\ [][Next]_vars /\ WF_vars(Drbdadm)

-----------------------------------------------------------------------------
(* Properties *)

TypeOK ==
  /\ pc \in {"run", "end"} /\ ret \in {0, 1} /\ stage_rv \in BOOLEAN
  /\ \A i \in DOMAIN deferred_cmds : deferred_cmds[i].dep \in 0 .. i - 1
  /\ done \subseteq DOMAIN deferred_cmds
  /\ stage \in 0 .. Len(Stages) /\ last \in 0 .. Len(deferred_cmds)
  /\ scheduled \in 0 .. Len(deferred_cmds) /\ executed \in Nat
  /\ failures \in 0 .. MaxFailures /\ losses \in 0 .. MaxLosses

\* The resource in the kernel module is the configured one.
Matches(c, k) ==
  /\ k.exists /\ k.opts = c.opts
  /\ DOMAIN k.vols = DOMAIN c.vols
  /\ \A v \in DOMAIN c.vols : /\ k.vols[v].minor = c.vols[v].minor /\ k.vols[v].disk = c.vols[v].disk
                              /\ c.vols[v].disk # None => k.vols[v] = c.vols[v]
  /\ DOMAIN k.conns = DOMAIN c.conns
  /\ \A p \in DOMAIN c.conns : /\ k.conns[p].transport = c.conns[p].transport
                               /\ k.conns[p].net = c.conns[p].net /\ k.conns[p].paths = c.conns[p].paths
                               /\ k.conns[p].pd = c.conns[p].pd
                               /\ k.conns[p].cstate # "StandAlone"

\* "drbdadm adjust" that reports success has adjusted everything: the kernel
\* module matches the configuration, and a second adjust would not find
\* anything to do (adjust_drbd(), run_deferred_cmds()).
SuccessMeansAdjusted ==
  (pc = "end" /\ ret = 0 /\ flags = {"disk", "net"})
  => /\ \A r \in Resources : Matches(conf[r], kern[r])
     /\ Plan(conf, kern, flags).cmds = <<>>

\* The commands are scheduled in an order that the kernel module accepts: if
\* none fails for another reason, adjust succeeds.
EveryCommandAccepted == (pc = "end" /\ failures = 0) => ret = 0

\* A volume keeps its minor number.  A connection that is up keeps one of
\* its paths, if it has several: only a single path is replaced with a
\* disconnect ("nr_running == 1" in adjust_paths()).
KeepsMinors(c, k) == \A v \in DOMAIN c.vols \intersect Volumes(k) : c.vols[v].minor = k.vols[v].minor
KeepsAPath(c, k) ==
  \A p \in DOMAIN c.conns \intersect DOMAIN k.conns :
    (/\ Cardinality(k.conns[p].paths) > 1 /\ k.conns[p].cstate # "StandAlone"
     /\ k.conns[p].transport = c.conns[p].transport)
    => k.conns[p].paths \intersect c.conns[p].paths # {}

\* The kernel module accepts all commands, in the order in which they are
\* executed (adjust_drbd(), run_deferred_cmds()), unless a minor number
\* changes or all of several paths are replaced at once.
NoCommandRefused ==
  (\A r \in Resources : KeepsMinors(conf[r], shown[r]) /\ KeepsAPath(conf[r], shown[r])) => EveryCommandAccepted

ConnectedIn(k) == {p \in DOMAIN k.conns : k.conns[p].cstate = "Connected"}

\* A resource that has a second connection, established or to be
\* established by this adjust, is never left without an established one:
\* connections are taken down one after the other, a peer is removed after
\* the others are connected (adjust_net(), adjust_conn()).
StaysConnected ==
  \A r \in Resources :
    LET k == shown[r]
        spare(p) == \/ p \in ConnectedIn(k)
                    \/ p \in DOMAIN conf[r].conns /\ (p \notin DOMAIN k.conns \/ k.conns[p].cstate = "StandAlone")
    IN (/\ failures = 0 /\ losses = 0 /\ timeouts = 0
        /\ k.exists /\ ConnectedIn(k) # {}
        /\ \E p \in DOMAIN conf[r].conns, q \in DOMAIN conf[r].conns \union DOMAIN k.conns :
             p # q /\ spare(p) /\ spare(q))
       => ConnectedIn(kern[r]) # {}

\* A command of this resource is not skipped.
Unskipped(i) == Object(deferred_cmds[i]) \notin skip_further_deferred_command

\* "However if we just failed to adjust some options, or failed to attach, we
\* still want to adjust other options, or try to connect": under
\* adjust-with-progress every command has been executed in the end, unless
\* the commands of a resource are skipped.  Then the other resources' are
\* executed as far as they wait for no other command: the skipped commands
\* are counted again in each pass and may end the loop (run_deferred_cmds()).
OthersExecuted ==
  (pc = "end" /\ adjust_with_progress)
  => \A i \in DOMAIN deferred_cmds :
       (Unskipped(i) /\ (skip_further_deferred_command = {} \/ deferred_cmds[i].dep = 0)) => i \in done

\* The same for all commands of the other resources.
OtherResourcesFinished ==
  (pc = "end" /\ adjust_with_progress) => \A i \in DOMAIN deferred_cmds : Unskipped(i) => i \in done

\* drbdadm adjust ends, whatever fails.
AdjustEnds == <>(pc = "end")
=============================================================================
