--------------------------- MODULE ResourceDirectory ---------------------------
(***************************************************************************)
(* The resource directory of DRBDmon (user/drbdmon/objects): the tree of   *)
(* resources, connections and volumes that the lines of "drbdsetup         *)
(* events2" build, the marks, warnings and alerts of its objects, and the  *)
(* list of the resources that have a problem.                              *)
(*                                                                         *)
(* A line changes one object.  Its flags are computed anew, and those of   *)
(* its parents only where the change may matter to them, so that what is   *)
(* displayed depends on the flags that earlier lines have left behind.     *)
(* Synchronization percentages, sync-state and minor numbers have no       *)
(* influence on the flags and are left out.                                *)
(***************************************************************************)
EXTENDS Naturals, FiniteSets, Functions

CONSTANTS
  Names,        \* names of resources
  Volumes,      \* volume numbers
  Connections,  \* connection names, as numbers: the order of the map
  DeviceProps, PeerDeviceProps,   \* bound: the states of volumes that lines report
  ConnectionProps, Roles,         \* bound: the same of connections and resources
  MaxObjects    \* bound on the objects of the tree

\* The kernel always knows the role of the local resource.
ASSUME DirectoryAssumption ==
  /\ Connections \subseteq Nat /\ Volumes \subseteq Nat /\ MaxObjects \in Nat
  /\ DeviceProps \union PeerDeviceProps
       \subseteq [disk : STRING, client : BOOLEAN, repl : STRING, quorum_alert : BOOLEAN]
  /\ ConnectionProps \subseteq [cstate : STRING, role : STRING]
  /\ Roles \subseteq {"Primary", "Secondary"}

VARIABLES
  rsc_map,      \* the resources by name
  prb_rsc_map   \* the names of the resources listed as problems

vars == <<rsc_map, prb_rsc_map>>

None == [x \in {} |-> x]

-----------------------------------------------------------------------------
(* DrbdVolume *)

WarnRepl == {"PausedSyncS", "PausedSyncT", "StartingSyncS", "StartingSyncT", "SyncSource", "SyncTarget",
             "VerifyS", "VerifyT", "WFBitMapS", "WFBitMapT", "WFSyncUUID"}

\* update_state_flags() of a volume; link: "local", or the connection to the
\* peer is "ok" or "faulty" (has_warn_state())
VolumeFlags(vol, link) ==
  LET disk_alert == CASE vol.disk = "UpToDate" -> FALSE
                      [] vol.disk = "Diskless" -> ~ vol.client
                      [] vol.disk = "DUnknown" -> link # "faulty"
                      [] OTHER -> TRUE
      repl_alert == CASE vol.repl \in {"Unknown", "Off"} -> link = "ok"
                      [] OTHER -> vol.repl \notin WarnRepl \union {"Established"}
  IN IF disk_alert \/ repl_alert \/ vol.quorum_alert THEN "ALERT"
     ELSE IF vol.repl \in WarnRepl THEN "WARN"
     ELSE "NORM"

\* DrbdVolume::update() with the properties of a line, update_state_flags()
UpdatedVolume(props, link) ==
  [disk |-> props.disk, client |-> props.client, repl |-> props.repl, quorum_alert |-> props.quorum_alert,
   state |-> VolumeFlags(props, link)]

Marked(obj) == obj.state # "NORM"

-----------------------------------------------------------------------------
(* DrbdConnection *)

\* conn_alert or role_alert
ConnectionAlert(conn) == conn.cstate # "Connected" \/ conn.role = "Unknown"

Link(conn) == IF conn.state \in {"WARN", "ALERT"} THEN "faulty" ELSE "ok"

\* child_state_flags_changed() of a connection
ConnectionChildrenChanged(conn) ==
  IF ConnectionAlert(conn) THEN conn
  ELSE [conn EXCEPT !.state = IF \E v \in DOMAIN conn.vols : Marked(conn.vols[v]) THEN "MARK" ELSE "NORM"]

\* update_state_flags() of a connection
ConnectionFlags(conn) ==
  LET own == IF ConnectionAlert(conn) THEN [conn EXCEPT !.state = "ALERT"] ELSE conn
  IN IF conn.state # "NORM" THEN ConnectionChildrenChanged(own) ELSE own

-----------------------------------------------------------------------------
(* DrbdResource *)

\* child_state_flags_changed() of a resource.  The flags of its volumes are
\* updated, those of its connections only up to the first that is marked,
\* and only if no volume is.
ResourceChildrenChanged(rsc) ==
  LET vols  == [v \in DOMAIN rsc.vols |-> UpdatedVolume(rsc.vols[v], "local")]
      quiet == \A v \in DOMAIN vols : ~ Marked(vols[v])
      visit == {c \in DOMAIN rsc.conns : quiet /\ \A d \in DOMAIN rsc.conns :
                                                    d < c => ~ Marked(ConnectionFlags(rsc.conns[d]))}
      conns == [c \in DOMAIN rsc.conns |-> IF c \in visit THEN ConnectionFlags(rsc.conns[c]) ELSE rsc.conns[c]]
  IN [rsc EXCEPT !.vols = vols, !.conns = conns,
                 !.state = IF \E v \in DOMAIN vols : vols[v].quorum_alert THEN "ALERT"
                           ELSE IF ~ quiet \/ \E c \in visit : Marked(conns[c]) THEN "MARK"
                           ELSE "NORM"]

\* update_state_flags() of a resource
ResourceFlags(rsc) ==
  LET own == IF rsc.role = "Unknown" THEN [rsc EXCEPT !.state = "ALERT"] ELSE rsc
  IN IF rsc.state # "NORM" THEN ResourceChildrenChanged(own) ELSE own

-----------------------------------------------------------------------------
(* ResourceDirectory *)

\* bound: the objects of the tree
Room ==
  LET vols  == UNION {{n} \X DOMAIN rsc_map[n].vols : n \in DOMAIN rsc_map}
      conns == UNION {{n} \X DOMAIN rsc_map[n].conns : n \in DOMAIN rsc_map}
      peers == UNION {{nc} \X DOMAIN rsc_map[nc[1]].conns[nc[2]].vols : nc \in conns}
  IN Cardinality(DOMAIN rsc_map) + Cardinality(vols) + Cardinality(conns) + Cardinality(peers) < MaxObjects

\* Mutant: a resource is taken off the list when it improves.
RemovedWhenImproved(n, rsc) ==
  /\ rsc_map' = [rsc_map EXCEPT ![n] = rsc]
  /\ prb_rsc_map' = IF Marked(rsc) /\ ~ Marked(rsc_map[n]) THEN prb_rsc_map \union {n}
                    ELSE IF rsc.state # rsc_map[n].state THEN prb_rsc_map \ {n}
                    ELSE prb_rsc_map

\* the resource named n becomes rsc
problem_resources_update(n, rsc) ==
  /\ rsc_map' = [rsc_map EXCEPT ![n] = rsc]
  /\ prb_rsc_map' = IF Marked(rsc) /\ ~ Marked(rsc_map[n]) THEN prb_rsc_map \union {n}
                    ELSE IF ~ Marked(rsc) /\ Marked(rsc_map[n]) THEN prb_rsc_map \ {n}
                    ELSE prb_rsc_map

\* nothing is told to the parents
Keep(n, rsc) == rsc_map' = [rsc_map EXCEPT ![n] = rsc] /\ UNCHANGED prb_rsc_map

\* the flags changed from or to NORM
Crossed(old, new) == Marked(old) # Marked(new)

\* an object of a resource, a connection or a resource itself is entered
With(f, x, obj) == [y \in DOMAIN f \union {x} |-> IF y = x THEN obj ELSE f[y]]
Without(f, x) == Restrict(f, DOMAIN f \ {x})

create_resource(n, role) ==
  /\ n \notin DOMAIN rsc_map /\ Room
  /\ LET rsc == ResourceFlags([role |-> role, state |-> "ALERT", vols |-> None, conns |-> None])
     IN /\ rsc_map' = With(rsc_map, n, rsc)
        /\ prb_rsc_map' = IF Marked(rsc) THEN prb_rsc_map \union {n} ELSE prb_rsc_map

create_connection(n, c, props) ==
  /\ n \in DOMAIN rsc_map /\ c \notin DOMAIN rsc_map[n].conns /\ Room
  /\ LET conn == ConnectionFlags([cstate |-> props.cstate, role |-> props.role, state |-> "ALERT", vols |-> None])
     IN problem_resources_update(n, ResourceChildrenChanged([rsc_map[n] EXCEPT !.conns = With(@, c, conn)]))

create_device(n, v, props) ==
  /\ n \in DOMAIN rsc_map /\ v \notin DOMAIN rsc_map[n].vols /\ Room
  /\ problem_resources_update(n, ResourceChildrenChanged(
       [rsc_map[n] EXCEPT !.vols = With(@, v, UpdatedVolume(props, "local"))]))

create_peer_device(n, c, v, props) ==
  /\ n \in DOMAIN rsc_map /\ c \in DOMAIN rsc_map[n].conns /\ Room
  /\ v \notin DOMAIN rsc_map[n].conns[c].vols
  /\ LET old == rsc_map[n].conns[c]
         vol == UpdatedVolume(props, Link(old))
         new == ConnectionChildrenChanged([old EXCEPT !.vols = With(old.vols, v, vol)])
     IN problem_resources_update(n, ResourceChildrenChanged([rsc_map[n] EXCEPT !.conns[c] = new]))

update_connection(n, c, props) ==
  /\ n \in DOMAIN rsc_map /\ c \in DOMAIN rsc_map[n].conns
  /\ LET old == rsc_map[n].conns[c]
         new == ConnectionFlags([old EXCEPT !.cstate = props.cstate, !.role = props.role])
         rsc == [rsc_map[n] EXCEPT !.conns[c] = new]
     IN \/ Crossed(old, new) /\ problem_resources_update(n, ResourceChildrenChanged(rsc))
        \/ ~ Crossed(old, new) /\ Keep(n, rsc)

update_device(n, v, props) ==
  /\ n \in DOMAIN rsc_map /\ v \in DOMAIN rsc_map[n].vols
  /\ problem_resources_update(n, ResourceChildrenChanged(
       [rsc_map[n] EXCEPT !.vols[v] = UpdatedVolume(props, "local")]))

\* Mutant: the resource is not told of a connection that is marked.
ConnectionNotCrossed(n, c, v, props) ==
  /\ n \in DOMAIN rsc_map /\ c \in DOMAIN rsc_map[n].conns /\ v \in DOMAIN rsc_map[n].conns[c].vols
  /\ LET old  == rsc_map[n].conns[c]
         vol  == UpdatedVolume(props, Link(old))
         conn == [old EXCEPT !.vols[v] = vol]
         new  == ConnectionChildrenChanged(conn)
     IN \/ ~ Crossed(old.vols[v], vol) /\ Keep(n, [rsc_map[n] EXCEPT !.conns[c] = conn])
        \/ Crossed(old.vols[v], vol) /\ Keep(n, [rsc_map[n] EXCEPT !.conns[c] = new])

update_peer_device(n, c, v, props) ==
  /\ n \in DOMAIN rsc_map /\ c \in DOMAIN rsc_map[n].conns /\ v \in DOMAIN rsc_map[n].conns[c].vols
  /\ LET old  == rsc_map[n].conns[c]
         vol  == UpdatedVolume(props, Link(old))
         conn == [old EXCEPT !.vols[v] = vol]
         new  == ConnectionChildrenChanged(conn)
         rsc  == [rsc_map[n] EXCEPT !.conns[c] = new]
     IN \/ ~ Crossed(old.vols[v], vol) /\ Keep(n, [rsc_map[n] EXCEPT !.conns[c] = conn])
        \/ Crossed(old.vols[v], vol) /\ ~ Crossed(old, new) /\ Keep(n, rsc)
        \/ Crossed(old.vols[v], vol) /\ Crossed(old, new) /\ problem_resources_update(n, ResourceChildrenChanged(rsc))

update_resource(n, role) ==
  /\ n \in DOMAIN rsc_map
  /\ problem_resources_update(n, ResourceFlags([rsc_map[n] EXCEPT !.role = role]))

rename_resource(n, new_name) ==
  /\ n \in DOMAIN rsc_map /\ new_name \notin DOMAIN rsc_map
  /\ rsc_map' = With(Without(rsc_map, n), new_name, rsc_map[n])
  /\ prb_rsc_map' = (prb_rsc_map \ {n}) \union (IF n \in prb_rsc_map THEN {new_name} ELSE {})

\* an object is removed; only one that was marked concerns its parents
destroy_connection(n, c) ==
  /\ n \in DOMAIN rsc_map /\ c \in DOMAIN rsc_map[n].conns
  /\ LET rsc == [rsc_map[n] EXCEPT !.conns = Without(@, c)]
     IN \/ Marked(rsc_map[n].conns[c]) /\ problem_resources_update(n, ResourceChildrenChanged(rsc))
        \/ ~ Marked(rsc_map[n].conns[c]) /\ Keep(n, rsc)

destroy_device(n, v) ==
  /\ n \in DOMAIN rsc_map /\ v \in DOMAIN rsc_map[n].vols
  /\ LET rsc == [rsc_map[n] EXCEPT !.vols = Without(@, v)]
     IN \/ Marked(rsc_map[n].vols[v]) /\ problem_resources_update(n, ResourceChildrenChanged(rsc))
        \/ ~ Marked(rsc_map[n].vols[v]) /\ Keep(n, rsc)

destroy_peer_device(n, c, v) ==
  /\ n \in DOMAIN rsc_map /\ c \in DOMAIN rsc_map[n].conns /\ v \in DOMAIN rsc_map[n].conns[c].vols
  /\ LET conn == [rsc_map[n].conns[c] EXCEPT !.vols = Without(@, v)]
     IN \/ /\ Marked(rsc_map[n].conns[c].vols[v])
           /\ problem_resources_update(n, ResourceChildrenChanged(
                [rsc_map[n] EXCEPT !.conns[c] = ConnectionChildrenChanged(conn)]))
        \/ /\ ~ Marked(rsc_map[n].conns[c].vols[v])
           /\ Keep(n, [rsc_map[n] EXCEPT !.conns[c] = conn])

destroy_resource(n) ==
  /\ n \in DOMAIN rsc_map
  /\ rsc_map' = Without(rsc_map, n)
  /\ prb_rsc_map' = prb_rsc_map \ {n}

\* A line about an object that is not there, or creates one that is: the
\* handler throws, and DrbdMon starts again with an empty directory.
out_of_sync == rsc_map' = None /\ prb_rsc_map' = {}

-----------------------------------------------------------------------------
(* The specification *)

Init == rsc_map = None /\ prb_rsc_map = {}

Next ==
  \/ \E n \in Names :
       \/ \E role \in Roles : create_resource(n, role) \/ update_resource(n, role)
       \/ \E m \in Names : rename_resource(n, m)
       \/ destroy_resource(n)
       \/ \E v \in Volumes : \/ \E props \in DeviceProps : create_device(n, v, props) \/ update_device(n, v, props)
                             \/ destroy_device(n, v)
       \/ \E c \in Connections :
            \/ \E props \in ConnectionProps : create_connection(n, c, props) \/ update_connection(n, c, props)
            \/ destroy_connection(n, c)
            \/ \E v \in Volumes :
                 \/ \E props \in PeerDeviceProps :
                      create_peer_device(n, c, v, props) \/ update_peer_device(n, c, v, props)
                 \/ destroy_peer_device(n, c, v)
  \/ out_of_sync

Spec == Init /\ [][Next]_vars

-----------------------------------------------------------------------------
(* Properties *)

\* The mark of every connection and resource is the one that computing it
\* anew from its own state and from the flags of all its children yields:
\* the handlers lose nothing by updating parents only when a flag changes
\* from or to NORM (update_connection(), update_peer_device(), destroy_*()).
FlagsPropagated ==
  \A n \in DOMAIN rsc_map :
    LET rsc == rsc_map[n]
        any(objs) == \E x \in DOMAIN objs : Marked(objs[x])
    IN /\ \A c \in DOMAIN rsc.conns :
            rsc.conns[c].state = IF ConnectionAlert(rsc.conns[c]) THEN "ALERT"
                                 ELSE IF any(rsc.conns[c].vols) THEN "MARK" ELSE "NORM"
       /\ rsc.state = IF \E v \in DOMAIN rsc.vols : rsc.vols[v].quorum_alert THEN "ALERT"
                      ELSE IF any(rsc.vols) \/ any(rsc.conns) THEN "MARK" ELSE "NORM"

\* what DRBD reports of a resource is a problem: a volume without a usable
\* disk or quorum, a connection that is down, a peer's volume that is not
\* replicated to
PeerProblem(conn) ==
  ConnectionAlert(conn) \/ \E v \in DOMAIN conn.vols : VolumeFlags(conn.vols[v], "ok") # "NORM"
Problem(rsc) ==
  \/ \E v \in DOMAIN rsc.vols : VolumeFlags(rsc.vols[v], "local") # "NORM"
  \/ \E c \in DOMAIN rsc.conns : PeerProblem(rsc.conns[c])

\* The state of the peer's volumes is known where the connection is up.
Settled(rsc) ==
  \A c \in DOMAIN rsc.conns : ConnectionAlert(rsc.conns[c]) \/
    \A v \in DOMAIN rsc.conns[c].vols : /\ rsc.conns[c].vols[v].disk # "DUnknown"
                                        /\ rsc.conns[c].vols[v].repl \notin {"Off", "Unknown"}

\* The list of problem resources has exactly the resources for which DRBD
\* reports a problem, whatever lines led there, once the state of the peer's
\* volumes is known (problem_resources_update(), rename_resource()).
ProblemsListed ==
  /\ prb_rsc_map \subseteq DOMAIN rsc_map
  /\ \A n \in DOMAIN rsc_map : Settled(rsc_map[n]) => (n \in prb_rsc_map <=> Problem(rsc_map[n]))

\* The same without waiting for the peer's volumes: a DRBDmon that has been
\* running shows the problems that one started now would show.
FreshMonitorAgrees == \A n \in DOMAIN rsc_map : n \in prb_rsc_map <=> Problem(rsc_map[n])
=============================================================================
