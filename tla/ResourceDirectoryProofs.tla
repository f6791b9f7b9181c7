------------------------ MODULE ResourceDirectoryProofs ------------------------
(***************************************************************************)
(* Proofs about DRBDmon's resource directory, for any number of resources, *)
(* volumes and connections: updating the marks of parents only where a     *)
(* child's flag changes from or to NORM loses nothing, and the list of the *)
(* problem resources is right.                                             *)
(***************************************************************************)
EXTENDS ResourceDirectory, WellFoundedInduction, TLAPS

States == {"ALERT", "WARN", "MARK", "NORM"}

Volume == [disk : STRING, client : BOOLEAN, repl : STRING, quorum_alert : BOOLEAN, state : States]

VolumeMap == UNION {[D -> Volume] : D \in SUBSET Volumes}

Connection == [cstate : STRING, role : STRING, state : States, vols : VolumeMap]

ConnectionMap == UNION {[D -> Connection] : D \in SUBSET Connections}

Resource == [role : Roles, state : States, vols : VolumeMap, conns : ConnectionMap]

AnyMarked(objs) == \E x \in DOMAIN objs : Marked(objs[x])

ConnectionState(conn) ==
  IF ConnectionAlert(conn) THEN "ALERT" ELSE IF AnyMarked(conn.vols) THEN "MARK" ELSE "NORM"

ResourceState(rsc) ==
  IF \E v \in DOMAIN rsc.vols : rsc.vols[v].quorum_alert THEN "ALERT"
  ELSE IF AnyMarked(rsc.vols) \/ AnyMarked(rsc.conns) THEN "MARK" ELSE "NORM"

\* The flags of a peer's volume were computed when its connection was up or
\* when it was not.
PeerVolumeOK(vol) == vol.state \in {VolumeFlags(vol, "ok"), VolumeFlags(vol, "faulty")}

ConnectionOK(conn) ==
  /\ conn \in Connection
  /\ conn.state = ConnectionState(conn)
  /\ \A v \in DOMAIN conn.vols : PeerVolumeOK(conn.vols[v])

\* a resource whose children have the flags they should have
ChildrenOK(rsc) ==
  /\ rsc \in Resource
  /\ \A v \in DOMAIN rsc.vols : rsc.vols[v].state = VolumeFlags(rsc.vols[v], "local")
  /\ \A c \in DOMAIN rsc.conns : ConnectionOK(rsc.conns[c])

ResourceOK(rsc) == ChildrenOK(rsc) /\ rsc.state = ResourceState(rsc)

IInv ==
  /\ DOMAIN rsc_map \subseteq Names
  /\ rsc_map \in [DOMAIN rsc_map -> Resource]
  /\ \A n \in DOMAIN rsc_map : ResourceOK(rsc_map[n])
  /\ prb_rsc_map = {n \in DOMAIN rsc_map : Marked(rsc_map[n])}

-----------------------------------------------------------------------------
(* Lemmas: functions and volumes *)

\* The flags of a volume are one of the states.
LEMMA FlagsAreStates == \A vol, link : VolumeFlags(vol, link) \in States
BY DEF VolumeFlags, States

\* A volume that was updated with the properties of a line.
LEMMA UpdatedVolumeOK ==
  ASSUME NEW props, NEW link,
         props.disk \in STRING, props.client \in BOOLEAN, props.repl \in STRING, props.quorum_alert \in BOOLEAN
  PROVE  /\ UpdatedVolume(props, link) \in Volume
         /\ UpdatedVolume(props, link).state = VolumeFlags(UpdatedVolume(props, link), link)
<1> DEFINE f == VolumeFlags(props, link)
           u == [disk |-> props.disk, client |-> props.client, repl |-> props.repl,
                 quorum_alert |-> props.quorum_alert, state |-> f]
<1>1. f \in States BY FlagsAreStates
<1>2. UpdatedVolume(props, link) = u BY DEF UpdatedVolume
<1> HIDE DEF f
<1>3. u \in Volume BY <1>1 DEF Volume
<1>4. u.disk = props.disk /\ u.client = props.client /\ u.repl = props.repl
      /\ u.quorum_alert = props.quorum_alert /\ u.state = f
  OBVIOUS
<1> HIDE DEF u
<1>5. VolumeFlags(u, link) = VolumeFlags(props, link) BY <1>4 DEF VolumeFlags
<1> QED BY <1>2, <1>3, <1>4, <1>5 DEF f

\* Updating the flags of a volume that has them already changes nothing.
LEMMA UpdatedVolumeSame ==
  ASSUME NEW vol \in Volume, NEW link, vol.state = VolumeFlags(vol, link)
  PROVE  UpdatedVolume(vol, link) = vol
BY DEF UpdatedVolume, Volume

-----------------------------------------------------------------------------
(* Lemmas: connections *)

\* child_state_flags_changed() computes the state of a connection whose own
\* alert is set already.
LEMMA ConnectionChildren ==
  ASSUME NEW conn \in Connection, ConnectionAlert(conn) => conn.state = "ALERT"
  PROVE  /\ ConnectionChildrenChanged(conn) \in Connection
         /\ ConnectionChildrenChanged(conn).vols = conn.vols
         /\ ConnectionChildrenChanged(conn).cstate = conn.cstate
         /\ ConnectionChildrenChanged(conn).role = conn.role
         /\ ConnectionChildrenChanged(conn).state = ConnectionState(conn)
<1>1. CASE ConnectionAlert(conn) BY <1>1 DEF ConnectionChildrenChanged, ConnectionState
<1>2. CASE ~ ConnectionAlert(conn)
  <2> DEFINE s == IF \E v \in DOMAIN conn.vols : Marked(conn.vols[v]) THEN "MARK" ELSE "NORM"
             r == [conn EXCEPT !.state = s]
  <2>1. s \in States /\ s = ConnectionState(conn) BY <1>2 DEF States, ConnectionState, AnyMarked
  <2>2. ConnectionChildrenChanged(conn) = r BY <1>2 DEF ConnectionChildrenChanged
  <2> HIDE DEF s
  <2>3. r \in Connection /\ r.vols = conn.vols /\ r.cstate = conn.cstate /\ r.role = conn.role /\ r.state = s
    BY <2>1 DEF Connection
  <2> QED BY <2>1, <2>2, <2>3
<1> QED BY <1>1, <1>2

\* The same for update_state_flags(), which computes the children's part
\* only if the connection is marked.
LEMMA ConnectionOwn ==
  ASSUME NEW conn \in Connection, conn.state = "NORM" => ~ AnyMarked(conn.vols)
  PROVE  /\ ConnectionFlags(conn) \in Connection
         /\ ConnectionFlags(conn).vols = conn.vols
         /\ ConnectionFlags(conn).cstate = conn.cstate
         /\ ConnectionFlags(conn).role = conn.role
         /\ ConnectionFlags(conn).state = ConnectionState(conn)
<1> DEFINE own == IF ConnectionAlert(conn) THEN [conn EXCEPT !.state = "ALERT"] ELSE conn
<1>1. own \in Connection /\ own.vols = conn.vols /\ own.cstate = conn.cstate /\ own.role = conn.role
      /\ (ConnectionAlert(conn) => own.state = "ALERT")
      /\ (~ ConnectionAlert(conn) => own.state = conn.state)
  BY DEF Connection, States
<1>2. ConnectionFlags(conn) = IF conn.state # "NORM" THEN ConnectionChildrenChanged(own) ELSE own
  BY DEF ConnectionFlags
<1> HIDE DEF own
<1>3. ConnectionAlert(own) = ConnectionAlert(conn) /\ ConnectionState(own) = ConnectionState(conn)
  BY <1>1 DEF ConnectionAlert, ConnectionState
<1>4. CASE conn.state # "NORM" BY <1>1, <1>2, <1>3, <1>4, ConnectionChildren
<1>5. CASE conn.state = "NORM"
  <2>1. own.state = ConnectionState(conn) BY <1>1, <1>5 DEF ConnectionState
  <2> QED BY <1>1, <1>2, <1>5, <2>1
<1> QED BY <1>4, <1>5

\* A connection that has its flags keeps them when they are updated.
LEMMA ConnectionFlagsSame == ASSUME NEW conn, ConnectionOK(conn) PROVE ConnectionFlags(conn) = conn
<1>1. conn \in Connection /\ conn.state = ConnectionState(conn) BY DEF ConnectionOK
<1>2. CASE ConnectionAlert(conn)
  <2>1. conn.state = "ALERT" BY <1>1, <1>2 DEF ConnectionState
  <2>2. [conn EXCEPT !.state = "ALERT"] = conn BY <1>1, <2>1 DEF Connection
  <2> QED BY <1>2, <2>1, <2>2 DEF ConnectionFlags, ConnectionChildrenChanged
<1>3. CASE ~ ConnectionAlert(conn)
  <2> DEFINE s == IF \E v \in DOMAIN conn.vols : Marked(conn.vols[v]) THEN "MARK" ELSE "NORM"
  <2>1. conn.state = s BY <1>1, <1>3 DEF ConnectionState, AnyMarked
  <2>2. ConnectionFlags(conn) = IF conn.state # "NORM" THEN [conn EXCEPT !.state = s] ELSE conn
    BY <1>3 DEF ConnectionFlags, ConnectionChildrenChanged
  <2> HIDE DEF s
  <2>3. [conn EXCEPT !.state = s] = conn BY <1>1, <2>1 DEF Connection
  <2> QED BY <2>2, <2>3
<1> QED BY <1>2, <1>3

-----------------------------------------------------------------------------
(* Lemmas: resources *)

\* Connections are visited in the order of the map: where any is marked, a
\* first one is.
LEMMA FirstMarked ==
  ASSUME NEW T \in SUBSET Nat, T # {}
  PROVE  \E x \in T : \A y \in T : ~ (y < x)
<1>1. \E x \in T : \A y \in T : ~ (<<y, x>> \in OpToRel(<, Nat)) BY WFMin, NatLessThanWellFounded
<1> QED BY <1>1 DEF OpToRel

\* child_state_flags_changed() of a resource whose children have their flags
\* leaves them alone and computes the resource's own: to stop at the first
\* marked connection is no loss.
LEMMA ResourceChildren ==
  ASSUME NEW rsc, ChildrenOK(rsc)
  PROVE  /\ ResourceOK(ResourceChildrenChanged(rsc))
         /\ ResourceChildrenChanged(rsc).vols = rsc.vols
         /\ ResourceChildrenChanged(rsc).conns = rsc.conns
         /\ ResourceChildrenChanged(rsc).role = rsc.role
<1> DEFINE vols  == [v \in DOMAIN rsc.vols |-> UpdatedVolume(rsc.vols[v], "local")]
           quiet == \A v \in DOMAIN vols : ~ Marked(vols[v])
           visit == {c \in DOMAIN rsc.conns : quiet /\ \A d \in DOMAIN rsc.conns :
                                                         d < c => ~ Marked(ConnectionFlags(rsc.conns[d]))}
           conns == [c \in DOMAIN rsc.conns |-> IF c \in visit THEN ConnectionFlags(rsc.conns[c]) ELSE rsc.conns[c]]
           s == IF \E v \in DOMAIN vols : vols[v].quorum_alert THEN "ALERT"
                ELSE IF ~ quiet \/ \E c \in visit : Marked(conns[c]) THEN "MARK"
                ELSE "NORM"
           r == [rsc EXCEPT !.vols = vols, !.conns = conns, !.state = s]
<1>0. ResourceChildrenChanged(rsc) = r BY DEF ResourceChildrenChanged
<1>1. PICK D \in SUBSET Volumes : rsc.vols \in [D -> Volume] BY DEF ChildrenOK, Resource, VolumeMap
<1>2. PICK E \in SUBSET Connections : rsc.conns \in [E -> Connection] BY DEF ChildrenOK, Resource, ConnectionMap
<1>3. vols = rsc.vols
  <2>1. \A v \in D : UpdatedVolume(rsc.vols[v], "local") = rsc.vols[v]
    BY <1>1, UpdatedVolumeSame DEF ChildrenOK
  <2> QED BY <1>1, <2>1
<1>4. \A c \in E : ConnectionFlags(rsc.conns[c]) = rsc.conns[c] BY <1>2, ConnectionFlagsSame DEF ChildrenOK
<1>5. conns = rsc.conns
  <2> HIDE DEF visit
  <2> QED BY <1>2, <1>4
<1>6. visit = {c \in E : quiet /\ \A d \in E : d < c => ~ Marked(rsc.conns[d])}
  <2> HIDE DEF quiet
  <2> QED BY <1>2, <1>4
<1>7. quiet = ~ AnyMarked(rsc.vols) BY <1>3 DEF AnyMarked
<1>8. quiet => ((\E c \in visit : Marked(conns[c])) <=> AnyMarked(rsc.conns))
  <2> SUFFICES ASSUME quiet PROVE (\E c \in visit : Marked(rsc.conns[c])) <=> AnyMarked(rsc.conns)
    BY <1>5
  <2> HIDE DEF quiet, visit
  <2>1. ASSUME NEW c \in visit, Marked(rsc.conns[c]) PROVE AnyMarked(rsc.conns)
    BY <1>2, <1>6, <2>1 DEF AnyMarked
  <2>2. ASSUME AnyMarked(rsc.conns) PROVE \E c \in visit : Marked(rsc.conns[c])
    <3> DEFINE T == {c \in E : Marked(rsc.conns[c])}
    <3>1. T # {} /\ T \in SUBSET Nat BY <1>2, <2>2, DirectoryAssumption DEF AnyMarked
    <3>2. PICK x \in T : \A y \in T : ~ (y < x) BY <3>1, FirstMarked
    <3>3. x \in visit BY <1>6, <3>2
    <3> QED BY <3>2, <3>3
  <2> QED BY <2>1, <2>2
<1>9. s = ResourceState(rsc)
  <2> HIDE DEF visit, conns
  <2>1. (\E v \in DOMAIN vols : vols[v].quorum_alert) <=> \E v \in DOMAIN rsc.vols : rsc.vols[v].quorum_alert
    BY <1>3
  <2>2. (~ quiet \/ \E c \in visit : Marked(conns[c])) <=> (AnyMarked(rsc.vols) \/ AnyMarked(rsc.conns))
    BY <1>7, <1>8
  <2> QED BY <2>1, <2>2 DEF ResourceState
<1>10. s \in States BY DEF States
<1>11. rsc \in Resource BY DEF ChildrenOK
<1> HIDE DEF s, vols, conns
<1>12. r \in Resource /\ r.vols = rsc.vols /\ r.conns = rsc.conns /\ r.role = rsc.role /\ r.state = s
  BY <1>3, <1>5, <1>10, <1>11 DEF Resource
<1> HIDE DEF r
<1>13. ChildrenOK(r) BY <1>12 DEF ChildrenOK
<1>14. ResourceState(r) = ResourceState(rsc) BY <1>12 DEF ResourceState
<1> QED BY <1>0, <1>9, <1>12, <1>13, <1>14 DEF ResourceOK

\* A resource whose volumes change.
LEMMA VolumesChanged ==
  ASSUME NEW rsc, ChildrenOK(rsc), NEW vols \in VolumeMap,
         \A v \in DOMAIN vols : vols[v].state = VolumeFlags(vols[v], "local")
  PROVE  /\ ChildrenOK([rsc EXCEPT !.vols = vols])
         /\ [rsc EXCEPT !.vols = vols].vols = vols
         /\ [rsc EXCEPT !.vols = vols].conns = rsc.conns
         /\ [rsc EXCEPT !.vols = vols].state = rsc.state
<1> DEFINE r == [rsc EXCEPT !.vols = vols]
<1>1. rsc \in Resource BY DEF ChildrenOK
<1>2. r \in Resource /\ r.vols = vols /\ r.conns = rsc.conns /\ r.state = rsc.state BY <1>1 DEF Resource
<1> HIDE DEF r
<1>3. ChildrenOK(r) BY <1>2 DEF ChildrenOK
<1> QED BY <1>2, <1>3 DEF r

\* A resource whose connections change.
LEMMA ConnectionsChanged ==
  ASSUME NEW rsc, ChildrenOK(rsc), NEW conns \in ConnectionMap,
         \A c \in DOMAIN conns : ConnectionOK(conns[c])
  PROVE  /\ ChildrenOK([rsc EXCEPT !.conns = conns])
         /\ [rsc EXCEPT !.conns = conns].conns = conns
         /\ [rsc EXCEPT !.conns = conns].vols = rsc.vols
         /\ [rsc EXCEPT !.conns = conns].state = rsc.state
<1> DEFINE r == [rsc EXCEPT !.conns = conns]
<1>1. rsc \in Resource BY DEF ChildrenOK
<1>2. r \in Resource /\ r.conns = conns /\ r.vols = rsc.vols /\ r.state = rsc.state BY <1>1 DEF Resource
<1> HIDE DEF r
<1>3. ChildrenOK(r) BY <1>2 DEF ChildrenOK
<1> QED BY <1>2, <1>3 DEF r

\* One connection of a resource is replaced; where its mark stays what it
\* was, the resource's flags need no update.
LEMMA ConnectionReplaced ==
  ASSUME NEW rsc, ResourceOK(rsc), NEW c \in DOMAIN rsc.conns, NEW conn, ConnectionOK(conn)
  PROVE  /\ ChildrenOK([rsc EXCEPT !.conns[c] = conn])
         /\ ~ Crossed(rsc.conns[c], conn) => ResourceOK([rsc EXCEPT !.conns[c] = conn])
         /\ [rsc EXCEPT !.conns[c] = conn].state = rsc.state
<1> DEFINE conns == [rsc.conns EXCEPT ![c] = conn]
           r == [rsc EXCEPT !.conns = conns]
<1>1. rsc \in Resource /\ ChildrenOK(rsc) BY DEF ResourceOK, ChildrenOK
<1>2. PICK E \in SUBSET Connections : rsc.conns \in [E -> Connection] BY <1>1 DEF Resource, ConnectionMap
<1>3. conn \in Connection BY DEF ConnectionOK
<1>4. conns \in [E -> Connection] /\ conns[c] = conn /\ \A d \in E : d # c => conns[d] = rsc.conns[d]
  BY <1>2, <1>3
<1>5. [rsc EXCEPT !.conns[c] = conn] = r BY <1>1 DEF Resource
<1> HIDE DEF conns
<1>6. conns \in ConnectionMap BY <1>4 DEF ConnectionMap
<1>7. \A d \in DOMAIN conns : ConnectionOK(conns[d]) BY <1>1, <1>2, <1>4 DEF ChildrenOK
<1>8. ChildrenOK(r) /\ r.conns = conns /\ r.vols = rsc.vols /\ r.state = rsc.state
  BY <1>1, <1>6, <1>7, ConnectionsChanged
<1> HIDE DEF r
<1>9. ASSUME ~ Crossed(rsc.conns[c], conn) PROVE ResourceOK(r)
  <2>1. AnyMarked(conns) = AnyMarked(rsc.conns) BY <1>2, <1>4, <1>9 DEF AnyMarked, Crossed
  <2>2. ResourceState(r) = ResourceState(rsc) BY <1>8, <2>1 DEF ResourceState
  <2> QED BY <1>8, <2>2 DEF ResourceOK
<1> QED BY <1>5, <1>8, <1>9

-----------------------------------------------------------------------------
(* Lemmas: the directory *)

\* A resource is replaced by one that has its flags.
LEMMA Replaced ==
  ASSUME IInv, NEW n \in DOMAIN rsc_map, NEW rsc, ResourceOK(rsc),
         \/ problem_resources_update(n, rsc)
         \/ Keep(n, rsc) /\ rsc.state = rsc_map[n].state
  PROVE  IInv'
<1>1. rsc \in Resource BY DEF ResourceOK, ChildrenOK
<1>2. rsc_map' = [rsc_map EXCEPT ![n] = rsc] BY DEF problem_resources_update, Keep
<1>3. /\ DOMAIN rsc_map' = DOMAIN rsc_map
      /\ rsc_map' \in [DOMAIN rsc_map -> Resource]
      /\ rsc_map'[n] = rsc
      /\ \A m \in DOMAIN rsc_map : m # n => rsc_map'[m] = rsc_map[m]
  BY <1>1, <1>2 DEF IInv
<1>4. \A m \in DOMAIN rsc_map' : ResourceOK(rsc_map'[m]) BY <1>3 DEF IInv
<1>5. prb_rsc_map' = {m \in DOMAIN rsc_map : Marked(rsc_map'[m])}
  <2>1. prb_rsc_map = {m \in DOMAIN rsc_map : Marked(rsc_map[m])} BY DEF IInv
  <2>2. CASE problem_resources_update(n, rsc)
    <3>1. prb_rsc_map' = IF Marked(rsc) /\ ~ Marked(rsc_map[n]) THEN prb_rsc_map \union {n}
                         ELSE IF ~ Marked(rsc) /\ Marked(rsc_map[n]) THEN prb_rsc_map \ {n}
                         ELSE prb_rsc_map
      BY <2>2 DEF problem_resources_update
    <3> QED BY <1>3, <2>1, <3>1
  <2>3. CASE Keep(n, rsc) /\ rsc.state = rsc_map[n].state
    BY <1>3, <2>1, <2>3 DEF Keep, Marked
  <2> QED BY <2>2, <2>3
<1> QED BY <1>3, <1>4, <1>5 DEF IInv, ResourceOK, ChildrenOK, ConnectionOK

\* What the invariant says of one resource.
LEMMA OneResource ==
  ASSUME IInv, NEW n \in DOMAIN rsc_map
  PROVE  /\ ResourceOK(rsc_map[n]) /\ ChildrenOK(rsc_map[n]) /\ rsc_map[n] \in Resource
         /\ \E D \in SUBSET Volumes : rsc_map[n].vols \in [D -> Volume]
         /\ \E E \in SUBSET Connections : rsc_map[n].conns \in [E -> Connection]
<1>1. ResourceOK(rsc_map[n]) BY DEF IInv
<1>2. ChildrenOK(rsc_map[n]) BY <1>1 DEF ResourceOK
<1>3. rsc_map[n] \in Resource BY <1>2 DEF ChildrenOK
<1>4. rsc_map[n].vols \in VolumeMap /\ rsc_map[n].conns \in ConnectionMap BY <1>3 DEF Resource
<1> QED BY <1>1, <1>2, <1>3, <1>4 DEF VolumeMap, ConnectionMap

\* What the invariant says of one connection.
LEMMA OneConnection ==
  ASSUME IInv, NEW n \in DOMAIN rsc_map, NEW c \in DOMAIN rsc_map[n].conns
  PROVE  /\ ConnectionOK(rsc_map[n].conns[c]) /\ rsc_map[n].conns[c] \in Connection
         /\ \E D \in SUBSET Volumes : rsc_map[n].conns[c].vols \in [D -> Volume]
<1>1. ConnectionOK(rsc_map[n].conns[c]) BY OneResource DEF ChildrenOK
<1>2. rsc_map[n].conns[c] \in Connection BY <1>1 DEF ConnectionOK
<1>3. rsc_map[n].conns[c].vols \in VolumeMap BY <1>2 DEF Connection
<1> QED BY <1>1, <1>2, <1>3 DEF VolumeMap

\* The maps of an object that has none.
LEMMA Empty == None \in VolumeMap /\ None \in ConnectionMap /\ DOMAIN None = {}
<1>1. DOMAIN None = {} /\ None \in [{} -> Volume] /\ None \in [{} -> Connection] BY DEF None
<1> QED BY <1>1 DEF VolumeMap, ConnectionMap

\* A resource is created; its flags start as ALERT and are computed.
LEMMA CreateResource == ASSUME IInv, NEW n \in Names, NEW role \in Roles, create_resource(n, role) PROVE IInv'
<1> DEFINE q == [role |-> role, state |-> "ALERT", vols |-> None, conns |-> None]
           rsc == ResourceFlags(q)
<1>0. n \notin DOMAIN rsc_map
      /\ rsc_map' = With(rsc_map, n, rsc)
      /\ prb_rsc_map' = IF Marked(rsc) THEN prb_rsc_map \union {n} ELSE prb_rsc_map
  BY DEF create_resource
<1>1. q \in Resource BY Empty DEF Resource, States
<1>2. ChildrenOK(q) BY <1>1, Empty DEF ChildrenOK
<1>3. rsc = ResourceChildrenChanged(q)
  <2>1. role # "Unknown" BY DirectoryAssumption
  <2> QED BY <2>1 DEF ResourceFlags
<1>4. ResourceOK(rsc) BY <1>2, <1>3, ResourceChildren
<1> HIDE DEF rsc
<1>5. rsc \in Resource BY <1>4 DEF ResourceOK, ChildrenOK
<1>6. /\ DOMAIN rsc_map' = DOMAIN rsc_map \union {n}
      /\ rsc_map' \in [DOMAIN rsc_map' -> Resource]
      /\ rsc_map'[n] = rsc /\ \A m \in DOMAIN rsc_map : rsc_map'[m] = rsc_map[m]
  BY <1>0, <1>5 DEF IInv, With
<1>7. \A m \in DOMAIN rsc_map' : ResourceOK(rsc_map'[m]) BY <1>4, <1>6 DEF IInv
<1>8. prb_rsc_map' = {m \in DOMAIN rsc_map' : Marked(rsc_map'[m])} BY <1>0, <1>6 DEF IInv
<1> QED BY <1>6, <1>7, <1>8 DEF IInv, ResourceOK, ChildrenOK, ConnectionOK

\* A line about the role of a resource.
LEMMA UpdateResource == ASSUME IInv, NEW n, NEW role \in Roles, update_resource(n, role) PROVE IInv'
<1> DEFINE q == [rsc_map[n] EXCEPT !.role = role]
<1>0. n \in DOMAIN rsc_map /\ problem_resources_update(n, ResourceFlags(q)) BY DEF update_resource
<1>1. ResourceOK(rsc_map[n]) /\ rsc_map[n] \in Resource BY <1>0, OneResource
<1>2. q \in Resource /\ q.role = role /\ q.state = rsc_map[n].state /\ q.vols = rsc_map[n].vols
      /\ q.conns = rsc_map[n].conns
  BY <1>1 DEF Resource
<1> HIDE DEF q
<1>3. ChildrenOK(q) /\ ResourceState(q) = ResourceState(rsc_map[n])
  BY <1>1, <1>2 DEF ResourceOK, ChildrenOK, ResourceState
<1>4. ResourceOK(q) BY <1>1, <1>2, <1>3 DEF ResourceOK
<1>5. ResourceFlags(q) = IF q.state # "NORM" THEN ResourceChildrenChanged(q) ELSE q
  <2>1. q.role # "Unknown" BY <1>2, DirectoryAssumption
  <2> QED BY <2>1 DEF ResourceFlags
<1>6. ResourceOK(ResourceFlags(q)) BY <1>3, <1>4, <1>5, ResourceChildren
<1> QED BY <1>0, <1>6, Replaced

\* A resource is renamed or removed.
LEMMA RenameResource == ASSUME IInv, NEW n, NEW m \in Names, rename_resource(n, m) PROVE IInv'
<1>0. /\ n \in DOMAIN rsc_map /\ m \notin DOMAIN rsc_map
      /\ rsc_map' = With(Without(rsc_map, n), m, rsc_map[n])
      /\ prb_rsc_map' = (prb_rsc_map \ {n}) \union (IF n \in prb_rsc_map THEN {m} ELSE {})
  BY DEF rename_resource
<1>1. rsc_map \in [DOMAIN rsc_map -> Resource] /\ ResourceOK(rsc_map[n]) BY <1>0 DEF IInv
<1>2. /\ DOMAIN rsc_map' = (DOMAIN rsc_map \ {n}) \union {m}
      /\ rsc_map' \in [DOMAIN rsc_map' -> Resource]
      /\ rsc_map'[m] = rsc_map[n] /\ \A k \in DOMAIN rsc_map \ {n} : rsc_map'[k] = rsc_map[k]
  BY <1>0, <1>1 DEF With, Without, Restrict
<1>3. \A k \in DOMAIN rsc_map' : ResourceOK(rsc_map'[k]) BY <1>1, <1>2 DEF IInv
<1>4. prb_rsc_map' = {k \in DOMAIN rsc_map' : Marked(rsc_map'[k])} BY <1>0, <1>2 DEF IInv
<1>5. DOMAIN rsc_map' \subseteq Names BY <1>2 DEF IInv
<1> QED BY <1>2, <1>3, <1>4, <1>5 DEF IInv, ResourceOK, ChildrenOK, ConnectionOK

\* destroy_resource(): the resource leaves both maps.
LEMMA DestroyResource == ASSUME IInv, NEW n, destroy_resource(n) PROVE IInv'
<1>0. n \in DOMAIN rsc_map /\ rsc_map' = Without(rsc_map, n) /\ prb_rsc_map' = prb_rsc_map \ {n}
  BY DEF destroy_resource
<1>1. /\ DOMAIN rsc_map' = DOMAIN rsc_map \ {n}
      /\ rsc_map' \in [DOMAIN rsc_map' -> Resource]
      /\ \A k \in DOMAIN rsc_map \ {n} : rsc_map'[k] = rsc_map[k]
  BY <1>0 DEF IInv, Without, Restrict
<1>2. \A k \in DOMAIN rsc_map' : ResourceOK(rsc_map'[k]) BY <1>1 DEF IInv
<1>3. prb_rsc_map' = {k \in DOMAIN rsc_map' : Marked(rsc_map'[k])} BY <1>0, <1>1 DEF IInv
<1>4. DOMAIN rsc_map' \subseteq Names BY <1>1 DEF IInv
<1> QED BY <1>1, <1>2, <1>3, <1>4 DEF IInv, ResourceOK, ChildrenOK, ConnectionOK

\* A line about a volume of the resource; only a marked one concerns the
\* resource when it is removed.
LEMMA CreateDevice ==
  ASSUME IInv, NEW n, NEW v \in Volumes, NEW props \in DeviceProps, create_device(n, v, props)
  PROVE  IInv'
<1> DEFINE vol == UpdatedVolume(props, "local")
           vols == With(rsc_map[n].vols, v, vol)
           q == [rsc_map[n] EXCEPT !.vols = vols]
<1>0. n \in DOMAIN rsc_map /\ v \notin DOMAIN rsc_map[n].vols
      /\ problem_resources_update(n, ResourceChildrenChanged(q))
  BY DEF create_device
<1>1. vol \in Volume /\ vol.state = VolumeFlags(vol, "local") BY UpdatedVolumeOK, DirectoryAssumption
<1>2. ChildrenOK(rsc_map[n]) BY <1>0, OneResource
<1>3. PICK D \in SUBSET Volumes : rsc_map[n].vols \in [D -> Volume] BY <1>0, OneResource
<1> HIDE DEF vol
<1>4. vols \in [D \union {v} -> Volume] /\ vols[v] = vol /\ \A w \in D : w # v => vols[w] = rsc_map[n].vols[w]
  BY <1>1, <1>3 DEF With
<1> HIDE DEF vols
<1>5. vols \in VolumeMap BY <1>4 DEF VolumeMap
<1>6. \A w \in DOMAIN vols : vols[w].state = VolumeFlags(vols[w], "local")
  BY <1>1, <1>2, <1>3, <1>4 DEF ChildrenOK
<1>7. ChildrenOK(q) BY <1>2, <1>5, <1>6, VolumesChanged
<1> HIDE DEF q
<1> QED BY <1>0, <1>7, ResourceChildren, Replaced

\* update_device(): the marks of the volume and its resource follow.
LEMMA UpdateDevice ==
  ASSUME IInv, NEW n, NEW v \in Volumes, NEW props \in DeviceProps, update_device(n, v, props)
  PROVE  IInv'
<1> DEFINE vol == UpdatedVolume(props, "local")
           vols == [rsc_map[n].vols EXCEPT ![v] = vol]
           q == [rsc_map[n] EXCEPT !.vols = vols]
<1>0. n \in DOMAIN rsc_map /\ v \in DOMAIN rsc_map[n].vols
      /\ problem_resources_update(n, ResourceChildrenChanged([rsc_map[n] EXCEPT !.vols[v] = vol]))
  BY DEF update_device
<1>1. vol \in Volume /\ vol.state = VolumeFlags(vol, "local") BY UpdatedVolumeOK, DirectoryAssumption
<1>2. ChildrenOK(rsc_map[n]) /\ rsc_map[n] \in Resource BY <1>0, OneResource
<1>3. PICK D \in SUBSET Volumes : rsc_map[n].vols \in [D -> Volume] BY <1>0, OneResource
<1> HIDE DEF vol
<1>4. [rsc_map[n] EXCEPT !.vols[v] = vol] = q BY <1>2 DEF Resource
<1>5. vols \in [D -> Volume] /\ vols[v] = vol /\ \A w \in D : w # v => vols[w] = rsc_map[n].vols[w]
  BY <1>0, <1>1, <1>3
<1> HIDE DEF vols
<1>6. vols \in VolumeMap BY <1>5 DEF VolumeMap
<1>7. \A w \in DOMAIN vols : vols[w].state = VolumeFlags(vols[w], "local")
  BY <1>1, <1>2, <1>3, <1>5 DEF ChildrenOK
<1>8. ChildrenOK(q) BY <1>2, <1>6, <1>7, VolumesChanged
<1> HIDE DEF q
<1> QED BY <1>0, <1>4, <1>8, ResourceChildren, Replaced

\* destroy_device(): a marked volume takes its mark along.
LEMMA DestroyDevice == ASSUME IInv, NEW n, NEW v \in Volumes, destroy_device(n, v) PROVE IInv'
<1> DEFINE vols == Without(rsc_map[n].vols, v)
           q == [rsc_map[n] EXCEPT !.vols = vols]
<1>0. n \in DOMAIN rsc_map /\ v \in DOMAIN rsc_map[n].vols
      /\ \/ problem_resources_update(n, ResourceChildrenChanged(q))
         \/ ~ Marked(rsc_map[n].vols[v]) /\ Keep(n, q)
  BY DEF destroy_device
<1>1. ResourceOK(rsc_map[n]) /\ ChildrenOK(rsc_map[n]) BY <1>0, OneResource
<1>2. PICK D \in SUBSET Volumes : rsc_map[n].vols \in [D -> Volume] BY <1>0, OneResource
<1>3. vols \in [D \ {v} -> Volume] /\ \A w \in D \ {v} : vols[w] = rsc_map[n].vols[w]
  BY <1>0, <1>2 DEF Without, Restrict
<1> HIDE DEF vols
<1>4. vols \in VolumeMap BY <1>3 DEF VolumeMap
<1>5. \A w \in DOMAIN vols : vols[w].state = VolumeFlags(vols[w], "local") BY <1>1, <1>2, <1>3 DEF ChildrenOK
<1>6. ChildrenOK(q) /\ q.vols = vols /\ q.conns = rsc_map[n].conns /\ q.state = rsc_map[n].state
  BY <1>1, <1>4, <1>5, VolumesChanged
<1> HIDE DEF q
<1>7. CASE ~ Marked(rsc_map[n].vols[v]) /\ Keep(n, q)
  <2>1. ~ rsc_map[n].vols[v].quorum_alert
    <3>1. VolumeFlags(rsc_map[n].vols[v], "local") = "NORM" BY <1>0, <1>1, <1>7 DEF ChildrenOK, Marked
    <3> QED BY <3>1 DEF VolumeFlags
  <2>2. AnyMarked(vols) = AnyMarked(rsc_map[n].vols) BY <1>2, <1>3, <1>7 DEF AnyMarked
  <2>3. (\E w \in DOMAIN vols : vols[w].quorum_alert)
          <=> \E w \in DOMAIN rsc_map[n].vols : rsc_map[n].vols[w].quorum_alert
    BY <1>2, <1>3, <2>1
  <2>4. ResourceState(q) = ResourceState(rsc_map[n]) BY <1>6, <2>2, <2>3 DEF ResourceState
  <2>5. ResourceOK(q) BY <1>1, <1>6, <2>4 DEF ResourceOK
  <2> QED BY <1>0, <1>6, <1>7, <2>5, Replaced
<1>8. CASE problem_resources_update(n, ResourceChildrenChanged(q)) BY <1>0, <1>6, <1>8, ResourceChildren, Replaced
<1> QED BY <1>0, <1>7, <1>8

\* A line about a connection; the resource is told only if the mark changed.
LEMMA CreateConnection ==
  ASSUME IInv, NEW n, NEW c \in Connections, NEW props \in ConnectionProps, create_connection(n, c, props)
  PROVE  IInv'
<1> DEFINE raw == [cstate |-> props.cstate, role |-> props.role, state |-> "ALERT", vols |-> None]
           conn == ConnectionFlags(raw)
           conns == With(rsc_map[n].conns, c, conn)
           q == [rsc_map[n] EXCEPT !.conns = conns]
<1>0. n \in DOMAIN rsc_map /\ problem_resources_update(n, ResourceChildrenChanged(q)) BY DEF create_connection
<1>1. raw \in Connection /\ raw.state = "ALERT" /\ raw.vols = None
  BY DirectoryAssumption, Empty DEF Connection, States
<1> HIDE DEF raw
<1>2. conn \in Connection /\ conn.vols = None /\ conn.state = ConnectionState(raw)
      /\ conn.cstate = raw.cstate /\ conn.role = raw.role
  BY <1>1, ConnectionOwn
<1> HIDE DEF conn
<1>3. ConnectionState(conn) = ConnectionState(raw) BY <1>1, <1>2 DEF ConnectionState, ConnectionAlert
<1>4. ConnectionOK(conn) BY <1>2, <1>3, Empty DEF ConnectionOK
<1>5. ChildrenOK(rsc_map[n]) BY <1>0, OneResource
<1>6. PICK E \in SUBSET Connections : rsc_map[n].conns \in [E -> Connection] BY <1>0, OneResource
<1>7. conns \in [E \union {c} -> Connection] /\ conns[c] = conn
      /\ \A d \in E : d # c => conns[d] = rsc_map[n].conns[d]
  BY <1>2, <1>6 DEF With
<1> HIDE DEF conns
<1>8. conns \in ConnectionMap BY <1>7 DEF ConnectionMap
<1>9. \A d \in DOMAIN conns : ConnectionOK(conns[d]) BY <1>4, <1>5, <1>6, <1>7 DEF ChildrenOK
<1>10. ChildrenOK(q) BY <1>5, <1>8, <1>9, ConnectionsChanged
<1> HIDE DEF q
<1> QED BY <1>0, <1>10, ResourceChildren, Replaced

\* update_connection(): the marks of the connection and its resource follow.
LEMMA UpdateConnection ==
  ASSUME IInv, NEW n, NEW c \in Connections, NEW props \in ConnectionProps, update_connection(n, c, props)
  PROVE  IInv'
<1> DEFINE old == rsc_map[n].conns[c]
           raw == [old EXCEPT !.cstate = props.cstate, !.role = props.role]
           new == ConnectionFlags(raw)
           rsc == [rsc_map[n] EXCEPT !.conns[c] = new]
<1>0. n \in DOMAIN rsc_map /\ c \in DOMAIN rsc_map[n].conns
      /\ \/ problem_resources_update(n, ResourceChildrenChanged(rsc))
         \/ ~ Crossed(old, new) /\ Keep(n, rsc)
  BY DEF update_connection
<1>1. ConnectionOK(old) /\ old \in Connection BY <1>0, OneConnection
<1>2. raw \in Connection /\ raw.state = old.state /\ raw.vols = old.vols BY <1>1, DirectoryAssumption DEF Connection
<1>3. raw.state = "NORM" => ~ AnyMarked(raw.vols) BY <1>1, <1>2 DEF ConnectionOK, ConnectionState
<1> HIDE DEF raw
<1>4. new \in Connection /\ new.vols = old.vols /\ new.state = ConnectionState(raw)
      /\ new.cstate = raw.cstate /\ new.role = raw.role
  BY <1>2, <1>3, ConnectionOwn
<1> HIDE DEF new
<1>5. ConnectionState(new) = ConnectionState(raw) BY <1>2, <1>4 DEF ConnectionState, ConnectionAlert
<1>6. ConnectionOK(new) BY <1>1, <1>4, <1>5 DEF ConnectionOK
<1>7. ResourceOK(rsc_map[n]) BY <1>0, OneResource
<1>8. ChildrenOK(rsc) /\ (~ Crossed(old, new) => ResourceOK(rsc)) /\ rsc.state = rsc_map[n].state
  BY <1>0, <1>6, <1>7, ConnectionReplaced
<1> HIDE DEF rsc, old
<1> QED BY <1>0, <1>8, ResourceChildren, Replaced

\* destroy_connection(): a marked connection takes its mark along.
LEMMA DestroyConnection == ASSUME IInv, NEW n, NEW c \in Connections, destroy_connection(n, c) PROVE IInv'
<1> DEFINE conns == Without(rsc_map[n].conns, c)
           q == [rsc_map[n] EXCEPT !.conns = conns]
<1>0. n \in DOMAIN rsc_map /\ c \in DOMAIN rsc_map[n].conns
      /\ \/ problem_resources_update(n, ResourceChildrenChanged(q))
         \/ ~ Marked(rsc_map[n].conns[c]) /\ Keep(n, q)
  BY DEF destroy_connection
<1>1. ResourceOK(rsc_map[n]) /\ ChildrenOK(rsc_map[n]) BY <1>0, OneResource
<1>2. PICK E \in SUBSET Connections : rsc_map[n].conns \in [E -> Connection] BY <1>0, OneResource
<1>3. conns \in [E \ {c} -> Connection] /\ \A d \in E \ {c} : conns[d] = rsc_map[n].conns[d]
  BY <1>0, <1>2 DEF Without, Restrict
<1> HIDE DEF conns
<1>4. conns \in ConnectionMap BY <1>3 DEF ConnectionMap
<1>5. \A d \in DOMAIN conns : ConnectionOK(conns[d]) BY <1>1, <1>2, <1>3 DEF ChildrenOK
<1>6. ChildrenOK(q) /\ q.conns = conns /\ q.vols = rsc_map[n].vols /\ q.state = rsc_map[n].state
  BY <1>1, <1>4, <1>5, ConnectionsChanged
<1> HIDE DEF q
<1>7. CASE ~ Marked(rsc_map[n].conns[c]) /\ Keep(n, q)
  <2>1. AnyMarked(conns) = AnyMarked(rsc_map[n].conns) BY <1>2, <1>3, <1>7 DEF AnyMarked
  <2>2. ResourceState(q) = ResourceState(rsc_map[n]) BY <1>6, <2>1 DEF ResourceState
  <2>3. ResourceOK(q) BY <1>1, <1>6, <2>2 DEF ResourceOK
  <2> QED BY <1>0, <1>6, <1>7, <2>3, Replaced
<1>8. CASE problem_resources_update(n, ResourceChildrenChanged(q)) BY <1>0, <1>6, <1>8, ResourceChildren, Replaced
<1> QED BY <1>0, <1>7, <1>8

\* A connection whose peer volumes change has its flags once they are
\* updated, or if none of the marks changed.
LEMMA PeerVolumesChanged ==
  ASSUME NEW old, ConnectionOK(old), NEW vols \in VolumeMap, \A v \in DOMAIN vols : PeerVolumeOK(vols[v])
  PROVE  /\ ConnectionOK(ConnectionChildrenChanged([old EXCEPT !.vols = vols]))
         /\ AnyMarked(vols) = AnyMarked(old.vols) => ConnectionOK([old EXCEPT !.vols = vols])
         /\ [old EXCEPT !.vols = vols].state = old.state
<1> DEFINE q == [old EXCEPT !.vols = vols]
           r == ConnectionChildrenChanged(q)
<1>1. old \in Connection /\ old.state = ConnectionState(old) BY DEF ConnectionOK
<1>2. q \in Connection /\ q.vols = vols /\ q.cstate = old.cstate /\ q.role = old.role /\ q.state = old.state
  BY <1>1 DEF Connection
<1> HIDE DEF q
<1>3. ConnectionAlert(q) = ConnectionAlert(old) BY <1>2 DEF ConnectionAlert
<1>4. ConnectionAlert(q) => q.state = "ALERT" BY <1>1, <1>2, <1>3 DEF ConnectionState
<1>5. r \in Connection /\ r.vols = vols /\ r.cstate = q.cstate /\ r.role = q.role /\ r.state = ConnectionState(q)
  BY <1>2, <1>4, ConnectionChildren
<1> HIDE DEF r
<1>6. ConnectionState(r) = ConnectionState(q) BY <1>2, <1>5 DEF ConnectionState, ConnectionAlert
<1>7. ConnectionOK(r) BY <1>5, <1>6 DEF ConnectionOK
<1>8. ASSUME AnyMarked(vols) = AnyMarked(old.vols) PROVE ConnectionOK(q)
  <2>1. ConnectionState(q) = ConnectionState(old) BY <1>2, <1>3, <1>8 DEF ConnectionState
  <2> QED BY <1>1, <1>2, <2>1 DEF ConnectionOK
<1> QED BY <1>2, <1>7, <1>8 DEF q, r

\* A peer's volume that was updated with the properties of a line.
LEMMA PeerVolume ==
  ASSUME NEW props \in PeerDeviceProps, NEW conn
  PROVE  UpdatedVolume(props, Link(conn)) \in Volume /\ PeerVolumeOK(UpdatedVolume(props, Link(conn)))
<1>1. Link(conn) \in {"ok", "faulty"} BY DEF Link
<1>2. /\ UpdatedVolume(props, Link(conn)) \in Volume
      /\ UpdatedVolume(props, Link(conn)).state = VolumeFlags(UpdatedVolume(props, Link(conn)), Link(conn))
  BY UpdatedVolumeOK, DirectoryAssumption
<1> QED BY <1>1, <1>2 DEF PeerVolumeOK

\* A line about a peer's volume: the connection is told only if the mark of
\* the volume changed, the resource only if that of the connection did.
LEMMA CreatePeerDevice ==
  ASSUME IInv, NEW n, NEW c \in Connections, NEW v \in Volumes, NEW props \in PeerDeviceProps,
         create_peer_device(n, c, v, props)
  PROVE  IInv'
<1> DEFINE old == rsc_map[n].conns[c]
           vol == UpdatedVolume(props, Link(old))
           vols == With(old.vols, v, vol)
           new == ConnectionChildrenChanged([old EXCEPT !.vols = vols])
           rsc == [rsc_map[n] EXCEPT !.conns[c] = new]
<1>0. n \in DOMAIN rsc_map /\ c \in DOMAIN rsc_map[n].conns
      /\ problem_resources_update(n, ResourceChildrenChanged(rsc))
  BY DEF create_peer_device
<1>1. ConnectionOK(old) BY <1>0, OneConnection
<1>2. vol \in Volume /\ PeerVolumeOK(vol) BY PeerVolume
<1>3. PICK D \in SUBSET Volumes : old.vols \in [D -> Volume] BY <1>0, OneConnection
<1> HIDE DEF vol
<1>4. vols \in [D \union {v} -> Volume] /\ vols[v] = vol /\ \A w \in D : w # v => vols[w] = old.vols[w]
  BY <1>2, <1>3 DEF With
<1> HIDE DEF vols
<1>5. vols \in VolumeMap BY <1>4 DEF VolumeMap
<1>6. \A w \in DOMAIN vols : PeerVolumeOK(vols[w]) BY <1>1, <1>2, <1>3, <1>4 DEF ConnectionOK
<1>7. ConnectionOK(new) BY <1>1, <1>5, <1>6, PeerVolumesChanged
<1> HIDE DEF new
<1>8. ResourceOK(rsc_map[n]) BY <1>0, OneResource
<1>9. ChildrenOK(rsc) BY <1>0, <1>7, <1>8, ConnectionReplaced
<1> HIDE DEF rsc
<1> QED BY <1>0, <1>9, ResourceChildren, Replaced

\* update_peer_device(): the marks of the peer volume, its connection and the
\* resource follow.
LEMMA UpdatePeerDevice ==
  ASSUME IInv, NEW n, NEW c \in Connections, NEW v \in Volumes, NEW props \in PeerDeviceProps,
         update_peer_device(n, c, v, props)
  PROVE  IInv'
<1> DEFINE old == rsc_map[n].conns[c]
           vol == UpdatedVolume(props, Link(old))
           conn == [old EXCEPT !.vols[v] = vol]
           new == ConnectionChildrenChanged(conn)
           vols == [old.vols EXCEPT ![v] = vol]
<1>0. n \in DOMAIN rsc_map /\ c \in DOMAIN rsc_map[n].conns /\ v \in DOMAIN old.vols
      /\ \/ ~ Crossed(old.vols[v], vol) /\ Keep(n, [rsc_map[n] EXCEPT !.conns[c] = conn])
         \/ ~ Crossed(old, new) /\ Keep(n, [rsc_map[n] EXCEPT !.conns[c] = new])
         \/ problem_resources_update(n, ResourceChildrenChanged([rsc_map[n] EXCEPT !.conns[c] = new]))
  BY DEF update_peer_device
<1>1. ConnectionOK(old) /\ old \in Connection BY <1>0, OneConnection
<1>2. vol \in Volume /\ PeerVolumeOK(vol) BY PeerVolume
<1>3. PICK D \in SUBSET Volumes : old.vols \in [D -> Volume] BY <1>0, OneConnection
<1> HIDE DEF vol
<1>4. vols \in [D -> Volume] /\ vols[v] = vol /\ \A w \in D : w # v => vols[w] = old.vols[w] BY <1>0, <1>2, <1>3
<1>5. conn = [old EXCEPT !.vols = vols] BY <1>1 DEF Connection
<1> HIDE DEF vols
<1>6. vols \in VolumeMap BY <1>4 DEF VolumeMap
<1>7. \A w \in DOMAIN vols : PeerVolumeOK(vols[w]) BY <1>1, <1>2, <1>3, <1>4 DEF ConnectionOK
<1> HIDE DEF conn
<1>8. ConnectionOK(new) /\ (AnyMarked(vols) = AnyMarked(old.vols) => ConnectionOK(conn)) /\ conn.state = old.state
  BY <1>1, <1>5, <1>6, <1>7, PeerVolumesChanged
<1> HIDE DEF new
<1>9. ResourceOK(rsc_map[n]) BY <1>0, OneResource
<1>10. CASE ~ Crossed(old.vols[v], vol) /\ Keep(n, [rsc_map[n] EXCEPT !.conns[c] = conn])
  <2>1. AnyMarked(vols) = AnyMarked(old.vols) BY <1>0, <1>3, <1>4, <1>10 DEF AnyMarked, Crossed
  <2>2. ~ Crossed(old, conn) BY <1>8 DEF Crossed, Marked
  <2>3. ResourceOK([rsc_map[n] EXCEPT !.conns[c] = conn])
        /\ [rsc_map[n] EXCEPT !.conns[c] = conn].state = rsc_map[n].state
    BY <1>0, <1>8, <1>9, <2>1, <2>2, ConnectionReplaced
  <2> QED BY <1>0, <1>10, <2>3, Replaced
<1>11. CASE \/ ~ Crossed(old, new) /\ Keep(n, [rsc_map[n] EXCEPT !.conns[c] = new])
            \/ problem_resources_update(n, ResourceChildrenChanged([rsc_map[n] EXCEPT !.conns[c] = new]))
  <2> DEFINE rsc == [rsc_map[n] EXCEPT !.conns[c] = new]
  <2>1. ChildrenOK(rsc) /\ (~ Crossed(old, new) => ResourceOK(rsc)) /\ rsc.state = rsc_map[n].state
    BY <1>0, <1>8, <1>9, ConnectionReplaced
  <2> HIDE DEF rsc, old
  <2> QED BY <1>0, <1>11, <2>1, ResourceChildren, Replaced DEF rsc
<1> QED BY <1>0, <1>10, <1>11

\* destroy_peer_device(): a marked peer volume takes its mark along.
LEMMA DestroyPeerDevice ==
  ASSUME IInv, NEW n, NEW c \in Connections, NEW v \in Volumes, destroy_peer_device(n, c, v)
  PROVE  IInv'
<1> DEFINE old == rsc_map[n].conns[c]
           vols == Without(old.vols, v)
           conn == [old EXCEPT !.vols = vols]
           new == ConnectionChildrenChanged(conn)
<1>0. n \in DOMAIN rsc_map /\ c \in DOMAIN rsc_map[n].conns /\ v \in DOMAIN old.vols
      /\ \/ problem_resources_update(n, ResourceChildrenChanged([rsc_map[n] EXCEPT !.conns[c] = new]))
         \/ ~ Marked(old.vols[v]) /\ Keep(n, [rsc_map[n] EXCEPT !.conns[c] = conn])
  BY DEF destroy_peer_device
<1>1. ConnectionOK(old) BY <1>0, OneConnection
<1>2. PICK D \in SUBSET Volumes : old.vols \in [D -> Volume] BY <1>0, OneConnection
<1>3. vols \in [D \ {v} -> Volume] /\ \A w \in D \ {v} : vols[w] = old.vols[w] BY <1>0, <1>2 DEF Without, Restrict
<1> HIDE DEF vols
<1>4. vols \in VolumeMap BY <1>3 DEF VolumeMap
<1>5. \A w \in DOMAIN vols : PeerVolumeOK(vols[w]) BY <1>1, <1>2, <1>3 DEF ConnectionOK
<1>6. ConnectionOK(new) /\ (AnyMarked(vols) = AnyMarked(old.vols) => ConnectionOK(conn)) /\ conn.state = old.state
  BY <1>1, <1>4, <1>5, PeerVolumesChanged
<1> HIDE DEF conn, new
<1>7. ResourceOK(rsc_map[n]) BY <1>0, OneResource
<1>8. CASE ~ Marked(old.vols[v]) /\ Keep(n, [rsc_map[n] EXCEPT !.conns[c] = conn])
  <2>1. AnyMarked(vols) = AnyMarked(old.vols) BY <1>2, <1>3, <1>8 DEF AnyMarked
  <2>2. ~ Crossed(old, conn) BY <1>6 DEF Crossed, Marked
  <2>3. ResourceOK([rsc_map[n] EXCEPT !.conns[c] = conn])
        /\ [rsc_map[n] EXCEPT !.conns[c] = conn].state = rsc_map[n].state
    BY <1>0, <1>6, <1>7, <2>1, <2>2, ConnectionReplaced
  <2> QED BY <1>0, <1>8, <2>3, Replaced
<1>9. CASE problem_resources_update(n, ResourceChildrenChanged([rsc_map[n] EXCEPT !.conns[c] = new]))
  <2>1. ChildrenOK([rsc_map[n] EXCEPT !.conns[c] = new]) BY <1>0, <1>6, <1>7, ConnectionReplaced
  <2> QED BY <1>0, <1>9, <2>1, ResourceChildren, Replaced
<1> QED BY <1>0, <1>8, <1>9

-----------------------------------------------------------------------------
(* The theorems *)

\* The invariant is inductive.
LEMMA Invariant == Spec => []IInv
<1>1. ASSUME rsc_map = None, prb_rsc_map = {} PROVE IInv
  BY <1>1, Empty DEF IInv, None
<1>2. IInv /\ [Next]_vars => IInv'
  <2> SUFFICES ASSUME IInv, [Next]_vars PROVE IInv' OBVIOUS
  <2>1. ASSUME NEW n \in Names, NEW role \in Roles, create_resource(n, role) \/ update_resource(n, role) PROVE IInv'
    BY <2>1, CreateResource, UpdateResource
  <2>2. ASSUME NEW n \in Names, NEW m \in Names, rename_resource(n, m) PROVE IInv'
    BY <2>2, RenameResource
  <2>3. ASSUME NEW n \in Names, NEW v \in Volumes, NEW props \in DeviceProps,
               create_device(n, v, props) \/ update_device(n, v, props)
        PROVE  IInv'
    BY <2>3, CreateDevice, UpdateDevice
  <2>4. ASSUME NEW n \in Names, NEW c \in Connections, NEW props \in ConnectionProps,
               create_connection(n, c, props) \/ update_connection(n, c, props)
        PROVE  IInv'
    BY <2>4, CreateConnection, UpdateConnection
  <2>5. ASSUME NEW n \in Names, NEW c \in Connections, NEW v \in Volumes, NEW props \in PeerDeviceProps,
               create_peer_device(n, c, v, props) \/ update_peer_device(n, c, v, props)
        PROVE  IInv'
    BY <2>5, CreatePeerDevice, UpdatePeerDevice
  <2>6. CASE out_of_sync
    BY <2>6, Empty DEF out_of_sync, IInv, None
  <2>7. CASE UNCHANGED vars
    BY <2>7 DEF vars, IInv, ResourceOK, ChildrenOK, ConnectionOK
  <2> QED BY <2>1, <2>2, <2>3, <2>4, <2>5, <2>6, <2>7, DestroyResource, DestroyDevice, DestroyConnection,
             DestroyPeerDevice DEF Next
<1> QED BY <1>1, <1>2, PTL DEF Spec, Init

\* The mark of every connection and resource is the one computed from its
\* own state and from all its children, whatever sequence of lines built the
\* tree: telling parents only of a mark that changed loses no problem and
\* leaves none behind.
THEOREM MarksPropagated == Spec => []FlagsPropagated
<1>1. IInv => FlagsPropagated
  <2> SUFFICES ASSUME IInv, NEW n \in DOMAIN rsc_map
               PROVE  /\ \A c \in DOMAIN rsc_map[n].conns :
                           rsc_map[n].conns[c].state = ConnectionState(rsc_map[n].conns[c])
                      /\ rsc_map[n].state = ResourceState(rsc_map[n])
    BY DEF FlagsPropagated, ConnectionState, ResourceState, AnyMarked
  <2>1. ResourceOK(rsc_map[n]) BY DEF IInv
  <2> QED BY <2>1 DEF ResourceOK, ChildrenOK, ConnectionOK
<1> QED BY <1>1, Invariant, PTL

\* The list of problem resources holds exactly the resources for which DRBD
\* reports a problem, once the states of the peers' volumes are known.
THEOREM ProblemListExact == Spec => []ProblemsListed
<1>1. IInv => ProblemsListed
  <2> SUFFICES ASSUME IInv PROVE ProblemsListed OBVIOUS
  <2>1. prb_rsc_map = {n \in DOMAIN rsc_map : Marked(rsc_map[n])} BY DEF IInv
  <2>2. ASSUME NEW n \in DOMAIN rsc_map, Settled(rsc_map[n])
        PROVE  Marked(rsc_map[n]) <=> Problem(rsc_map[n])
    <3> DEFINE rsc == rsc_map[n]
    <3>1. ChildrenOK(rsc) /\ rsc.state = ResourceState(rsc) BY OneResource DEF ResourceOK
    <3>2. ASSUME NEW v \in DOMAIN rsc.vols
          PROVE  /\ Marked(rsc.vols[v]) <=> VolumeFlags(rsc.vols[v], "local") # "NORM"
                 /\ rsc.vols[v].quorum_alert => Marked(rsc.vols[v])
      <4>1. rsc.vols[v].state = VolumeFlags(rsc.vols[v], "local") BY <3>1 DEF ChildrenOK
      <4>2. rsc.vols[v].quorum_alert => VolumeFlags(rsc.vols[v], "local") # "NORM" BY DEF VolumeFlags
      <4> QED BY <4>1, <4>2 DEF Marked
    <3>3. ASSUME NEW c \in DOMAIN rsc.conns PROVE Marked(rsc.conns[c]) <=> PeerProblem(rsc.conns[c])
      <4> DEFINE conn == rsc.conns[c]
      <4>1. ConnectionOK(conn) BY <3>1 DEF ChildrenOK
      <4>2. CASE ConnectionAlert(conn)
        BY <4>1, <4>2 DEF ConnectionOK, ConnectionState, Marked, PeerProblem
      <4>3. CASE ~ ConnectionAlert(conn)
        <5>1. ASSUME NEW v \in DOMAIN conn.vols
              PROVE  Marked(conn.vols[v]) <=> VolumeFlags(conn.vols[v], "ok") # "NORM"
          <6>1. conn.vols[v].disk # "DUnknown" /\ conn.vols[v].repl \notin {"Off", "Unknown"}
            BY <2>2, <4>3 DEF Settled
          <6>2. VolumeFlags(conn.vols[v], "ok") = VolumeFlags(conn.vols[v], "faulty") BY <6>1 DEF VolumeFlags
          <6>3. PeerVolumeOK(conn.vols[v]) BY <4>1 DEF ConnectionOK
          <6> QED BY <6>2, <6>3 DEF PeerVolumeOK, Marked
        <5>2. Marked(conn) <=> AnyMarked(conn.vols)
          BY <4>1, <4>3 DEF ConnectionOK, ConnectionState, Marked
        <5> QED BY <4>3, <5>1, <5>2 DEF AnyMarked, PeerProblem
      <4> QED BY <4>2, <4>3
    <3>4. Marked(rsc) <=> AnyMarked(rsc.vols) \/ AnyMarked(rsc.conns)
      <4>1. (\E v \in DOMAIN rsc.vols : rsc.vols[v].quorum_alert) => AnyMarked(rsc.vols) BY <3>2 DEF AnyMarked
      <4>2. Marked(rsc) <=> ResourceState(rsc) # "NORM" BY <3>1 DEF Marked
      <4> QED BY <4>1, <4>2 DEF ResourceState
    <3> QED BY <3>2, <3>3, <3>4 DEF AnyMarked, Problem
  <2> QED BY <2>1, <2>2 DEF ProblemsListed
<1> QED BY <1>1, Invariant, PTL
=============================================================================
