----------------------------- MODULE DrbdObjects -----------------------------
(***************************************************************************)
(* The objects of a DRBD resource as drbdsetup keeps them (struct           *)
(* resources_list and the lists below it, user/v9/drbdsetup.h), and the    *)
(* promotion information drbdsetup events2 derives from them.              *)
(*                                                                         *)
(* A resource is a function from the objects that exist to their state.    *)
(* The list of connections, the list of peer devices of a connection and   *)
(* so on are the objects of that kind in its domain: the code looks them   *)
(* up by name or volume and never depends on their order.                  *)
(***************************************************************************)
EXTENDS Integers, FiniteSets, SequencesExt

CONSTANTS
  Volumes,   \* volume numbers
  Conns      \* connection names; each connection has one path

resource          == <<"resource">>
device(v)         == <<"device", v>>
connection(c)     == <<"connection", c>>
peer_device(c, v) == <<"peer-device", c, v>>
path(c)           == <<"path", c>>

Devices     == {device(v) : v \in Volumes}
Connections == {connection(c) : c \in Conns}
PeerDevices == {peer_device(c, v) : c \in Conns, v \in Volumes}
Paths       == {path(c) : c \in Conns}
Objects     == {resource} \union Devices \union Connections \union PeerDevices \union Paths

\* the connection whose lists hold a peer device or a path
ConnectionOf(o) == connection(o[2])

\* The state of an object.  Statistics are left out, except for the flag
\* UUID_FLAG_STABLE, which peer_dev_uuid_flags carries.
ResourceInfo   == [role : {"Primary", "Secondary"}, fail_io : BOOLEAN]
DeviceInfo     == [disk : {"Diskless", "Inconsistent", "Consistent", "UpToDate"}, quorum : BOOLEAN]
ConnectionInfo == [state : {"Connecting", "Connected"}, role : {"Primary", "Secondary", "Unknown"}]
PeerDeviceInfo == [repl : {"Off", "Established"}, disk : {"DUnknown", "Inconsistent", "UpToDate"},
                   stable : BOOLEAN]
PathInfo       == [established : BOOLEAN]

IsTree(t) ==
  /\ resource \in DOMAIN t /\ DOMAIN t \subseteq Objects
  /\ t[resource] \in ResourceInfo
  /\ \A o \in DOMAIN t : /\ o \in Devices => t[o] \in DeviceInfo
                         /\ o \in Connections => t[o] \in ConnectionInfo
                         /\ o \in PeerDevices => t[o] \in PeerDeviceInfo
                         /\ o \in Paths => t[o] \in PathInfo
                         /\ o \in PeerDevices \union Paths => ConnectionOf(o) \in DOMAIN t

\* a resource with nothing in it
Bare(info) == [o \in {resource} |-> info]

\* t with o added or replaced, with the entries of new, and without those of S
Put(t, o, info) == [x \in DOMAIN t \union {o} |-> IF x = o THEN info ELSE t[x]]
Overlay(t, new) == [x \in DOMAIN t \union DOMAIN new |-> IF x \in DOMAIN new THEN new[x] ELSE t[x]]
Without(t, S) == Restrict(t, DOMAIN t \ S)

-----------------------------------------------------------------------------
(* Promotion information *)

VolumesOf(t) == {v \in Volumes : device(v) \in DOMAIN t}

UpToDatePeers(t, v) ==
  {c \in Conns : peer_device(c, v) \in DOMAIN t /\ t[peer_device(c, v)].disk = "UpToDate"}

count_up_to_date_replicas(t, v) ==
  Cardinality(UpToDatePeers(t, v)) + (IF t[device(v)].disk = "UpToDate" THEN 1 ELSE 0)

have_stable_up_to_date_replicas(t, v) ==
  \/ t[device(v)].disk = "UpToDate"
  \/ \E c \in UpToDatePeers(t, v) : t[peer_device(c, v)].stable

have_primary(t) ==
  \/ t[resource].role = "Primary"
  \/ \E o \in Connections \intersect DOMAIN t : t[o].role = "Primary"

compute_promotion_info(t) ==
  LET devs     == VolumesOf(t)
      withDisk == \A v \in devs : t[device(v)].disk # "Diskless"
      local    == Cardinality({v \in devs : t[device(v)].disk = "UpToDate"})
      replicas == {count_up_to_date_replicas(t, v) : v \in devs}
  IN IF \/ devs = {}
        \/ t[resource].fail_io
        \/ \E v \in devs : ~ t[device(v)].quorum
        \/ 0 \in replicas
     THEN [may_promote |-> FALSE, promotion_score |-> 0]
     ELSE [may_promote |-> /\ ~ have_primary(t)
                           /\ \A v \in devs : have_stable_up_to_date_replicas(t, v),
           promotion_score |-> (IF withDisk THEN 10000 ELSE 0)
                               + 100 * Min({local, 99}) + Min(replicas \union {99})]
=============================================================================
