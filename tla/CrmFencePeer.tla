------------------------------ MODULE CrmFencePeer ------------------------------
(***************************************************************************)
(* The fence-peer and unfence-peer handlers for Pacemaker                  *)
(* (scripts/crm-fence-peer.9.sh, started as crm-fence-peer or              *)
(* crm-unfence-peer).  A node that loses a peer places a location          *)
(* constraint in the cluster information base (CIB), which names the nodes *)
(* that may be promoted; handlers on several nodes read, decide and change *)
(* the same constraint concurrently.                                       *)
(*                                                                         *)
(* The CIB, the membership and the states of DRBD are external and change  *)
(* while a handler runs.  Time is abstracted: a poll that waits is a step  *)
(* that happens later.  A handler has one timeout for all its polling and  *)
(* retrying; once it has used that up, it retries nothing.                 *)
(***************************************************************************)
EXTENDS Naturals, FiniteSets

CONSTANTS
  Nodes,
  Handlers,                     \* bound: pairs of a node and "fence" or "unfence"
  Disks,                        \* bound: states of the local disks
  Masks,                        \* bound: values of UP_TO_DATE_NODES
  Constraints,                  \* bound: what is in the CIB at the start
  stonith_enabled,
  unreachable_peer_is_outdated, unfence_only_if_owner_match,
  suicide_on_failure_if_primary,
  MaxFaults,                    \* bound: failing commands, no answer
  MaxUpdates                    \* bound: changes of the cluster and of DRBD

ASSUME FenceAssumption ==
  /\ Handlers \subseteq Nodes \X {"fence", "unfence"}
  /\ Disks \subseteq {"UpToDate", "Consistent", "Inconsistent", "Unconfigured"}
  /\ Masks \subseteq SUBSET Nodes
  /\ Constraints \subseteq {{}} \union {{S} : S \in SUBSET Nodes}
  /\ {stonith_enabled, unreachable_peer_is_outdated,
      unfence_only_if_owner_match, suicide_on_failure_if_primary} \subseteq BOOLEAN
  /\ MaxFaults \in Nat /\ MaxUpdates \in Nat

Node(h) == h[1]
Action(h) == h[2]

VARIABLES
  cib,       \* the constraint: {} or {S}, S the nodes that may be promoted
  former,    \* the same before its last change: a copy that lags behind
  member,    \* membership: "online", "unclean" (lost), "down" (fenced)
  drbd,      \* of each node: its disk, whether all peer disks are UpToDate
  lock,      \* holder of the lock file of each node
  script,    \* the handlers
  faults, updates,
  lifted,    \* history: some handler has lifted a restriction
  timedout   \* history: a handler whose time was up has been refused because
             \* of a change of the CIB other than that of the constraint

vars == <<cib, former, member, drbd, lock, script, faults, updates, lifted, timedout>>

NoLock == <<>>

Idle == [pc |-> "idle", mask |-> {}, have |-> {}, snapshot |-> {}, current |-> FALSE, new |-> {}, replace |-> FALSE,
         reachable |-> FALSE, fenced |-> FALSE, again |-> FALSE, late |-> FALSE, placed |-> FALSE, code |-> 1, holds |-> FALSE]

Exclude(h) == Nodes \ script[h].mask
Rejects(c, n) == \E S \in c : n \notin S

-----------------------------------------------------------------------------
(* What the membership says of a peer *)

\* the node_state of the CIB
NodeState(n) ==
  [in_ccm   |-> member[n] = "online",
   online   |-> member[n] = "online",
   expected |-> IF member[n] = "down" THEN "down" ELSE "member"]

guess_if_pacemaker_will_fence(n) ==
  LET s == NodeState(n)
  IN /\ stonith_enabled
     /\ ~ (s.expected = "down" /\ ~ s.in_ccm /\ ~ s.online)
     /\ ~ s.in_ccm \/ ~ s.online

\* _check_peer_node_reachable(): the peer_state when polling ends
PeerState(n) ==
  LET s == NodeState(n)
  IN IF ~ guess_if_pacemaker_will_fence(n) /\ ~ s.online
     THEN IF s.expected = "down" /\ ~ s.in_ccm THEN "fenced" ELSE "unreachable"
     ELSE IF s.online THEN "reachable"
     ELSE "unreachable"

-----------------------------------------------------------------------------
(* Steps of a handler *)

Set(h, rec) == script' = [script EXCEPT ![h] = rec]

\* the handler ends; DRBD takes the exit code
Ended(rec) == [Idle EXCEPT !.pc = "exit", !.mask = IF rec.code = 1 THEN {} ELSE rec.mask, !.code = rec.code,
                           !.placed = rec.placed, !.holds = rec.holds]

Exit(h, rec) ==
  /\ Set(h, Ended(rec))
  /\ lock' = [lock EXCEPT ![Node(h)] = IF @ = h THEN NoLock ELSE @]

Goto(h, rec, label) == Set(h, [rec EXCEPT !.pc = label]) /\ UNCHANGED lock

Fault == faults < MaxFaults /\ faults' = faults + 1

\* The handler is called, gets the lock file or gives up waiting for it,
\* reads the local copy of the CIB and sets up the constraint it wants.
\* holds: what it may report from this copy is true of the CIB.
start(h, mask, have) ==
  LET rec == [Idle EXCEPT !.mask = mask, !.new = {mask}, !.have = have, !.holds = (have = cib)]
  IN /\ script[h].pc = "idle" /\ member[Node(h)] = "online"
     /\ Node(h) \in mask /\ (Action(h) = "fence" => mask # Nodes)
     /\ \/ lock[Node(h)] = NoLock /\ lock' = [lock EXCEPT ![Node(h)] = h] /\ UNCHANGED faults
        \/ lock[Node(h)] # NoLock /\ Fault /\ UNCHANGED lock
     /\ Set(h, [rec EXCEPT !.pc = IF Action(h) = "unfence" THEN "unfence"
                                  ELSE IF rec.have = {} THEN "check_peers" ELSE "existing"])
     /\ UNCHANGED <<cib, former, member, drbd, updates, lifted, timedout>>

\* drbd_peer_fencing fence, where a constraint exists
existing(h) ==
  LET rec == script[h]
  IN /\ rec.pc = "existing"
     /\ IF rec.have = rec.new THEN Goto(h, [rec EXCEPT !.code = 4, !.have = {}], "double_check")
        ELSE IF Rejects(rec.have, Node(h)) THEN Goto(h, [rec EXCEPT !.have = {}], "failed")
        ELSE Goto(h, [rec EXCEPT !.again = TRUE, !.have = {}], "check_peers")
     /\ UNCHANGED <<cib, former, member, drbd, faults, updates, lifted, timedout>>

\* check_peer_node_reachable(), with the CIB of the designated coordinator;
\* a peer that is rejected already does not matter.  The poll of a peer
\* that the cluster is going to fence ends with the timeout.
check_peers(h) ==
  /\ script[h].pc = "check_peers"
  /\ LET peers == {n \in Exclude(h) : ~ Rejects(cib, n)}
     IN \/ /\ Goto(h, [script[h] EXCEPT !.reachable = \A n \in peers : PeerState(n) = "reachable",
                                        !.fenced = \A n \in peers : PeerState(n) = "fenced",
                                        !.late = @ \/ \E n \in peers : guess_if_pacemaker_will_fence(n)], "decide")
           /\ UNCHANGED faults
        \/ /\ Fault  \* no coordinator, or no answer from the peer
           /\ Goto(h, [script[h] EXCEPT !.reachable = FALSE, !.fenced = FALSE], "decide")
        \/ Fault /\ Exit(h, script[h])  \* no quorum
  /\ UNCHANGED <<cib, former, member, drbd, updates, lifted, timedout>>

\* the rest of try_place_constraint() before the constraint is placed
decide(h) ==
  LET rec  == script[h]
      disk == drbd[Node(h)].disk
      place(code) == Goto(h, [rec EXCEPT !.code = code, !.reachable = FALSE, !.fenced = FALSE], "query")
  IN /\ rec.pc = "decide"
     /\ IF drbd[Node(h)].peers \/ disk = "Unconfigured" THEN Exit(h, rec)
        ELSE IF rec.reachable /\ disk \in {"UpToDate", "Consistent"} THEN place(4)
        ELSE IF rec.fenced /\ disk = "UpToDate" THEN place(7)
        ELSE IF disk = "UpToDate" THEN place(5)
        ELSE IF ~ rec.reachable /\ unreachable_peer_is_outdated /\ disk = "Consistent" THEN place(5)
        ELSE Exit(h, [rec EXCEPT !.code = 5])
     /\ UNCHANGED <<cib, former, member, drbd, faults, updates, lifted, timedout>>

\* create_or_modify_constraint() did not succeed
NotPlaced(h) ==
  LET rec == [script[h] EXCEPT !.code = 1, !.snapshot = {}, !.current = FALSE, !.replace = FALSE]
  IN IF Action(h) = "unfence" THEN Exit(h, rec)
     ELSE IF rec.again THEN Goto(h, rec, "failed")
     ELSE Goto(h, rec, "recheck")

\* Mutant: a constraint that is there is replaced.
ReplaceConstraint(h) ==
  LET rec == script[h]
  IN /\ rec.pc = "query"
     /\ \/ Rejects(cib, Node(h)) /\ NotPlaced(h)
        \/ /\ ~ Rejects(cib, Node(h))
           /\ Goto(h, [rec EXCEPT !.snapshot = cib, !.current = TRUE, !.new = {rec.mask},
                                  !.replace = @ \/ (Action(h) = "fence" /\ cib # {})], "patch")
     /\ UNCHANGED <<cib, former, member, drbd, faults, updates, lifted, timedout>>

\* Mutant: a handler does not look whether it is rejected itself.
RestrictAnyway(h) ==
  LET rec == script[h]
      fence == Action(h) = "fence"
      new == IF fence /\ cib # {} THEN {S \ Exclude(h) : S \in cib} ELSE rec.new
  IN /\ rec.pc = "query"
     /\ Goto(h, [rec EXCEPT !.snapshot = cib, !.current = TRUE, !.new = new,
                            !.replace = @ \/ (fence /\ cib # {})], "patch")
     /\ UNCHANGED <<cib, former, member, drbd, faults, updates, lifted, timedout>>

\* The loop of create_or_modify_constraint(): a copy of the CIB, and what it
\* becomes.  A constraint that is there is restricted further by fence.
query(h) ==
  LET rec == script[h]
      fence == Action(h) = "fence"
      new == IF fence /\ cib # {} THEN {S \ Exclude(h) : S \in cib} ELSE rec.new
  IN /\ rec.pc = "query"
     /\ \/ Rejects(cib, Node(h)) /\ NotPlaced(h)
        \/ /\ ~ Rejects(cib, Node(h))
           /\ Goto(h, [rec EXCEPT !.snapshot = cib, !.current = TRUE, !.new = new,
                                  !.replace = @ \/ (fence /\ cib # {})], "patch")
     /\ UNCHANGED <<cib, former, member, drbd, faults, updates, lifted, timedout>>

\* what "cibadmin --modify --allow-create" or "--replace" makes of the copy
Changed(h) ==
  LET rec == script[h]
  IN IF rec.replace THEN (IF rec.snapshot = {} THEN {} ELSE rec.new)
     ELSE {UNION (rec.snapshot \union rec.new)}

\* The CIB changes: the copies that handlers took are outdated.  A step that
\* lifts a restriction ends what fence handlers hold.
CibBecomes(c, h, rec, lifts) ==
  /\ cib' = c /\ former' = (IF c = cib THEN former ELSE cib)
  /\ script' = [g \in Handlers |->
                  IF g = h THEN rec
                  ELSE [script[g] EXCEPT !.current = FALSE, !.holds = @ /\ ~ lifts]]
  /\ lifted' = (lifted \/ lifts)

\* cibadmin --patch takes the change
Patched(h) ==
  LET rec == script[h]
      done == [rec EXCEPT !.placed = TRUE, !.holds = TRUE, !.pc = "double_check",
                          !.snapshot = {}, !.new = {}, !.current = FALSE, !.replace = FALSE]
      next == IF Action(h) = "fence" /\ rec.code \in {4, 7} THEN done ELSE Ended(done)
  IN /\ rec.current /\ Changed(h) # rec.snapshot
     /\ CibBecomes(Changed(h), h, next, Action(h) = "unfence")
     /\ lock' = [lock EXCEPT ![Node(h)] = IF next.pc = "exit" /\ @ = h THEN NoLock ELSE @]
     /\ UNCHANGED <<faults, timedout>>

\* cibadmin fails, or there is nothing to change
PatchFails(h) ==
  /\ NotPlaced(h)
  /\ (script[h].current /\ Changed(h) = script[h].snapshot /\ UNCHANGED faults) \/ Fault
  /\ UNCHANGED <<cib, former, lifted, timedout>>

\* Mutant: an outdated copy is not an error to try again after.
PatchOnce(h) ==
  /\ script[h].pc = "patch"
  /\ \/ Patched(h)
     \/ ~ script[h].current /\ NotPlaced(h) /\ UNCHANGED <<cib, former, faults, lifted, timedout>>
     \/ PatchFails(h)
  /\ UNCHANGED <<member, drbd, updates>>

\* cibadmin --patch: refused if the CIB has changed since the copy was taken,
\* and then tried again unless the time is up.
patch(h) ==
  LET rec == script[h]
  IN /\ rec.pc = "patch"
     /\ \/ Patched(h)
        \/ /\ ~ rec.current /\ ~ rec.late
           /\ Goto(h, [rec EXCEPT !.snapshot = {}], "query")
           /\ UNCHANGED <<cib, former, faults, lifted, timedout>>
        \/ /\ ~ rec.current /\ NotPlaced(h)
           /\ timedout' = (timedout \/ rec.snapshot = cib)
           /\ UNCHANGED <<cib, former, faults, lifted>>
        \/ PatchFails(h)
     /\ UNCHANGED <<member, drbd, updates>>

\* drbd_peer_fencing fence: maybe callback and operator raced
recheck(h) ==
  LET rec == [script[h] EXCEPT !.have = cib, !.holds = TRUE]
  IN /\ script[h].pc = "recheck"
     /\ \/ cib # {} /\ Goto(h, rec, "existing") /\ UNCHANGED faults
        \/ cib = {} /\ Goto(h, rec, "failed") /\ UNCHANGED faults
        \/ Fault /\ Goto(h, [rec EXCEPT !.have = {}], "failed")
     /\ UNCHANGED <<cib, former, member, drbd, updates, lifted, timedout>>

\* The constraint could not be placed; a Primary may reboot its node.
failed(h) ==
  /\ script[h].pc = "failed"
  /\ \/ Exit(h, script[h])
     \/ suicide_on_failure_if_primary /\ Goto(h, script[h], "reboot")
  /\ UNCHANGED <<cib, former, member, drbd, faults, updates, lifted, timedout>>

\* double_check_after_fencing()
double_check(h) ==
  LET rec == script[h]
  IN /\ rec.pc = "double_check"
     /\ \/ ~ drbd[Node(h)].peers /\ Exit(h, rec) /\ UNCHANGED <<cib, former, lifted>>
        \/ /\ drbd[Node(h)].peers
           /\ CibBecomes({}, h, Ended([rec EXCEPT !.code = 1, !.holds = FALSE]), TRUE)
           /\ lock' = [lock EXCEPT ![Node(h)] = IF @ = h THEN NoLock ELSE @]
     /\ UNCHANGED <<member, drbd, faults, updates, timedout>>

\* drbd_peer_fencing unfence
unfence(h) ==
  LET rec == script[h]
      state == drbd[Node(h)]
  IN /\ rec.pc = "unfence"
     /\ IF rec.have = {} THEN Exit(h, rec)
        ELSE IF unfence_only_if_owner_match /\ Rejects(rec.have, Node(h)) THEN Exit(h, rec)
        ELSE IF state.disk = "UpToDate" /\ state.peers THEN Goto(h, rec, "remove")
        ELSE IF rec.have = rec.new THEN Exit(h, rec)
        ELSE Goto(h, [rec EXCEPT !.have = {}], "query")
     /\ UNCHANGED <<cib, former, member, drbd, faults, updates, lifted, timedout>>

remove_constraint(h) ==
  /\ script[h].pc = "remove"
  /\ CibBecomes({}, h, Ended(script[h]), TRUE)
  /\ lock' = [lock EXCEPT ![Node(h)] = IF @ = h THEN NoLock ELSE @]
  /\ UNCHANGED <<member, drbd, faults, updates, timedout>>

-----------------------------------------------------------------------------
(* The cluster and DRBD (external) *)

Update == updates < MaxUpdates /\ updates' = updates + 1

\* something else in the CIB changes
cib_updated ==
  /\ Update
  /\ CibBecomes(cib, NoLock, Idle, FALSE)
  /\ UNCHANGED <<member, drbd, lock, faults, timedout>>

\* A node is lost; the cluster fences it some time later.  Its node_state is
\* in the CIB.  No handler runs there: without quorum it could not change
\* the CIB.
member_changes(n) ==
  /\ \A h \in Handlers : Node(h) = n => script[h].pc \in {"idle", "exit", "reboot"}
  /\ \/ member[n] = "online" /\ Update /\ member' = [member EXCEPT ![n] = "unclean"]
     \/ member[n] = "unclean" /\ stonith_enabled /\ member' = [member EXCEPT ![n] = "down"] /\ UNCHANGED updates
  /\ CibBecomes(cib, NoLock, Idle, FALSE)
  /\ UNCHANGED <<drbd, lock, faults, timedout>>

\* links recover, or a resync ends
peers_recover(n) ==
  /\ Update
  /\ ~ drbd[n].peers /\ drbd' = [drbd EXCEPT ![n].peers = TRUE]
  /\ UNCHANGED <<cib, former, member, lock, script, faults, lifted, timedout>>

-----------------------------------------------------------------------------
(* The specification *)

Init ==
  /\ cib \in Constraints
  /\ former = cib
  /\ member = [n \in Nodes |-> "online"]
  /\ drbd \in [Nodes -> [disk : Disks, peers : {FALSE}]]
  /\ lock = [n \in Nodes |-> NoLock]
  /\ script = [h \in Handlers |-> Idle]
  /\ faults = 0 /\ updates = 0 /\ lifted = FALSE /\ timedout = FALSE

Step(h) == existing(h) \/ check_peers(h) \/ decide(h) \/ query(h) \/ patch(h) \/ recheck(h)
           \/ failed(h) \/ double_check(h) \/ unfence(h) \/ remove_constraint(h)

Next ==
  \/ \E h \in Handlers : Step(h) \/ \E mask \in Masks, have \in {cib, former} : start(h, mask, have)
  \/ cib_updated
  \/ \E n \in Nodes : member_changes(n) \/ peers_recover(n)

Spec == Init /\ [][Next]_vars

-----------------------------------------------------------------------------
(* Properties *)

\* A fence handler has told DRBD that the peers are fenced by the constraint.
Fenced(h) ==
  /\ Action(h) = "fence" /\ script[h].pc = "exit"
  /\ script[h].code \in {4, 7} \/ (script[h].code = 5 /\ script[h].placed)

\* The peers that a handler reported as fenced may not be promoted as long
\* as no handler lifts the constraint, whatever other handlers do to it
\* (create_or_modify_constraint(), restrict_existing_constraint_further()).
\* Not where the handler took its success from a local copy that lagged
\* behind the CIB when it was called ("cibadmin -Ql"): see FoundIsPlaced.
FencedStayBanned ==
  \A h \in Handlers : (Fenced(h) /\ script[h].holds) => \A n \in Exclude(h) : Rejects(cib, n)

\* Of nodes that fence each other only one succeeds (dual-primary setups,
\* loss of the replication link), as long as no handler lifts the constraint
\* and none took its success from a local copy that lagged behind.
OneWinner ==
  \A g, h \in Handlers :
    ~ (/\ Fenced(g) /\ Fenced(h) /\ script[g].holds /\ script[h].holds
       /\ Node(g) \in Exclude(h) /\ Node(h) \in Exclude(g))

\* If nothing fails and nothing is lifted, one of the handlers that were
\* called to fence succeeds: they do not all give up because of each other,
\* nor because of other changes of the CIB.  Except where such a change
\* refused the patch of a handler that had used its timeout up, waiting for
\* a peer to be fenced or retrying: it gives up at once.
Fencing == {h \in Handlers : Action(h) = "fence" /\ script[h].pc # "idle"}
SomeoneWins ==
  (/\ faults = 0 /\ ~ lifted /\ ~ timedout /\ Fencing # {}
   /\ \A h \in Fencing : script[h].pc \in {"exit", "reboot"} /\ drbd[Node(h)] = [disk |-> "UpToDate", peers |-> FALSE])
  => \E h \in Fencing : Fenced(h)

\* "suitable constraint already placed": the constraint that a handler finds
\* when it is called is in the CIB at that time.
FoundIsPlaced ==
  [][\A h \in Handlers :
       (script[h].pc = "idle" /\ script'[h].pc = "existing" /\ script'[h].have = script'[h].new)
       => \A n \in Exclude(h)' : Rejects(cib, n)]_vars

\* An unfence handler lifts restrictions, it never adds one.
UnfenceNeverBans ==
  [][\A h \in Handlers : (Action(h) = "unfence" /\ Step(h)) => \A n \in Nodes : Rejects(cib', n) => Rejects(cib, n)]_vars
=============================================================================
