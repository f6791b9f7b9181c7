--------------------------- MODULE CrmFencePeerProofs ---------------------------
(***************************************************************************)
(* Proofs about the fence-peer handlers, for any set of nodes and          *)
(* handlers: what a handler has reported as fenced stays banned, and of    *)
(* two nodes that fence each other only one succeeds.                      *)
(***************************************************************************)
EXTENDS CrmFencePeer, TLAPS

Labels == {"idle", "existing", "check_peers", "decide", "query", "patch", "recheck", "failed",
           "double_check", "unfence", "remove", "reboot", "exit"}

Copies == {{}} \union {{S} : S \in SUBSET Nodes}

Script == [pc : Labels, mask : SUBSET Nodes, have : Copies, snapshot : Copies, current : BOOLEAN,
           new : Copies, replace : BOOLEAN, reachable : BOOLEAN, fenced : BOOLEAN, again : BOOLEAN,
           late : BOOLEAN, placed : BOOLEAN, code : Nat, holds : BOOLEAN]

TypeOK == cib \in Copies /\ former \in Copies /\ script \in [Handlers -> Script]

\* What a handler that fences knows while it decides and places: the
\* constraint it wants allows its own node and none that it excludes, and a
\* copy of the CIB that is current does not reject its node.
LocalOK(h, r, c) ==
  Action(h) = "fence" =>
    /\ r.pc \notin {"idle", "double_check", "exit"} =>
         /\ ~ r.placed
         /\ r.new # {}
         /\ \A T \in r.new : Node(h) \in T /\ T \subseteq r.mask
    /\ r.pc \notin {"query", "patch", "double_check", "exit"} => r.code = 1
    /\ r.pc \notin {"unfence", "remove"}
    /\ (r.pc = "patch" /\ r.current) =>
         /\ r.snapshot = c /\ ~ Rejects(c, Node(h))
         /\ c # {} => r.replace /\ r.new = {S \ (Nodes \ r.mask) : S \in c}

\* The handler has reported, or is going to report, that its peers are
\* fenced, and nothing was lifted since.
Claims(h, r) ==
  /\ Action(h) = "fence" /\ r.holds
  /\ \/ r.pc = "existing" /\ r.have = r.new
     \/ r.pc = "double_check"
     \/ r.pc = "exit" /\ (r.code \in {4, 7} \/ (r.code = 5 /\ r.placed))

Bans(r, c) == \A n \in Nodes \ r.mask : Rejects(c, n)

Rivals(g, q, h, r) == Node(g) \notin r.mask /\ Node(h) \notin q.mask

IInv ==
  /\ TypeOK
  /\ \A h \in Handlers : LocalOK(h, script[h], cib)
  /\ \A h \in Handlers : Claims(h, script[h]) => Bans(script[h], cib)
  /\ \A g, h \in Handlers :
       Claims(g, script[g]) /\ Claims(h, script[h]) => ~ Rivals(g, script[g], h, script[h])

-----------------------------------------------------------------------------
(* Lemmas *)

\* A step that changes only one handler keeps the invariant if the handler's
\* own facts hold, and if it makes no claim that the CIB does not support.
LEMMA OneHandler ==
  ASSUME IInv, NEW h \in Handlers, NEW r \in Script,
         script' = [script EXCEPT ![h] = r], cib' = cib, former' = former,
         LocalOK(h, r, cib),
         Claims(h, r) => \/ Claims(h, script[h]) /\ r.mask = script[h].mask
                         \/ Bans(r, cib) /\ ~ Rejects(cib, Node(h))
  PROVE  IInv'
<1> /\ script'[h] = r
    /\ \A g \in Handlers : g # h => script'[g] = script[g]
  BY DEF IInv, TypeOK
<1>1. TypeOK' BY DEF IInv, TypeOK
<1>2. \A g \in Handlers : LocalOK(g, script[g], cib)'
  BY DEF IInv, LocalOK, Rejects
<1>3. \A g \in Handlers : Claims(g, script[g])' => Bans(script[g], cib)'
  BY DEF IInv, Claims, Bans, Rejects
<1>4. ASSUME NEW f \in Handlers, NEW g \in Handlers, Claims(f, script'[f]), Claims(g, script'[g]),
             Rivals(f, script'[f], g, script'[g])
      PROVE  FALSE
  <2>0. Node(f) \in Nodes /\ Node(g) \in Nodes BY FenceAssumption DEF Node
  <2>1. CASE f # h /\ g # h BY <1>4, <2>1 DEF IInv
  <2>2. CASE Claims(h, script[h]) /\ r.mask = script[h].mask BY <1>4, <2>2 DEF IInv, Rivals
  <2>3. CASE Bans(r, cib) /\ ~ Rejects(cib, Node(h))
    <3>1. CASE f = h /\ g = h BY <1>4, <2>0, <2>3, <3>1 DEF Rivals, Bans
    <3>2. CASE f = h /\ g # h
      <4>1. Bans(script[g], cib) BY <1>4, <3>2 DEF IInv
      <4> QED BY <1>4, <2>0, <2>3, <3>2, <4>1 DEF Rivals, Bans
    <3>3. CASE f # h /\ g = h
      <4>1. Bans(script[f], cib) BY <1>4, <3>3 DEF IInv
      <4> QED BY <1>4, <2>0, <2>3, <3>3, <4>1 DEF Rivals, Bans
    <3> QED BY <2>1, <3>1, <3>2, <3>3
  <2> QED BY <1>4, <2>1, <2>2, <2>3
<1>5. \A f, g \in Handlers :
        Claims(f, script'[f]) /\ Claims(g, script'[g]) => ~ Rivals(f, script'[f], g, script'[g])
  BY <1>4
<1> QED BY <1>1, <1>2, <1>3, <1>5 DEF IInv, Claims, Rivals

\* The same for a step that changes the CIB: if it lifts nothing it keeps
\* every ban, and a claim it makes rests on a CIB that did not reject the
\* handler's own node.
LEMMA CibStep ==
  ASSUME IInv, NEW h \in Handlers, NEW r \in Script, NEW c \in Copies, NEW lifts \in BOOLEAN,
         CibBecomes(c, h, r, lifts),
         r.pc # "patch", LocalOK(h, r, c),
         lifts => ~ Claims(h, r),
         ~ lifts => \A n \in Nodes : Rejects(cib, n) => Rejects(c, n),
         ~ lifts /\ Claims(h, r) => Bans(r, c) /\ Node(h) \in r.mask /\ ~ Rejects(cib, Node(h))
  PROVE  IInv'
<1>0. /\ cib' = c
      /\ script'[h] = r
      /\ \A g \in Handlers : g # h => script'[g] = [script[g] EXCEPT !.current = FALSE, !.holds = @ /\ ~ lifts]
      /\ script' = [g \in Handlers |-> script'[g]]
      /\ former' \in {former, cib}
  BY DEF CibBecomes
<1>a. \A g \in Handlers : script[g] \in Script BY DEF IInv, TypeOK
<1>b. ASSUME NEW g \in Handlers, g # h
      PROVE  /\ script'[g] \in Script
             /\ LocalOK(g, script'[g], c)
             /\ script'[g].mask = script[g].mask
             /\ Claims(g, script'[g]) => ~ lifts /\ Claims(g, script[g])
  <2>1. LocalOK(g, script[g], cib) BY DEF IInv
  <2>2. script'[g] = [script[g] EXCEPT !.current = FALSE, !.holds = @ /\ ~ lifts] BY <1>0, <1>b
  <2>3. script[g] \in Script /\ script'[g] \in Script BY <1>a, <2>2 DEF Script
  <2>4. /\ script'[g].pc = script[g].pc /\ script'[g].mask = script[g].mask
        /\ script'[g].have = script[g].have /\ script'[g].new = script[g].new
        /\ script'[g].placed = script[g].placed /\ script'[g].code = script[g].code
        /\ script'[g].current = FALSE
        /\ script'[g].holds = (script[g].holds /\ ~ lifts)
    BY <2>2, <2>3 DEF Script
  <2>5. LocalOK(g, script'[g], c) BY <2>1, <2>4 DEF LocalOK
  <2>6. Claims(g, script'[g]) => ~ lifts /\ Claims(g, script[g]) BY <2>4 DEF Claims
  <2> QED BY <2>3, <2>4, <2>5, <2>6
<1>1. TypeOK' BY <1>0, <1>b DEF IInv, TypeOK
<1>2. \A g \in Handlers : LocalOK(g, script'[g], cib') BY <1>0, <1>b
<1>3. ASSUME NEW g \in Handlers, Claims(g, script'[g])
      PROVE  Bans(script'[g], cib')
  <2>1. CASE g = h BY <1>0, <1>3, <2>1
  <2>2. CASE g # h
    <3>1. ~ lifts /\ Claims(g, script[g]) /\ script'[g].mask = script[g].mask BY <1>b, <1>3, <2>2
    <3>2. Bans(script[g], cib) BY <3>1 DEF IInv
    <3> QED BY <1>0, <3>1, <3>2 DEF Bans
  <2> QED BY <2>1, <2>2
<1>4. ASSUME NEW f \in Handlers, NEW g \in Handlers, Claims(f, script'[f]), Claims(g, script'[g]),
             Rivals(f, script'[f], g, script'[g])
      PROVE  FALSE
  <2>0. Node(f) \in Nodes /\ Node(g) \in Nodes BY FenceAssumption DEF Node
  <2>1. CASE f # h /\ g # h
    BY <1>4, <1>b, <2>1 DEF IInv, Rivals
  <2>2. CASE f = h /\ g = h
    BY <1>0, <1>4, <2>0, <2>2 DEF Rivals, Bans
  <2>3. CASE f = h /\ g # h
    <3>1. ~ lifts /\ Claims(g, script[g]) /\ script'[g].mask = script[g].mask BY <1>b, <1>4, <2>3
    <3>2. Bans(script[g], cib) BY <3>1 DEF IInv
    <3> QED BY <1>0, <1>4, <2>0, <2>3, <3>1, <3>2 DEF Rivals, Bans
  <2>4. CASE f # h /\ g = h
    <3>1. ~ lifts /\ Claims(f, script[f]) /\ script'[f].mask = script[f].mask BY <1>b, <1>4, <2>4
    <3>2. Bans(script[f], cib) BY <3>1 DEF IInv
    <3> QED BY <1>0, <1>4, <2>0, <2>4, <3>1, <3>2 DEF Rivals, Bans
  <2> QED BY <2>1, <2>2, <2>3, <2>4
<1>5. \A f, g \in Handlers :
        Claims(f, script'[f]) /\ Claims(g, script'[g]) => ~ Rivals(f, script'[f], g, script'[g])
  BY <1>4
<1>6. \A g \in Handlers : Claims(g, script'[g]) => Bans(script'[g], cib') BY <1>3
<1> QED BY <1>1, <1>2, <1>5, <1>6 DEF IInv, Claims, Rivals, LocalOK, Bans, Rejects

\* A handler that has not been called.
LEMMA IdleScript ==
  Idle \in Script /\ Idle.pc = "idle" /\ Idle.code = 1 /\ Idle.placed = FALSE /\ Idle.holds = FALSE
  /\ Idle.replace = FALSE
BY DEF Idle, Script, Labels, Copies

\* What Ended() keeps of a handler, and that Goto() keeps all but the label.
LEMMA EndedScript ==
  ASSUME NEW r \in Script
  PROVE  /\ Ended(r) \in Script
         /\ Ended(r).pc = "exit" /\ Ended(r).code = r.code
         /\ Ended(r).placed = r.placed /\ Ended(r).holds = r.holds
         /\ r.code # 1 => Ended(r).mask = r.mask
<1>2. (IF r.code = 1 THEN {} ELSE r.mask) \in SUBSET Nodes BY DEF Script
<1>3. "exit" \in Labels BY DEF Labels
<1> QED BY IdleScript, <1>2, <1>3 DEF Ended, Script

\* A handler that ends makes no claim it did not make before.
LEMMA ExitStep ==
  ASSUME IInv, NEW h \in Handlers, NEW r \in Script, Exit(h, r), cib' = cib, former' = former,
         Action(h) = "fence" =>
           \/ r.code = 1
           \/ r.code = 5 /\ ~ r.placed
           \/ r = script[h] /\ r.pc = "double_check"
  PROVE  IInv'
<1>1. script' = [script EXCEPT ![h] = Ended(r)] BY DEF Exit, Set
<1>2. LocalOK(h, Ended(r), cib) BY EndedScript DEF LocalOK
<1>3. Claims(h, Ended(r)) => Claims(h, script[h]) /\ Ended(r).mask = script[h].mask
  BY EndedScript DEF Claims, Script
<1> QED BY <1>1, <1>2, <1>3, OneHandler, EndedScript

\* A handler that goes on while it claims nothing.
LEMMA GotoStep ==
  ASSUME IInv, NEW h \in Handlers, NEW r \in Script, NEW label \in Labels,
         Goto(h, r, label), cib' = cib, former' = former,
         LocalOK(h, [r EXCEPT !.pc = label], cib),
         Action(h) = "fence" /\ label = "existing" /\ r.have = r.new
           => Bans(r, cib) /\ ~ Rejects(cib, Node(h)),
         label \notin {"exit", "double_check"}
  PROVE  IInv'
<1> DEFINE q == [r EXCEPT !.pc = label]
<1>1. q \in Script /\ q.pc = label /\ q.have = r.have /\ q.new = r.new /\ q.mask = r.mask BY DEF Script
<1>2. Claims(h, q) => Bans(q, cib) /\ ~ Rejects(cib, Node(h)) BY <1>1 DEF Claims, Bans
<1>3. script' = [script EXCEPT ![h] = q] BY DEF Goto, Set
<1> HIDE DEF q
<1> QED BY <1>1, <1>2, <1>3, OneHandler DEF q

\* A constraint that a handler could not place.
LEMMA NotPlacedStep ==
  ASSUME IInv, NEW h \in Handlers, NotPlaced(h), cib' = cib, former' = former,
         script[h].pc \in {"query", "patch"}
  PROVE  IInv'
<1> DEFINE rec == [script[h] EXCEPT !.code = 1, !.snapshot = {}, !.current = FALSE, !.replace = FALSE]
<1>0. script[h] \in Script /\ LocalOK(h, script[h], cib) BY DEF IInv, TypeOK
<1>1. rec \in Script /\ rec.code = 1 /\ rec.new = script[h].new /\ rec.mask = script[h].mask
      /\ rec.placed = script[h].placed
  BY <1>0 DEF Script, Copies
<1>2. \/ Exit(h, rec)
      \/ Goto(h, rec, "failed")
      \/ Goto(h, rec, "recheck")
  BY DEF NotPlaced
<1> HIDE DEF rec
<1>3. CASE Exit(h, rec) BY <1>1, <1>3, ExitStep
<1>4. ASSUME NEW label \in {"failed", "recheck"}, Goto(h, rec, label) PROVE IInv'
  <2>1. LocalOK(h, [rec EXCEPT !.pc = label], cib) BY <1>0, <1>1 DEF LocalOK, Script
  <2> QED BY <1>1, <1>4, <2>1, GotoStep DEF Labels
<1> QED BY <1>2, <1>3, <1>4

-----------------------------------------------------------------------------
(* One lemma per action *)

\* A handler starts: it claims something only where the constraint it finds
\* is the one it wants, and the copy it reads is the CIB.
LEMMA StartStep ==
  ASSUME IInv, NEW h \in Handlers, NEW mask \in Masks, NEW have \in {cib, former}, start(h, mask, have)
  PROVE  IInv'
<1> DEFINE label == IF Action(h) = "unfence" THEN "unfence"
                    ELSE IF have = {} THEN "check_peers" ELSE "existing"
           current == have = cib
           rec == [Idle EXCEPT !.mask = mask, !.new = {mask}, !.have = have, !.holds = current]
           r == [rec EXCEPT !.pc = label]
<1>1. mask \in SUBSET Nodes /\ have \in Copies /\ {mask} \in Copies /\ label \in Labels
  BY FenceAssumption DEF IInv, TypeOK, Copies, Labels
<1>2. Action(h) \in {"fence", "unfence"} BY FenceAssumption DEF Action
<1>3. Node(h) \in mask /\ cib' = cib /\ former' = former BY DEF start
<1>4. rec \in Script /\ rec.have = have /\ rec.mask = mask /\ rec.new = {mask} /\ rec.code = 1 /\ rec.placed = FALSE
      /\ rec.holds = current
  <2>1. current \in BOOLEAN OBVIOUS
  <2> HIDE DEF current
  <2>2. rec \in Script BY <1>1, <2>1, IdleScript DEF Script
  <2>3. rec.have = have /\ rec.mask = mask /\ rec.new = {mask} /\ rec.holds = current BY <1>1, <2>1, IdleScript DEF Script
  <2>4. rec.code = 1 /\ rec.placed = FALSE BY IdleScript DEF Script
  <2> HIDE DEF rec
  <2> QED BY <2>2, <2>3, <2>4
<1>5. script' = [script EXCEPT ![h] = r]
  <2>1. rec.have = have BY <1>4
  <2> HIDE DEF rec
  <2> QED BY <2>1 DEF start, Set, rec
<1> HIDE DEF rec
<1>6. r \in Script /\ r.pc = label /\ r.have = have /\ r.mask = mask /\ r.new = {mask} /\ r.code = 1
      /\ r.placed = FALSE /\ r.holds = current
  BY <1>1, <1>4 DEF Script
<1> HIDE DEF r
<1>7. LocalOK(h, r, cib) BY <1>2, <1>3, <1>6 DEF LocalOK
<1>8. ASSUME Claims(h, r) PROVE Bans(r, cib) /\ ~ Rejects(cib, Node(h))
  <2>1. r.pc \notin {"double_check", "exit"} BY <1>6
  <2>2. have = {mask} /\ have = cib BY <1>6, <1>8, <2>1 DEF Claims
  <2> QED BY <1>3, <1>6, <2>2 DEF Bans, Rejects
<1> QED BY <1>3, <1>5, <1>6, <1>7, <1>8, OneHandler

\* The steps that change nothing but the handler.
LEMMA ExistingStep == ASSUME IInv, NEW h \in Handlers, existing(h) PROVE IInv'
<1>0. /\ script[h] \in Script /\ LocalOK(h, script[h], cib) /\ cib' = cib /\ former' = former
      /\ script[h].pc = "existing" /\ {} \in Copies
  BY DEF IInv, TypeOK, existing, Copies
<1> DEFINE rec == script[h]
           found == [rec EXCEPT !.code = 4, !.have = {}]
           lost == [rec EXCEPT !.have = {}]
           more == [rec EXCEPT !.again = TRUE, !.have = {}]
<1>1. CASE rec.have = rec.new
  <2> DEFINE q == [found EXCEPT !.pc = "double_check"]
  <2>1. found \in Script /\ found.mask = rec.mask /\ found.holds = rec.holds BY <1>0 DEF Script
  <2>2. script' = [script EXCEPT ![h] = q] BY <1>1 DEF existing, Goto, Set
  <2> HIDE DEF found
  <2>3. q \in Script /\ q.pc = "double_check" /\ q.mask = rec.mask /\ q.holds = rec.holds
    BY <2>1 DEF Script, Labels
  <2> HIDE DEF q
  <2>4. LocalOK(h, q, cib) BY <2>3 DEF LocalOK
  <2>5. Claims(h, q) => Claims(h, rec) /\ q.mask = rec.mask BY <1>0, <1>1, <2>3 DEF Claims
  <2> QED BY <1>0, <2>2, <2>3, <2>4, <2>5, OneHandler
<1>2. ASSUME NEW q \in {lost, more}, NEW label \in {"failed", "check_peers"}, Goto(h, q, label)
      PROVE  IInv'
  <2>1. q \in Script /\ q.new = rec.new /\ q.mask = rec.mask /\ q.code = rec.code /\ q.placed = rec.placed
    BY <1>0, <1>2 DEF Script
  <2>2. LocalOK(h, [q EXCEPT !.pc = label], cib) BY <1>0, <2>1 DEF LocalOK, Script
  <2> QED BY <1>0, <1>2, <2>1, <2>2, GotoStep DEF Labels
<1>3. CASE rec.have # rec.new
  BY <1>2, <1>3 DEF existing
<1> QED BY <1>1, <1>3

\* check_peers: what is found out about the peers is only remembered.
LEMMA CheckPeersStep == ASSUME IInv, NEW h \in Handlers, check_peers(h) PROVE IInv'
<1>0. /\ script[h] \in Script /\ LocalOK(h, script[h], cib) /\ cib' = cib /\ former' = former
      /\ script[h].pc = "check_peers"
  BY DEF IInv, TypeOK, check_peers
<1>1. ASSUME NEW a \in BOOLEAN, NEW b \in BOOLEAN, NEW c \in BOOLEAN,
             Goto(h, [script[h] EXCEPT !.reachable = a, !.fenced = b, !.late = c], "decide")
      PROVE  IInv'
  <2> DEFINE q == [script[h] EXCEPT !.reachable = a, !.fenced = b, !.late = c]
  <2>1. q \in Script /\ q.new = script[h].new /\ q.mask = script[h].mask /\ q.code = script[h].code
        /\ q.placed = script[h].placed
    BY <1>0 DEF Script
  <2>2. Goto(h, q, "decide") BY <1>1
  <2> HIDE DEF q
  <2>3. LocalOK(h, [q EXCEPT !.pc = "decide"], cib) BY <1>0, <2>1 DEF LocalOK, Script
  <2> QED BY <1>0, <2>1, <2>2, <2>3, GotoStep DEF Labels
<1>2. ASSUME Exit(h, script[h]) PROVE IInv'
  BY <1>0, <1>2, ExitStep DEF LocalOK
<1>3. \/ \E a, b, c \in BOOLEAN : Goto(h, [script[h] EXCEPT !.reachable = a, !.fenced = b, !.late = c], "decide")
      \/ Exit(h, script[h])
  <2> DEFINE q(a, b, c) == [script[h] EXCEPT !.reachable = a, !.fenced = b, !.late = c]
             peers == {n \in Exclude(h) : ~ Rejects(cib, n)}
             reach == \A n \in peers : PeerState(n) = "reachable"
             down == \A n \in peers : PeerState(n) = "fenced"
             late == script[h].late \/ \E n \in peers : guess_if_pacemaker_will_fence(n)
  <2>1. reach \in BOOLEAN /\ down \in BOOLEAN /\ late \in BOOLEAN BY <1>0 DEF Script
  <2>2. [script[h] EXCEPT !.reachable = FALSE, !.fenced = FALSE] = q(FALSE, FALSE, script[h].late)
        /\ script[h].late \in BOOLEAN
    BY <1>0 DEF Script
  <2>3. \/ Goto(h, q(reach, down, late), "decide")
        \/ Goto(h, [script[h] EXCEPT !.reachable = FALSE, !.fenced = FALSE], "decide")
        \/ Exit(h, script[h])
    BY DEF check_peers
  <2> HIDE DEF reach, down, late
  <2> QED BY <2>1, <2>2, <2>3
<1> QED BY <1>1, <1>2, <1>3

\* decide: the decision leaves the constraint as it is.
LEMMA DecideStep == ASSUME IInv, NEW h \in Handlers, decide(h) PROVE IInv'
<1>0. /\ script[h] \in Script /\ LocalOK(h, script[h], cib) /\ cib' = cib /\ former' = former
      /\ script[h].pc = "decide"
  BY DEF IInv, TypeOK, decide
<1> DEFINE placing(code) == [script[h] EXCEPT !.code = code, !.reachable = FALSE, !.fenced = FALSE]
           refused == [script[h] EXCEPT !.code = 5]
<1>1. ASSUME NEW code \in {4, 5, 7}, Goto(h, placing(code), "query") PROVE IInv'
  <2> DEFINE q == placing(code)
  <2>0. code \in Nat OBVIOUS
  <2>1. q \in Script /\ q.new = script[h].new /\ q.mask = script[h].mask /\ q.placed = script[h].placed
    BY <1>0, <2>0 DEF Script
  <2>2. Goto(h, q, "query") BY <1>1
  <2> HIDE DEF q
  <2>3. LocalOK(h, [q EXCEPT !.pc = "query"], cib) BY <1>0, <2>1 DEF LocalOK, Script
  <2> QED BY <1>0, <2>1, <2>2, <2>3, GotoStep DEF Labels
<1>2. ASSUME Exit(h, script[h]) PROVE IInv'
  BY <1>0, <1>2, ExitStep DEF LocalOK
<1>3. ASSUME Exit(h, refused) PROVE IInv'
  <2>1. refused \in Script /\ refused.code = 5 /\ refused.placed = script[h].placed BY <1>0 DEF Script
  <2> HIDE DEF refused
  <2> QED BY <1>0, <1>3, <2>1, ExitStep DEF LocalOK
<1>4. (\E code \in {4, 5, 7} : Goto(h, placing(code), "query")) \/ Exit(h, script[h]) \/ Exit(h, refused)
  BY DEF decide
<1> QED BY <1>1, <1>2, <1>3, <1>4

\* query: what a copy becomes bans at least the nodes that the copy bans.
LEMMA QueryStep == ASSUME IInv, NEW h \in Handlers, query(h) PROVE IInv'
<1>0. /\ script[h] \in Script /\ LocalOK(h, script[h], cib) /\ cib' = cib /\ former' = former
      /\ script[h].pc = "query" /\ cib \in Copies
  BY DEF IInv, TypeOK, query
<1> DEFINE rec == script[h]
           further == Action(h) = "fence" /\ cib # {}
           new == IF further THEN {S \ Exclude(h) : S \in cib} ELSE rec.new
           q == [rec EXCEPT !.snapshot = cib, !.current = TRUE, !.new = new, !.replace = @ \/ further]
<1>1. CASE NotPlaced(h) BY <1>0, <1>1, NotPlacedStep
<1>2. CASE ~ Rejects(cib, Node(h)) /\ Goto(h, q, "patch")
  <2>1. new \in Copies
    <3>1. CASE further
      <4>1. PICK S \in SUBSET Nodes : cib = {S} BY <1>0, <3>1 DEF Copies
      <4>2. new = {S \ Exclude(h)} BY <3>1, <4>1
      <4> QED BY <4>1, <4>2 DEF Copies
    <3>2. CASE ~ further BY <1>0, <3>2 DEF Script
    <3> QED BY <3>1, <3>2
  <2>2. further \in BOOLEAN OBVIOUS
  <2> HIDE DEF new, further
  <2>3. q \in Script BY <1>0, <2>1, <2>2 DEF Script
  <2>4. q.mask = rec.mask /\ q.placed = rec.placed /\ q.snapshot = cib
    BY <1>0 DEF Script
  <2>5. q.new = new /\ q.replace = (rec.replace \/ further) BY <1>0, <2>1, <2>2 DEF Script
  <2> HIDE DEF q
  <2>6. Action(h) = "fence" => new # {} /\ \A T \in new : Node(h) \in T /\ T \subseteq rec.mask
    <3> SUFFICES ASSUME Action(h) = "fence"
                 PROVE  new # {} /\ \A T \in new : Node(h) \in T /\ T \subseteq rec.mask
      OBVIOUS
    <3>1. rec.new # {} /\ \A T \in rec.new : Node(h) \in T /\ T \subseteq rec.mask BY <1>0 DEF LocalOK
    <3>2. Node(h) \in rec.mask BY <3>1
    <3>3. \A S \in cib : Node(h) \in S /\ S \subseteq Nodes BY <1>0, <1>2 DEF Rejects, Copies
    <3>4. CASE further
      <4>1. new = {S \ Exclude(h) : S \in cib} /\ cib # {} BY <3>4 DEF new, further
      <4> QED BY <3>2, <3>3, <4>1 DEF Exclude
    <3>5. CASE ~ further BY <3>1, <3>5 DEF new
    <3> QED BY <3>4, <3>5
  <2>7. Action(h) = "fence" /\ cib # {} => (rec.replace \/ further) /\ new = {S \ (Nodes \ rec.mask) : S \in cib}
    BY DEF new, further, Exclude
  <2> DEFINE p == [q EXCEPT !.pc = "patch"]
  <2>8. p.pc = "patch" /\ p.mask = rec.mask /\ p.placed = rec.placed /\ p.snapshot = cib /\ p.new = new
        /\ p.replace = (rec.replace \/ further)
    BY <2>3, <2>4, <2>5 DEF Script
  <2> HIDE DEF p
  <2>9. LocalOK(h, p, cib)
    <3>1. Action(h) = "fence" => ~ rec.placed BY <1>0 DEF LocalOK
    <3> QED BY <1>2, <2>6, <2>7, <2>8, <3>1 DEF LocalOK
  <2> QED BY <1>0, <1>2, <2>3, <2>9, GotoStep DEF Labels, p
<1>3. \/ NotPlaced(h)
      \/ ~ Rejects(cib, Node(h)) /\ Goto(h, q, "patch")
  BY DEF query
<1> QED BY <1>1, <1>2, <1>3

\* What a fence handler writes: every ban of the CIB stays, and the nodes it
\* excludes are banned.
LEMMA ChangedBans ==
  ASSUME IInv, NEW h \in Handlers, Action(h) = "fence", script[h].pc = "patch", script[h].current,
         Changed(h) # script[h].snapshot
  PROVE  /\ \A n \in Nodes : Rejects(cib, n) => Rejects(Changed(h), n)
         /\ \A n \in Nodes \ script[h].mask : Rejects(Changed(h), n)
         /\ Node(h) \in script[h].mask
         /\ ~ Rejects(cib, Node(h))
<1> DEFINE rec == script[h]
<1>0. LocalOK(h, rec, cib) /\ cib \in Copies BY DEF IInv, TypeOK
<1>1. /\ rec.new # {} /\ \A T \in rec.new : Node(h) \in T /\ T \subseteq rec.mask
      /\ rec.snapshot = cib /\ ~ Rejects(cib, Node(h))
      /\ cib # {} => rec.replace /\ rec.new = {S \ (Nodes \ rec.mask) : S \in cib}
  BY <1>0 DEF LocalOK
<1>2. CASE cib = {}
  <2>1. Changed(h) = {UNION rec.new} BY <1>1, <1>2 DEF Changed
  <2>2. UNION rec.new \subseteq rec.mask BY <1>1
  <2> QED BY <1>1, <1>2, <2>1, <2>2 DEF Rejects
<1>3. CASE cib # {}
  <2>1. Changed(h) = {S \ (Nodes \ rec.mask) : S \in cib} BY <1>1, <1>3 DEF Changed
  <2>2. PICK S \in cib : Node(h) \in S BY <1>1, <1>3 DEF Rejects
  <2>3. ASSUME NEW n \in Nodes, Rejects(cib, n) PROVE Rejects(Changed(h), n)
    <3>1. PICK T \in cib : n \notin T BY <2>3 DEF Rejects
    <3>2. T \ (Nodes \ rec.mask) \in Changed(h) BY <2>1
    <3> QED BY <3>1, <3>2 DEF Rejects
  <2>4. S \ (Nodes \ rec.mask) \in Changed(h) BY <2>1
  <2>5. \A n \in Nodes \ rec.mask : Rejects(Changed(h), n) BY <2>4 DEF Rejects
  <2>6. Node(h) \in rec.mask BY <1>1
  <2> QED BY <1>1, <2>3, <2>5, <2>6
<1> QED BY <1>2, <1>3

\* patch: it is refused unless the copy is still what the CIB has.
LEMMA PatchStep == ASSUME IInv, NEW h \in Handlers, patch(h) PROVE IInv'
<1>0. /\ script[h] \in Script /\ LocalOK(h, script[h], cib) /\ cib \in Copies
      /\ script[h].pc = "patch" /\ Action(h) \in {"fence", "unfence"}
  BY FenceAssumption DEF IInv, TypeOK, patch, Action
<1> DEFINE rec == script[h]
           done == [rec EXCEPT !.placed = TRUE, !.holds = TRUE, !.pc = "double_check",
                               !.snapshot = {}, !.new = {}, !.current = FALSE, !.replace = FALSE]
           next == IF Action(h) = "fence" /\ rec.code \in {4, 7} THEN done ELSE Ended(done)
           again == [rec EXCEPT !.snapshot = {}]
<1>1. CASE NotPlaced(h) /\ UNCHANGED <<cib, former>> BY <1>0, <1>1, NotPlacedStep
<1>2. CASE Goto(h, again, "query") /\ UNCHANGED <<cib, former>>
  <2>1. again \in Script /\ again.new = rec.new /\ again.mask = rec.mask /\ again.placed = rec.placed
    BY <1>0 DEF Script, Copies
  <2> HIDE DEF again
  <2>2. LocalOK(h, [again EXCEPT !.pc = "query"], cib) BY <1>0, <2>1 DEF LocalOK, Script
  <2> QED BY <1>0, <1>2, <2>1, <2>2, GotoStep DEF Labels
<1>3. CASE /\ rec.current /\ Changed(h) # rec.snapshot
           /\ CibBecomes(Changed(h), h, next, Action(h) = "unfence")
  <2>1. Changed(h) \in Copies
    <3>1. rec.snapshot \in Copies /\ rec.new \in Copies BY <1>0 DEF Script
    <3>2. CASE rec.replace BY <3>1, <3>2 DEF Changed, Copies
    <3>3. CASE ~ rec.replace
      <4>1. UNION (rec.snapshot \union rec.new) \in SUBSET Nodes BY <3>1 DEF Copies
      <4> QED BY <3>3, <4>1 DEF Changed, Copies
    <3> QED BY <3>2, <3>3
  <2>2. done \in Script BY <1>0 DEF Script, Copies, Labels
  <2>3. done.mask = rec.mask /\ done.code = rec.code /\ done.pc = "double_check" BY <1>0 DEF Script
  <2> HIDE DEF done
  <2>4. Ended(done) \in Script /\ Ended(done).pc = "exit" /\ Ended(done).code = rec.code
        /\ (rec.code # 1 => Ended(done).mask = rec.mask)
    BY <2>2, <2>3, EndedScript
  <2>5. next \in Script /\ next.pc \in {"double_check", "exit"} BY <2>2, <2>3, <2>4
  <2>6. Claims(h, next) => Action(h) = "fence" /\ next.mask = rec.mask
    <3>1. CASE Action(h) = "fence" /\ rec.code \in {4, 7} BY <2>3, <3>1
    <3>2. CASE ~ (Action(h) = "fence" /\ rec.code \in {4, 7})
      <4>1. next = Ended(done) BY <3>2
      <4> HIDE DEF next
      <4> QED BY <2>4, <4>1 DEF Claims
    <3> QED BY <3>1, <3>2
  <2> HIDE DEF next
  <2>7. LocalOK(h, next, Changed(h)) BY <2>5 DEF LocalOK
  <2> DEFINE lifts == Action(h) = "unfence"
  <2>8. lifts \in BOOLEAN /\ (lifts => ~ Claims(h, next)) BY <2>6
  <2>9. ~ lifts => \A n \in Nodes : Rejects(cib, n) => Rejects(Changed(h), n)
    BY <1>0, <1>3, ChangedBans
  <2>10. ~ lifts /\ Claims(h, next) =>
           Bans(next, Changed(h)) /\ Node(h) \in next.mask /\ ~ Rejects(cib, Node(h))
    <3>1. Claims(h, next) => \A n \in Nodes \ next.mask : Rejects(Changed(h), n)
      BY <1>0, <1>3, <2>6, ChangedBans
    <3>2. Claims(h, next) => Node(h) \in next.mask /\ ~ Rejects(cib, Node(h))
      BY <1>0, <1>3, <2>6, ChangedBans
    <3> QED BY <3>1, <3>2 DEF Bans
  <2>11. CibBecomes(Changed(h), h, next, lifts) /\ next.pc # "patch" BY <1>3, <2>5
  <2> HIDE DEF lifts
  <2> QED BY <2>1, <2>5, <2>7, <2>8, <2>9, <2>10, <2>11, CibStep
<1>4. \/ NotPlaced(h) /\ UNCHANGED <<cib, former>>
      \/ Goto(h, again, "query") /\ UNCHANGED <<cib, former>>
      \/ /\ rec.current /\ Changed(h) # rec.snapshot
         /\ CibBecomes(Changed(h), h, next, Action(h) = "unfence")
  BY DEF patch, Patched, PatchFails
<1> QED BY <1>1, <1>2, <1>3, <1>4

\* A handler that was refused takes a new copy.
LEMMA RecheckStep == ASSUME IInv, NEW h \in Handlers, recheck(h) PROVE IInv'
<1>0. /\ script[h] \in Script /\ LocalOK(h, script[h], cib) /\ cib' = cib /\ former' = former
      /\ script[h].pc = "recheck" /\ cib \in Copies
  BY DEF IInv, TypeOK, recheck
<1> DEFINE rec == [script[h] EXCEPT !.have = cib, !.holds = TRUE]
           blind == [rec EXCEPT !.have = {}]
<1>1. rec \in Script /\ rec.new = script[h].new /\ rec.mask = script[h].mask /\ rec.code = script[h].code
      /\ rec.placed = script[h].placed /\ rec.have = cib
  BY <1>0 DEF Script
<1>2. \/ Goto(h, rec, "existing")
      \/ Goto(h, rec, "failed")
      \/ Goto(h, blind, "failed")
  BY DEF recheck
<1> HIDE DEF rec
<1>3. CASE Goto(h, rec, "existing")
  <2>1. LocalOK(h, [rec EXCEPT !.pc = "existing"], cib) BY <1>0, <1>1 DEF LocalOK, Script
  <2>2. ASSUME Action(h) = "fence", rec.have = rec.new PROVE Bans(rec, cib) /\ ~ Rejects(cib, Node(h))
    <3>1. cib # {} /\ \A T \in cib : Node(h) \in T /\ T \subseteq rec.mask
      BY <1>0, <1>1, <2>2 DEF LocalOK
    <3> QED BY <3>1 DEF Bans, Rejects
  <2> QED BY <1>0, <1>1, <1>3, <2>1, <2>2, GotoStep DEF Labels
<1>4. CASE Goto(h, rec, "failed")
  <2>1. LocalOK(h, [rec EXCEPT !.pc = "failed"], cib) BY <1>0, <1>1 DEF LocalOK, Script
  <2> QED BY <1>0, <1>1, <1>4, <2>1, GotoStep DEF Labels
<1>5. CASE Goto(h, blind, "failed")
  <2>1. blind \in Script /\ blind.new = rec.new /\ blind.mask = rec.mask /\ blind.code = rec.code
        /\ blind.placed = rec.placed
    BY <1>1 DEF Script, Copies
  <2> HIDE DEF blind
  <2>2. LocalOK(h, [blind EXCEPT !.pc = "failed"], cib) BY <1>0, <1>1, <2>1 DEF LocalOK, Script
  <2> QED BY <1>0, <1>5, <2>1, <2>2, GotoStep DEF Labels
<1> QED BY <1>2, <1>3, <1>4, <1>5

\* A handler that could not place its constraint ends.
LEMMA FailedStep == ASSUME IInv, NEW h \in Handlers, failed(h) PROVE IInv'
<1>0. /\ script[h] \in Script /\ LocalOK(h, script[h], cib) /\ cib' = cib /\ former' = former
      /\ script[h].pc = "failed"
  BY DEF IInv, TypeOK, failed
<1>1. CASE Exit(h, script[h]) BY <1>0, <1>1, ExitStep DEF LocalOK
<1>2. CASE Goto(h, script[h], "reboot")
  <2>1. LocalOK(h, [script[h] EXCEPT !.pc = "reboot"], cib) BY <1>0 DEF LocalOK, Script
  <2> QED BY <1>0, <1>2, <2>1, GotoStep DEF Labels
<1> QED BY <1>1, <1>2 DEF failed

\* double_check_after_fencing(): the handler keeps its claim, or takes the
\* constraint away and makes none.
LEMMA DoubleCheckStep == ASSUME IInv, NEW h \in Handlers, double_check(h) PROVE IInv'
<1>0. script[h] \in Script /\ script[h].pc = "double_check" BY DEF IInv, TypeOK, double_check
<1> DEFINE gone == [script[h] EXCEPT !.code = 1, !.holds = FALSE]
<1>1. CASE Exit(h, script[h]) /\ UNCHANGED <<cib, former>> BY <1>0, <1>1, ExitStep
<1>2. CASE CibBecomes({}, h, Ended(gone), TRUE)
  <2>1. gone \in Script /\ gone.code = 1 BY <1>0 DEF Script
  <2> HIDE DEF gone
  <2>2. Ended(gone) \in Script /\ Ended(gone).pc = "exit" /\ Ended(gone).code = 1 BY <2>1, EndedScript
  <2>3. LocalOK(h, Ended(gone), {}) BY <2>2 DEF LocalOK
  <2>4. ~ Claims(h, Ended(gone)) BY <2>2 DEF Claims
  <2>5. {} \in Copies BY DEF Copies
  <2> QED BY <1>2, <2>2, <2>3, <2>4, <2>5, CibStep
<1> QED BY <1>1, <1>2 DEF double_check

\* An unfence handler makes no claim; removing the constraint ends them all.
LEMMA UnfenceStep == ASSUME IInv, NEW h \in Handlers, unfence(h) \/ remove_constraint(h) PROVE IInv'
<1>0. /\ script[h] \in Script /\ LocalOK(h, script[h], cib) /\ script[h].pc \in {"unfence", "remove"}
  BY DEF IInv, TypeOK, unfence, remove_constraint
<1>1. Action(h) # "fence" BY <1>0 DEF LocalOK
<1> DEFINE q == [script[h] EXCEPT !.have = {}]
<1>2. CASE unfence(h)
  <2>0. cib' = cib /\ former' = former BY <1>2 DEF unfence
  <2>1. CASE Exit(h, script[h]) BY <1>0, <1>1, <2>0, <2>1, ExitStep
  <2>2. CASE Goto(h, script[h], "remove")
    <3>1. LocalOK(h, [script[h] EXCEPT !.pc = "remove"], cib) BY <1>1 DEF LocalOK
    <3> QED BY <1>0, <1>1, <2>0, <2>2, <3>1, GotoStep DEF Labels
  <2>3. CASE Goto(h, q, "query")
    <3>1. q \in Script BY <1>0 DEF Script, Copies
    <3>2. LocalOK(h, [q EXCEPT !.pc = "query"], cib) BY <1>1 DEF LocalOK
    <3> HIDE DEF q
    <3> QED BY <1>1, <2>0, <2>3, <3>1, <3>2, GotoStep DEF Labels
  <2> QED BY <1>2, <2>1, <2>2, <2>3 DEF unfence
<1>3. CASE remove_constraint(h)
  <2>1. Ended(script[h]) \in Script /\ Ended(script[h]).pc = "exit" BY <1>0, EndedScript
  <2>2. LocalOK(h, Ended(script[h]), {}) /\ ~ Claims(h, Ended(script[h])) BY <1>1 DEF LocalOK, Claims
  <2>3. {} \in Copies BY DEF Copies
  <2>4. CibBecomes({}, h, Ended(script[h]), TRUE) BY <1>3 DEF remove_constraint
  <2> QED BY <2>1, <2>2, <2>3, <2>4, CibStep
<1> QED BY <1>2, <1>3

\* Another change of the CIB, or of the membership in it, makes every copy of
\* it outdated and bans no one.
LEMMA UpdateStep == ASSUME IInv, CibBecomes(cib, NoLock, Idle, FALSE) PROVE IInv'
<1>0. /\ cib' = cib /\ former' \in {former, cib}
      /\ script' = [g \in Handlers |->
                      IF g = NoLock THEN Idle
                      ELSE [script[g] EXCEPT !.current = FALSE, !.holds = @ /\ ~ FALSE]]
  BY DEF CibBecomes
<1>1. ASSUME NEW g \in Handlers
      PROVE  /\ script'[g] \in Script
             /\ LocalOK(g, script'[g], cib)
             /\ script'[g].mask = script[g].mask
             /\ Claims(g, script'[g]) => Claims(g, script[g])
  <2>1. LocalOK(g, script[g], cib) /\ script[g] \in Script BY DEF IInv, TypeOK
  <2>2. g # NoLock BY FenceAssumption DEF NoLock
  <2>3. script'[g] = [script[g] EXCEPT !.current = FALSE, !.holds = @ /\ ~ FALSE] BY <1>0, <2>2
  <2>4. script'[g] \in Script BY <2>1, <2>3 DEF Script
  <2>5. /\ script'[g].pc = script[g].pc /\ script'[g].mask = script[g].mask
        /\ script'[g].have = script[g].have /\ script'[g].new = script[g].new
        /\ script'[g].placed = script[g].placed /\ script'[g].code = script[g].code
        /\ script'[g].current = FALSE
        /\ script'[g].holds = script[g].holds
    BY <2>1, <2>3 DEF Script
  <2>6. LocalOK(g, script'[g], cib) BY <2>1, <2>5 DEF LocalOK
  <2>7. Claims(g, script'[g]) => Claims(g, script[g]) BY <2>5 DEF Claims
  <2> QED BY <2>4, <2>5, <2>6, <2>7
<1>2. TypeOK' BY <1>0, <1>1 DEF IInv, TypeOK
<1>3. \A g \in Handlers : Claims(g, script'[g]) => Bans(script'[g], cib')
  BY <1>0, <1>1 DEF IInv, Bans
<1>4. \A f, g \in Handlers :
        Claims(f, script'[f]) /\ Claims(g, script'[g]) => ~ Rivals(f, script'[f], g, script'[g])
  BY <1>1 DEF IInv, Rivals
<1>5. \A g \in Handlers : LocalOK(g, script'[g], cib') BY <1>0, <1>1
<1> QED BY <1>2, <1>3, <1>4, <1>5 DEF IInv, Claims, Rivals, LocalOK, Bans, Rejects

-----------------------------------------------------------------------------
(* The theorems *)

\* The invariant is inductive.
LEMMA Invariant == Spec => []IInv
<1>1. Init => IInv
  <2> SUFFICES ASSUME Init PROVE IInv OBVIOUS
  <2>1. TypeOK BY FenceAssumption, IdleScript DEF Init, TypeOK, Copies
  <2>2. \A h \in Handlers : LocalOK(h, script[h], cib) /\ ~ Claims(h, script[h])
    <3> SUFFICES ASSUME NEW h \in Handlers PROVE LocalOK(h, script[h], cib) /\ ~ Claims(h, script[h]) OBVIOUS
    <3>1. script[h] = Idle BY DEF Init
    <3> QED BY <3>1, IdleScript DEF LocalOK, Claims
  <2> QED BY <2>1, <2>2 DEF IInv
<1>2. IInv /\ [Next]_vars => IInv'
  <2> SUFFICES ASSUME IInv, [Next]_vars PROVE IInv' OBVIOUS
  <2>1. ASSUME NEW h \in Handlers, Step(h) PROVE IInv'
    BY <2>1, ExistingStep, CheckPeersStep, DecideStep, QueryStep, PatchStep, RecheckStep, FailedStep,
       DoubleCheckStep, UnfenceStep DEF Step
  <2>2. ASSUME NEW h \in Handlers, NEW mask \in Masks, NEW have \in {cib, former}, start(h, mask, have)
        PROVE  IInv'
    BY <2>2, StartStep
  <2>3. ASSUME UNCHANGED <<cib, former, script>> PROVE IInv'
    BY <2>3 DEF IInv, TypeOK, LocalOK, Claims, Bans, Rivals, Rejects
  <2>4. ASSUME NEW n \in Nodes, peers_recover(n) PROVE IInv'
    BY <2>3, <2>4 DEF peers_recover
  <2>5. ASSUME NEW n \in Nodes, member_changes(n) PROVE IInv'
    BY <2>5, UpdateStep DEF member_changes
  <2>6. CASE cib_updated BY <2>6, UpdateStep DEF cib_updated
  <2>7. CASE UNCHANGED vars BY <2>3, <2>7 DEF vars
  <2> QED BY <2>1, <2>2, <2>4, <2>5, <2>6, <2>7 DEF Next
<1> QED BY <1>1, <1>2, PTL DEF Spec

\* The peers that a fence handler reported to DRBD as fenced by the
\* constraint stay banned until some handler lifts it, whatever handlers on
\* other nodes do to the constraint, however their steps interleave
\* (create_or_modify_constraint(), cibadmin --patch).
THEOREM FencedPeersStayBanned == Spec => []FencedStayBanned
<1>1. IInv => FencedStayBanned
  BY DEF IInv, FencedStayBanned, Fenced, Claims, Bans, Exclude
<1> QED BY <1>1, Invariant, PTL

\* Of two nodes that fence each other at most one gets a success from its
\* handler: never two Primaries that each believe the other one fenced.
THEOREM OnlyOneWinner == Spec => []OneWinner
<1>1. IInv => OneWinner
  BY DEF IInv, OneWinner, Fenced, Claims, Rivals, Exclude
<1> QED BY <1>1, Invariant, PTL

-----------------------------------------------------------------------------
(* Someone wins *)

\* A handler that has placed the constraint, or has found it, and succeeds
\* unless the constraint is lifted.
Won(r) ==
  \/ r.pc = "double_check" /\ r.code \in {4, 7}
  \/ r.pc = "exit" /\ (r.code \in {4, 7} \/ (r.code = 5 /\ r.placed))

Good(h) == drbd[Node(h)] = [disk |-> "UpToDate", peers |-> FALSE]

\* A handler that is on its way to place the first constraint.
Trying(r) ==
  /\ r.pc \in {"idle", "check_peers", "decide", "query", "patch"} /\ ~ r.replace
  /\ r.pc = "patch" => r.snapshot = {}

CodeOK(h, r) == Action(h) = "fence" /\ r.pc \in {"query", "patch"} => r.code \in {4, 5, 7}

\* As long as nothing failed, nothing was lifted and no handler gave up with
\* its time over, either a handler has won, or there is no constraint and
\* every handler is still trying.
SomeoneInv ==
  /\ faults \in Nat /\ lifted \in BOOLEAN /\ timedout \in BOOLEAN
  /\ drbd \in [Nodes -> [disk : Disks, peers : BOOLEAN]]
  /\ \A h \in Handlers : CodeOK(h, script[h])
  /\ faults = 0 /\ ~ lifted /\ ~ timedout =>
       \/ \E h \in Handlers : Action(h) = "fence" /\ script[h].pc # "idle" /\ Won(script[h])
       \/ /\ cib = {} /\ former = {}
          /\ \A h \in Handlers : Action(h) = "fence" /\ Good(h) => Trying(script[h])

\* A step of one handler that does not change the CIB.
LEMMA SomeoneOneHandler ==
  ASSUME IInv, SomeoneInv, NEW h \in Handlers, NEW r \in Script,
         script' = [script EXCEPT ![h] = r], cib' = cib, former' = former, drbd' = drbd, lifted' = lifted,
         faults' \in {faults, faults + 1}, timedout' \in {timedout, TRUE}, CodeOK(h, r),
         faults' = faults /\ Action(h) = "fence" /\ Won(script[h]) => Won(r) /\ r.pc # "idle",
         (/\ faults' = faults /\ ~ timedout'
          /\ Action(h) = "fence" /\ Good(h) /\ cib = {} /\ former = {} /\ Trying(script[h])) => Trying(r)
  PROVE  SomeoneInv'
<1>0. /\ script'[h] = r
      /\ \A g \in Handlers : g # h => script'[g] = script[g]
  BY DEF IInv, TypeOK
<1>1. /\ faults' \in Nat /\ lifted' \in BOOLEAN /\ timedout' \in BOOLEAN
      /\ drbd' \in [Nodes -> [disk : Disks, peers : BOOLEAN]]
  <2>1. timedout' \in BOOLEAN BY Zenon DEF SomeoneInv
  <2> QED BY <2>1 DEF SomeoneInv
<1>2. \A g \in Handlers : CodeOK(g, script'[g]) BY <1>0 DEF SomeoneInv
<1>3. ASSUME faults' = 0, ~ lifted', ~ timedout'
      PROVE  \/ \E g \in Handlers : Action(g) = "fence" /\ script'[g].pc # "idle" /\ Won(script'[g])
             \/ /\ cib' = {} /\ former' = {}
                /\ \A g \in Handlers : Action(g) = "fence" /\ Good(g) => Trying(script'[g])
  <2>0. ~ timedout BY <1>3, Zenon
  <2>1. faults' = faults /\ faults = 0 /\ ~ timedout BY <1>3, <2>0 DEF SomeoneInv
  <2>2. CASE \E g \in Handlers : Action(g) = "fence" /\ script[g].pc # "idle" /\ Won(script[g])
    BY <1>0, <2>1, <2>2
  <2>3. CASE /\ cib = {} /\ former = {}
             /\ \A g \in Handlers : Action(g) = "fence" /\ Good(g) => Trying(script[g])
    BY <1>0, <1>3, <2>1, <2>3
  <2> QED BY <1>3, <2>1, <2>2, <2>3 DEF SomeoneInv
<1> QED BY <1>1, <1>2, <1>3 DEF SomeoneInv, CodeOK, Won, Trying, Good

\* A step that changes the CIB lifts something, or the handler has won.
LEMMA SomeoneCibStep ==
  ASSUME IInv, SomeoneInv, NEW h \in Handlers, NEW r \in Script, NEW c, NEW lifts \in BOOLEAN,
         CibBecomes(c, h, r, lifts), drbd' = drbd, faults' = faults, timedout' = timedout, CodeOK(h, r),
         ~ lifts => Action(h) = "fence" /\ Won(r) /\ r.pc # "idle"
  PROVE  SomeoneInv'
<1>0. /\ script'[h] = r
      /\ \A g \in Handlers : g # h => script'[g] = [script[g] EXCEPT !.current = FALSE, !.holds = @ /\ ~ lifts]
      /\ lifted' = (lifted \/ lifts)
  BY DEF CibBecomes
<1>1. /\ faults' \in Nat /\ lifted' \in BOOLEAN /\ timedout' \in BOOLEAN
      /\ drbd' \in [Nodes -> [disk : Disks, peers : BOOLEAN]]
  BY <1>0 DEF SomeoneInv
<1>2. ASSUME NEW g \in Handlers PROVE CodeOK(g, script'[g])
  <2>1. CASE g = h BY <1>0, <2>1
  <2>2. CASE g # h
    <3>1. script[g] \in Script /\ CodeOK(g, script[g]) BY DEF IInv, TypeOK, SomeoneInv
    <3>2. script'[g] = [script[g] EXCEPT !.current = FALSE, !.holds = @ /\ ~ lifts] BY <1>0, <2>2
    <3>3. script'[g].pc = script[g].pc /\ script'[g].code = script[g].code BY <3>1, <3>2 DEF Script
    <3> QED BY <3>1, <3>3 DEF CodeOK
  <2> QED BY <2>1, <2>2
<1>3. ~ lifted' => Action(h) = "fence" /\ script'[h].pc # "idle" /\ Won(script'[h]) BY <1>0
<1> QED BY <1>1, <1>2, <1>3 DEF SomeoneInv, CodeOK, Won

\* The steps before the constraint is placed.
LEMMA SomeoneStart ==
  ASSUME IInv, SomeoneInv, NEW h \in Handlers, NEW mask \in Masks, NEW have \in {cib, former},
         start(h, mask, have)
  PROVE  SomeoneInv'
<1> DEFINE label == IF Action(h) = "unfence" THEN "unfence"
                    ELSE IF have = {} THEN "check_peers" ELSE "existing"
           current == have = cib
           rec == [Idle EXCEPT !.mask = mask, !.new = {mask}, !.have = have, !.holds = current]
           r == [rec EXCEPT !.pc = label]
<1>1. mask \in SUBSET Nodes /\ have \in Copies /\ {mask} \in Copies /\ label \in Labels
  BY FenceAssumption DEF IInv, TypeOK, Copies, Labels
<1>2. cib' = cib /\ former' = former /\ drbd' = drbd /\ lifted' = lifted /\ faults' \in {faults, faults + 1}
      /\ timedout' = timedout /\ script[h].pc = "idle"
  BY DEF start, Fault
<1>3. current \in BOOLEAN OBVIOUS
<1>4. rec.have = have
  <2> HIDE DEF current
  <2> QED BY <1>1, <1>3, IdleScript DEF Script
<1>5. script' = [script EXCEPT ![h] = r]
  <2> HIDE DEF rec
  <2> QED BY <1>4 DEF start, Set, rec
<1> HIDE DEF current
<1>6. rec \in Script BY <1>1, <1>3, IdleScript DEF Script
<1>7. rec.replace = FALSE BY <1>1, <1>3, IdleScript DEF Script
<1> HIDE DEF rec
<1>8. r \in Script /\ r.pc = label /\ r.replace = FALSE BY <1>1, <1>6, <1>7 DEF Script
<1> HIDE DEF r
<1>9. CodeOK(h, r) BY <1>8 DEF CodeOK
<1>10. ~ Won(script[h]) BY <1>2 DEF Won
<1>11. Action(h) = "fence" /\ cib = {} /\ former = {} => Trying(r) BY <1>8 DEF Trying
<1> QED BY <1>2, <1>5, <1>8, <1>9, <1>10, <1>11, SomeoneOneHandler

\* existing, recheck and failed: no handler that has won loses.
LEMMA SomeoneExisting ==
  ASSUME IInv, SomeoneInv, NEW h \in Handlers, existing(h) \/ recheck(h) \/ failed(h)
  PROVE  SomeoneInv'
<1>0. /\ script[h] \in Script /\ script[h].pc \in {"existing", "recheck", "failed"} /\ timedout' = timedout
      /\ cib' = cib /\ former' = former /\ drbd' = drbd /\ lifted' = lifted /\ faults' \in {faults, faults + 1}
      /\ cib \in Copies /\ {} \in Copies
  BY DEF IInv, TypeOK, existing, recheck, failed, Fault, Copies
<1>1. ~ Won(script[h]) /\ ~ Trying(script[h]) BY <1>0 DEF Won, Trying
<1>2. ASSUME NEW q \in Script, NEW label \in {"double_check", "failed", "check_peers", "existing", "reboot"},
             Goto(h, q, label)
      PROVE  SomeoneInv'
  <2> DEFINE r == [q EXCEPT !.pc = label]
  <2>1. r \in Script /\ r.pc = label BY DEF Script, Labels
  <2>2. script' = [script EXCEPT ![h] = r] BY <1>2 DEF Goto, Set
  <2> HIDE DEF r
  <2>3. CodeOK(h, r) BY <2>1 DEF CodeOK
  <2> QED BY <1>0, <1>1, <2>1, <2>2, <2>3, SomeoneOneHandler
<1>3. ASSUME Exit(h, script[h]) PROVE SomeoneInv'
  <2>1. script' = [script EXCEPT ![h] = Ended(script[h])] BY <1>3 DEF Exit, Set
  <2>2. Ended(script[h]) \in Script /\ Ended(script[h]).pc = "exit" BY <1>0, EndedScript
  <2>3. CodeOK(h, Ended(script[h])) BY <2>2 DEF CodeOK
  <2> QED BY <1>0, <1>1, <2>1, <2>2, <2>3, SomeoneOneHandler
<1>4. CASE existing(h)
  <2> DEFINE found == [script[h] EXCEPT !.code = 4, !.have = {}]
             lost == [script[h] EXCEPT !.have = {}]
             more == [script[h] EXCEPT !.again = TRUE, !.have = {}]
  <2>1. found \in Script /\ lost \in Script /\ more \in Script BY <1>0 DEF Script
  <2>2. Goto(h, found, "double_check") \/ Goto(h, lost, "failed") \/ Goto(h, more, "check_peers")
    BY <1>4 DEF existing
  <2> QED BY <1>2, <2>1, <2>2
<1>5. CASE recheck(h)
  <2> DEFINE rec == [script[h] EXCEPT !.have = cib, !.holds = TRUE]
             blind == [rec EXCEPT !.have = {}]
  <2>1. rec \in Script BY <1>0 DEF Script
  <2>2. Goto(h, rec, "existing") \/ Goto(h, rec, "failed") \/ Goto(h, blind, "failed")
    BY <1>5 DEF recheck
  <2> HIDE DEF rec
  <2>3. blind \in Script BY <1>0, <2>1 DEF Script
  <2> QED BY <1>2, <2>1, <2>2, <2>3
<1>6. CASE failed(h) BY <1>0, <1>2, <1>3, <1>6 DEF failed
<1> QED BY <1>4, <1>5, <1>6

\* check_peers: a handler goes on trying, or has met a fault.
LEMMA SomeoneChecks ==
  ASSUME IInv, SomeoneInv, NEW h \in Handlers, check_peers(h)
  PROVE  SomeoneInv'
<1>0. /\ script[h] \in Script /\ script[h].pc = "check_peers" /\ timedout' = timedout
      /\ cib' = cib /\ former' = former /\ drbd' = drbd /\ lifted' = lifted /\ faults' \in {faults, faults + 1}
  BY DEF IInv, TypeOK, check_peers, Fault
<1>1. ~ Won(script[h]) BY <1>0 DEF Won
<1>2. ASSUME NEW a \in BOOLEAN, NEW b \in BOOLEAN, NEW c \in BOOLEAN,
             Goto(h, [script[h] EXCEPT !.reachable = a, !.fenced = b, !.late = c], "decide")
      PROVE  SomeoneInv'
  <2> DEFINE q == [script[h] EXCEPT !.reachable = a, !.fenced = b, !.late = c]
             r == [q EXCEPT !.pc = "decide"]
  <2>1. q \in Script /\ q.replace = script[h].replace BY <1>0 DEF Script
  <2>2. script' = [script EXCEPT ![h] = r] BY <1>2 DEF Goto, Set
  <2> HIDE DEF q
  <2>3. r \in Script /\ r.pc = "decide" /\ r.replace = script[h].replace BY <2>1 DEF Script, Labels
  <2> HIDE DEF r
  <2>4. CodeOK(h, r) /\ (Trying(script[h]) => Trying(r)) BY <2>3 DEF CodeOK, Trying
  <2> QED BY <1>0, <1>1, <2>2, <2>3, <2>4, SomeoneOneHandler
<1>3. ASSUME Fault, Exit(h, script[h]) PROVE SomeoneInv'
  <2>1. script' = [script EXCEPT ![h] = Ended(script[h])] BY <1>3 DEF Exit, Set
  <2>2. Ended(script[h]) \in Script /\ Ended(script[h]).pc = "exit" BY <1>0, EndedScript
  <2>3. CodeOK(h, Ended(script[h])) BY <2>2 DEF CodeOK
  <2>4. faults' # faults BY <1>3 DEF Fault, SomeoneInv
  <2> QED BY <1>0, <1>1, <2>1, <2>2, <2>3, <2>4, SomeoneOneHandler
<1>4. \/ \E a, b, c \in BOOLEAN : Goto(h, [script[h] EXCEPT !.reachable = a, !.fenced = b, !.late = c], "decide")
      \/ Fault /\ Exit(h, script[h])
  <2> DEFINE q(a, b, c) == [script[h] EXCEPT !.reachable = a, !.fenced = b, !.late = c]
             peers == {n \in Exclude(h) : ~ Rejects(cib, n)}
             reach == \A n \in peers : PeerState(n) = "reachable"
             down == \A n \in peers : PeerState(n) = "fenced"
             late == script[h].late \/ \E n \in peers : guess_if_pacemaker_will_fence(n)
  <2>1. reach \in BOOLEAN /\ down \in BOOLEAN /\ late \in BOOLEAN BY <1>0 DEF Script
  <2>2. [script[h] EXCEPT !.reachable = FALSE, !.fenced = FALSE] = q(FALSE, FALSE, script[h].late)
        /\ script[h].late \in BOOLEAN
    BY <1>0 DEF Script
  <2>3. \/ Goto(h, q(reach, down, late), "decide")
        \/ Goto(h, [script[h] EXCEPT !.reachable = FALSE, !.fenced = FALSE], "decide")
        \/ Fault /\ Exit(h, script[h])
    BY DEF check_peers
  <2> HIDE DEF reach, down, late
  <2> QED BY <2>1, <2>2, <2>3
<1> QED BY <1>2, <1>3, <1>4

\* decide: a handler goes on trying, or its disk does not allow it.
LEMMA SomeoneDecides ==
  ASSUME IInv, SomeoneInv, NEW h \in Handlers, decide(h)
  PROVE  SomeoneInv'
<1>0. /\ script[h] \in Script /\ script[h].pc = "decide" /\ timedout' = timedout
      /\ cib' = cib /\ former' = former /\ drbd' = drbd /\ lifted' = lifted /\ faults' = faults
  BY DEF IInv, TypeOK, decide
<1> DEFINE placing(code) == [script[h] EXCEPT !.code = code, !.reachable = FALSE, !.fenced = FALSE]
           refused == [script[h] EXCEPT !.code = 5]
<1>1. ~ Won(script[h]) BY <1>0 DEF Won
<1>2. ASSUME NEW code \in {4, 5, 7}, Goto(h, placing(code), "query") PROVE SomeoneInv'
  <2> DEFINE q == placing(code)
             r == [q EXCEPT !.pc = "query"]
  <2>0. code \in Nat OBVIOUS
  <2>1. q \in Script /\ q.replace = script[h].replace /\ q.code = code BY <1>0, <2>0 DEF Script
  <2>2. script' = [script EXCEPT ![h] = r] BY <1>2 DEF Goto, Set
  <2> HIDE DEF q
  <2>3. r \in Script /\ r.pc = "query" /\ r.replace = script[h].replace /\ r.code = code BY <2>1 DEF Script, Labels
  <2> HIDE DEF r
  <2>4. CodeOK(h, r) /\ (Trying(script[h]) => Trying(r)) BY <2>3 DEF CodeOK, Trying
  <2> QED BY <1>0, <1>1, <2>2, <2>3, <2>4, SomeoneOneHandler
<1>3. ASSUME ~ Good(h), NEW q \in Script, Exit(h, q) PROVE SomeoneInv'
  <2>1. script' = [script EXCEPT ![h] = Ended(q)] BY <1>3 DEF Exit, Set
  <2>2. Ended(q) \in Script /\ Ended(q).pc = "exit" BY <1>0, EndedScript
  <2>3. CodeOK(h, Ended(q)) BY <2>2 DEF CodeOK
  <2> QED BY <1>0, <1>1, <1>3, <2>1, <2>2, <2>3, SomeoneOneHandler
<1>4. refused \in Script BY <1>0 DEF Script
<1>5. \/ \E code \in {4, 5, 7} : Goto(h, placing(code), "query")
      \/ ~ Good(h) /\ (Exit(h, script[h]) \/ Exit(h, refused))
  BY DEF decide, Good
<1> QED BY <1>0, <1>2, <1>3, <1>4, <1>5

\* A handler gives up placing the constraint only because something failed,
\* because its time is up, or because there is a constraint.
LEMMA SomeoneNotPlaced ==
  ASSUME IInv, SomeoneInv, NEW h \in Handlers, NotPlaced(h), script[h].pc \in {"query", "patch"},
         cib' = cib, former' = former, drbd' = drbd, lifted' = lifted, faults' \in {faults, faults + 1},
         timedout' \in {timedout, TRUE},
         faults' = faults /\ ~ timedout' /\ Action(h) = "fence" /\ Trying(script[h]) => cib # {}
  PROVE  SomeoneInv'
<1> DEFINE rec == [script[h] EXCEPT !.code = 1, !.snapshot = {}, !.current = FALSE, !.replace = FALSE]
<1>0. script[h] \in Script BY DEF IInv, TypeOK
<1>1. rec \in Script BY <1>0 DEF Script, Copies
<1>2. ~ Won(script[h]) BY DEF Won
<1>3. Exit(h, rec) \/ Goto(h, rec, "failed") \/ Goto(h, rec, "recheck") BY DEF NotPlaced
<1> HIDE DEF rec
<1>4. CASE Exit(h, rec)
  <2>1. script' = [script EXCEPT ![h] = Ended(rec)] BY <1>4 DEF Exit, Set
  <2>2. Ended(rec) \in Script /\ Ended(rec).pc = "exit" BY <1>1, EndedScript
  <2>3. CodeOK(h, Ended(rec)) BY <2>2 DEF CodeOK
  <2> QED BY <1>2, <2>1, <2>2, <2>3, SomeoneOneHandler
<1>5. ASSUME NEW label \in {"failed", "recheck"}, Goto(h, rec, label) PROVE SomeoneInv'
  <2> DEFINE r == [rec EXCEPT !.pc = label]
  <2>1. r \in Script /\ r.pc = label BY <1>1 DEF Script, Labels
  <2>2. script' = [script EXCEPT ![h] = r] BY <1>5 DEF Goto, Set
  <2> HIDE DEF r
  <2>3. CodeOK(h, r) BY <2>1 DEF CodeOK
  <2> QED BY <1>2, <2>1, <2>2, <2>3, SomeoneOneHandler
<1> QED BY <1>3, <1>4, <1>5

\* query: a handler gives up only because of a constraint that is there.
LEMMA SomeoneQueries ==
  ASSUME IInv, SomeoneInv, NEW h \in Handlers, query(h)
  PROVE  SomeoneInv'
<1>0. /\ script[h] \in Script /\ CodeOK(h, script[h])
      /\ cib' = cib /\ former' = former /\ drbd' = drbd /\ lifted' = lifted /\ faults' = faults
      /\ timedout' = timedout /\ script[h].pc = "query" /\ cib \in Copies
  BY DEF IInv, TypeOK, query, SomeoneInv
<1> DEFINE rec == script[h]
           further == Action(h) = "fence" /\ cib # {}
           new == IF further THEN {S \ Exclude(h) : S \in cib} ELSE rec.new
           q == [rec EXCEPT !.snapshot = cib, !.current = TRUE, !.new = new, !.replace = @ \/ further]
           r == [q EXCEPT !.pc = "patch"]
<1>1. CASE Rejects(cib, Node(h)) /\ NotPlaced(h)
  <2>1. cib # {} BY <1>1 DEF Rejects
  <2> QED BY <1>0, <1>1, <2>1, SomeoneNotPlaced
<1>2. CASE Goto(h, q, "patch")
  <2>1. new \in Copies
    <3>1. CASE further
      <4>1. PICK S \in SUBSET Nodes : cib = {S} BY <1>0, <3>1 DEF Copies
      <4>2. new = {S \ Exclude(h)} BY <3>1, <4>1
      <4> QED BY <4>1, <4>2 DEF Copies
    <3>2. CASE ~ further BY <1>0, <3>2 DEF Script
    <3> QED BY <3>1, <3>2
  <2>2. further \in BOOLEAN /\ (cib = {} => ~ further) OBVIOUS
  <2> HIDE DEF new, further
  <2>3. q \in Script BY <1>0, <2>1, <2>2 DEF Script
  <2>4. q.code = rec.code /\ q.replace = (rec.replace \/ further) /\ q.snapshot = cib BY <1>0, <2>1, <2>2 DEF Script
  <2> HIDE DEF q
  <2>5. r \in Script /\ r.pc = "patch" /\ r.code = rec.code /\ r.replace = (rec.replace \/ further) /\ r.snapshot = cib
    BY <2>3, <2>4 DEF Script, Labels
  <2>6. script' = [script EXCEPT ![h] = r] BY <1>2 DEF Goto, Set
  <2> HIDE DEF r
  <2>7. CodeOK(h, r) BY <1>0, <2>5 DEF CodeOK
  <2>8. cib = {} /\ Trying(rec) => Trying(r) BY <2>2, <2>5 DEF Trying
  <2>9. ~ Won(rec) BY <1>0 DEF Won
  <2> QED BY <1>0, <2>5, <2>6, <2>7, <2>8, <2>9, SomeoneOneHandler
<1>3. (Rejects(cib, Node(h)) /\ NotPlaced(h)) \/ Goto(h, q, "patch") BY DEF query
<1> QED BY <1>1, <1>2, <1>3

\* patch: a copy that is outdated is taken again unless the time is up, so
\* one of the patches wins.
LEMMA SomeonePatches ==
  ASSUME IInv, SomeoneInv, NEW h \in Handlers, patch(h)
  PROVE  SomeoneInv'
<1>0. /\ script[h] \in Script /\ LocalOK(h, script[h], cib) /\ CodeOK(h, script[h])
      /\ drbd' = drbd /\ faults' \in {faults, faults + 1}
      /\ script[h].pc = "patch" /\ Action(h) \in {"fence", "unfence"}
  BY FenceAssumption DEF IInv, TypeOK, patch, Patched, PatchFails, Action, SomeoneInv, Fault
<1> DEFINE rec == script[h]
           done == [rec EXCEPT !.placed = TRUE, !.holds = TRUE, !.pc = "double_check",
                               !.snapshot = {}, !.new = {}, !.current = FALSE, !.replace = FALSE]
           next == IF Action(h) = "fence" /\ rec.code \in {4, 7} THEN done ELSE Ended(done)
           again == [rec EXCEPT !.snapshot = {}]
<1>1. CASE PatchFails(h)
  <2>0. /\ NotPlaced(h) /\ UNCHANGED <<cib, former, lifted, timedout>>
        /\ Fault \/ (rec.current /\ Changed(h) = rec.snapshot)
    BY <1>1 DEF PatchFails
  <2>1. Fault => faults' # faults BY DEF Fault, SomeoneInv
  <2>2. ASSUME rec.current, Changed(h) = rec.snapshot, Action(h) = "fence", Trying(rec) PROVE cib # {}
    <3>1. rec.snapshot = cib BY <1>0, <2>2 DEF LocalOK
    <3>2. Changed(h) # {} BY <2>2 DEF Changed, Trying
    <3> QED BY <2>2, <3>1, <3>2
  <2> QED BY <1>0, <2>0, <2>1, <2>2, SomeoneNotPlaced
<1>2. CASE Goto(h, again, "query") /\ UNCHANGED <<cib, former, lifted, timedout>>
  <2> DEFINE r == [again EXCEPT !.pc = "query"]
  <2>1. again \in Script /\ again.code = rec.code /\ again.replace = rec.replace BY <1>0 DEF Script, Copies
  <2>2. script' = [script EXCEPT ![h] = r] BY <1>2 DEF Goto, Set
  <2> HIDE DEF again
  <2>3. r \in Script /\ r.pc = "query" /\ r.code = rec.code /\ r.replace = rec.replace BY <2>1 DEF Script, Labels
  <2> HIDE DEF r
  <2>4. CodeOK(h, r) /\ (Trying(rec) => Trying(r)) BY <1>0, <2>3 DEF CodeOK, Trying
  <2>5. ~ Won(rec) BY <1>0 DEF Won
  <2> QED BY <1>0, <1>2, <2>2, <2>3, <2>4, <2>5, SomeoneOneHandler
<1>3. CASE CibBecomes(Changed(h), h, next, Action(h) = "unfence") /\ UNCHANGED <<faults, timedout>>
  <2> DEFINE lifts == Action(h) = "unfence"
  <2>1. done \in Script /\ done.code = rec.code /\ done.pc = "double_check" /\ done.placed = TRUE
    BY <1>0 DEF Script, Copies, Labels
  <2> HIDE DEF done
  <2>2. /\ Ended(done) \in Script /\ Ended(done).pc = "exit" /\ Ended(done).code = rec.code
        /\ Ended(done).placed = TRUE
    BY <2>1, EndedScript
  <2>3. next \in Script /\ next.pc \in {"double_check", "exit"} BY <2>1, <2>2
  <2>4. Action(h) = "fence" => Won(next)
    <3>1. Action(h) = "fence" => rec.code \in {4, 5, 7} BY <1>0 DEF CodeOK
    <3>2. CASE Action(h) = "fence" /\ rec.code \in {4, 7} BY <2>1, <3>2 DEF Won
    <3>3. CASE Action(h) = "fence" /\ rec.code = 5 BY <2>2, <3>3 DEF Won
    <3> QED BY <3>1, <3>2, <3>3
  <2> HIDE DEF next
  <2>5. CodeOK(h, next) BY <2>3 DEF CodeOK
  <2>6. lifts \in BOOLEAN /\ (~ lifts => Action(h) = "fence") BY <1>0
  <2>7. CibBecomes(Changed(h), h, next, lifts) BY <1>3
  <2> HIDE DEF lifts
  <2> QED BY <1>0, <1>3, <2>3, <2>4, <2>5, <2>6, <2>7, SomeoneCibStep
<1>4. CASE NotPlaced(h) /\ UNCHANGED <<cib, former, faults, lifted>> /\ timedout' = (timedout \/ rec.snapshot = cib)
  <2>1. timedout' \in {timedout, TRUE} BY <1>4 DEF SomeoneInv
  <2>2. ~ timedout' /\ Trying(rec) => cib # {} BY <1>0, <1>4 DEF Trying
  <2> QED BY <1>0, <1>4, <2>1, <2>2, SomeoneNotPlaced
<1>5. \/ PatchFails(h)
      \/ Goto(h, again, "query") /\ UNCHANGED <<cib, former, lifted, timedout>>
      \/ CibBecomes(Changed(h), h, next, Action(h) = "unfence") /\ UNCHANGED <<faults, timedout>>
      \/ NotPlaced(h) /\ UNCHANGED <<cib, former, faults, lifted>> /\ timedout' = (timedout \/ rec.snapshot = cib)
  BY DEF patch, Patched
<1> QED BY <1>1, <1>2, <1>3, <1>4, <1>5

\* double_check: a constraint that is not needed any more is lifted.
LEMMA SomeoneDoubleChecks ==
  ASSUME IInv, SomeoneInv, NEW h \in Handlers, double_check(h)
  PROVE  SomeoneInv'
<1>0. script[h] \in Script /\ script[h].pc = "double_check" /\ UNCHANGED <<drbd, faults, timedout>>
  BY DEF IInv, TypeOK, double_check
<1> DEFINE gone == [script[h] EXCEPT !.code = 1, !.holds = FALSE]
<1>1. CASE Exit(h, script[h]) /\ UNCHANGED <<cib, former, lifted>>
  <2>1. script' = [script EXCEPT ![h] = Ended(script[h])] BY <1>1 DEF Exit, Set
  <2>2. Ended(script[h]) \in Script /\ Ended(script[h]).pc = "exit" /\ Ended(script[h]).code = script[h].code
    BY <1>0, EndedScript
  <2>3. CodeOK(h, Ended(script[h])) BY <2>2 DEF CodeOK
  <2>4. ~ Trying(script[h]) BY <1>0 DEF Trying
  <2>5. Won(script[h]) => Won(Ended(script[h])) BY <1>0, <2>2 DEF Won
  <2> QED BY <1>0, <1>1, <2>1, <2>2, <2>3, <2>4, <2>5, SomeoneOneHandler
<1>2. CASE CibBecomes({}, h, Ended(gone), TRUE)
  <2>1. gone \in Script BY <1>0 DEF Script
  <2> HIDE DEF gone
  <2>2. Ended(gone) \in Script /\ Ended(gone).pc = "exit" BY <2>1, EndedScript
  <2>3. CodeOK(h, Ended(gone)) BY <2>2 DEF CodeOK
  <2> QED BY <1>0, <1>2, <2>2, <2>3, SomeoneCibStep
<1> QED BY <1>1, <1>2 DEF double_check

\* unfence, remove_constraint: the constraint is lifted.
LEMMA SomeoneUnfences ==
  ASSUME IInv, SomeoneInv, NEW h \in Handlers, unfence(h) \/ remove_constraint(h)
  PROVE  SomeoneInv'
<1>0. /\ script[h] \in Script /\ LocalOK(h, script[h], cib) /\ script[h].pc \in {"unfence", "remove"}
      /\ UNCHANGED <<drbd, faults, timedout>> /\ {} \in Copies
  BY DEF IInv, TypeOK, unfence, remove_constraint, Copies
<1>1. Action(h) # "fence" BY <1>0 DEF LocalOK
<1>2. \A r : CodeOK(h, r) BY <1>1 DEF CodeOK
<1>3. ASSUME NEW r \in Script, script' = [script EXCEPT ![h] = r], UNCHANGED <<cib, former, lifted>>
      PROVE  SomeoneInv'
  BY <1>0, <1>1, <1>2, <1>3, SomeoneOneHandler
<1>4. Ended(script[h]) \in Script BY <1>0, EndedScript
<1>5. CASE unfence(h)
  <2> DEFINE q == [script[h] EXCEPT !.have = {}]
             r == [q EXCEPT !.pc = "query"]
             removing == [script[h] EXCEPT !.pc = "remove"]
  <2>1. removing \in Script BY <1>0 DEF Script, Labels
  <2>2. q \in Script BY <1>0 DEF Script
  <2>3. script' \in {[script EXCEPT ![h] = Ended(script[h])], [script EXCEPT ![h] = removing],
                     [script EXCEPT ![h] = r]}
    BY <1>5 DEF unfence, Exit, Goto, Set
  <2>4. UNCHANGED <<cib, former, lifted>> BY <1>5 DEF unfence
  <2> HIDE DEF q
  <2>5. r \in Script BY <2>2 DEF Script, Labels
  <2> HIDE DEF r, removing
  <2> QED BY <1>3, <1>4, <2>1, <2>3, <2>4, <2>5
<1>6. CASE remove_constraint(h)
  <2>1. CibBecomes({}, h, Ended(script[h]), TRUE) BY <1>6 DEF remove_constraint
  <2> QED BY <1>0, <1>2, <1>4, <2>1, SomeoneCibStep
<1> QED BY <1>5, <1>6

\* What changes around the handlers: the CIB, the membership, and links that
\* recover, after which a handler is no longer sure of being good.
LEMMA SomeoneCluster ==
  ASSUME IInv, SomeoneInv,
         cib_updated \/ (\E n \in Nodes : member_changes(n) \/ peers_recover(n)) \/ UNCHANGED vars
  PROVE  SomeoneInv'
<1>1. CASE CibBecomes(cib, NoLock, Idle, FALSE) /\ UNCHANGED <<drbd, faults, timedout>>
  <2>0. /\ UNCHANGED <<cib, former, drbd, faults, lifted, timedout>>
        /\ script' = [g \in Handlers |->
                        IF g = NoLock THEN Idle
                        ELSE [script[g] EXCEPT !.current = FALSE, !.holds = @ /\ ~ FALSE]]
    BY <1>1 DEF CibBecomes, SomeoneInv
  <2>1. ASSUME NEW g \in Handlers
        PROVE  /\ script'[g].pc = script[g].pc /\ script'[g].code = script[g].code
               /\ script'[g].placed = script[g].placed /\ script'[g].replace = script[g].replace
               /\ script'[g].snapshot = script[g].snapshot
    <3>1. script[g] \in Script BY DEF IInv, TypeOK
    <3>2. g # NoLock BY FenceAssumption DEF NoLock
    <3>3. script'[g] = [script[g] EXCEPT !.current = FALSE, !.holds = @ /\ ~ FALSE] BY <2>0, <3>2
    <3> QED BY <3>1, <3>3 DEF Script
  <2>2. \A g \in Handlers : CodeOK(g, script[g]) => CodeOK(g, script'[g]) BY <2>1 DEF CodeOK
  <2>3. \A g \in Handlers : Won(script[g]) => Won(script'[g]) BY <2>1 DEF Won
  <2>4. \A g \in Handlers : Trying(script[g]) => Trying(script'[g]) BY <2>1 DEF Trying
  <2> QED BY <2>0, <2>1, <2>2, <2>3, <2>4 DEF SomeoneInv, CodeOK, Won, Trying, Good
<1>2. CASE UNCHANGED <<cib, former, drbd, script, faults, lifted, timedout>>
  BY <1>2 DEF SomeoneInv, CodeOK, Won, Trying, Good
<1>3. ASSUME NEW n \in Nodes, peers_recover(n) PROVE SomeoneInv'
  <2>0. /\ UNCHANGED <<cib, former, script, faults, lifted, timedout>>
        /\ drbd' = [drbd EXCEPT ![n].peers = TRUE] /\ ~ drbd[n].peers
        /\ drbd \in [Nodes -> [disk : Disks, peers : BOOLEAN]]
    BY <1>3 DEF peers_recover, SomeoneInv
  <2>1. drbd' \in [Nodes -> [disk : Disks, peers : BOOLEAN]] BY <2>0
  <2>2. \A h \in Handlers : Good(h)' => Good(h)
    <3> SUFFICES ASSUME NEW h \in Handlers, Good(h)' PROVE Good(h) OBVIOUS
    <3>1. Node(h) \in Nodes BY FenceAssumption DEF Node
    <3>2. CASE Node(h) = n
      <4>1. drbd'[n].peers = TRUE BY <2>0
      <4>2. drbd'[n] = [disk |-> "UpToDate", peers |-> FALSE] BY <3>2 DEF Good
      <4> QED BY <4>1, <4>2
    <3>3. CASE Node(h) # n BY <2>0, <3>1, <3>3 DEF Good
    <3> QED BY <3>2, <3>3
  <2> QED BY <2>0, <2>1, <2>2 DEF SomeoneInv, CodeOK, Won, Trying
<1> QED BY <1>1, <1>2, <1>3 DEF cib_updated, member_changes, vars

\* Where the CIB holds no constraint to begin with: if nothing fails and
\* nothing is lifted, the handlers that were called to fence do not all give
\* up because of each other; nor because of other changes of the CIB, unless
\* such a change refused a patch after the timeout of the handler, which then
\* does not retry.
THEOREM OneOfThemWins == ASSUME Constraints = {{}} PROVE Spec => []SomeoneWins
<1>1. Init => SomeoneInv
  <2> SUFFICES ASSUME Init PROVE SomeoneInv OBVIOUS
  <2>1. \A h \in Handlers : CodeOK(h, script[h]) /\ Trying(script[h])
    <3> SUFFICES ASSUME NEW h \in Handlers PROVE CodeOK(h, script[h]) /\ Trying(script[h]) OBVIOUS
    <3>1. script[h] = Idle BY DEF Init
    <3> QED BY <3>1, IdleScript DEF CodeOK, Trying
  <2>2. /\ faults \in Nat /\ lifted \in BOOLEAN /\ timedout \in BOOLEAN /\ cib = {} /\ former = {}
        /\ drbd \in [Nodes -> [disk : Disks, peers : BOOLEAN]]
    BY DEF Init
  <2> QED BY <2>1, <2>2 DEF SomeoneInv
<1>2. IInv /\ SomeoneInv /\ [Next]_vars => SomeoneInv'
  <2> SUFFICES ASSUME IInv, SomeoneInv, [Next]_vars PROVE SomeoneInv' OBVIOUS
  <2>1. ASSUME NEW h \in Handlers, Step(h) PROVE SomeoneInv'
    BY <2>1, SomeoneExisting, SomeoneChecks, SomeoneDecides, SomeoneQueries, SomeonePatches,
       SomeoneDoubleChecks, SomeoneUnfences DEF Step
  <2>2. ASSUME NEW h \in Handlers, NEW mask \in Masks, NEW have \in {cib, former}, start(h, mask, have)
        PROVE  SomeoneInv'
    BY <2>2, SomeoneStart
  <2> QED BY <2>1, <2>2, SomeoneCluster DEF Next
<1>3. SomeoneInv => SomeoneWins
  <2> SUFFICES ASSUME SomeoneInv, faults = 0, ~ lifted, ~ timedout, Fencing # {},
                      \A h \in Fencing : script[h].pc \in {"exit", "reboot"} /\ Good(h)
               PROVE  \E h \in Fencing : Fenced(h)
    BY Zenon DEF SomeoneWins, Good
  <2>1. CASE \E h \in Handlers : Action(h) = "fence" /\ script[h].pc # "idle" /\ Won(script[h])
    <3>1. PICK h \in Handlers : Action(h) = "fence" /\ script[h].pc # "idle" /\ Won(script[h]) BY <2>1
    <3>2. h \in Fencing BY <3>1 DEF Fencing
    <3>3. script[h].pc \in {"exit", "reboot"} BY <3>2
    <3>4. Fenced(h) BY <3>1, <3>3 DEF Won, Fenced
    <3> QED BY <3>2, <3>4
  <2>2. CASE \A h \in Handlers : Action(h) = "fence" /\ Good(h) => Trying(script[h])
    <3>1. PICK h \in Fencing : TRUE OBVIOUS
    <3>2. h \in Handlers /\ Action(h) = "fence" /\ Good(h) /\ script[h].pc \in {"exit", "reboot"}
      BY <3>1 DEF Fencing
    <3> QED BY <2>2, <3>2 DEF Trying
  <2> QED BY <2>1, <2>2 DEF SomeoneInv
<1> QED BY <1>1, <1>2, <1>3, Invariant, PTL DEF Spec
=============================================================================
