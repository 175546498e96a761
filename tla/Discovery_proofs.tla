-------------------------- MODULE Discovery_proofs --------------------------
(***************************************************************************)
(* Theorems about Discovery, for every set of pids, agents and sessions    *)
(* and any number of processes and hook events.                            *)
(***************************************************************************)
EXTENDS Discovery, FiniteSetTheorems, TLAPS

-----------------------------------------------------------------------------
(* Trees of processes *)

(* The tree below a root holds the root and, of what the scan found, the   *)
(* children of what it holds, and nothing that need not be there.          *)
LEMMA TreeIsLeast ==
    ASSUME NEW scan \in Tables, NEW root
    PROVE  /\ buildTree(scan, root) \subseteq DOMAIN scan
           /\ root \in DOMAIN scan => root \in buildTree(scan, root)
           /\ buildTree(scan, root) # {} => root \in DOMAIN scan
           /\ buildTree(scan, root) \in Closed(scan)
           /\ \A S \in Closed(scan) : root \in S => buildTree(scan, root) \subseteq S
<1> DEFINE tree == buildTree(scan, root)
<1>1. CASE root \in DOMAIN scan
  <2>1. tree = {p \in DOMAIN scan : \A S \in {S \in Closed(scan) : root \in S} : p \in S}
    BY <1>1 DEF buildTree
  <2> HIDE DEF tree
  <2>2. tree \subseteq DOMAIN scan /\ root \in tree
    BY <1>1, <2>1
  <2>3. ASSUME NEW S \in Closed(scan), root \in S PROVE tree \subseteq S
    BY <2>1, <2>3
  <2>4. ASSUME NEW c \in DOMAIN scan \ tree PROVE scan[c].ppid \notin tree
    <3>1. PICK S \in Closed(scan) : root \in S /\ c \notin S
      BY <2>1, <2>4
    <3>2. scan[c].ppid \notin S
      BY <3>1 DEF Closed
    <3> QED
      BY <2>3, <3>1, <3>2
  <2>5. tree \in Closed(scan)
    BY <2>2, <2>4 DEF Closed
  <2> QED
    BY <1>1, <2>2, <2>3, <2>5 DEF tree
<1>2. CASE root \notin DOMAIN scan
  <2>1. tree = {}
    BY <1>2 DEF buildTree
  <2>2. {} \in Closed(scan)
    BY DEF Closed
  <2> QED
    BY <1>2, <2>1, <2>2
<1> QED
  BY <1>1, <1>2

(* Whatever a tree holds besides its root has its parent there. *)
LEMMA ParentsAreInTheTree ==
    ASSUME NEW scan \in Tables, NEW root, NEW c \in buildTree(scan, root), c # root
    PROVE  scan[c].ppid \in buildTree(scan, root)
<1> DEFINE tree == buildTree(scan, root)
           S == {x \in tree : x = root \/ scan[x].ppid \in tree}
<1>1. /\ tree \subseteq DOMAIN scan /\ root \in tree /\ tree \in Closed(scan)
      /\ \A T \in Closed(scan) : root \in T => tree \subseteq T
  BY TreeIsLeast
<1>2. c \in tree
  OBVIOUS
<1> HIDE DEF tree
<1>3. S \in Closed(scan)
  BY <1>1 DEF Closed
<1>4. c \in S
  BY <1>1, <1>2, <1>3
<1> QED
  BY <1>4 DEF tree

(* The tree below a process of a tree is a part of it. *)
LEMMA TreesNest ==
    ASSUME NEW scan \in Tables, NEW root, NEW p \in buildTree(scan, root)
    PROVE  buildTree(scan, p) \subseteq buildTree(scan, root)
BY TreeIsLeast

(* Of two trees that have a process in common, one is a part of the other: *)
(* a process has one parent.                                               *)
LEMMA TreesMeet ==
    ASSUME NEW scan \in Tables, NEW p, NEW q,
           buildTree(scan, p) \cap buildTree(scan, q) # {}
    PROVE  p \in buildTree(scan, q) \/ q \in buildTree(scan, p)
<1> DEFINE P == buildTree(scan, p)
           Q == buildTree(scan, q)
           S == {x \in P : x \in Q => p \in Q \/ q \in P}
<1>1. /\ P \subseteq DOMAIN scan /\ p \in P /\ P \in Closed(scan)
      /\ \A T \in Closed(scan) : p \in T => P \subseteq T
  BY TreeIsLeast
<1>2. \A c \in Q : c # q => scan[c].ppid \in Q
  BY ParentsAreInTheTree
<1>3. P \cap Q # {}
  OBVIOUS
<1> HIDE DEF P, Q
<1>4. S \in Closed(scan)
  BY <1>1, <1>2 DEF Closed
<1>5. P \subseteq S
  BY <1>1, <1>4
<1>6. p \in Q \/ q \in P
  BY <1>3, <1>5
<1> QED
  BY <1>6 DEF P, Q

(* The walk from parent to parent meets those in whose trees it begins.    *)
LEMMA AncestorsAreAbove ==
    ASSUME NEW scan \in Tables, NEW p \in DOMAIN scan, NEW a \in DOMAIN scan \ {p}
    PROVE  a \in Ancestors(scan, p) <=> p \in buildTree(scan, a)
<1>1. /\ DOMAIN scan \subseteq Pids
      /\ \A c \in DOMAIN scan : scan[c].ppid \in Pids \cup {0}
      /\ 0 \notin Pids
  BY ProcessTreeAssumption DEF Tables, Process
<1>2. a \in Ancestors(scan, p) <=> \A S \in ClosedAbove(scan) : p \in S => a \in S
  BY <1>1 DEF Ancestors
<1>3. p \in buildTree(scan, a) <=> \A S \in Closed(scan) : a \in S => p \in S
  BY DEF buildTree
<1>4. ASSUME NEW S \in ClosedAbove(scan) PROVE DOMAIN scan \ S \in Closed(scan)
  BY <1>1 DEF Closed, ClosedAbove
<1>5. ASSUME NEW S \in Closed(scan) PROVE Pids \ S \in ClosedAbove(scan)
  BY <1>1 DEF Closed, ClosedAbove
<1> QED
  BY <1>1, <1>2, <1>3, <1>4, <1>5

(* Roots are the matches that are in no other match's tree. *)
LEMMA RootsAreOnTop ==
    ASSUME NEW scan \in Tables, NEW exclude, NEW p
    PROVE  p \in FindRoots(scan, exclude)
              <=> /\ p \in Matched(scan, exclude)
                  /\ \A a \in Matched(scan, exclude) \ {p} : p \notin buildTree(scan, a)
<1>1. Matched(scan, exclude) \subseteq DOMAIN scan
  BY DEF Matched
<1>2. ASSUME p \in Matched(scan, exclude)
      PROVE  hasMatchedAncestor(scan, p, Matched(scan, exclude))
                <=> \E a \in Matched(scan, exclude) \ {p} : p \in buildTree(scan, a)
  <2>1. p \notin Ancestors(scan, p)
    BY DEF Ancestors
  <2>2. \A a \in Matched(scan, exclude) \ {p} :
           a \in Ancestors(scan, p) <=> p \in buildTree(scan, a)
    BY <1>1, <1>2, AncestorsAreAbove
  <2> QED
    BY <2>1, <2>2 DEF hasMatchedAncestor
<1> QED
  BY <1>2 DEF FindRoots

(* A match is in the tree of some root, unless there is a circle above it. *)
LEMMA MatchIsBelowARoot ==
    ASSUME NEW scan \in Tables, NEW exclude, NEW p \in Matched(scan, exclude),
           \A a, b \in DOMAIN scan :
              p \in buildTree(scan, a) /\ a \in buildTree(scan, b) /\ b \in buildTree(scan, a)
                 => a = b
    PROVE  \E r \in FindRoots(scan, exclude) : p \in buildTree(scan, r)
<1> DEFINE above == {a \in Matched(scan, exclude) : p \in buildTree(scan, a)}
           outside(a) == DOMAIN scan \ buildTree(scan, a)
           T == {outside(a) : a \in above}
<1>1. Matched(scan, exclude) \subseteq DOMAIN scan
  BY DEF Matched
<1>2. p \in above
  BY <1>1, TreeIsLeast
<1>3. IsFiniteSet(DOMAIN scan)
  <2>1. DOMAIN scan \subseteq Pids /\ IsFiniteSet(Pids)
    BY ProcessTreeAssumption DEF Tables
  <2> QED
    BY <2>1, FS_Subset
<1>4. IsWellFoundedOn(StrictSubsetOrdering(DOMAIN scan), SUBSET DOMAIN scan)
  BY <1>3, FS_StrictSubsetOrderingWellFounded, FS_FiniteSubsetsOfFinite
<1>5. T \subseteq SUBSET DOMAIN scan /\ T # {}
  BY <1>2
<1> HIDE DEF T
<1>6. PICK least \in T : \A t \in T : ~ (<<t, least>> \in StrictSubsetOrdering(DOMAIN scan))
  BY <1>4, <1>5, WFMin
<1>7. PICK r \in above : least = outside(r)
  BY <1>6 DEF T
<1>8. \A a \in above : outside(a) \subseteq outside(r) => outside(a) = outside(r)
  <2> SUFFICES ASSUME NEW a \in above, outside(a) \subseteq outside(r)
               PROVE  outside(a) = outside(r)
    OBVIOUS
  <2>1. outside(a) \in T
    BY DEF T
  <2>2. ~ (<<outside(a), outside(r)>> \in StrictSubsetOrdering(DOMAIN scan))
    BY <1>6, <1>7, <2>1
  <2>3. outside(a) \in SUBSET DOMAIN scan /\ outside(r) \in SUBSET DOMAIN scan
    OBVIOUS
  <2> HIDE DEF outside
  <2> QED
    BY <2>2, <2>3 DEF StrictSubsetOrdering
<1>9. ASSUME NEW a \in Matched(scan, exclude) \ {r} PROVE r \notin buildTree(scan, a)
  <2> SUFFICES ASSUME r \in buildTree(scan, a) PROVE FALSE
    OBVIOUS
  <2>1. buildTree(scan, r) \subseteq buildTree(scan, a)
    BY TreesNest
  <2>2. a \in above
    BY <2>1
  <2>3. outside(a) = outside(r)
    BY <1>8, <2>1, <2>2
  <2>4. a \in DOMAIN scan /\ r \in DOMAIN scan
    BY <1>1
  <2>5. a \in buildTree(scan, a)
    BY <2>4, TreeIsLeast
  <2>6. a \in buildTree(scan, r)
    BY <2>3, <2>4, <2>5
  <2> QED
    BY <1>7, <2>4, <2>6
<1> QED
  BY <1>7, <1>9, RootsAreOnTop

-----------------------------------------------------------------------------
(* Rows *)

(* A scan in progress and the processes themselves are not of the future.  *)
Dated(table) == \A p \in DOMAIN table : table[p].start <= born
ScansAreDated == Dated(processes) /\ Dated(scanning.began)

(* The rows are those of the last scan: what auto-discovery lists are the  *)
(* roots outside of what hooks announced, each with its tree and its date. *)
Announced == DOMAIN rows \ Pids
RowsAreOfTheScan ==
    /\ Discovered = FindRoots(snap, UNION {PidsOf(id) : id \in Announced})
    /\ DOMAIN autoFirstSeen = Discovered
    /\ \A p \in Discovered : PidsOf(p) = buildTree(snap, p)
    /\ \A id \in Announced : \E root \in Pids : PidsOf(id) = buildTree(snap, root)

(* A scan finds processes that ran when it began or when it ended. *)
LEMMA ScansAreTables ==
    ASSUME processes \in Tables, scanning.began \in Tables, NEW scan \in Scans
    PROVE  scan \in Tables /\ (ScansAreDated => Dated(scan))
<1> DEFINE table(early, p) == IF p \in early THEN scanning.began ELSE processes
<1>1. PICK early \in SUBSET Pids :
         scan = [p \in {q \in Pids : q \in DOMAIN table(early, q)} |-> table(early, p)[p]]
  BY DEF Scans
<1>2. ASSUME NEW p \in DOMAIN scan
      PROVE  /\ p \in Pids
             /\ \/ p \in DOMAIN processes /\ scan[p] = processes[p]
                \/ p \in DOMAIN scanning.began /\ scan[p] = scanning.began[p]
  BY <1>1
<1>3. ASSUME NEW t \in Tables, NEW p \in DOMAIN t PROVE t[p] \in Process
  BY DEF Tables
<1>4. scan \in [DOMAIN scan -> Process]
  <2>1. \A p \in DOMAIN scan : scan[p] \in Process
    BY <1>2, <1>3
  <2> DEFINE P == {q \in Pids : q \in DOMAIN table(early, q)}
             t(p) == table(early, p)[p]
  <2>2. scan = [p \in P |-> t(p)]
    BY <1>1
  <2> HIDE DEF P, t
  <2> QED
    BY <2>1, <2>2
<1>5. scan \in Tables
  BY <1>2, <1>4 DEF Tables
<1>6. ScansAreDated => Dated(scan)
  BY <1>2 DEF ScansAreDated, Dated
<1> QED
  BY <1>5, <1>6

(* The rows of a scan. *)
LEMMA RowsOfScan ==
    ASSUME NEW scan \in Tables, NEW pid \in Pids,
           NEW session \in [rootPid : Pids, ended : BOOLEAN]
    PROVE  /\ TreeOf(scan, pid) \in SUBSET Identity
           /\ {process.pid : process \in TreeOf(scan, pid)} = buildTree(scan, pid)
           /\ HookRow(scan, session) \in Row
           /\ {process.pid : process \in HookRow(scan, session).tree} =
                 buildTree(scan, session.rootPid)
           /\ pid \in DOMAIN scan => AutoRow(scan, pid) \in Row
           /\ {process.pid : process \in AutoRow(scan, pid).tree} = buildTree(scan, pid)
<1>1. ASSUME NEW p \in Pids
      PROVE  /\ TreeOf(scan, p) \in SUBSET Identity
             /\ {process.pid : process \in TreeOf(scan, p)} = buildTree(scan, p)
  <2>1. buildTree(scan, p) \subseteq DOMAIN scan
    BY TreeIsLeast
  <2>2. DOMAIN scan \subseteq Pids /\ \A q \in DOMAIN scan : scan[q].start \in 1 .. MaxBorn
    BY DEF Tables, Process
  <2>3. ASSUME NEW q \in buildTree(scan, p)
        PROVE  /\ [pid |-> q, start |-> scan[q].start] \in Identity
               /\ [pid |-> q, start |-> scan[q].start].pid = q
    BY <2>1, <2>2 DEF Identity
  <2>4. TreeOf(scan, p) = {[pid |-> q, start |-> scan[q].start] : q \in buildTree(scan, p)}
    BY DEF TreeOf
  <2>5. TreeOf(scan, p) \in SUBSET Identity
    BY <2>3, <2>4
  <2>6. \A process \in TreeOf(scan, p) :
           \E q \in buildTree(scan, p) :
              process = [pid |-> q, start |-> scan[q].start]
    BY <2>4
  <2>7. {process.pid : process \in TreeOf(scan, p)} \subseteq buildTree(scan, p)
    BY <2>3, <2>6
  <2>8. ASSUME NEW q \in buildTree(scan, p)
        PROVE  q \in {process.pid : process \in TreeOf(scan, p)}
    <3> DEFINE process == [pid |-> q, start |-> scan[q].start]
    <3>1. process \in TreeOf(scan, p)
      BY <2>4
    <3>2. process.pid = q
      BY <2>3
    <3> QED
      BY <3>1, <3>2
  <2> QED
    BY <2>5, <2>7, <2>8
<1>2. session.rootPid \in Pids
  OBVIOUS
<1>3. HookRow(scan, session) \in Row /\ HookRow(scan, session).tree = TreeOf(scan, session.rootPid)
  BY <1>1, <1>2 DEF HookRow, Row
<1>4. AutoRow(scan, pid) \in Row /\ AutoRow(scan, pid).tree = TreeOf(scan, pid)
  <2>1. resourceScopeForAgent(scan[pid].command) \in {"owned", "shared"}
    BY DEF resourceScopeForAgent
  <2> QED
    BY <1>1, <2>1 DEF AutoRow, Row
<1> QED
  BY <1>1, <1>2, <1>3, <1>4

(* To begin with there are no processes, sessions or rows. *)
LEMMA InitDiscovery == Init => TypeOK /\ ScansAreDated /\ RowsAreOfTheScan
<1> SUFFICES ASSUME Init PROVE TypeOK /\ ScansAreDated /\ RowsAreOfTheScan
  OBVIOUS
<1>1. /\ processes = <<>> /\ born = 0 /\ sessions = <<>>
      /\ scanning = [ongoing |-> FALSE, began |-> <<>>]
      /\ snap = <<>> /\ autoFirstSeen = <<>> /\ rows = <<>> /\ hooks = 0
  BY DEF Init, Idle
<1>2. DOMAIN <<>> = {}
  OBVIOUS
<1>3. <<>> \in Tables
  <2>1. ASSUME NEW S PROVE <<>> \in [{} -> S]
    OBVIOUS
  <2>2. <<>> \in [{} -> Process] /\ {} \in SUBSET Pids
    BY <2>1, Zenon
  <2> QED
    BY <2>2, Zenon DEF Tables
<1>4. MaxBorn \in Nat /\ MaxHooks \in Nat
  BY DiscoveryAssumption
<1>5. TypeOK
  BY <1>1, <1>2, <1>3, <1>4 DEF TypeOK, Times
<1>6. ScansAreDated
  BY <1>1, <1>2 DEF ScansAreDated, Dated
<1>7. RowsAreOfTheScan
  <2>1. Discovered = {} /\ Announced = {}
    BY <1>1, <1>2 DEF Discovered, Announced
  <2>2. FindRoots(snap, UNION {PidsOf(id) : id \in Announced}) = {}
    BY <1>1, <1>2 DEF FindRoots, Matched
  <2> QED
    BY <1>1, <1>2, <2>1, <2>2 DEF RowsAreOfTheScan
<1> QED
  BY <1>5, <1>6, <1>7

(* What TickLocked makes of a scan. *)
LEMMA TickMakesRows ==
    ASSUME TypeOK, ScansAreDated, TickLocked
    PROVE  (TypeOK /\ ScansAreDated /\ RowsAreOfTheScan)'
<1> USE DEF TypeOK
<1>1. PICK scan \in Scans,
           pruned \in SUBSET {id \in DOMAIN sessions : sessions[id].ended} :
         LET tracked == [id \in DOMAIN sessions \ pruned |-> sessions[id]]
             roots == FindRoots(scan, Attributed(scan, tracked))
         IN  /\ sessions' = tracked
             /\ snap' = scan
             /\ autoFirstSeen' = FirstSeen(roots)
             /\ rows' = [id \in DOMAIN tracked \cup roots |->
                            IF id \in DOMAIN tracked THEN HookRow(scan, tracked[id])
                            ELSE AutoRow(scan, id)]
  BY DEF TickLocked
<1> DEFINE tracked == [id \in DOMAIN sessions \ pruned |-> sessions[id]]
           roots == FindRoots(scan, Attributed(scan, tracked))
<1>2. scan \in Tables
  BY ScansAreTables
<1>3. /\ sessions' = tracked /\ snap' = scan /\ autoFirstSeen' = FirstSeen(roots)
      /\ rows' = [id \in DOMAIN tracked \cup roots |->
                     IF id \in DOMAIN tracked THEN HookRow(scan, tracked[id])
                     ELSE AutoRow(scan, id)]
  BY <1>1
<1>4. /\ DOMAIN tracked \subseteq Sessions
      /\ \A id \in DOMAIN tracked : tracked[id] \in [rootPid : Pids, ended : BOOLEAN]
  OBVIOUS
<1>5. roots \subseteq DOMAIN scan /\ DOMAIN scan \subseteq Pids
  BY <1>2 DEF FindRoots, Matched, Tables
<1>6. roots = FindRoots(scan, Attributed(scan, tracked))
  OBVIOUS
<1> HIDE DEF tracked, roots
<1>7. Sessions \cap Pids = {}
  BY DiscoveryAssumption
<1>8. /\ DOMAIN rows' = DOMAIN tracked \cup roots
      /\ \A id \in DOMAIN tracked : rows'[id] = HookRow(scan, tracked[id])
      /\ \A p \in roots : rows'[p] = AutoRow(scan, p)
  BY <1>3, <1>4, <1>5, <1>7
<1>9. Discovered' = roots /\ Announced' = DOMAIN tracked
  BY <1>4, <1>5, <1>7, <1>8 DEF Discovered, Announced
<1>10. ASSUME NEW id \in DOMAIN tracked
       PROVE  rows'[id] \in Row /\ PidsOf(id)' = buildTree(scan, tracked[id].rootPid)
  <2> DEFINE session == tracked[id]
  <2>1. session \in [rootPid : Pids, ended : BOOLEAN] /\ rows'[id] = HookRow(scan, session)
    BY <1>4, <1>8
  <2>2. session.rootPid \in Pids
    BY <2>1
  <2> HIDE DEF session
  <2>3. /\ HookRow(scan, session) \in Row
        /\ {process.pid : process \in HookRow(scan, session).tree} =
              buildTree(scan, session.rootPid)
    BY <1>2, <2>1, <2>2, RowsOfScan
  <2>4. PidsOf(id)' = buildTree(scan, session.rootPid)
    BY <2>1, <2>3 DEF PidsOf
  <2> QED
    BY <2>1, <2>3, <2>4 DEF session
<1>11. ASSUME NEW p \in roots
       PROVE  rows'[p] \in Row /\ PidsOf(p)' = buildTree(scan, p)
  <2>1. p \in DOMAIN scan /\ p \in Pids /\ rows'[p] = AutoRow(scan, p)
    BY <1>5, <1>8
  <2>2. [rootPid |-> p, ended |-> FALSE] \in [rootPid : Pids, ended : BOOLEAN]
    BY <2>1
  <2>3. /\ AutoRow(scan, p) \in Row
        /\ {process.pid : process \in AutoRow(scan, p).tree} = buildTree(scan, p)
    BY <1>2, <2>1, <2>2, RowsOfScan
  <2>4. PidsOf(p)' = buildTree(scan, p)
    BY <2>1, <2>3 DEF PidsOf
  <2> QED
    BY <2>1, <2>3, <2>4
<1>12. /\ DOMAIN autoFirstSeen' = roots
       /\ \A p \in roots : autoFirstSeen'[p] \in Times
  BY <1>3 DEF FirstSeen
<1>13. UNCHANGED <<processes, born, hooks>> /\ scanning' = Idle
  BY DEF TickLocked, os
<1>14. <<>> \in Tables /\ Idle.began = <<>> /\ DOMAIN <<>> = {}
  <2>1. ASSUME NEW S PROVE <<>> \in [{} -> S]
    OBVIOUS
  <2>2. <<>> \in [{} -> Process] /\ {} \in SUBSET Pids
    BY <2>1, Zenon
  <2>3. <<>> \in Tables
    BY <2>2, Zenon DEF Tables
  <2> QED
    BY <2>3 DEF Idle
<1>15. TypeOK'
  <2>1. scanning' \in [ongoing : BOOLEAN, began : Tables]
    BY <1>13, <1>14 DEF Idle
  <2>2. /\ DOMAIN rows' \subseteq Sessions \cup Pids
        /\ DOMAIN autoFirstSeen' \subseteq Pids
        /\ \A p \in DOMAIN autoFirstSeen' : autoFirstSeen'[p] \in Times'
    BY <1>4, <1>5, <1>8, <1>12 DEF Times
  <2>3. /\ DOMAIN sessions' \subseteq Sessions
        /\ \A id \in DOMAIN sessions' : sessions'[id] \in [rootPid : Pids, ended : BOOLEAN]
        /\ snap' \in Tables
    BY <1>2, <1>3, <1>4
  <2>4. \A id \in DOMAIN rows' : rows'[id] \in Row
    BY <1>8, <1>10, <1>11
  <2> QED
    BY <1>13, <2>1, <2>2, <2>3, <2>4
<1>16. ScansAreDated'
  BY <1>13, <1>14 DEF ScansAreDated, Dated
<1>17. RowsAreOfTheScan'
  <2>1. UNION {PidsOf(id)' : id \in Announced'} = Attributed(scan, tracked)
    BY <1>9, <1>10 DEF Attributed
  <2>2. \A id \in Announced' : \E root \in Pids : PidsOf(id)' = buildTree(scan, root)
    BY <1>4, <1>9, <1>10
  <2> QED
    BY <1>3, <1>6, <1>9, <1>11, <1>12, <2>1, <2>2 DEF RowsAreOfTheScan
<1> QED
  BY <1>15, <1>16, <1>17

(* Every step keeps the types, the dates and the rows. *)
LEMMA NextDiscovery ==
    ASSUME TypeOK, ScansAreDated, RowsAreOfTheScan, [Next]_vars
    PROVE  (TypeOK /\ ScansAreDated /\ RowsAreOfTheScan)'
<1> USE DEF TypeOK, Times
<1>1. MaxBorn \in Nat /\ MaxHooks \in Nat /\ born \in 0 .. MaxBorn
  BY DiscoveryAssumption
<1>2. ASSUME UNCHANGED shown PROVE RowsAreOfTheScan'
  BY <1>2 DEF shown, RowsAreOfTheScan, Discovered, Announced, PidsOf
<1>3. ASSUME NEW p \in Pids, Spawn(p)
      PROVE  (TypeOK /\ ScansAreDated /\ RowsAreOfTheScan)'
  <2>1. /\ born' = born + 1 /\ born < MaxBorn
        /\ UNCHANGED <<sessions, scanning, snap, autoFirstSeen, rows, hooks>>
    BY <1>3 DEF Spawn, shown
  <2>2. PICK parent \in {0} \cup DOMAIN processes, command \in Agents \cup {Tool} :
           processes' = [q \in DOMAIN processes \cup {p} |->
                            IF q = p THEN [ppid |-> parent, command |-> command,
                                           start |-> born']
                            ELSE processes[q]]
    BY <1>3 DEF Spawn
  <2>3. /\ DOMAIN processes \subseteq Pids
        /\ \A q \in DOMAIN processes : processes[q] \in Process
    BY DEF Tables
  <2>4. [ppid |-> parent, command |-> command, start |-> born'] \in Process
    BY <1>1, <2>1, <2>3 DEF Process
  <2>5. /\ DOMAIN processes' = DOMAIN processes \cup {p}
        /\ processes' \in [DOMAIN processes \cup {p} -> Process]
    BY <2>2, <2>3, <2>4
  <2>6. processes' \in Tables
    BY <2>3, <2>5 DEF Tables
  <2>7. born' \in 0 .. MaxBorn
    BY <1>1, <2>1
  <2>8. ScansAreDated'
    <3>1. \A q \in DOMAIN processes : processes[q].start \in Nat
      BY <2>3 DEF Process
    <3>2. Dated(processes)'
      <4> SUFFICES ASSUME NEW q \in DOMAIN processes' PROVE processes'[q].start <= born'
        BY DEF Dated
      <4>1. CASE q = p
        BY <1>1, <2>1, <2>2, <4>1
      <4>2. CASE q # p
        <5>1. q \in DOMAIN processes /\ processes'[q] = processes[q]
          BY <2>2, <2>5, <4>2
        <5>2. processes[q].start <= born
          BY <5>1 DEF ScansAreDated, Dated
        <5> QED
          BY <1>1, <2>1, <3>1, <5>1, <5>2
      <4> QED
        BY <4>1, <4>2
    <3>3. Dated(scanning.began)'
      <4>1. \A q \in DOMAIN scanning.began : scanning.began[q].start \in Nat
        BY DEF Tables, Process
      <4> QED
        BY <1>1, <2>1, <4>1 DEF ScansAreDated, Dated
    <3> QED
      BY <3>2, <3>3 DEF ScansAreDated
  <2>9. TypeOK'
    BY <1>1, <2>1, <2>6, <2>7
  <2> QED
    BY <1>2, <2>1, <2>8, <2>9 DEF shown
<1>4. ASSUME NEW p \in Pids, Exit(p)
      PROVE  (TypeOK /\ ScansAreDated /\ RowsAreOfTheScan)'
  <2>1. /\ UNCHANGED <<born, sessions, scanning, snap, autoFirstSeen, rows, hooks>>
        /\ processes' = [q \in DOMAIN processes \ {p} |->
                            IF processes[q].ppid = p THEN [processes[q] EXCEPT !.ppid = 0]
                            ELSE processes[q]]
    BY <1>4 DEF Exit, shown
  <2>2. /\ DOMAIN processes \subseteq Pids
        /\ \A q \in DOMAIN processes : processes[q] \in Process
    BY DEF Tables
  <2>3. ASSUME NEW x \in Process
        PROVE  /\ [x EXCEPT !.ppid = 0] \in Process
               /\ [x EXCEPT !.ppid = 0].start = x.start
    BY DEF Process
  <2>4. /\ DOMAIN processes' = DOMAIN processes \ {p}
        /\ \A q \in DOMAIN processes' : /\ processes'[q] \in Process
                                        /\ processes'[q].start = processes[q].start
    BY <2>1, <2>2, <2>3
  <2>5. processes' \in [DOMAIN processes \ {p} -> Process]
    BY <2>1, <2>2, <2>3
  <2>6. processes' \in Tables
    BY <2>2, <2>5 DEF Tables
  <2>7. ScansAreDated'
    BY <2>1, <2>4 DEF ScansAreDated, Dated
  <2> QED
    BY <1>2, <2>1, <2>6, <2>7 DEF shown
<1>5. ASSUME NEW id \in Sessions, NEW session \in [rootPid : Pids, ended : BOOLEAN],
             Hook(id, session)
      PROVE  (TypeOK /\ ScansAreDated /\ RowsAreOfTheScan)'
  <2>1. /\ hooks' \in 0 .. MaxHooks
        /\ UNCHANGED <<processes, born, scanning, snap, autoFirstSeen, rows>>
        /\ sessions' = [i \in DOMAIN sessions \cup {id} |->
                           IF i = id THEN session ELSE sessions[i]]
    BY <1>1, <1>5 DEF Hook, os, shown
  <2>2. /\ DOMAIN sessions' \subseteq Sessions
        /\ \A i \in DOMAIN sessions' : sessions'[i] \in [rootPid : Pids, ended : BOOLEAN]
    BY <2>1
  <2>3. ScansAreDated'
    BY <2>1 DEF ScansAreDated, Dated
  <2> QED
    BY <1>2, <2>1, <2>2, <2>3 DEF shown
<1>6. ASSUME NEW id \in Sessions, NEW p \in Pids, SessionStart(id, p)
      PROVE  (TypeOK /\ ScansAreDated /\ RowsAreOfTheScan)'
  <2>1. [rootPid |-> p, ended |-> FALSE] \in [rootPid : Pids, ended : BOOLEAN]
    OBVIOUS
  <2> QED
    BY <1>5, <1>6, <2>1 DEF SessionStart
<1>7. ASSUME NEW id \in Sessions, SessionEnd(id)
      PROVE  (TypeOK /\ ScansAreDated /\ RowsAreOfTheScan)'
  <2>1. [sessions[id] EXCEPT !.ended = TRUE] \in [rootPid : Pids, ended : BOOLEAN]
    BY <1>7 DEF SessionEnd
  <2> QED
    BY <1>5, <1>7, <2>1 DEF SessionEnd
<1>8. CASE TickScan
  <2>1. /\ scanning' = [ongoing |-> TRUE, began |-> processes]
        /\ UNCHANGED <<processes, born, sessions, snap, autoFirstSeen, rows, hooks>>
    BY <1>8 DEF TickScan, os, shown
  <2>2. ScansAreDated'
    BY <2>1 DEF ScansAreDated, Dated
  <2> QED
    BY <1>2, <2>1, <2>2 DEF shown
<1>9. CASE TickLocked
  BY <1>9, TickMakesRows
<1>10. CASE UNCHANGED vars
  <2>1. UNCHANGED <<processes, born, sessions, scanning, snap, autoFirstSeen, rows, hooks>>
    BY <1>10 DEF vars, os, shown
  <2> QED
    BY <1>2, <2>1 DEF shown, ScansAreDated, Dated
<1> QED
  BY <1>3, <1>4, <1>6, <1>7, <1>8, <1>9, <1>10 DEF Next

-----------------------------------------------------------------------------
(* The theorems *)

(* Every reachable state has the types, the dates and the rows above. *)
LEMMA DiscoveryInvariant == Spec => [](TypeOK /\ ScansAreDated /\ RowsAreOfTheScan)
<1>1. Init => TypeOK /\ ScansAreDated /\ RowsAreOfTheScan
  BY InitDiscovery
<1>2. /\ TypeOK /\ ScansAreDated /\ RowsAreOfTheScan
      /\ [Next]_vars
      => (TypeOK /\ ScansAreDated /\ RowsAreOfTheScan)'
  BY NextDiscovery
<1> QED
  BY <1>1, <1>2, PTL DEF Spec

(* Every variable holds a value of its kind. *)
THEOREM TypeCorrect == Spec => []TypeOK
BY DiscoveryInvariant, PTL

(* No process counts for two auto-discovered rows, whatever a scan made of *)
(* a machine that changed under it: two trees that meet are one inside the *)
(* other, and a match inside another match's tree is no root.              *)
THEOREM TreesAreDisjoint == Spec => []AutoTreesAreDisjoint
<1>1. TypeOK /\ RowsAreOfTheScan => AutoTreesAreDisjoint
  <2> SUFFICES ASSUME TypeOK, RowsAreOfTheScan,
                      NEW p \in Discovered, NEW q \in Discovered, p # q,
                      PidsOf(p) \cap PidsOf(q) # {}
               PROVE  FALSE
    BY DEF AutoTreesAreDisjoint
  <2>1. snap \in Tables
    BY DEF TypeOK
  <2> DEFINE exclude == UNION {PidsOf(id) : id \in Announced}
  <2>2. p \in FindRoots(snap, exclude) /\ q \in FindRoots(snap, exclude)
    BY DEF RowsAreOfTheScan
  <2> HIDE DEF exclude
  <2>3. p \notin buildTree(snap, q) /\ q \notin buildTree(snap, p)
    BY <2>1, <2>2, RootsAreOnTop
  <2>4. buildTree(snap, p) \cap buildTree(snap, q) # {}
    BY DEF RowsAreOfTheScan
  <2> QED
    BY <2>1, <2>3, <2>4, TreesMeet
<1> QED
  BY <1>1, DiscoveryInvariant, PTL

(* Where a hook's session and an auto-discovered one share a process, all  *)
(* of the first is below the second's root: the root is in no tree that a  *)
(* hook announced, so of the two trees it is the outer one.                *)
THEOREM OverlapsAreAbove == Spec => []OverlapsStartAboveTheHook
<1>1. TypeOK /\ RowsAreOfTheScan => OverlapsStartAboveTheHook
  <2> SUFFICES ASSUME TypeOK, RowsAreOfTheScan,
                      NEW id \in Announced, NEW p \in Discovered,
                      PidsOf(id) \cap PidsOf(p) # {}
               PROVE  PidsOf(id) \subseteq PidsOf(p) \ {p}
    BY DEF OverlapsStartAboveTheHook, Announced
  <2>1. snap \in Tables
    BY DEF TypeOK
  <2>2. PICK root \in Pids : PidsOf(id) = buildTree(snap, root)
    BY DEF RowsAreOfTheScan
  <2>3. PidsOf(p) = buildTree(snap, p)
    BY DEF RowsAreOfTheScan
  <2>4. p \notin PidsOf(id)
    <3> DEFINE exclude == UNION {PidsOf(i) : i \in Announced}
    <3>1. p \in FindRoots(snap, exclude)
      BY DEF RowsAreOfTheScan
    <3>2. PidsOf(id) \subseteq exclude
      OBVIOUS
    <3> HIDE DEF exclude
    <3>3. p \notin exclude
      BY <3>1 DEF FindRoots, Matched
    <3> QED
      BY <3>2, <3>3
  <2>5. buildTree(snap, root) \cap buildTree(snap, p) # {}
    BY <2>2, <2>3
  <2>6. root \in buildTree(snap, p)
    BY <2>1, <2>2, <2>4, <2>5, TreesMeet
  <2> QED
    BY <2>1, <2>2, <2>3, <2>4, <2>6, TreesNest
<1> QED
  BY <1>1, DiscoveryInvariant, PTL

(* Every agent a scan found is in the tree of some row, unless processes   *)
(* above it are each other's ancestors: of the matches above it, the one   *)
(* with the largest tree is a root.                                        *)
THEOREM AgentsAreShown == Spec => []EveryAgentIsShown
<1>1. TypeOK /\ RowsAreOfTheScan => EveryAgentIsShown
  <2> DEFINE above(p) == {a \in DOMAIN snap : p \in buildTree(snap, a)}
             circular(a) == \E b \in above(a) \ {a} : a \in above(b)
  <2> SUFFICES ASSUME TypeOK, RowsAreOfTheScan,
                      NEW p \in DOMAIN snap, snap[p].command \in Agents,
                      \A a \in above(p) : ~ circular(a)
               PROVE  \E id \in DOMAIN rows : p \in PidsOf(id)
    BY DEF EveryAgentIsShown
  <2>1. snap \in Tables
    BY DEF TypeOK
  <2> DEFINE exclude == UNION {PidsOf(id) : id \in Announced}
  <2>2. CASE p \in exclude
    BY <2>2 DEF Announced
  <2>3. CASE p \notin exclude
    <3>1. \A a, b \in DOMAIN snap :
             p \in buildTree(snap, a) /\ a \in buildTree(snap, b) /\ b \in buildTree(snap, a)
                => a = b
      <4>1. ASSUME NEW a \in DOMAIN snap, NEW b \in DOMAIN snap,
                   p \in buildTree(snap, a),
                   a \in buildTree(snap, b), b \in buildTree(snap, a)
            PROVE  a = b
        <5>1. a \in above(p)
          BY <4>1
        <5>2. a \in above(b)
          BY <4>1
        <5>3. b \in above(a)
          BY <4>1
        <5> HIDE DEF above
        <5> QED
          BY <5>1, <5>2, <5>3
      <4> QED
        BY <4>1
    <3>2. p \in Matched(snap, exclude)
      BY <2>3 DEF Matched
    <3>3. Discovered = FindRoots(snap, exclude)
      BY DEF RowsAreOfTheScan
    <3> HIDE DEF exclude
    <3>4. PICK r \in FindRoots(snap, exclude) : p \in buildTree(snap, r)
      BY <2>1, <3>1, <3>2, MatchIsBelowARoot
    <3>5. p \in PidsOf(r)
      BY <3>3, <3>4 DEF RowsAreOfTheScan
    <3> QED
      BY <3>3, <3>4, <3>5 DEF Discovered
  <2> QED
    BY <2>2, <2>3
<1> QED
  BY <1>1, DiscoveryInvariant, PTL

(* An auto-discovered session is dated before its process started only     *)
(* where the pid was a root at the Tick before: dates of other pids are    *)
(* gone by then, and a new date is not before what the scan found.         *)
THEOREM DatesEndWithTheirTick == Spec => OldDatesEndWithTheirTick
<1> DEFINE Kept == \A p \in DOMAIN autoFirstSeen' :
                      p \in DOMAIN snap' /\ autoFirstSeen'[p] < snap'[p].start
                         => p \in Discovered
<1>1. ASSUME TypeOK, ScansAreDated, RowsAreOfTheScan, [Next]_vars
      PROVE  [Kept]_<<snap, autoFirstSeen>>
  <2>1. CASE TickLocked
    <3>1. PICK scan \in Scans,
               pruned \in SUBSET {id \in DOMAIN sessions : sessions[id].ended} :
             LET tracked == [id \in DOMAIN sessions \ pruned |-> sessions[id]]
                 roots == FindRoots(scan, Attributed(scan, tracked))
             IN  snap' = scan /\ autoFirstSeen' = FirstSeen(roots)
      BY <2>1 DEF TickLocked
    <3> DEFINE tracked == [id \in DOMAIN sessions \ pruned |-> sessions[id]]
               roots == FindRoots(scan, Attributed(scan, tracked))
    <3>2. snap' = scan /\ autoFirstSeen' = FirstSeen(roots)
      BY <3>1
    <3> HIDE DEF tracked, roots
    <3>3. scan \in Tables /\ Dated(scan)
      BY <1>1, ScansAreTables DEF TypeOK
    <3>4. born \in Nat /\ \A p \in DOMAIN scan : scan[p].start \in Nat
      BY <1>1, <3>3, DiscoveryAssumption DEF TypeOK, Times, Tables, Process
    <3> SUFFICES ASSUME NEW p \in roots, p \in DOMAIN scan,
                        FirstSeen(roots)[p] < scan[p].start, p \notin Discovered
                 PROVE  FALSE
      BY <3>2 DEF FirstSeen
    <3>5. FirstSeen(roots)[p] = born
      BY <1>1 DEF FirstSeen, RowsAreOfTheScan
    <3>6. scan[p].start <= born
      BY <3>3 DEF Dated
    <3> QED
      BY <3>4, <3>5, <3>6
  <2>2. CASE UNCHANGED <<snap, autoFirstSeen>>
    BY <2>2
  <2>3. \/ TickLocked
        \/ UNCHANGED <<snap, autoFirstSeen>>
    BY <1>1 DEF Next, Spawn, Exit, SessionStart, SessionEnd, Hook, TickScan, vars, shown
  <2> QED
    BY <2>1, <2>2, <2>3
<1> QED
  BY <1>1, DiscoveryInvariant, PTL DEF Spec, OldDatesEndWithTheirTick
=============================================================================
