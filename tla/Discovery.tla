----------------------------- MODULE Discovery -----------------------------
(***************************************************************************)
(* The process rows of Tick: one for each session that hooks announced,    *)
(* with the tree below its root pid, and one for each root auto-discovery  *)
(* finds elsewhere.  Processes start, exit, lose their parents and reuse   *)
(* pids at any time, also while the scan reads them one after the other,   *)
(* and hooks come late or not at all.                                      *)
(*                                                                         *)
(* Time is counted in processes: a process's number is when it started.    *)
(* A row of auto-discovery started at its autoFirstSeen.  Ports, sizes and *)
(* findings of a tree are left out, and so are a row's other fields.       *)
(***************************************************************************)
EXTENDS ProcessTree

CONSTANTS Sessions,     \* ids of sessions that hooks announce
          Tool,         \* what a process that is no agent runs
          MaxBorn,      \* bound: processes in all
          MaxHooks      \* bound: hook events

ASSUME DiscoveryAssumption ==
    /\ Sessions \cap Pids = {}
    /\ Tool \notin Agents
    /\ {MaxBorn, MaxHooks} \subseteq Nat

VARIABLES
    processes,      \* OS: the running processes
    born,           \* processes so far
    sessions,       \* d.sessions: the root pid of each, and whether it ended
    scanning,       \* the processes when the Tick in progress began to scan
    snap,           \* what the last Tick's scan found
    autoFirstSeen,  \* d.autoFirstSeen
    rows,           \* d.processSessions
    hooks           \* hook events so far

os == <<processes, born>>
shown == <<snap, autoFirstSeen, rows>>
vars == <<processes, born, sessions, scanning, snap, autoFirstSeen, rows, hooks>>

-----------------------------------------------------------------------------
Times == 0 .. MaxBorn
Process == [ppid : Pids \cup {0}, command : Agents \cup {Tool}, start : 1 .. MaxBorn]
Tables == UNION {[P -> Process] : P \in SUBSET Pids}

Identity == [pid : Pids, start : 1 .. MaxBorn]
Row == [scope : {"owned", "shared"},
        attribution : {"confirmed", "probable", "shared"},
        tree : SUBSET Identity]

Idle == [ongoing |-> FALSE, began |-> <<>>]

Init ==
    /\ processes = <<>>
    /\ born = 0
    /\ sessions = <<>>
    /\ scanning = Idle
    /\ snap = <<>>
    /\ autoFirstSeen = <<>>
    /\ rows = <<>>
    /\ hooks = 0

-----------------------------------------------------------------------------
(* The machine *)

Spawn(p) ==
    /\ p \notin DOMAIN processes
    /\ born < MaxBorn
    /\ born' = born + 1
    /\ \E parent \in {0} \cup DOMAIN processes, command \in Agents \cup {Tool} :
          processes' = [q \in DOMAIN processes \cup {p} |->
                           IF q = p THEN [ppid |-> parent, command |-> command,
                                          start |-> born']
                           ELSE processes[q]]
    /\ UNCHANGED <<sessions, scanning, shown, hooks>>

(* Children of a process that exits get another parent. *)
Exit(p) ==
    /\ p \in DOMAIN processes
    /\ processes' = [q \in DOMAIN processes \ {p} |->
                        IF processes[q].ppid = p THEN [processes[q] EXCEPT !.ppid = 0]
                        ELSE processes[q]]
    /\ UNCHANGED <<born, sessions, scanning, shown, hooks>>

-----------------------------------------------------------------------------
(* HandleEvent, as far as rows depend on it *)

Hook(id, session) ==
    /\ hooks < MaxHooks
    /\ hooks' = hooks + 1
    /\ sessions' = [i \in DOMAIN sessions \cup {id} |->
                       IF i = id THEN session ELSE sessions[i]]
    /\ UNCHANGED <<os, scanning, shown>>

(* session_start names the agent's pid.  That it may exit before the event *)
(* is handled makes no difference to the Ticks that follow.                *)
SessionStart(id, p) ==
    /\ p \in DOMAIN processes
    /\ Hook(id, [rootPid |-> p, ended |-> FALSE])

SessionEnd(id) ==
    /\ id \in DOMAIN sessions
    /\ Hook(id, [sessions[id] EXCEPT !.ended = TRUE])

-----------------------------------------------------------------------------
(* Tick *)

TickScan ==
    /\ ~ scanning.ongoing
    /\ scanning' = [ongoing |-> TRUE, began |-> processes]
    /\ UNCHANGED <<os, sessions, shown, hooks>>

(* Some processes were read when the scan began, the others when it ended. *)
Scans ==
    LET table(early, p) == IF p \in early THEN scanning.began ELSE processes
    IN  {[p \in {q \in Pids : q \in DOMAIN table(early, q)} |-> table(early, p)[p]] :
            early \in SUBSET Pids}

TreeOf(scan, pid) ==
    {[pid |-> p, start |-> scan[p].start] : p \in buildTree(scan, pid)}

(* What the trees of the sessions that hooks announced hold. *)
Attributed(scan, tracked) ==
    UNION {buildTree(scan, tracked[id].rootPid) : id \in DOMAIN tracked}

HookRow(scan, session) ==
    [scope |-> "owned", attribution |-> "confirmed",
     tree |-> TreeOf(scan, session.rootPid)]

AutoRow(scan, pid) ==
    LET scope == resourceScopeForAgent(scan[pid].command)
    IN  [scope |-> scope,
         attribution |-> IF scope = "shared" THEN "shared" ELSE "probable",
         tree |-> TreeOf(scan, pid)]

(* Fault: pids that are no roots any more are not forgotten. *)
FirstSeenEver(roots) ==
    [p \in roots \cup DOMAIN autoFirstSeen |->
        IF p \in DOMAIN autoFirstSeen THEN autoFirstSeen[p] ELSE born]

(* A pid that was a root at the Tick before keeps its time, the others go. *)
FirstSeen(roots) ==
    [p \in roots |-> IF p \in DOMAIN autoFirstSeen THEN autoFirstSeen[p] ELSE born]

(* Ended sessions go when their grace period is over (see SessionTracker). *)
TickLocked ==
    /\ scanning.ongoing
    /\ scanning' = Idle
    /\ \E scan \in Scans,
          pruned \in SUBSET {id \in DOMAIN sessions : sessions[id].ended} :
          LET tracked == [id \in DOMAIN sessions \ pruned |-> sessions[id]]
              roots == FindRoots(scan, Attributed(scan, tracked))
          IN  /\ sessions' = tracked
              /\ snap' = scan
              /\ autoFirstSeen' = FirstSeen(roots)
              /\ rows' = [id \in DOMAIN tracked \cup roots |->
                             IF id \in DOMAIN tracked THEN HookRow(scan, tracked[id])
                             ELSE AutoRow(scan, id)]
    /\ UNCHANGED <<os, hooks>>

-----------------------------------------------------------------------------
Next ==
    \/ \E p \in Pids : Spawn(p) \/ Exit(p)
    \/ \E id \in Sessions, p \in Pids : SessionStart(id, p)
    \/ \E id \in Sessions : SessionEnd(id)
    \/ TickScan \/ TickLocked

Spec == Init /\ [][Next]_vars

-----------------------------------------------------------------------------
(* What must be true of it *)

(* Every variable holds a value of its kind. *)
TypeOK ==
    /\ processes \in Tables
    /\ born \in Times
    /\ DOMAIN sessions \subseteq Sessions
    /\ \A id \in DOMAIN sessions :
          sessions[id] \in [rootPid : Pids, ended : BOOLEAN]
    /\ scanning \in [ongoing : BOOLEAN, began : Tables]
    /\ snap \in Tables
    /\ DOMAIN autoFirstSeen \subseteq Pids
    /\ \A p \in DOMAIN autoFirstSeen : autoFirstSeen[p] \in Times
    /\ DOMAIN rows \subseteq Sessions \cup Pids
    /\ \A id \in DOMAIN rows : rows[id] \in Row
    /\ hooks \in 0 .. MaxHooks

Discovered == DOMAIN rows \cap Pids
PidsOf(id) == {process.pid : process \in rows[id].tree}

(* No process counts for two auto-discovered rows, even when the scan is   *)
(* of a table that never was.                                              *)
AutoTreesAreDisjoint ==
    \A p, q \in Discovered : p # q => PidsOf(p) \cap PidsOf(q) = {}

(* Every agent the last scan found is in the tree of some row, unless the  *)
(* scan has processes above it in a circle.                                *)
EveryAgentIsShown ==
    LET above(p) == {a \in DOMAIN snap : p \in buildTree(snap, a)}
        circular(a) == \E b \in above(a) \ {a} : a \in above(b)
    IN  \A p \in DOMAIN snap :
            snap[p].command \in Agents /\ (\A a \in above(p) : ~ circular(a))
                => \E id \in DOMAIN rows : p \in PidsOf(id)

(* A process is listed below a hook's session and below an auto-discovered *)
(* root only where that root is above the session's own root: a root is    *)
(* never looked for inside what hooks announced.                           *)
OverlapsStartAboveTheHook ==
    \A id \in DOMAIN rows \ Pids, p \in Discovered :
        PidsOf(id) \cap PidsOf(p) # {} => PidsOf(id) \subseteq PidsOf(p) \ {p}

(* Tick's comment (daemon.go:313): attributed holds every pid covered by a *)
(* hook's session, so that auto-discovery never lists one twice.           *)
NeverDoubleListed ==
    \A id \in DOMAIN rows \ Pids, p \in Discovered : PidsOf(id) \cap PidsOf(p) = {}

(* An auto-discovered session is dated before its process started only if  *)
(* the pid was a root at the Tick before too, and changed hands in between.*)
OldDatesEndWithTheirTick ==
    [][\A p \in DOMAIN autoFirstSeen' :
          p \in DOMAIN snap' /\ autoFirstSeen'[p] < snap'[p].start
             => p \in Discovered]_<<snap, autoFirstSeen>>
=============================================================================
