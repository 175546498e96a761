-------------------------- MODULE Clients_proofs --------------------------
(***************************************************************************)
(* Theorems about what the daemon's clients rely on: the dashboard they    *)
(* are served (Dashboard), for every number of concurrent requests, and    *)
(* the command they stop a session with (StopSession), for every set of    *)
(* sessions, terminals and pids.                                           *)
(***************************************************************************)
EXTENDS Dashboard, StopSession, Sequences, FiniteSetTheorems, SequenceTheorems, TLAPS

-----------------------------------------------------------------------------
(* Types of Dashboard *)

(* What stands for nothing in progress, and a composed dashboard, are of   *)
(* the right kind.                                                         *)
LEMMA ZeroTypes ==
    /\ 0 \in Versions
    /\ NoSnapshot \in Snapshot
    /\ Idle \in Publisher
    /\ \A ps, us, ts \in Versions : Composed(ps, us, ts) \in Rows
<1>1. 0 \in Versions
  BY DashboardAssumption DEF Versions
<1>2. NoSnapshot \in Snapshot
  BY <1>1 DEF NoSnapshot, Snapshot, Rows
<1>3. Idle \in Publisher
  BY <1>1, <1>2 DEF Idle, Publisher
<1>4. \A ps, us, ts \in Versions : Composed(ps, us, ts) \in Rows
  BY DEF Composed, Rows
<1> QED
  BY <1>1, <1>2, <1>3, <1>4

(* Initially every variable has its type. *)
LEMMA InitTypeOK == Init => TypeOK
<1> SUFFICES ASSUME Init PROVE TypeOK
  OBVIOUS
<1>1. stored \in State
  BY ZeroTypes DEF Init, State
<1>2. requests \in [Requests -> Publisher]
  BY ZeroTypes DEF Init
<1>3. faults \in 0 .. MaxFaults /\ stops \in 0 .. MaxStops
  BY DashboardAssumption DEF Init
<1> QED
  BY <1>1, <1>2, <1>3, ZeroTypes DEF Init, TypeOK

(* A write to the state database leaves it of its type, done or not. *)
LEMMA PutType ==
    ASSUME TypeOK, NEW state \in State, Put(state)
    PROVE  stored' \in State /\ faults' \in 0 .. MaxFaults
  BY DashboardAssumption DEF Put, TypeOK

(* Every step keeps every variable in its type. *)
LEMMA NextTypeOK == TypeOK /\ [Next]_vars => TypeOK'
<1> SUFFICES ASSUME TypeOK, [Next]_vars PROVE TypeOK'
  OBVIOUS
<1> USE DEF TypeOK, inputs, memory
<1>1. CASE ProcessesChange
  BY <1>1, DashboardAssumption DEF ProcessesChange, Versions
<1>2. CASE TranscriptsChange
  BY <1>2, DashboardAssumption DEF TranscriptsChange, Versions
<1>3. CASE TickScan
  <2>1. tick' \in Publisher
    BY <1>3 DEF TickScan, Publisher
  <2> QED
    BY <1>3, <2>1 DEF TickScan
<1>4. CASE TickLocked
  <2>1. tick.input \in Versions /\ snapshot.projects \in Versions
    BY DEF Publisher, Snapshot
  <2>2. snapshot' \in Snapshot
    BY <1>4, <2>1, ZeroTypes DEF TickLocked, Snapshot
  <2>3. tick' \in Publisher
    BY <1>4, <2>2 DEF TickLocked, Publisher
  <2> QED
    BY <1>4, <2>1, <2>2, <2>3 DEF TickLocked
<1>5. CASE TickPut
  <2>1. [stored EXCEPT !.snapshot = tick.copy] \in State
    BY DEF State, Publisher
  <2> QED
    BY <1>5, <2>1, PutType, ZeroTypes DEF TickPut, PutSnapshot
<1>6. CASE UsageScan
  <2>1. refresh' \in Publisher
    BY <1>6 DEF UsageScan, Publisher
  <2> QED
    BY <1>6, <2>1 DEF UsageScan
<1>7. CASE PutUsageSources
  <2>1. [stored EXCEPT !.usage = refresh.input] \in State
    BY DEF State, Publisher
  <2>2. refresh' \in Publisher
    BY <1>7 DEF PutUsageSources, Publisher
  <2> QED
    BY <1>7, <2>1, <2>2, PutType DEF PutUsageSources
<1>8. CASE UsageLocked
  <2>1. refresh.input \in Versions
    BY DEF Publisher
  <2>2. snapshot' \in Snapshot
    BY <1>8, <2>1, ZeroTypes DEF UsageLocked, Snapshot
  <2>3. refresh' \in Publisher
    BY <1>8, <2>2 DEF UsageLocked, Publisher
  <2> QED
    BY <1>8, <2>1, <2>2, <2>3 DEF UsageLocked
<1>9. CASE UsagePut
  <2>1. [stored EXCEPT !.snapshot = refresh.copy] \in State
    BY DEF State, Publisher
  <2> QED
    BY <1>9, <2>1, PutType, ZeroTypes DEF UsagePut, PutSnapshot
<1>10. ASSUME NEW r \in Requests, Ingest(r) PROVE TypeOK'
  <2>1. telemetrySessions' \in Versions
    BY <1>10, DashboardAssumption DEF Ingest, Versions
  <2>2. Composed(processSessions, usageSources, telemetrySessions') \in Rows
    BY <2>1, ZeroTypes
  <2>3. snapshot' \in Snapshot
    BY <1>10, <2>2 DEF Ingest, Snapshot
  <2>4. [pc |-> "index", copy |-> snapshot', input |-> telemetrySessions']
           \in Publisher
    BY <2>1, <2>3 DEF Publisher
  <2>5. requests' \in [Requests -> Publisher]
    BY <1>10, <2>4 DEF Ingest
  <2> QED
    BY <1>10, <2>1, <2>3, <2>5 DEF Ingest
<1>11. ASSUME NEW r \in Requests, PutTelemetrySessions(r) PROVE TypeOK'
  <2>1. [stored EXCEPT !.telemetry = requests[r].input] \in State
    BY DEF State, Publisher
  <2>2. [requests[r] EXCEPT !.pc = "put"] \in Publisher
    BY DEF Publisher
  <2>3. requests' \in [Requests -> Publisher]
    BY <1>11, <2>2, ZeroTypes DEF PutTelemetrySessions
  <2> QED
    BY <1>11, <2>1, <2>3, PutType DEF PutTelemetrySessions
<1>12. ASSUME NEW r \in Requests, IngestPut(r) PROVE TypeOK'
  <2>1. [stored EXCEPT !.snapshot = requests[r].copy] \in State
    BY DEF State, Publisher
  <2>2. requests' \in [Requests -> Publisher]
    BY <1>12, ZeroTypes DEF IngestPut
  <2> QED
    BY <1>12, <2>1, <2>2, PutType DEF IngestPut, PutSnapshot
<1>13. CASE Stop
  <2>1. requests' \in [Requests -> Publisher]
    BY <1>13, ZeroTypes DEF Stop
  <2>2. stops' \in 0 .. MaxStops
    BY <1>13, DashboardAssumption DEF Stop
  <2> QED
    BY <1>13, <2>1, <2>2, ZeroTypes DEF Stop
<1>14. CASE New
  BY <1>14 DEF New, State
<1>15. CASE UNCHANGED vars
  BY <1>15 DEF vars
<1> QED
  BY <1>1, <1>2, <1>3, <1>4, <1>5, <1>6, <1>7, <1>8, <1>9, <1>10, <1>11,
     <1>12, <1>13, <1>14, <1>15
     DEF Next, RunLoop, RunUsageLoop, Serve

(* Type correctness: whatever the publishers, the state database and the   *)
(* restarts do, every variable keeps a value of its kind.                  *)
THEOREM TypeCorrect == Spec => []TypeOK
<1>1. Init => TypeOK
  BY InitTypeOK
<1>2. TypeOK /\ [Next]_vars => TypeOK'
  BY NextTypeOK
<1> QED
  BY <1>1, <1>2, PTL DEF Spec

-----------------------------------------------------------------------------
(* The order in which the parts of the dashboard grow *)

(* Memory holds no more than there is, and what a publisher has gathered   *)
(* is no older than what it will replace: a Tick's scan at least what the  *)
(* last one found, a refresh's usage at least what memory, and so what a   *)
(* restart from the state database, already has.                           *)
InputsAreFresh ==
    /\ tick.pc = "scanned" => processSessions <= tick.input
    /\ refresh.pc \in {"index", "scanned"} => usageSources <= refresh.input
    /\ processSessions <= processes /\ tick.input <= processes
    /\ usageSources <= transcripts /\ refresh.input <= transcripts
    /\ stored.usage <= transcripts

(* The dashboard was composed from what memory held. *)
SnapshotIsOfMemory ==
    /\ snapshot.rows.processes <= processSessions
    /\ snapshot.rows.usage <= usageSources
    /\ snapshot.rows.telemetry <= telemetrySessions
    /\ snapshot.projects <= usageSources

(* A daemon that is down has no dashboard and no publisher at work. *)
DownIsBlank ==
    ~ up => /\ snapshot = NoSnapshot
            /\ tick = Idle /\ refresh = Idle
            /\ requests = [r \in Requests |-> Idle]

OrderInv ==
    /\ TypeOK
    /\ InputsAreFresh
    /\ SnapshotIsOfMemory
    /\ DownIsBlank

(* What the types say of the versions: all of them can be compared. *)
LEMMA VersionsCompare ==
    ASSUME TypeOK
    PROVE  /\ Versions \subseteq Nat
           /\ snapshot = [generated |-> snapshot.generated,
                          projects |-> snapshot.projects,
                          rows |-> snapshot.rows]
           /\ snapshot.rows = [processes |-> snapshot.rows.processes,
                               usage |-> snapshot.rows.usage,
                               telemetry |-> snapshot.rows.telemetry]
           /\ snapshot.projects \in Nat
           /\ snapshot.rows.processes \in Nat
           /\ snapshot.rows.usage \in Nat
           /\ snapshot.rows.telemetry \in Nat
           /\ tick.input \in Nat /\ refresh.input \in Nat
           /\ {processes, transcripts, processSessions, usageSources,
               telemetrySessions, stored.usage} \subseteq Nat
  BY DashboardAssumption
     DEF TypeOK, Versions, Snapshot, Rows, Publisher, State

(* Initially everything is at version 0. *)
LEMMA InitOrder == Init => OrderInv
<1> SUFFICES ASSUME Init PROVE OrderInv
  OBVIOUS
<1>1. TypeOK
  BY InitTypeOK
<1> QED
  BY <1>1 DEF Init, OrderInv, InputsAreFresh, SnapshotIsOfMemory, DownIsBlank,
              Idle, NoSnapshot

(* Every step keeps the order; a step of a publisher because only that     *)
(* publisher replaces the part, and gathered its input after it last did.  *)
LEMMA NextOrder == OrderInv /\ [Next]_vars => OrderInv'
<1> SUFFICES ASSUME OrderInv, [Next]_vars PROVE OrderInv'
  OBVIOUS
<1>0. TypeOK /\ TypeOK'
  BY NextTypeOK DEF OrderInv
<1> USE <1>0, VersionsCompare
    DEF OrderInv, InputsAreFresh, SnapshotIsOfMemory, DownIsBlank, inputs,
        memory
<1>1. CASE ProcessesChange
  BY <1>1 DEF ProcessesChange
<1>2. CASE TranscriptsChange
  BY <1>2 DEF TranscriptsChange
<1>3. CASE TickScan
  <2>1. tick'.pc = "scanned" /\ tick'.input = processes
    BY <1>3 DEF TickScan, TypeOK, Publisher
  <2> QED
    BY <1>3, <2>1 DEF TickScan
<1>4. CASE TickLocked
  <2>1. /\ snapshot'.rows = Composed(tick.input, usageSources, telemetrySessions)
        /\ snapshot'.projects = snapshot.projects
        /\ processSessions' = tick.input
    BY <1>4 DEF TickLocked
  <2>2. tick'.pc = "put" /\ tick'.input = tick.input
    BY <1>4 DEF TickLocked, TypeOK, Publisher
  <2>3. up
    BY <1>4 DEF TickLocked, Idle
  <2> QED
    BY <1>4, <2>1, <2>2, <2>3 DEF TickLocked, Composed
<1>5. CASE TickPut
  <2>1. stored'.usage = stored.usage
    BY <1>5 DEF TickPut, PutSnapshot, Put, TypeOK, State
  <2> QED
    BY <1>5, <2>1 DEF TickPut, Idle
<1>6. CASE UsageScan
  <2>1. refresh'.pc = "index" /\ refresh'.input = transcripts
    BY <1>6 DEF UsageScan, TypeOK, Publisher
  <2> QED
    BY <1>6, <2>1 DEF UsageScan
<1>7. CASE PutUsageSources
  <2>1. stored'.usage \in {stored.usage, refresh.input}
    BY <1>7 DEF PutUsageSources, Put, TypeOK, State
  <2>2. refresh.pc = "index" /\ refresh'.input = refresh.input
    BY <1>7 DEF PutUsageSources, TypeOK, Publisher
  <2>3. up
    BY <1>7 DEF PutUsageSources, Idle
  <2> QED
    BY <1>7, <2>1, <2>2, <2>3 DEF PutUsageSources
<1>8. CASE UsageLocked
  <2>1. /\ snapshot'.rows = Composed(processSessions, refresh.input,
                                     telemetrySessions)
        /\ snapshot'.projects = refresh.input
        /\ usageSources' = refresh.input
    BY <1>8 DEF UsageLocked
  <2>2. refresh'.pc = "put" /\ refresh'.input = refresh.input
    BY <1>8 DEF UsageLocked, TypeOK, Publisher
  <2>3. up
    BY <1>8 DEF UsageLocked, Idle
  <2> QED
    BY <1>8, <2>1, <2>2, <2>3 DEF UsageLocked, Composed
<1>9. CASE UsagePut
  <2>1. stored'.usage = stored.usage
    BY <1>9 DEF UsagePut, PutSnapshot, Put, TypeOK, State
  <2> QED
    BY <1>9, <2>1 DEF UsagePut, Idle
<1>10. ASSUME NEW r \in Requests, Ingest(r) PROVE OrderInv'
  <2>1. /\ snapshot'.rows = Composed(processSessions, usageSources,
                                     telemetrySessions')
        /\ snapshot'.projects = snapshot.projects
        /\ telemetrySessions' = telemetrySessions + 1
    BY <1>10 DEF Ingest, TypeOK, Snapshot
  <2> QED
    BY <1>10, <2>1 DEF Ingest, Composed
<1>11. ASSUME NEW r \in Requests, PutTelemetrySessions(r) PROVE OrderInv'
  <2>1. stored'.usage = stored.usage
    BY <1>11 DEF PutTelemetrySessions, Put, TypeOK, State
  <2>2. up
    BY <1>11 DEF PutTelemetrySessions, Idle
  <2> QED
    BY <1>11, <2>1, <2>2 DEF PutTelemetrySessions
<1>12. ASSUME NEW r \in Requests, IngestPut(r) PROVE OrderInv'
  <2>1. stored'.usage = stored.usage
    BY <1>12 DEF IngestPut, PutSnapshot, Put, TypeOK, State
  <2>2. up
    BY <1>12 DEF IngestPut, Idle
  <2> QED
    BY <1>12, <2>1, <2>2 DEF IngestPut
<1>13. CASE Stop
  <2>1. 0 <= processes /\ 0 <= transcripts
    BY DEF TypeOK, Versions
  <2> QED
    BY <1>13, <2>1 DEF Stop, Idle, NoSnapshot
<1>14. CASE New
  <2>1. stored.telemetry \in Versions /\ 0 <= stored.telemetry
        /\ 0 <= stored.usage
    BY DEF TypeOK, State, Versions
  <2> QED
    BY <1>14, <2>1 DEF New, Idle, NoSnapshot, TypeOK, Versions
<1>15. CASE UNCHANGED vars
  BY <1>15 DEF vars
<1> QED
  BY <1>1, <1>2, <1>3, <1>4, <1>5, <1>6, <1>7, <1>8, <1>9, <1>10, <1>11,
     <1>12, <1>13, <1>14, <1>15
     DEF Next, RunLoop, RunUsageLoop, Serve

(* The order is an invariant. *)
LEMMA OrderIsKept == Spec => []OrderInv
<1>1. Init => OrderInv
  BY InitOrder
<1>2. OrderInv /\ [Next]_vars => OrderInv'
  BY NextOrder
<1> QED
  BY <1>1, <1>2, PTL DEF Spec

(* Under the order, what a step composes is no older than what was there. *)
LEMMA StepGoesForward ==
    ASSUME OrderInv, Next, up, up'
    PROVE  /\ snapshot'.projects >= snapshot.projects
           /\ \A part \in DOMAIN snapshot.rows :
                 snapshot'.rows[part] >= snapshot.rows[part]
<1>0. TypeOK
  BY DEF OrderInv
<1> USE <1>0, VersionsCompare
    DEF OrderInv, InputsAreFresh, SnapshotIsOfMemory
<1>1. DOMAIN snapshot.rows = {"processes", "usage", "telemetry"}
  BY DEF TypeOK, Snapshot, Rows
<1>2. snapshot' = snapshot \/ TickLocked \/ UsageLocked
      \/ \E r \in Requests : Ingest(r)
  <2> USE DEF memory
  <2>1. CASE ProcessesChange \/ TranscriptsChange \/ TickScan \/ TickPut
             \/ UsageScan \/ PutUsageSources \/ UsagePut
    BY <2>1 DEF ProcessesChange, TranscriptsChange, TickScan, TickPut,
                UsageScan, PutUsageSources, UsagePut
  <2>2. ASSUME NEW r \in Requests, Serve(r) PROVE snapshot' = snapshot
    BY <2>2 DEF Serve, PutTelemetrySessions, IngestPut
  <2>3. ~ Stop /\ ~ New
    BY DEF Stop, New
  <2> QED
    BY <2>1, <2>2, <2>3 DEF Next, RunLoop, RunUsageLoop
<1>3. CASE snapshot' = snapshot
  BY <1>1, <1>3
<1>4. CASE TickLocked
  BY <1>1, <1>4 DEF TickLocked, Composed
<1>5. CASE UsageLocked
  BY <1>1, <1>5 DEF UsageLocked, Composed
<1>6. ASSUME NEW r \in Requests, Ingest(r)
      PROVE  /\ snapshot'.projects >= snapshot.projects
             /\ \A part \in DOMAIN snapshot.rows :
                   snapshot'.rows[part] >= snapshot.rows[part]
  <2>1. /\ snapshot'.rows = Composed(processSessions, usageSources,
                                     telemetrySessions')
        /\ snapshot'.projects = snapshot.projects
        /\ telemetrySessions' = telemetrySessions + 1
    BY <1>6 DEF Ingest, TypeOK, Snapshot
  <2> QED
    BY <1>1, <2>1 DEF Composed
<1> QED
  BY <1>2, <1>3, <1>4, <1>5, <1>6

(* While the daemon runs, no part of the dashboard in memory goes back to  *)
(* an older state, however Tick, refreshUsage, any number of OTLP requests *)
(* and restarts from an old state database interleave.                     *)
THEOREM PartsGoForward == Spec => NoPartGoesBack
<1>1. ASSUME OrderInv, [Next]_vars
      PROVE  [up /\ up' =>
                 /\ snapshot'.projects >= snapshot.projects
                 /\ \A part \in DOMAIN snapshot.rows :
                       snapshot'.rows[part] >= snapshot.rows[part]]_vars
  BY <1>1, StepGoesForward
<1> QED
  BY <1>1, OrderIsKept, PTL DEF Spec, NoPartGoesBack

-----------------------------------------------------------------------------
(* Types of StopSession *)

(* Under a pid where nothing runs there is nothing. *)
ProcsAreWhole ==
    /\ procs \in [Pids -> Process]
    /\ \A p \in Pids : ~ Alive(p) => procs[p] = NoProcess

(* The least of some pids is one of them. *)
LEMMA LeastIsOne ==
    ASSUME NEW P \in SUBSET Pids, P # {}
    PROVE  Least(P) \in P
<1> DEFINE below(p) == {q \in P : q < p}
           T == {below(p) : p \in P}
<1>1. P \subseteq Nat /\ IsFiniteSet(P)
  BY StopAssumption, FS_Subset
<1>2. IsWellFoundedOn(StrictSubsetOrdering(P), SUBSET P)
  BY <1>1, FS_StrictSubsetOrderingWellFounded, FS_FiniteSubsetsOfFinite
<1>3. T \subseteq SUBSET P /\ T # {}
  OBVIOUS
<1> HIDE DEF T
<1>4. PICK least \in T : \A t \in T : ~ (<<t, least>> \in StrictSubsetOrdering(P))
  BY <1>2, <1>3, WFMin
<1>5. PICK p \in P : least = below(p)
  BY <1>4 DEF T
<1>6. ASSUME NEW q \in P PROVE p <= q
  <2> p \in Nat /\ q \in Nat
    BY <1>1
  <2> SUFFICES ASSUME q < p PROVE FALSE
    OBVIOUS
  <2>1. below(q) \subseteq below(p) /\ q \in below(p) /\ q \notin below(q)
    <3>1. \A r \in P : r \in Nat /\ (r < q => r < p)
      BY <1>1
    <3>2. ~ (q < q)
      OBVIOUS
    <3> QED
      BY <3>1, <3>2
  <2>2. below(q) \in T /\ below(q) \in SUBSET P /\ below(p) \in SUBSET P
    BY DEF T
  <2> HIDE DEF below
  <2> QED
    BY <1>4, <1>5, <2>1, <2>2 DEF StrictSubsetOrdering
<1> QED
  BY <1>6 DEF Least

(* Whatever runs has a number, and trees are made of what runs. *)
LEMMA RunningIsIdentity ==
    ASSUME ProcsAreWhole
    PROVE  /\ \A p \in Pids : Alive(p) => Running(p) \in Identity
           /\ \A root \in Pids \cup {0} : \A x \in Tree(root) :
                 \E p \in Pids : Alive(p) /\ x = Running(p)
           /\ \A root \in Pids \cup {0} : Tree(root) \in SUBSET Identity
<1> MaxBorn \in Nat
  BY StopAssumption
<1>1. ASSUME NEW p \in Pids, Alive(p) PROVE Running(p) \in Identity
  <2>1. procs[p].born \in 0 .. MaxBorn /\ procs[p].born # 0
    BY <1>1 DEF ProcsAreWhole, Process, Alive
  <2>2. procs[p].born \in 1 .. MaxBorn
    BY <2>1
  <2> QED
    BY <2>2 DEF Running, Identity
<1>2. ASSUME NEW root \in Pids \cup {0}, NEW x \in Tree(root)
      PROVE  \E p \in Pids : Alive(p) /\ x = Running(p)
  <2>1. root # 0 /\ Alive(root) /\ root \in Pids
    BY <1>2 DEF Tree
  <2>2. \A c \in Pids : procs[c].parent = root => Alive(c)
    BY <2>1 DEF ProcsAreWhole, NoProcess
  <2>3. Tree(root) = {Running(p) : p \in {root} \cup {c \in Pids : procs[c].parent = root}}
    BY <2>1 DEF Tree
  <2>4. PICK p \in {root} \cup {c \in Pids : procs[c].parent = root} : x = Running(p)
    BY <1>2, <2>3
  <2> QED
    BY <2>1, <2>2, <2>4
<1>3. \A root \in Pids \cup {0} : Tree(root) \in SUBSET Identity
  BY <1>1, <1>2
<1> QED
  BY <1>1, <1>2, <1>3

(* The rows of a Tick belong to hooked or discovered sessions, and are     *)
(* made of what runs.                                                      *)
LEMMA RowsOfTypes ==
    ASSUME ProcsAreWhole, sessions \in [Hooked -> Tracked], NEW kept \in SUBSET Hooked
    PROVE  /\ DOMAIN RowsOf(kept) \subseteq Hooked \cup AutoSessions
           /\ RowsOf(kept) \in [DOMAIN RowsOf(kept) -> SUBSET Identity]
           /\ \A s \in DOMAIN RowsOf(kept) : \A x \in RowsOf(kept)[s] :
                 \E p \in Pids : Alive(p) /\ x = Running(p)
<1> DEFINE attributed == UNION {PidsOf(Tree(sessions[s].root)) : s \in kept}
           found == {s \in AutoSessions : Alive(RootOf[s]) /\ RootOf[s] \notin attributed}
           root(s) == IF s \in kept THEN sessions[s].root ELSE RootOf[s]
<1>1. RowsOf(kept) = [s \in kept \cup found |-> Tree(root(s))]
  BY DEF RowsOf
<1>2. found \subseteq AutoSessions
  OBVIOUS
<1>3. ASSUME NEW s \in kept \cup found PROVE root(s) \in Pids \cup {0}
  <2>1. CASE s \in kept
    BY <2>1 DEF Tracked
  <2>2. CASE s \notin kept
    BY <2>2, <1>2, <1>3, StopAssumption
  <2> QED
    BY <2>1, <2>2
<1> HIDE DEF attributed, found, root
<1>4. \A s \in kept \cup found : /\ Tree(root(s)) \in SUBSET Identity
                                 /\ \A x \in Tree(root(s)) :
                                       \E p \in Pids : Alive(p) /\ x = Running(p)
  BY <1>3, RunningIsIdentity
<1> QED
  BY <1>1, <1>2, <1>4

(* What an exit leaves. *)
LEMMA ExitLeavesProcesses ==
    ASSUME ProcsAreWhole, NEW p \in Pids, procs' = Without(p)
    PROVE  /\ ProcsAreWhole'
           /\ procs'[p] = NoProcess
           /\ \A q \in Pids : procs'[q].born \in {0, procs[q].born}
           /\ \A q \in Pids \ {p} : procs'[q].mine = procs[q].mine
<1>1. 0 \in 0 .. MaxBorn /\ NoProcess \in Process /\ NoProcess.born = 0
  BY StopAssumption DEF NoProcess, Process
<1>2. ASSUME NEW x \in Process
      PROVE  /\ [x EXCEPT !.parent = 0] \in Process
             /\ [x EXCEPT !.parent = 0].born = x.born
             /\ [x EXCEPT !.parent = 0].mine = x.mine
             /\ x = NoProcess => [x EXCEPT !.parent = 0] = NoProcess
  <2>1. /\ [x EXCEPT !.parent = 0] \in Process
        /\ [x EXCEPT !.parent = 0].born = x.born
    BY DEF Process
  <2>2. [x EXCEPT !.parent = 0].mine = x.mine
    BY Zenon DEF Process
  <2>3. [NoProcess EXCEPT !.parent = 0] = NoProcess
    BY SMT DEF NoProcess
  <2> QED
    BY <2>1, <2>2, <2>3, Zenon
<1>3. ASSUME NEW q \in Pids
      PROVE  /\ procs'[q] \in Process /\ (procs'[q].born = 0 => procs'[q] = NoProcess)
             /\ procs'[q].born \in {0, procs[q].born}
             /\ q # p => procs'[q].mine = procs[q].mine
             /\ q = p => procs'[q] = NoProcess
  <2>1. procs[q] \in Process /\ (procs[q].born = 0 => procs[q] = NoProcess)
    BY DEF ProcsAreWhole, Alive
  <2>2. procs'[q] = IF q = p THEN NoProcess
                    ELSE IF procs[q].parent = p THEN [procs[q] EXCEPT !.parent = 0]
                    ELSE procs[q]
    BY DEF Without
  <2> QED
    BY <1>1, <1>2, <2>1, <2>2
<1>4. procs' \in [Pids -> Process]
  <2>1. procs' = [q \in Pids |-> procs'[q]]
    BY DEF Without
  <2> QED
    BY <1>3, <2>1
<1> QED
  BY <1>3, <1>4 DEF ProcsAreWhole, Alive

(* What a start adds. *)
LEMMA StartAddsAProcess ==
    ASSUME ProcsAreWhole, born \in 0 .. MaxBorn, NEW p \in Pids, NEW parent \in Pids \cup {0},
           NEW mine \in BOOLEAN, Spawn(p, parent, mine)
    PROVE  ProcsAreWhole' /\ born' \in 0 .. MaxBorn
<1>1. MaxBorn \in Nat
  BY StopAssumption
<1>2. /\ born' = born + 1 /\ born < MaxBorn
      /\ procs' = [procs EXCEPT ![p] = [born |-> born', parent |-> parent, mine |-> mine]]
  BY DEF Spawn
<1>3. born' \in 0 .. MaxBorn /\ born' # 0
  BY <1>1, <1>2
<1>4. [born |-> born', parent |-> parent, mine |-> mine] \in Process
  BY <1>3 DEF Process
<1> QED
  BY <1>2, <1>3, <1>4 DEF ProcsAreWhole, Alive

(* What no command has is of the right kind. *)
LEMMA NothingIsTyped == AtPrompt \in Command /\ IdleKill \in Request
<1>1. (\E a \in Args : TRUE) /\ (\E s \in Sessions : TRUE)
  BY StopAssumption
<1> QED
  BY <1>1 DEF AtPrompt, Command, IdleKill, Request

(* To begin with the agents run, and the dashboard holds them. *)
LEMMA StopInitTypes == StopInit => StopTypeOK /\ ProcsAreWhole
<1> SUFFICES ASSUME StopInit PROVE StopTypeOK /\ ProcsAreWhole
  OBVIOUS
<1>1. MaxBorn \in Nat /\ MaxCommands \in Nat /\ MaxHooks \in Nat
  BY StopAssumption
<1>2. Agents \subseteq Pids /\ IsFiniteSet(Agents) /\ Cardinality(Agents) \in 0 .. MaxBorn
  <2>1. Agents \subseteq Pids /\ IsFiniteSet(Agents) /\ Cardinality(Agents) <= MaxBorn
    BY StopAssumption, FS_Subset
  <2> QED
    BY <1>1, <2>1, FS_CardinalityType
<1> DEFINE upTo(p) == {q \in Agents : q <= p}
<1>3. ASSUME NEW p \in Agents
      PROVE  Cardinality(upTo(p)) \in 0 .. MaxBorn /\ Cardinality(upTo(p)) # 0
  <2>1. upTo(p) \subseteq Agents /\ p \in upTo(p)
    BY <1>2, StopAssumption
  <2> HIDE DEF upTo
  <2>2. IsFiniteSet(upTo(p)) /\ Cardinality(upTo(p)) <= Cardinality(Agents)
    BY <1>2, <2>1, FS_Subset
  <2>3. Cardinality(upTo(p)) \in Nat /\ Cardinality(upTo(p)) # 0
    BY <2>1, <2>2, FS_CardinalityType, FS_EmptySet
  <2> QED
    BY <1>1, <1>2, <2>2, <2>3
<1>4. procs = [p \in Pids |-> IF p \in Agents
                              THEN [born |-> Cardinality(upTo(p)), parent |-> 0, mine |-> TRUE]
                              ELSE NoProcess]
  BY DEF StopInit
<1> HIDE DEF upTo
<1>5. ProcsAreWhole
  <2>1. NoProcess \in Process
    BY <1>1 DEF NoProcess, Process
  <2>2. \A p \in Agents : [born |-> Cardinality(upTo(p)), parent |-> 0, mine |-> TRUE] \in Process
    BY <1>3 DEF Process
  <2>3. procs \in [Pids -> Process]
    BY <1>4, <2>1, <2>2
  <2>4. \A p \in Pids : procs[p].born = 0 => procs[p] = NoProcess
    BY <1>3, <1>4
  <2> QED
    BY <2>3, <2>4 DEF ProcsAreWhole, Alive
<1>6. sessions \in [Hooked -> Tracked]
  BY DEF StopInit, Untracked, Tracked
<1>7. /\ DOMAIN processRows \subseteq Hooked \cup AutoSessions
      /\ processRows \in [DOMAIN processRows -> SUBSET Identity]
  <2>1. processRows = RowsOf({})
    BY DEF StopInit
  <2> QED
    BY <1>5, <1>6, <2>1, RowsOfTypes
<1>8. DOMAIN reports \subseteq AgentIds /\ reports \in [DOMAIN reports -> SUBSET Sessions]
  BY DEF StopInit
<1>9. /\ born \in 0 .. MaxBorn /\ hooks \in 0 .. MaxHooks /\ commands \in 0 .. MaxCommands
      /\ cmds \in [Users -> Command] /\ kills \in [Users -> Request]
  BY <1>1, <1>2, NothingIsTyped DEF StopInit
<1> QED
  BY <1>5, <1>6, <1>7, <1>8, <1>9 DEF StopTypeOK, ProcsAreWhole

-----------------------------------------------------------------------------
(* The dashboard *)

(* Rows have ids of sessions, and their trees are made of processes that a *)
(* Tick found.                                                             *)
LEMMA ListedAreSessions ==
    ASSUME StopTypeOK
    PROVE  /\ Listed \subseteq Sessions
           /\ \A id : ProcessTree(id) \in SUBSET Identity
           /\ \A id : \A x \in ProcessTree(id) :
                 \E s \in DOMAIN processRows : x \in processRows[s]
<1>1. DOMAIN processRows \subseteq Sessions /\ DOMAIN reports \subseteq Sessions
  BY StopAssumption DEF StopTypeOK
<1>2. \A s \in DOMAIN processRows : Names(s) \subseteq Sessions
  BY <1>1 DEF Names
<1>3. \A s \in DOMAIN processRows : processRows[s] \in SUBSET Identity
  BY DEF StopTypeOK
<1>4. Listed \subseteq Sessions
  BY <1>1, <1>2 DEF Listed
<1>5. \A id : \A x \in ProcessTree(id) : \E s \in DOMAIN processRows : x \in processRows[s]
  BY DEF ProcessTree
<1> QED
  BY <1>3, <1>4, <1>5

(* A plan is for a session that the text begins the id of, and for the one *)
(* whose id it is when that is listed.                                     *)
LEMMA PlannedIsNamed ==
    ASSUME StopTypeOK, NEW arg \in Args, NEW s \in Planned(arg)
    PROVE  /\ s \in Sessions /\ s \in Listed /\ s \in Matches[arg]
           /\ \A t \in Matches[arg] \cap Listed : arg = t \/ arg \notin Sessions => t = s
<1>1. s \in Found(arg) /\ Found(arg) = {s}
  BY DEF Planned
<1>2. Listed \subseteq Sessions
  BY ListedAreSessions
<1>3. CASE arg \in Listed
  <2>1. s = arg /\ arg \in Sessions
    BY <1>1, <1>2, <1>3 DEF Found
  <2>2. arg \in Matches[arg]
    BY <2>1, StopAssumption
  <2> QED
    BY <1>3, <2>1, <2>2
<1>4. CASE arg \notin Listed
  <2>1. Matches[arg] \cap Listed = {s}
    BY <1>1, <1>4 DEF Found
  <2> QED
    BY <1>2, <2>1
<1> QED
  BY <1>3, <1>4

-----------------------------------------------------------------------------
(* Steps and types *)

(* Steps that leave processes and the dashboard alone. *)
LEMMA CommandStepTypes ==
    ASSUME StopTypeOK, ProcsAreWhole, UNCHANGED <<os, daemon>>,
           cmds' \in [Users -> Command], kills' \in [Users -> Request],
           commands' \in 0 .. MaxCommands
    PROVE  StopTypeOK' /\ ProcsAreWhole'
BY DEF StopTypeOK, ProcsAreWhole, Alive, os, daemon

(* The hooks and the dashboard. *)
LEMMA DaemonStepTypes ==
    ASSUME StopTypeOK, ProcsAreWhole, UNCHANGED <<os, cmds, kills, commands>>,
           sessions' \in [Hooked -> Tracked], hooks' \in 0 .. MaxHooks,
           DOMAIN processRows' \subseteq Hooked \cup AutoSessions,
           processRows' \in [DOMAIN processRows' -> SUBSET Identity],
           DOMAIN reports' \subseteq AgentIds,
           reports' \in [DOMAIN reports' -> SUBSET Sessions]
    PROVE  StopTypeOK' /\ ProcsAreWhole'
BY DEF StopTypeOK, ProcsAreWhole, Alive, os

(* A hook event keeps the types. *)
LEMMA HookTypes ==
    ASSUME StopTypeOK, ProcsAreWhole, NEW s \in Hooked,
           \/ \E p \in Pids : SessionStart(s, p)
           \/ SessionEnd(s) \/ Activity(s)
    PROVE  StopTypeOK' /\ ProcsAreWhole'
<1>1. \E tracked \in Tracked : HookEvent(s, tracked)
  <2>1. sessions[s] \in Tracked
    BY DEF StopTypeOK
  <2>2. \A p \in Pids \cup {0} : \A state \in {"active", "ended"} :
           [state |-> state, root |-> p] \in Tracked
    BY DEF Tracked
  <2>3. sessions[s].root \in Pids \cup {0}
    BY <2>1 DEF Tracked
  <2> QED
    BY <2>2, <2>3 DEF SessionStart, SessionEnd, Activity
<1>2. PICK tracked \in Tracked : HookEvent(s, tracked)
  BY <1>1
<1>3. /\ hooks' = hooks + 1 /\ hooks < MaxHooks
      /\ sessions' = [sessions EXCEPT ![s] = tracked]
      /\ UNCHANGED <<os, processRows, reports, cmds, kills, commands>>
  BY <1>2 DEF HookEvent
<1>4. hooks' \in 0 .. MaxHooks
  BY <1>3, StopAssumption DEF StopTypeOK
<1>5. sessions' \in [Hooked -> Tracked]
  BY <1>3 DEF StopTypeOK
<1> QED
  BY <1>3, <1>4, <1>5, DaemonStepTypes DEF StopTypeOK

(* A Tick keeps the types, and lists what runs. *)
LEMMA TickTypes ==
    ASSUME StopTypeOK, ProcsAreWhole, Tick
    PROVE  /\ StopTypeOK' /\ ProcsAreWhole'
           /\ \A s \in DOMAIN processRows' : \A x \in processRows'[s] :
                 \E p \in Pids : Alive(p) /\ x = Running(p)
<1>1. PICK pruned \in SUBSET {s \in Hooked : sessions[s].state = "ended"} :
         /\ sessions' = [s \in Hooked |-> IF s \in pruned THEN Untracked ELSE sessions[s]]
         /\ processRows' = RowsOf({s \in Hooked : sessions[s].state # "none"} \ pruned)
  BY DEF Tick
<1>2. PICK recent \in SUBSET DOMAIN reports : reports' = [t \in recent |-> reports[t]]
  BY DEF Tick
<1>3. UNCHANGED <<os, hooks, cmds, kills, commands>>
  BY DEF Tick
<1>4. sessions' \in [Hooked -> Tracked]
  BY <1>1 DEF StopTypeOK, Tracked, Untracked
<1> DEFINE kept == {s \in Hooked : sessions[s].state # "none"} \ pruned
<1>5. kept \in SUBSET Hooked /\ processRows' = RowsOf(kept)
  BY <1>1
<1> HIDE DEF kept
<1>6. /\ DOMAIN processRows' \subseteq Hooked \cup AutoSessions
      /\ processRows' \in [DOMAIN processRows' -> SUBSET Identity]
      /\ \A s \in DOMAIN processRows' : \A x \in processRows'[s] :
            \E p \in Pids : Alive(p) /\ x = Running(p)
  BY <1>5, RowsOfTypes DEF StopTypeOK
<1>7. DOMAIN reports' \subseteq AgentIds /\ reports' \in [DOMAIN reports' -> SUBSET Sessions]
  BY <1>2 DEF StopTypeOK
<1> QED
  BY <1>3, <1>4, <1>6, <1>7, DaemonStepTypes DEF StopTypeOK

(* A report keeps the types. *)
LEMMA ReportTypes ==
    ASSUME StopTypeOK, ProcsAreWhole, NEW t \in AgentIds, NEW fits \in SUBSET Sessions,
           Report(t, fits)
    PROVE  StopTypeOK' /\ ProcsAreWhole'
<1>1. /\ reports' = [r \in DOMAIN reports \cup {t} |-> IF r = t THEN fits ELSE reports[r]]
      /\ UNCHANGED <<processRows, os, sessions, hooks, cmds, kills, commands>>
  BY DEF Report
<1>2. DOMAIN reports' \subseteq AgentIds /\ reports' \in [DOMAIN reports' -> SUBSET Sessions]
  BY <1>1 DEF StopTypeOK
<1> QED
  BY <1>1, <1>2, DaemonStepTypes DEF StopTypeOK

(* Pids of processes are pids. *)
LEMMA PidsAreTyped == \A X \in SUBSET Identity : PidsOf(X) \in SUBSET Pids
BY DEF PidsOf, Identity

(* A signal goes to one pid, which is taken off the list. *)
LEMMA SignalStep ==
    ASSUME StopTypeOK, NEW u \in Users, NEW p \in Pids, Signal(u, p)
    PROVE  /\ kills'[u].pc = kills[u].pc /\ kills'[u].plan = kills[u].plan
           /\ kills'[u].of = kills[u].of /\ kills'[u].still = kills[u].still
           /\ kills'[u].todo = kills[u].todo \ {p}
           /\ kills'[u].hit \subseteq kills[u].hit \cup {p}
           /\ kills' \in [Users -> Request]
           /\ \A v \in Users \ {u} : kills'[v] = kills[v]
           /\ UNCHANGED <<born, daemon, cmds, commands>>
<1> DEFINE todo == kills[u].todo \ {p}
           hit == kills[u].hit \cup {q \in {p} : procs[q].mine}
<1>1. kills[u] \in Request
  BY DEF StopTypeOK
<1>2. todo \in SUBSET Pids /\ hit \in SUBSET Pids /\ hit \subseteq kills[u].hit \cup {p}
  BY <1>1 DEF Request
<1>3. kills' = [kills EXCEPT ![u] = [kills[u] EXCEPT !.todo = todo, !.hit = hit]]
  BY DEF Signal, StopTypeOK
<1> HIDE DEF todo, hit
<1>4. [kills[u] EXCEPT !.todo = todo, !.hit = hit] \in Request
  BY <1>1, <1>2 DEF Request
<1>5. kills'[u] = [kills[u] EXCEPT !.todo = todo, !.hit = hit]
  BY <1>3 DEF StopTypeOK
<1>6. kills' \in [Users -> Request] /\ \A v \in Users \ {u} : kills'[v] = kills[v]
  BY <1>3, <1>4 DEF StopTypeOK
<1>7. /\ kills'[u].pc = kills[u].pc /\ kills'[u].plan = kills[u].plan
      /\ kills'[u].of = kills[u].of /\ kills'[u].still = kills[u].still
      /\ kills'[u].todo = todo /\ kills'[u].hit = hit
  BY <1>1, <1>5 DEF Request
<1> QED
  BY <1>2, <1>6, <1>7 DEF Signal, todo

(* The two rounds signal one of the pids that are left at a time. *)
LEMMA RoundStep ==
    ASSUME StopTypeOK, NEW u \in Users, Term(u) \/ KillStraggler(u)
    PROVE  \E p \in kills[u].todo : /\ p \in Pids /\ Signal(u, p)
                                    /\ kills[u].pc \in {"term", "kill"}
                                    /\ \/ procs' = procs
                                       \/ procs' = Without(p)
                                    /\ kills[u].pc = "kill" /\ procs' = procs
                                          => ~ procs[p].mine
<1>1. kills[u].todo \in SUBSET Pids /\ kills[u].todo # {}
  BY DEF StopTypeOK, Request, Term, KillStraggler
<1>2. Least(kills[u].todo) \in kills[u].todo
  BY <1>1, LeastIsOne
<1> DEFINE p == Least(kills[u].todo)
<1>3. p \in kills[u].todo /\ p \in Pids
  BY <1>1, <1>2
<1>4. CASE Term(u)
  <2>1. kills[u].pc = "term" /\ Signal(u, p) /\ (procs' = procs \/ procs' = Without(p))
    BY <1>4 DEF Term
  <2> QED
    BY <1>3, <2>1
<1>5. CASE KillStraggler(u)
  <2>1. /\ kills[u].pc = "kill" /\ Signal(u, p)
        /\ procs' = IF procs[p].mine THEN Without(p) ELSE procs
    BY <1>5 DEF KillStraggler
  <2>2. CASE ~ procs[p].mine
    BY <1>3, <2>1, <2>2
  <2>3. CASE procs[p].mine
    <3>1. procs' = Without(p)
      BY <2>1, <2>3
    <3>2. Without(p)[p] = NoProcess /\ ~ NoProcess.mine
      BY <1>3 DEF Without, NoProcess
    <3>3. procs' # procs
      BY <2>3, <3>1, <3>2
    <3> QED
      BY <1>3, <2>1, <3>1, <3>3
  <2> QED
    BY <2>2, <2>3
<1> QED
  BY <1>4, <1>5

(* A request that is planned for, and one whose first round is over. *)
LEMMA ReplanStep ==
    ASSUME StopTypeOK, NEW u \in Users, Replan(u)
    PROVE  /\ kills[u].pc = "plan" /\ UNCHANGED <<os, daemon, commands>>
           /\ \/ Reply(u)
              \/ \E s \in Planned(cmds[u].arg) :
                    /\ UNCHANGED cmds
                    /\ kills' = [kills EXCEPT ![u] = kills'[u]]
                    /\ kills'[u] \in Request
                    /\ kills'[u].pc = "term" /\ kills'[u].plan = ProcessTree(s)
                    /\ kills'[u].todo = PidsOf(ProcessTree(s)) /\ kills'[u].hit = {}
                    /\ kills'[u].of = {s}
                    /\ kills'[u].still = (cmds[u].about \in Listed)
<1>1. kills[u].pc = "plan" /\ UNCHANGED <<os, daemon, commands>>
  BY DEF Replan
<1>2. ASSUME NEW s \in Planned(cmds[u].arg), UNCHANGED cmds,
             kills' = [kills EXCEPT
                         ![u] = [pc |-> "term", plan |-> ProcessTree(s),
                                 todo |-> PidsOf(ProcessTree(s)), hit |-> {},
                                 of |-> {s}, still |-> cmds[u].about \in Listed]]
      PROVE  /\ kills' = [kills EXCEPT ![u] = kills'[u]]
             /\ kills'[u] \in Request
             /\ kills'[u].pc = "term" /\ kills'[u].plan = ProcessTree(s)
             /\ kills'[u].todo = PidsOf(ProcessTree(s)) /\ kills'[u].hit = {}
             /\ kills'[u].of = {s}
             /\ kills'[u].still = (cmds[u].about \in Listed)
  <2> DEFINE plan == ProcessTree(s)
             todo == PidsOf(plan)
             still == cmds[u].about \in Listed
  <2>1. cmds[u].arg \in Args
    BY DEF StopTypeOK, Command
  <2>2. s \in Sessions
    BY <2>1, PlannedIsNamed
  <2>3. plan \in SUBSET Identity /\ todo \in SUBSET Pids /\ still \in BOOLEAN
    BY ListedAreSessions, PidsAreTyped
  <2>4. kills'[u] = [pc |-> "term", plan |-> plan, todo |-> todo, hit |-> {},
                     of |-> {s}, still |-> still]
    BY <1>2 DEF StopTypeOK
  <2>5. kills' = [kills EXCEPT ![u] = kills'[u]]
    BY <1>2, <2>4
  <2> HIDE DEF plan, todo, still
  <2>6. kills'[u] \in Request
    BY <2>2, <2>3, <2>4 DEF Request
  <2>7. /\ kills'[u].pc = "term" /\ kills'[u].plan = plan /\ kills'[u].todo = todo
        /\ kills'[u].hit = {} /\ kills'[u].of = {s} /\ kills'[u].still = still
    BY <2>4
  <2> QED
    BY <2>5, <2>6, <2>7 DEF plan, todo, still
<1> QED
  BY <1>1, <1>2 DEF Replan

(* After the first round the second one starts. *)
LEMMA SleepStep ==
    ASSUME StopTypeOK, NEW u \in Users, Sleep(u)
    PROVE  /\ kills[u].pc = "term" /\ kills[u].todo = {}
           /\ UNCHANGED <<os, daemon, cmds, commands>>
           /\ kills' = [kills EXCEPT ![u] = kills'[u]]
           /\ kills'[u] \in Request
           /\ kills'[u].pc = "kill" /\ kills'[u].plan = kills[u].plan
           /\ kills'[u].todo = PidsOf(kills[u].plan) /\ kills'[u].hit = kills[u].hit
           /\ kills'[u].of = kills[u].of /\ kills'[u].still = kills[u].still
<1> DEFINE todo == PidsOf(kills[u].plan)
<1>1. kills[u] \in Request
  BY DEF StopTypeOK
<1>2. todo \in SUBSET Pids
  BY <1>1, PidsAreTyped DEF Request
<1>3. kills' = [kills EXCEPT ![u] = [kills[u] EXCEPT !.pc = "kill", !.todo = todo]]
  BY DEF Sleep, StopTypeOK
<1> HIDE DEF todo
<1>4. kills'[u] = [kills[u] EXCEPT !.pc = "kill", !.todo = todo]
  BY <1>3 DEF StopTypeOK
<1>5. kills'[u] \in Request
  BY <1>1, <1>2, <1>4 DEF Request
<1>6. /\ kills'[u].pc = "kill" /\ kills'[u].plan = kills[u].plan
      /\ kills'[u].todo = todo /\ kills'[u].hit = kills[u].hit
      /\ kills'[u].of = kills[u].of /\ kills'[u].still = kills[u].still
  BY <1>1, <1>4 DEF Request
<1>7. kills' = [kills EXCEPT ![u] = kills'[u]]
  BY <1>3, <1>4
<1> QED
  BY <1>5, <1>6, <1>7 DEF Sleep, todo

(* What a terminal does. *)
LEMMA CommandStep ==
    ASSUME StopTypeOK, NEW u \in Users, Abandon(u) \/ Confirm(u) \/ GiveUp(u) \/ Reply(u)
    PROVE  cmds' \in [Users -> Command] /\ kills' \in [Users -> Request]
<1>1. cmds[u] \in Command /\ kills[u] \in Request
  BY DEF StopTypeOK
<1>2. /\ \A at \in {"sent", "left"} : [cmds[u] EXCEPT !.at = at] \in Command
      /\ [kills[u] EXCEPT !.pc = "plan"] \in Request
  BY <1>1 DEF Command, Request
<1>3. /\ \/ cmds' = [cmds EXCEPT ![u] = AtPrompt]
         \/ cmds' = [cmds EXCEPT ![u] = [cmds[u] EXCEPT !.at = "sent"]]
         \/ cmds' = [cmds EXCEPT ![u] = [cmds[u] EXCEPT !.at = "left"]]
      /\ \/ UNCHANGED kills
         \/ kills' = [kills EXCEPT ![u] = [kills[u] EXCEPT !.pc = "plan"]]
         \/ kills' = [kills EXCEPT ![u] = IdleKill]
  BY DEF Abandon, Confirm, GiveUp, Reply, StopTypeOK
<1> QED
  BY <1>2, <1>3, NothingIsTyped DEF StopTypeOK

(* Every step keeps the types. *)
LEMMA StopNextTypes ==
    ASSUME StopTypeOK, ProcsAreWhole, [StopNext]_StopVars
    PROVE  StopTypeOK' /\ ProcsAreWhole'
<1>1. ASSUME NEW p \in Pids, Exit(p) PROVE StopTypeOK' /\ ProcsAreWhole'
  <2>1. ProcsAreWhole'
    BY <1>1, ExitLeavesProcesses DEF Exit
  <2> QED
    BY <1>1, <2>1 DEF Exit, StopTypeOK, ProcsAreWhole, daemon
<1>2. ASSUME NEW p \in Pids, NEW parent \in Pids \cup {0}, NEW mine \in BOOLEAN,
             Spawn(p, parent, mine)
      PROVE  StopTypeOK' /\ ProcsAreWhole'
  <2>1. ProcsAreWhole' /\ born' \in 0 .. MaxBorn
    BY <1>2, StartAddsAProcess DEF StopTypeOK
  <2> QED
    BY <1>2, <2>1 DEF Spawn, StopTypeOK, ProcsAreWhole, daemon
<1>3. ASSUME NEW s \in Hooked,
             \/ \E p \in Pids : SessionStart(s, p)
             \/ SessionEnd(s) \/ Activity(s)
      PROVE  StopTypeOK' /\ ProcsAreWhole'
  BY <1>3, HookTypes
<1>4. CASE Tick
  BY <1>4, TickTypes
<1>5. ASSUME NEW t \in AgentIds, NEW s \in Hooked \cup AutoSessions,
             Report(t, {}) \/ Report(t, {s})
      PROVE  StopTypeOK' /\ ProcsAreWhole'
  <2>1. {} \in SUBSET Sessions /\ {s} \in SUBSET Sessions
    BY StopAssumption
  <2> QED
    BY <1>5, <2>1, ReportTypes
<1>6. ASSUME NEW u \in Users, NEW arg \in Args, Ask(u, arg)
      PROVE  StopTypeOK' /\ ProcsAreWhole'
  <2>1. /\ UNCHANGED <<os, daemon, kills>>
        /\ commands' = commands + 1 /\ commands < MaxCommands
        /\ \/ \E s \in Planned(arg) :
                 cmds' = [cmds EXCEPT ![u] = [at |-> "asked", arg |-> arg, about |-> s]]
           \/ UNCHANGED cmds
    BY <1>6 DEF Ask
  <2>2. \A s \in Planned(arg) : [at |-> "asked", arg |-> arg, about |-> s] \in Command
    BY PlannedIsNamed DEF Command
  <2>3. cmds' \in [Users -> Command]
    BY <2>1, <2>2 DEF StopTypeOK
  <2>4. commands' \in 0 .. MaxCommands
    BY <2>1, StopAssumption DEF StopTypeOK
  <2>5. kills' \in [Users -> Request]
    BY <2>1 DEF StopTypeOK
  <2> QED
    BY <2>1, <2>3, <2>4, <2>5, CommandStepTypes
<1>7. ASSUME NEW u \in Users, Abandon(u) \/ Confirm(u) \/ GiveUp(u) \/ Done(u)
      PROVE  StopTypeOK' /\ ProcsAreWhole'
  <2>1. UNCHANGED <<os, daemon, commands>>
    BY <1>7 DEF Abandon, Confirm, GiveUp, Done
  <2>2. cmds' \in [Users -> Command] /\ kills' \in [Users -> Request]
    BY <1>7, CommandStep DEF Done
  <2> QED
    BY <2>1, <2>2, CommandStepTypes DEF StopTypeOK
<1>8. ASSUME NEW u \in Users, Replan(u) PROVE StopTypeOK' /\ ProcsAreWhole'
  <2>1. UNCHANGED <<os, daemon, commands>>
    BY <1>8, ReplanStep
  <2>2. CASE Reply(u)
    BY <2>1, <2>2, CommandStep, CommandStepTypes DEF StopTypeOK
  <2>3. CASE /\ UNCHANGED cmds
             /\ kills' = [kills EXCEPT ![u] = kills'[u]]
             /\ kills'[u] \in Request
    <3>1. cmds' \in [Users -> Command] /\ kills' \in [Users -> Request]
      BY <2>3 DEF StopTypeOK
    <3> QED
      BY <2>1, <3>1, CommandStepTypes DEF StopTypeOK
  <2> QED
    BY <1>8, <2>2, <2>3, ReplanStep
<1>9. ASSUME NEW u \in Users, Term(u) \/ KillStraggler(u)
      PROVE  StopTypeOK' /\ ProcsAreWhole'
  <2>1. PICK p \in Pids : Signal(u, p) /\ (procs' = procs \/ procs' = Without(p))
    BY <1>9, RoundStep
  <2>2. ProcsAreWhole'
    <3>1. CASE procs' = procs
      BY <3>1 DEF ProcsAreWhole, Alive
    <3>2. CASE procs' = Without(p)
      BY <3>2, ExitLeavesProcesses
    <3> QED
      BY <2>1, <3>1, <3>2
  <2>3. /\ kills' \in [Users -> Request]
        /\ UNCHANGED <<born, daemon, cmds, commands>>
    BY <2>1, SignalStep
  <2> QED
    BY <2>2, <2>3 DEF StopTypeOK, ProcsAreWhole, daemon
<1>10. ASSUME NEW u \in Users, Sleep(u) PROVE StopTypeOK' /\ ProcsAreWhole'
  <2>1. UNCHANGED <<os, daemon, cmds, commands>> /\ kills' \in [Users -> Request]
    BY <1>10, SleepStep DEF StopTypeOK
  <2> QED
    BY <2>1, CommandStepTypes DEF StopTypeOK
<1>11. CASE UNCHANGED StopVars
  BY <1>11 DEF StopVars, StopTypeOK, ProcsAreWhole, Alive
<1> QED
  BY <1>1, <1>2, <1>3, <1>4, <1>5, <1>6, <1>7, <1>8, <1>9, <1>10, <1>11 DEF StopNext, Kill

(* Every variable of StopSession holds a value of its kind. *)
THEOREM StopTypeCorrect == StopSpec => [](StopTypeOK /\ ProcsAreWhole)
<1>1. StopTypeOK /\ ProcsAreWhole /\ [StopNext]_StopVars => StopTypeOK' /\ ProcsAreWhole'
  BY StopNextTypes
<1> QED
  BY <1>1, StopInitTypes, PTL DEF StopSpec

-----------------------------------------------------------------------------
(* One session *)

(* A command is about a session that its text begins the id of; the daemon *)
(* works for commands that were confirmed, and signals pids of its plan.   *)
OneSession(u) ==
    /\ cmds[u].at # "prompt" => cmds[u].about \in Matches[cmds[u].arg]
    /\ cmds[u].at \in {"prompt", "asked"} => kills[u] = IdleKill
    /\ kills[u].pc = "plan" => kills[u] = [IdleKill EXCEPT !.pc = "plan"]
    /\ kills[u].todo \cup kills[u].hit \subseteq PidsOf(kills[u].plan)
    /\ StillNamed(u) => kills[u].of \subseteq {cmds[u].about}

(* It depends on the terminal's command and request alone. *)
LEMMA OneSessionIsLocal ==
    ASSUME NEW u \in Users, OneSession(u), cmds'[u] = cmds[u], kills'[u] = kills[u]
    PROVE  OneSession(u)'
BY DEF OneSession, StillNamed, PidsOf, IdleKill

(* A terminal that waits for nothing. *)
LEMMA IdleIsOne ==
    ASSUME NEW u \in Users, cmds'[u].at \in {"prompt", "asked"},
           cmds'[u].at = "asked" => cmds'[u].about \in Matches[cmds'[u].arg],
           kills'[u] = IdleKill
    PROVE  OneSession(u)'
BY DEF OneSession, IdleKill, StillNamed, PidsOf

(* Every step keeps each terminal with one session. *)
LEMMA NextOneSession ==
    ASSUME StopTypeOK, \A u \in Users : OneSession(u), [StopNext]_StopVars
    PROVE  \A u \in Users : OneSession(u)'
<1>1. ASSUME NEW u \in Users, OneSession(u)',
             \A v \in Users \ {u} : cmds'[v] = cmds[v] /\ kills'[v] = kills[v]
      PROVE  \A v \in Users : OneSession(v)'
  <2>1. ASSUME NEW v \in Users, v # u PROVE OneSession(v)'
    BY <1>1, <2>1, OneSessionIsLocal
  <2> QED
    BY <1>1, <2>1
<1>2. CASE UNCHANGED <<cmds, kills>>
  BY <1>2, OneSessionIsLocal
<1>3. ASSUME NEW u \in Users, NEW arg \in Args, Ask(u, arg)
      PROVE  \A v \in Users : OneSession(v)'
  <2>1. cmds[u].at = "prompt" /\ UNCHANGED kills
    BY <1>3 DEF Ask
  <2>2. ASSUME NEW s \in Planned(arg),
               cmds' = [cmds EXCEPT ![u] = [at |-> "asked", arg |-> arg, about |-> s]]
        PROVE  \A v \in Users : OneSession(v)'
    <3>1. cmds'[u] = [at |-> "asked", arg |-> arg, about |-> s] /\ s \in Matches[arg]
      BY <2>2, PlannedIsNamed DEF StopTypeOK
    <3>2. OneSession(u)'
      BY <2>1, <3>1, IdleIsOne DEF OneSession
    <3> QED
      BY <1>1, <2>1, <2>2, <3>2 DEF StopTypeOK
  <2> QED
    BY <1>2, <1>3, <2>1, <2>2 DEF Ask
<1>4. ASSUME NEW u \in Users, Abandon(u) PROVE \A v \in Users : OneSession(v)'
  <2>1. /\ cmds[u].at = "asked" /\ UNCHANGED kills
        /\ cmds' = [cmds EXCEPT ![u] = AtPrompt]
    BY <1>4 DEF Abandon
  <2>2. cmds'[u].at = "prompt" /\ kills'[u] = IdleKill
    BY <2>1 DEF StopTypeOK, AtPrompt, OneSession
  <2>3. OneSession(u)'
    BY <2>2, IdleIsOne
  <2> QED
    BY <1>1, <2>1, <2>3 DEF StopTypeOK
<1>5. ASSUME NEW u \in Users, Confirm(u) PROVE \A v \in Users : OneSession(v)'
  <2>1. /\ cmds[u].at = "asked"
        /\ cmds' = [cmds EXCEPT ![u].at = "sent"]
        /\ kills' = [kills EXCEPT ![u].pc = "plan"]
    BY <1>5 DEF Confirm
  <2>2. kills[u] = IdleKill /\ cmds[u].about \in Matches[cmds[u].arg]
    BY <2>1 DEF OneSession
  <2>3. /\ cmds'[u].at = "sent" /\ cmds'[u].arg = cmds[u].arg
        /\ cmds'[u].about = cmds[u].about
    BY <2>1 DEF StopTypeOK, Command
  <2>4. kills'[u] = [IdleKill EXCEPT !.pc = "plan"]
    BY <2>1, <2>2 DEF StopTypeOK
  <2>5. /\ kills'[u].todo = {} /\ kills'[u].hit = {} /\ kills'[u].of = {}
    BY <2>4 DEF IdleKill
  <2>6. OneSession(u)'
    BY <2>2, <2>3, <2>4, <2>5 DEF OneSession, IdleKill
  <2> QED
    BY <1>1, <2>1, <2>6 DEF StopTypeOK
<1>6. ASSUME NEW u \in Users, GiveUp(u) PROVE \A v \in Users : OneSession(v)'
  <2>1. /\ cmds[u].at = "sent" /\ UNCHANGED kills
        /\ cmds' = [cmds EXCEPT ![u].at = "left"]
    BY <1>6 DEF GiveUp
  <2>2. /\ cmds'[u].at = "left" /\ cmds'[u].arg = cmds[u].arg
        /\ cmds'[u].about = cmds[u].about /\ kills'[u] = kills[u]
    BY <2>1 DEF StopTypeOK, Command
  <2>3. OneSession(u)'
    BY <2>1, <2>2 DEF OneSession, StillNamed, PidsOf, IdleKill
  <2> QED
    BY <1>1, <2>1, <2>3 DEF StopTypeOK
<1>7. ASSUME NEW u \in Users, Reply(u) PROVE \A v \in Users : OneSession(v)'
  <2>1. kills' = [kills EXCEPT ![u] = IdleKill] /\ cmds' = [cmds EXCEPT ![u] = AtPrompt]
    BY <1>7 DEF Reply
  <2>2. cmds'[u].at = "prompt" /\ kills'[u] = IdleKill
    BY <2>1 DEF StopTypeOK, AtPrompt
  <2>3. OneSession(u)'
    BY <2>2, IdleIsOne
  <2> QED
    BY <1>1, <2>1, <2>3 DEF StopTypeOK
<1>8. ASSUME NEW u \in Users, Replan(u) PROVE \A v \in Users : OneSession(v)'
  <2>1. kills[u].pc = "plan" /\ cmds[u].arg \in Args
    BY <1>8, ReplanStep DEF StopTypeOK, Command
  <2>2. ASSUME NEW s \in Planned(cmds[u].arg), UNCHANGED cmds,
               kills' = [kills EXCEPT ![u] = kills'[u]],
               kills'[u].pc = "term", kills'[u].plan = ProcessTree(s),
               kills'[u].todo = PidsOf(ProcessTree(s)), kills'[u].hit = {},
               kills'[u].of = {s}, kills'[u].still = (cmds[u].about \in Listed)
        PROVE  \A v \in Users : OneSession(v)'
    <3>1. /\ cmds[u].at \notin {"prompt", "asked"}
          /\ cmds[u].about \in Matches[cmds[u].arg]
      BY <2>1 DEF OneSession, IdleKill
    <3>2. s \in Matches[cmds[u].arg]
          /\ \A t \in Matches[cmds[u].arg] \cap Listed :
                cmds[u].arg = t \/ cmds[u].arg \notin Sessions => t = s
      BY <2>1, PlannedIsNamed
    <3>3. StillNamed(u)' => s = cmds[u].about
      BY <2>2, <3>1, <3>2 DEF StillNamed
    <3>4. OneSession(u)'
      BY <2>2, <3>1, <3>3 DEF OneSession, PidsOf
    <3>5. \A v \in Users \ {u} : kills'[v] = kills[v]
      BY <2>2 DEF StopTypeOK
    <3> QED
      BY <1>1, <2>2, <3>4, <3>5
  <2> QED
    BY <1>7, <1>8, <2>2, ReplanStep
<1>9. ASSUME NEW u \in Users, Term(u) \/ KillStraggler(u)
      PROVE  \A v \in Users : OneSession(v)'
  <2>1. PICK p \in kills[u].todo : p \in Pids /\ Signal(u, p)
                                   /\ kills[u].pc \in {"term", "kill"}
    BY <1>9, RoundStep
  <2>2. /\ kills'[u].pc = kills[u].pc /\ kills'[u].plan = kills[u].plan
        /\ kills'[u].of = kills[u].of /\ kills'[u].still = kills[u].still
        /\ kills'[u].todo = kills[u].todo \ {p}
        /\ kills'[u].hit \subseteq kills[u].hit \cup {p}
        /\ \A v \in Users \ {u} : kills'[v] = kills[v]
        /\ cmds' = cmds
    BY <2>1, SignalStep
  <2>3. cmds[u].at \notin {"prompt", "asked"}
    BY <2>1 DEF OneSession, IdleKill
  <2>4. OneSession(u)
    OBVIOUS
  <2>5. OneSession(u)'
    BY <2>1, <2>2, <2>3, <2>4 DEF OneSession, StillNamed, PidsOf
  <2> QED
    BY <1>1, <2>2, <2>5
<1>10. ASSUME NEW u \in Users, Sleep(u) PROVE \A v \in Users : OneSession(v)'
  <2>1. /\ kills[u].pc = "term" /\ kills[u].todo = {} /\ cmds' = cmds
        /\ kills'[u].pc = "kill" /\ kills'[u].plan = kills[u].plan
        /\ kills'[u].todo = PidsOf(kills[u].plan) /\ kills'[u].hit = kills[u].hit
        /\ kills'[u].of = kills[u].of /\ kills'[u].still = kills[u].still
        /\ \A v \in Users \ {u} : kills'[v] = kills[v]
    BY <1>10, SleepStep DEF StopTypeOK
  <2>2. cmds[u].at \notin {"prompt", "asked"} /\ OneSession(u)
    BY <2>1 DEF OneSession, IdleKill
  <2>3. OneSession(u)'
    BY <2>1, <2>2 DEF OneSession, StillNamed, PidsOf
  <2> QED
    BY <1>1, <2>1, <2>3
<1>11. ASSUME NEW u \in Users, Done(u) PROVE \A v \in Users : OneSession(v)'
  BY <1>7, <1>11 DEF Done
<1>12. ASSUME \/ \E p \in Pids : \/ Exit(p)
                                 \/ \E parent \in Pids \cup {0}, mine \in BOOLEAN :
                                       Spawn(p, parent, mine)
              \/ \E s \in Hooked : \/ \E p \in Pids : SessionStart(s, p)
                                   \/ SessionEnd(s) \/ Activity(s)
              \/ Tick
              \/ \E t \in AgentIds, s \in Hooked \cup AutoSessions :
                    Report(t, {}) \/ Report(t, {s})
              \/ UNCHANGED StopVars
       PROVE  UNCHANGED <<cmds, kills>>
  BY <1>12 DEF Exit, Spawn, SessionStart, SessionEnd, Activity, HookEvent, Tick, Report, StopVars
<1> QED
  BY <1>2, <1>3, <1>4, <1>5, <1>6, <1>8, <1>9, <1>10, <1>11, <1>12 DEF StopNext, Kill

(* As long as what the user typed says which session was meant, all that a *)
(* command signals is in that session's tree, whatever starts, exits,      *)
(* leaves or is renamed between the plan, the answer and the signals, and  *)
(* although the daemon plans twice.                                        *)
THEOREM StopHitsOneSession == StopSpec => []OnlyOneSessionIsHit
<1>1. StopInit => \A u \in Users : OneSession(u)
  BY DEF StopInit, OneSession, AtPrompt, IdleKill, StillNamed
<1>2. StopTypeOK /\ (\A u \in Users : OneSession(u)) /\ [StopNext]_StopVars
         => (\A u \in Users : OneSession(u))'
  BY NextOneSession
<1>3. (\A u \in Users : OneSession(u)) => OnlyOneSessionIsHit
  BY DEF OneSession, OnlyOneSessionIsHit
<1> QED
  BY <1>1, <1>2, <1>3, StopTypeCorrect, PTL DEF StopSpec

-----------------------------------------------------------------------------
(* Nothing is left of a plan *)

(* What was found or planned was born before what is born next, and in the *)
(* second round only pids that are still to be signalled are left.         *)
GoneInv ==
    /\ \A p \in Pids : procs[p].born <= born
    /\ \A s \in DOMAIN processRows : \A x \in processRows[s] : x.born <= born
    /\ \A u \in Users : \A x \in kills[u].plan : x.born <= born
    /\ \A u \in Users : kills[u].pc = "kill" =>
          \A x \in kills[u].plan : x.pid \in kills[u].todo \/ ~ Survives(x)

(* To begin with nothing is planned. *)
LEMMA InitGone == StopInit /\ StopTypeOK /\ ProcsAreWhole => GoneInv
<1> SUFFICES ASSUME StopInit, StopTypeOK, ProcsAreWhole PROVE GoneInv
  OBVIOUS
<1>1. Agents \subseteq Pids /\ IsFiniteSet(Agents)
  BY StopAssumption, FS_Subset
<1>2. ASSUME NEW p \in Pids PROVE procs[p].born <= born
  <2> DEFINE upTo == {q \in Agents : q <= p}
  <2>1. upTo \subseteq Agents
    OBVIOUS
  <2> HIDE DEF upTo
  <2>2. /\ Cardinality(upTo) <= Cardinality(Agents)
        /\ Cardinality(upTo) \in Nat /\ Cardinality(Agents) \in Nat
    BY <1>1, <2>1, FS_Subset, FS_CardinalityType
  <2>3. procs[p].born = IF p \in Agents THEN Cardinality(upTo) ELSE 0
    BY DEF StopInit, NoProcess, upTo
  <2>4. born = Cardinality(Agents)
    BY DEF StopInit
  <2> QED
    BY <2>2, <2>3, <2>4
<1>3. ASSUME NEW s \in DOMAIN processRows, NEW x \in processRows[s] PROVE x.born <= born
  <2>1. PICK p \in Pids : x = Running(p)
    BY <1>3, RowsOfTypes DEF StopInit, StopTypeOK
  <2> QED
    BY <1>2, <2>1 DEF Running
<1>4. \A u \in Users : kills[u] = IdleKill
  BY DEF StopInit
<1> QED
  BY <1>2, <1>3, <1>4 DEF GoneInv, IdleKill

(* What has not survived does not come back: a pid is used again by what   *)
(* was born later.                                                         *)
LEMMA GoneStaysGone ==
    ASSUME ProcsAreWhole, born \in Nat, NEW x, x.pid \in Pids, x.born <= born, x.born \in Nat \ {0},
           ~ Survives(x),
           \/ UNCHANGED procs
           \/ \E p \in Pids : procs' = Without(p)
           \/ \E p \in Pids, parent \in Pids \cup {0}, mine \in BOOLEAN : Spawn(p, parent, mine)
    PROVE  ~ Survives(x)'
<1>1. CASE UNCHANGED procs
  BY <1>1 DEF Survives
<1>2. ASSUME NEW p \in Pids, procs' = Without(p) PROVE ~ Survives(x)'
  <2>1. /\ procs'[p] = NoProcess
        /\ \A q \in Pids : procs'[q].born \in {0, procs[q].born}
        /\ \A q \in Pids \ {p} : procs'[q].mine = procs[q].mine
    BY <1>2, ExitLeavesProcesses
  <2> QED
    BY <2>1 DEF Survives, NoProcess
<1>3. ASSUME NEW p \in Pids, NEW parent \in Pids \cup {0}, NEW mine \in BOOLEAN,
             Spawn(p, parent, mine)
      PROVE  ~ Survives(x)'
  <2>1. procs' = [procs EXCEPT ![p] = [born |-> born + 1, parent |-> parent, mine |-> mine]]
    BY <1>3 DEF Spawn
  <2>2. CASE x.pid = p
    <3>1. procs'[x.pid].born = born + 1
      BY <2>1, <2>2 DEF ProcsAreWhole
    <3> QED
      BY <3>1 DEF Survives
  <2>3. CASE x.pid # p
    BY <2>1, <2>3 DEF Survives, ProcsAreWhole
  <2> QED
    BY <2>2, <2>3
<1> QED
  BY <1>1, <1>2, <1>3

(* Every step does one of four things to processes, rows and plans. *)
LEMMA NextGone ==
    ASSUME StopTypeOK, ProcsAreWhole, \A u \in Users : OneSession(u), GoneInv,
           [StopNext]_StopVars
    PROVE  GoneInv'
<1>0. born \in Nat /\ MaxBorn \in Nat
  BY StopAssumption DEF StopTypeOK
<1>1. ASSUME NEW u \in Users, NEW x \in kills[u].plan
      PROVE  x.pid \in Pids /\ x.born \in Nat \ {0} /\ x.born <= born
  BY DEF StopTypeOK, Request, Identity, GoneInv
<1>2. ASSUME UNCHANGED <<procs, born, processRows>>,
             NEW u \in Users, \A v \in Users \ {u} : kills'[v] = kills[v],
             \A x \in kills'[u].plan : x.born <= born,
             kills'[u].pc = "kill" =>
                \A x \in kills'[u].plan : x.pid \in kills'[u].todo \/ ~ Survives(x)
      PROVE  GoneInv'
  <2>1. ASSUME NEW v \in Users
        PROVE  /\ \A x \in kills'[v].plan : x.born <= born
               /\ kills'[v].pc = "kill" =>
                     \A x \in kills'[v].plan : x.pid \in kills'[v].todo \/ ~ Survives(x)
    <3>1. CASE v = u
      BY <1>2, <3>1
    <3>2. CASE v # u
      BY <1>2, <3>2 DEF GoneInv
    <3> QED
      BY <3>1, <3>2
  <2> QED
    BY <1>2, <2>1 DEF GoneInv, Survives
<1>3. CASE UNCHANGED <<procs, born, kills, processRows>>
  BY <1>3 DEF GoneInv, Survives
<1>4. ASSUME NEW p \in Pids, procs' = Without(p), UNCHANGED <<born, processRows>>,
             \A u \in Users : /\ kills'[u].plan = kills[u].plan
                              /\ kills'[u].pc = kills[u].pc
                              /\ kills[u].todo \subseteq kills'[u].todo \cup {p}
      PROVE  GoneInv'
  <2>1. \A q \in Pids : procs'[q].born <= born
    <3>1. \A q \in Pids : procs'[q].born \in {0, procs[q].born}
      BY <1>4, ExitLeavesProcesses
    <3> QED
      BY <1>0, <3>1 DEF GoneInv
  <2>2. ASSUME NEW u \in Users, kills[u].pc = "kill", NEW x \in kills[u].plan,
               x.pid \notin kills'[u].todo
        PROVE  ~ Survives(x)'
    <3>1. CASE x.pid = p
      <4>1. procs'[p] = NoProcess
        BY <1>4, ExitLeavesProcesses
      <4> QED
        BY <3>1, <4>1 DEF Survives, NoProcess
    <3>2. CASE x.pid # p
      <4>1. ~ Survives(x)
        BY <1>4, <2>2, <3>2 DEF GoneInv
      <4> QED
        BY <1>0, <1>1, <1>4, <4>1, GoneStaysGone
    <3> QED
      BY <3>1, <3>2
  <2> QED
    BY <1>4, <2>1, <2>2 DEF GoneInv
<1>5. ASSUME NEW p \in Pids, Exit(p) PROVE GoneInv'
  <2>1. procs' = Without(p) /\ UNCHANGED <<born, processRows, kills>>
    BY <1>5 DEF Exit, daemon
  <2> QED
    BY <1>4, <2>1
<1>6. ASSUME NEW p \in Pids, NEW parent \in Pids \cup {0}, NEW mine \in BOOLEAN,
             Spawn(p, parent, mine)
      PROVE  GoneInv'
  <2>1. /\ born' = born + 1 /\ UNCHANGED <<processRows, kills>>
        /\ procs' = [procs EXCEPT ![p] = [born |-> born', parent |-> parent, mine |-> mine]]
    BY <1>6 DEF Spawn, daemon
  <2>2. \A q \in Pids : procs'[q].born <= born'
    <3>1. \A q \in Pids : procs[q].born \in Nat /\ procs[q].born <= born
      BY <1>0 DEF GoneInv, ProcsAreWhole, Process
    <3>2. \A q \in Pids : procs'[q].born = IF q = p THEN born' ELSE procs[q].born
      BY <2>1 DEF ProcsAreWhole
    <3> QED
      BY <1>0, <2>1, <3>1, <3>2
  <2>3. \A s \in DOMAIN processRows' : \A x \in processRows'[s] : x.born <= born'
    <3>1. \A s \in DOMAIN processRows : \A x \in processRows[s] : x.born \in Nat /\ x.born <= born
      BY DEF GoneInv, StopTypeOK, Identity
    <3> QED
      BY <1>0, <2>1, <3>1
  <2>4. \A u \in Users : \A x \in kills'[u].plan : x.born <= born'
    BY <1>0, <1>1, <2>1
  <2>5. ASSUME NEW u \in Users, kills[u].pc = "kill", NEW x \in kills[u].plan,
               x.pid \notin kills[u].todo
        PROVE  ~ Survives(x)'
    <3>1. ~ Survives(x)
      BY <2>5 DEF GoneInv
    <3> QED
      BY <1>0, <1>1, <1>6, <3>1, GoneStaysGone
  <2> QED
    BY <2>1, <2>2, <2>3, <2>4, <2>5 DEF GoneInv
<1>7. CASE Tick
  <2>1. \A s \in DOMAIN processRows' : \A x \in processRows'[s] :
           \E p \in Pids : Alive(p) /\ x = Running(p)
    BY <1>7, TickTypes
  <2>2. UNCHANGED <<procs, born, kills>>
    BY <1>7 DEF Tick, os
  <2>3. \A s \in DOMAIN processRows' : \A x \in processRows'[s] : x.born <= born'
    BY <2>1, <2>2 DEF GoneInv, Running
  <2> QED
    BY <2>2, <2>3 DEF GoneInv, Survives
<1>8. ASSUME NEW u \in Users, Confirm(u) PROVE GoneInv'
  <2>1. /\ cmds[u].at = "asked"
        /\ kills' = [kills EXCEPT ![u].pc = "plan"]
        /\ UNCHANGED <<procs, born, processRows>>
    BY <1>8 DEF Confirm, os, daemon
  <2>2. /\ kills'[u].pc = "plan" /\ kills'[u].plan = kills[u].plan
        /\ \A v \in Users \ {u} : kills'[v] = kills[v]
    BY <2>1 DEF StopTypeOK, Request
  <2> QED
    BY <1>1, <1>2, <2>1, <2>2
<1>9. ASSUME NEW u \in Users, Reply(u), UNCHANGED <<procs, born, processRows>> PROVE GoneInv'
  <2>1. kills'[u] = IdleKill /\ \A v \in Users \ {u} : kills'[v] = kills[v]
    BY <1>9 DEF Reply, StopTypeOK
  <2> QED
    BY <1>2, <1>9, <2>1 DEF IdleKill
<1>10. ASSUME NEW u \in Users, Replan(u) PROVE GoneInv'
  <2>1. UNCHANGED <<procs, born, processRows>>
    BY <1>10, ReplanStep DEF os, daemon
  <2>2. ASSUME NEW s, kills' = [kills EXCEPT ![u] = kills'[u]],
               kills'[u].pc = "term", kills'[u].plan = ProcessTree(s)
        PROVE  GoneInv'
    <3>1. \A x \in ProcessTree(s) : x.born <= born
      BY ListedAreSessions DEF GoneInv
    <3>2. \A v \in Users \ {u} : kills'[v] = kills[v]
      BY <2>2 DEF StopTypeOK
    <3> QED
      BY <1>2, <2>1, <2>2, <3>1, <3>2
  <2> QED
    BY <1>9, <1>10, <2>1, <2>2, ReplanStep
<1>11. ASSUME NEW u \in Users, Term(u) \/ KillStraggler(u) PROVE GoneInv'
  <2>1. PICK p \in kills[u].todo : /\ p \in Pids /\ Signal(u, p)
                                   /\ \/ procs' = procs
                                      \/ procs' = Without(p)
                                   /\ kills[u].pc = "kill" /\ procs' = procs
                                         => ~ procs[p].mine
    BY <1>11, RoundStep
  <2>2. /\ kills'[u].pc = kills[u].pc /\ kills'[u].plan = kills[u].plan
        /\ kills'[u].todo = kills[u].todo \ {p}
        /\ \A v \in Users \ {u} : kills'[v] = kills[v]
        /\ UNCHANGED <<born, processRows>>
    BY <2>1, SignalStep DEF daemon
  <2>3. CASE procs' = Without(p)
    <3>1. \A v \in Users : /\ kills'[v].plan = kills[v].plan
                           /\ kills'[v].pc = kills[v].pc
                           /\ kills[v].todo \subseteq kills'[v].todo \cup {p}
      BY <2>2
    <3> QED
      BY <1>4, <2>1, <2>2, <2>3, <3>1
  <2>4. CASE procs' = procs
    <3>1. ASSUME kills[u].pc = "kill", NEW x \in kills[u].plan
          PROVE  x.pid \in kills[u].todo \ {p} \/ ~ Survives(x)
      BY <2>1, <2>4, <3>1 DEF GoneInv, Survives
    <3>2. \A x \in kills'[u].plan : x.born <= born
      BY <1>1, <2>2
    <3> QED
      BY <1>2, <2>2, <2>4, <3>1, <3>2
  <2> QED
    BY <2>1, <2>3, <2>4
<1>12. ASSUME NEW u \in Users, Sleep(u) PROVE GoneInv'
  <2>1. /\ kills'[u].plan = kills[u].plan /\ kills'[u].todo = PidsOf(kills[u].plan)
        /\ \A v \in Users \ {u} : kills'[v] = kills[v]
        /\ UNCHANGED <<procs, born, processRows>>
    BY <1>12, SleepStep DEF StopTypeOK, os, daemon
  <2>2. \A x \in kills'[u].plan : x.pid \in kills'[u].todo /\ x.born <= born
    BY <1>1, <2>1 DEF PidsOf
  <2> QED
    BY <1>2, <2>1, <2>2
<1>13. ASSUME NEW u \in Users, Done(u) PROVE GoneInv'
  BY <1>9, <1>13 DEF Done, os, daemon
<1>14. ASSUME \/ \E s \in Hooked : \/ \E p \in Pids : SessionStart(s, p)
                                   \/ SessionEnd(s) \/ Activity(s)
              \/ \E t \in AgentIds, s \in Hooked \cup AutoSessions :
                    Report(t, {}) \/ Report(t, {s})
              \/ \E u \in Users : \/ \E arg \in Args : Ask(u, arg)
                                  \/ Abandon(u) \/ GiveUp(u)
              \/ UNCHANGED StopVars
       PROVE  UNCHANGED <<procs, born, kills, processRows>>
  BY <1>14 DEF SessionStart, SessionEnd, Activity, HookEvent, Report, Ask, Abandon, GiveUp,
               StopVars, os, daemon
<1> QED
  BY <1>3, <1>5, <1>6, <1>7, <1>8, <1>10, <1>11, <1>12, <1>13, <1>14 DEF StopNext, Kill

(* When the second round of a request is over, nothing of its plan is left *)
(* that the daemon's user may signal.                                      *)
NothingOfAPlanIsLeft ==
    \A u \in Users : kills[u].pc = "kill" /\ kills[u].todo = {} =>
        \A x \in kills[u].plan : ~ Survives(x)

(* Whatever ignores SIGTERM, starts under a pid of the plan or exits       *)
(* meanwhile, after the second round nothing of the plan is left that the  *)
(* daemon's user may signal: the safety half of PlannedProcessesDie.       *)
THEOREM PlannedProcessesAreGone == StopSpec => []NothingOfAPlanIsLeft
<1> DEFINE I == GoneInv /\ \A u \in Users : OneSession(u)
<1>1. StopInit => I
  BY StopInitTypes, InitGone DEF StopInit, OneSession, AtPrompt, IdleKill, StillNamed
<1>2. (StopTypeOK /\ ProcsAreWhole) /\ I /\ [StopNext]_StopVars => I'
  <2> SUFFICES ASSUME StopTypeOK, ProcsAreWhole, I, [StopNext]_StopVars PROVE I'
    OBVIOUS
  <2>1. GoneInv'
    BY NextGone
  <2>2. \A u \in Users : OneSession(u)'
    BY NextOneSession
  <2> QED
    BY <2>1, <2>2
<1>3. I => NothingOfAPlanIsLeft
  BY DEF GoneInv, NothingOfAPlanIsLeft
<1> HIDE DEF I
<1> QED
  BY <1>1, <1>2, <1>3, StopTypeCorrect, PTL DEF StopSpec
=============================================================================
