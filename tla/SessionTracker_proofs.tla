------------------------ MODULE SessionTracker_proofs ------------------------
(***************************************************************************)
(* Theorems about SessionTracker, for every number of sessions, pids and   *)
(* concurrent requests and every value of the bounds.                      *)
(***************************************************************************)
EXTENDS SessionTracker, TLAPS

-----------------------------------------------------------------------------
(* The operators on session records *)

(* NoSession, the zero value, is a session record. *)
LEMMA NoSessionType == NoSession \in Session
  BY ConstantsAssumption DEF NoSession, Session, Times, Sizes, PidOrNone

(* An event leaves a record that is not empty, and no peak higher than it was. *)
LEMMA AppliedType ==
    ASSUME NEW s \in Session, NEW e \in Event
    PROVE  /\ Applied(s, e) \in Session
           /\ Applied(s, e).state # "none"
           /\ Applied(s, e).peak <= s.peak
<1>0. s.peak \in Nat /\ e.at \in Times /\ 0 \in Times
  BY ConstantsAssumption DEF Session, Event, Sizes, Times
<1>1. Created(s, e) \in Session /\ Created(s, e).peak <= s.peak
  <2>1. s.peak \in Nat /\ e.at \in Times
    BY ConstantsAssumption DEF Session, Event, Sizes
  <2>2. CASE s.state = "none"
    <3>1. Created(s, e) = [NoSession EXCEPT !.state = "active",
                                            !.startedAt = e.at]
      BY <2>2 DEF Created
    <3>2. Created(s, e) \in Session
      BY <2>1, <3>1, NoSessionType DEF Session
    <3>3. Created(s, e).peak = 0
      BY <3>1 DEF NoSession
    <3> QED
      BY <2>1, <3>2, <3>3
  <2>3. CASE s.state # "none"
    BY <2>1, <2>3 DEF Created
  <2> QED
    BY <2>2, <2>3
<1>2. e.kind \in {"session_start", "session_end", "activity"}
  BY DEF Event, Kinds
<1>3. CASE e.kind = "session_start"
  <2>1. Applied(s, e) = Started(s, e)
    BY <1>3 DEF Applied
  <2>2. QED
    <3>1. Started(s, e) \in Session
      BY <1>0 DEF Started, Session, Event
    <3>2. Started(s, e).state = "active" /\ Started(s, e).peak = s.peak
      BY DEF Started, Session
    <3> QED
      BY <2>1, <3>1, <3>2, <1>0
<1>4. CASE e.kind = "session_end"
  <2>1. Applied(s, e) = Ended(s, e)
    BY <1>4 DEF Applied
  <2> QED
    BY <2>1, <1>1 DEF Ended, Session, Event
<1>5. CASE e.kind = "activity"
  <2>1. Applied(s, e) = Active(s, e)
    BY <1>5 DEF Applied
  <2>2. Created(s, e).state # "none"
    BY DEF Created, NoSession
  <2> QED
    BY <2>1, <2>2, <1>1 DEF Active, Session, Event
<1> QED
  BY <1>2, <1>3, <1>4, <1>5

(* Merging keeps the caller's state and the larger peak. *)
LEMMA UpsertedType ==
    ASSUME NEW old \in Session, NEW s \in Session
    PROVE  /\ Upserted(old, s) \in Session
           /\ Upserted(old, s).state = s.state
           /\ Upserted(old, s).peak >= old.peak
           /\ Upserted(old, s).peak >= s.peak
  BY ConstantsAssumption DEF Upserted, Session, Sizes

(* A scan keeps the state and never lowers the peak. *)
LEMMA ScannedType ==
    ASSUME NEW s \in Session, NEW scan \in [Pids -> Process]
    PROVE  /\ Scanned(s, scan) \in Session
           /\ Scanned(s, scan).state = s.state
           /\ Scanned(s, scan).peak >= s.peak
<1>1. /\ s.peak \in Sizes /\ s.peak \in Int /\ 0 \in Sizes /\ 0 \in Int
      /\ \A n \in Sizes : n \in Int
  BY ConstantsAssumption DEF Session, Sizes
<1>2. s.rootPid \in Pids =>
         /\ scan[s.rootPid].started \in Times
         /\ scan[s.rootPid].rss \in Sizes
  <2> SUFFICES ASSUME s.rootPid \in Pids
               PROVE  scan[s.rootPid] \in Process
    BY DEF Process
  <2> QED
    OBVIOUS
<1>3. TreeRss(s, scan) \in Sizes /\ TreeRss(s, scan) \in Int
  BY <1>1, <1>2 DEF TreeRss
<1> DEFINE started == IF s.procStart = 0 /\ s.rootPid \in Pids
                      THEN scan[s.rootPid].started ELSE s.procStart
           peak == IF TreeRss(s, scan) > s.peak THEN TreeRss(s, scan)
                   ELSE s.peak
<1>4. started \in Times
  BY <1>2 DEF Session
<1>5. peak \in Sizes /\ peak >= s.peak
  BY <1>1, <1>3
<1>6. Scanned(s, scan) = [s EXCEPT !.procStart = started, !.peak = peak]
  BY DEF Scanned
<1> HIDE DEF started, peak
<1> QED
  BY <1>4, <1>5, <1>6 DEF Session

(* What Tick's locked part makes of one tracked session. *)
LEMMA KeptType ==
    ASSUME TypeOK, NEW s \in Sessions
    PROVE  /\ Kept(s) \in Session
           /\ ToPersist(s) \in Session
           /\ Kept(s).state \in {"none", tracked[s].state}
           /\ tracked[s].state # "none" /\ Kept(s).state = "none"
                 => Expired(tracked[s], tick.at)
           /\ \/ ToPersist(s) = Kept(s) /\ Kept(s).peak > tracked[s].peak
              \/ ToPersist(s) = NoSession /\ Kept(s).peak <= tracked[s].peak
<1>1. tracked[s] \in Session /\ tick.scan \in [Pids -> Process]
  BY DEF TypeOK, Tick
<1>2. Kept(s) \in Session
  BY <1>1, ScannedType, NoSessionType DEF Kept
<1>3. Kept(s).state \in {"none", tracked[s].state}
  BY <1>1, ScannedType DEF Kept, NoSession
<1>4. tracked[s].state # "none" /\ Kept(s).state = "none"
         => Expired(tracked[s], tick.at)
  BY <1>1, ScannedType DEF Kept
<1>5. Kept(s).peak \in Int /\ tracked[s].peak \in Int
  BY <1>1, <1>2, ConstantsAssumption DEF Session, Sizes
<1>6. \/ ToPersist(s) = Kept(s) /\ Kept(s).peak > tracked[s].peak
      \/ ToPersist(s) = NoSession /\ Kept(s).peak <= tracked[s].peak
  BY <1>5 DEF ToPersist
<1> QED
  BY <1>2, <1>3, <1>4, <1>6, NoSessionType

-----------------------------------------------------------------------------
(* Type correctness *)

(* The records that stand for nothing in progress are of the right kind. *)
LEMMA IdleTypes ==
    /\ 0 \in Times /\ 1 \in Times /\ 0 \in Sizes
    /\ NoProcess \in Process
    /\ NothingQueued \in [Sessions -> Session]
    /\ IdleTick \in Tick
    /\ IdleHandler \in Handler
<1>1. 0 \in Times /\ 1 \in Times /\ 0 \in Sizes
  BY ConstantsAssumption DEF Times, Sizes
<1>2. NoProcess \in Process
  BY <1>1 DEF NoProcess, Process
<1>3. NothingQueued \in [Sessions -> Session]
  BY NoSessionType DEF NothingQueued
<1>4. IdleTick \in Tick
  BY <1>1, <1>2, <1>3 DEF IdleTick, Tick
<1>5. IdleHandler \in Handler
  BY DEF Handler
<1> QED
  BY <1>1, <1>2, <1>3, <1>4, <1>5

(* Initially every variable has its type. *)
LEMMA InitTypeOK == Init => TypeOK
<1>1. [phase |-> "off", posted |-> 0] \in Agent /\ 0 \in 0 .. MaxStops
  BY ConstantsAssumption DEF Agent
<1> QED
  BY <1>1, IdleTypes, NoSessionType DEF Init, TypeOK

(* A step of the machine or of an agent keeps the types. *)
LEMMA MachineTypeOK == TypeOK /\ Machine => TypeOK'
<1> SUFFICES ASSUME TypeOK, Machine PROVE TypeOK'
  OBVIOUS
<1> USE DEF env, memory, disk
<1>1. CASE Advance
  BY <1>1, ConstantsAssumption DEF TypeOK, Advance, Times
<1>2. ASSUME NEW p \in Pids, NEW q \in Process, SetProcess(p, q)
      PROVE  TypeOK'
  BY <1>2 DEF TypeOK, SetProcess
<1>3. ASSUME NEW p \in Pids, Spawn(p) \/ Grow(p) \/ Exit(p)
      PROVE  TypeOK'
  <2>1. CASE Spawn(p)
    <3>1. PICK r \in Sizes : SetProcess(p, [started |-> now, rss |-> r])
      BY <2>1 DEF Spawn
    <3>2. [started |-> now, rss |-> r] \in Process
      BY DEF TypeOK, Process
    <3> QED
      BY <3>1, <3>2, <1>2
  <2>2. CASE Grow(p)
    <3>1. PICK r \in Sizes : SetProcess(p, [procs[p] EXCEPT !.rss = r])
      BY <2>2 DEF Grow
    <3>2. [procs[p] EXCEPT !.rss = r] \in Process
      BY DEF TypeOK, Process
    <3> QED
      BY <3>1, <3>2, <1>2
  <2>3. CASE Exit(p)
    BY <2>3, <1>2, IdleTypes DEF Exit
  <2> QED
    BY <1>3, <2>1, <2>2, <2>3
<1>4. ASSUME NEW s \in Sessions, NEW kind \in Kinds, NEW pid \in PidOrNone,
             NEW phase \in {"off", "on"}, Post(s, kind, pid, phase)
      PROVE  TypeOK'
  <2>1. agents[s].posted + 1 \in 0 .. MaxPosts
    BY <1>4, ConstantsAssumption DEF TypeOK, Agent, Post
  <2>2. [phase |-> phase, posted |-> agents[s].posted + 1] \in Agent
    BY <2>1 DEF Agent
  <2>3. [kind |-> kind, id |-> s, pid |-> pid, at |-> now] \in Event
    BY DEF Event, TypeOK
  <2> QED
    BY <1>4, <2>2, <2>3 DEF TypeOK, Post
<1>5. ASSUME NEW s \in Sessions, PostStart(s) \/ PostActivity(s) \/ PostEnd(s)
      PROVE  TypeOK'
  BY <1>4, <1>5 DEF PostStart, PostActivity, PostEnd, Kinds, PidOrNone
<1> QED
  BY <1>1, <1>3, <1>5 DEF Machine

(* A step of a request handler keeps the types. *)
LEMMA ServingTypeOK == TypeOK /\ Serving => TypeOK'
<1> SUFFICES ASSUME TypeOK, Serving PROVE TypeOK'
  OBVIOUS
<1> USE DEF env, memory, disk
<1>1. ASSUME NEW h \in Handlers, NEW e \in net, HandleEvent(h, e)
      PROVE  TypeOK'
  <2>1. e \in Event /\ e.id \in Sessions /\ tracked[e.id] \in Session
    BY DEF TypeOK, Event
  <2>2. tracked' \in [Sessions -> Session]
    BY <1>1, <2>1, AppliedType DEF TypeOK, HandleEvent
  <2>3. tracked'[e.id] \in Session
    BY <2>1, <2>2
  <2>4. [pc |-> "record", event |-> e, copy |-> tracked'[e.id]] \in Handler
    BY <2>1, <2>3 DEF Handler
  <2> QED
    BY <1>1, <2>2, <2>4 DEF TypeOK, HandleEvent
<1>2. ASSUME NEW h \in Handlers, handlers[h].pc # "idle"
      PROVE  /\ handlers[h] \in [pc : {"record", "upsert"}, event : Event,
                                 copy : Session]
             /\ handlers[h].event \in Event
             /\ handlers[h].copy \in Session
  BY <1>2 DEF TypeOK, Handler, IdleHandler
<1>3. ASSUME NEW h \in Handlers, RecordEvent(h)
      PROVE  TypeOK'
  <2>1. handlers[h].pc # "idle"
    BY <1>3 DEF RecordEvent
  <2>2. [handlers[h] EXCEPT !.pc = "upsert"] \in Handler
    BY <1>2, <2>1 DEF Handler
  <2>3. audit' \subseteq Event
    BY <1>2, <1>3, <2>1 DEF TypeOK, RecordEvent
  <2> QED
    BY <1>3, <2>2, <2>3 DEF TypeOK, RecordEvent
<1>4. ASSUME NEW h \in Handlers, UpsertAndReply(h)
      PROVE  TypeOK'
  <2>1. handlers[h].event \in Event /\ handlers[h].copy \in Session
    BY <1>2, <1>4 DEF UpsertAndReply
  <2>2. history' \in [Sessions -> Session]
    BY <1>4, <2>1, UpsertedType DEF TypeOK, UpsertAndReply, Upsert, Event
  <2> QED
    BY <1>4, <2>1, <2>2, IdleTypes DEF TypeOK, UpsertAndReply
<1> QED
  BY <1>1, <1>3, <1>4 DEF Serving

(* A step of Tick keeps the types. *)
LEMMA TickingTypeOK == TypeOK /\ Ticking => TypeOK'
<1> SUFFICES ASSUME TypeOK, Ticking PROVE TypeOK'
  OBVIOUS
<1> USE DEF env, memory, disk
<1>1. CASE TickScan
  <2>1. tick' \in Tick
    BY <1>1 DEF TypeOK, TickScan, Tick
  <2> QED
    BY <1>1, <2>1 DEF TypeOK, TickScan
<1>2. CASE TickLocked
  <2>1. tracked' \in [Sessions -> Session]
    BY <1>2, KeptType DEF TickLocked
  <2> DEFINE queue == [s \in Sessions |-> ToPersist(s)]
  <2>2. queue \in [Sessions -> Session]
    BY KeptType
  <2>3. tick' = IF queue = NothingQueued THEN IdleTick
                ELSE [IdleTick EXCEPT !.pc = "persist", !.queue = queue]
    BY <1>2 DEF TickLocked
  <2> HIDE DEF queue
  <2>4. [IdleTick EXCEPT !.pc = "persist", !.queue = queue] \in Tick
    BY <2>2, IdleTypes DEF Tick
  <2>5. tick' \in Tick
    BY <2>3, <2>4, IdleTypes
  <2> QED
    BY <1>2, <2>1, <2>5 DEF TypeOK, TickLocked
<1>3. ASSUME NEW s \in Sessions, TickPersist(s)
      PROVE  TypeOK'
  <2>1. tick.queue \in [Sessions -> Session]
    BY DEF TypeOK, Tick
  <2>2. history' \in [Sessions -> Session]
    BY <1>3, <2>1, UpsertedType DEF TypeOK, TickPersist, Upsert
  <2> DEFINE rest == [tick.queue EXCEPT ![s] = NoSession]
  <2>3. rest \in [Sessions -> Session]
    BY <2>1, NoSessionType
  <2>4. tick' = IF rest = NothingQueued THEN IdleTick
                ELSE [tick EXCEPT !.queue = rest]
    BY <1>3 DEF TickPersist
  <2> HIDE DEF rest
  <2>5. [tick EXCEPT !.queue = rest] \in Tick
    BY <2>3 DEF TypeOK, Tick
  <2>6. tick' \in Tick
    BY <2>4, <2>5, IdleTypes
  <2> QED
    BY <1>3, <2>2, <2>6 DEF TypeOK, TickPersist
<1> QED
  BY <1>1, <1>2, <1>3 DEF Ticking

(* Stopping and starting the daemon keep the types. *)
LEMMA StopNewTypeOK == TypeOK /\ (Stop \/ New) => TypeOK'
<1> SUFFICES ASSUME TypeOK, Stop \/ New PROVE TypeOK'
  OBVIOUS
<1> USE DEF env, memory, disk
<1>1. CASE Stop
  <2>1. stops' \in 0 .. MaxStops
    BY <1>1, ConstantsAssumption DEF TypeOK, Stop
  <2>2. handlers' \in [Handlers -> Handler] /\ tick' \in Tick
    BY <1>1, IdleTypes DEF Stop
  <2>3. tracked' \in [Sessions -> Session] /\ atStop' \in [Sessions -> Session]
    BY <1>1, NoSessionType DEF Stop, TypeOK
  <2> QED
    BY <1>1, <2>1, <2>2, <2>3 DEF TypeOK, Stop
<1>2. CASE New
  <2>1. tracked' \in [Sessions -> Session]
    BY <1>2, NoSessionType DEF New, TypeOK
  <2> QED
    BY <1>2, <2>1 DEF TypeOK, New
<1> QED
  BY <1>1, <1>2

(* A stuttering step keeps the types. *)
LEMMA StutterTypeOK == TypeOK /\ UNCHANGED vars => TypeOK'
  BY DEF TypeOK, vars

(* Every variable keeps its type in every behaviour. *)
THEOREM TypeCorrect == Spec => []TypeOK
<1>1. Init => TypeOK
  BY InitTypeOK
<1>2. TypeOK /\ [Next]_vars => TypeOK'
  BY MachineTypeOK, ServingTypeOK, TickingTypeOK, StopNewTypeOK, StutterTypeOK
  DEF Next
<1> QED
  BY <1>1, <1>2, PTL DEF Spec

-----------------------------------------------------------------------------
(* The peak on disk *)

(* No step lowers the peak a record on disk holds. *)
LEMMA PeakStep ==
    ASSUME TypeOK, [Next]_vars, NEW s \in Sessions
    PROVE  history'[s].peak >= history[s].peak
<1> USE DEF env, memory, disk
<1>1. /\ history \in [Sessions -> Session]
      /\ history[s].peak >= history[s].peak
  BY ConstantsAssumption DEF TypeOK, Session, Sizes
<1>2. ASSUME NEW t \in Sessions, NEW copy \in Session, Upsert(t, copy)
      PROVE  history'[s].peak >= history[s].peak
  <2>1. CASE history' = [history EXCEPT ![t] = Upserted(@, copy)]
    BY <1>1, <2>1, UpsertedType
  <2>2. CASE history' = history
    BY <1>1, <2>2
  <2> QED
    BY <1>2, <2>1, <2>2 DEF Upsert
<1>3. ASSUME NEW h \in Handlers, UpsertAndReply(h)
      PROVE  history'[s].peak >= history[s].peak
  <2>1. handlers[h].event \in Event /\ handlers[h].copy \in Session
    BY <1>3 DEF TypeOK, Handler, IdleHandler, UpsertAndReply
  <2> QED
    BY <1>2, <1>3, <2>1 DEF UpsertAndReply, Event
<1>4. ASSUME NEW t \in Sessions, TickPersist(t)
      PROVE  history'[s].peak >= history[s].peak
  BY <1>2, <1>4 DEF TypeOK, Tick, TickPersist
<1>5. \/ history' = history
      \/ \E h \in Handlers : UpsertAndReply(h)
      \/ \E t \in Sessions : TickPersist(t)
  BY DEF Next, Machine, Advance, Spawn, Grow, Exit, SetProcess, PostStart,
         PostActivity, PostEnd, Post, Serving, HandleEvent, RecordEvent,
         Ticking, TickScan, TickLocked, Stop, New, vars
<1> QED
  BY <1>1, <1>3, <1>4, <1>5

(* Whatever races, crashes and restarts: the recorded peak never goes down. *)
THEOREM PeakMonotone == Spec => PeakNeverDecreases
<1>1. TypeOK /\ [Next]_vars
         => [\A s \in Sessions : history'[s].peak >= history[s].peak]_vars
  BY PeakStep
<1> QED
  BY <1>1, TypeCorrect, PTL DEF Spec, PeakNeverDecreases

-----------------------------------------------------------------------------
(* What reaches the disk *)

(* The inductive invariant: the two properties about the history, and what *)
(* the writes under way carry.                                             *)
RecordsInv ==
    /\ TypeOK
    /\ WritesInFlight
    /\ AnsweredEventsAreRecorded
    /\ TrackedSessionsAreRecorded

(* Initially nothing is tracked, answered or under way. *)
LEMMA InitRecordsInv == Init => RecordsInv
<1>1. Init => WritesInFlight
  BY DEF Init, WritesInFlight, IdleHandler, IdleTick, NothingQueued
<1>2. Init => AnsweredEventsAreRecorded /\ TrackedSessionsAreRecorded
  BY DEF Init, AnsweredEventsAreRecorded, TrackedSessionsAreRecorded, NoSession
<1> QED
  BY <1>1, <1>2, InitTypeOK DEF RecordsInv

(* A step that leaves the daemon and the disk alone keeps the invariant. *)
LEMMA OutsideRecordsInv ==
    ASSUME RecordsInv, now' \in Times, now' >= now,
           UNCHANGED <<memory, disk, acked>>
    PROVE  /\ WritesInFlight'
           /\ AnsweredEventsAreRecorded'
           /\ TrackedSessionsAreRecorded'
<1> USE DEF memory, disk
<1>1. tick.at \in Int /\ now \in Int /\ now' \in Int
  BY ConstantsAssumption DEF RecordsInv, TypeOK, Tick, Times
<1>2. WritesInFlight'
  BY <1>1 DEF RecordsInv, WritesInFlight
<1>3. AnsweredEventsAreRecorded'
  BY DEF RecordsInv, AnsweredEventsAreRecorded
<1>4. TrackedSessionsAreRecorded'
  BY DEF RecordsInv, TrackedSessionsAreRecorded
<1> QED
  BY <1>2, <1>3, <1>4

(* Once a record exists on disk it is never removed. *)
LEMMA RecordsStay ==
    ASSUME TypeOK, NEW t \in Sessions, NEW copy \in Session,
           copy.state # "none", Upsert(t, copy), NEW s \in Sessions
    PROVE  /\ history[s].state # "none" => history'[s].state # "none"
           /\ ~ DiskMayFail => history'[t].state # "none"
<1>1. history \in [Sessions -> Session]
  BY DEF TypeOK
<1>2. CASE history' = [history EXCEPT ![t] = Upserted(@, copy)]
  BY <1>1, <1>2, UpsertedType
<1>3. CASE DiskMayFail /\ history' = history
  BY <1>3
<1> QED
  BY <1>2, <1>3 DEF Upsert

(* A step of a request handler keeps the invariant. *)
LEMMA ServingRecordsInv ==
    ASSUME RecordsInv, Serving
    PROVE  /\ WritesInFlight'
           /\ AnsweredEventsAreRecorded'
           /\ TrackedSessionsAreRecorded'
<1> USE DEF env, memory, disk
<1>0. TypeOK
  BY DEF RecordsInv
<1>1. ASSUME NEW h \in Handlers, NEW e \in net, HandleEvent(h, e)
      PROVE  /\ WritesInFlight'
             /\ AnsweredEventsAreRecorded'
             /\ TrackedSessionsAreRecorded'
  <2>1. e \in Event /\ e.id \in Sessions /\ tracked[e.id] \in Session
    BY <1>0 DEF TypeOK, Event
  <2>2. /\ tracked'[e.id] = Applied(tracked[e.id], e)
        /\ \A s \in Sessions \ {e.id} : tracked'[s] = tracked[s]
    BY <1>0, <1>1, <2>1 DEF TypeOK, HandleEvent
  <2>3. /\ handlers'[h].pc = "record" /\ handlers'[h].event = e
        /\ handlers'[h].copy.state # "none"
        /\ \A g \in Handlers \ {h} : handlers'[g] = handlers[g]
    BY <1>0, <1>1, <2>1, <2>2, AppliedType DEF TypeOK, HandleEvent
  <2>4. handlers[h].pc = "idle" /\ UNCHANGED <<now, tick, disk, acked>>
    BY <1>1 DEF HandleEvent
  <2>5. WritesInFlight'
    BY <2>3, <2>4 DEF RecordsInv, WritesInFlight
  <2>6. AnsweredEventsAreRecorded'
    BY <2>4 DEF RecordsInv, AnsweredEventsAreRecorded
  <2>7. TrackedSessionsAreRecorded'
    BY <2>2, <2>3, <2>4 DEF RecordsInv, TrackedSessionsAreRecorded
  <2> QED
    BY <2>5, <2>6, <2>7
<1>2. ASSUME NEW h \in Handlers, handlers[h].pc # "idle"
      PROVE  /\ handlers[h].event \in Event /\ handlers[h].event.id \in Sessions
             /\ handlers[h].copy \in Session
             /\ handlers[h].copy.state # "none"
  BY <1>0, <1>2
  DEF TypeOK, Handler, IdleHandler, Event, RecordsInv, WritesInFlight
<1>3. ASSUME NEW h \in Handlers, RecordEvent(h)
      PROVE  /\ WritesInFlight'
             /\ AnsweredEventsAreRecorded'
             /\ TrackedSessionsAreRecorded'
  <2>1. /\ handlers[h].pc = "record"
        /\ handlers'[h] = [handlers[h] EXCEPT !.pc = "upsert"]
        /\ \A g \in Handlers \ {h} : handlers'[g] = handlers[g]
        /\ UNCHANGED <<now, tick, tracked, history, acked>>
    BY <1>0, <1>3 DEF TypeOK, RecordEvent
  <2>2. /\ handlers'[h].pc = "upsert"
        /\ handlers'[h].event = handlers[h].event
        /\ handlers'[h].copy = handlers[h].copy
    BY <1>0, <2>1 DEF TypeOK, Handler, IdleHandler
  <2>3. /\ audit \subseteq audit'
        /\ ~ DiskMayFail => handlers[h].event \in audit'
    BY <1>3 DEF RecordEvent
  <2>4. WritesInFlight'
    <3>1. \A g \in Handlers :
             /\ handlers[g].pc # "idle" => handlers[g].copy.state # "none"
             /\ ~ DiskMayFail /\ handlers[g].pc = "upsert"
                   => handlers[g].event \in audit
      BY DEF RecordsInv, WritesInFlight
    <3>2. ASSUME NEW g \in Handlers
          PROVE  /\ handlers'[g].pc # "idle" => handlers'[g].copy.state # "none"
                 /\ ~ DiskMayFail /\ handlers'[g].pc = "upsert"
                       => handlers'[g].event \in audit'
      <4>1. CASE g = h
        BY <1>2, <2>1, <2>2, <2>3, <4>1
      <4>2. CASE g # h
        BY <2>1, <2>3, <3>1, <4>2
      <4> QED
        BY <4>1, <4>2
    <3> QED
      BY <2>1, <3>2 DEF RecordsInv, WritesInFlight
  <2>5. AnsweredEventsAreRecorded'
    BY <2>1, <2>3 DEF RecordsInv, AnsweredEventsAreRecorded
  <2>6. TrackedSessionsAreRecorded'
    <3>1. \A g \in Handlers :
             /\ handlers'[g].event = handlers[g].event
             /\ handlers[g].pc # "idle" => handlers'[g].pc # "idle"
      BY <2>1, <2>2
    <3>2. UNCHANGED <<tracked, history>>
      BY <2>1
    <3> QED
      BY <3>1, <3>2 DEF RecordsInv, TrackedSessionsAreRecorded
  <2> QED
    BY <2>4, <2>5, <2>6
<1>4. ASSUME NEW h \in Handlers, UpsertAndReply(h)
      PROVE  /\ WritesInFlight'
             /\ AnsweredEventsAreRecorded'
             /\ TrackedSessionsAreRecorded'
  <2> DEFINE id == handlers[h].event.id
  <2>1. /\ handlers[h].pc = "upsert"
        /\ Upsert(id, handlers[h].copy)
        /\ acked' = acked \cup {handlers[h].event}
        /\ handlers'[h] = IdleHandler
        /\ \A g \in Handlers \ {h} : handlers'[g] = handlers[g]
        /\ UNCHANGED <<now, tick, tracked, audit>>
    BY <1>0, <1>4 DEF TypeOK, UpsertAndReply
  <2>2. /\ \A s \in Sessions : history[s].state # "none"
                                 => history'[s].state # "none"
        /\ ~ DiskMayFail => history'[id].state # "none"
    BY <1>0, <1>2, <2>1, RecordsStay
  <2> HIDE DEF id
  <2>3. WritesInFlight'
    <3>1. \A g \in Handlers : handlers'[g].pc # "idle"
                                => handlers'[g] = handlers[g]
      BY <2>1 DEF IdleHandler
    <3>2. UNCHANGED <<now, tick, audit>>
      BY <2>1
    <3> QED
      BY <3>1, <3>2 DEF RecordsInv, WritesInFlight
  <2>4. acked \subseteq Event /\ \A e \in acked : e.id \in Sessions
    BY <1>0 DEF TypeOK, Event
  <2>5. ~ DiskMayFail => handlers[h].event \in audit
    BY <2>1 DEF RecordsInv, WritesInFlight
  <2>6. AnsweredEventsAreRecorded'
    BY <2>1, <2>2, <2>4, <2>5 DEF RecordsInv, AnsweredEventsAreRecorded, id
  <2>7. TrackedSessionsAreRecorded'
    <3> SUFFICES ASSUME ~ DiskMayFail, NEW s \in Sessions,
                        tracked'[s].state # "none",
                        history'[s].state = "none"
                 PROVE  \E g \in Handlers : /\ handlers'[g].pc # "idle"
                                            /\ handlers'[g].event.id = s
      BY DEF TrackedSessionsAreRecorded
    <3>1. history[s].state = "none" /\ tracked[s].state # "none" /\ s # id
      BY <2>1, <2>2
    <3>2. PICK g \in Handlers : /\ handlers[g].pc # "idle"
                                /\ handlers[g].event.id = s
      BY <3>1 DEF RecordsInv, TrackedSessionsAreRecorded
    <3>3. g # h
      BY <3>1, <3>2 DEF id
    <3> QED
      BY <2>1, <3>2, <3>3
  <2> QED
    BY <2>3, <2>6, <2>7
<1> QED
  BY <1>1, <1>3, <1>4 DEF Serving

(* A step of Tick keeps the invariant. *)
LEMMA TickingRecordsInv ==
    ASSUME RecordsInv, Ticking
    PROVE  /\ WritesInFlight'
           /\ AnsweredEventsAreRecorded'
           /\ TrackedSessionsAreRecorded'
<1> USE DEF env, memory, disk
<1>0. TypeOK /\ now \in Nat /\ 0 <= now
  BY ConstantsAssumption DEF RecordsInv, TypeOK, Times
<1>1. CASE TickScan
  <2>1. /\ tick'.queue = tick.queue /\ tick'.at = now
        /\ UNCHANGED <<now, tracked, handlers, disk, acked>>
    BY <1>0, <1>1 DEF TypeOK, Tick, TickScan
  <2> QED
    BY <1>0, <2>1 DEF RecordsInv, WritesInFlight, AnsweredEventsAreRecorded,
                      TrackedSessionsAreRecorded
<1>2. CASE TickLocked
  <2>1. /\ \A s \in Sessions : tracked'[s] = Kept(s)
        /\ UNCHANGED <<now, handlers, disk, acked>>
    BY <1>2 DEF TickLocked
  <2>2. tick'.at = 0 /\ (\/ tick'.queue = NothingQueued
                         \/ tick'.queue = [s \in Sessions |-> ToPersist(s)])
    BY <1>2 DEF TickLocked, IdleTick
  <2>3. ASSUME NEW s \in Sessions, tick'.queue[s] # NoSession
        PROVE  tick'.queue[s].state # "none"
    <3>1. tick'.queue[s] = ToPersist(s)
      BY <2>2, <2>3 DEF NothingQueued
    <3>2. tick'.queue[s] = Kept(s) /\ Kept(s).peak > tracked[s].peak
      BY <1>0, <2>3, <3>1, KeptType
    <3>3. tracked[s].peak \in Nat
      BY <1>0, ConstantsAssumption DEF TypeOK, Session, Sizes
    <3>4. Kept(s) # NoSession
      BY <3>2, <3>3 DEF NoSession
    <3>5. tracked[s].state # "none" /\ Kept(s) = Scanned(tracked[s], tick.scan)
      BY <3>4 DEF Kept
    <3> QED
      BY <1>0, <3>2, <3>5, ScannedType DEF TypeOK, Tick
  <2>4. WritesInFlight'
    BY <1>0, <2>1, <2>2, <2>3 DEF RecordsInv, WritesInFlight
  <2>5. AnsweredEventsAreRecorded'
    BY <2>1 DEF RecordsInv, AnsweredEventsAreRecorded
  <2>6. \A s \in Sessions : tracked'[s].state # "none"
                                => tracked[s].state # "none"
    BY <1>0, <2>1, KeptType
  <2>7. TrackedSessionsAreRecorded'
    BY <2>1, <2>6 DEF RecordsInv, TrackedSessionsAreRecorded
  <2> QED
    BY <2>4, <2>5, <2>7
<1>3. ASSUME NEW t \in Sessions, TickPersist(t)
      PROVE  /\ WritesInFlight'
             /\ AnsweredEventsAreRecorded'
             /\ TrackedSessionsAreRecorded'
  <2>1. tick.queue \in [Sessions -> Session]
    BY <1>0 DEF TypeOK, Tick
  <2>2. /\ tick.queue[t].state # "none"
        /\ Upsert(t, tick.queue[t])
        /\ UNCHANGED <<now, tracked, handlers, audit, acked>>
    BY <1>3 DEF RecordsInv, WritesInFlight, TickPersist
  <2>3. \A s \in Sessions : history[s].state # "none"
                                => history'[s].state # "none"
    BY <1>0, <2>1, <2>2, RecordsStay
  <2> DEFINE rest == [tick.queue EXCEPT ![t] = NoSession]
  <2>4. \/ tick' = IdleTick
        \/ tick' = [tick EXCEPT !.queue = rest]
    BY <1>3 DEF TickPersist
  <2>5. \A s \in Sessions : rest[s] # NoSession => rest[s].state # "none"
    BY <2>1 DEF RecordsInv, WritesInFlight
  <2> HIDE DEF rest
  <2>6. /\ tick'.at <= now
        /\ \A s \in Sessions : tick'.queue[s] # NoSession
                                   => tick'.queue[s].state # "none"
    <3>1. CASE tick' = IdleTick
      BY <1>0, <3>1 DEF IdleTick, NothingQueued
    <3>2. CASE tick' = [tick EXCEPT !.queue = rest]
      <4>1. tick'.queue = rest /\ tick'.at = tick.at
        BY <1>0, <3>2 DEF TypeOK, Tick
      <4> QED
        BY <4>1, <2>5 DEF RecordsInv, WritesInFlight
    <3> QED
      BY <2>4, <3>1, <3>2
  <2>7. WritesInFlight'
    BY <2>2, <2>6 DEF RecordsInv, WritesInFlight
  <2>8. acked \subseteq Event /\ \A e \in acked : e.id \in Sessions
    BY <1>0 DEF TypeOK, Event
  <2>9. AnsweredEventsAreRecorded' /\ TrackedSessionsAreRecorded'
    BY <2>2, <2>3, <2>8
    DEF RecordsInv, AnsweredEventsAreRecorded, TrackedSessionsAreRecorded
  <2> QED
    BY <2>7, <2>9
<1> QED
  BY <1>1, <1>2, <1>3 DEF Ticking

(* Stopping loses the memory only; New tracks what it reads from the disk. *)
LEMMA StopNewRecordsInv ==
    ASSUME RecordsInv, Stop \/ New
    PROVE  /\ WritesInFlight'
           /\ AnsweredEventsAreRecorded'
           /\ TrackedSessionsAreRecorded'
<1> USE DEF env, memory, disk
<1>0. TypeOK /\ 0 <= now
  BY ConstantsAssumption DEF RecordsInv, TypeOK, Times
<1>1. CASE Stop
  <2>1. /\ \A s \in Sessions : tracked'[s] = NoSession
        /\ \A h \in Handlers : handlers'[h] = IdleHandler
        /\ tick' = IdleTick
        /\ UNCHANGED <<now, disk, acked>>
    BY <1>1 DEF Stop
  <2> QED
    BY <1>0, <2>1
    DEF RecordsInv, WritesInFlight, AnsweredEventsAreRecorded,
        TrackedSessionsAreRecorded, IdleHandler, IdleTick, NothingQueued,
        NoSession
<1>2. CASE New
  <2>1. /\ \A s \in Sessions : tracked'[s].state # "none"
                                   => history[s].state # "none"
        /\ UNCHANGED <<now, tick, handlers, disk, acked>>
    BY <1>2 DEF New, NoSession
  <2> QED
    BY <2>1 DEF RecordsInv, WritesInFlight, AnsweredEventsAreRecorded,
                TrackedSessionsAreRecorded
<1> QED
  BY <1>1, <1>2

(* Every step keeps the invariant. *)
LEMMA NextRecordsInv == RecordsInv /\ [Next]_vars => RecordsInv'
<1> SUFFICES ASSUME RecordsInv, [Next]_vars PROVE RecordsInv'
  OBVIOUS
<1>1. TypeOK'
  BY MachineTypeOK, ServingTypeOK, TickingTypeOK, StopNewTypeOK, StutterTypeOK
  DEF Next, RecordsInv
<1>2. now \in Int /\ now' \in Times
  BY <1>1, ConstantsAssumption DEF RecordsInv, TypeOK, Times
<1>3. CASE Machine \/ UNCHANGED vars
  <2>1. now' >= now /\ UNCHANGED <<memory, disk, acked>>
    BY <1>2, <1>3
    DEF Machine, Advance, Spawn, Grow, Exit, SetProcess, PostStart,
        PostActivity, PostEnd, Post, vars, env, memory, disk
  <2> QED
    BY <1>1, <1>2, <2>1, OutsideRecordsInv DEF RecordsInv
<1>4. CASE Serving
  BY <1>1, <1>4, ServingRecordsInv DEF RecordsInv
<1>5. CASE Ticking
  BY <1>1, <1>5, TickingRecordsInv DEF RecordsInv
<1>6. CASE Stop \/ New
  BY <1>1, <1>6, StopNewRecordsInv DEF RecordsInv
<1> QED
  BY <1>3, <1>4, <1>5, <1>6 DEF Next

(* The invariant holds in every behaviour. *)
LEMMA RecordsInvariant == Spec => []RecordsInv
  BY InitRecordsInv, NextRecordsInv, PTL DEF Spec

(* A hook that was answered finds its event in the audit log and its       *)
(* session in the history, whatever stops and restarts follow.             *)
THEOREM AnsweredIsDurable == Spec => []AnsweredEventsAreRecorded
<1>1. RecordsInv => AnsweredEventsAreRecorded
  BY DEF RecordsInv
<1> QED
  BY <1>1, RecordsInvariant, PTL

(* No session is known to the memory of the daemon only, except while the  *)
(* handler that announced it is still writing.                             *)
THEOREM TrackedIsRecorded == Spec => []TrackedSessionsAreRecorded
<1>1. RecordsInv => TrackedSessionsAreRecorded
  BY DEF RecordsInv
<1> QED
  BY <1>1, RecordsInvariant, PTL

-----------------------------------------------------------------------------
(* The peak on its way to the disk *)

(* Peaks are naturals, in memory, on disk and in Tick's queue. *)
LEMMA PeakTypes ==
    ASSUME TypeOK, NEW s \in Sessions
    PROVE  /\ tracked[s].peak \in Nat /\ history[s].peak \in Nat
           /\ tick.queue[s].peak \in Nat
<1>1. /\ tracked[s] \in Session /\ history[s] \in Session
      /\ tick.queue[s] \in Session
  BY DEF TypeOK, Tick
<1> QED
  BY <1>1, ConstantsAssumption DEF Session, Sizes

(* Every step keeps each peak on disk or on its way there. *)
LEMMA PeakOnItsWayStep ==
    ASSUME TypeOK, TypeOK', PeakOnItsWayToDisk, [Next]_vars
    PROVE  PeakOnItsWayToDisk'
<1> USE DEF env, memory, disk
<1> SUFFICES ASSUME ~ DiskMayFail, NEW s \in Sessions
             PROVE  \/ history'[s].peak >= tracked'[s].peak
                    \/ /\ tick'.pc = "persist"
                       /\ tick'.queue[s].peak >= tracked'[s].peak
  BY DEF PeakOnItsWayToDisk
<1>1. \/ history[s].peak >= tracked[s].peak
      \/ tick.pc = "persist" /\ tick.queue[s].peak >= tracked[s].peak
  BY DEF PeakOnItsWayToDisk
<1>2. /\ history'[s].peak >= history[s].peak
      /\ tracked[s].peak \in Nat /\ history[s].peak \in Nat
      /\ tick.queue[s].peak \in Nat
      /\ tracked'[s].peak \in Nat /\ history'[s].peak \in Nat
      /\ tick'.queue[s].peak \in Nat
  <2>1. /\ tracked'[s] \in Session /\ history'[s] \in Session
        /\ tick'.queue[s] \in Session
    BY DEF TypeOK, Tick
  <2> QED
    BY <2>1, PeakStep, PeakTypes, ConstantsAssumption DEF Session, Sizes
<1>3. CASE tick' = tick /\ tracked'[s].peak <= tracked[s].peak
  BY <1>1, <1>2, <1>3
<1>4. ASSUME NEW h \in Handlers, NEW e \in net, HandleEvent(h, e)
      PROVE  tick' = tick /\ tracked'[s].peak <= tracked[s].peak
  <2>1. e \in Event /\ e.id \in Sessions /\ tracked[e.id] \in Session
    BY DEF TypeOK, Event
  <2>2. CASE s = e.id
    BY <1>4, <2>1, <2>2, AppliedType DEF HandleEvent, TypeOK
  <2>3. CASE s # e.id
    BY <1>2, <1>4, <2>3 DEF HandleEvent, TypeOK
  <2> QED
    BY <2>2, <2>3
<1>5. CASE TickScan
  <2>1. tick.pc = "idle" /\ tracked' = tracked
    BY <1>5 DEF TickScan
  <2> QED
    BY <1>1, <1>2, <2>1
<1>6. CASE TickLocked
  <2>1. tick.pc = "scanned" /\ tracked'[s] = Kept(s)
    BY <1>6 DEF TickLocked
  <2>2. CASE ToPersist(s) = NoSession /\ Kept(s).peak <= tracked[s].peak
    BY <1>1, <1>2, <2>1, <2>2
  <2>3. CASE ToPersist(s) = Kept(s) /\ Kept(s).peak > tracked[s].peak
    <3> DEFINE queue == [t \in Sessions |-> ToPersist(t)]
    <3>1. queue[s].peak = tracked'[s].peak /\ queue[s].peak > 0
      BY <1>2, <2>1, <2>3
    <3>2. queue # NothingQueued
      BY <3>1 DEF NothingQueued, NoSession
    <3>3. tick' = [IdleTick EXCEPT !.pc = "persist", !.queue = queue]
      BY <1>6, <3>2 DEF TickLocked
    <3> HIDE DEF queue
    <3>4. tick'.pc = "persist" /\ tick'.queue = queue
      BY <3>3 DEF IdleTick
    <3> QED
      BY <1>2, <3>1, <3>4
  <2> QED
    BY <2>2, <2>3, KeptType
<1>7. ASSUME NEW t \in Sessions, TickPersist(t)
      PROVE  \/ history'[s].peak >= tracked'[s].peak
             \/ /\ tick'.pc = "persist"
                /\ tick'.queue[s].peak >= tracked'[s].peak
  <2>1. /\ tick.queue \in [Sessions -> Session]
        /\ history \in [Sessions -> Session]
        /\ tracked' = tracked
    BY <1>7 DEF TypeOK, Tick, TickPersist
  <2>2. CASE s = t
    <3>1. history'[s] = Upserted(history[s], tick.queue[s])
      BY <1>7, <2>1, <2>2 DEF TickPersist, Upsert
    <3>2. history'[s].peak >= tick.queue[s].peak
      BY <2>1, <3>1, UpsertedType
    <3> QED
      BY <1>1, <1>2, <2>1, <3>2
  <2>3. CASE s # t
    <3> DEFINE rest == [tick.queue EXCEPT ![t] = NoSession]
    <3>1. rest[s] = tick.queue[s]
      BY <2>1, <2>3
    <3>2. CASE rest = NothingQueued
      <4>1. tick.queue[s].peak = 0
        BY <3>1, <3>2 DEF NothingQueued, NoSession
      <4> QED
        BY <1>1, <1>2, <2>1, <4>1
    <3>3. CASE rest # NothingQueued
      <4>1. tick' = [tick EXCEPT !.queue = rest]
        BY <1>7, <3>3 DEF TickPersist
      <4> HIDE DEF rest
      <4>2. tick'.pc = tick.pc /\ tick'.queue = rest
        BY <4>1 DEF TypeOK, Tick
      <4> QED
        BY <1>1, <1>2, <2>1, <3>1, <4>2
    <3> QED
      BY <3>2, <3>3
  <2> QED
    BY <2>2, <2>3
<1>8. CASE Stop
  BY <1>2, <1>8 DEF Stop, NoSession
<1>9. CASE New
  <2>1. tracked'[s] \in {history[s], NoSession} /\ history' = history
    BY <1>9 DEF New
  <2> QED
    BY <1>2, <2>1 DEF NoSession
<1>10. CASE Machine \/ UNCHANGED vars \/ \E h \in Handlers : RecordEvent(h)
                                                       \/ UpsertAndReply(h)
  <2>1. tick' = tick /\ tracked' = tracked
    BY <1>10
    DEF Machine, Advance, Spawn, Grow, Exit, SetProcess, PostStart,
        PostActivity, PostEnd, Post, RecordEvent, UpsertAndReply, vars
  <2> QED
    BY <1>2, <1>3, <2>1
<1> QED
  BY <1>3, <1>4, <1>5, <1>6, <1>7, <1>8, <1>9, <1>10
  DEF Next, Serving, Ticking

(* On a disk that does not fail, only a stop of the daemon can lose a peak. *)
THEOREM PeakReachesDisk == Spec => []PeakOnItsWayToDisk
<1>1. Init => PeakOnItsWayToDisk
  BY DEF Init, PeakOnItsWayToDisk, NoSession
<1>2. TypeOK /\ TypeOK' /\ PeakOnItsWayToDisk /\ [Next]_vars
         => PeakOnItsWayToDisk'
  BY PeakOnItsWayStep
<1> QED
  BY <1>1, <1>2, TypeCorrect, PTL DEF Spec

-----------------------------------------------------------------------------
(* The grace period *)

(* What one step may do to a session the daemon tracks. *)
SessionLeavesRightly(s) ==
    up /\ up' /\ tracked[s].state # "none" /\ tracked'[s].state = "none" =>
        tracked[s].state = "ended" /\ now - tracked[s].endedAt > Grace

(* Only a Tick whose own clock saw the grace period over drops a session. *)
LEMMA GraceStep ==
    ASSUME RecordsInv, [Next]_vars, NEW s \in Sessions
    PROVE  SessionLeavesRightly(s)
<1> USE DEF env, memory, disk
<1>0. TypeOK /\ tick.at <= now
  BY DEF RecordsInv, WritesInFlight
<1> SUFFICES ASSUME tracked[s].state # "none", tracked'[s].state = "none", up, up'
             PROVE  tracked[s].state = "ended" /\ now - tracked[s].endedAt > Grace
  BY DEF SessionLeavesRightly
<1>1. ASSUME NEW h \in Handlers, NEW e \in net, HandleEvent(h, e)
      PROVE  FALSE
  <2>1. e \in Event /\ e.id \in Sessions /\ tracked[e.id] \in Session
    BY <1>0 DEF TypeOK, Event
  <2>2. s = e.id
    BY <1>0, <1>1 DEF HandleEvent, TypeOK
  <2> QED
    BY <1>0, <1>1, <2>1, <2>2, AppliedType DEF HandleEvent, TypeOK
<1>2. CASE TickLocked
  <2>1. Kept(s).state = "none"
    BY <1>2 DEF TickLocked
  <2>2. Expired(tracked[s], tick.at)
    BY <1>0, <2>1, KeptType
  <2>3. /\ tick.at \in Int /\ now \in Int /\ tracked[s].endedAt \in Int
        /\ Grace \in Int
    BY <1>0, ConstantsAssumption DEF TypeOK, Tick, Session, Times
  <2> QED
    BY <1>0, <2>2, <2>3 DEF Expired
<1>3. CASE tracked' = tracked
  BY <1>3
<1>4. \/ tracked' = tracked \/ TickLocked
      \/ \E h \in Handlers, e \in net : HandleEvent(h, e)
  BY DEF Next, Machine, Advance, Spawn, Grow, Exit, SetProcess, PostStart,
         PostActivity, PostEnd, Post, Serving, RecordEvent, UpsertAndReply,
         Ticking, TickScan, TickPersist, Stop, New, vars
<1> QED
  BY <1>1, <1>2, <1>3, <1>4

(* A session disappears only when the daemon stops or after its grace. *)
THEOREM GraceRespected == Spec => VisibleUntilGraceIsOver
<1>1. RecordsInv /\ [Next]_vars => [\A s \in Sessions : SessionLeavesRightly(s)]_vars
  BY GraceStep
<1> QED
  BY <1>1, RecordsInvariant, PTL
  DEF Spec, VisibleUntilGraceIsOver, SessionLeavesRightly

-----------------------------------------------------------------------------
(* The abstract book *)

(* While the daemon is down nothing is tracked. *)
DownIsEmpty == ~ up => \A s \in Sessions : tracked[s].state = "none"

(* Only a running daemon handles events; Tick keeps no session it lacks. *)
LEMMA DownIsEmptyInvariant == Spec => []DownIsEmpty
<1> USE DEF env, memory, disk
<1>1. Init => DownIsEmpty
  BY DEF Init, DownIsEmpty
<1>2. ASSUME DownIsEmpty, [Next]_vars
      PROVE  DownIsEmpty'
  <2>1. CASE TickLocked
    BY <1>2, <2>1 DEF DownIsEmpty, TickLocked, Kept, NoSession
  <2>2. CASE Stop
    BY <2>2 DEF DownIsEmpty, Stop, NoSession
  <2>3. CASE up' = up /\ (up \/ tracked' = tracked)
    BY <1>2, <2>3 DEF DownIsEmpty
  <2>4. CASE New
    BY <2>4 DEF DownIsEmpty, New
  <2>5. \/ TickLocked \/ Stop \/ New
        \/ up' = up /\ (up \/ tracked' = tracked)
    BY <1>2 DEF Next, Machine, Advance, Spawn, Grow, Exit, SetProcess,
         PostStart, PostActivity, PostEnd, Post, Serving, HandleEvent,
         RecordEvent, UpsertAndReply, Ticking, TickScan, TickPersist, vars
  <2> QED
    BY <2>1, <2>2, <2>3, <2>4, <2>5
<1> QED
  BY <1>1, <1>2, PTL DEF Spec

(* A write of the history is a write of the book, or was lost. *)
LEMMA UpsertWrites ==
    ASSUME TypeOK, NEW t \in Sessions, NEW copy \in Session,
           copy.state # "none", Upsert(t, copy)
    PROVE  Book!Write(t) \/ (DiskMayFail /\ history' = history)
<1>1. CASE DiskMayFail /\ history' = history
  BY <1>1
<1>2. CASE history' = [history EXCEPT ![t] = Upserted(@, copy)]
  <2>1. /\ history \in [Sessions -> Session]
        /\ history'[t] = Upserted(history[t], copy)
        /\ \A s \in Sessions \ {t} : history'[s] = history[s]
    BY <1>2 DEF TypeOK
  <2>2. /\ history'[t].state \in {"active", "ended"}
        /\ history'[t].peak >= history[t].peak
    BY <2>1, UpsertedType DEF Session
  <2> DEFINE states == [s \in Sessions |-> history[s].state]
             peaks == [s \in Sessions |-> history[s].peak]
  <2>3. [s \in Sessions |-> history'[s].state]
            = [states EXCEPT ![t] = history'[t].state]
    BY <2>1
  <2>4. [s \in Sessions |-> history'[s].peak]
            = [peaks EXCEPT ![t] = history'[t].peak]
    BY <2>1
  <2> QED
    BY <2>2, <2>3, <2>4 DEF Book!Write
<1> QED
  BY <1>1, <1>2 DEF Upsert

(* What an event does to the session it names is what the board shows. *)
LEMMA AppliedMoves ==
    ASSUME NEW s \in Session, NEW e \in Event
    PROVE  Applied(s, e).state = Book!After(s.state, e.kind)
<1>1. e.kind \in {"session_start", "session_end", "activity"}
  BY DEF Event, Kinds
<1>2. CASE e.kind = "session_start"
  BY <1>2 DEF Applied, Started, Session, Book!After
<1>3. CASE e.kind = "session_end"
  <2>1. /\ Applied(s, e) = Ended(s, e)
        /\ Book!After(s.state, e.kind) = "ended"
    BY <1>3 DEF Applied, Book!After
  <2> QED
    BY <2>1 DEF Ended, Created, NoSession, Session
<1>4. CASE e.kind = "activity"
  <2>1. Applied(s, e) = [Created(s, e) EXCEPT !.lastActive = e.at]
    BY <1>4 DEF Applied, Active
  <2>2. Applied(s, e).state = Created(s, e).state
    BY <2>1 DEF Created, NoSession, Session
  <2>3. Created(s, e).state = IF s.state = "none" THEN "active" ELSE s.state
    BY DEF Created, NoSession
  <2> QED
    BY <1>4, <2>2, <2>3 DEF Book!After
<1> QED
  BY <1>1, <1>2, <1>3, <1>4

(* Every step of the daemon is a step of the book, or changes none of it. *)
LEMMA BookStep ==
    ASSUME RecordsInv, DownIsEmpty, [Next]_vars
    PROVE  [Book!Next]_(Book!vars)
<1> USE DEF env, memory, disk
<1>0. /\ TypeOK
      /\ tracked \in [Sessions -> Session] /\ history \in [Sessions -> Session]
      /\ tick.queue \in [Sessions -> Session]
  BY DEF RecordsInv, TypeOK, Tick
<1> DEFINE board == [s \in Sessions |-> tracked[s].state]
<1>1. ASSUME NEW h \in Handlers, NEW e \in net, HandleEvent(h, e)
      PROVE  Book!Accept(e) /\ e \in Event
  <2>1. e \in Event /\ e.id \in Sessions /\ tracked[e.id] \in Session
    BY <1>0 DEF TypeOK, Event
  <2>2. /\ tracked'[e.id].state = Book!After(tracked[e.id].state, e.kind)
        /\ \A s \in Sessions \ {e.id} : tracked'[s] = tracked[s]
    BY <1>0, <1>1, <2>1, AppliedMoves DEF HandleEvent
  <2>3. [s \in Sessions |-> tracked'[s].state]
            = [board EXCEPT ![e.id] = Book!After(@, e.kind)]
    BY <2>1, <2>2
  <2> QED
    BY <1>1, <2>1, <2>3 DEF HandleEvent, Book!Accept
<1>2. ASSUME NEW h \in Handlers, handlers[h].pc # "idle"
      PROVE  /\ handlers[h].event \in Event /\ handlers[h].event.id \in Sessions
             /\ handlers[h].copy \in Session
             /\ handlers[h].copy.state # "none"
  BY <1>0, <1>2
  DEF TypeOK, Handler, IdleHandler, Event, RecordsInv, WritesInFlight
<1>3. ASSUME NEW h \in Handlers, RecordEvent(h)
      PROVE  (\E e \in Event : Book!Log(e)) \/ UNCHANGED Book!vars
  <2>1. PICK e \in Event : e = handlers[h].event
    BY <1>2, <1>3 DEF RecordEvent
  <2>2. UNCHANGED <<up, tracked, history, acked>>
    BY <1>3 DEF RecordEvent
  <2>3. audit' \in {audit, audit \cup {e}}
    BY <1>3, <2>1 DEF RecordEvent
  <2> QED
    BY <2>1, <2>2, <2>3 DEF Book!Log, Book!vars
<1>4. ASSUME NEW h \in Handlers, UpsertAndReply(h)
      PROVE  \E e \in Event : Book!Answer(e)
  <2>0. handlers[h].pc # "idle"
    BY <1>4 DEF UpsertAndReply
  <2>1. PICK e \in Event, copy \in Session :
           /\ e = handlers[h].event /\ copy = handlers[h].copy
           /\ e.id \in Sessions /\ copy.state # "none"
    BY <1>2, <2>0
  <2>2. Book!Write(e.id) \/ (DiskMayFail /\ history' = history)
    <3>1. Upsert(e.id, copy)
      BY <1>4, <2>1 DEF UpsertAndReply
    <3> QED
      BY <1>0, <2>1, <3>1, UpsertWrites
  <2>3. DiskMayFail \/ e \in audit
    BY <1>4, <2>1 DEF UpsertAndReply, RecordsInv, WritesInFlight
  <2>4. acked' = acked \cup {e} /\ UNCHANGED <<up, tracked, audit>>
    BY <1>4, <2>1 DEF UpsertAndReply
  <2>5. \/ e \in audit /\ Book!Write(e.id)
        \/ DiskMayFail /\ Book!Write(e.id)
        \/ DiskMayFail /\ history' = history
    BY <2>2, <2>3
  <2>6. Book!Answer(e)
    BY <2>4, <2>5 DEF Book!Answer
  <2> QED
    BY <2>6
<1>5. CASE TickLocked
  <2>1. /\ \A s \in Sessions : tracked'[s] = Kept(s)
        /\ UNCHANGED <<up, history, audit, acked>>
    BY <1>5 DEF TickLocked
  <2> DEFINE S == {s \in Sessions : /\ tracked[s].state = "ended"
                                    /\ tracked'[s].state = "none"}
  <2>2. ASSUME NEW s \in Sessions
        PROVE  tracked'[s].state = IF s \in S THEN "none" ELSE tracked[s].state
    <3>1. Kept(s).state \in {"none", tracked[s].state}
      BY <1>0, KeptType
    <3>2. tracked[s].state # "none" /\ Kept(s).state = "none"
             => tracked[s].state = "ended"
      BY <1>0, KeptType DEF Expired
    <3> QED
      BY <2>1, <3>1, <3>2
  <2>3. /\ S \in SUBSET {s \in Sessions : board[s] = "ended"}
        /\ [s \in Sessions |-> tracked'[s].state]
               = [s \in Sessions |-> IF s \in S THEN "none" ELSE board[s]]
    BY <2>2
  <2> HIDE DEF S
  <2>4. Book!Leave
    BY <2>1, <2>3 DEF Book!Leave
  <2> QED
    BY <2>4 DEF Book!Next
<1>6. ASSUME NEW t \in Sessions, TickPersist(t)
      PROVE  Book!Record(t) \/ UNCHANGED Book!vars
  <2>1. Upsert(t, tick.queue[t]) /\ UNCHANGED <<up, tracked, audit, acked>>
    BY <1>6 DEF TickPersist
  <2>2. tick.queue[t] \in Session /\ tick.queue[t].state # "none"
    BY <1>0, <1>6 DEF TickPersist, RecordsInv, WritesInFlight
  <2>3. Book!Write(t) \/ history' = history
    BY <1>0, <2>1, <2>2, UpsertWrites
  <2> QED
    BY <2>1, <2>3 DEF Book!Record, Book!vars
<1>7. CASE Stop
  <2>1. /\ [s \in Sessions |-> tracked'[s].state] = Book!Empty
        /\ up /\ up' = FALSE /\ UNCHANGED <<history, audit, acked>>
    BY <1>7 DEF Stop, NoSession, Book!Empty
  <2> QED
    BY <2>1 DEF Book!Stop, Book!Next
<1>8. CASE New
  <2>1. /\ board = Book!Empty
        /\ ~ up /\ up' = TRUE /\ UNCHANGED <<history, audit, acked>>
    BY <1>8 DEF New, DownIsEmpty, Book!Empty
  <2>2. PICK recent \in RecentSessions :
           tracked' = [s \in Sessions |->
                         IF s \in recent /\ history[s].state = "active"
                         THEN history[s] ELSE NoSession]
    BY <1>8 DEF New
  <2> DEFINE S == {s \in Sessions : s \in recent /\ history[s].state = "active"}
             states == [s \in Sessions |-> history[s].state]
  <2>3. /\ S \in SUBSET {s \in Sessions : states[s] = "active"}
        /\ [s \in Sessions |-> tracked'[s].state]
               = [s \in Sessions |-> IF s \in S THEN "active" ELSE "none"]
    BY <2>2 DEF NoSession
  <2> HIDE DEF S
  <2>4. Book!Restart
    BY <2>1, <2>3 DEF Book!Restart
  <2> QED
    BY <2>4 DEF Book!Next
<1>9. CASE UNCHANGED <<up, tracked, history, audit, acked>>
  BY <1>9 DEF Book!vars
<1>10. \/ UNCHANGED <<up, tracked, history, audit, acked>>
       \/ Serving \/ TickLocked \/ Stop \/ New
       \/ \E t \in Sessions : TickPersist(t)
  BY DEF Next, Machine, Advance, Spawn, Grow, Exit, SetProcess, PostStart,
         PostActivity, PostEnd, Post, Ticking, TickScan, vars
<1>11. CASE Serving
  <2>1. PICK h \in Handlers : \/ \E e \in net : HandleEvent(h, e)
                             \/ RecordEvent(h) \/ UpsertAndReply(h)
    BY <1>11 DEF Serving
  <2>2. CASE \E e \in net : HandleEvent(h, e)
    BY <1>1, <2>2 DEF Book!Next
  <2>3. CASE RecordEvent(h)
    BY <1>3, <2>3 DEF Book!Next
  <2>4. CASE UpsertAndReply(h)
    BY <1>4, <2>4 DEF Book!Next
  <2> QED
    BY <2>1, <2>2, <2>3, <2>4
<1>12. CASE \E t \in Sessions : TickPersist(t)
  BY <1>6, <1>12 DEF Book!Next
<1> QED
  BY <1>5, <1>7, <1>8, <1>9, <1>10, <1>11, <1>12

(* SessionTracker implements SessionBook: whatever handlers, Ticks, stops  *)
(* and failing writes interleave, who posts events, reads the dashboard or *)
(* restarts the daemon sees a board and a book that keep to its rules.     *)
THEOREM BookIsKept == Spec => KeepsTheBook
<1>1. Init => Book!Init
  BY DEF Init, Book!Init, Book!Empty, NoSession
<1>2. RecordsInv /\ DownIsEmpty /\ [Next]_vars => [Book!Next]_(Book!vars)
  BY BookStep
<1> QED
  BY <1>1, <1>2, RecordsInvariant, DownIsEmptyInvariant, PTL
  DEF Spec, KeepsTheBook, Book!Spec
=============================================================================
