--------------------------- MODULE SessionTracker ---------------------------
(***************************************************************************)
(* The daemon's tracked sessions (d.sessions) and the session history on   *)
(* disk (sessions/<id>.json, events.jsonl).  Hook processes post lifecycle *)
(* events; every request runs HandleEvent on a goroutine of its own, which *)
(* updates the map under d.mu and writes to disk only after it unlocked.   *)
(* One scan loop runs Tick, which prunes, raises peak memory under d.mu and*)
(* also writes after it unlocked.  The daemon can stop between any two     *)
(* steps; New rehydrates the map from disk.                                *)
(*                                                                         *)
(* Time is counted in units in which EndedSessionGrace is Grace.  A time,  *)
(* pid or size of 0 is Go's zero value: not set.  The descriptive fields   *)
(* of a session (agent, cwd, project, launch id, transcript path, model)   *)
(* and the dashboard snapshot are left out.                                *)
(***************************************************************************)
EXTENDS Integers, FiniteSets

CONSTANTS Sessions,        \* session ids
          Pids,            \* process ids
          Handlers,        \* HTTP requests the daemon serves at a time
          Grace,           \* EndedSessionGrace
          RehydrateLimit,  \* the 200 of New's RecentSessions call
          MaxRss,          \* bound: memory of a process tree
          MaxTime,         \* bound: the clock
          Horizon,         \* bound: agents act and the daemon stops up to here
          MaxPosts,        \* bound: events one session posts
          MaxStops,        \* bound: times the daemon stops
          DiskMayFail      \* whether a write of the history may fail

ASSUME ConstantsAssumption ==
    /\ Pids \subseteq Nat \ {0}
    /\ Grace \in Nat
    /\ RehydrateLimit \in Nat
    /\ {MaxRss, MaxTime, Horizon, MaxPosts, MaxStops} \subseteq Nat
    /\ MaxTime >= 1
    /\ DiskMayFail \in BOOLEAN

VARIABLES
    now,       \* the clock of the machine
    procs,     \* OS: pid -> start time and tree memory of the process
    agents,    \* per session: what the agent is doing, events posted so far
    net,       \* events posted and not yet taken by a handler
    up,        \* the daemon is running
    tracked,   \* d.sessions
    handlers,  \* the requests being served
    tick,      \* the Tick in progress
    history,   \* sessions/<id>.json
    audit,     \* events.jsonl
    acked,     \* events the daemon answered with 204
    stops,     \* how often the daemon stopped
    atStop     \* d.sessions when the daemon last stopped with nothing in flight

env == <<now, procs, agents>>
memory == <<tracked, handlers, tick>>
disk == <<history, audit>>
vars == <<now, procs, agents, net, up, tracked, handlers, tick, history, audit,
          acked, stops, atStop>>

-----------------------------------------------------------------------------
(* Data *)

Times == 0 .. MaxTime
Sizes == 0 .. MaxRss
PidOrNone == Pids \cup {0}

Kinds == {"session_start", "session_end", "activity"}

Session == [state      : {"none", "active", "ended"},
            startedAt  : Times,
            endedAt    : Times,
            lastActive : Times,
            rootPid    : PidOrNone,
            procStart  : Times,
            peak       : Sizes]

NoSession == [state |-> "none", startedAt |-> 0, endedAt |-> 0,
              lastActive |-> 0, rootPid |-> 0, procStart |-> 0, peak |-> 0]

Event == [kind : Kinds, id : Sessions, pid : PidOrNone, at : Times]
NoEvent == [kind |-> "none"]

Process == [started : Times, rss : Sizes]
NoProcess == [started |-> 0, rss |-> 0]

IdleHandler == [pc |-> "idle", event |-> NoEvent, copy |-> NoSession]
Handler == {IdleHandler}
           \cup [pc : {"record", "upsert"}, event : Event, copy : Session]

Agent == [phase : {"off", "on"}, posted : 0 .. MaxPosts]

NothingQueued == [s \in Sessions |-> NoSession]
IdleTick == [pc |-> "idle", at |-> 0, scan |-> [p \in Pids |-> NoProcess],
             queue |-> NothingQueued]
Tick == [pc : {"idle", "scanned", "persist"}, at : Times,
         scan : [Pids -> Process], queue : [Sessions -> Session]]

(* What one hook event does to the session it names, under d.mu.  An event *)
(* of a session the map does not hold creates it.                          *)
Started(s, e) ==
    [s EXCEPT !.state = "active", !.startedAt = e.at, !.lastActive = e.at,
              !.endedAt = 0, !.rootPid = e.pid]

Created(s, e) ==
    IF s.state = "none"
    THEN [NoSession EXCEPT !.state = "active", !.startedAt = e.at]
    ELSE s

(* Fault: the end of an unknown session leaves EndedAt nil. *)
EndedNoTimeIfUnknown(s, e) ==
    [Created(s, e) EXCEPT !.state = "ended", !.lastActive = e.at,
                          !.endedAt = IF s.state = "none" THEN 0 ELSE e.at]

Ended(s, e) ==
    [Created(s, e) EXCEPT !.state = "ended", !.endedAt = e.at,
                          !.lastActive = e.at]

Active(s, e) == [Created(s, e) EXCEPT !.lastActive = e.at]

Applied(s, e) ==
    CASE e.kind = "session_start" -> Started(s, e)
      [] e.kind = "session_end"   -> Ended(s, e)
      [] e.kind = "activity"      -> Active(s, e)

(* Faults: the record is overwritten; the two peaks are added up. *)
UpsertedBlindly(old, s) == s
UpsertedSum(old, s) == [s EXCEPT !.peak = @ + old.peak]

(* The record UpsertSession writes over the one it finds: the caller's     *)
(* fields, and the larger of the two peaks.                                *)
Upserted(old, s) ==
    [s EXCEPT !.peak = IF old.peak > s.peak THEN old.peak ELSE s.peak]

(* Fault: the grace period is one unit short. *)
ExpiredEarly(s, t) ==
    s.state = "ended" /\ s.endedAt # 0 /\ t - s.endedAt >= Grace

(* A session Tick prunes at time t. *)
Expired(s, t) == s.state = "ended" /\ s.endedAt # 0 /\ t - s.endedAt > Grace

(* A session Tick keeps, after the scan: the start time of the process     *)
(* with its root pid is taken once, the peak is raised.                    *)
TreeRss(s, scan) == IF s.rootPid \in Pids THEN scan[s.rootPid].rss ELSE 0

Scanned(s, scan) ==
    [s EXCEPT !.procStart = IF @ = 0 /\ s.rootPid \in Pids
                            THEN scan[s.rootPid].started ELSE @,
              !.peak = IF TreeRss(s, scan) > @ THEN TreeRss(s, scan) ELSE @]

(* RecentSessions(limit): the most recently started records; records that  *)
(* started at the same time come in any order.                             *)
RecentSessions ==
    LET recorded == {s \in Sessions : history[s].state # "none"}
    IN  {R \in SUBSET recorded :
            /\ Cardinality(R) = IF Cardinality(recorded) > RehydrateLimit
                                THEN RehydrateLimit ELSE Cardinality(recorded)
            /\ \A r \in R, s \in recorded \ R :
                  history[r].startedAt >= history[s].startedAt}

-----------------------------------------------------------------------------
Init ==
    /\ now = 1
    /\ procs = [p \in Pids |-> NoProcess]
    /\ agents = [s \in Sessions |-> [phase |-> "off", posted |-> 0]]
    /\ net = {}
    /\ up = TRUE
    /\ tracked = [s \in Sessions |-> NoSession]
    /\ handlers = [h \in Handlers |-> IdleHandler]
    /\ tick = IdleTick
    /\ history = [s \in Sessions |-> NoSession]
    /\ audit = {}
    /\ acked = {}
    /\ stops = 0
    /\ atStop = [s \in Sessions |-> NoSession]

-----------------------------------------------------------------------------
(* The machine the daemon runs on, and the agents it watches *)

Advance ==
    /\ now < MaxTime
    /\ now' = now + 1
    /\ UNCHANGED <<procs, agents, net, up, memory, disk, acked, stops, atStop>>

(* A process starts, changes its memory, exits; the OS reuses pids. *)
SetProcess(p, process) ==
    /\ now <= Horizon
    /\ procs' = [procs EXCEPT ![p] = process]
    /\ UNCHANGED <<now, agents, net, up, memory, disk, acked, stops, atStop>>

Spawn(p) ==
    /\ procs[p].started = 0
    /\ \E r \in Sizes : SetProcess(p, [started |-> now, rss |-> r])

Grow(p) ==
    /\ procs[p].started # 0
    /\ \E r \in Sizes : SetProcess(p, [procs[p] EXCEPT !.rss = r])

Exit(p) == procs[p].started # 0 /\ SetProcess(p, NoProcess)

(* A hook command stamps the event with its own clock and posts it once.   *)
(* Hook processes of one session may overlap, so nothing orders their      *)
(* posts.  An event whose hook finds no daemon, or gives up after          *)
(* hookTimeout before it is accepted, is one that no handler ever takes.   *)
Post(s, kind, pid, phase) ==
    /\ now <= Horizon
    /\ agents[s].posted < MaxPosts
    /\ agents' = [agents EXCEPT ![s] = [phase  |-> phase,
                                        posted |-> agents[s].posted + 1]]
    /\ net' = net \cup {[kind |-> kind, id |-> s, pid |-> pid, at |-> now]}
    /\ UNCHANGED <<now, procs, up, memory, disk, acked, stops, atStop>>

PostStart(s) ==
    /\ agents[s].phase = "off"
    /\ \E p \in Pids : procs[p].started # 0 /\ Post(s, "session_start", p, "on")

PostActivity(s) == agents[s].phase = "on" /\ Post(s, "activity", 0, "on")

PostEnd(s) == agents[s].phase = "on" /\ Post(s, "session_end", 0, "off")

-----------------------------------------------------------------------------
(* HandleEvent: the locked part, the audit log, the history record *)

HandleEvent(h, e) ==
    /\ up
    /\ handlers[h].pc = "idle"
    /\ net' = net \ {e}
    /\ tracked' = [tracked EXCEPT ![e.id] = Applied(@, e)]
    /\ handlers' = [handlers EXCEPT ![h] =
                       [pc |-> "record", event |-> e, copy |-> tracked'[e.id]]]
    /\ UNCHANGED <<env, up, tick, disk, acked, stops, atStop>>

(* Fault: only the events that start or end a session are logged. *)
RecordLifecycleEvent(h) ==
    /\ handlers[h].pc = "record"
    /\ audit' = IF handlers[h].event.kind = "activity" THEN audit
                ELSE audit \cup {handlers[h].event}
    /\ handlers' = [handlers EXCEPT ![h].pc = "upsert"]
    /\ UNCHANGED <<env, net, up, tracked, tick, history, acked, stops, atStop>>

RecordEvent(h) ==
    /\ handlers[h].pc = "record"
    /\ \/ audit' = audit \cup {handlers[h].event}
       \/ DiskMayFail /\ audit' = audit
    /\ handlers' = [handlers EXCEPT ![h].pc = "upsert"]
    /\ UNCHANGED <<env, net, up, tracked, tick, history, acked, stops, atStop>>

Upsert(s, copy) ==
    \/ history' = [history EXCEPT ![s] = Upserted(@, copy)]
    \/ DiskMayFail /\ history' = history

(* Fault: activity is kept in memory only. *)
UpsertLifecycleAndReply(h) ==
    /\ handlers[h].pc = "upsert"
    /\ IF handlers[h].event.kind = "activity" THEN UNCHANGED history
       ELSE Upsert(handlers[h].event.id, handlers[h].copy)
    /\ acked' = acked \cup {handlers[h].event}
    /\ handlers' = [handlers EXCEPT ![h] = IdleHandler]
    /\ UNCHANGED <<env, net, up, tracked, tick, audit, stops, atStop>>

(* A failed write is logged only: the hook is answered with 204 all the same. *)
UpsertAndReply(h) ==
    /\ handlers[h].pc = "upsert"
    /\ Upsert(handlers[h].event.id, handlers[h].copy)
    /\ acked' = acked \cup {handlers[h].event}
    /\ handlers' = [handlers EXCEPT ![h] = IdleHandler]
    /\ UNCHANGED <<env, net, up, tracked, tick, audit, stops, atStop>>

-----------------------------------------------------------------------------
(* Tick: the scan before the lock, the locked part, one write per raised peak *)

TickScan ==
    /\ up
    /\ tick.pc = "idle"
    /\ tick' = [tick EXCEPT !.pc = "scanned", !.at = now, !.scan = procs]
    /\ UNCHANGED <<env, net, up, tracked, handlers, disk, acked, stops, atStop>>

Kept(s) ==
    IF tracked[s].state = "none" \/ Expired(tracked[s], tick.at)
    THEN NoSession
    ELSE Scanned(tracked[s], tick.scan)

(* Fault: the copy is taken before the peak is raised. *)
ToPersistStale(s) ==
    IF Kept(s).peak > tracked[s].peak THEN tracked[s] ELSE NoSession

(* The copies of the sessions whose peak rose; NoSession for the others. *)
ToPersist(s) == IF Kept(s).peak > tracked[s].peak THEN Kept(s) ELSE NoSession

TickLocked ==
    /\ tick.pc = "scanned"
    /\ tracked' = [s \in Sessions |-> Kept(s)]
    /\ LET queue == [s \in Sessions |-> ToPersist(s)]
       IN  tick' = IF queue = NothingQueued THEN IdleTick
                   ELSE [IdleTick EXCEPT !.pc = "persist", !.queue = queue]
    /\ UNCHANGED <<env, net, up, handlers, disk, acked, stops, atStop>>

TickPersist(s) ==
    /\ tick.pc = "persist"
    /\ tick.queue[s] # NoSession
    /\ Upsert(s, tick.queue[s])
    /\ LET rest == [tick.queue EXCEPT ![s] = NoSession]
       IN  tick' = IF rest = NothingQueued THEN IdleTick
                   ELSE [tick EXCEPT !.queue = rest]
    /\ UNCHANGED <<env, net, up, tracked, handlers, audit, acked, stops, atStop>>

-----------------------------------------------------------------------------
(* The daemon stops, killed or shut down, and is started again *)

Quiescent == tick.pc = "idle" /\ \A h \in Handlers : handlers[h].pc = "idle"

Stop ==
    /\ up
    /\ stops < MaxStops
    /\ now <= Horizon
    /\ up' = FALSE
    /\ stops' = stops + 1
    /\ atStop' = IF Quiescent THEN tracked
                 ELSE [s \in Sessions |-> NoSession]
    /\ tracked' = [s \in Sessions |-> NoSession]
    /\ handlers' = [h \in Handlers |-> IdleHandler]
    /\ tick' = IdleTick
    /\ UNCHANGED <<env, net, disk, acked>>

(* Fault: sessions that had ended are tracked again too. *)
NewKeepingAll ==
    /\ ~ up
    /\ up' = TRUE
    /\ \E recent \in RecentSessions :
          tracked' = [s \in Sessions |->
                        IF s \in recent THEN history[s] ELSE NoSession]
    /\ UNCHANGED <<env, net, handlers, tick, disk, acked, stops, atStop>>

New ==
    /\ ~ up
    /\ up' = TRUE
    /\ \E recent \in RecentSessions :
          tracked' = [s \in Sessions |->
                        IF s \in recent /\ history[s].state = "active"
                        THEN history[s] ELSE NoSession]
    /\ UNCHANGED <<env, net, handlers, tick, disk, acked, stops, atStop>>

-----------------------------------------------------------------------------
Machine ==
    \/ Advance
    \/ \E p \in Pids : Spawn(p) \/ Grow(p) \/ Exit(p)
    \/ \E s \in Sessions : PostStart(s) \/ PostActivity(s) \/ PostEnd(s)

Serving ==
    \/ \E h \in Handlers, e \in net : HandleEvent(h, e)
    \/ \E h \in Handlers : RecordEvent(h) \/ UpsertAndReply(h)

Ticking == TickScan \/ TickLocked \/ \E s \in Sessions : TickPersist(s)

Next == Machine \/ Serving \/ Ticking \/ Stop \/ New

Spec == Init /\ [][Next]_vars

(* The scan loop's ticker keeps firing, a handler goroutine that runs keeps *)
(* running, and time passes.                                                *)
Fairness ==
    /\ WF_vars(Advance)
    /\ WF_vars(Ticking)
    /\ WF_vars(\E h \in Handlers : RecordEvent(h) \/ UpsertAndReply(h))

FairSpec == Spec /\ Fairness

-----------------------------------------------------------------------------
(* What must be true of it *)

(* Every variable holds a value of its kind. *)
TypeOK ==
    /\ now \in Times
    /\ procs \in [Pids -> Process]
    /\ agents \in [Sessions -> Agent]
    /\ net \subseteq Event
    /\ up \in BOOLEAN
    /\ tracked \in [Sessions -> Session]
    /\ handlers \in [Handlers -> Handler]
    /\ tick \in Tick
    /\ history \in [Sessions -> Session]
    /\ audit \subseteq Event
    /\ acked \subseteq Event
    /\ stops \in 0 .. MaxStops
    /\ atStop \in [Sessions -> Session]

(* Whatever writers race, crash and restart, the peak recorded on disk for *)
(* a session never goes down: UpsertSession merges, it does not overwrite. *)
PeakNeverDecreases ==
    [][\A s \in Sessions : history'[s].peak >= history[s].peak]_vars

(* A peak the daemon shows is on disk or still queued by the Tick that     *)
(* raised it, so that only a stop in between can lose it (and only a disk  *)
(* that fails, since no later Tick writes a peak that did not rise again). *)
PeakOnItsWayToDisk ==
    ~ DiskMayFail =>
        \A s \in Sessions :
            \/ history[s].peak >= tracked[s].peak
            \/ tick.pc = "persist" /\ tick.queue[s].peak >= tracked[s].peak

(* Once a hook was answered, its event is in the audit log and its session *)
(* is in the history, across every later stop.                             *)
AnsweredEventsAreRecorded ==
    ~ DiskMayFail =>
        \A e \in acked : e \in audit /\ history[e.id].state # "none"

(* A session the daemon tracks is already in the history, or a handler     *)
(* that will put it there is under way: nothing is known to memory only.   *)
TrackedSessionsAreRecorded ==
    ~ DiskMayFail =>
        \A s \in Sessions :
            tracked[s].state # "none" =>
                \/ history[s].state # "none"
                \/ \E h \in Handlers : /\ handlers[h].pc # "idle"
                                       /\ handlers[h].event.id = s

(* What the writes under way carry: records of sessions that exist, events *)
(* logged before their record is written, a scan that is not of the future.*)
(* The two properties above are inductive together with it.                *)
WritesInFlight ==
    /\ \A h \in Handlers :
          handlers[h].pc # "idle" => handlers[h].copy.state # "none"
    /\ \A h \in Handlers :
          ~ DiskMayFail /\ handlers[h].pc = "upsert"
             => handlers[h].event \in audit
    /\ \A s \in Sessions :
          tick.queue[s] # NoSession => tick.queue[s].state # "none"
    /\ tick.at <= now

(* A session leaves the dashboard only when the daemon stops, or more than *)
(* EndedSessionGrace after its last session_end: never while it is active, *)
(* and never because of a Tick that scanned before the session ended.      *)
VisibleUntilGraceIsOver ==
    [][\A s \in Sessions :
          up /\ up' /\ tracked[s].state # "none" /\ tracked'[s].state = "none" =>
              tracked[s].state = "ended" /\ now - tracked[s].endedAt > Grace]_vars

(* A session that ended does not stay on the dashboard for ever: it is     *)
(* pruned, the daemon stops, or an agent starts it again.                  *)
EndedSessionsLeave ==
    \A s \in Sessions :
        tracked[s].state = "ended" ~> tracked[s].state # "ended"

(* Seen from outside the daemon keeps a board and a book: the states of    *)
(* what it tracks, and the history.                                        *)
Book == INSTANCE SessionBook WITH
            open     <- up,
            board    <- [s \in Sessions |-> tracked[s].state],
            book     <- [s \in Sessions |-> history[s].state],
            peak     <- [s \in Sessions |-> history[s].peak],
            log      <- audit,
            answered <- acked,
            Lossy    <- DiskMayFail

(* HandleEvent, Tick, Stop and New keep SessionBook's promises: who is     *)
(* answered finds the event and the session on disk, what is on disk stays,*)
(* nobody leaves the board before the end, and a restart fills the board   *)
(* with what the book has as active.                                       *)
KeepsTheBook == Book!Spec

(* New's comment (daemon.go:180): a restart does not forget sessions that  *)
(* were active when the daemon last stopped.  The code keeps this only     *)
(* while there are no more than RehydrateLimit records (see README.md).    *)
RestartForgetsNothing ==
    [][New => \A s \in Sessions : atStop[s].state = "active"
                                    => tracked'[s].state = "active"]_vars

(* And what it rehydrates are sessions that were still active then.  Two   *)
(* handlers that write in the other order break this.                      *)
RestartRevivesNothing ==
    [][New => \A s \in Sessions : atStop[s].state = "ended"
                                    => tracked'[s].state = "none"]_vars
=============================================================================
