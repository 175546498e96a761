-------------------------------- MODULE Rows --------------------------------
(***************************************************************************)
(* The list of rows clients see, and the three that compose it: Tick, when *)
(* it made new process rows (see Discovery), IngestTelemetry and           *)
(* refreshUsage, when a telemetry session or a transcript changed.  Each   *)
(* composes the whole list anew from what the daemon holds, under d.mu.    *)
(*                                                                         *)
(* Time is counted in units of which two moments less than 2 s apart (a    *)
(* process and its telemetry) share one.  Time, directory and pid 0 are    *)
(* Go's zero values.                                                       *)
(***************************************************************************)
EXTENDS Attribution

CONSTANTS Dirs,         \* working directories
          Processes,    \* what telemetry may name: pids with their start
          ProcessRows,  \* what Tick may make of the processes it finds
          MaxTime,      \* bound: the clock
          MaxTicks,     \* bound: Ticks
          MaxReports,   \* bound: telemetry events
          MaxWrites     \* bound: transcript writes

Times == 0 .. MaxTime
Identity == [pid : Pids, start : Times \ {0}]
Row == [agent : Agents \cup {NoAgent}, scope : {"owned", "shared"},
        attribution : {"confirmed", "probable", "shared"},
        launch : Launches \cup {NoLaunch}, cwd : Dirs \cup {0},
        startedAt : Times, tree : SUBSET Identity]

ASSUME RowsAssumption ==
    /\ Dirs \subseteq Nat \ {0}
    /\ {MaxTime, MaxTicks, MaxReports, MaxWrites} \subseteq Nat
    /\ MaxTime >= 1
    /\ Processes \subseteq Identity
    /\ \A rows \in ProcessRows :
          /\ DOMAIN rows \subseteq RowIds
          /\ \A i \in DOMAIN rows :
                /\ rows[i] \in Row
                /\ IF i \in Pids
                   THEN /\ rows[i].agent \in Agents
                        /\ rows[i].scope = resourceScopeForAgent(rows[i].agent)
                        /\ rows[i].attribution =
                              IF rows[i].scope = "shared" THEN "shared" ELSE "probable"
                   ELSE rows[i].scope = "owned" /\ rows[i].attribution = "confirmed"

VARIABLES
    now,        \* the clock
    rows,       \* d.processSessions
    telemetry,  \* d.telemetrySessions
    sources,    \* d.usageSources
    snapshot,   \* d.snapshot's sessions, and when they were composed
    ticks,      \* Ticks so far
    reports,    \* telemetry events so far
    writes      \* transcript writes so far

vars == <<now, rows, telemetry, sources, snapshot, ticks, reports, writes>>

-----------------------------------------------------------------------------
TelemetryEvent == [cwd : Dirs \cup {0}, launch : Launches \cup {NoLaunch},
                   process : Processes \cup {[pid |-> 0, start |-> 0]}]
TelemetrySession == [cwd : Dirs \cup {0}, launch : Launches \cup {NoLaunch},
                     pid : Pids \cup {0}, created : Times,
                     startedAt : Times, updatedAt : Times]
UsageSource == [cwd : Dirs, startedAt : Times, updatedAt : Times]

NewSession == [cwd |-> 0, launch |-> NoLaunch, pid |-> 0, created |-> 0,
               startedAt |-> now, updatedAt |-> now]

Init ==
    /\ now = 1
    /\ rows = <<>>
    /\ telemetry = <<>>
    /\ sources = <<>>
    /\ snapshot = [at |-> 1, sessions |-> <<>>]
    /\ ticks = 0
    /\ reports = 0
    /\ writes = 0

Pass ==
    /\ now < MaxTime
    /\ now' = now + 1
    /\ UNCHANGED <<rows, telemetry, sources, snapshot, ticks, reports, writes>>

(* The list is made of what memory holds by the end of the locked part. *)
Compose ==
    \E list \in Compositions(rows', telemetry', sources', now) :
        snapshot' = [at |-> now, sessions |-> list]

Tick ==
    /\ ticks < MaxTicks
    /\ ticks' = ticks + 1
    /\ rows' \in ProcessRows
    /\ UNCHANGED <<now, telemetry, sources, reports, writes>>
    /\ Compose

(* A field that the event does not set keeps its value. *)
Ingested(old, event) ==
    [old EXCEPT !.cwd = IF event.cwd # 0 THEN event.cwd ELSE @,
                !.launch = IF event.launch # NoLaunch THEN event.launch ELSE @,
                !.pid = IF event.process.pid # 0 THEN event.process.pid ELSE @,
                !.created = IF event.process.pid # 0 THEN event.process.start ELSE @,
                !.updatedAt = now]

IngestTelemetry(k) ==
    /\ reports < MaxReports
    /\ reports' = reports + 1
    /\ \E event \in TelemetryEvent :
          LET old == IF k \in DOMAIN telemetry THEN telemetry[k] ELSE NewSession
          IN  telemetry' = With(telemetry, k, Ingested(old, event))
    /\ UNCHANGED <<now, rows, sources, ticks, writes>>
    /\ Compose

(* The collector found that the session's transcript was written. *)
refreshUsage(k) ==
    /\ writes < MaxWrites
    /\ writes' = writes + 1
    /\ \E dir \in Dirs :
          LET since == IF k \in DOMAIN sources THEN sources[k].startedAt ELSE now
          IN  sources' = With(sources, k, [cwd |-> dir, startedAt |-> since, updatedAt |-> now])
    /\ UNCHANGED <<now, rows, telemetry, ticks, reports>>
    /\ Compose

Next == Pass \/ Tick \/ \E k \in Keys : IngestTelemetry(k) \/ refreshUsage(k)

Spec == Init /\ [][Next]_vars

-----------------------------------------------------------------------------
(* What must be true of it *)

(* Every variable holds a value of its kind, and the list has lines for the *)
(* process rows and for sessions, with nobody else's tokens.                *)
TypeOK ==
    /\ now \in Times
    /\ rows = <<>> \/ rows \in ProcessRows
    /\ DOMAIN telemetry \subseteq Keys
    /\ \A k \in DOMAIN telemetry : telemetry[k] \in TelemetrySession
    /\ DOMAIN sources \subseteq Keys
    /\ \A k \in DOMAIN sources : sources[k] \in UsageSource
    /\ snapshot.at \in Times
    /\ \A n \in DOMAIN snapshot.sessions :
          snapshot.sessions[n] \in
              [id : RowIds, of : RowIds \cup {NoRow},
               usage : {<<>>} \cup (Keys \X {"telemetry", "transcript"}),
               attribution : {"confirmed", "probable", "shared", "none"}]
    /\ ticks \in 0 .. MaxTicks
    /\ reports \in 0 .. MaxReports
    /\ writes \in 0 .. MaxWrites

(* The agent a line shows: its process row's, or the session's. *)
AgentOfLine(line) == IF line.of = NoRow THEN AgentOf[line.id] ELSE rows[line.of].agent

(* Whatever the order of the maps, no id is listed twice for one agent,    *)
(* neither a session's nor a process row's.  (An id may be listed for two: *)
(* the row of a session that was only heard to end has no agent, and       *)
(* telemetry of the session is listed beside it.)                          *)
NoSessionListedTwice ==
    \A m, n \in DOMAIN snapshot.sessions :
        LET one == snapshot.sessions[m]
            other == snapshot.sessions[n]
        IN  one.id = other.id /\ AgentOfLine(one) = AgentOfLine(other) => m = n

(* What the last composition knew of sessions. *)
Known == RecentKeys(telemetry, sources, snapshot.at)
Hint(k) == Hints(telemetry, sources, snapshot.at)[k]

(* Every process row that anything says is session k's. *)
SaidToBe(k) ==
    {i \in DOMAIN rows :
        \/ i = k /\ rows[i].agent = AgentOf[k]
        \/ Fits(rows[i], Hint(k))
        \/ /\ k \in Recent(telemetry, snapshot.at)
           /\ \/ i \in processByLaunch(rows, k, telemetry[k].launch)
              \/ /\ rows[i].scope = "owned" /\ rows[i].agent = AgentOf[k]
                 /\ \E process \in rows[i].tree :
                       process = [pid |-> telemetry[k].pid, start |-> telemetry[k].created]}

(* Nothing else says it of another row, or of another session. *)
Uncontested(k) ==
    /\ Cardinality(SaidToBe(k)) <= 1
    /\ k \in DOMAIN telemetry => Cardinality(processByPID(rows, telemetry[k].pid)) <= 1
    /\ \A other \in Known \ {k} : SaidToBe(k) \cap SaidToBe(other) = {}

(* The lines of session k: its id, for its agent. *)
LinesOf(k) ==
    {n \in DOMAIN snapshot.sessions :
        /\ snapshot.sessions[n].id = k
        /\ AgentOfLine(snapshot.sessions[n]) = AgentOf[k]}

(* A session that no other session competes with is listed once for its    *)
(* agent, on the process row that is said to be its own if there is one,   *)
(* with its own tokens, and the transcript's if there are two sources.     *)
(* Only a session without processes may be left out, for as many that were *)
(* active later.                                                           *)
UncontestedSessionsAreShown ==
    \A k \in Known :
        LET lines == LinesOf(k)
            of == IF SaidToBe(k) = {} THEN NoRow ELSE CHOOSE i \in SaidToBe(k) : TRUE
            usage == IF k \in Recent(sources, snapshot.at) THEN TranscriptOf(k)
                     ELSE TelemetryOf(k)
        IN  Uncontested(k) =>
                \/ /\ Cardinality(lines) = 1
                   /\ \A n \in lines : /\ snapshot.sessions[n].of = of
                                       /\ snapshot.sessions[n].usage = usage
                \/ /\ of = NoRow /\ lines = {}
                   /\ Len(snapshot.sessions) = Limit + Cardinality(DOMAIN rows)

(* The process rows a session fits. *)
Fitting(k) == {i \in DOMAIN rows : Fits(rows[i], Hint(k))}

(* A row marked probable is a unique match both ways: the session it was   *)
(* named for fits no other process row, and is the only one of which that  *)
(* can be said of this row.                                                *)
ProbableRowsAreUnique ==
    \A n \in DOMAIN snapshot.sessions :
        LET row == snapshot.sessions[n]
        IN  row.attribution = "probable" /\ row.id \in Keys =>
                {k \in Known : Fitting(k) = {row.of}} = {row.id}

(* README.md:70 and 75 to the letter: no other session fits a row that is  *)
(* marked probable.                                                        *)
NobodyElseFitsAProbableRow ==
    \A n \in DOMAIN snapshot.sessions :
        LET row == snapshot.sessions[n]
        IN  row.attribution = "probable" /\ row.id \in Keys =>
                {k \in Known : row.of \in Fitting(k)} = {row.id}

(* README.md:75: ambiguous tasks are kept separate instead of guessed. *)
AmbiguousSessionsAreKeptSeparate ==
    Cardinality(Known) <= Limit =>
        \A k \in Known : LinesOf(k) # {}
=============================================================================
