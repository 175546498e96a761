---------------------------- MODULE Attribution ----------------------------
(***************************************************************************)
(* composeSessionsLocked: one list of rows made from the rows of the last  *)
(* Tick (process rows), the telemetry sessions and the transcripts.  A     *)
(* telemetry session or a transcript that belongs to a process row is      *)
(* merged into it and gives it its id; every other one is a logical row    *)
(* without processes.  The daemon's maps are iterated in an arbitrary      *)
(* order, which is a parameter here.                                       *)
(*                                                                         *)
(* Telemetry sessions and transcripts are functions on session keys (agent *)
(* and id).  Process rows are a function on their ids: a session key or a  *)
(* launch id for a row of a hook, the pid of the root for a row of         *)
(* auto-discovery (auto-<pid>, which no provider calls a session).  Of     *)
(* what a merge copies, a row keeps whose tokens it shows and where they   *)
(* are from.                                                               *)
(***************************************************************************)
EXTENDS ProcessTree, SequencesExt

CONSTANTS Keys,       \* provider sessions: agent and session id
          AgentOf,    \* the agent of each
          NoAgent,    \* of a hook row whose session was only heard to end
          Launches,   \* launch ids of the codex wrapper
          NoLaunch,
          NoRow,
          Rank,       \* the order of ids (stands for project, agent, id)
          Near,       \* 45 s: a session's start and its process row's
          Window,     \* LogicalSessionWindow
          Limit       \* LogicalSessionLimit

RowIds == Keys \cup Launches \cup Pids

ASSUME AttributionAssumption ==
    /\ IsFiniteSet(Keys) /\ IsFiniteSet(Launches)
    /\ AgentOf \in [Keys -> Agents \ Desktops]
    /\ NoAgent \notin Agents
    /\ NoLaunch \notin Launches
    /\ NoRow \notin RowIds
    /\ Keys \cap Pids = {}
    /\ Rank \in [RowIds -> Nat]
    /\ \A i, j \in RowIds : Rank[i] = Rank[j] => i = j
    /\ {Near, Window, Limit} \subseteq Nat

(* A function with one more, or a new, value. *)
With(f, x, value) == [y \in DOMAIN f \cup {x} |-> IF y = x THEN value ELSE f[y]]

Distance(a, b) == IF a > b THEN a - b ELSE b - a

recentEnough(updatedAt, now) == updatedAt + Window >= now
Recent(sessions, now) ==
    {k \in DOMAIN sessions : recentEnough(sessions[k].updatedAt, now)}

(* What is known of the session from either source. *)
RecentKeys(telemetry, sources, now) ==
    Recent(telemetry, now) \cup Recent(sources, now)

(* The last of some process rows in their order: owned before shared rows. *)
stableSessionLess(rows, i, j) ==
    IF rows[i].scope # rows[j].scope THEN rows[i].scope = "owned"
    ELSE Rank[i] < Rank[j]
LastOf(rows, S) == CHOOSE i \in S : \A j \in S \ {i} : stableSessionLess(rows, j, i)

-----------------------------------------------------------------------------
(* The three ways to a process row that need no guess *)

processByLaunch(rows, key, launch) ==
    {i \in DOMAIN rows : rows[i].launch = launch /\ launch # NoLaunch
                         /\ rows[i].agent = AgentOf[key]}

processByPID(rows, pid) ==
    {i \in DOMAIN rows : \E process \in rows[i].tree : process.pid = pid}

(* Fault: the time the process started is not compared. *)
validTelemetryPid(rows, key, session) ==
    LET owners == processByPID(rows, session.pid)
        owner == LastOf(rows, owners)
    IN  /\ owners # {}
        /\ rows[owner].scope = "owned" /\ rows[owner].agent = AgentOf[key]

(* A pid alone proves nothing, as it may be used again. *)
validTelemetryProcessIdentity(rows, key, session) ==
    LET owners == processByPID(rows, session.pid)
        owner == LastOf(rows, owners)
    IN  /\ owners # {}
        /\ rows[owner].scope = "owned" /\ rows[owner].agent = AgentOf[key]
        /\ [pid |-> session.pid, start |-> session.created] \in rows[owner].tree

-----------------------------------------------------------------------------
(* The guess: the same directory, started at about the same time *)

Fits(row, hint) ==
    /\ row.scope = "owned" /\ row.agent = hint.agent
    /\ row.cwd = hint.cwd /\ hint.cwd # 0 /\ hint.startedAt # 0
    /\ Distance(row.startedAt, hint.startedAt) <= Near

(* The transcript knows better than telemetry. *)
Hints(telemetry, sources, now) ==
    LET told(k, from) == IF k \in Recent(from, now) THEN from[k]
                         ELSE [cwd |-> 0, startedAt |-> 0]
        better(a, b) == IF a # 0 THEN a ELSE b
    IN  [k \in RecentKeys(telemetry, sources, now) |->
            [agent     |-> AgentOf[k],
             cwd       |-> better(told(k, sources).cwd, told(k, telemetry).cwd),
             startedAt |-> better(told(k, sources).startedAt,
                                  told(k, telemetry).startedAt)]]

(* A session is proposed for the one row it fits; two such rows are none.  *)
findProbableProcess(rows, hint) ==
    LET fitting == {i \in DOMAIN rows : Fits(rows[i], hint)}
    IN  IF Cardinality(fitting) = 1 THEN fitting ELSE {}

(* Fault: sessions proposed for one row are not counted. *)
EveryProposal(rows, telemetry, sources, now) ==
    LET hints == Hints(telemetry, sources, now)
        proposals == [k \in DOMAIN hints |-> findProbableProcess(rows, hints[k])]
    IN  [k \in {k \in DOMAIN hints : proposals[k] # {}} |->
            CHOOSE i \in proposals[k] : TRUE]

(* Confirmed are the proposals that no other session shares. *)
buildProbableProcessMatches(rows, telemetry, sources, now) ==
    LET hints == Hints(telemetry, sources, now)
        proposals == [k \in DOMAIN hints |-> findProbableProcess(rows, hints[k])]
    IN  [k \in {k \in DOMAIN hints :
                   /\ proposals[k] # {}
                   /\ \A other \in DOMAIN hints \ {k} :
                         proposals[other] # proposals[k]} |->
            CHOOSE i \in proposals[k] : TRUE]

-----------------------------------------------------------------------------
(* The list.  id is what the row is called, of the process row it is made  *)
(* from; usage is whose tokens it shows, from which source.                *)

ProcessRow(rows, i) ==
    [id |-> i, of |-> i, usage |-> <<>>, attribution |-> rows[i].attribution]

LogicalRow(key, usage) ==
    [id |-> key, of |-> NoRow, usage |-> usage, attribution |-> "none"]

TelemetryOf(key) == <<key, "telemetry">>
TranscriptOf(key) == <<key, "transcript">>

setAttributionConfidence(row, scope, confidence) ==
    [row EXCEPT !.attribution = IF scope = "shared" THEN "shared" ELSE confidence]

(* The sessions that have a row of their own.  A row with the id of a       *)
(* session and not its agent is somebody else's to the daemon.              *)
Own(rows) == {k \in Keys \cap DOMAIN rows : rows[k].agent = AgentOf[k]}

(* What composition works on: the rows, which of them is a session's, which *)
(* were given to one, and the rows without processes.                       *)
Unmerged(rows) ==
    [combined |-> [i \in DOMAIN rows |-> ProcessRow(rows, i)],
     byID     |-> [k \in Own(rows) |-> k],
     matched  |-> {},
     logical  |-> <<>>]

(* Fault: that the row is the session's now is not kept. *)
MergeAndForget(c, rows, key, i, usage, confidence) ==
    LET row == [c.combined[i] EXCEPT
                   !.usage = usage,
                   !.id = IF key \in DOMAIN c.byID THEN @ ELSE key]
    IN  [c EXCEPT
            !.combined[i] = setAttributionConfidence(row, rows[i].scope, confidence),
            !.matched = @ \cup {i}]

(* Session key is merged into process row i, and gives it its id unless it *)
(* was found by that.                                                      *)
Merge(c, rows, key, i, usage, confidence) ==
    LET row == [c.combined[i] EXCEPT
                   !.usage = usage,
                   !.id = IF key \in DOMAIN c.byID THEN @ ELSE key]
    IN  [c EXCEPT
            !.combined[i] = setAttributionConfidence(row, rows[i].scope, confidence),
            !.matched = @ \cup {i},
            !.byID = With(@, key, i)]

(* The process row a telemetry session goes to, and how sure that is: by   *)
(* id, by launch id, by validated pid, or by the guess.  Only the last two *)
(* ask whether the row was given to another session before.                *)
Claimed(c, rows, telemetry, probable, key) ==
    LET launched == processByLaunch(rows, key, telemetry[key].launch)
        owner == LastOf(rows, processByPID(rows, telemetry[key].pid))
    IN  IF key \in DOMAIN c.byID THEN <<c.byID[key], "confirmed">>
        ELSE IF launched # {} THEN <<LastOf(rows, launched), "confirmed">>
        ELSE IF /\ validTelemetryProcessIdentity(rows, key, telemetry[key])
                /\ owner \notin c.matched
             THEN <<owner, "confirmed">>
        ELSE IF key \in DOMAIN probable /\ probable[key] \notin c.matched
             THEN <<probable[key], "probable">>
        ELSE <<NoRow, "none">>

MergeTelemetry(c, rows, telemetry, probable, key) ==
    LET claim == Claimed(c, rows, telemetry, probable, key)
    IN  IF claim[1] = NoRow
        THEN [c EXCEPT !.logical = With(@, key, LogicalRow(key, TelemetryOf(key)))]
        ELSE Merge(c, rows, key, claim[1], TelemetryOf(key), claim[2])

(* A transcript's tokens replace those of telemetry. *)
MergeTranscript(c, rows, probable, key) ==
    IF key \in DOMAIN c.byID
    THEN [c EXCEPT !.combined[c.byID[key]].usage = TranscriptOf(key)]
    ELSE IF key \in DOMAIN probable /\ probable[key] \notin c.matched
    THEN [Merge(c, rows, key, probable[key], TranscriptOf(key), "probable")
             EXCEPT !.logical = [k \in DOMAIN @ \ {key} |-> @[k]]]
    ELSE [c EXCEPT !.logical = With(@, key, LogicalRow(key, TranscriptOf(key)))]

(* Logical rows come first, the last active ones, and only so many. *)
LastActivity(telemetry, sources, now, key) ==
    LET of(from) == IF key \in Recent(from, now) THEN from[key].updatedAt ELSE 0
    IN  IF of(telemetry) > of(sources) THEN of(telemetry) ELSE of(sources)

(* A set in the order in which each of it has so many others before it. *)
InOrder(S, before) ==
    [n \in 1 .. Cardinality(S) |-> CHOOSE x \in S : Cardinality(before[x]) = n - 1]

ProcessOrder(rows) ==
    InOrder(DOMAIN rows,
            [i \in DOMAIN rows |-> {j \in DOMAIN rows : stableSessionLess(rows, j, i)}])

ActivityOrder(S, telemetry, sources, now) ==
    LET active == [k \in S |-> LastActivity(telemetry, sources, now, k)]
        before(k, l) == \/ active[k] > active[l]
                        \/ active[k] = active[l] /\ Rank[k] < Rank[l]
    IN  InOrder(S, [k \in S |-> {l \in S : before(l, k)}])

Listed(c, rows, telemetry, sources, now) ==
    LET shown == ActivityOrder(DOMAIN c.logical, telemetry, sources, now)
        kept == IF Len(shown) > Limit THEN SubSeq(shown, 1, Limit) ELSE shown
        processes == ProcessOrder(rows)
    IN  [n \in DOMAIN kept |-> c.logical[kept[n]]]
        \o [n \in DOMAIN processes |-> c.combined[processes[n]]]

(* The two loops over maps, in given orders: what each turn leaves. *)
TelemetryTurns(rows, telemetry, probable, order) ==
    LET c[n \in 0 .. Len(order)] ==
            IF n = 0 THEN Unmerged(rows)
            ELSE MergeTelemetry(c[n - 1], rows, telemetry, probable, order[n])
    IN  c

TranscriptTurns(merged, rows, probable, order) ==
    LET c[n \in 0 .. Len(order)] ==
            IF n = 0 THEN merged
            ELSE MergeTranscript(c[n - 1], rows, probable, order[n])
    IN  c

composeSessionsLocked(rows, telemetry, sources, now, telemetryOrder, sourceOrder) ==
    LET probable == buildProbableProcessMatches(rows, telemetry, sources, now)
        withTelemetry ==
            TelemetryTurns(rows, telemetry, probable, telemetryOrder)[Len(telemetryOrder)]
        withTranscripts ==
            TranscriptTurns(withTelemetry, rows, probable, sourceOrder)[Len(sourceOrder)]
    IN  Listed(withTranscripts, rows, telemetry, sources, now)

(* All lists one composition can result in. *)
Compositions(rows, telemetry, sources, now) ==
    {composeSessionsLocked(rows, telemetry, sources, now, order, sourceOrder) :
        order \in SetToSeqs(Recent(telemetry, now)),
        sourceOrder \in SetToSeqs(Recent(sources, now))}
=============================================================================
