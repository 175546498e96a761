----------------------------- MODULE Dashboard -----------------------------
(***************************************************************************)
(* The dashboard and its three publishers: Tick (processes, every 2 s),    *)
(* refreshUsage (transcripts, every 10 s) and IngestTelemetry (one per     *)
(* OTLP request).  Each gathers its input, changes its part of the         *)
(* daemon's memory and recomposes d.snapshot under d.mu, and writes its    *)
(* copy of the dashboard to the state database after it unlocked, so that  *)
(* the copies may be written in another order than they were made.         *)
(* Clients read the dashboard from the database.                           *)
(*                                                                         *)
(* An input is modelled by its version: how often the machine's processes  *)
(* or the agents' transcripts changed, how many batches were merged.  A    *)
(* dashboard is modelled by the versions it was composed from.             *)
(***************************************************************************)
EXTENDS Naturals

CONSTANTS Requests,     \* OTLP requests the daemon serves at a time
          MaxChanges,   \* bound: changes of processes, of transcripts
          MaxBatches,   \* bound: batches merged
          MaxFaults,    \* bound: scans and writes that fail
          MaxStops      \* bound: times the daemon stops

ASSUME DashboardAssumption ==
    {MaxChanges, MaxBatches, MaxFaults, MaxStops} \subseteq Nat

VARIABLES
    processes,          \* OS: the processes
    transcripts,        \* the agents' transcript files
    up,                 \* the daemon is running
    processSessions,    \* d.processSessions
    usageSources,       \* d.usageSources
    telemetrySessions,  \* d.telemetrySessions
    snapshot,           \* d.snapshot
    tick,               \* the Tick in progress
    refresh,            \* the refreshUsage in progress
    requests,           \* the IngestTelemetry calls in progress
    stored,             \* the state database
    faults,             \* scans and writes that failed
    stops               \* how often the daemon stopped

inputs == <<processes, transcripts>>
memory == <<processSessions, usageSources, telemetrySessions, snapshot>>
vars == <<processes, transcripts, up, processSessions, usageSources,
          telemetrySessions, snapshot, tick, refresh, requests, stored,
          faults, stops>>

-----------------------------------------------------------------------------
Versions == 0 .. IF MaxBatches > MaxChanges THEN MaxBatches ELSE MaxChanges

(* rows is what Sessions was composed from; generated is that GeneratedAt  *)
(* is not zero, projects is ProjectUsage.                                  *)
Rows == [processes : Versions, usage : Versions, telemetry : Versions]
Snapshot == [generated : BOOLEAN, projects : Versions, rows : Rows]
NoSnapshot ==
    [generated |-> FALSE, projects |-> 0,
     rows |-> [processes |-> 0, usage |-> 0, telemetry |-> 0]]

State == [snapshot : Snapshot, usage : Versions, telemetry : Versions]

Publisher == [pc : {"idle", "scanned", "index", "put"}, input : Versions,
              copy : Snapshot]
Idle == [pc |-> "idle", input |-> 0, copy |-> NoSnapshot]

(* composeSessionsLocked: all rows anew, from what memory holds. *)
Composed(ps, us, ts) == [processes |-> ps, usage |-> us, telemetry |-> ts]

Init ==
    /\ processes = 0
    /\ transcripts = 0
    /\ up = TRUE
    /\ processSessions = 0
    /\ usageSources = 0
    /\ telemetrySessions = 0
    /\ snapshot = NoSnapshot
    /\ tick = Idle
    /\ refresh = Idle
    /\ requests = [r \in Requests |-> Idle]
    /\ stored = [snapshot |-> NoSnapshot, usage |-> 0, telemetry |-> 0]
    /\ faults = 0
    /\ stops = 0

-----------------------------------------------------------------------------
(* Processes start and exit, agents write their transcripts. *)

ProcessesChange ==
    /\ processes < MaxChanges
    /\ processes' = processes + 1
    /\ UNCHANGED <<transcripts, up, memory, tick, refresh, requests, stored,
                   faults, stops>>

TranscriptsChange ==
    /\ transcripts < MaxChanges
    /\ transcripts' = transcripts + 1
    /\ UNCHANGED <<processes, up, memory, tick, refresh, requests, stored,
                   faults, stops>>

(* A write to the state database: it is done, or fails and is logged. *)
Put(state) ==
    \/ stored' = state /\ UNCHANGED faults
    \/ faults < MaxFaults /\ faults' = faults + 1 /\ UNCHANGED stored

PutSnapshot(copy) == Put([stored EXCEPT !.snapshot = copy])

-----------------------------------------------------------------------------
(* Tick *)

(* A scan that fails ends this Tick; the ticker starts the next one. *)
TickScan ==
    /\ up /\ tick.pc = "idle"
    /\ tick' = [tick EXCEPT !.pc = "scanned", !.input = processes]
    /\ UNCHANGED <<inputs, up, memory, refresh, requests, stored, faults, stops>>

(* Fault: the new dashboard starts without the projects. *)
TickDroppingProjects ==
    /\ tick.pc = "scanned"
    /\ processSessions' = tick.input
    /\ snapshot' = [generated |-> TRUE, projects |-> 0,
                    rows |-> Composed(tick.input, usageSources, telemetrySessions)]
    /\ tick' = [tick EXCEPT !.pc = "put", !.copy = snapshot']
    /\ UNCHANGED <<inputs, up, usageSources, telemetrySessions, refresh,
                   requests, stored, faults, stops>>

(* The projects are carried over from the dashboard before. *)
TickLocked ==
    /\ tick.pc = "scanned"
    /\ processSessions' = tick.input
    /\ snapshot' = [generated |-> TRUE, projects |-> snapshot.projects,
                    rows |-> Composed(tick.input, usageSources, telemetrySessions)]
    /\ tick' = [tick EXCEPT !.pc = "put", !.copy = snapshot']
    /\ UNCHANGED <<inputs, up, usageSources, telemetrySessions, refresh,
                   requests, stored, faults, stops>>

TickPut ==
    /\ tick.pc = "put"
    /\ PutSnapshot(tick.copy)
    /\ tick' = Idle
    /\ UNCHANGED <<inputs, up, memory, refresh, requests, stops>>

-----------------------------------------------------------------------------
(* refreshUsage *)

(* Collector.Scan reads the transcripts, starting from its index. *)
UsageScan ==
    /\ up /\ refresh.pc = "idle"
    /\ refresh' = [refresh EXCEPT !.pc = "index", !.input = transcripts]
    /\ UNCHANGED <<inputs, up, memory, tick, requests, stored, faults, stops>>

PutUsageSources ==
    /\ refresh.pc = "index"
    /\ refresh' = [refresh EXCEPT !.pc = "scanned"]
    /\ Put([stored EXCEPT !.usage = refresh.input])
    /\ UNCHANGED <<inputs, up, memory, tick, requests, stops>>

(* Fault: a refresh that found nothing new returns early. *)
UsageLockedIfChanged ==
    /\ refresh.pc = "scanned"
    /\ usageSources' = refresh.input
    /\ snapshot' = IF refresh.input = usageSources THEN snapshot
                   ELSE [generated |-> TRUE, projects |-> refresh.input,
                         rows |-> Composed(processSessions, refresh.input,
                                           telemetrySessions)]
    /\ refresh' = IF refresh.input = usageSources THEN Idle
                  ELSE [refresh EXCEPT !.pc = "put", !.copy = snapshot']
    /\ UNCHANGED <<inputs, up, processSessions, telemetrySessions, tick,
                   requests, stored, faults, stops>>

UsageLocked ==
    /\ refresh.pc = "scanned"
    /\ usageSources' = refresh.input
    /\ snapshot' = [generated |-> TRUE, projects |-> refresh.input,
                    rows |-> Composed(processSessions, refresh.input,
                                      telemetrySessions)]
    /\ refresh' = [refresh EXCEPT !.pc = "put", !.copy = snapshot']
    /\ UNCHANGED <<inputs, up, processSessions, telemetrySessions, tick,
                   requests, stored, faults, stops>>

UsagePut ==
    /\ refresh.pc = "put"
    /\ PutSnapshot(refresh.copy)
    /\ refresh' = Idle
    /\ UNCHANGED <<inputs, up, memory, tick, requests, stops>>

-----------------------------------------------------------------------------
(* IngestTelemetry *)

(* Fault: a batch may be merged twice. *)
IngestTwice(r) ==
    /\ up /\ requests[r].pc = "idle"
    /\ telemetrySessions < MaxBatches
    /\ telemetrySessions' \in telemetrySessions + 1 .. telemetrySessions + 2
    /\ snapshot' = [snapshot EXCEPT
                      !.generated = TRUE,
                      !.rows = Composed(processSessions, usageSources,
                                        telemetrySessions')]
    /\ requests' = [requests EXCEPT ![r] = [pc |-> "index", copy |-> snapshot',
                                            input |-> telemetrySessions']]
    /\ UNCHANGED <<inputs, up, processSessions, usageSources, tick, refresh,
                   stored, faults, stops>>

(* One more batch is merged; input is the copy of all sessions. *)
Ingest(r) ==
    /\ up /\ requests[r].pc = "idle"
    /\ telemetrySessions < MaxBatches
    /\ telemetrySessions' = telemetrySessions + 1
    /\ snapshot' = [snapshot EXCEPT
                      !.generated = TRUE,
                      !.rows = Composed(processSessions, usageSources,
                                        telemetrySessions')]
    /\ requests' = [requests EXCEPT ![r] = [pc |-> "index", copy |-> snapshot',
                                            input |-> telemetrySessions']]
    /\ UNCHANGED <<inputs, up, processSessions, usageSources, tick, refresh,
                   stored, faults, stops>>

(* When this write fails the dashboard is not written either. *)
PutTelemetrySessions(r) ==
    /\ requests[r].pc = "index"
    /\ Put([stored EXCEPT !.telemetry = requests[r].input])
    /\ requests' = [requests EXCEPT ![r] =
                      IF faults' = faults THEN [@ EXCEPT !.pc = "put"] ELSE Idle]
    /\ UNCHANGED <<inputs, up, memory, tick, refresh, stops>>

IngestPut(r) ==
    /\ requests[r].pc = "put"
    /\ PutSnapshot(requests[r].copy)
    /\ requests' = [requests EXCEPT ![r] = Idle]
    /\ UNCHANGED <<inputs, up, memory, tick, refresh, stops>>

-----------------------------------------------------------------------------
(* The daemon stops and starts. *)

Stop ==
    /\ up /\ stops < MaxStops
    /\ up' = FALSE
    /\ stops' = stops + 1
    /\ processSessions' = 0
    /\ usageSources' = 0
    /\ telemetrySessions' = 0
    /\ snapshot' = NoSnapshot
    /\ tick' = Idle
    /\ refresh' = Idle
    /\ requests' = [r \in Requests |-> Idle]
    /\ UNCHANGED <<inputs, stored, faults>>

(* The dashboard itself is not read back. *)
New ==
    /\ ~ up
    /\ up' = TRUE
    /\ usageSources' = stored.usage
    /\ telemetrySessions' = stored.telemetry
    /\ UNCHANGED <<inputs, processSessions, snapshot, tick, refresh, requests,
                   stored, faults, stops>>

-----------------------------------------------------------------------------
RunLoop == TickScan \/ TickLocked \/ TickPut
RunUsageLoop == UsageScan \/ PutUsageSources \/ UsageLocked \/ UsagePut
Serve(r) == PutTelemetrySessions(r) \/ IngestPut(r)

Next ==
    \/ ProcessesChange \/ TranscriptsChange
    \/ RunLoop \/ RunUsageLoop
    \/ \E r \in Requests : Ingest(r) \/ Serve(r)
    \/ Stop \/ New

Spec == Init /\ [][Next]_vars

(* Both loops keep running, requests are served, the daemon is restarted. *)
Fairness ==
    /\ WF_vars(RunLoop)
    /\ WF_vars(RunUsageLoop)
    /\ \A r \in Requests : WF_vars(Serve(r))
    /\ WF_vars(New)

FairSpec == Spec /\ Fairness

-----------------------------------------------------------------------------
(* PersistedSnapshot: what a client is served. *)
PersistedSnapshot ==
    IF stored.snapshot.generated THEN stored.snapshot ELSE snapshot

(* What must be true of it *)

(* Every variable holds a value of its kind. *)
TypeOK ==
    /\ processes \in Versions
    /\ transcripts \in Versions
    /\ up \in BOOLEAN
    /\ processSessions \in Versions
    /\ usageSources \in Versions
    /\ telemetrySessions \in Versions
    /\ snapshot \in Snapshot
    /\ tick \in Publisher
    /\ refresh \in Publisher
    /\ requests \in [Requests -> Publisher]
    /\ stored \in State
    /\ faults \in 0 .. MaxFaults
    /\ stops \in 0 .. MaxStops

(* No publisher undoes what another one put on the dashboard in memory:    *)
(* while the daemon runs, no part of it goes back to an older state.       *)
NoPartGoesBack ==
    [][up /\ up' =>
          /\ snapshot'.projects >= snapshot.projects
          /\ \A part \in DOMAIN snapshot.rows :
                snapshot'.rows[part] >= snapshot.rows[part]]_vars

(* Once nothing changes any more, clients come to see everything there is, *)
(* and keep seeing it: copies written in the wrong order, failing writes   *)
(* and restarts are made good by a later Tick or refresh.                  *)
ClientsCatchUp ==
    <>[]/\ PersistedSnapshot.rows = Composed(processes, transcripts,
                                             telemetrySessions)
        /\ PersistedSnapshot.projects = transcripts

(* PersistedSnapshot reads "the last complete dashboard state"             *)
(* (daemon.go:283): with every copy written, it is the one in memory.  The *)
(* code keeps this only until two copies are written in the wrong order    *)
(* (see README.md); ClientsCatchUp is what it keeps.                       *)
LastDashboardIsServed ==
    (/\ up /\ snapshot.generated /\ faults = 0
     /\ tick.pc # "put" /\ refresh.pc # "put"
     /\ \A r \in Requests : requests[r].pc = "idle")
        => PersistedSnapshot = snapshot
=============================================================================
