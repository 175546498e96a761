-------------------------- MODULE TelemetryIngest --------------------------
(***************************************************************************)
(* OTLP batches on their way into the cumulative counters of a session.    *)
(* An exporter sends its batches one after the other and repeats one that  *)
(* was not answered with 200.  A request is received and decoded, waits    *)
(* for d.mu, merges its batch into d.telemetrySessions, unlocks, writes    *)
(* all sessions and then the dashboard to the state database, and is       *)
(* answered 500 when a write fails, although its batch is merged by then.  *)
(* What keeps a repeated batch from being counted again are the            *)
(* fingerprints of the last Window events of a session, kept (and          *)
(* persisted) with its counters.                                           *)
(*                                                                         *)
(* An event is the number its exporter gives it.  Two events may have one  *)
(* fingerprint, which leaves the model and the directory out.  The         *)
(* counters of a session are modelled by how often each event was added to *)
(* them.  The other fields an event sets are left out.                     *)
(***************************************************************************)
EXTENDS Integers, Sequences, FiniteSets

CONSTANTS Exporters,     \* OTLP pipelines of the agents
          Sessions,      \* telemetry sessions
          SessionOf,     \* the session an exporter reports
          Fingerprints,  \* the values of setFingerprint
          FingerprintOf, \* the fingerprint of an event
          Handlers,      \* requests the daemon serves at a time
          BatchSize,     \* events per batch
          Window,        \* the 256 of IngestTelemetry
          MaxBatches,    \* bound: batches of an exporter
          MaxFaults,     \* bound: failing writes and timeouts in all
          MaxStops       \* bound: times the daemon stops

Batches == 1 .. MaxBatches
Events == [exporter : Exporters, number : 1 .. MaxBatches * BatchSize]

ASSUME TelemetryAssumption ==
    /\ SessionOf \in [Exporters -> Sessions]
    /\ FingerprintOf \in [Events -> Fingerprints]
    /\ {BatchSize, Window, MaxBatches, MaxFaults, MaxStops} \subseteq Nat
    /\ BatchSize >= 1
    /\ Exporters # {} /\ MaxBatches >= 1

VARIABLES
    up,         \* the daemon is running
    sessions,   \* d.telemetrySessions
    mutex,      \* the handler that holds d.mu, {} when none does
    handlers,   \* the requests being served
    stored,     \* the telemetry sessions in the state database
    exporters,  \* per exporter: its current batch and who serves it
    answered,   \* batches answered with 200
    faults,     \* failing writes and timeouts so far
    stops,      \* how often the daemon stopped
    (* History, which no step depends on: *)
    alone,      \* no two requests were served at a time so far
    pushed,     \* per exporter: the fingerprints others added to its session
                \* since it first sent its current batch
    timely      \* no request took d.mu too late so far: when its exporter was
                \* past its batch, or others had pushed it out of the window

history == <<alone, pushed, timely>>
vars == <<up, sessions, mutex, handlers, stored, exporters, answered, faults,
          stops, history>>

-----------------------------------------------------------------------------
(* The i-th event of batch b of exporter x. *)
EventOf(x, b, i) == [exporter |-> x, number |-> (b - 1) * BatchSize + i]
EventsOf(x, b) == {EventOf(x, b, i) : i \in 1 .. BatchSize}

TelemetrySession == [added : [Events -> Nat], recent : Seq(Fingerprints)]
NewSession == [added |-> [e \in Events |-> 0], recent |-> <<>>]

IsKnown(session, e) ==
    \E i \in DOMAIN session.recent : session.recent[i] = FingerprintOf[e]

(* The last Window fingerprints. *)
Truncated(recent) ==
    IF Len(recent) > Window
    THEN SubSeq(recent, Len(recent) - Window + 1, Len(recent)) ELSE recent

(* Fault: the counters are set by the event, not added up. *)
MergedReplacing(session, e) ==
    IF IsKnown(session, e) THEN session
    ELSE [added  |-> [NewSession.added EXCEPT ![e] = 1],
          recent |-> Truncated(Append(session.recent, FingerprintOf[e]))]

Merged(session, e) ==
    IF IsKnown(session, e) THEN session
    ELSE [added  |-> [session.added EXCEPT ![e] = @ + 1],
          recent |-> Truncated(Append(session.recent, FingerprintOf[e]))]

NoCopy == [s \in Sessions |-> NewSession]
IdleHandler == [pc |-> "idle", exporter |-> CHOOSE x \in Exporters : TRUE,
                batch |-> 1, next |-> 1, copy |-> NoCopy]
Handler == [pc : {"idle", "waiting", "merge", "put", "snapshot"},
            exporter : Exporters, batch : Batches, next : 1 .. BatchSize + 1,
            copy : [Sessions -> TelemetrySession]]

(* by is the handler that serves the batch; {} before it is sent (again). *)
Exporter == [batch : 1 .. MaxBatches + 1, by : {{}} \cup {{h} : h \in Handlers}]

Init ==
    /\ up = TRUE
    /\ sessions = NoCopy
    /\ mutex = {}
    /\ handlers = [h \in Handlers |-> IdleHandler]
    /\ stored = NoCopy
    /\ exporters = [x \in Exporters |-> [batch |-> 1, by |-> {}]]
    /\ answered = {}
    /\ faults = 0
    /\ stops = 0
    /\ alone = TRUE
    /\ pushed = [x \in Exporters |-> 0]
    /\ timely = TRUE

-----------------------------------------------------------------------------
(* The exporters *)

(* The exporter gives a request up and will send the batch again; the      *)
(* daemon goes on serving the request all the same.                        *)
TimeOut(x) ==
    /\ exporters[x].by # {}
    /\ faults < MaxFaults
    /\ faults' = faults + 1
    /\ exporters' = [exporters EXCEPT ![x].by = {}]
    /\ UNCHANGED <<up, sessions, mutex, handlers, stored, answered, stops, history>>

(* An exporter may drop a batch it failed to deliver. *)
Drop(x) ==
    /\ faults > 0 \/ stops > 0
    /\ exporters[x].by = {} /\ exporters[x].batch <= MaxBatches
    /\ exporters' = [exporters EXCEPT ![x].batch = @ + 1]
    /\ pushed' = [pushed EXCEPT ![x] = 0]
    /\ UNCHANGED <<up, sessions, mutex, handlers, stored, answered, faults,
                   stops, alone, timely>>

(* Handler h answers; only an exporter that still waits hears it. *)
Answer(h, ok) ==
    LET x == handlers[h].exporter
        b == handlers[h].batch
    IN  /\ handlers' = [handlers EXCEPT ![h] = IdleHandler]
        /\ IF exporters[x].by = {h}
           THEN /\ exporters' = [exporters EXCEPT ![x] =
                                   [batch |-> IF ok THEN b + 1 ELSE b,
                                    by |-> {}]]
                /\ answered' = IF ok THEN answered \cup {<<x, b>>} ELSE answered
                /\ pushed' = IF ok THEN [pushed EXCEPT ![x] = 0] ELSE pushed
           ELSE UNCHANGED <<exporters, answered, pushed>>
        /\ UNCHANGED <<alone, timely>>

-----------------------------------------------------------------------------
(* IngestTelemetry *)

(* A request is received and decoded. *)
Receive(h, x) ==
    /\ up
    /\ handlers[h].pc = "idle"
    /\ exporters[x].by = {} /\ exporters[x].batch <= MaxBatches
    /\ handlers' = [handlers EXCEPT ![h] =
                      [IdleHandler EXCEPT !.pc = "waiting", !.exporter = x,
                                          !.batch = exporters[x].batch]]
    /\ exporters' = [exporters EXCEPT ![x].by = {h}]
    /\ alone' = (alone /\ \A g \in Handlers : handlers[g].pc = "idle")
    /\ UNCHANGED <<up, sessions, mutex, stored, answered, faults, stops,
                   pushed, timely>>

(* The request takes d.mu, its exporter waiting for it still or not. *)
Lock(h) ==
    LET x == handlers[h].exporter
    IN  /\ handlers[h].pc = "waiting" /\ mutex = {}
        /\ mutex' = {h}
        /\ handlers' = [handlers EXCEPT ![h].pc = "merge"]
        /\ timely' = (/\ timely
                      /\ handlers[h].batch = exporters[x].batch
                      /\ pushed[x] + BatchSize <= Window)
        /\ UNCHANGED <<up, sessions, stored, exporters, answered, faults,
                       stops, alone, pushed>>

(* A fingerprint that h adds is pushed for the others of its session,      *)
(* counted as long as it says anything.                                    *)
PushedBy(h, e) ==
    LET s == SessionOf[handlers[h].exporter]
    IN  [y \in Exporters |->
           IF /\ timely /\ exporters[y].batch <= MaxBatches
              /\ y # handlers[h].exporter /\ SessionOf[y] = s
              /\ ~ IsKnown(sessions[s], e)
           THEN pushed[y] + 1 ELSE pushed[y]]

(* Fault: the loop runs once more than there are events. *)
MergeEventTooMany(h) ==
    LET x == handlers[h].exporter
        e == EventOf(x, handlers[h].batch, handlers[h].next)
    IN  /\ handlers[h].pc = "merge"
        /\ handlers[h].next <= BatchSize + 1
        /\ sessions' = [sessions EXCEPT ![SessionOf[x]] = Merged(@, e)]
        /\ handlers' = [handlers EXCEPT ![h].next = @ + 1]
        /\ pushed' = PushedBy(h, e)
        /\ UNCHANGED <<up, mutex, stored, exporters, answered, faults, stops,
                       alone, timely>>

(* One round of the loop over the events. *)
MergeEvent(h) ==
    LET x == handlers[h].exporter
        e == EventOf(x, handlers[h].batch, handlers[h].next)
    IN  /\ handlers[h].pc = "merge"
        /\ handlers[h].next <= BatchSize
        /\ sessions' = [sessions EXCEPT ![SessionOf[x]] = Merged(@, e)]
        /\ handlers' = [handlers EXCEPT ![h].next = @ + 1]
        /\ pushed' = PushedBy(h, e)
        /\ UNCHANGED <<up, mutex, stored, exporters, answered, faults, stops,
                       alone, timely>>

(* Fault: a repeated batch returns before it unlocks. *)
UnlockUnlessRepeated(h) ==
    /\ handlers[h].pc = "merge"
    /\ handlers[h].next > BatchSize
    /\ mutex' = IF sessions = stored THEN mutex ELSE {}
    /\ handlers' = [handlers EXCEPT ![h].pc = "put", ![h].copy = sessions]
    /\ UNCHANGED <<up, sessions, stored, exporters, answered, faults, stops, history>>

(* The dashboard is composed, every session copied, d.mu released. *)
Unlock(h) ==
    /\ handlers[h].pc = "merge"
    /\ handlers[h].next > BatchSize
    /\ mutex' = {}
    /\ handlers' = [handlers EXCEPT ![h].pc = "put", ![h].copy = sessions]
    /\ UNCHANGED <<up, sessions, stored, exporters, answered, faults, stops, history>>

WriteFails(h) ==
    /\ faults < MaxFaults
    /\ faults' = faults + 1
    /\ Answer(h, FALSE)
    /\ UNCHANGED <<up, sessions, mutex, stored, stops>>

(* Fault: the answer does not wait for the disk. *)
PutNothing(h) ==
    /\ handlers[h].pc = "put"
    /\ handlers' = [handlers EXCEPT ![h].pc = "snapshot", ![h].copy = NoCopy]
    /\ UNCHANGED <<up, sessions, mutex, stored, exporters, answered, faults, stops, history>>

PutTelemetrySessions(h) ==
    /\ handlers[h].pc = "put"
    /\ \/ WriteFails(h)
       \/ /\ stored' = handlers[h].copy
          /\ handlers' = [handlers EXCEPT ![h].pc = "snapshot",
                                           ![h].copy = NoCopy]
          /\ UNCHANGED <<up, sessions, mutex, exporters, answered, faults, stops, history>>

(* The dashboard's own contents are left out. *)
PutSnapshot(h) ==
    /\ handlers[h].pc = "snapshot"
    /\ \/ WriteFails(h)
       \/ Answer(h, TRUE) /\ UNCHANGED <<up, sessions, mutex, stored, faults, stops>>

-----------------------------------------------------------------------------
(* The daemon stops and starts; every request under way fails. *)

Stop ==
    /\ up /\ stops < MaxStops
    /\ up' = FALSE
    /\ stops' = stops + 1
    /\ sessions' = NoCopy
    /\ mutex' = {}
    /\ handlers' = [h \in Handlers |-> IdleHandler]
    /\ exporters' = [x \in Exporters |-> [exporters[x] EXCEPT !.by = {}]]
    /\ UNCHANGED <<stored, answered, faults, history>>

(* Fault: the counters are restored without their fingerprints. *)
NewWithoutFingerprints ==
    /\ ~ up
    /\ up' = TRUE
    /\ sessions' = [s \in Sessions |-> [stored[s] EXCEPT !.recent = <<>>]]
    /\ UNCHANGED <<mutex, handlers, stored, exporters, answered, faults, stops, history>>

New ==
    /\ ~ up
    /\ up' = TRUE
    /\ sessions' = stored
    /\ UNCHANGED <<mutex, handlers, stored, exporters, answered, faults, stops, history>>

Serve(h) ==
    \/ Lock(h) \/ MergeEvent(h) \/ Unlock(h)
    \/ PutTelemetrySessions(h) \/ PutSnapshot(h)

Next ==
    \/ \E x \in Exporters : TimeOut(x) \/ Drop(x)
    \/ \E x \in Exporters, h \in Handlers : Receive(h, x)
    \/ \E h \in Handlers : Serve(h)
    \/ Stop \/ New

Spec == Init /\ [][Next]_vars

(* Requests are served, exporters keep sending, the daemon is restarted.   *)
(* Weak fairness is enough: there are only so many batches, so that d.mu   *)
(* and a handler are free for good in the end.                             *)
Fairness ==
    /\ \A h \in Handlers : WF_vars(Serve(h))
    /\ \A x \in Exporters : WF_vars(\E h \in Handlers : Receive(h, x))
    /\ WF_vars(New)

FairSpec == Spec /\ Fairness

-----------------------------------------------------------------------------
(* What must be true of it *)

(* Every variable holds a value of its kind. *)
TypeOK ==
    /\ up \in BOOLEAN
    /\ sessions \in [Sessions -> TelemetrySession]
    /\ mutex \in {{}} \cup {{h} : h \in Handlers}
    /\ handlers \in [Handlers -> Handler]
    /\ stored \in [Sessions -> TelemetrySession]
    /\ exporters \in [Exporters -> Exporter]
    /\ answered \subseteq Exporters \X Batches
    /\ faults \in 0 .. MaxFaults
    /\ stops \in 0 .. MaxStops
    /\ alone \in BOOLEAN /\ timely \in BOOLEAN
    /\ pushed \in [Exporters -> Nat]

(* A repeated batch is not counted twice (otlp_json.go:190), in memory or  *)
(* on disk: not after a timeout, a 500 for a batch that was merged, a      *)
(* restart between the deliveries or a copy written late.  The window is   *)
(* what this rests on: it holds as long as every request takes d.mu while  *)
(* its batch is the one its exporter is at and others of the session have  *)
(* left room for it.  A request that was given up while it waited for d.mu *)
(* may take it any number of batches later, and the code then counts it    *)
(* again.                                                                  *)
CountedAtMostOnce ==
    timely => \A s \in Sessions, e \in Events :
                 sessions[s].added[e] <= 1 /\ stored[s].added[e] <= 1

(* The event, or one that has its fingerprint, was added. *)
Counts(session, e) ==
    \E f \in Events :
        FingerprintOf[f] = FingerprintOf[e] /\ session.added[f] >= 1

(* What was answered with 200 is in the database, so that it survives a    *)
(* restart: what daemon_test.go:124 expects after one request.             *)
AnsweredIsStored ==
    \A x \in Exporters, b \in Batches : <<x, b>> \in answered =>
        \A e \in EventsOf(x, b) : Counts(stored[SessionOf[x]], e)

(* The code keeps that as long as no two requests are served at a time,    *)
(* through failing writes, timeouts, retries and restarts; overlapping     *)
(* ones may write the copies they took in the wrong order.                 *)
AnsweredAloneIsStored == alone => AnsweredIsStored

(* While the daemon has not stopped, what it answered with 200 is in its   *)
(* counters, however writes fail, overlap or come late.                    *)
AnsweredIsCounted ==
    stops = 0 =>
        \A x \in Exporters, b \in Batches : <<x, b>> \in answered =>
            \A e \in EventsOf(x, b) : Counts(sessions[SessionOf[x]], e)

(* An exporter gets every batch delivered or drops it: failed writes and   *)
(* timeouts do not leave the lock held or the batch refused for ever.      *)
BatchesLeave == \A x \in Exporters : <>(exporters[x].batch > MaxBatches)
=============================================================================
