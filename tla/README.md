# Verification of Biewer

TLA+ models of Biewer (`src/`), the TLC configurations that check them, and
TLAPS proofs about every component that is modelled. Biewer watches coding agents on one
machine: a daemon receives lifecycle hooks and OTLP telemetry, scans the
process table and the agents' transcripts, and serves a dashboard; a command
line starts and stops it, shows the dashboard, stops sessions, and installs
hooks into the agents' configuration.

Every module models code that runs concurrently with something that nobody
synchronises with it: handlers with the scan loop, publishers with each other,
commands with the daemon, a walk with the files it walks, a scan with the
processes it scans, an edit with another editor. Unit tests exercise one such
party at a time.

## Inventory

| Part (source) | State | Operations | Interacts with |
|---|---|---|---|
| Tracked sessions (`internal/daemon/daemon.go`) | `d.sessions`, `d.autoFirstSeen` under `d.mu` | `HandleEvent`, `Tick` (prune, peak memory), `New` (rehydrate) | session history on disk, process scan, hooks over HTTP |
| Session history (`internal/db/db.go`) | `sessions/<id>.json`, `events.jsonl` under `db.mu` | `UpsertSession`, `RecordEvent`, `RecentSessions`, `GetSession` | tracked sessions, `biewer sessions` |
| Dashboard publishers (`daemon.go`) | `d.snapshot`, `d.processSessions` | `Tick`, `refreshUsage`, `IngestTelemetry`, `PersistedSnapshot` | state store, clients |
| Row composition and attribution (`daemon.go:661-985`) | none of its own | `composeSessionsLocked`, `buildProbableProcessMatches`, merges | all of the daemon's maps |
| Auto-discovery (`daemon.go:397-466`, `internal/discover`) | `d.autoFirstSeen` | `autoDiscoverLocked`, `FindRoots` | process scan |
| Telemetry ingestion (`daemon.go:569-659`) | `d.telemetrySessions` with fingerprints | `IngestTelemetry` | exporters over HTTP, state store |
| OTLP decoding (`internal/telemetry`) | none | decode logs and metrics, fingerprints | ingestion |
| Transcript collector (`internal/usage`) | index of `UsageSource` per path | `Scan`, deduplication, aggregation | transcript files, state store |
| State store (`internal/db/state*.go`) | one JSON value per key | `Put…`, `Get…` | publishers, `New` |
| HTTP API and client (`internal/daemon/api.go`) | the Unix socket | events, OTLP, dashboard, stop, `Serve` | everything above |
| Stop (`api.go`, `cli/sessions_cmd.go`) | none that survives a request | `Plan`, `Kill`, `cmdStop` | dashboard, processes |
| Daemon lifecycle (`cli/daemon_cmds.go`, `api.go`) | `daemon.pid`, `daemon.sock` | `enable`, `disable`, `daemon-run` | processes, signals |
| Hook commands (`cli/hook_cmd.go`) | none | post one event, once | daemon |
| Hooks, telemetry, setup (`cli/hooks_cmd.go`, `telemetry_cmd.go`, `setup_cmd.go`) | Claude Code's `settings.json`, the shell profile | install, uninstall, status | the user, Claude Code |
| Process scanners (`internal/procscan`) | none | `/proc`, `ps`, `lsof` | `Tick` |
| Findings (`internal/findings`) | none | rules over one tree | composition |
| TUI, watch, rendering, dispatch (`internal/cli`) | screen state | fetch, keys, layout | API |

What is hard about each, and what makes it correct:

- **Tracked sessions and history.** A handler updates memory under `d.mu` and
  writes to disk after it unlocked; handlers of one session, and `Tick`, write
  in any order; the daemon can stop between any two steps. Correct means: an
  answered event is on disk, a peak never goes down, a session stays visible
  for its grace period and then leaves, a restart neither forgets nor revives.
- **Dashboard.** Three publishers change parts of one structure and write copies
  of it after they unlocked. Correct means: none undoes another's part, and
  what clients read comes to be what is true.
- **Auto-discovery.** The scan is not of one moment, hooks come late, and pids
  are reused. Correct means: every agent has a row, no process counts for two
  discovered rows, and a row is dated by its own process.
- **Composition.** Three sources name one session by its id, a launch id, a pid or
  only a directory and a time, and the daemon's maps have no order. Correct
  means: no session is listed twice, none gets another's row or tokens, and a
  guess is made only where there is one candidate.
- **Telemetry.** Exporters repeat batches, and an answer of 500 does not mean
  that the batch was not merged. Correct means: counted once, and what was
  answered is kept.
- **Collector.** Files grow, move and vanish under the walk; an index is trusted
  across restarts. Correct means: counted once, never downwards, in the end in
  full.
- **Stop.** Pids and dashboards change between the plan, the confirmation and
  the signals. Correct means: only the session that was named is hit, and all of
  the plan is gone in the end.
- **Lifecycle.** Two files are the only agreement between commands and daemons.
  Correct means: one daemon, always reachable by the next command.
- **Setup.** Whole files are loaded, changed and written back while others edit
  them. Correct means: the user's own content survives.
- **TUI.** Keys, signals, a timeout and a ticker meet in one `select`, on whose
  loop every fetch runs. Correct means: a key does what it says, the selection
  stays with its session, and a request to end is not lost.

`PROJECT.json` lists every hazard at its line with the properties that cover it.

## Modules

Each module is written from the functions `PROJECT.json` maps it to; names are
those of the source where TLA+ allows it. Definitions marked "Fault:" are
variants of the definition that follows them, with a plausible bug; they are no
part of a specification, and each shows that a property can fail.

### SessionTracker

Tracked sessions and their history. `HandleEvent` is three actions, as the code
unlocks and writes in between: `HandleEvent` (under `d.mu`), `RecordEvent`
(audit log), `UpsertAndReply` (record, 204). `Tick` is `TickScan` (the scan,
before the lock), `TickLocked` (prune, start time, peak; the copies to persist)
and one `TickPersist` per raised peak. `Stop` drops what is in memory at any
point, `New` reads back the most recent `RehydrateLimit` records and keeps the
active ones. Hook processes post each event once and unordered (`net`). A write
of the history may fail when `DiskMayFail`. `acked`, `stops` and `atStop` are
history variables.

Left out: descriptive fields of a session, the dashboard, and trees (the peak is
raised from the memory of the root's tree, which is one number of the scan).

### SessionBook

What the daemon promises about sessions, without its handlers, queues, locks,
times and pids: a `board` of the sessions that are shown, a `book` of records
that outlives the daemon, a log, and the events that were answered. A session
leaves the board only after its end; a peak in the book only rises; an answer
comes after the log entry, with the record; a restart fills the board with what
the book has as active. SessionTracker implements it:

| SessionBook | SessionTracker |
|---|---|
| `open` | `up` |
| `board[s]`, `book[s]`, `peak[s]` | `tracked[s].state`, `history[s].state`, `history[s].peak` |
| `log`, `answered` | `audit`, `acked` |
| `Lossy` | `DiskMayFail` |
| `Accept`, `Log`, `Answer` | `HandleEvent`, `RecordEvent`, `UpsertAndReply` |
| `Leave`, `Record` | `TickLocked`, `TickPersist` |
| `Stop`, `Restart` | `Stop`, `New` |

All other steps change nothing of it. What the book does not promise is as
telling: a record may be of an earlier state than the board's, which is what
`tracker_revives` shows the consequence of.

### ProcessTree and Discovery

ProcessTree holds what is computed from one scan: `buildTree` (as the set of pids
below a root, which is what all its callers use of it), `hasMatchedAncestor`,
`FindRoots`. The code walks, down the children or up the parents, and remembers
what it has met; what such a walk reaches is the least set that holds where it
starts and is closed under its step, and that is how `buildTree` and `Ancestors`
are defined, so that they can be reasoned about. The walk up gives up
after 1000 parents (`patterns.go:149`): `ProcessTreeAssumption` allows no more
pids than that, with which no walk is cut.

Discovery runs them: processes start, exit, are reparented and reuse pids
(`Spawn`, `Exit`), hooks announce roots and ends, and `Tick` is `TickScan` and
`TickLocked`. The scanner reads `/proc` one entry after the other, so `Scans`
offers every mixture of the table when the scan began and the table when it
ended; a parent may be missing, and two processes may be each other's parent.
`TickLocked` prunes, makes the rows of the sessions hooks announced, collects
what they attribute, and looks for roots in the rest, with `autoFirstSeen`.

### Attribution and Rows

Attribution is `composeSessionsLocked` as an operator: the process rows of the
last `Tick`, the telemetry sessions and the transcripts in, the list of rows out,
with the iteration order of the daemon's maps as a parameter. `Claimed` has the
four ways to a process row in the order the code tries them (id, launch id,
validated pid, guess); `byID` begins with the rows that have
their session's agent (`Own`): the row of a session that was only heard to end
has none (`NoAgent`), and its key is nobody's.
`Merge`, `MergeTelemetry` and `MergeTranscript` are the
bodies of the loops; `TelemetryTurns` and `TranscriptTurns` are the loops, as
functions from the number of turns to what those turns leave, so that they can be
reasoned about; `ProcessOrder` and `ActivityOrder` are the two sorts;
`buildProbableProcessMatches` is the guess. Of what a merge copies, a row keeps
the id, whose tokens it shows from which source, and the confidence.

A discovered row is called `auto-<pid>`. `AttributionAssumption` says that no
provider gives a session such an id (`Keys` and `Pids` have nothing in common),
and that no two ids have the same rank: they are the last thing
`stableSessionLess` compares.

Rows calls it wherever the code does: `Tick` (with new process rows),
`IngestTelemetry`, `refreshUsage`, each for every order (`Compositions`). An event's
time is the time it arrives; a field that an event does not set keeps its value.

### Dashboard

`Tick`, `refreshUsage` and `IngestTelemetry` as publishers of `d.snapshot`: each
has a gathering step, a locked step and one or two writes. An input is
modelled by its version, a dashboard by the versions it was composed from, so
the questions asked are those of order. It also covers failing writes, restarts
and the keys of the state store; the composition itself is abstract here.

### TelemetryIngest

One batch at a time per exporter: `Receive` (the request is decoded), `Lock` (it
takes `d.mu`, its exporter still waiting or not), `MergeEvent` per event, `Unlock`
(copies of every session), `PutTelemetrySessions`, `PutSnapshot`, `Answer`.
Exporters time out, repeat, or drop a batch after a failure. A session's
counters are modelled by how often each event was added. Any number of
exporters may report one session, as Claude Code's metrics and logs do. Two
events may have one fingerprint (`FingerprintOf`), since `setFingerprint` leaves
the model and the directory out; the second of them is then taken for known.
`alone`, `pushed` and `timely` are history variables: whether requests overlapped,
what others added to a session since an exporter sent its batch, and whether a
request took `d.mu` when its batch could have left the window.

### UsageCollector

`Scan` file by file: `List` reads a directory, `Stat` compares size and time
with the index, `Parse` reads what the file holds by then, `EndOfRoot`; then
`PutUsageSources` and `Publish`. Agents append (also half lines), archive, take
back and delete a transcript between any two steps. `Counted` is
`DeduplicateSources`. A session has one transcript: of two files with
one session id the code counts the newer one, as if the other were its copy.

### StopSession

`cmdStop` (`Ask`, `Abandon`, `Confirm`, `GiveUp`) and the daemon's side of it
(`Replan`, `Term`, `Sleep`, `KillStraggler`, `Done`), with processes that start,
exit, ignore SIGTERM, belong to another user (`mine`; a signal to these fails) and
reuse pids. A tree is a root and its children.

The rows a text is resolved against change all the time, and each of the ways is
an action: hooks start, end or mention a session (`SessionStart`, `SessionEnd`,
`Activity`; a session that starts again gets another root), `Tick` prunes ended
sessions, forgets old reports and finds agents that no session covers, and
`Report` is telemetry or a transcript of a session, which gives a row that it fits
its own id (`Names`, for `canonicalizeProcessSession`) and is otherwise a row
without processes. `Listed` is the ids that are left.

### DaemonLifecycle

`cmdEnable`, `cmdDisable` and `cmdDaemonRun`, one action per file operation or
signal. A daemon process is "starting" (SIGTERM kills it), "binding" (handler
installed), "cleared" (stale socket removed), "serving", "draining" (listener
closed, path unlinked). `disable`'s signal fails, and `disable` with it, when the
process is gone or a stranger of another user. `orderly` is a history variable:
every command so far ran alone and to its end.

### AgentSetup

`biewer setup`, `hooks` and `telemetry` as sequences of edits, each a load and a
write back: `LoadSettings`, `SaveSettings` (rename), `LoadProfile`,
`TruncateProfile`, `WriteProfile`. `EditSettings` and `EditProfile` are the user
or Claude Code, at any time; `Cut` kills a command or fails a write.
`StripMarkedBlock` and `WithWrapper` work on the profile as a sequence of
tokens, line breaks included. The user puts lines and blank lines anywhere
outside the wrapper, directly above and below it too, and takes blank lines
away. `crowded` is a history variable: a wrapper was taken from between two lines
of the user's with no blank one on either side. Values of the wrong shape under
`hooks`, an event or `env` are left out.

### TUI

The loop of `biewer tui`, one action per branch of its `select`: `ReadByte` (with
`ReadKey`, `ReadAfterEscape` and `ReadArrow` by how much of an arrow was read),
`DeadlineFires`, `TakeSignal`, `TickerFires`. A fetch lasts from `Start("fetch")` to
`EndFetch`, and what follows it, and every key that changes the screen, is a
redraw, from `Start("render")` to `EndRender`, which runs stty; the loop does nothing
else meanwhile. The terminal sends a key's bytes together; 80 ms are enough to
read them for a loop that is in its select (`PassDeadline`). Besides the arrows
there is one key of every other kind that begins with ESC: F1 (`ESC O P`) and
Shift-F2 (`ESC [ 1 ; 2 Q`), both of which end the program. A `[` of its own is left
out: after Escape it is taken for an arrow's. So are the samples for the graphs
and what is drawn.

### How they fit together

The modules share the daemon's lock but no variable that two of them change:
SessionTracker owns `d.sessions` and the history, TelemetryIngest the telemetry
sessions, UsageCollector the index, and Dashboard sees each of the three as a
version. `Stop` and `New` occur in these four; DaemonLifecycle says when they do.
Discovery makes the process rows that Rows takes as input (`ProcessRows`), both
through ProcessTree's operators; Rows composes the list that Dashboard publishes
as versions; StopSession and TUI read that list, and name its rows by id, which
is why `NoSessionListedTwice` matters. AgentSetup installs the hooks that
SessionTracker receives and the exporters TelemetryIngest serves.

## Runs

All passing runs explore their state space completely.

| Run | Checks | Bounds |
|---|---|---|
| `tracker_race` | type; `PeakOnItsWayToDisk`, `AnsweredEventsAreRecorded`, `TrackedSessionsAreRecorded`; `KeepsTheBook` (implements SessionBook) | one session, three events, two handlers and `Tick` at a time, one stop |
| `tracker_grace` | `VisibleUntilGraceIsOver`, `EndedSessionsLeave` | two events, one handler, four units of time, failing writes, one stop; fair |
| `discovery` | `AutoTreesAreDisjoint`, `EveryAgentIsShown`, `OverlapsStartAboveTheHook`, `OldDatesEndWithTheirTick` | three pids, three processes, one hooked session, two hook events, any number of Ticks |
| `rows` | `NoSessionListedTwice`, `UncontestedSessionsAreShown`, `ProbableRowsAreUnique` | two sessions, up to two process rows of five kinds, two telemetry events, one transcript, one `Tick`, three moments, every order |
| `dashboard` | type; `NoPartGoesBack`, `ClientsCatchUp` | one change of processes and of transcripts, two batches, so that two requests are under way at once, one fault, one stop; fair |
| `telemetry` | type; `CountedAtMostOnce`, `AnsweredAloneIsStored`, `AnsweredIsCounted`, `BatchesLeave` | two exporters of one session, two handlers, two batches of two events each, two events with one fingerprint, a window of four, one fault, one stop; fair |
| `collector` | type; `NothingIsCountedTwice`, `CountNeverDecreases`, `TranscriptsAreCounted` | one transcript, three writes, three moves, one fault, one stop; fair |
| `stop` | `OnlyOneSessionIsHit`, `PlannedProcessesDie` | a hooked session, a discovered one and a reported id, two pids, three processes, two hook events, three texts, one command; fair |
| `lifecycle` | type; `OneDaemon`, `ServingDaemonIsReachable`, `SignalledDaemonsExit`, `CommandsReturn` | two terminals, three commands, three pids, two mishaps; fair |
| `setup` | type; `UserSettingsSurvive`, `ProfileStaysWhole`, `SetupIsIdempotent` | three commands, two edits by others at any line, one cut |
| `tui` | `ArrowsDoNotQuit`, `SelectionFollowsItsSession`, `AskedToEndEnds` | two rows, two keys of ten kinds, one change, two signals; fair |
| `tracker_revives` | `RestartRevivesNothing` is violated | one session, two events, two handlers |

`TypeOK` of Discovery and Rows, and `StopTypeOK` of StopSession, document the
values of the variables, and are proved; those runs spend their time on what can
really go wrong.

Why the bounds are enough. The races are between a fixed number of parties: two
handlers and the scan loop is every pair of writers of one record, and a third
handler would only repeat a second. Sessions do not share records, so one
session suffices where the property is about one; two are used where one's id,
batch or copy can be taken for another's. Constants of the code are scaled and
keep their relations: `Grace` is one unit of `EndedSessionGrace` and time runs
until well after it; `RehydrateLimit` (200) is larger than the number of
sessions where forgetting is not the question; `Window` (256) holds two
batches, so that a batch of each of two exporters fits and a third batch pushes
one out. A fault, a stop and a restart occur once, which is where the
properties could break: the second finds the state the first could have left.
In `lifecycle` two mishaps are needed for a crash followed by a reused pid.
In `stop` two hook events are the start of a session, and its end or its start
under another root, after which `Tick` prunes it or it has another tree; the id
of one session begins the other's, and a third text begins both. In `telemetry`
one fault is a timeout of a request that waits for `d.mu`, whose batch is
repeated, answered and followed by another before the request gets the lock.
`tracker_race` has a disk that works; writes that fail are in `tracker_grace` and in
the theorems. In `dashboard` two batches and two requests let two requests take
copies and write them in the other order.

In `discovery` three pids are a root, a child and what is between or below them,
and three processes are enough for a pid to be reused; pids are interchangeable
(`PidSymmetry`: nothing compares two pids; the code's only use of their order is
that of children in a tree, which is a set here). In `rows` the windows are
scaled to one unit (`Near`, 45 s) and to the same moment (`Window`, 24 h), so that
both sides of each edge occur within three moments and nearness is not an
equality, and `Limit` (50) is one, so that a row is left out as soon as there
are two. The rows of `MCRows` are the
ones that can compete: announced by session id, announced by launch id,
announced by its end only, discovered on a reused pid, and a root above it. Two
sessions are every pair of competitors; a third would compete with one of them in
the same way. In `tui` a signal queue of one stands for two, so that two signals
overflow it, and two keys are what it takes for one key's bytes to meet another's.

Deadlock is not checked where the model ends because its bounds do, or the
program does (`telemetry`, `stop`, `lifecycle`, `setup`, `discovery`, `rows`, `tui`).

### Fairness

- SessionTracker: the scan loop's ticker keeps firing (`daemon.go:506`), a
  handler that runs goes on, and time passes. Nothing makes hooks arrive.
- Dashboard, UsageCollector: both loops are started by `cmdDaemonRun` and only end
  with the context; somebody starts the daemon again.
- TelemetryIngest: a request that is served goes on, taking `d.mu` included;
  exporters keep sending; somebody starts the daemon again. Weak fairness is
  enough, as there are only so many batches.
- StopSession: the request the daemon serves goes on after the command gave up,
  since `Kill` does not look at the request's context.
- DaemonLifecycle: commands and daemons that can run do. A user need not do
  anything.
- TUI: a fetch ends (its context does after 1.5 s), stty ends, and time passes; `select` takes
  one of the branches that are ready at random, so strong fairness for each of
  them. A fetch that is always slower than the ticker is allowed.

### Disagreements between the code and its documentation

A run that must fail, with one property:

- `tracker_revives`: the start handler of a session can write its copy after the
  end handler; a restart then rehydrates a session that had ended, against
  `daemon.go:180`.

Found the same way and kept out of the runs; each is seen by checking the
property with the constants given, under `Spec` (`StopSpec`, `TUISpec`) and
without a check for deadlock:

- `AnsweredIsStored` of MCTelemetryIngest, two exporters and handlers,
  `BatchSize = 1`, `Window = 2`, one batch, no fault, no stop: of two overlapping
  requests the one that copied first can write last (`daemon.go:637`), and what
  the other was answered for is not on disk.
- `OnlyOneSessionIsHit` of MCStopSession without `StillNamed(u)`, the constants of
  `stop`: the plan of `task-1` is shown; then `Tick` prunes it, or telemetry gives its
  row another id; the second request finds no row `task-1`, resolves the full id
  as a prefix, and terminates what is listed as `task-12` (`api.go:277`), against
  "a session's processes" of `cli.go:80`.
- `CountedAtMostOnce` of MCTelemetryIngest without `timely`, the constants of
  `telemetry`: a request that waits for `d.mu` (`daemon.go:574`) is given up; its
  batch is repeated and answered, later ones push it out of the window, and the
  first request then takes the lock and counts it again, against
  `otlp_json.go:190`. The request's context is not looked at.
- The same, with one exporter, one handler, `BatchSize = 3`, `Window = 1`, one batch,
  one fault: a batch with more events than the window is counted again when it is
  repeated.
- `ProfileStaysWhole` of AgentSetup without `~ crowded`, the constants of `setup`: a
  user puts a line directly above the wrapper and one directly below; the next
  install or uninstall joins them, as `stripMarkedBlock` takes the line break
  before the block whoever put it there (`hooks_cmd.go:378`), against the comment
  at `hooks_cmd.go:372`.
- `NoSessionListedTwice` of MCRows without the agents, the constants of `rows`: a
  session_end of an unknown session makes a row without an agent
  (`daemon.go:231`); telemetry or a transcript of the session does not find it
  under its own key (`daemon.go:674`, `:692`) and is listed beside it with the same
  id. Clients that name a row by its id alone, `stop` among them, take the first.
- `NeverTwoDaemons` of DaemonLifecycle, two terminals, two commands, no mishap: the
  pidfile is no lock, against `api.go:108`.
- `NeverDoubleListed` of MCDiscovery, the constants of `discovery`: a root that is
  discovered above a hooked session's root has that session's processes in its
  tree too, against the comment at `daemon.go:313`. `OverlapsStartAboveTheHook`
  says that this is the only way.
- `AmbiguousSessionsAreKeptSeparate` of MCRows, the constants of `rows` with
  `Limit = 2`: two telemetry sessions with one launch id are merged into one row;
  one of them is listed no more, its tokens with it, and which one depends on the
  order of a map (`daemon.go:696`). `README.md:75` of the source says that
  ambiguous tasks are kept separate.
- `NobodyElseFitsAProbableRow` of MCRows, the constants of `rows`: a session that fits
  two process rows is proposed for neither, and does not count against the other
  session that fits only one of them: that row is marked as a unique match, though
  it may be the first session's (`daemon.go:873`). `README.md:70` calls the mark
  "unique probable process match"; `ProbableRowsAreUnique` says what is unique.
- `NoArrowIsSwallowed` of TUI, the constants of `tui`: an arrow whose first byte was
  read waits for a fetch or a redraw, the escape timeout expires meanwhile, and
  `select` may take it before the bytes: the program ends, against
  `tui_cmd.go:120`. `ArrowsDoNotQuit` says that this is the only way.
- `RestartForgetsNothing` of MCSessionTracker, two sessions, one handler,
  `RehydrateLimit = 1`, `MaxRss = 0`, two units of time, two events: an active
  session that is not among the most recently started records is forgotten
  (`daemon.go:184`, against the comment at `:180`).
- `LastDashboardIsServed` of Dashboard, one request and one batch: `Tick` writes its copy after
  a request that composed a later one (against the comment at `daemon.go:283`).
- `disable` after a crash signals whatever program has the daemon's pid by then,
  and `enable` takes that program for the daemon (`daemon_cmds.go:83`).
- `stop` shows a plan and terminates another: processes that start while the user
  reads it, and are below the session's root at the next `Tick`, are hit unseen
  (`api.go:227`, against `README.md:60` of the source).
- A process of another user in the plan (of a setuid program, or under sudo)
  outlives SIGTERM and SIGKILL; the second error is not looked at (`api.go:317`).
- A value of the wrong shape under `hooks`, an event or `env` in `settings.json` is
  replaced without a word (`hooks_cmd.go:169`, `:221`, `telemetry_cmd.go:85`).
- `telemetry uninstall` also deletes variables the user had set to Biewer's value
  before (`telemetry_cmd.go:129`).

Seen while reading, and not stated as a property:

- A hooked session whose root exits unnoticed keeps its pid; when the pid is
  reused, the row shows the other program's tree with the old start time, as
  confirmed (`daemon.go:321`; Discovery's `HookRow` does the same).
- A process that is in the trees of two rows is owned by the last of them in their
  order, so that telemetry that names its pid goes to that row (`LastOf`).
- Composition renames a discovered row from `auto-<pid>` to the session's id; the
  TUI's selection, which goes by id, then falls back to the row it was on.
- F1 to F4, and Alt with a letter, end the TUI at the byte after ESC
  (`tui_cmd.go:137`), and Shift-F2 by its last byte, `Q`: of `ESC [ 1 ; 2 Q` only
  three bytes are taken for an arrow's.
- A SIGTERM that finds the TUI's `sigCh` full of SIGWINCH is dropped
  (`tui_cmd.go:96`).
- A state database that cannot be read is logged and taken as empty
  (`daemon.go:153`); the next write replaces it.

## Proofs

A theorem holds for every value of the constants that satisfies its module's
named assumption: any number of sessions, handlers, pids, commands, any bound on
faults and stops. The assumptions say what kind of value each constant is, and
besides: ids are not pids, a session begins with its own id, no two ids have the
same rank, ProcessTree's bound above, and that there is an exporter with a batch.
No theorem has a hypothesis of its own; where the code keeps something only
under a condition, the condition is part of the property, in terms of what
happened so far (`alone`, `timely`, `StillNamed`, `crowded`, `orderly`).

Every invariant below was first checked by TLC on the run of its component. Each
proof is laid out alike: typing first, with a lemma for each operator that makes
a value; what `Init` establishes; one lemma or step for each action, with a part
per conjunct that the action can disturb; the theorems last.

### SessionTracker_proofs

| Theorem | States |
|---|---|
| `TypeCorrect` | `Spec => []TypeOK` |
| `PeakMonotone` | `Spec => PeakNeverDecreases` |
| `AnsweredIsDurable` | `Spec => []AnsweredEventsAreRecorded` |
| `TrackedIsRecorded` | `Spec => []TrackedSessionsAreRecorded` |
| `PeakReachesDisk` | `Spec => []PeakOnItsWayToDisk` |
| `GraceRespected` | `Spec => VisibleUntilGraceIsOver` |
| `BookIsKept` | `Spec => KeepsTheBook`: SessionTracker implements SessionBook |

`PeakMonotone` follows from typing alone: the only action that writes a
record goes through `Upserted`, which takes the larger peak.

Most of the others are not inductive alone. That an answered event is recorded
depends on what the handler carries before it answers: that its event was logged
before its record is written, that its copy is a session that exists, and that
what `Tick` queued are sessions that exist, so that no write turns a record
back into none. `WritesInFlight` says so, and

    RecordsInv == TypeOK /\ WritesInFlight /\ AnsweredEventsAreRecorded
                         /\ TrackedSessionsAreRecorded

is inductive: `InitRecordsInv`, then one lemma for each of the machine's steps,
the handlers', `Tick`'s, and `Stop` and `New`, with one step per action and one
part per conjunct the action can disturb. `TrackedSessionsAreRecorded` needs
`WritesInFlight` when a handler finishes (its copy is what makes the record
exist) and typing when `New` rehydrates (only from records). `WritesInFlight` also holds that
a scan is not of the future, from which `GraceRespected` follows: what is
expired at the time of the scan is expired now. `PeakReachesDisk` needs less:
its invariant, `PeakOnItsWayToDisk`, is inductive together with typing alone
(one step per action; `PeakStep` gives that the disk's peak never goes down).

`BookIsKept` needs `RecordsInv` (an answer's event is in the log, a record that is
written is of a session that exists) and `DownIsEmpty`, that a stopped daemon has
neither sessions nor handlers nor a Tick: it is why `Restart` finds an empty board.
Its step lemma `BookStep` names, for each action, the action of SessionBook that
it is, or shows that none of the abstract variables changes; `AppliedMoves` and
`UpsertWrites` relate the operators of both.

### Clients_proofs

What the daemon's clients rely on: the dashboard they are served (Dashboard), and
the command they stop a session with (StopSession).

| Theorem | States |
|---|---|
| `TypeCorrect` | `Spec => []TypeOK` of Dashboard |
| `PartsGoForward` | `Spec => NoPartGoesBack` |
| `StopTypeCorrect` | `StopSpec => [](StopTypeOK /\ ProcsAreWhole)` |
| `StopHitsOneSession` | `StopSpec => []OnlyOneSessionIsHit` |
| `PlannedProcessesAreGone` | `StopSpec => []NothingOfAPlanIsLeft`, the safety half of `PlannedProcessesDie` |

`OrderInv` adds to the types: a publisher holds nothing older than what it will
replace (`InputsAreFresh`), the dashboard was composed from what memory held
(`SnapshotIsOfMemory`), and a daemon that is down has neither (`DownIsBlank`). The
first is what makes the locked step safe although the input was gathered before
the lock: there is one `Tick` loop and one usage loop, and each is the only
writer of its input. That the state database may be older does not matter to it,
since a restart begins with what is stored.

`OneSession(u)`, for each terminal: the command is about a session that its text
begins the id of, what is signalled is in the plan, and the session the daemon
planned for is the one that was shown, as long as `StillNamed(u)`. The daemon
resolves the text a second time when the user confirms, among rows that may have
left or changed their ids; `StillNamed` says when that can only give the session
of the first time: the text begins no other id, or the session was still listed
and the text is its id or no id at all. The code does not ask for more, and
without it the property is violated (above). Listed rows, hooks, reports and
pruning are arbitrary here: `OneSession` follows from `Planned` alone, whose
prefix branch is empty or has one row.

`GoneInv`: a plan is of processes born before the next one is, so that a pid that
is used again does not bring a planned process back; in the second round, what is
left of a plan is still to be signalled. Processes of other users survive both
rounds, and `Survives` leaves them out.

### DaemonLifecycle_proofs

| Theorem | States |
|---|---|
| `TypeCorrect` | `Spec => []TypeOK` |
| `AtMostOneDaemon` | `Spec => []OneDaemon` |
| `DaemonIsReachable` | `Spec => []ServingDaemonIsReachable` |
| `SocketIsNotTaken` | `Spec => SocketIsKept`: the path of a serving daemon is changed by that daemon only |

The pidfile is no lock, and what makes it one when commands run one after the
other (`orderly`) is `OrderlyInv`: `OneCommand`; `OneLive`, as a property of pairs;
`LiveIsNamed`, the live daemon is in the pidfile or is the one an `enable` is
about to write there; `ServingIsBound`, whoever serves has the socket; and
`StepsAreEarned`, what a command has made sure of by the step it has reached.
The last is where the code is subtle: `disable` removes the pidfile after a wait
of five seconds, which runs out only on a daemon that has acted on its SIGTERM and
drains (`WaitForExit`), and `enable` starts a daemon only where the pidfile names
no process. `orderly` becomes false when a command is left with its work undone,
so the theorems speak of crashes of daemons, slow and failing starts and reused
pids, not of two commands at a time, for which `NeverTwoDaemons` fails (above).

### UsageCollector_proofs

| Theorem | States |
|---|---|
| `TypeCorrect` | `Spec => []TypeOK` |
| `NothingCountsTwice` | `Spec => []NothingIsCountedTwice` |
| `CountOnlyGrows` | `Spec => CountNeverDecreases` |

`CountInv`: no index has more of a file than was written, nor a later time
(`EntriesWithinFiles`, for the index in `Scan`, the one in memory and the stored
one); what `Stat` saw is at least as new as the entry `Parse` replaces
(`StatIsNewer`); no Scan runs in a daemon that is down; the index of a Scan counts
no less than what is published (`ScanCountsNoLess`). `CountOnlyGrows` is about
the choice `DeduplicateSources` makes between the two directories: it takes the
entry of the later time, so a Scan must never make an entry newer without also
making it at least as long. The model's own order of the two steps of `Stat` and
`Parse`, with writes in between, is what the proof is about.

### TelemetryIngest_proofs

| Theorem | States |
|---|---|
| `TypeCorrect` | `Spec => []TypeOK` |
| `AnsweredIsDurable` | `Spec => []AnsweredAloneIsStored` |
| `AnsweredCounts` | `Spec => []AnsweredIsCounted` |
| `RepeatsCountOnce` | `Spec => []CountedAtMostOnce` |

`IngestInv` is about loss: a fingerprint is kept only of an event that was added
(`NothingIsForged`), so that skipping a known event loses nothing; the work of a
handler is in memory and in its copy (`WorkIsKept`), and with it what is answered
(`AnswersAreCounted`); and while requests are served one at a time, a copy covers
what is stored (`AloneInv`), so that no write takes back an answered batch.

`OnceInv` is about repetition, `timely` given. Counters are `Ready` for an
exporter when nothing of a later batch than its current one was added, and the
events of the current one that were added are among the last fingerprints, no
deeper than as many as were added and as others pushed since the batch was first
sent (`Remembers`); with room left for a batch (`pushed[x] + BatchSize <= Window`)
no merge of the exporter can then push its own events out before it meets them.
It holds of memory, of the database and of every copy that may yet be written
(`AllAreReady`), because a restart may begin with any of these. While a batch is
merged its handler holds the lock (`MergingIsLocked`), and what it added so far is
remembered still (`MergesInTime`). `NobodyIsAhead` and `WaitsForItsBatch` tie
requests to batches: a request that was given up is for a batch its exporter is
at, or is past.

`timely` is the code's own limit, and no assumption: the property says nothing
after the first request that took `d.mu` when its exporter was past its batch or
others of the session had left no room for it, for then the code does count
again (above). How many exporters share a session, how large their batches are,
and which events share a fingerprint are free.

### AgentSetup_proofs

| Theorem | States |
|---|---|
| `TypeCorrect` | `Spec => []TypeOK` |
| `SettingsAreKept` | `Spec => []UserSettingsSurvive` |
| `ProfileIsKept` | `Spec => []ProfileStaysWhole` |
| `SetupTwiceIsSetupOnce` | `Spec => []SetupIsIdempotent` |

`SettingsInv`: the file, and what a command is about to rename over it, hold what
the user wants. `ProfileInv`: the profile, and the text about to be written, are
either plain text, or plain text, the wrapper's block, and plain text again, with
all of the user's lines; and unless `crowded`, each line of the user's has its
break (`Apart`). To strip a wrapper joins what is above it to what is below only
when there is a line directly above, and no blank one below: just when
`Crowded(profile)`. The lemmas in between are about `StripMarkedBlock` and
`WithWrapper` on texts of any length: the first marker of such a text is the
wrapper's own, stripping gives back the two parts, wrapping a stripped text gives
this form again. They hold by reasoning about positions and concatenation,
not by induction.

### Discovery_proofs

| Theorem | States |
|---|---|
| `TypeCorrect` | `Spec => []TypeOK` (of Discovery; no run spends its time on it) |
| `TreesAreDisjoint` | `Spec => []AutoTreesAreDisjoint` |
| `OverlapsAreAbove` | `Spec => []OverlapsStartAboveTheHook` |
| `AgentsAreShown` | `Spec => []EveryAgentIsShown` |
| `DatesEndWithTheirTick` | `Spec => OldDatesEndWithTheirTick` |

`RowsAreOfTheScan` says of every reachable row which tree of which scan it is;
with `ScansAreDated` (no scan is of the future) and the types it is inductive. The
rest are facts about trees in an arbitrary scan, circles and missing parents
included: a tree is the least closed set (`TreeIsLeast`), two trees that meet are
one inside the other (`TreesMeet`), what has a pid in its tree is its ancestor
(`AncestorsAreAbove`), nothing discovered is below another match (`RootsAreOnTop`),
and above every match there is a root, unless there is a circle
(`MatchIsBelowARoot`, by taking a match whose tree no other's above it contains).

### Screen_proofs

What the screen shows: the list the daemon composes (Rows), and the loop that
shows it (TUI).

| Theorem | States |
|---|---|
| `RowsTypeCorrect` | `Spec => []TypeOK` of Rows (no run spends its time on it) |
| `NoIdIsListedTwice` | `Spec => []NoSessionListedTwice` |
| `GuessedRowsAreUnique` | `Spec => []ProbableRowsAreUnique` |
| `SessionsAreShown` | `Spec => []UncontestedSessionsAreShown` |
| `ArrowsAreNoEscape` | `TUISpec => []ArrowsDoNotQuit` |
| `SelectionIsKept` | `TUISpec => SelectionFollowsItsSession` |

The list is made anew by every action of Rows that changes what it is made of, so
the inductive invariant

    RowsInv == HeldOK /\ Listing(snapshot.sessions, rows, telemetry, sources, snapshot.at)

says of the list what one composition gives (`Listing`), and of the daemon's maps
only their types (`HeldOK`). All the work is in `CompositionListing`: the
composition of any process rows, telemetry sessions and transcripts is a
`Listing`, in every order of the maps.

That is a proof about two loops, each over a map of any size. A turn, of either
loop, adds a logical row, merges its session into a process row, or replaces the
tokens of the row that is the session's already; `Turn` has the three as a
relation (`TelemetryTurn`, `TranscriptTurn`). Two loop invariants hold before and
after each turn:

- `Composed`: a process row has its own id, or that of a session that was found to
  be it and that no process row is called by; the sessions with a row of
  their own have no logical row; a row is marked probable where the guess was for
  it. Then two lines of the list cannot have one id for one agent (`TurnComposes`):
  a row found for a session has the session's agent (`SaidOfItsAgent`), and a row
  without an agent is found by no key. It needs that
  `byID` is renewed with every merge: the mutant of `NoSessionListedTwice` drops
  just that line (`daemon.go:723`).
- `Shows`, of one session of which `Uncontested` holds: after its own turn its row,
  or its logical row, has its tokens and its id (`TurnOfItsOwn`), and another
  session's turn does not touch them (`TurnOfAnother`). It rests on `ClaimedIsSaid`:
  whichever of the four ways finds a row for a session, that row is in
  `SaidToBe` of it, so that no other session can claim it.

What holds of 0 turns and is kept by each holds after all (`UpTo`); with
`TelemetryTurnsAre` and `TranscriptTurnsAre`, that the recursive functions are
what each turn makes of the turn before, this takes the place of the induction
theorems, which no prover here can use: `UpTo` is about a set of numbers, whose
least missing one is found by the well-foundedness of strict inclusion between
finite sets. That each row is listed once is counting (`InOrderIsBijection`: no
two of a set have as many before them). `GuessesAreUnique` says of the guess what
`ProbableRowsAreUnique` says of the list. Of the bounds on time, Ticks and
events nothing but the types depends.

`TuiInv`: the bytes that were typed are whole keys, an arrow whose ESC was read
has its other bytes waiting, and a timeout that has expired with bytes waiting
has a fetch or a redraw behind it (`escape.slow`). `SelectionIsKept` needs that the
selected row is the selected key's row in what was last fetched.

### Only model-checked

- The liveness properties (`EndedSessionsLeave`, `ClientsCatchUp`, `BatchesLeave`,
  `TranscriptsAreCounted`, `PlannedProcessesDie`, `SignalledDaemonsExit`,
  `CommandsReturn`, `AskedToEndEnds`): they rest on fairness, and the prover does
  not handle ENABLED.
- `RestartRevivesNothing`, which is false.

## Not modelled, and why

- OTLP decoding, hook payloads, rendering, `watch`: conversions without state.
- `procscan`: how `/proc`, `ps` and `lsof` are parsed; what a scan may return is in
  Discovery.
- Which command lines a pattern matches, ports, sizes and findings of a tree:
  thresholds and text over one tree, without state.
- The descriptive fields that a merge copies (project, model, directory), and
  telemetry whose time is not that of its arrival.
- The RocksDB binding: only its `Put` and `Get`, as for the file store.
- Session lookup by prefix in the history (`GetSession`): it reads only.
- Sizes and permissions of files, and full disks other than as a failing write.

## Plan

Done: SessionTracker with its abstract specification, Dashboard,
TelemetryIngest, StopSession, DaemonLifecycle, UsageCollector, AgentSetup,
ProcessTree, Discovery, Attribution, Rows, TUI, and the proofs above. To come:

1. an abstract specification of Dashboard or of StopSession, with a proof that the
   detailed one implements it, as SessionTracker has;
2. what a merge copies besides the tokens, and the thresholds of `findings`, as
   operators checked over bounded inputs.
