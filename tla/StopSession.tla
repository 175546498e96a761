---------------------------- MODULE StopSession ----------------------------
(***************************************************************************)
(* `biewer stop`: the command asks the daemon for a plan, shows it, asks   *)
(* the user, and then asks the daemon to stop the session.  The daemon     *)
(* does not get the plan back: it resolves the id and plans again, from    *)
(* the dashboard as it is by then, signals every pid of that plan, sleeps, *)
(* and kills what is still alive under those pids.  Meanwhile processes    *)
(* come and go, pids are used again, rows leave the dashboard, come back   *)
(* with another root or get another id, and the command stops waiting      *)
(* after five seconds.                                                     *)
(*                                                                         *)
(* A process is a pid and the number it was born with, as a pid may be     *)
(* used again.  A tree is a root and its children; deeper ones are cut.    *)
(***************************************************************************)
EXTENDS Naturals, FiniteSets

CONSTANTS Pids,         \* process ids
          Agents,       \* those that agents run under at first
          Sessions,     \* ids of rows
          Hooked,       \* those that hooks announce
          AutoSessions, \* those of auto-discovered sessions (auto-<pid>)
          AgentIds,     \* those that telemetry and transcripts name
          RootOf,       \* the root pid of each auto-discovered session
          Args,         \* what users type: ids, and prefixes of ids
          Matches,      \* the ids each of them is a prefix of
          Users,        \* terminals
          MaxBorn,      \* bound: processes in all
          MaxHooks,     \* bound: hook events in all
          MaxCommands   \* bound: commands in all

ASSUME StopAssumption ==
    /\ Pids \subseteq Nat \ {0} /\ IsFiniteSet(Pids)
    /\ Agents \subseteq Pids
    /\ Sessions # {} /\ Args # {}
    /\ Hooked \cup AutoSessions \cup AgentIds \subseteq Sessions
    /\ Hooked \cap AutoSessions = {}
    /\ RootOf \in [AutoSessions -> Pids]
    /\ Matches \in [Args -> SUBSET Sessions]
    /\ \A s \in Sessions \cap Args : s \in Matches[s]
    /\ {MaxBorn, MaxHooks, MaxCommands} \subseteq Nat
    /\ Cardinality(Agents) <= MaxBorn

VARIABLES
    procs,        \* OS: what runs under each pid
    born,         \* processes born so far
    sessions,     \* d.sessions
    hooks,        \* hook events so far
    processRows,  \* d.processSessions: the trees found by the last Tick
    reports,      \* recent telemetry and transcripts, and the row each fits
    cmds,         \* the command of each terminal
    kills,        \* the request of each terminal the daemon is serving
    commands      \* commands run so far

os == <<procs, born>>
daemon == <<sessions, hooks, processRows, reports>>
StopVars == <<procs, born, sessions, hooks, processRows, reports, cmds,
              kills, commands>>

-----------------------------------------------------------------------------
(* mine: the process belongs to the daemon's user. *)
Process == [born : 0 .. MaxBorn, parent : Pids \cup {0}, mine : BOOLEAN]
NoProcess == [born |-> 0, parent |-> 0, mine |-> FALSE]
Identity == [pid : Pids, born : 1 .. MaxBorn]

PidsOf(processes) == {x.pid : x \in processes}

Alive(p) == procs[p].born # 0
Running(p) == [pid |-> p, born |-> procs[p].born]

(* buildTree: nothing once the root is gone, whatever its children do. *)
Tree(root) ==
    IF root = 0 \/ ~ Alive(root) THEN {}
    ELSE {Running(p) : p \in {root} \cup {c \in Pids : procs[c].parent = root}}

Tracked == [state : {"none", "active", "ended"}, root : Pids \cup {0}]
Untracked == [state |-> "none", root |-> 0]

(* The rows that processes back: those of the hooked sessions that are     *)
(* kept, and the agents that none of these covers.                         *)
RowsOf(kept) ==
    LET attributed == UNION {PidsOf(Tree(sessions[s].root)) : s \in kept}
        found == {s \in AutoSessions : Alive(RootOf[s]) /\ RootOf[s] \notin attributed}
    IN  [s \in kept \cup found |->
            Tree(IF s \in kept THEN sessions[s].root ELSE RootOf[s])]

-----------------------------------------------------------------------------
(* d.snapshot, composed anew whenever a part of it changes *)

(* canonicalizeProcessSession: a row that telemetry or a transcript fits   *)
(* takes the id these name, unless another row has that id for its own.    *)
Names(s) ==
    LET canonical == {t \in DOMAIN reports \ DOMAIN processRows : s \in reports[t]}
    IN  IF canonical = {} THEN {s} ELSE canonical

(* Sessions that are only reported are rows without processes.             *)
Listed == (UNION {Names(s) : s \in DOMAIN processRows})
          \cup (DOMAIN reports \ DOMAIN processRows)

ProcessTree(id) == UNION {processRows[s] : s \in {r \in DOMAIN processRows : id \in Names(r)}}

(* about is the session whose plan was shown. *)
AtPrompt == [at |-> "prompt", arg |-> CHOOSE a \in Args : TRUE,
             about |-> CHOOSE s \in Sessions : TRUE]
Command == [at : {"prompt", "asked", "sent", "left"}, arg : Args, about : Sessions]

(* hit is the pids that were signalled, of the session that the daemon     *)
(* planned for; still is that the one whose plan was shown was listed then *)
(* (all three for the properties only).                                    *)
IdleKill == [pc |-> "idle", plan |-> {}, todo |-> {}, hit |-> {}, of |-> {},
             still |-> FALSE]
Request == [pc : {"idle", "plan", "term", "kill"},
            plan : SUBSET Identity, todo : SUBSET Pids,
            hit : SUBSET Pids, of : SUBSET Sessions, still : BOOLEAN]

Least(P) == CHOOSE p \in P : \A q \in P : p <= q

(* The agents run, and the daemon did its first Tick. *)
StopInit ==
    /\ procs = [p \in Pids |->
                  IF p \in Agents
                  THEN [born |-> Cardinality({q \in Agents : q <= p}), parent |-> 0,
                        mine |-> TRUE]
                  ELSE NoProcess]
    /\ born = Cardinality(Agents)
    /\ sessions = [s \in Hooked |-> Untracked]
    /\ hooks = 0
    /\ processRows = RowsOf({})
    /\ reports = [t \in {} |-> {}]
    /\ cmds = [u \in Users |-> AtPrompt]
    /\ kills = [u \in Users |-> IdleKill]
    /\ commands = 0

-----------------------------------------------------------------------------
(* The machine *)

(* Also a process of another user: of a setuid program, or under sudo. *)
Spawn(p, parent, mine) ==
    /\ ~ Alive(p) /\ born < MaxBorn
    /\ parent \in {0} \cup {q \in Pids : Alive(q)}
    /\ born' = born + 1
    /\ procs' = [procs EXCEPT ![p] = [born |-> born', parent |-> parent, mine |-> mine]]
    /\ UNCHANGED <<daemon, cmds, kills, commands>>

(* Children of a process that exits get another parent. *)
Without(p) ==
    [q \in Pids |-> IF q = p THEN NoProcess
                    ELSE IF procs[q].parent = p THEN [procs[q] EXCEPT !.parent = 0]
                    ELSE procs[q]]

Exit(p) ==
    /\ Alive(p)
    /\ procs' = Without(p)
    /\ UNCHANGED <<born, daemon, cmds, kills, commands>>

-----------------------------------------------------------------------------
(* HandleEvent, as far as rows depend on it: they change with the next Tick *)

HookEvent(s, tracked) ==
    /\ hooks < MaxHooks
    /\ hooks' = hooks + 1
    /\ sessions' = [sessions EXCEPT ![s] = tracked]
    /\ UNCHANGED <<os, processRows, reports, cmds, kills, commands>>

(* A new session, or a known one that starts again under another process. *)
SessionStart(s, p) == Alive(p) /\ HookEvent(s, [state |-> "active", root |-> p])

(* Also of a session that is not known, which then has no root. *)
SessionEnd(s) == HookEvent(s, [state |-> "ended", root |-> sessions[s].root])

Activity(s) ==
    /\ sessions[s].state = "none"
    /\ HookEvent(s, [state |-> "active", root |-> 0])

-----------------------------------------------------------------------------
(* What the daemon learns *)

(* Tick: all trees as they are now.  Sessions whose grace has passed are   *)
(* pruned, and telemetry and transcripts that got too old are left out.    *)
Tick ==
    /\ \E pruned \in SUBSET {s \in Hooked : sessions[s].state = "ended"} :
          /\ sessions' = [s \in Hooked |-> IF s \in pruned THEN Untracked
                                           ELSE sessions[s]]
          /\ processRows' = RowsOf({s \in Hooked : sessions[s].state # "none"} \ pruned)
    /\ \E recent \in SUBSET DOMAIN reports :
          reports' = [t \in recent |-> reports[t]]
    /\ UNCHANGED <<os, hooks, cmds, kills, commands>>

(* IngestTelemetry or refreshUsage: session t is reported, and fits at     *)
(* most one row, by launch id, by pid or by working directory.             *)
Report(t, fits) ==
    /\ \A r \in DOMAIN reports \ {t} : reports[r] \cap fits = {}
    /\ reports' = [r \in DOMAIN reports \cup {t} |-> IF r = t THEN fits ELSE reports[r]]
    /\ processRows' = processRows
    /\ UNCHANGED <<os, sessions, hooks, cmds, kills, commands>>

-----------------------------------------------------------------------------
(* Plan *)

(* Fault: only rows with processes are looked at. *)
FoundWithProcesses(arg) ==
    LET stoppable == {s \in Listed : ProcessTree(s) # {}}
    IN  IF arg \in stoppable THEN {arg} ELSE Matches[arg] \cap stoppable

(* The row with that very id or, failing that, the rows it is a prefix of. *)
Found(arg) == IF arg \in Listed THEN {arg} ELSE Matches[arg] \cap Listed

(* The session to plan for, if there is one: Plan refuses an ambiguous     *)
(* prefix, and a row without processes.                                    *)
Planned(arg) == {s \in Found(arg) : Found(arg) = {s} /\ ProcessTree(s) # {}}

-----------------------------------------------------------------------------
(* cmdStop *)

Ask(u, arg) ==
    /\ cmds[u].at = "prompt"
    /\ commands < MaxCommands
    /\ commands' = commands + 1
    /\ \/ \E s \in Planned(arg) :
             cmds' = [cmds EXCEPT ![u] = [at |-> "asked", arg |-> arg, about |-> s]]
       \/ Planned(arg) = {} /\ UNCHANGED cmds
    /\ UNCHANGED <<os, daemon, kills>>

(* The user declines, or answers after the five seconds that the command   *)
(* gave itself for everything; the second request then fails at once.      *)
Abandon(u) ==
    /\ cmds[u].at = "asked"
    /\ cmds' = [cmds EXCEPT ![u] = AtPrompt]
    /\ UNCHANGED <<os, daemon, kills, commands>>

(* Also --yes, which confirms without a look. *)
Confirm(u) ==
    /\ cmds[u].at = "asked"
    /\ cmds' = [cmds EXCEPT ![u].at = "sent"]
    /\ kills' = [kills EXCEPT ![u].pc = "plan"]
    /\ UNCHANGED <<os, daemon, commands>>

(* The command stops waiting; the daemon goes on all the same. *)
GiveUp(u) ==
    /\ cmds[u].at = "sent"
    /\ cmds' = [cmds EXCEPT ![u].at = "left"]
    /\ UNCHANGED <<os, daemon, kills, commands>>

-----------------------------------------------------------------------------
(* handleStop and Kill *)

Reply(u) ==
    /\ kills' = [kills EXCEPT ![u] = IdleKill]
    /\ cmds' = [cmds EXCEPT ![u] = AtPrompt]

Replan(u) ==
    /\ kills[u].pc = "plan"
    /\ \/ /\ \E s \in Planned(cmds[u].arg) :
                kills' = [kills EXCEPT
                            ![u] = [pc |-> "term", plan |-> ProcessTree(s),
                                    todo |-> PidsOf(ProcessTree(s)), hit |-> {},
                                    of |-> {s}, still |-> cmds[u].about \in Listed]]
          /\ UNCHANGED cmds
       \/ Planned(cmds[u].arg) = {} /\ Reply(u)
    /\ UNCHANGED <<os, daemon, commands>>

(* One signal, to whatever runs under the pid by now: it arrives unless    *)
(* nothing runs there or the process is another user's (EPERM).            *)
Signal(u, p) ==
    /\ kills' = [kills EXCEPT ![u].todo = @ \ {p},
                              ![u].hit = @ \cup {q \in {p} : procs[q].mine}]
    /\ UNCHANGED <<born, daemon, cmds, commands>>

(* SIGTERM, in the order of pids; a process may ignore it. *)
Term(u) ==
    /\ kills[u].pc = "term" /\ kills[u].todo # {}
    /\ LET p == Least(kills[u].todo)
       IN  /\ Signal(u, p)
           /\ procs' = procs \/ (procs[p].mine /\ procs' = Without(p))

(* Fault: once the command gave up, the second round is skipped. *)
SleepUnlessGivenUp(u) ==
    /\ kills[u].pc = "term" /\ kills[u].todo = {}
    /\ kills' = [kills EXCEPT ![u].pc = "kill",
                              ![u].todo = IF cmds[u].at = "sent"
                                          THEN PidsOf(kills[u].plan) ELSE {}]
    /\ UNCHANGED <<os, daemon, cmds, commands>>

Sleep(u) ==
    /\ kills[u].pc = "term" /\ kills[u].todo = {}
    /\ kills' = [kills EXCEPT ![u].pc = "kill",
                              ![u].todo = PidsOf(kills[u].plan)]
    /\ UNCHANGED <<os, daemon, cmds, commands>>

(* SIGKILL to whatever is left; an error is not looked at. *)
KillStraggler(u) ==
    /\ kills[u].pc = "kill" /\ kills[u].todo # {}
    /\ LET p == Least(kills[u].todo)
       IN  /\ Signal(u, p)
           /\ procs' = IF procs[p].mine THEN Without(p) ELSE procs

Done(u) ==
    /\ kills[u].pc = "kill" /\ kills[u].todo = {}
    /\ Reply(u)
    /\ UNCHANGED <<os, daemon, commands>>

-----------------------------------------------------------------------------
Kill(u) == Replan(u) \/ Term(u) \/ Sleep(u) \/ KillStraggler(u) \/ Done(u)

StopNext ==
    \/ \E p \in Pids : \/ Exit(p)
                       \/ \E parent \in Pids \cup {0}, mine \in BOOLEAN :
                             Spawn(p, parent, mine)
    \/ \E s \in Hooked : \/ \E p \in Pids : SessionStart(s, p)
                         \/ SessionEnd(s) \/ Activity(s)
    \/ Tick
    \/ \E t \in AgentIds, s \in Hooked \cup AutoSessions : Report(t, {}) \/ Report(t, {s})
    \/ \E u \in Users : \/ \E arg \in Args : Ask(u, arg)
                        \/ Abandon(u) \/ Confirm(u) \/ GiveUp(u) \/ Kill(u)

StopSpec == StopInit /\ [][StopNext]_StopVars

(* A request the daemon serves keeps running. *)
StopFairSpec == StopSpec /\ \A u \in Users : WF_StopVars(Kill(u))

-----------------------------------------------------------------------------
(* What must be true of it *)

(* Every variable holds a value of its kind. *)
StopTypeOK ==
    /\ procs \in [Pids -> Process]
    /\ born \in 0 .. MaxBorn
    /\ sessions \in [Hooked -> Tracked]
    /\ hooks \in 0 .. MaxHooks
    /\ DOMAIN processRows \subseteq Hooked \cup AutoSessions
    /\ processRows \in [DOMAIN processRows -> SUBSET Identity]
    /\ DOMAIN reports \subseteq AgentIds
    /\ reports \in [DOMAIN reports -> SUBSET Sessions]
    /\ cmds \in [Users -> Command]
    /\ kills \in [Users -> Request]
    /\ commands \in 0 .. MaxCommands

(* What the user typed still says which session was meant: it begins no    *)
(* other id, or that session was still listed when the daemon planned      *)
(* again, and the text is its id or no id at all.                          *)
StillNamed(u) ==
    \/ Matches[cmds[u].arg] = {cmds[u].about}
    \/ kills[u].still /\ (cmds[u].arg = cmds[u].about \/ cmds[u].arg \notin Sessions)

(* `biewer stop <session-id>` prints a cleanup plan and terminates "a      *)
(* session's processes" (cli.go:80): as long as the text says which        *)
(* session was meant, every pid that is signalled is in the tree listed    *)
(* under that session's id when the daemon planned again, whatever starts  *)
(* and exits, and whatever rows come, leave or change their ids, between   *)
(* the plan, the answer and the signals.  A full id whose row has left is  *)
(* a prefix to the code, and may hit the session with the longer id.       *)
OnlyOneSessionIsHit ==
    \A u \in Users : kills[u].pc # "idle" /\ StillNamed(u) =>
        /\ kills[u].of \subseteq {cmds[u].about}
        /\ kills[u].hit \subseteq PidsOf(kills[u].plan)

Survives(x) == procs[x.pid].born = x.born /\ procs[x.pid].mine

(* Every request the daemon acts on is carried out: when its second round  *)
(* is over, nothing of its plan is left that the daemon's user may signal, *)
(* whether or not it ignores SIGTERM, and also when nobody waits for the   *)
(* answer.  Other users' processes outlive both signals (api.go:317).      *)
PlannedProcessesDie ==
    \A u \in Users :
        kills[u].pc = "term" ~>
            /\ kills[u].pc = "kill" /\ kills[u].todo = {}
            /\ \A x \in kills[u].plan : ~ Survives(x)
=============================================================================
