-------------------------- MODULE DaemonLifecycle --------------------------
(***************************************************************************)
(* `biewer enable`, `biewer disable` and the `daemon-run` process they     *)
(* start and stop, which agree on the running daemon through two files of  *)
(* the Biewer home: daemon.pid and daemon.sock.  Each read, write, signal  *)
(* and removal is a step of its own, as nothing locks the files.           *)
(*                                                                         *)
(* A file is modelled by what it says: daemon.pid by the pid it holds (0   *)
(* when it is missing or just truncated, which readPidFile takes alike),   *)
(* daemon.sock by the pid of the process that bound it (0 when missing).   *)
(***************************************************************************)
EXTENDS Naturals, FiniteSets

CONSTANTS Pids,          \* process ids
          Shells,        \* terminals in which commands are run
          MaxCommands,   \* bound: commands run in all
          MaxMishaps     \* bound: crashed daemons, interrupted commands and
                         \* pids that go to other programs

ASSUME LifecycleAssumption ==
    /\ Pids \subseteq Nat \ {0}
    /\ {MaxCommands, MaxMishaps} \subseteq Nat

VARIABLES
    procs,     \* what runs under each pid
    termed,    \* daemons that were sent SIGTERM and have not acted on it
    pidFile,   \* daemon.pid
    socket,    \* daemon.sock
    shells,    \* the command each terminal runs: where it is, and its pid
    commands,  \* commands run so far
    mishaps,   \* what went wrong so far, of the kinds MaxMishaps names
    orderly    \* every command so far ran alone and to its end

files == <<pidFile, socket>>
history == <<commands, mishaps, orderly>>
vars == <<procs, termed, files, shells, history>>

-----------------------------------------------------------------------------
(* A daemon process: "starting" until signal.NotifyContext, "binding" with  *)
(* a handler for SIGTERM and the stale socket not yet removed, "cleared"    *)
(* with it removed, "serving", "draining" after the listener was closed.    *)
DaemonStates == {"starting", "binding", "cleared", "serving", "draining"}
ProcStates == DaemonStates \cup {"free", "stranger"}

EnableSteps == {"check", "start", "truncate", "write", "poll"}
DisableSteps == {"read", "forget", "kill", "wait", "unpid", "unsock"}
Shell == [at : {"prompt"} \cup EnableSteps \cup DisableSteps,
          pid : Pids \cup {0}]
AtPrompt == [at |-> "prompt", pid |-> 0]

(* isProcessAlive: signal 0 finds any process, whoever owns it. *)
Alive(pid) == pid # 0 /\ procs[pid] # "free"

Daemons(states) == {p \in Pids : procs[p] \in states}

(* Healthz is answered by whatever daemon bound the file at the path. *)
Healthy == socket # 0 /\ procs[socket] = "serving"

Prompting == \A sh \in Shells : shells[sh].at = "prompt"

Goto(sh, step, pid) == shells' = [shells EXCEPT ![sh] = [at |-> step, pid |-> pid]]

Finish(sh) == shells' = [shells EXCEPT ![sh] = AtPrompt]

Mishap == mishaps < MaxMishaps /\ mishaps' = mishaps + 1

Init ==
    /\ procs = [p \in Pids |-> "free"]
    /\ termed = {}
    /\ pidFile = 0
    /\ socket = 0
    /\ shells = [sh \in Shells |-> AtPrompt]
    /\ commands = 0 /\ mishaps = 0
    /\ orderly = TRUE

-----------------------------------------------------------------------------
(* The user *)

Run(sh, first) ==
    /\ shells[sh].at = "prompt"
    /\ commands < MaxCommands
    /\ commands' = commands + 1
    /\ orderly' = (orderly /\ Prompting)
    /\ Goto(sh, first, 0)
    /\ UNCHANGED <<procs, termed, files, mishaps>>

RunEnable(sh) == Run(sh, "check")
RunDisable(sh) == Run(sh, "read")

(* Ctrl-C, or an error that ends the command at the step it has reached    *)
(* (daemon.pid cannot be written).                                         *)
Interrupt(sh) ==
    /\ shells[sh].at # "prompt"
    /\ Mishap
    /\ orderly' = FALSE
    /\ Finish(sh)
    /\ UNCHANGED <<procs, termed, files, commands>>

-----------------------------------------------------------------------------
(* cmdEnable *)

(* Fault: a daemon that does not answer yet counts as none. *)
CheckHealthOnly(sh) ==
    /\ shells[sh].at = "check"
    /\ IF Healthy THEN Finish(sh)
       ELSE Goto(sh, "start", 0)
    /\ UNCHANGED <<procs, termed, files, history>>

CheckPidFile(sh) ==
    /\ shells[sh].at = "check"
    /\ IF Alive(pidFile) THEN Finish(sh)
       ELSE Goto(sh, "start", 0)
    /\ UNCHANGED <<procs, termed, files, history>>

(* The log file or the process may not be had; nothing was changed then. *)
StartDaemon(sh) ==
    /\ shells[sh].at = "start"
    /\ \/ Finish(sh) /\ UNCHANGED procs
       \/ \E p \in Daemons({"free"}) :
             /\ procs' = [procs EXCEPT ![p] = "starting"]
             /\ Goto(sh, "truncate", p)
    /\ UNCHANGED <<termed, files, history>>

(* os.WriteFile truncates the file before it writes. *)
TruncatePidFile(sh) ==
    /\ shells[sh].at = "truncate"
    /\ pidFile' = 0
    /\ Goto(sh, "write", shells[sh].pid)
    /\ UNCHANGED <<procs, termed, socket, history>>

WritePidFile(sh) ==
    /\ shells[sh].at = "write"
    /\ pidFile' = shells[sh].pid
    /\ Goto(sh, "poll", shells[sh].pid)
    /\ UNCHANGED <<procs, termed, socket, history>>

(* Healthz is tried 15 times within three seconds; a daemon that takes     *)
(* longer, or exited, is reported and left alone, so the command ends here *)
(* whatever the answer.                                                    *)
PollHealth(sh) ==
    /\ shells[sh].at = "poll"
    /\ Finish(sh)
    /\ UNCHANGED <<procs, termed, files, history>>

-----------------------------------------------------------------------------
(* cmdDisable *)

ReadPidFile(sh) ==
    /\ shells[sh].at = "read"
    /\ IF Alive(pidFile) THEN Goto(sh, "kill", pidFile)
       ELSE Goto(sh, "forget", 0)
    /\ UNCHANGED <<procs, termed, files, history>>

ForgetStalePid(sh) ==
    /\ shells[sh].at = "forget"
    /\ pidFile' = 0
    /\ Finish(sh)
    /\ UNCHANGED <<procs, termed, socket, history>>

(* SIGTERM ends a daemon that has not installed its handler yet, and any   *)
(* other program; the handler only cancels the daemon's context, once.     *)
SendTerm(p) ==
    IF procs[p] \in {"starting", "stranger"}
    THEN procs' = [procs EXCEPT ![p] = "free"] /\ UNCHANGED termed
    ELSE /\ termed' = IF procs[p] = "draining" THEN termed ELSE termed \cup {p}
         /\ UNCHANGED procs

(* The kill fails, and the command with it, when the process is gone by    *)
(* now, or is another program's that another user runs.                    *)
KillDaemon(sh) ==
    /\ shells[sh].at = "kill"
    /\ LET p == shells[sh].pid
       IN  \/ /\ procs[p] \in {"free", "stranger"}
              /\ Finish(sh)
              /\ UNCHANGED <<procs, termed>>
           \/ /\ procs[p] # "free"
              /\ Goto(sh, "wait", p)
              /\ SendTerm(p)
    /\ UNCHANGED <<files, history>>

(* Fault: no limit on the wait. *)
WaitForExitForever(sh) ==
    /\ shells[sh].at = "wait"
    /\ ~ Alive(shells[sh].pid)
    /\ Goto(sh, "unpid", 0)
    /\ UNCHANGED <<procs, termed, files, history>>

(* Fault: no wait at all. *)
WaitForNothing(sh) ==
    /\ shells[sh].at = "wait"
    /\ Goto(sh, "unpid", 0)
    /\ UNCHANGED <<procs, termed, files, history>>

(* 25 looks 200 ms apart.  A daemon acts on SIGTERM at once, so the wait   *)
(* runs out only on one that drains its connections (for up to 5 s too).   *)
WaitForExit(sh) ==
    /\ shells[sh].at = "wait"
    /\ shells[sh].pid \notin termed
    /\ Goto(sh, "unpid", 0)
    /\ UNCHANGED <<procs, termed, files, history>>

RemovePidFile(sh) ==
    /\ shells[sh].at = "unpid"
    /\ pidFile' = 0
    /\ Goto(sh, "unsock", 0)
    /\ UNCHANGED <<procs, termed, socket, history>>

RemoveSocket(sh) ==
    /\ shells[sh].at = "unsock"
    /\ socket' = 0
    /\ Finish(sh)
    /\ UNCHANGED <<procs, termed, pidFile, history>>

-----------------------------------------------------------------------------
(* cmdDaemonRun: New, then Serve *)

Become(p, state) == procs' = [procs EXCEPT ![p] = state]

(* New may fail; otherwise the handler for SIGTERM is installed next. *)
Initialise(p) ==
    /\ procs[p] = "starting"
    /\ Become(p, "binding") \/ Become(p, "free")
    /\ UNCHANGED <<termed, files, shells, history>>

RemoveStaleSocket(p) ==
    /\ procs[p] = "binding"
    /\ socket' = 0
    /\ Become(p, "cleared")
    /\ UNCHANGED <<termed, pidFile, shells, history>>

(* Fault: a signal that arrived before the socket was bound is forgotten. *)
ListenForgetfully(p) ==
    /\ procs[p] = "cleared"
    /\ IF socket = 0 THEN socket' = p /\ Become(p, "serving")
       ELSE Become(p, "free") /\ UNCHANGED socket
    /\ termed' = termed \ {p}
    /\ UNCHANGED <<pidFile, shells, history>>

(* bind fails when there is a file at the path again; the daemon exits. *)
Listen(p) ==
    /\ procs[p] = "cleared"
    /\ \/ socket = 0 /\ socket' = p /\ Become(p, "serving") /\ UNCHANGED termed
       \/ /\ socket # 0 /\ UNCHANGED socket
          /\ Become(p, "free") /\ termed' = termed \ {p}
    /\ UNCHANGED <<pidFile, shells, history>>

(* Shutdown closes the listener first, and closing a Unix listener unlinks *)
(* its path, whatever file is there by now.                                *)
CloseListener(p) ==
    /\ procs[p] = "serving" /\ p \in termed
    /\ socket' = 0
    /\ termed' = termed \ {p}
    /\ Become(p, "draining")
    /\ UNCHANGED <<pidFile, shells, history>>

(* Fault: the process is never reaped. *)
LeaveZombie(p) ==
    /\ procs[p] = "draining"
    /\ Become(p, "zombie")
    /\ UNCHANGED <<termed, files, shells, history>>

(* ... and then waits, up to five seconds, for the requests being served. *)
Leave(p) ==
    /\ procs[p] = "draining"
    /\ Become(p, "free")
    /\ UNCHANGED <<termed, files, shells, history>>

-----------------------------------------------------------------------------
(* The rest of the machine *)

(* Killed, or the machine restarted: both files stay. *)
Crash(p) ==
    /\ procs[p] \in DaemonStates
    /\ Mishap
    /\ Become(p, "free")
    /\ termed' = termed \ {p}
    /\ UNCHANGED <<files, shells, commands, orderly>>

(* Another program gets a pid. *)
StrangerStarts(p) ==
    /\ procs[p] = "free"
    /\ Mishap
    /\ Become(p, "stranger")
    /\ UNCHANGED <<termed, files, shells, commands, orderly>>

-----------------------------------------------------------------------------
Enable(sh) ==
    \/ CheckPidFile(sh) \/ StartDaemon(sh) \/ TruncatePidFile(sh)
    \/ WritePidFile(sh) \/ PollHealth(sh)

Disable(sh) ==
    \/ ReadPidFile(sh) \/ ForgetStalePid(sh) \/ KillDaemon(sh)
    \/ WaitForExit(sh) \/ RemovePidFile(sh) \/ RemoveSocket(sh)

DaemonRun(p) ==
    \/ Initialise(p) \/ RemoveStaleSocket(p) \/ Listen(p)
    \/ CloseListener(p) \/ Leave(p)

Next ==
    \/ \E sh \in Shells : \/ RunEnable(sh) \/ RunDisable(sh) \/ Interrupt(sh)
                          \/ Enable(sh) \/ Disable(sh)
    \/ \E p \in Pids : DaemonRun(p) \/ Crash(p) \/ StrangerStarts(p)

Spec == Init /\ [][Next]_vars

(* Processes that can run do run. *)
Fairness ==
    /\ \A sh \in Shells : WF_vars(Enable(sh) \/ Disable(sh))
    /\ \A p \in Pids : WF_vars(DaemonRun(p))

FairSpec == Spec /\ Fairness

-----------------------------------------------------------------------------
(* What must be true of it *)

(* Every variable holds a value of its kind. *)
TypeOK ==
    /\ procs \in [Pids -> ProcStates]
    /\ termed \subseteq Pids
    /\ pidFile \in Pids \cup {0}
    /\ socket \in Pids \cup {0}
    /\ shells \in [Shells -> Shell]
    /\ commands \in 0 .. MaxCommands
    /\ mishaps \in 0 .. MaxMishaps
    /\ orderly \in BOOLEAN

(* What removeStaleSocket says it can rely on (api.go:106-110): the pidfile *)
(* is a lock, so two daemons never run at once and clearing the socket      *)
(* never takes it from a live one.  Two overlapping enables break it.       *)
NeverTwoDaemons ==
    Cardinality(Daemons({"starting", "binding", "cleared", "serving"})) <= 1

(* What does hold: as long as commands are run to their end and one at a   *)
(* time, no crash, slow start or reused pid leads to two daemons.          *)
OneDaemon == orderly => NeverTwoDaemons

(* Between commands, a serving daemon is the one the files name, so that   *)
(* the next command reaches it and can stop it: as long as commands are    *)
(* run to their end and one at a time, slow starts, failing starts,        *)
(* crashes, reused pids and draining daemons never strand one.             *)
ServingDaemonIsReachable ==
    orderly /\ Prompting =>
        \A p \in Daemons({"serving"}) : pidFile = p /\ socket = p

(* A daemon that was signalled exits, at whatever point of its start the   *)
(* signal reached it.                                                      *)
SignalledDaemonsExit ==
    \A p \in Pids : p \in termed ~> procs[p] = "free"

(* Every command returns to the prompt, whatever the others do meanwhile.  *)
CommandsReturn ==
    \A sh \in Shells : shells[sh].at # "prompt" ~> shells[sh].at = "prompt"
=============================================================================
