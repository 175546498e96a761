----------------------- MODULE DaemonLifecycle_proofs -----------------------
(***************************************************************************)
(* Theorems about DaemonLifecycle, for every number of terminals and pids  *)
(* and every value of the bounds.                                          *)
(***************************************************************************)
EXTENDS DaemonLifecycle, FiniteSetTheorems, TLAPS

-----------------------------------------------------------------------------
(* Type correctness *)

(* A command's next step, and its end, leave every terminal of its type. *)
LEMMA GotoType ==
    ASSUME TypeOK, NEW sh \in Shells,
           NEW step \in EnableSteps \cup DisableSteps,
           NEW pid \in Pids \cup {0},
           Goto(sh, step, pid)
    PROVE  shells' \in [Shells -> Shell]
<1>1. [at |-> step, pid |-> pid] \in Shell
  BY DEF Shell
<1> QED
  BY <1>1 DEF Goto, TypeOK

(* ... and so does its end. *)
LEMMA FinishType ==
    ASSUME TypeOK, NEW sh \in Shells, Finish(sh)
    PROVE  shells' \in [Shells -> Shell]
<1>1. AtPrompt \in Shell
  BY DEF AtPrompt, Shell
<1> QED
  BY <1>1 DEF Finish, TypeOK

(* The pid a command holds. *)
LEMMA ShellPid ==
    ASSUME TypeOK, NEW sh \in Shells
    PROVE  /\ shells[sh].pid \in Pids \cup {0}
           /\ shells[sh].at \in {"prompt"} \cup EnableSteps \cup DisableSteps
<1>1. shells[sh] \in Shell
  BY DEF TypeOK
<1> QED
  BY <1>1 DEF Shell

(* Initially every variable has its type. *)
LEMMA InitTypeOK == Init => TypeOK
<1> SUFFICES ASSUME Init PROVE TypeOK
  OBVIOUS
<1>1. AtPrompt \in Shell
  BY DEF AtPrompt, Shell
<1>2. commands \in 0 .. MaxCommands /\ mishaps \in 0 .. MaxMishaps
  BY LifecycleAssumption DEF Init
<1> QED
  BY <1>1, <1>2 DEF Init, TypeOK, ProcStates

(* A mishap is counted within its bound. *)
LEMMA MishapType ==
    ASSUME TypeOK, Mishap
    PROVE  mishaps' \in 0 .. MaxMishaps
  BY LifecycleAssumption DEF TypeOK, Mishap

(* What the type of termed rests on: a kill has a pid to go to. *)
KillsAProcess ==
    \A sh \in Shells : shells[sh].at = "kill" => shells[sh].pid \in Pids

(* A step of a command keeps every variable in its type. *)
LEMMA ShellTypeOK ==
    ASSUME TypeOK, KillsAProcess, NEW sh \in Shells,
           \/ RunEnable(sh) \/ RunDisable(sh) \/ Interrupt(sh)
           \/ Enable(sh) \/ Disable(sh)
    PROVE  TypeOK'
<1> USE DEF TypeOK, files, history, EnableSteps, DisableSteps
<1>1. ASSUME NEW first \in {"check", "read"}, Run(sh, first) PROVE TypeOK'
  <2>1. commands' \in 0 .. MaxCommands
    BY <1>1, LifecycleAssumption DEF Run
  <2>2. shells' \in [Shells -> Shell]
    BY <1>1, GotoType DEF Run
  <2> QED
    BY <1>1, <2>1, <2>2 DEF Run
<1>2. CASE Interrupt(sh)
  BY <1>2, FinishType, MishapType DEF Interrupt
<1>3. CASE CheckPidFile(sh)
  BY <1>3, FinishType, GotoType DEF CheckPidFile
<1>4. CASE StartDaemon(sh)
  <2>1. CASE Finish(sh) /\ UNCHANGED procs
    BY <1>4, <2>1, FinishType DEF StartDaemon
  <2>2. ASSUME NEW p \in Daemons({"free"}),
               procs' = [procs EXCEPT ![p] = "starting"],
               Goto(sh, "truncate", p)
        PROVE  TypeOK'
    <3>1. p \in Pids
      BY DEF Daemons
    <3>2. shells' \in [Shells -> Shell]
      BY <2>2, <3>1, GotoType
    <3>3. procs' \in [Pids -> ProcStates]
      BY <2>2 DEF ProcStates, DaemonStates
    <3> QED
      BY <1>4, <3>2, <3>3 DEF StartDaemon
  <2> QED
    BY <1>4, <2>1, <2>2 DEF StartDaemon
<1>5. CASE TruncatePidFile(sh)
  BY <1>5, ShellPid, GotoType DEF TruncatePidFile
<1>6. CASE WritePidFile(sh)
  BY <1>6, ShellPid, GotoType DEF WritePidFile
<1>7. CASE PollHealth(sh)
  BY <1>7, FinishType DEF PollHealth
<1>8. CASE ReadPidFile(sh)
  BY <1>8, GotoType DEF ReadPidFile
<1>9. CASE ForgetStalePid(sh)
  BY <1>9, FinishType DEF ForgetStalePid
<1>10. CASE KillDaemon(sh)
  <2> DEFINE p == shells[sh].pid
  <2>1. UNCHANGED files /\ UNCHANGED history
    BY <1>10 DEF KillDaemon
  <2>2. CASE Finish(sh) /\ UNCHANGED <<procs, termed>>
    BY <2>1, <2>2, FinishType
  <2>3. CASE Goto(sh, "wait", p) /\ SendTerm(p)
    <3>1. p \in Pids
      BY <1>10 DEF KillDaemon, KillsAProcess
    <3>2. procs' \in [Pids -> ProcStates] /\ termed' \subseteq Pids
      BY <2>3, <3>1 DEF SendTerm, ProcStates
    <3>3. shells' \in [Shells -> Shell]
      BY <2>3, ShellPid, GotoType
    <3> QED
      BY <2>1, <3>2, <3>3
  <2> QED
    BY <1>10, <2>2, <2>3 DEF KillDaemon
<1>11. CASE WaitForExit(sh)
  BY <1>11, GotoType DEF WaitForExit
<1>12. CASE RemovePidFile(sh)
  BY <1>12, GotoType DEF RemovePidFile
<1>13. CASE RemoveSocket(sh)
  BY <1>13, FinishType DEF RemoveSocket
<1> QED
  BY <1>1, <1>2, <1>3, <1>4, <1>5, <1>6, <1>7, <1>8, <1>9, <1>10, <1>11,
     <1>12, <1>13
     DEF RunEnable, RunDisable, Enable, Disable

(* A step of a daemon, or of the rest of the machine, does. *)
LEMMA ProcessTypeOK ==
    ASSUME TypeOK, NEW p \in Pids,
           DaemonRun(p) \/ Crash(p) \/ StrangerStarts(p)
    PROVE  TypeOK' /\ shells' = shells
<1> USE DEF TypeOK, files
<1>1. \A state \in ProcStates : Become(p, state) => procs' \in [Pids -> ProcStates]
  BY DEF Become
<1>2. {"free", "stranger", "binding", "cleared", "serving", "draining"}
         \subseteq ProcStates
  BY DEF ProcStates, DaemonStates
<1>3. CASE DaemonRun(p)
  <2>1. procs' \in [Pids -> ProcStates]
    BY <1>1, <1>2, <1>3 DEF DaemonRun, Initialise, RemoveStaleSocket, Listen,
                            CloseListener, Leave
  <2>2. /\ termed' \subseteq Pids
        /\ socket' \in Pids \cup {0}
        /\ UNCHANGED <<pidFile, shells, history>>
    BY <1>3 DEF DaemonRun, Initialise, RemoveStaleSocket, Listen,
                CloseListener, Leave
  <2> QED
    BY <2>1, <2>2 DEF history
<1>4. CASE Crash(p)
  BY <1>1, <1>2, <1>4, MishapType DEF Crash
<1>5. CASE StrangerStarts(p)
  BY <1>1, <1>2, <1>5, MishapType DEF StrangerStarts
<1> QED
  BY <1>3, <1>4, <1>5

(* Only readPidFile's answer is ever killed. *)
LEMMA KillsStep ==
    ASSUME TypeOK, KillsAProcess, NEW sh \in Shells,
           \/ RunEnable(sh) \/ RunDisable(sh) \/ Interrupt(sh)
           \/ Enable(sh) \/ Disable(sh)
    PROVE  KillsAProcess'
<1> USE DEF KillsAProcess, TypeOK
<1>1. ASSUME NEW step, NEW pid, step # "kill", Goto(sh, step, pid)
      PROVE  KillsAProcess'
  BY <1>1 DEF Goto
<1>2. Finish(sh) => KillsAProcess'
  BY DEF Finish, AtPrompt
<1>3. ReadPidFile(sh) => KillsAProcess'
  <2>1. Alive(pidFile) => pidFile \in Pids
    BY DEF Alive
  <2>2. Goto(sh, "kill", pidFile) /\ Alive(pidFile) => KillsAProcess'
    BY <2>1 DEF Goto
  <2> QED
    BY <1>1, <2>2 DEF ReadPidFile
<1> QED
  BY <1>1, <1>2, <1>3
     DEF RunEnable, RunDisable, Run, Interrupt, Enable, Disable, CheckPidFile,
         StartDaemon, TruncatePidFile, WritePidFile, PollHealth,
         ForgetStalePid, KillDaemon, WaitForExit, RemovePidFile, RemoveSocket

(* Every step keeps both. *)
LEMMA NextTypeOK ==
    TypeOK /\ KillsAProcess /\ [Next]_vars => TypeOK' /\ KillsAProcess'
<1> SUFFICES ASSUME TypeOK, KillsAProcess, [Next]_vars
             PROVE  TypeOK' /\ KillsAProcess'
  OBVIOUS
<1>1. CASE UNCHANGED vars
  BY <1>1 DEF vars, files, history, TypeOK, KillsAProcess
<1>2. CASE Next
  BY <1>2, ShellTypeOK, KillsStep, ProcessTypeOK DEF Next, KillsAProcess
<1> QED
  BY <1>1, <1>2

(* Type correctness: whatever commands, daemons and other programs do to   *)
(* each other, every variable keeps a value of its kind.                   *)
THEOREM TypeCorrect == Spec => []TypeOK
<1>1. Init => TypeOK /\ KillsAProcess
  BY InitTypeOK DEF Init, KillsAProcess, AtPrompt
<1>2. TypeOK /\ KillsAProcess /\ [Next]_vars => TypeOK' /\ KillsAProcess'
  BY NextTypeOK
<1> QED
  BY <1>1, <1>2, PTL DEF Spec

-----------------------------------------------------------------------------
(* One daemon, and reachable *)

(* A daemon that has not closed its listener yet. *)
Live(p) == p \in Daemons({"starting", "binding", "cleared", "serving"})

NoneLive == \A p \in Pids : ~ Live(p)

(* Commands ran one at a time, so at most one is under way. *)
OneCommand ==
    \A s, t \in Shells :
        shells[s].at # "prompt" /\ shells[t].at # "prompt" => s = t

OneLive == \A p, q \in Pids : Live(p) /\ Live(q) => p = q

(* daemon.pid names the live daemon, but for the one an enable has started *)
(* and not yet written down.                                               *)
LiveIsNamed ==
    \A p \in Pids : Live(p) =>
        \/ pidFile = p
        \/ \E sh \in Shells : /\ shells[sh].at \in {"truncate", "write"}
                              /\ shells[sh].pid = p

(* The socket is the one the serving daemon bound. *)
ServingIsBound == \A p \in Pids : procs[p] = "serving" => socket = p

(* What a command has made sure of by the step it has reached.  Before it  *)
(* waits, the daemon it stops is all there is; in the wait that daemon was *)
(* signalled, which is why the end of the wait means it is gone.           *)
StepsAreEarned ==
    \A sh \in Shells :
        /\ shells[sh].at \in {"start", "forget", "unpid", "unsock"} => NoneLive
        /\ shells[sh].at \in {"truncate", "write", "kill", "wait"} =>
               \A p \in Pids : Live(p) => p = shells[sh].pid
        /\ shells[sh].at = "wait" => \A p \in Pids : Live(p) => p \in termed

OrderlyInv ==
    orderly => /\ OneCommand
               /\ OneLive
               /\ LiveIsNamed
               /\ ServingIsBound
               /\ StepsAreEarned

(* Live depends on the process table alone. *)
LEMMA LiveStates ==
    ASSUME NEW p \in Pids
    PROVE  /\ Live(p) <=>
                 procs[p] \in {"starting", "binding", "cleared", "serving"}
           /\ Live(p)' <=>
                 procs'[p] \in {"starting", "binding", "cleared", "serving"}
  BY DEF Live, Daemons

(* What a daemon does by itself makes none live that was not, and forgets  *)
(* no signal of one that stays live.                                       *)
LEMMA DaemonStep ==
    ASSUME TypeOK, OrderlyInv, NEW p \in Pids,
           DaemonRun(p) \/ Crash(p) \/ StrangerStarts(p)
    PROVE  OrderlyInv'
<1> USE LiveStates DEF TypeOK, Become, files, history
<1>1. UNCHANGED <<shells, pidFile, orderly>>
  BY DEF DaemonRun, Initialise, RemoveStaleSocket, Listen, CloseListener, Leave,
         Crash, StrangerStarts
<1>2. \A q \in Pids : q # p => procs'[q] = procs[q]
  BY DEF DaemonRun, Initialise, RemoveStaleSocket, Listen, CloseListener, Leave,
         Crash, StrangerStarts
<1>3. Live(p)' => Live(p) /\ (p \in termed => p \in termed')
  BY DEF DaemonRun, Initialise, RemoveStaleSocket, Listen, CloseListener, Leave,
         Crash, StrangerStarts, DaemonStates
<1>4. \A q \in Pids : q # p /\ q \in termed => q \in termed'
  BY DEF DaemonRun, Initialise, RemoveStaleSocket, Listen, CloseListener, Leave,
         Crash, StrangerStarts
<1>5. \A q \in Pids : /\ Live(q)' => Live(q)
                      /\ Live(q)' /\ q \in termed => q \in termed'
  BY <1>2, <1>3, <1>4
<1> SUFFICES ASSUME orderly
             PROVE  /\ OneCommand' /\ OneLive' /\ LiveIsNamed'
                    /\ ServingIsBound' /\ StepsAreEarned'
  BY <1>1 DEF OrderlyInv
<1>6. OneCommand /\ OneLive /\ LiveIsNamed /\ ServingIsBound /\ StepsAreEarned
  BY DEF OrderlyInv
<1>7. OneCommand'
  BY <1>1, <1>6 DEF OneCommand
<1>8. OneLive'
  BY <1>5, <1>6 DEF OneLive
<1>9. LiveIsNamed'
  BY <1>1, <1>5, <1>6 DEF LiveIsNamed
<1>10. StepsAreEarned'
  BY <1>1, <1>5, <1>6 DEF StepsAreEarned, NoneLive
<1>11. ServingIsBound'
  <2> SUFFICES ASSUME NEW q \in Pids, procs'[q] = "serving"
               PROVE  socket' = q
    BY DEF ServingIsBound
  <2>1. CASE q = p
    <3>1. Listen(p) \/ (procs[p] = "serving" /\ socket' = socket)
      BY <2>1 DEF DaemonRun, Initialise, RemoveStaleSocket, Listen,
                  CloseListener, Leave, Crash, StrangerStarts
    <3>2. Listen(p) => socket' = p
      BY <2>1 DEF Listen
    <3> QED
      BY <2>1, <3>1, <3>2, <1>6 DEF ServingIsBound
  <2>2. CASE q # p
    <3>1. procs[q] = "serving" /\ socket = q
      BY <1>2, <1>6, <2>2 DEF ServingIsBound
    <3>2. ~ Live(p)
      BY <1>6, <2>2, <3>1 DEF OneLive
    <3>3. socket' = socket
      BY <3>2 DEF DaemonRun, Initialise, RemoveStaleSocket, Listen,
                  CloseListener, Leave, Crash, StrangerStarts
    <3> QED
      BY <3>1, <3>3
  <2> QED
    BY <2>1, <2>2
<1> QED
  BY <1>7, <1>8, <1>9, <1>10, <1>11

(* The step of an orderly command finds all other terminals at the prompt, *)
(* and leaves them there.                                                  *)
LEMMA OthersPrompt ==
    ASSUME TypeOK, OneCommand, NEW sh \in Shells,
           shells[sh].at # "prompt",
           NEW entry,
           shells' = [shells EXCEPT ![sh] = entry]
    PROVE  /\ OneCommand'
           /\ shells'[sh] = entry
           /\ \A t \in Shells : t # sh => /\ shells[t].at = "prompt"
                                         /\ shells'[t].at = "prompt"
  BY DEF TypeOK, OneCommand

(* A command begins with all terminals at the prompt, or is not orderly. *)
LEMMA RunStep ==
    ASSUME TypeOK, OrderlyInv, NEW sh \in Shells,
           NEW first \in {"check", "read"}, Run(sh, first)
    PROVE  OrderlyInv'
<1> USE LiveStates DEF TypeOK, files
<1> SUFFICES ASSUME orderly'
             PROVE  /\ OneCommand' /\ OneLive' /\ LiveIsNamed'
                    /\ ServingIsBound' /\ StepsAreEarned'
  BY DEF OrderlyInv
<1>1. orderly /\ Prompting /\ UNCHANGED <<procs, termed, pidFile, socket>>
  BY DEF Run
<1>2. OneCommand /\ OneLive /\ LiveIsNamed /\ ServingIsBound /\ StepsAreEarned
  BY <1>1 DEF OrderlyInv
<1>3. /\ shells'[sh].at = first
      /\ \A t \in Shells : t # sh => shells'[t].at = "prompt"
  BY <1>1 DEF Run, Goto, Prompting
<1>4. OneCommand'
  BY <1>3 DEF OneCommand
<1>5. OneLive' /\ ServingIsBound'
  BY <1>1, <1>2 DEF OneLive, ServingIsBound
<1>6. LiveIsNamed'
  BY <1>1, <1>2, <1>3 DEF LiveIsNamed, Prompting
<1>7. StepsAreEarned'
  BY <1>3 DEF StepsAreEarned
<1> QED
  BY <1>4, <1>5, <1>6, <1>7

(* A step that changes no process, no signal and no file keeps what is     *)
(* known, when the step it goes to asks no more of the live daemons than   *)
(* is known.                                                               *)
LEMMA QuietStep ==
    ASSUME TypeOK, OneCommand, OneLive, LiveIsNamed, ServingIsBound,
           NEW sh \in Shells, NEW entry,
           shells[sh].at \notin {"prompt", "truncate", "write"},
           shells' = [shells EXCEPT ![sh] = entry],
           UNCHANGED <<procs, termed, files>>,
           entry.at \in {"start", "forget", "unpid", "unsock"} => NoneLive,
           entry.at \in {"truncate", "write", "kill", "wait"} =>
               \A p \in Pids : Live(p) => p = entry.pid,
           entry.at = "wait" => \A p \in Pids : Live(p) => p \in termed
    PROVE  /\ OneCommand' /\ OneLive' /\ LiveIsNamed'
           /\ ServingIsBound' /\ StepsAreEarned'
<1> USE LiveStates DEF files
<1>1. /\ OneCommand'
      /\ shells'[sh] = entry
      /\ \A t \in Shells : t # sh => /\ shells[t].at = "prompt"
                                    /\ shells'[t].at = "prompt"
  BY OthersPrompt
<1>2. \A p \in Pids : Live(p)' <=> Live(p)
  OBVIOUS
<1>3. OneLive' /\ ServingIsBound'
  BY DEF OneLive, ServingIsBound
<1>4. LiveIsNamed'
  BY <1>1, <1>2 DEF LiveIsNamed
<1>5. StepsAreEarned'
  BY <1>1, <1>2 DEF StepsAreEarned, NoneLive
<1> QED
  BY <1>1, <1>3, <1>4, <1>5

(* enable: nothing is started unless no daemon is live, and the one that   *)
(* is started is the one that gets written down.                           *)
LEMMA EnableStep ==
    ASSUME TypeOK, OrderlyInv, NEW sh \in Shells, Enable(sh)
    PROVE  OrderlyInv'
<1> USE LiveStates DEF TypeOK, files, history, AtPrompt
<1>1. UNCHANGED <<termed, socket, orderly>>
  BY DEF Enable, CheckPidFile, StartDaemon, TruncatePidFile, WritePidFile,
         PollHealth
<1> SUFFICES ASSUME orderly
             PROVE  /\ OneCommand' /\ OneLive' /\ LiveIsNamed'
                    /\ ServingIsBound' /\ StepsAreEarned'
  BY <1>1 DEF OrderlyInv
<1>2. OneCommand /\ OneLive /\ LiveIsNamed /\ ServingIsBound /\ StepsAreEarned
  BY DEF OrderlyInv
<1>3. CASE CheckPidFile(sh)
  <2>1. ~ Alive(pidFile) => NoneLive
    <3> SUFFICES ASSUME NEW p \in Pids, Live(p), pidFile # p PROVE FALSE
      BY LifecycleAssumption DEF Alive, NoneLive
    <3>1. PICK t \in Shells : shells[t].at \in {"truncate", "write"}
      BY <1>2 DEF LiveIsNamed
    <3> QED
      BY <1>2, <1>3, <3>1 DEF OneCommand, CheckPidFile
  <2>2. CASE Finish(sh)
    BY <1>2, <1>3, <2>2, QuietStep DEF CheckPidFile, Finish
  <2>3. CASE ~ Alive(pidFile) /\ Goto(sh, "start", 0)
    BY <1>2, <1>3, <2>1, <2>3, QuietStep DEF CheckPidFile, Goto
  <2> QED
    BY <1>3, <2>2, <2>3 DEF CheckPidFile
<1>4. CASE StartDaemon(sh)
  <2>1. NoneLive /\ shells[sh].at = "start"
    BY <1>2, <1>4 DEF StartDaemon, StepsAreEarned
  <2>2. CASE Finish(sh) /\ UNCHANGED procs
    BY <1>2, <1>4, <2>1, <2>2, QuietStep DEF StartDaemon, Finish
  <2>3. ASSUME NEW p \in Daemons({"free"}),
               procs' = [procs EXCEPT ![p] = "starting"],
               Goto(sh, "truncate", p)
        PROVE  /\ OneCommand' /\ OneLive' /\ LiveIsNamed'
               /\ ServingIsBound' /\ StepsAreEarned'
    <3> USE DEF Goto
    <3>1. /\ OneCommand'
          /\ shells'[sh] = [at |-> "truncate", pid |-> p]
          /\ \A t \in Shells : t # sh => shells'[t].at = "prompt"
      BY <1>2, <2>1, <2>3, OthersPrompt
    <3>2. p \in Pids /\ \A q \in Pids : Live(q)' => q = p
      BY <2>1, <2>3 DEF NoneLive, Daemons
    <3>3. \A q \in Pids : procs'[q] # "serving"
      BY <2>1, <2>3 DEF NoneLive
    <3>4. OneLive' /\ ServingIsBound'
      BY <3>2, <3>3 DEF OneLive, ServingIsBound
    <3>5. LiveIsNamed'
      BY <3>1, <3>2 DEF LiveIsNamed
    <3>6. StepsAreEarned'
      BY <3>1, <3>2 DEF StepsAreEarned
    <3> QED
      BY <3>1, <3>4, <3>5, <3>6
  <2> QED
    BY <1>4, <2>2, <2>3 DEF StartDaemon
<1>5. CASE TruncatePidFile(sh) \/ WritePidFile(sh)
  <2> DEFINE pid == shells[sh].pid
  <2>1. /\ shells[sh].at \in {"truncate", "write"}
        /\ \A p \in Pids : Live(p) => p = pid
    BY <1>2, <1>5 DEF TruncatePidFile, WritePidFile, StepsAreEarned
  <2>2. UNCHANGED <<procs, termed, socket>>
    BY <1>5 DEF TruncatePidFile, WritePidFile
  <2>3. \/ /\ shells' = [shells EXCEPT ![sh] = [at |-> "write", pid |-> pid]]
        \/ /\ shells' = [shells EXCEPT ![sh] = [at |-> "poll", pid |-> pid]]
           /\ pidFile' = pid
    BY <1>5 DEF TruncatePidFile, WritePidFile, Goto
  <2>4. /\ OneCommand'
        /\ \/ shells'[sh] = [at |-> "write", pid |-> pid]
           \/ shells'[sh] = [at |-> "poll", pid |-> pid] /\ pidFile' = pid
        /\ \A t \in Shells : t # sh => shells'[t].at = "prompt"
    BY <1>2, <2>1, <2>3, OthersPrompt
  <2>5. OneLive' /\ ServingIsBound'
    BY <1>2, <2>2 DEF OneLive, ServingIsBound
  <2>6. LiveIsNamed'
    BY <2>1, <2>2, <2>4 DEF LiveIsNamed
  <2>7. StepsAreEarned'
    BY <2>1, <2>2, <2>4 DEF StepsAreEarned
  <2> QED
    BY <2>4, <2>5, <2>6, <2>7
<1>6. CASE PollHealth(sh)
  BY <1>2, <1>6, QuietStep DEF PollHealth, Finish
<1> QED
  BY <1>3, <1>4, <1>5, <1>6 DEF Enable

(* disable: what it removes is not in use any more, because it waited for  *)
(* the daemon that daemon.pid names, which is all there is.                *)
LEMMA DisableStep ==
    ASSUME TypeOK, OrderlyInv, NEW sh \in Shells, Disable(sh)
    PROVE  OrderlyInv'
<1> USE LiveStates DEF TypeOK, files, history, AtPrompt
<1>1. orderly' = orderly
  BY DEF Disable, ReadPidFile, ForgetStalePid, KillDaemon, WaitForExit,
         RemovePidFile, RemoveSocket
<1> SUFFICES ASSUME orderly
             PROVE  /\ OneCommand' /\ OneLive' /\ LiveIsNamed'
                    /\ ServingIsBound' /\ StepsAreEarned'
  BY <1>1 DEF OrderlyInv
<1>2. OneCommand /\ OneLive /\ LiveIsNamed /\ ServingIsBound /\ StepsAreEarned
  BY DEF OrderlyInv
<1>3. CASE ReadPidFile(sh)
  <2>1. \A p \in Pids : Live(p) => p = pidFile /\ Alive(pidFile)
    <3> SUFFICES ASSUME NEW p \in Pids, Live(p)
                 PROVE  p = pidFile
      BY LifecycleAssumption DEF Alive
    <3> SUFFICES ASSUME p # pidFile PROVE FALSE
      OBVIOUS
    <3>1. PICK t \in Shells : shells[t].at \in {"truncate", "write"}
      BY <1>2 DEF LiveIsNamed
    <3> QED
      BY <1>2, <1>3, <3>1 DEF OneCommand, ReadPidFile
  <2>2. CASE Alive(pidFile) /\ Goto(sh, "kill", pidFile)
    BY <1>2, <1>3, <2>1, <2>2, QuietStep DEF ReadPidFile, Goto
  <2>3. CASE ~ Alive(pidFile) /\ Goto(sh, "forget", 0)
    BY <1>2, <1>3, <2>1, <2>3, QuietStep DEF ReadPidFile, Goto, NoneLive
  <2> QED
    BY <1>3, <2>2, <2>3 DEF ReadPidFile
<1>4. CASE KillDaemon(sh)
  <2> DEFINE pid == shells[sh].pid
  <2>1. /\ shells[sh].at = "kill"
        /\ \A p \in Pids : Live(p) => p = pid
    BY <1>2, <1>4 DEF KillDaemon, StepsAreEarned
  <2>2. CASE Finish(sh) /\ UNCHANGED <<procs, termed>>
    BY <1>2, <1>4, <2>1, <2>2, QuietStep DEF KillDaemon, Finish
  <2>3. CASE Goto(sh, "wait", pid) /\ SendTerm(pid)
    <3>1. /\ OneCommand'
          /\ shells'[sh] = [at |-> "wait", pid |-> pid]
          /\ \A t \in Shells : t # sh => /\ shells[t].at = "prompt"
                                        /\ shells'[t].at = "prompt"
      BY <1>2, <1>4, <2>1, <2>3, OthersPrompt DEF KillDaemon, Goto
    <3>2. UNCHANGED <<pidFile, socket>>
      BY <1>4 DEF KillDaemon
    <3>3. \A p \in Pids : p # pid => procs'[p] = procs[p]
      BY <2>3 DEF SendTerm
    <3>4. procs[pid] \in {"starting", "stranger"} =>
             procs' = [procs EXCEPT ![pid] = "free"]
      BY <2>3 DEF SendTerm
    <3>5. procs[pid] \notin {"starting", "stranger"} =>
             /\ procs' = procs
             /\ procs[pid] # "draining" => pid \in termed'
      BY <2>3 DEF SendTerm
    <3>6. \A p \in Pids :
             Live(p)' => /\ Live(p) /\ p = pid /\ pid \in termed'
                         /\ procs'[p] = procs[p]
      BY <2>1, <3>3, <3>4, <3>5
    <3>7. OneLive' /\ ServingIsBound'
      BY <1>2, <3>2, <3>6 DEF OneLive, ServingIsBound
    <3>8. LiveIsNamed'
      BY <1>2, <2>1, <3>1, <3>2, <3>6 DEF LiveIsNamed
    <3>9. StepsAreEarned'
      BY <3>1, <3>6 DEF StepsAreEarned
    <3> QED
      BY <3>1, <3>7, <3>8, <3>9
  <2> QED
    BY <1>4, <2>2, <2>3 DEF KillDaemon
<1>5. CASE WaitForExit(sh)
  <2>1. NoneLive
    BY <1>2, <1>5 DEF WaitForExit, StepsAreEarned, NoneLive
  <2> QED
    BY <1>2, <1>5, <2>1, QuietStep DEF WaitForExit, Goto
<1>6. CASE ForgetStalePid(sh) \/ RemovePidFile(sh) \/ RemoveSocket(sh)
  <2>1. NoneLive /\ shells[sh].at \in {"forget", "unpid", "unsock"}
    BY <1>2, <1>6 DEF ForgetStalePid, RemovePidFile, RemoveSocket,
                      StepsAreEarned
  <2>2. procs' = procs /\ NoneLive'
    BY <1>6, <2>1 DEF ForgetStalePid, RemovePidFile, RemoveSocket, NoneLive
  <2>3. /\ OneCommand'
        /\ shells'[sh].at \in {"prompt", "unsock"}
        /\ \A t \in Shells : t # sh => shells'[t].at = "prompt"
    <3>1. PICK entry \in {AtPrompt, [at |-> "unsock", pid |-> 0]} :
             shells' = [shells EXCEPT ![sh] = entry]
      BY <1>6 DEF ForgetStalePid, RemovePidFile, RemoveSocket, Finish, Goto
    <3>2. shells[sh].at # "prompt"
      BY <2>1
    <3>3. /\ OneCommand'
          /\ shells'[sh] = entry
          /\ \A t \in Shells : t # sh => shells'[t].at = "prompt"
      BY <1>2, <3>1, <3>2, OthersPrompt
    <3> QED
      BY <3>1, <3>3
  <2>4. OneLive' /\ ServingIsBound' /\ LiveIsNamed'
    BY <2>2 DEF NoneLive, OneLive, ServingIsBound, LiveIsNamed
  <2>5. StepsAreEarned'
    BY <2>2, <2>3 DEF StepsAreEarned
  <2> QED
    BY <2>3, <2>4, <2>5
<1> QED
  BY <1>3, <1>4, <1>5, <1>6 DEF Disable

(* Initially there is no daemon and no command. *)
LEMMA InitOrderly == Init => OrderlyInv
  BY LiveStates
     DEF Init, OrderlyInv, OneCommand, OneLive, LiveIsNamed, ServingIsBound,
         StepsAreEarned, AtPrompt

(* Every step keeps what orderly commands rely on. *)
LEMMA NextOrderly == TypeOK /\ OrderlyInv /\ [Next]_vars => OrderlyInv'
<1> SUFFICES ASSUME TypeOK, OrderlyInv, [Next]_vars PROVE OrderlyInv'
  OBVIOUS
<1>1. ASSUME NEW sh \in Shells, RunEnable(sh) \/ RunDisable(sh)
      PROVE  OrderlyInv'
  BY <1>1, RunStep DEF RunEnable, RunDisable
<1>2. ASSUME NEW sh \in Shells, Interrupt(sh) PROVE OrderlyInv'
  BY <1>2 DEF Interrupt, OrderlyInv
<1>3. ASSUME NEW sh \in Shells, Enable(sh) \/ Disable(sh) PROVE OrderlyInv'
  BY <1>3, EnableStep, DisableStep
<1>4. ASSUME NEW p \in Pids, DaemonRun(p) \/ Crash(p) \/ StrangerStarts(p)
      PROVE  OrderlyInv'
  BY <1>4, DaemonStep
<1>5. CASE UNCHANGED vars
  BY <1>5, LiveStates
     DEF vars, files, history, OrderlyInv, OneCommand, OneLive, LiveIsNamed,
         ServingIsBound, StepsAreEarned, NoneLive
<1> QED
  BY <1>1, <1>2, <1>3, <1>4, <1>5 DEF Next

(* It is an invariant. *)
LEMMA OrderlyIsKept == Spec => []OrderlyInv
<1>1. Init => OrderlyInv
  BY InitOrderly
<1>2. TypeOK /\ OrderlyInv /\ [Next]_vars => OrderlyInv'
  BY NextOrderly
<1> QED
  BY <1>1, <1>2, TypeCorrect, PTL DEF Spec

(* As long as commands are run to their end and one at a time, there are   *)
(* never two daemons that have not closed their listener, and so           *)
(* removeStaleSocket never takes the socket of a live one: the pidfile is  *)
(* the lock that api.go relies on, through crashes, failing and slow       *)
(* starts, draining daemons and pids that other programs get.              *)
THEOREM AtMostOneDaemon == Spec => []OneDaemon
<1> DEFINE live == Daemons({"starting", "binding", "cleared", "serving"})
<1>1. OrderlyInv => OneDaemon
  <2> SUFFICES ASSUME OneLive PROVE Cardinality(live) <= 1
    BY DEF OrderlyInv, OneDaemon, NeverTwoDaemons
  <2>1. CASE live = {}
    BY <2>1, FS_EmptySet
  <2>2. CASE live # {}
    <3>1. PICK p \in live : TRUE
      BY <2>2
    <3>2. live = {p}
      BY <3>1 DEF OneLive, Live, Daemons
    <3> QED
      BY <3>2, FS_Singleton
  <2> QED
    BY <2>1, <2>2
<1> QED
  BY <1>1, OrderlyIsKept, PTL

(* ... and between commands the files lead the next one to the daemon that *)
(* serves.                                                                 *)
THEOREM DaemonIsReachable == Spec => []ServingDaemonIsReachable
<1>1. OrderlyInv => ServingDaemonIsReachable
  <2> SUFFICES ASSUME OrderlyInv, orderly, Prompting,
                      NEW p \in Daemons({"serving"})
               PROVE  pidFile = p /\ socket = p
    BY DEF ServingDaemonIsReachable
  <2>1. p \in Pids /\ procs[p] = "serving" /\ Live(p)
    BY DEF Daemons, Live
  <2>2. socket = p
    BY <2>1 DEF OrderlyInv, ServingIsBound
  <2>3. pidFile = p
    BY <2>1 DEF OrderlyInv, LiveIsNamed, Prompting
  <2> QED
    BY <2>2, <2>3
<1> QED
  BY <1>1, OrderlyIsKept, PTL

(* Nobody else takes the socket of a daemon that answers on it: neither    *)
(* removeStaleSocket of a daemon that starts nor disable removes it, as    *)
(* long as commands are run to their end and one at a time.                *)
SocketIsKept ==
    [][orderly /\ Healthy /\ socket' # socket => CloseListener(socket)]_vars

(* A step that changes the socket of a serving daemon is its own. *)
LEMMA SocketStep ==
    ASSUME TypeOK, OrderlyInv, orderly, Healthy, socket' # socket, Next
    PROVE  CloseListener(socket)
<1>1. OneLive /\ ServingIsBound /\ StepsAreEarned
  BY DEF OrderlyInv
<1>2. socket \in Pids /\ procs[socket] = "serving" /\ Live(socket)
  BY DEF Healthy, TypeOK, Live, Daemons
<1>3. ASSUME NEW p \in Pids, DaemonRun(p) PROVE CloseListener(socket)
  <2>1. RemoveStaleSocket(p) \/ Listen(p) \/ CloseListener(p)
    BY <1>3 DEF DaemonRun, Initialise, Leave, files
  <2>2. Live(p)
    BY <2>1 DEF RemoveStaleSocket, Listen, CloseListener, Live, Daemons
  <2>3. p = socket
    BY <1>1, <1>2, <2>2 DEF OneLive
  <2> QED
    BY <1>2, <2>1, <2>3 DEF RemoveStaleSocket, Listen
<1>4. \A p \in Pids : ~ Crash(p) /\ ~ StrangerStarts(p)
  BY DEF Crash, StrangerStarts, files
<1>5. ASSUME NEW sh \in Shells,
             \/ RunEnable(sh) \/ RunDisable(sh) \/ Interrupt(sh)
             \/ Enable(sh) \/ Disable(sh)
      PROVE  FALSE
  <2>1. RemoveSocket(sh)
    BY <1>5 DEF RunEnable, RunDisable, Run, Interrupt, Enable, Disable,
                CheckPidFile, StartDaemon, TruncatePidFile, WritePidFile,
                PollHealth, ReadPidFile, ForgetStalePid, KillDaemon,
                WaitForExit, RemovePidFile, files
  <2>2. NoneLive
    BY <1>1, <2>1 DEF StepsAreEarned, RemoveSocket
  <2> QED
    BY <1>2, <2>2 DEF NoneLive
<1> QED
  BY <1>3, <1>4, <1>5 DEF Next

(* The socket of a daemon that answers is its own until it closes it.      *)
THEOREM SocketIsNotTaken == Spec => SocketIsKept
<1>1. TypeOK /\ OrderlyInv /\ [Next]_vars
         => [orderly /\ Healthy /\ socket' # socket => CloseListener(socket)]_vars
  BY SocketStep
<1> QED
  BY <1>1, TypeCorrect, OrderlyIsKept, PTL DEF Spec, SocketIsKept
=============================================================================
