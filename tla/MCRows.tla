------------------------------- MODULE MCRows -------------------------------
(***************************************************************************)
(* Rows with one agent that hooks announce by session id (as Claude Code   *)
(* does) or by launch id (as the codex wrapper does), or not at all: row k1*)
(* and row l1, and the auto-discovered rows 1 and 2.  Pid 1 may have been  *)
(* used twice, and be in the tree of another row too.  Row k1 may also be  *)
(* that of a session_end alone, and have no agent.                         *)
(***************************************************************************)
EXTENDS Rows

CONSTANTS k1, k2, l1

TwoPids == 1 .. 2
TwoAgents == {"cli", "codex-desktop"}
OneAgent == [k \in {k1, k2} |-> "cli"]
RankOfIds == [i \in RowIds |-> CASE i = k1 -> 2 [] i = l1 -> 3 [] i = k2 -> 5
                                  [] OTHER -> 3 * i - 2]

P(pid, start) == [pid |-> pid, start |-> start]
PidOneTwice == {P(1, 1), P(1, 2)}

Hooked(launch, start) ==
    {[agent |-> "cli", scope |-> "owned", attribution |-> "confirmed",
      launch |-> launch, cwd |-> 1, startedAt |-> 1, tree |-> tree] :
        tree \in {{}, {P(1, start)}}}

(* The row of a session_end of a session nobody had heard of. *)
OnlyEnded ==
    [agent |-> NoAgent, scope |-> "owned", attribution |-> "confirmed",
     launch |-> NoLaunch, cwd |-> 0, startedAt |-> 1, tree |-> {}]

Found ==
    {[agent |-> "cli", scope |-> "owned", attribution |-> "probable",
      launch |-> NoLaunch, cwd |-> cwd, startedAt |-> at, tree |-> {P(1, start)}] :
        cwd \in {0, 1}, at \in 1 .. 2, start \in 1 .. 2}

Above ==
    {[agent |-> agent, scope |-> resourceScopeForAgent(agent),
      attribution |-> IF agent = "cli" THEN "probable" ELSE "shared",
      launch |-> NoLaunch, cwd |-> IF agent = "cli" THEN 1 ELSE 0, startedAt |-> 1,
      tree |-> {P(2, 1), P(1, 1)}] : agent \in {"cli", "codex-desktop"}}

Templates ==
    [i \in {k1, l1, 1, 2} |-> CASE i = k1 -> Hooked(NoLaunch, 1) \cup {OnlyEnded}
                                 [] i = l1 -> Hooked(l1, 2)
                                 [] i = 1 -> Found [] i = 2 -> Above]

(* Up to two rows at a time; a process below a root is no root itself. *)
SmallProcessRows ==
    UNION {{shown \in [ids -> UNION {Templates[i] : i \in ids}] :
               \A i \in ids : shown[i] \in Templates[i]} :
               ids \in {ids \in SUBSET {k1, l1, 1, 2} :
                           Cardinality(ids) <= 2 /\ ids # {1, 2}}}
=============================================================================
