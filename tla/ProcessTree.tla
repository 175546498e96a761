---------------------------- MODULE ProcessTree ----------------------------
(***************************************************************************)
(* What Tick derives from one scan of the process table: the tree below a  *)
(* root, and the roots of sessions no hook announced.  A scan is a         *)
(* function from the pids it found to what it read about each.  Linux      *)
(* reads /proc one process after the other, so the parts of a scan may be  *)
(* of different times: a parent may be missing, and the parents of two     *)
(* processes may be each other.                                            *)
(***************************************************************************)
EXTENDS Naturals, FiniteSets

CONSTANTS Pids,     \* process ids
          Agents    \* what auto-discovery looks for

(* hasMatchedAncestor gives up after 1000 parents; with no more pids than  *)
(* that, no walk is cut.                                                   *)
ASSUME ProcessTreeAssumption ==
    /\ 0 \notin Pids
    /\ IsFiniteSet(Pids)
    /\ Cardinality(Pids) <= 1000

(* The desktop applications run many tasks in one tree of processes. *)
Desktops == {"claude-desktop", "chatgpt", "codex-desktop"}
resourceScopeForAgent(agent) == IF agent \in Desktops THEN "shared" ELSE "owned"

(* Sets of processes that hold the children of what they hold. *)
Closed(scan) ==
    {S \in SUBSET DOMAIN scan : \A c \in DOMAIN scan \ S : scan[c].ppid \notin S}

(* The pids of buildTree's tree, where no process is met twice: nothing    *)
(* without a running root, and otherwise the root, and the children of     *)
(* what it holds.                                                          *)
buildTree(scan, root) ==
    IF root \in DOMAIN scan
    THEN LET holding == {S \in Closed(scan) : root \in S}
         IN  {p \in DOMAIN scan : \A S \in holding : p \in S}
    ELSE {}

(* The same for the parents of what the scan found; a parent may be missing. *)
ClosedAbove(scan) ==
    {S \in SUBSET Pids : \A p \in S \cap DOMAIN scan : scan[p].ppid \in S \cup {0}}

(* The walk from parent to parent ends where the scan does, and where it   *)
(* would come back to a process it has seen.                               *)
Ancestors(scan, pid) ==
    LET holding == {S \in ClosedAbove(scan) : pid \in S}
    IN  {p \in Pids \ {pid} : \A S \in holding : p \in S}

(* Fault: only the parent is looked at. *)
hasMatchedParent(scan, pid, matched) ==
    scan[pid].ppid \in matched \ {pid}

(* Fault: the walk takes a parent that the scan did not find for a match. *)
hasMatchedOrMissingAncestor(scan, pid, matched) ==
    Ancestors(scan, pid) \cap (matched \cup (Pids \ DOMAIN scan)) # {}

hasMatchedAncestor(scan, pid, matched) == Ancestors(scan, pid) \cap matched # {}

Matched(scan, exclude) ==
    {p \in DOMAIN scan \ exclude : scan[p].command \in Agents}

(* Fault: what is attributed is only left out among the roots' ancestors.  *)
FindRootsAnywhere(scan, exclude) ==
    {p \in Matched(scan, {}) : ~ hasMatchedAncestor(scan, p, Matched(scan, exclude))}

FindRoots(scan, exclude) ==
    LET matched == Matched(scan, exclude)
    IN  {p \in matched : ~ hasMatchedAncestor(scan, p, matched)}
=============================================================================
