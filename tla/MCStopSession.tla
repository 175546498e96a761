--------------------------- MODULE MCStopSession ---------------------------
(* Small instances of StopSession. *)
EXTENDS StopSession

(* A session that hooks announce, an agent that is only discovered, and    *)
(* the id that telemetry gives it, which the first one's id begins.        *)
OneHooked == {"task-1"}
OneAuto == {"auto-2"}
OneReported == {"task-12"}
ThreeSessions == OneHooked \cup OneAuto \cup OneReported
AutoRoot == [s \in OneAuto |-> 2]

(* Two ids, and the beginning of two. *)
ThreeArgs == {"task-1", "auto-2", "task"}
ArgMatches ==
    [arg \in ThreeArgs |-> IF arg = "auto-2" THEN {arg} ELSE {"task-1", "task-12"}]
=============================================================================
