---------------------------- MODULE SessionBook ----------------------------
(***************************************************************************)
(* What the daemon promises about sessions to those who post events, read  *)
(* the dashboard, or restart it, whatever its handlers and Ticks do inside:*)
(* a board of sessions that lives as long as the daemon, and a book that   *)
(* outlives it.  SessionTracker implements it.                             *)
(***************************************************************************)
EXTENDS Naturals

CONSTANTS Sessions,     \* session ids
          Event,        \* what can be posted
          Lossy         \* whether the book may miss something

VARIABLES
    open,       \* the daemon runs
    board,      \* the state each session is shown in
    book,       \* the state each session was last recorded in
    peak,       \* its recorded peak
    log,        \* the events that were logged
    answered    \* the events that were answered

vars == <<open, board, book, peak, log, answered>>

Empty == [s \in Sessions |-> "none"]

Init ==
    /\ open = TRUE
    /\ board = Empty
    /\ book = Empty
    /\ peak = [s \in Sessions |-> 0]
    /\ log = {}
    /\ answered = {}

(* An event moves the session it names, and no other. *)
After(state, kind) ==
    CASE kind = "session_start" -> "active"
      [] kind = "session_end"   -> "ended"
      [] kind = "activity"      -> IF state = "none" THEN "active" ELSE state

Accept(e) ==
    /\ open
    /\ board' = [board EXCEPT ![e.id] = After(@, e.kind)]
    /\ UNCHANGED <<open, book, peak, log, answered>>

Log(e) ==
    /\ log' = log \cup {e}
    /\ UNCHANGED <<open, board, book, peak, answered>>

(* What is in the book stays in it: states may come late, peaks only rise. *)
Write(s) ==
    /\ \E state \in {"active", "ended"} : book' = [book EXCEPT ![s] = state]
    /\ peak' = [peak EXCEPT ![s] = peak'[s]]
    /\ peak'[s] >= peak[s]

Record(s) == Write(s) /\ UNCHANGED <<open, board, log, answered>>

(* Nobody is answered before the event is logged and the session recorded. *)
Answer(e) ==
    /\ answered' = answered \cup {e}
    /\ \/ e \in log /\ Write(e.id)
       \/ Lossy /\ (Write(e.id) \/ UNCHANGED <<book, peak>>)
    /\ UNCHANGED <<open, board, log>>

(* Sessions leave the board only after they ended. *)
Leave ==
    /\ \E S \in SUBSET {s \in Sessions : board[s] = "ended"} :
          board' = [s \in Sessions |-> IF s \in S THEN "none" ELSE board[s]]
    /\ UNCHANGED <<open, book, peak, log, answered>>

Stop ==
    /\ open
    /\ open' = FALSE
    /\ board' = Empty
    /\ UNCHANGED <<book, peak, log, answered>>

(* The board is filled from the book, with sessions that are active there. *)
Restart ==
    /\ ~ open
    /\ open' = TRUE
    /\ board = Empty
    /\ \E S \in SUBSET {s \in Sessions : book[s] = "active"} :
          board' = [s \in Sessions |-> IF s \in S THEN "active" ELSE "none"]
    /\ UNCHANGED <<book, peak, log, answered>>

Next ==
    \/ \E e \in Event : Accept(e) \/ Log(e) \/ Answer(e)
    \/ \E s \in Sessions : Record(s)
    \/ Leave \/ Stop \/ Restart

Spec == Init /\ [][Next]_vars
=============================================================================
