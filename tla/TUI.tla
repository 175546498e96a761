-------------------------------- MODULE TUI --------------------------------
(***************************************************************************)
(* The loop of `biewer tui`: one select over the keyboard, signals, a      *)
(* ticker and the timeout that tells Escape from an arrow key.  Fetching   *)
(* the dashboard and drawing it, for which stty is run, happen on the loop,*)
(* so that keys, signals and the timeout wait for them, and a select may   *)
(* take any branch that is ready by then.                                  *)
(*                                                                         *)
(* The terminal sends all bytes of a key at once.  80 ms are long enough   *)
(* for a loop that is in its select to read what was sent.  What is drawn, *)
(* and the samples kept for each session, are left out.                    *)
(***************************************************************************)
EXTENDS Integers, SequencesExt

CONSTANTS Sessions,     \* session keys: agent and id
          NoKey,        \* no session is selected
          SigQueue,     \* what sigCh holds
          MaxPresses,   \* bound: keys pressed
          MaxChanges,   \* bound: changes of the daemon's dashboard
          MaxSignals    \* bound: signals

ASSUME TUIAssumption ==
    /\ NoKey \notin Sessions
    /\ SigQueue \in Nat \ {0}
    /\ {MaxPresses, MaxChanges, MaxSignals} \subseteq Nat

VARIABLES
    daemon,         \* the dashboard of the daemon, if it answers
    typed,          \* bytes that the loop has not read, with their key
    sigCh,          \* signals that it has not taken
    loop,           \* "select", in "fetch" or "render", or "done"
    snap,           \* the dashboard on the screen
    selected,       \* selected and selectedKey: the row, and whose it is
    escapeState,    \* how much of an arrow's bytes was read
    deadline,       \* escapeDeadline
    escape,         \* history: the key that sent the last ESC, and whether
                    \* a fetch or a render began between its bytes
    ended,          \* history: what ended the loop
    asked,          \* history: whether it was asked to end
    presses, changes, signals

outside == <<daemon, typed, sigCh, asked, presses, changes, signals>>
selection == <<snap, selected>>
keys == <<escapeState, deadline, escape>>
TUIVars == <<outside, loop, selection, keys, ended>>

-----------------------------------------------------------------------------
(* What a key sends; an end of the input is a key here, too.  Q and Ctrl-C *)
(* are as q, k and Down as j and Up, F2 to F4 and Alt with a letter as F1, *)
(* and the 1;2 of ShiftF2 is one byte.  A [ of its own is left out: after  *)
(* Escape it is taken for an arrow's.                                      *)
Bytes == [Escape |-> <<"ESC">>, q |-> <<"q">>,
          Up |-> <<"ESC", "[", "A">>, PageUp |-> <<"ESC", "[", "5", "~">>,
          F1 |-> <<"ESC", "O", "P">>, ShiftF2 |-> <<"ESC", "[", "1", "q">>,
          j |-> <<"j">>, G |-> <<"G">>, r |-> <<"r">>, HangUp |-> <<"closed">>]
KeyNames == DOMAIN Bytes
QuitKeys == {"Escape", "q", "HangUp"}
ArrowKeys == {"Up", "PageUp"}

Dashboards ==
    {list \in UNION {[1 .. n -> Sessions] : n \in 0 .. 2} :
        \A m, n \in DOMAIN list : list[m] = list[n] => m = n}

-----------------------------------------------------------------------------
(* Selection: rows are counted from 0 *)

Clamp(index, list) ==
    CASE index < 0 -> 0 [] index >= Len(list) -> Len(list) - 1 [] OTHER -> index

(* Fault: the row stays where it was, whoever it belongs to now. *)
reconcileByRow(list, key, fallback) ==
    IF list = <<>> THEN [row |-> 0, key |-> NoKey]
    ELSE [row |-> Clamp(fallback, list), key |-> list[Clamp(fallback, list) + 1]]

RowOf(list, key) == (CHOOSE n \in DOMAIN list : list[n] = key) - 1

(* The row of the session, or the row where it was. *)
reconcileTUISelection(list, key, fallback) ==
    IF list = <<>> THEN [row |-> 0, key |-> NoKey]
    ELSE IF key # NoKey /\ Contains(list, key)
    THEN [row |-> RowOf(list, key), key |-> key]
    ELSE [row |-> Clamp(fallback, list), key |-> list[Clamp(fallback, list) + 1]]

-----------------------------------------------------------------------------
(* Before the loop the dashboard was fetched once, or could not be. *)
TUIInit ==
    /\ daemon \in [up : BOOLEAN, list : Dashboards]
    /\ typed = <<>>
    /\ sigCh = <<>>
    /\ loop = "select"
    /\ snap = IF daemon.up THEN daemon.list ELSE <<>>
    /\ selected = reconcileTUISelection(snap, NoKey, 0)
    /\ escapeState = 0
    /\ deadline = "none"
    /\ escape = [key |-> "none", slow |-> FALSE]
    /\ ended = "none"
    /\ asked = FALSE
    /\ presses = 0
    /\ changes = 0
    /\ signals = 0

-----------------------------------------------------------------------------
(* The daemon, the terminal and the system *)

DaemonChanges ==
    /\ changes < MaxChanges
    /\ loop # "done"
    /\ changes' = changes + 1
    /\ daemon' \in [up : BOOLEAN, list : Dashboards]
    /\ UNCHANGED <<typed, sigCh, asked, presses, signals, loop, selection, keys, ended>>

(* Go's reader hands on bytes in order, and closes the channel at the end. *)
Press(key) ==
    /\ presses < MaxPresses
    /\ loop # "done"
    /\ \A n \in DOMAIN typed : typed[n].key # "HangUp"
    /\ presses' = presses + 1
    /\ typed' = typed \o [n \in DOMAIN Bytes[key] |-> [byte |-> Bytes[key][n], key |-> key]]
    /\ asked' = (asked \/ key \in QuitKeys)
    /\ UNCHANGED <<daemon, sigCh, changes, signals, loop, selection, keys, ended>>

(* The runtime drops a signal that finds sigCh full. *)
Signal(sig) ==
    /\ signals < MaxSignals
    /\ loop # "done"
    /\ signals' = signals + 1
    /\ IF Len(sigCh) < SigQueue
       THEN sigCh' = Append(sigCh, sig) /\ asked' = (asked \/ sig = "SIGTERM")
       ELSE UNCHANGED <<sigCh, asked>>
    /\ UNCHANGED <<daemon, typed, presses, changes, loop, selection, keys, ended>>

PassDeadline ==
    /\ deadline = "armed"
    /\ loop # "done"
    /\ loop # "select" \/ typed = <<>>
    /\ deadline' = "expired"
    /\ UNCHANGED <<outside, loop, selection, escapeState, escape, ended>>

-----------------------------------------------------------------------------
(* Fetching and drawing *)

selectAt(index) == selected' = reconcileTUISelection(snap, NoKey, index)

Start(what) ==
    /\ loop' = what
    /\ escape' = [escape EXCEPT !.slow = @ \/ escapeState' # 0]

(* The daemon answers with what it has by now; or it does not, and all on  *)
(* the screen stays.  Either is drawn.                                     *)
EndFetch ==
    /\ loop = "fetch"
    /\ loop' = "render"
    /\ IF daemon.up
       THEN /\ snap' = daemon.list
            /\ selected' = reconcileTUISelection(snap', selected.key, selected.row)
       ELSE UNCHANGED selection
    /\ UNCHANGED <<outside, keys, ended>>

EndRender ==
    /\ loop = "render"
    /\ loop' = "select"
    /\ UNCHANGED <<outside, selection, keys, ended>>

-----------------------------------------------------------------------------
(* The select *)

End(by) ==
    /\ loop' = "done"
    /\ ended' = by

TickerFires ==
    /\ loop = "select"
    /\ UNCHANGED <<outside, selection, escapeState, deadline, ended>>
    /\ Start("fetch")

DeadlineFires ==
    /\ loop = "select"
    /\ deadline = "expired"
    /\ End(escape.key)
    /\ UNCHANGED <<outside, selection, keys>>

TakeSignal ==
    /\ loop = "select"
    /\ sigCh # <<>>
    /\ sigCh' = Tail(sigCh)
    /\ UNCHANGED <<daemon, typed, asked, presses, changes, signals, selection,
                   escapeState, deadline>>
    /\ IF Head(sigCh) = "SIGTERM" THEN End("SIGTERM") /\ UNCHANGED escape
       ELSE Start("render") /\ UNCHANGED ended

(* Fault: a byte that is no arrow's takes the place of Escape. *)
ReadAfterEscapeAgain(byte) ==
    /\ escapeState = 1
    /\ IF byte = "[" THEN escapeState' = 2 /\ deadline' = "armed"
       ELSE escapeState' = 0 /\ deadline' = "none"
    /\ UNCHANGED <<selection, escape, loop, ended>>

(* After ESC: an arrow goes on, anything else ends the loop. *)
ReadAfterEscape(byte) ==
    /\ escapeState = 1
    /\ IF byte = "[" THEN /\ escapeState' = 2
                          /\ deadline' = "armed"
                          /\ UNCHANGED <<loop, ended>>
       ELSE End(escape.key) /\ UNCHANGED <<escapeState, deadline>>
    /\ UNCHANGED <<selection, escape>>

(* Fault: the timeout of the bytes before goes on. *)
ReadArrowOnly(byte) ==
    /\ escapeState = 2
    /\ escapeState' = 0
    /\ Start("render")
    /\ CASE byte = "A" -> selectAt(selected.row - 1)
         [] OTHER      -> UNCHANGED selected
    /\ UNCHANGED <<snap, deadline, ended>>

(* The third byte is taken whatever it is. *)
ReadArrow(byte) ==
    /\ escapeState = 2
    /\ escapeState' = 0
    /\ deadline' = "none"
    /\ Start("render")
    /\ CASE byte = "A" -> selectAt(selected.row - 1)
         [] OTHER      -> UNCHANGED selected
    /\ UNCHANGED <<snap, ended>>

ReadKey(byte, key) ==
    /\ escapeState = 0
    /\ \/ /\ byte = "q"
          /\ End(key)
          /\ UNCHANGED <<selection, keys>>
       \/ /\ byte = "ESC"
          /\ escapeState' = 1
          /\ deadline' = "armed"
          /\ escape' = [key |-> key, slow |-> FALSE]
          /\ UNCHANGED <<selection, loop, ended>>
       \/ /\ byte = "j"
          /\ selectAt(selected.row + 1)
          /\ UNCHANGED <<snap, escapeState, deadline, ended>>
          /\ Start("render")
       \/ /\ byte = "G"
          /\ selectAt(Len(snap) - 1)
          /\ UNCHANGED <<snap, escapeState, deadline, ended>>
          /\ Start("render")
       \/ /\ byte = "r"
          /\ UNCHANGED <<selection, escapeState, deadline, ended>>
          /\ Start("fetch")
       \/ /\ byte \notin {"q", "ESC", "j", "G", "r"}
          /\ UNCHANGED <<selection, keys, loop, ended>>

(* The end of the input ends the loop in every state. *)
ReadByte ==
    /\ loop = "select"
    /\ typed # <<>>
    /\ typed' = Tail(typed)
    /\ LET byte == Head(typed).byte
       IN  IF byte = "closed" THEN End("HangUp") /\ UNCHANGED <<selection, keys>>
           ELSE ReadAfterEscape(byte) \/ ReadArrow(byte) \/ ReadKey(byte, Head(typed).key)
    /\ UNCHANGED <<daemon, sigCh, asked, presses, changes, signals>>

-----------------------------------------------------------------------------
Loop == TickerFires \/ DeadlineFires \/ TakeSignal \/ ReadByte \/ EndFetch \/ EndRender

TUINext ==
    \/ DaemonChanges
    \/ \E key \in KeyNames : Press(key)
    \/ \E sig \in {"SIGTERM", "SIGWINCH"} : Signal(sig)
    \/ PassDeadline
    \/ Loop

(* A fetch ends after 1.5 s, stty ends, and time passes.  select takes any  *)
(* branch that is ready with the same probability: none is passed over for *)
(* ever.                                                                   *)
Fairness ==
    /\ WF_TUIVars(EndFetch) /\ WF_TUIVars(EndRender) /\ WF_TUIVars(PassDeadline)
    /\ SF_TUIVars(DeadlineFires) /\ SF_TUIVars(TakeSignal) /\ SF_TUIVars(ReadByte)

TUISpec == TUIInit /\ [][TUINext]_TUIVars /\ Fairness

-----------------------------------------------------------------------------
(* What must be true of it *)

(* The comment at tui_cmd.go:120, as far as it is true: a key that sends   *)
(* ESC [ and no letter that ends the program does not end it, however the  *)
(* branches of the select are taken, unless the loop began to fetch or to  *)
(* draw between its bytes.  (F1 does end it, and Shift-F2, whose last byte *)
(* is Q.)                                                                  *)
ArrowsDoNotQuit == ended \in ArrowKeys => escape.slow

(* That comment to the letter: an arrow whose bytes wait behind a fetch, or *)
(* a redraw, is taken for Escape.                                          *)
NoArrowIsSwallowed == ended \notin ArrowKeys

(* The selection stays with the session the user chose, wherever a refresh *)
(* moves its row, until a key moves it or the session is listed no more.   *)
SelectionFollowsItsSession ==
    [][/\ snap' # <<>> => snap'[selected'.row + 1] = selected'.key
       /\ selected'.key # selected.key => \/ typed' # typed
                                        \/ selected.key = NoKey
                                        \/ ~ Contains(snap', selected.key)]_selection

(* Who presses q, Ctrl-C or Escape, among whatever other keys but [, or    *)
(* sends a SIGTERM that sigCh has room for, ends the program, also when the *)
(* daemon does not answer and every fetch takes longer than the ticker's   *)
(* period.                                                                 *)
AskedToEndEnds == asked ~> loop = "done"
=============================================================================
