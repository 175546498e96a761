-------------------------- MODULE MCSessionTracker --------------------------
(* Small instances of SessionTracker. *)
EXTENDS SessionTracker, TLC

CONSTANTS s1, s2, h1, h2

OneSession == {s1}
TwoSessions == {s1, s2}
OneHandler == {h1}
TwoHandlers == {h1, h2}
OnePid == {1}
TwoPids == {1, 2}
HandlerSymmetry == Permutations(Handlers)
=============================================================================
