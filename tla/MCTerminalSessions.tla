------------------------- MODULE MCTerminalSessions -------------------------
(* Two sockets of one user or of two.                                      *)
EXTENDS TerminalSessions, TLC

CONSTANTS c1, c2, ann, ben

SameUser == c1 :> ann @@ c2 :> ann
=============================================================================
