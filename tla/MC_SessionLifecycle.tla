------------------------- MODULE MC_SessionLifecycle --------------------------
(* A small instance of SessionLifecycle for TLC.                           *)
EXTENDS SessionLifecycle

CONSTANT c1   \* the connection of the auto-attach

AnyTool     == {"attach", "detach", "page", "closeTab"}
PageTool    == {"page"}
EitherStart == {NoConn, c1}
AutoAttach  == {c1}
===============================================================================
