--------------------------- MODULE MC_EventPipeline ---------------------------
(* Channels of one slot instead of sixteen, so that two events in a row    *)
(* already meet a full one.  Two tabs and one method show that sessions    *)
(* stay apart.  A stream asks for the method, or lists it twice.  Tabs are *)
(* alike, and one guest comes to one of them: the other is just there.     *)
EXTENDS EventPipeline

OnceOrTwice == UNION {[1 .. n -> Methods] : n \in 1 .. 2}
===============================================================================
