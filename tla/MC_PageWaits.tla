----------------------------- MODULE MC_PageWaits -----------------------------
(* One call of any kind; Chrome and the user do the rest.  Channels of one *)
(* slot, so that the second event in a row may be dropped, and one event   *)
(* of a method on its way, where it may be lost at any time.               *)
EXTENDS PageWaits
===============================================================================
