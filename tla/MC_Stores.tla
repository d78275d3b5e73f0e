------------------------------- MODULE MC_Stores -------------------------------
(* Three calls on one recipe and one session: two recordings and a replay  *)
(* between them, or two saves and a load.  The steps of the two bodies     *)
(* need a variable or not, and one names a tool the registry has not.      *)
EXTENDS Stores

CONSTANTS r1, s1, v1

Plain   == [known |-> TRUE, needs |-> NoVar]
NeedsV  == [known |-> TRUE, needs |-> v1]
NotOurs == [known |-> FALSE, needs |-> NoVar]

TwoBodies == {<<Plain, NeedsV>>, <<NeedsV, NotOurs>>}
===============================================================================
