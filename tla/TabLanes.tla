------------------------------- MODULE TabLanes -------------------------------
(***************************************************************************)
(* What the tab groups of internal/mcp/group.go promise: a tab is in at    *)
(* most one group's lane, only a live group has tabs, and a group's active *)
(* tab is one of its own.  Membership is one function here; the code keeps *)
(* it twice (targetGroup and each group's owned set), and module           *)
(* GroupTable is shown to implement this one.                              *)
(***************************************************************************)
CONSTANTS GroupIds, Targets, NoGroup, NoTarget

VARIABLES
  live,   \* the live groups
  lane,   \* the group each tab is in, or NoGroup
  front   \* the active tab of each group, or NoTarget

laneVars == <<live, lane, front>>

LanesInit ==
  /\ live = {}
  /\ lane = [t \in Targets |-> NoGroup]
  /\ front = [g \in GroupIds |-> NoTarget]

Open(g) ==
  /\ g \notin live
  /\ live' = live \cup {g}
  /\ UNCHANGED <<lane, front>>

(* A tab joins a live group; a group it was in loses it.                   *)
Join(g, t) ==
  /\ g \in live
  /\ lane' = [lane EXCEPT ![t] = g]
  /\ front' = [h \in GroupIds |->
                 IF lane[t] = h /\ h # g /\ front[h] = t THEN NoTarget ELSE front[h]]
  /\ UNCHANGED live

JoinInFront(g, t) ==
  /\ g \in live
  /\ lane' = [lane EXCEPT ![t] = g]
  /\ front' = [h \in GroupIds |->
                 IF h = g THEN t
                 ELSE IF lane[t] = h /\ front[h] = t THEN NoTarget ELSE front[h]]
  /\ UNCHANGED live

NoFront(g) ==
  /\ g \in live
  /\ front' = [front EXCEPT ![g] = NoTarget]
  /\ UNCHANGED <<live, lane>>

Close(g) ==
  /\ g \in live
  /\ live' = live \ {g}
  /\ lane' = [t \in Targets |-> IF lane[t] = g THEN NoGroup ELSE lane[t]]
  /\ front' = [front EXCEPT ![g] = NoTarget]

CloseAll == live' = {} /\ lane' = [t \in Targets |-> NoGroup] /\ front' = [g \in GroupIds |-> NoTarget]

LanesNext ==
  \/ CloseAll
  \/ \E g \in GroupIds :
       \/ Open(g) \/ NoFront(g) \/ Close(g)
       \/ \E t \in Targets : Join(g, t) \/ JoinInFront(g, t)

LanesSpec == LanesInit /\ [][LanesNext]_laneVars
===============================================================================
