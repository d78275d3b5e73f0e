------------------------------ MODULE GroupTable ------------------------------
(***************************************************************************)
(* The tab-group table of the session: internal/mcp/group.go and the part  *)
(* of session.go that resets it.  Every method is one critical section of  *)
(* Session.mu, so every method is one action, open to any argument: the    *)
(* tools that call them are in AgentTools.                                 *)
(*                                                                         *)
(* Group ids "g1", "g2", ... are their numbers, target ids are model       *)
(* values, and "" is NoGroup or NoTarget.  A group that is not in the map  *)
(* has an empty owned set and no active tab here.                          *)
(***************************************************************************)
EXTENDS Naturals

CONSTANTS
  Targets,          \* CDP target ids
  NoTarget, NoGroup,
  MaxGroups         \* bound on nextGroupSeq

ASSUME GroupTableAssumption ==
  /\ MaxGroups \in Nat
  /\ NoTarget \notin Targets
  /\ NoGroup \notin Nat

GroupIds == 1 .. MaxGroups

VARIABLES
  groups,       \* keys of the groups map
  owned,        \* tabGroup.owned
  active,       \* tabGroup.active
  targetGroup,  \* target -> owning group
  nextGroupSeq

tableVars == <<groups, owned, active, targetGroup, nextGroupSeq>>

TableInit ==
  /\ groups = {}
  /\ owned = [g \in GroupIds |-> {}]
  /\ active = [g \in GroupIds |-> NoTarget]
  /\ targetGroup = [t \in Targets |-> NoGroup]
  /\ nextGroupSeq = 0

(* CreateGroup: mint the next id and put an empty group under it.          *)
CreateGroup(g) ==
  /\ nextGroupSeq < MaxGroups
  /\ g = nextGroupSeq + 1
  /\ nextGroupSeq' = g
  /\ groups' = groups \cup {g}
  /\ owned' = [owned EXCEPT ![g] = {}]
  /\ active' = [active EXCEPT ![g] = NoTarget]
  /\ UNCHANGED targetGroup

(* adoptLocked: the group a tab leaves, if the table still has it.         *)
Loses(h, g, t) == h # g /\ h = targetGroup[t] /\ h \in groups

(* Mutant: the tab stays in the owned set it leaves.                       *)
OwnedAfterAdoptKeeps(g, t) == [owned EXCEPT ![g] = @ \cup {t}]

OwnedAfterAdopt(g, t) ==
  [h \in GroupIds |-> IF h = g THEN owned[h] \cup {t}
                      ELSE IF Loses(h, g, t) THEN owned[h] \ {t} ELSE owned[h]]

ActiveAfterAdopt(g, t) ==
  [h \in GroupIds |-> IF Loses(h, g, t) /\ active[h] = t THEN NoTarget ELSE active[h]]

(* AdoptToGroup.  Unknown groups and the empty target are no-ops.          *)
AdoptToGroup(g, t) ==
  IF t # NoTarget /\ g \in groups
  THEN /\ owned' = OwnedAfterAdopt(g, t)
       /\ active' = ActiveAfterAdopt(g, t)
       /\ targetGroup' = [targetGroup EXCEPT ![t] = g]
       /\ UNCHANGED <<groups, nextGroupSeq>>
  ELSE UNCHANGED tableVars

(* SetGroupActive adopts the tab and makes it the group's active one; the  *)
(* empty target only clears the active tab.                                *)
SetGroupActive(g, t) ==
  /\ g \in groups
  /\ IF t = NoTarget
     THEN /\ active' = [active EXCEPT ![g] = NoTarget]
          /\ UNCHANGED <<owned, targetGroup>>
     ELSE /\ owned' = OwnedAfterAdopt(g, t)
          /\ active' = [ActiveAfterAdopt(g, t) EXCEPT ![g] = t]
          /\ targetGroup' = [targetGroup EXCEPT ![t] = g]
  /\ UNCHANGED <<groups, nextGroupSeq>>

(* Mutant: targetGroup still names the closed group.                       *)
CloseGroupKeepsTabs(g) ==
  /\ g \in groups
  /\ groups' = groups \ {g}
  /\ owned' = [owned EXCEPT ![g] = {}]
  /\ active' = [active EXCEPT ![g] = NoTarget]
  /\ UNCHANGED <<targetGroup, nextGroupSeq>>

(* CloseGroup: the group's tabs become free.                               *)
CloseGroup(g) ==
  /\ g \in groups
  /\ groups' = groups \ {g}
  /\ targetGroup' = [t \in Targets |-> IF t \in owned[g] THEN NoGroup ELSE targetGroup[t]]
  /\ owned' = [owned EXCEPT ![g] = {}]
  /\ active' = [active EXCEPT ![g] = NoTarget]
  /\ UNCHANGED <<nextGroupSeq>>

(* The group part of Session.Clear: both maps and the sequence restart.    *)
ClearGroups ==
  /\ groups' = {}
  /\ owned' = [g \in GroupIds |-> {}]
  /\ active' = [g \in GroupIds |-> NoTarget]
  /\ targetGroup' = [t \in Targets |-> NoGroup]
  /\ nextGroupSeq' = 0

TableNext ==
  \/ ClearGroups
  \/ \E g \in GroupIds :
       \/ CreateGroup(g) \/ CloseGroup(g)
       \/ \E t \in Targets \cup {NoTarget} : AdoptToGroup(g, t) \/ SetGroupActive(g, t)

TableSpec == TableInit /\ [][TableNext]_tableVars

-------------------------------------------------------------------------------
TableTypeOK ==
  /\ groups \subseteq GroupIds
  /\ owned \in [GroupIds -> SUBSET Targets]
  /\ active \in [GroupIds -> Targets \cup {NoTarget}]
  /\ targetGroup \in [Targets -> GroupIds \cup {NoGroup}]
  /\ nextGroupSeq \in 0 .. MaxGroups

(* The two records of ownership agree: a tab is in the owned set of exactly*)
(* the group targetGroup names, which is live.  A tab owned twice, or by a *)
(* group that is gone, would make cross_group refuse its own agent or let  *)
(* another in (group.go:64-79, 153-168; session.go:159-160).               *)
OwnershipAgrees ==
  \A g \in GroupIds, t \in Targets :
    t \in owned[g] <=> targetGroup[t] = g /\ g \in groups

LiveOwnersOnly == \A t \in Targets : targetGroup[t] # NoGroup => targetGroup[t] \in groups

(* The tab a group acts on when a call names none is one of its own: losing*)
(* a tab to another group also takes it from the front (group.go:72-74).   *)
ActiveIsOwned == \A g \in groups : active[g] # NoTarget => active[g] \in owned[g]

(* CreateGroup never lands on a group that is still live.                  *)
LiveIdsBelowSeq == \A g \in groups : g <= nextGroupSeq

(* A dead group has nothing left.                                          *)
DeadGroupsEmpty == \A g \in GroupIds \ groups : owned[g] = {} /\ active[g] = NoTarget

TableInv ==
  /\ TableTypeOK
  /\ OwnershipAgrees
  /\ LiveOwnersOnly
  /\ ActiveIsOwned
  /\ LiveIdsBelowSeq
  /\ DeadGroupsEmpty

(* The table implements the lanes: ownership kept twice behaves as one     *)
(* function from tabs to groups, in every method.                          *)
Lanes == INSTANCE TabLanes WITH live <- groups, lane <- targetGroup, front <- active

ImplementsLanes == Lanes!LanesSpec
===============================================================================
