---------------------------- MODULE AgentTools_proofs ----------------------------
(***************************************************************************)
(* The group table, and the handlers that work on it, for any agents,      *)
(* tabs, groups and connections.                                           *)
(*                                                                         *)
(* The table first: TableInv is inductive as it stands.  Agreement of the  *)
(* two ownership records needs that only live groups own (LiveOwnersOnly)  *)
(* and that dead groups are empty (DeadGroupsEmpty), and CreateGroup needs *)
(* that the id it mints is not live (LiveIdsBelowSeq).  And the table      *)
(* implements the lanes.                                                   *)
(*                                                                         *)
(* Then the handlers: interleaved as they may be, they only ever change    *)
(* the table by its own methods, so everything shown of the table holds of *)
(* the running bridge; and a grouped call drives a tab of its own lane     *)
(* unless it was disturbed.  Their inductive invariant adds to             *)
(* ActsInOwnLane what a call knows between its steps: that a claim has a   *)
(* tab (ClaimHasTab), and that the tab's owner is still the one the check  *)
(* saw (ClaimIsChecked).                                                   *)
(*                                                                         *)
(* Last the active tabs.  That the session's own is lost only in a race is *)
(* about a step, but rests on what the call had seen: ActiveInv says that  *)
(* a call about to clear it knows the tab it saw go, that a tab that went  *)
(* does not come back (ids are never used again), and that a call with a   *)
(* group id never stands where the session's own is changed.               *)
(***************************************************************************)
EXTENDS AgentTools, TLAPS

(* What adoptLocked does to the table when it does something: the shared   *)
(* part of AdoptToGroup and SetGroupActive (group.go:64-79).               *)
LEMMA AdoptKeepsOwnership ==
  ASSUME TableInv,
         NEW g \in groups, NEW t \in Targets,
         owned' = OwnedAfterAdopt(g, t),
         targetGroup' = [targetGroup EXCEPT ![t] = g],
         groups' = groups, nextGroupSeq' = nextGroupSeq
  PROVE  OwnershipAgrees' /\ LiveOwnersOnly' /\ LiveIdsBelowSeq'
<1>1. OwnershipAgrees'
  BY DEF TableInv, TableTypeOK, OwnershipAgrees, LiveOwnersOnly, OwnedAfterAdopt, Loses
<1>2. LiveOwnersOnly'
  BY DEF TableInv, TableTypeOK, LiveOwnersOnly
<1>3. LiveIdsBelowSeq'
  BY DEF TableInv, LiveIdsBelowSeq
<1>4. QED
  BY <1>1, <1>2, <1>3

LEMMA InitTableInv == TableInit => TableInv
<1>1. 0 \in 0 .. MaxGroups
  BY GroupTableAssumption
<1>2. QED
  BY <1>1, GroupTableAssumption
  DEF TableInit, TableInv, TableTypeOK, OwnershipAgrees, LiveOwnersOnly, ActiveIsOwned,
      LiveIdsBelowSeq, DeadGroupsEmpty, GroupIds

LEMMA CreateKeepsTableInv ==
  ASSUME TableInv, NEW g \in GroupIds, CreateGroup(g)
  PROVE  TableInv'
<1>1. g \notin groups /\ nextGroupSeq \in Nat /\ g = nextGroupSeq + 1 /\ nextGroupSeq < MaxGroups
  BY DEF TableInv, TableTypeOK, LiveIdsBelowSeq, CreateGroup, GroupIds
<1>2. owned' = owned /\ active' = active
  BY <1>1 DEF TableInv, TableTypeOK, DeadGroupsEmpty, CreateGroup
<1>3. TableTypeOK'
  BY <1>1, <1>2, GroupTableAssumption DEF TableInv, TableTypeOK, CreateGroup
<1>4. OwnershipAgrees' /\ LiveOwnersOnly'
  <2>1. targetGroup' = targetGroup /\ groups' = groups \cup {g} /\ owned[g] = {}
    BY <1>1 DEF TableInv, DeadGroupsEmpty, CreateGroup
  <2>2. g # NoGroup
    BY GroupTableAssumption DEF GroupIds
  <2>3. LiveOwnersOnly'
    BY <2>1 DEF TableInv, LiveOwnersOnly
  <2>4. \A t \in Targets : targetGroup[t] # g
    BY <1>1, <2>2 DEF TableInv, LiveOwnersOnly
  <2>5. OwnershipAgrees'
    BY <1>2, <2>1, <2>4 DEF TableInv, OwnershipAgrees
  <2>6. QED
    BY <2>3, <2>5
<1>5. ActiveIsOwned' /\ DeadGroupsEmpty'
  BY <1>1, <1>2 DEF TableInv, ActiveIsOwned, DeadGroupsEmpty, CreateGroup
<1>6. LiveIdsBelowSeq'
  BY <1>1 DEF TableInv, TableTypeOK, LiveIdsBelowSeq, CreateGroup, GroupIds
<1>7. QED
  BY <1>3, <1>4, <1>5, <1>6 DEF TableInv

LEMMA AdoptKeepsTableInv ==
  ASSUME TableInv, NEW g \in GroupIds, NEW t \in Targets \cup {NoTarget}, AdoptToGroup(g, t)
  PROVE  TableInv'
<1>1. CASE ~(t # NoTarget /\ g \in groups)
  <2>1. UNCHANGED tableVars
    BY <1>1 DEF AdoptToGroup
  <2>2. QED
    BY <2>1 DEF tableVars, TableInv, TableTypeOK, OwnershipAgrees, LiveOwnersOnly,
                ActiveIsOwned, LiveIdsBelowSeq, DeadGroupsEmpty
<1>2. CASE t # NoTarget /\ g \in groups
  <2>0. t \in Targets /\ g \in groups
    BY <1>2
  <2>1. /\ owned' = OwnedAfterAdopt(g, t)
        /\ active' = ActiveAfterAdopt(g, t)
        /\ targetGroup' = [targetGroup EXCEPT ![t] = g]
        /\ groups' = groups /\ nextGroupSeq' = nextGroupSeq
    BY <1>2 DEF AdoptToGroup
  <2>2. OwnershipAgrees' /\ LiveOwnersOnly' /\ LiveIdsBelowSeq'
    BY <2>0, <2>1, AdoptKeepsOwnership
  <2>3. TableTypeOK'
    BY <2>0, <2>1 DEF TableInv, TableTypeOK, OwnedAfterAdopt, ActiveAfterAdopt
  <2>4. ActiveIsOwned'
    BY <2>0, <2>1 DEF TableInv, TableTypeOK, ActiveIsOwned, OwnershipAgrees, OwnedAfterAdopt,
                      ActiveAfterAdopt, Loses
  <2>5. DeadGroupsEmpty'
    BY <2>0, <2>1 DEF TableInv, TableTypeOK, DeadGroupsEmpty, OwnedAfterAdopt,
                      ActiveAfterAdopt, Loses
  <2>6. QED
    BY <2>2, <2>3, <2>4, <2>5 DEF TableInv
<1>3. QED
  BY <1>1, <1>2

LEMMA SetActiveKeepsTableInv ==
  ASSUME TableInv, NEW g \in GroupIds, NEW t \in Targets \cup {NoTarget}, SetGroupActive(g, t)
  PROVE  TableInv'
<1>1. CASE t = NoTarget
  <2>1. /\ active' = [active EXCEPT ![g] = NoTarget]
        /\ UNCHANGED <<owned, targetGroup, groups, nextGroupSeq>>
    BY <1>1 DEF SetGroupActive
  <2>2. QED
    BY <2>1 DEF TableInv, TableTypeOK, OwnershipAgrees, LiveOwnersOnly, ActiveIsOwned,
                LiveIdsBelowSeq, DeadGroupsEmpty
<1>2. CASE t # NoTarget
  <2>1. t \in Targets /\ g \in groups
    BY <1>2 DEF SetGroupActive
  <2>2. /\ owned' = OwnedAfterAdopt(g, t)
        /\ active' = [ActiveAfterAdopt(g, t) EXCEPT ![g] = t]
        /\ targetGroup' = [targetGroup EXCEPT ![t] = g]
        /\ groups' = groups /\ nextGroupSeq' = nextGroupSeq
    BY <1>2 DEF SetGroupActive
  <2>3. OwnershipAgrees' /\ LiveOwnersOnly' /\ LiveIdsBelowSeq'
    BY <2>1, <2>2, AdoptKeepsOwnership
  <2>4. TableTypeOK'
    BY <2>1, <2>2 DEF TableInv, TableTypeOK, OwnedAfterAdopt, ActiveAfterAdopt
  <2>5. ActiveIsOwned'
    BY <2>1, <2>2 DEF TableInv, TableTypeOK, ActiveIsOwned, OwnershipAgrees, OwnedAfterAdopt,
                      ActiveAfterAdopt, Loses
  <2>6. DeadGroupsEmpty'
    BY <2>1, <2>2 DEF TableInv, TableTypeOK, DeadGroupsEmpty, OwnedAfterAdopt,
                      ActiveAfterAdopt, Loses
  <2>7. QED
    BY <2>3, <2>4, <2>5, <2>6 DEF TableInv
<1>3. QED
  BY <1>1, <1>2

LEMMA CloseKeepsTableInv ==
  ASSUME TableInv, NEW g \in GroupIds, CloseGroup(g)
  PROVE  TableInv'
<1>1. TableTypeOK'
  BY DEF TableInv, TableTypeOK, CloseGroup
<1>2. OwnershipAgrees' /\ LiveOwnersOnly'
  BY GroupTableAssumption
  DEF TableInv, TableTypeOK, OwnershipAgrees, LiveOwnersOnly, CloseGroup, GroupIds
<1>3. ActiveIsOwned' /\ DeadGroupsEmpty'
  BY DEF TableInv, TableTypeOK, ActiveIsOwned, DeadGroupsEmpty, CloseGroup
<1>4. LiveIdsBelowSeq'
  BY DEF TableInv, LiveIdsBelowSeq, CloseGroup
<1>5. QED
  BY <1>1, <1>2, <1>3, <1>4 DEF TableInv

LEMMA ClearKeepsTableInv ==
  ASSUME TableInv, ClearGroups
  PROVE  TableInv'
<1>1. 0 \in 0 .. MaxGroups
  BY GroupTableAssumption
<1>2. QED
  BY <1>1, GroupTableAssumption
  DEF ClearGroups, TableInv, TableTypeOK, OwnershipAgrees, LiveOwnersOnly, ActiveIsOwned,
      LiveIdsBelowSeq, DeadGroupsEmpty, GroupIds

LEMMA TableStepKeepsTableInv ==
  ASSUME TableInv, [TableNext]_tableVars
  PROVE  TableInv'
<1>1. CASE UNCHANGED tableVars
  BY <1>1 DEF tableVars, TableInv, TableTypeOK, OwnershipAgrees, LiveOwnersOnly,
              ActiveIsOwned, LiveIdsBelowSeq, DeadGroupsEmpty
<1>2. CASE ClearGroups
  BY <1>2, ClearKeepsTableInv
<1>3. ASSUME NEW g \in GroupIds, CreateGroup(g) PROVE TableInv'
  BY <1>3, CreateKeepsTableInv
<1>4. ASSUME NEW g \in GroupIds, CloseGroup(g) PROVE TableInv'
  BY <1>4, CloseKeepsTableInv
<1>5. ASSUME NEW g \in GroupIds, NEW t \in Targets \cup {NoTarget}, AdoptToGroup(g, t)
      PROVE  TableInv'
  BY <1>5, AdoptKeepsTableInv
<1>6. ASSUME NEW g \in GroupIds, NEW t \in Targets \cup {NoTarget}, SetGroupActive(g, t)
      PROVE  TableInv'
  BY <1>6, SetActiveKeepsTableInv
<1>7. QED
  BY <1>1, <1>2, <1>3, <1>4, <1>5, <1>6 DEF TableNext

(* In every reachable state the two records of ownership agree, only live  *)
(* groups own tabs, a group's active tab is its own, and no live id is     *)
(* above the sequence number (internal/mcp/group.go, session.go:142-166).  *)
THEOREM TableInvariance == TableSpec => []TableInv
<1>1. TableInit => TableInv
  BY InitTableInv
<1>2. TableInv /\ [TableNext]_tableVars => TableInv'
  BY TableStepKeepsTableInv
<1>3. QED
  BY <1>1, <1>2, PTL DEF TableSpec

(* A tab is in the owned set of exactly the live group that targetGroup    *)
(* names, whatever sequence of methods was called (group.go:64-79).        *)
THEOREM OwnershipAlwaysAgrees == TableSpec => []OwnershipAgrees
<1>1. TableInv => OwnershipAgrees
  BY DEF TableInv
<1>2. QED
  BY <1>1, TableInvariance, PTL

(* The tab a group acts on by default is always one of its own             *)
(* (group.go:72-74, 116-127).                                              *)
THEOREM ActiveAlwaysOwned == TableSpec => []ActiveIsOwned
<1>1. TableInv => ActiveIsOwned
  BY DEF TableInv
<1>2. QED
  BY <1>1, TableInvariance, PTL

-------------------------------------------------------------------------------
(* Every method of the table is one step of the lanes or none: membership  *)
(* kept twice cannot be told from membership kept once.                    *)
LEMMA TableStepIsLaneStep ==
  ASSUME TableInv, TableInv', TableNext
  PROVE  Lanes!LanesNext \/ UNCHANGED Lanes!laneVars
<1> USE DEF Lanes!LanesNext, Lanes!laneVars
<1>1. CASE ClearGroups
  BY <1>1 DEF ClearGroups, Lanes!CloseAll
<1>2. ASSUME NEW g \in GroupIds, CreateGroup(g)
      PROVE  Lanes!Open(g)
  <2>1. g \notin groups
    BY <1>2 DEF TableInv, TableTypeOK, LiveIdsBelowSeq, CreateGroup, GroupIds
  <2>2. QED
    BY <1>2, <2>1 DEF TableInv, TableTypeOK, DeadGroupsEmpty, CreateGroup, Lanes!Open
<1>3. ASSUME NEW g \in GroupIds, CloseGroup(g)
      PROVE  Lanes!Close(g)
  BY <1>3 DEF TableInv, TableTypeOK, OwnershipAgrees, CloseGroup, Lanes!Close
<1>4. ASSUME NEW g \in GroupIds, NEW t \in Targets \cup {NoTarget}, AdoptToGroup(g, t)
      PROVE  (t \in Targets /\ Lanes!Join(g, t)) \/ UNCHANGED Lanes!laneVars
  <2>1. CASE t # NoTarget /\ g \in groups
    <3>1. \A h \in GroupIds : Loses(h, g, t) <=> targetGroup[t] = h /\ h # g
      <4>1. t \in Targets /\ NoGroup \notin GroupIds
        BY <2>1, GroupTableAssumption DEF GroupIds
      <4>2. QED
        BY <4>1 DEF TableInv, LiveOwnersOnly, Loses
    <3>2. active' = [h \in GroupIds |->
                 IF targetGroup[t] = h /\ h # g /\ active[h] = t THEN NoTarget ELSE active[h]]
      BY <1>4, <2>1, <3>1 DEF AdoptToGroup, ActiveAfterAdopt
    <3>3. QED
      BY <1>4, <2>1, <3>2 DEF AdoptToGroup, Lanes!Join
  <2>2. CASE ~(t # NoTarget /\ g \in groups)
    BY <1>4, <2>2 DEF AdoptToGroup, tableVars
  <2>3. QED
    BY <2>1, <2>2
<1>5. ASSUME NEW g \in GroupIds, NEW t \in Targets \cup {NoTarget}, SetGroupActive(g, t)
      PROVE  Lanes!NoFront(g) \/ (t \in Targets /\ Lanes!JoinInFront(g, t))
  <2>1. CASE t = NoTarget
    BY <1>5, <2>1 DEF SetGroupActive, Lanes!NoFront
  <2>2. CASE t # NoTarget
    <3>1. \A h \in GroupIds : Loses(h, g, t) <=> targetGroup[t] = h /\ h # g
      <4>1. t \in Targets /\ NoGroup \notin GroupIds
        BY <2>2, GroupTableAssumption DEF GroupIds
      <4>2. QED
        BY <4>1 DEF TableInv, LiveOwnersOnly, Loses
    <3>2. active' = [h \in GroupIds |->
                 IF h = g THEN t
                 ELSE IF targetGroup[t] = h /\ active[h] = t THEN NoTarget ELSE active[h]]
      BY <1>5, <2>2, <3>1 DEF SetGroupActive, ActiveAfterAdopt
    <3>3. QED
      BY <1>5, <2>2, <3>2 DEF SetGroupActive, Lanes!JoinInFront
  <2>3. QED
    BY <2>1, <2>2
<1>6. QED
  BY <1>1, <1>2, <1>3, <1>4, <1>5 DEF TableNext

(* The table of group.go implements the abstract lanes, for every number   *)
(* of tabs and groups.                                                     *)
THEOREM TableImplementsLanes == TableSpec => ImplementsLanes
<1>1. TableInit => Lanes!LanesInit
  BY DEF TableInit, Lanes!LanesInit
<1>2. TableInv /\ TableInv' /\ [TableNext]_tableVars => [Lanes!LanesNext]_(Lanes!laneVars)
  <2>1. ASSUME TableInv, TableInv', TableNext
        PROVE  [Lanes!LanesNext]_(Lanes!laneVars)
    BY <2>1, TableStepIsLaneStep
  <2>2. ASSUME UNCHANGED tableVars
        PROVE  UNCHANGED Lanes!laneVars
    BY <2>2 DEF tableVars, Lanes!laneVars
  <2>3. QED
    BY <2>1, <2>2
<1>3. QED
  BY <1>1, <1>2, TableInvariance, PTL DEF TableSpec, ImplementsLanes, Lanes!LanesSpec

-------------------------------------------------------------------------------
(* The handlers.                                                           *)

DrivingLabels == {"exists", "stale", "open", "act"}

InLane(a) ==
  pc[a] \in DrivingLabels /\ Grouped(a) /\ ~disturbed[a] =>
    call[a].grp \in groups /\ call[a].tgt \in owned[call[a].grp]

ClaimHasTab(a) == pc[a] \in {"owner", "claim"} => call[a].tgt \in Targets

ClaimIsChecked(a) ==
  pc[a] = "claim" /\ ~disturbed[a] => targetGroup[call[a].tgt] \in {NoGroup, call[a].grp}

LaneInv(a) == InLane(a) /\ ClaimHasTab(a) /\ ClaimIsChecked(a)

AgentTypes ==
  /\ lane \in [Agents -> GroupIds \cup {NoGroup}]
  /\ pc \in [Agents -> Labels]
  /\ call \in [Agents -> CallRecords]
  /\ disturbed \in [Agents -> BOOLEAN]

ClientTypes == lastConn \in 0 .. MaxConns /\ client \in 0 .. lastConn /\ activeTarget \in AnyTarget

ToolsInv == AgentTypes /\ ClientTypes /\ TableInv /\ \A a \in Agents : LaneInv(a)

-------------------------------------------------------------------------------
(* What Become leaves behind.                                              *)
LEMMA BecomeTypes ==
  ASSUME AgentTypes, lane' \in [Agents -> GroupIds \cup {NoGroup}],
         NEW a \in Agents, NEW l \in Labels, NEW c \in CallRecords, NEW own \in BOOLEAN,
         Become(a, l, c, own)
  PROVE  /\ AgentTypes'
         /\ pc'[a] = l /\ call'[a] = c /\ disturbed'[a] = own
         /\ \A b \in Agents \ {a} :
              /\ pc'[b] = pc[b] /\ call'[b] = call[b]
              /\ disturbed'[b] <=> pc[b] # "idle" /\ (disturbed[b] \/ Upset(b))
<1>1. pc' \in [Agents -> Labels] /\ call' \in [Agents -> CallRecords]
  BY DEF AgentTypes, Become
<1>2. disturbed' \in [Agents -> BOOLEAN]
  <2>1. disturbed' = [b \in Agents |->
          IF b = a THEN own ELSE pc[b] # "idle" /\ (disturbed[b] \/ Upset(b))]
    BY DEF Become
  <2>2. \A b \in Agents :
          (IF b = a THEN own ELSE pc[b] # "idle" /\ (disturbed[b] \/ Upset(b))) \in BOOLEAN
    BY DEF AgentTypes, Upset
  <2>3. QED
    BY <2>1, <2>2, Zenon
<1>3. pc'[a] = l /\ call'[a] = c /\ disturbed'[a] = own
  BY DEF AgentTypes, Become
<1>4. \A b \in Agents \ {a} :
        /\ pc'[b] = pc[b] /\ call'[b] = call[b]
        /\ disturbed'[b] <=> pc[b] # "idle" /\ (disturbed[b] \/ Upset(b))
  BY DEF AgentTypes, Become
<1>5. QED
  BY <1>1, <1>2, <1>3, <1>4 DEF AgentTypes

(* A step of one agent leaves another's call in its lane or disturbs it.   *)
LEMMA OthersKeepTheirLane ==
  ASSUME AgentTypes, TableInv, TableInv', NEW b \in Agents, LaneInv(b),
         pc'[b] = pc[b], call'[b] = call[b],
         disturbed'[b] <=> pc[b] # "idle" /\ (disturbed[b] \/ Upset(b))
  PROVE  LaneInv(b)'
<1>1. ClaimHasTab(b)'
  BY DEF LaneInv, ClaimHasTab
<1>2. ASSUME pc[b] \in DrivingLabels \cup {"claim"}, ~disturbed'[b]
      PROVE  ~disturbed[b] /\ ~Upset(b)
  BY <1>2 DEF DrivingLabels
<1>3. ASSUME pc[b] = "claim", ~disturbed'[b]
      PROVE  targetGroup'[call[b].tgt] \in {NoGroup, call[b].grp}
  <2>1. call[b].tgt \in Targets
    BY <1>3 DEF LaneInv, ClaimHasTab
  <2>2. call[b].tgt # NoTarget
    BY <2>1, GroupTableAssumption
  <2>3. targetGroup'[call[b].tgt] = targetGroup[call[b].tgt]
    BY <1>2, <1>3, <2>2 DEF Upset
  <2>4. QED
    BY <1>2, <1>3, <2>3 DEF LaneInv, ClaimIsChecked
<1>4. ASSUME pc[b] \in DrivingLabels, Grouped(b), ~disturbed'[b]
      PROVE  call[b].grp \in groups' /\ call[b].tgt \in owned'[call[b].grp]
  <2>1. call[b].grp \in groups /\ call[b].tgt \in owned[call[b].grp]
    BY <1>2, <1>4 DEF LaneInv, InLane
  <2>2. call[b].grp \in groups' /\ call[b].grp \in GroupIds
    BY <1>2, <1>4, <2>1 DEF Upset, TableInv, TableTypeOK
  <2>3. call[b].tgt \in Targets /\ targetGroup[call[b].tgt] = call[b].grp
    BY <2>1, <2>2 DEF TableInv, TableTypeOK, OwnershipAgrees
  <2>4. targetGroup'[call[b].tgt] = call[b].grp
    BY <1>2, <1>4, <2>3, GroupTableAssumption DEF Upset
  <2>5. QED
    BY <2>2, <2>3, <2>4 DEF TableInv, OwnershipAgrees
<1>5. InLane(b)'
  BY <1>4 DEF InLane, Grouped
<1>6. ClaimIsChecked(b)'
  BY <1>3 DEF ClaimIsChecked
<1>7. QED
  BY <1>1, <1>5, <1>6 DEF LaneInv

(* The agent that steps: it keeps LaneInv if the label it goes to demands  *)
(* nothing, or what it demands holds.                                      *)
LEMMA StepKeepsLanes ==
  ASSUME AgentTypes, TableInv, TableInv', \A x \in Agents : LaneInv(x),
         lane' \in [Agents -> GroupIds \cup {NoGroup}],
         NEW a \in Agents, NEW l \in Labels, NEW c \in CallRecords, NEW own \in BOOLEAN,
         Become(a, l, c, own),
         l \in DrivingLabels /\ c.grp # NoGroup /\ ~own => c.grp \in groups' /\ c.tgt \in owned'[c.grp],
         l \in {"owner", "claim"} => c.tgt \in Targets,
         l = "claim" /\ ~own => targetGroup'[c.tgt] \in {NoGroup, c.grp}
  PROVE  AgentTypes' /\ \A x \in Agents : LaneInv(x)'
<1>1. /\ AgentTypes'
      /\ pc'[a] = l /\ call'[a] = c /\ disturbed'[a] = own
      /\ \A b \in Agents \ {a} :
           /\ pc'[b] = pc[b] /\ call'[b] = call[b]
           /\ disturbed'[b] <=> pc[b] # "idle" /\ (disturbed[b] \/ Upset(b))
  BY BecomeTypes
<1>2. LaneInv(a)'
  BY <1>1 DEF LaneInv, InLane, ClaimHasTab, ClaimIsChecked, Grouped
<1>3. ASSUME NEW b \in Agents \ {a} PROVE LaneInv(b)'
  BY <1>1, <1>3, OthersKeepTheirLane
<1>4. QED
  BY <1>1, <1>2, <1>3

LEMMA NoCallTypes ==
  /\ NoCall \in CallRecords /\ NoCall.grp = NoGroup /\ NoCall.tgt = NoTarget
  /\ "idle" \in Labels
BY AgentToolsAssumption DEF NoCall, CallRecords, AnyTarget, NoConn, Labels

(* Labels that demand nothing of the call.                                 *)
LEMMA QuietStepKeepsLanes ==
  ASSUME AgentTypes, TableInv, TableInv', \A x \in Agents : LaneInv(x),
         lane' \in [Agents -> GroupIds \cup {NoGroup}],
         NEW a \in Agents, NEW l \in Labels, NEW c \in CallRecords, NEW own \in BOOLEAN,
         Become(a, l, c, own),
         l \notin {"owner", "claim"}, l \in DrivingLabels => c.grp = NoGroup
  PROVE  AgentTypes' /\ \A x \in Agents : LaneInv(x)'
BY StepKeepsLanes

LEMMA ReturnKeepsLanes ==
  ASSUME AgentTypes, TableInv, TableInv', \A x \in Agents : LaneInv(x),
         lane' \in [Agents -> GroupIds \cup {NoGroup}],
         NEW a \in Agents, Return(a)
  PROVE  AgentTypes' /\ \A x \in Agents : LaneInv(x)'
<1>1. Become(a, "idle", NoCall, FALSE)
  BY DEF Return
<1>2. "idle" \notin DrivingLabels \cup {"owner", "claim"}
  BY DEF DrivingLabels
<1>3. QED
  BY <1>1, <1>2, NoCallTypes, QuietStepKeepsLanes

-------------------------------------------------------------------------------
(* Every step of a handler is a method of the table or leaves it alone.    *)
LEMMA StepUsesTable ==
  ASSUME ToolsInv, Next
  PROVE  TableNext \/ UNCHANGED tableVars
<1>1. ASSUME NEW g \in groups, NEW t \in AnyTarget, AdoptToGroup(g, t) \/ SetGroupActive(g, t)
      PROVE  TableNext
  BY <1>1 DEF TableNext, AnyTarget, ToolsInv, TableInv, TableTypeOK
<1>2. ASSUME NEW a \in Agents PROVE call[a].tgt \in AnyTarget
  BY <1>2 DEF ToolsInv, AgentTypes, CallRecords
<1>3. ASSUME NEW a \in Agents, TabStep(a) PROVE TableNext \/ UNCHANGED tableVars
  <2>1. ASSUME NEW b \in BOOLEAN, CreateLane(a, b) PROVE TableNext
    BY <2>1 DEF CreateLane, TableNext
  <2>2. CASE Register(a)
    <3>1. (Grouped(a) /\ SetGroupActive(call[a].grp, call[a].tgt)) \/ UNCHANGED tableVars
      BY <2>2 DEF Register
    <3>2. CASE Grouped(a) /\ SetGroupActive(call[a].grp, call[a].tgt)
      BY <1>1, <1>2, <3>2 DEF SetGroupActive
    <3>3. QED
      BY <3>1, <3>2
  <2>3. CASE ReadClient(a) \/ NewTab(a) \/ CheckGroup(a) \/ CreateTarget(a)
    BY <2>3 DEF ReadClient, NewTab, CheckGroup, CreateTarget, OnlyTheCall, TableStays
  <2>4. CASE \/ Activate(a) \/ MakeActive(a) \/ TakeActive(a) \/ CloseTarget(a) \/ IsActive(a)
             \/ ClearActive(a) \/ ForgetTab(a)
    BY <2>4 DEF Activate, MakeActive, TakeActive, CloseTarget, IsActive, ClearActive, ForgetTab,
                OnlyTheCall, TableStays
  <2>5. CASE \/ \E t \in Targets : SelectTab(a, t)
             \/ \E t \in AnyTarget : CloseTab(a, t)
    BY <2>5 DEF SelectTab, CloseTab, OnlyTheCall, TableStays
  <2>6. QED
    BY <1>3, <2>1, <2>2, <2>3, <2>4, <2>5 DEF TabStep
<1>4. ASSUME NEW a \in Agents, LaneStep(a) PROVE TableNext \/ UNCHANGED tableVars
  <2>1. ASSUME NEW b \in BOOLEAN, CloseLane(a, b) PROVE TableNext
    <3>1. lane[a] \in groups /\ CloseGroup(lane[a])
      BY <2>1 DEF CloseLane
    <3>2. QED
      BY <3>1 DEF TableNext, ToolsInv, TableInv, TableTypeOK
  <2>2. CASE EachTab(a) \/ LaneClosed(a)
    BY <2>2 DEF EachTab, LaneClosed, OnlyTheCall, TableStays
  <2>3. QED
    BY <1>4, <2>1, <2>2 DEF LaneStep
<1>5. ASSUME NEW a \in Agents, PageStep(a) PROVE TableNext \/ UNCHANGED tableVars
  <2>1. CASE Claim(a)
    <3>1. AdoptToGroup(call[a].grp, call[a].tgt)
      BY <2>1 DEF Claim
    <3>2. CASE call[a].grp \in groups
      BY <1>1, <1>2, <3>1, <3>2
    <3>3. CASE call[a].grp \notin groups
      BY <3>1, <3>3 DEF AdoptToGroup
    <3>4. QED
      BY <3>2, <3>3
  <2>2. CASE ClearStale(a)
    <3>1. (Grouped(a) /\ SetGroupActive(call[a].grp, NoTarget)) \/ UNCHANGED tableVars
      BY <2>2 DEF ClearStale
    <3>2. CASE Grouped(a) /\ SetGroupActive(call[a].grp, NoTarget)
      <4>1. NoTarget \in AnyTarget
        BY DEF AnyTarget
      <4>2. QED
        BY <1>1, <3>2, <4>1 DEF SetGroupActive
    <3>3. QED
      BY <3>1, <3>2
  <2>3. CASE \E t \in AnyTarget, nav \in BOOLEAN : LegacyPageTool(a, t, nav) \/ GroupPageTool(a, t, nav)
    BY <2>3 DEF LegacyPageTool, GroupPageTool, OnlyTheCall, TableStays
  <2>4. CASE \/ LookupActive(a) \/ CheckOwner(a) \/ CheckTarget(a) \/ OpenPage(a) \/ Finish(a)
             \/ Fail(a)
    BY <2>4 DEF LookupActive, CheckOwner, CheckTarget, OpenPage, Finish, Fail, OnlyTheCall,
                TableStays
  <2>5. QED
    BY <1>5, <2>1, <2>2, <2>3, <2>4 DEF PageStep
<1>6. ASSUME NEW a \in Agents, Attach(a) \/ Detach(a) PROVE TableNext \/ UNCHANGED tableVars
  BY <1>6 DEF Attach, Detach, TableNext, TableStays
<1>7. CASE \/ \E t \in Targets : UserOpensTab(t) \/ UserClosesTab(t) \/ ReapPage(t)
           \/ \E n \in Conns : ConnDrops(n)
  BY <1>7 DEF UserOpensTab, UserClosesTab, ReapPage, ConnDrops, World, TableStays
<1>8. QED
  BY <1>3, <1>4, <1>5, <1>6, <1>7 DEF Next

-------------------------------------------------------------------------------
(* The invariant is inductive: one lemma per group of handlers.            *)

LEMMA ConnTypes ==
  ASSUME ClientTypes
  PROVE  client \in Conns \cup {NoConn}
BY AgentToolsAssumption DEF ClientTypes, Conns, NoConn

LEMMA TabStepKeepsToolsInv ==
  ASSUME ToolsInv, TableInv', NEW a \in Agents, TabStep(a)
  PROVE  ToolsInv'
<1> DEFINE C == call[a]
<1>0. /\ AgentTypes /\ ClientTypes /\ TableInv /\ \A x \in Agents : LaneInv(x)
      /\ C \in CallRecords /\ C.tgt \in AnyTarget /\ lane \in [Agents -> GroupIds \cup {NoGroup}]
      /\ client \in Conns \cup {NoConn} /\ disturbed[a] \in BOOLEAN /\ activeTarget \in AnyTarget
      /\ lane[a] \in GroupIds \cup {NoGroup}
  BY ConnTypes DEF ToolsInv, AgentTypes, ClientTypes, CallRecords
<1>l. lane' = lane => lane' \in [Agents -> GroupIds \cup {NoGroup}]
  BY <1>0
<1>q. ASSUME lane' \in [Agents -> GroupIds \cup {NoGroup}],
             NEW l \in Labels \ (DrivingLabels \cup {"owner", "claim"}),
             NEW c \in CallRecords, NEW own \in BOOLEAN, Become(a, l, c, own)
      PROVE  AgentTypes' /\ \A x \in Agents : LaneInv(x)'
  BY <1>0, <1>q, QuietStepKeepsLanes
<1>r. ASSUME lane' \in [Agents -> GroupIds \cup {NoGroup}], Return(a)
      PROVE  AgentTypes' /\ \A x \in Agents : LaneInv(x)'
  BY <1>0, <1>r, ReturnKeepsLanes
<1>g. ASSUME lane' \in [Agents -> GroupIds \cup {NoGroup}],
             NEW l \in Labels \ (DrivingLabels \cup {"owner", "claim"}), Goto(a, l)
      PROVE  AgentTypes' /\ \A x \in Agents : LaneInv(x)'
  BY <1>0, <1>q, <1>g DEF Goto
<1>k. ASSUME lane' \in [Agents -> GroupIds \cup {NoGroup}],
             NEW l \in Labels \ (DrivingLabels \cup {"owner", "claim"}), NEW c \in CallRecords,
             Look(a, l, c)
      PROVE  AgentTypes' /\ \A x \in Agents : LaneInv(x)'
  BY <1>q, <1>k DEF Look
<1>L. {"dial", "create", "each", "check", "register", "activate", "select", "which",
       "close", "closed", "clear", "release", "ungrouped"}
        \subseteq Labels \ (DrivingLabels \cup {"owner", "claim"})
  BY DEF Labels, DrivingLabels
<1>s. SessionStays => ClientTypes'
  BY <1>0 DEF SessionStays, ClientTypes
<1>u. UNCHANGED <<client, lastConn, openConns>> /\ activeTarget' \in AnyTarget => ClientTypes'
  BY <1>0 DEF ClientTypes
<1> HIDE DEF C
<1>1. ASSUME NEW openTab \in BOOLEAN, CreateLane(a, openTab) PROVE ToolsInv'
  <2>1. PICK g \in GroupIds :
          /\ lane' = [lane EXCEPT ![a] = g]
          /\ SessionStays
          /\ IF openTab THEN Look(a, "dial", [NoCall EXCEPT !.grp = g]) ELSE Return(a)
    BY <1>1 DEF CreateLane
  <2>2. lane' \in [Agents -> GroupIds \cup {NoGroup}]
    BY <1>0, <2>1
  <2>3. [NoCall EXCEPT !.grp = g] \in CallRecords
    BY NoCallTypes DEF CallRecords
  <2>4. AgentTypes' /\ \A x \in Agents : LaneInv(x)'
    BY <1>k, <1>r, <1>L, <2>1, <2>2, <2>3
  <2>5. QED
    BY <1>s, <2>1, <2>4 DEF ToolsInv
<1>2. CASE ReadClient(a)
  <2>1. lane' = lane /\ SessionStays
    BY <1>2 DEF ReadClient, OnlyTheCall, TableStays
  <2>2. \/ Return(a)
        \/ Look(a, "create", [C EXCEPT !.conn = client])
        \/ Look(a, "each", [C EXCEPT !.conn = client])
    BY <1>2 DEF ReadClient, C
  <2>3. [C EXCEPT !.conn = client] \in CallRecords
    BY <1>0 DEF CallRecords
  <2>4. AgentTypes' /\ \A x \in Agents : LaneInv(x)'
    BY <1>k, <1>r, <1>l, <1>L, <2>1, <2>2, <2>3
  <2>5. QED
    BY <1>s, <2>1, <2>4 DEF ToolsInv
<1>3. CASE NewTab(a)
  <2>1. lane' = lane /\ SessionStays
    BY <1>3 DEF NewTab, OnlyTheCall, TableStays
  <2>2. PICK l \in {"create", "check"} : Look(a, l, [NoCall EXCEPT !.grp = lane[a], !.conn = client])
    BY <1>3 DEF NewTab
  <2>3. [NoCall EXCEPT !.grp = lane[a], !.conn = client] \in CallRecords
    BY <1>0, NoCallTypes DEF CallRecords
  <2>4. AgentTypes' /\ \A x \in Agents : LaneInv(x)'
    BY <1>k, <1>l, <1>L, <2>1, <2>2, <2>3
  <2>5. QED
    BY <1>s, <2>1, <2>4 DEF ToolsInv
<1>4. CASE CheckGroup(a)
  <2>1. lane' = lane /\ SessionStays /\ (Return(a) \/ Look(a, "create", C))
    BY <1>4 DEF CheckGroup, OnlyTheCall, TableStays, C
  <2>2. AgentTypes' /\ \A x \in Agents : LaneInv(x)'
    BY <1>0, <1>k, <1>r, <1>l, <1>L, <2>1
  <2>3. QED
    BY <1>s, <2>1, <2>2 DEF ToolsInv
<1>5. CASE CreateTarget(a)
  <2>1. lane' = lane /\ SessionStays
    BY <1>5 DEF CreateTarget, TableStays
  <2>2. PICK t \in Targets : Become(a, "register", [C EXCEPT !.tgt = t], disturbed[a])
    BY <1>5 DEF CreateTarget, C
  <2>3. [C EXCEPT !.tgt = t] \in CallRecords
    BY <1>0 DEF CallRecords, AnyTarget
  <2>4. AgentTypes' /\ \A x \in Agents : LaneInv(x)'
    BY <1>0, <1>q, <1>l, <1>L, <2>1, <2>2, <2>3
  <2>5. QED
    BY <1>s, <2>1, <2>4 DEF ToolsInv
<1>6. CASE Register(a)
  <2>1. /\ lane' = lane /\ UNCHANGED <<client, lastConn, openConns>> /\ Return(a)
        /\ activeTarget' \in {activeTarget, C.tgt}
    BY <1>6 DEF Register, C
  <2>2. ClientTypes'
    BY <1>0, <1>u, <2>1
  <2>3. AgentTypes' /\ \A x \in Agents : LaneInv(x)'
    BY <1>r, <1>l, <2>1
  <2>4. QED
    BY <2>2, <2>3 DEF ToolsInv
<1>7. CASE ForgetTab(a)
  <2>1. lane' = lane /\ SessionStays /\ Return(a)
    BY <1>7 DEF ForgetTab, TableStays
  <2>2. QED
    BY <1>s, <1>r, <1>l, <2>1 DEF ToolsInv
<1>8. CASE Activate(a) \/ CloseTarget(a)
  <2>1. lane' = lane /\ SessionStays /\ (Goto(a, "select") \/ Goto(a, "closed"))
    BY <1>8 DEF Activate, CloseTarget, OnlyTheCall, TableStays
  <2>2. AgentTypes' /\ \A x \in Agents : LaneInv(x)'
    BY <1>g, <1>l, <1>L, <2>1
  <2>3. QED
    BY <1>s, <2>1, <2>2 DEF ToolsInv
<1>9. CASE MakeActive(a) \/ ClearActive(a)
  <2>1. /\ lane' = lane /\ UNCHANGED <<client, lastConn, openConns>>
        /\ activeTarget' \in {NoTarget, C.tgt} /\ (Return(a) \/ Goto(a, "release"))
    BY <1>9 DEF MakeActive, ClearActive, TableStays, C
  <2>2. ClientTypes'
    BY <1>0, <1>u, <2>1 DEF AnyTarget
  <2>3. AgentTypes' /\ \A x \in Agents : LaneInv(x)'
    BY <1>g, <1>r, <1>l, <1>L, <2>1
  <2>4. QED
    BY <2>2, <2>3 DEF ToolsInv
<1>10. CASE TakeActive(a)
  <2>1. /\ lane' = lane /\ SessionStays
        /\ Return(a) \/ Look(a, "close", [C EXCEPT !.tgt = activeTarget])
    BY <1>10 DEF TakeActive, OnlyTheCall, TableStays, C
  <2>2. [C EXCEPT !.tgt = activeTarget] \in CallRecords
    BY <1>0 DEF CallRecords
  <2>3. AgentTypes' /\ \A x \in Agents : LaneInv(x)'
    BY <1>k, <1>r, <1>l, <1>L, <2>1, <2>2
  <2>4. QED
    BY <1>s, <2>1, <2>3 DEF ToolsInv
<1>11. CASE IsActive(a)
  <2>1. lane' = lane /\ SessionStays /\ \E l \in {"clear", "release"} : Look(a, l, C)
    BY <1>11 DEF IsActive, OnlyTheCall, TableStays, C
  <2>2. AgentTypes' /\ \A x \in Agents : LaneInv(x)'
    BY <1>0, <1>k, <1>l, <1>L, <2>1
  <2>3. QED
    BY <1>s, <2>1, <2>2 DEF ToolsInv
<1>12. ASSUME NEW t \in AnyTarget, SelectTab(a, t) \/ CloseTab(a, t) PROVE ToolsInv'
  <2>1. /\ lane' = lane /\ SessionStays
        /\ \E l \in {"activate", "which", "close"} :
             Look(a, l, [NoCall EXCEPT !.tgt = t, !.conn = client])
    BY <1>12 DEF SelectTab, CloseTab, OnlyTheCall, TableStays
  <2>2. [NoCall EXCEPT !.tgt = t, !.conn = client] \in CallRecords
    BY <1>0, NoCallTypes DEF CallRecords
  <2>3. AgentTypes' /\ \A x \in Agents : LaneInv(x)'
    BY <1>k, <1>l, <1>L, <2>1, <2>2
  <2>4. QED
    BY <1>s, <2>1, <2>3 DEF ToolsInv
<1>13. QED
  <2>1. \A t \in Targets : t \in AnyTarget
    BY DEF AnyTarget
  <2>2. QED
    BY <1>1, <1>2, <1>3, <1>4, <1>5, <1>6, <1>7, <1>8, <1>9, <1>10, <1>11, <1>12, <2>1
    DEF TabStep

LEMMA LaneStepKeepsToolsInv ==
  ASSUME ToolsInv, TableInv', NEW a \in Agents, LaneStep(a)
  PROVE  ToolsInv'
<1>0. /\ AgentTypes /\ ClientTypes /\ TableInv /\ \A x \in Agents : LaneInv(x)
      /\ call[a] \in CallRecords /\ lane \in [Agents -> GroupIds \cup {NoGroup}]
  BY DEF ToolsInv, AgentTypes
<1>k. ASSUME lane' = lane, NEW l \in {"ungrouped", "each"}, NEW c \in CallRecords, Look(a, l, c)
      PROVE  AgentTypes' /\ \A x \in Agents : LaneInv(x)'
  <2>1. l \in Labels /\ l \notin DrivingLabels \cup {"owner", "claim"} /\ Become(a, l, c, FALSE)
    BY <1>k DEF Labels, DrivingLabels, Look
  <2>2. QED
    BY <1>0, <1>k, <2>1, QuietStepKeepsLanes
<1>r. ASSUME lane' = lane, Return(a)
      PROVE  AgentTypes' /\ \A x \in Agents : LaneInv(x)'
  BY <1>0, <1>r, ReturnKeepsLanes
<1>s. SessionStays => ClientTypes'
  BY <1>0 DEF SessionStays, ClientTypes
<1>1. ASSUME NEW closeTabs \in BOOLEAN, CloseLane(a, closeTabs) PROVE ToolsInv'
  <2>1. /\ lane[a] \in groups /\ lane' = lane /\ SessionStays
        /\ Look(a, "ungrouped", [NoCall EXCEPT !.nav = closeTabs, !.todo = owned[lane[a]]])
    BY <1>1 DEF CloseLane
  <2>2. owned[lane[a]] \in SUBSET Targets
    BY <1>0, <2>1 DEF TableInv, TableTypeOK
  <2>3. [NoCall EXCEPT !.nav = closeTabs, !.todo = owned[lane[a]]] \in CallRecords
    BY <2>2, NoCallTypes DEF CallRecords
  <2>4. QED
    BY <1>0, <1>k, <1>s, <2>1, <2>3 DEF ToolsInv
<1>2. CASE EachTab(a)
  <2>1. /\ lane' = lane /\ SessionStays
        /\ \E t \in call[a].todo : Look(a, "each", [call[a] EXCEPT !.todo = @ \ {t}])
    BY <1>2 DEF EachTab, TableStays
  <2>2. \A t \in call[a].todo : [call[a] EXCEPT !.todo = @ \ {t}] \in CallRecords
    BY <1>0 DEF CallRecords
  <2>3. QED
    BY <1>0, <1>k, <1>s, <2>1, <2>2 DEF ToolsInv
<1>3. CASE LaneClosed(a)
  BY <1>0, <1>r, <1>s, <1>3 DEF LaneClosed, OnlyTheCall, TableStays, ToolsInv
<1>4. QED
  BY <1>1, <1>2, <1>3 DEF LaneStep

LEMMA PageStepKeepsToolsInv ==
  ASSUME ToolsInv, TableInv', NEW a \in Agents, PageStep(a)
  PROVE  ToolsInv'
<1> DEFINE C == call[a]
<1>0. /\ AgentTypes /\ ClientTypes /\ TableInv /\ \A x \in Agents : LaneInv(x)
      /\ C \in CallRecords /\ C.tgt \in AnyTarget /\ lane \in [Agents -> GroupIds \cup {NoGroup}]
      /\ disturbed[a] \in BOOLEAN /\ activeTarget \in AnyTarget /\ pc[a] \in Labels
      /\ lane[a] \in GroupIds \cup {NoGroup} /\ C.nav \in BOOLEAN
  BY DEF ToolsInv, AgentTypes, ClientTypes, CallRecords
<1>r. ASSUME lane' = lane, Return(a)
      PROVE  AgentTypes' /\ \A x \in Agents : LaneInv(x)'
  BY <1>0, <1>r, ReturnKeepsLanes
<1>b. ASSUME lane' = lane, NEW l \in Labels, NEW c \in CallRecords, NEW own \in BOOLEAN,
             Become(a, l, c, own),
             l \in DrivingLabels /\ c.grp # NoGroup /\ ~own =>
               c.grp \in groups' /\ c.tgt \in owned'[c.grp],
             l \in {"owner", "claim"} => c.tgt \in Targets,
             l = "claim" /\ ~own => targetGroup'[c.tgt] \in {NoGroup, c.grp}
      PROVE  AgentTypes' /\ \A x \in Agents : LaneInv(x)'
  BY <1>0, <1>b, StepKeepsLanes
<1>L. /\ {"exists", "open", "stale", "act", "claim", "lookup", "owner"} \subseteq Labels
      /\ "claim" \notin DrivingLabels /\ "lookup" \notin DrivingLabels /\ "owner" \notin DrivingLabels
      /\ \A l \in DrivingLabels : l \in Labels /\ l \notin {"owner", "claim"}
      /\ Resolved(a) \in DrivingLabels
  BY DEF Labels, DrivingLabels, Resolved
<1>s. SessionStays => ClientTypes'
  BY <1>0 DEF SessionStays, ClientTypes
<1>n. TableStays => groups' = groups /\ owned' = owned /\ targetGroup' = targetGroup /\ lane' = lane
  BY DEF TableStays, tableVars
<1> HIDE DEF C
<1>1. ASSUME NEW t \in AnyTarget, NEW nav \in BOOLEAN, LegacyPageTool(a, t, nav) PROVE ToolsInv'
  <2>1. TableStays /\ SessionStays
    BY <1>1 DEF LegacyPageTool, OnlyTheCall
  <2>2. PICK l \in {"exists", "open"}, tid \in AnyTarget :
          Look(a, l, [NoCall EXCEPT !.tgt = tid, !.given = (t # NoTarget), !.nav = nav])
    BY <1>0, <1>1 DEF LegacyPageTool
  <2>3. /\ [NoCall EXCEPT !.tgt = tid, !.given = (t # NoTarget), !.nav = nav] \in CallRecords
        /\ [NoCall EXCEPT !.tgt = tid, !.given = (t # NoTarget), !.nav = nav].grp = NoGroup
    BY NoCallTypes DEF CallRecords
  <2>4. AgentTypes' /\ \A x \in Agents : LaneInv(x)'
    BY <1>b, <1>n, <1>L, <2>1, <2>2, <2>3 DEF Look
  <2>5. QED
    BY <1>s, <2>1, <2>4 DEF ToolsInv
<1>2. ASSUME NEW t \in AnyTarget, NEW nav \in BOOLEAN, GroupPageTool(a, t, nav) PROVE ToolsInv'
  <2>1. TableStays /\ SessionStays
    BY <1>2 DEF GroupPageTool, OnlyTheCall
  <2> DEFINE c == [NoCall EXCEPT !.grp = lane[a], !.tgt = t, !.given = (t # NoTarget), !.nav = nav]
  <2>2. Look(a, IF t = NoTarget THEN "lookup" ELSE "owner", c)
    BY <1>2 DEF GroupPageTool
  <2>3. c \in CallRecords /\ c.tgt = t
    BY <1>0, NoCallTypes DEF CallRecords
  <2>4. t # NoTarget => t \in Targets
    BY DEF AnyTarget
  <2> HIDE DEF c
  <2>5. AgentTypes' /\ \A x \in Agents : LaneInv(x)'
    BY <1>b, <1>n, <1>L, <2>1, <2>2, <2>3, <2>4 DEF Look
  <2>6. QED
    BY <1>s, <2>1, <2>5 DEF ToolsInv
<1>3. CASE LookupActive(a)
  <2>1. TableStays /\ SessionStays
    BY <1>3 DEF LookupActive, OnlyTheCall
  <2>2. CASE Return(a)
    BY <1>n, <1>r, <1>s, <2>1, <2>2 DEF ToolsInv
  <2>3. CASE ~Return(a)
    <3> DEFINE tid == active[C.grp]
               c   == [C EXCEPT !.tgt = tid]
    <3>1. C.grp \in groups /\ tid # NoTarget /\ Look(a, Resolved(a), c)
      BY <1>3, <2>3 DEF LookupActive, C
    <3>2. C.grp \in GroupIds /\ tid \in owned[C.grp] /\ tid \in Targets
      BY <1>0, <3>1 DEF TableInv, TableTypeOK, ActiveIsOwned
    <3>3. c \in CallRecords /\ c.grp = C.grp /\ c.tgt = tid
      BY <1>0, <3>2 DEF CallRecords, AnyTarget
    <3> HIDE DEF c, tid
    <3>4. AgentTypes' /\ \A x \in Agents : LaneInv(x)'
      BY <1>b, <1>n, <1>L, <2>1, <3>1, <3>2, <3>3 DEF Look
    <3>5. QED
      BY <1>s, <2>1, <3>4 DEF ToolsInv
  <2>4. QED
    BY <2>2, <2>3
<1>4. CASE CheckOwner(a)
  <2>1. TableStays /\ SessionStays
    BY <1>4 DEF CheckOwner, OnlyTheCall
  <2>2. \/ Return(a)
        \/ /\ targetGroup[C.tgt] \in {NoGroup, C.grp}
           /\ Become(a, "claim", C, C.grp \notin groups)
    BY <1>4 DEF CheckOwner, C
  <2>3. C.tgt \in Targets
    BY <1>0, <1>4 DEF CheckOwner, At, LaneInv, ClaimHasTab, C
  <2>4. AgentTypes' /\ \A x \in Agents : LaneInv(x)'
    BY <1>0, <1>b, <1>r, <1>n, <1>L, <2>1, <2>2, <2>3
  <2>5. QED
    BY <1>s, <2>1, <2>4 DEF ToolsInv
<1>5. CASE Claim(a)
  <2>1. /\ AdoptToGroup(C.grp, C.tgt) /\ lane' = lane /\ SessionStays
        /\ Become(a, Resolved(a), C, C.grp \notin groups)
    BY <1>5 DEF Claim, C
  <2>2. C.tgt \in Targets
    BY <1>0, <1>5 DEF Claim, At, LaneInv, ClaimHasTab, C
  <2>3. ASSUME C.grp \in groups
        PROVE  C.grp \in groups' /\ C.tgt \in owned'[C.grp]
    <3>1. groups' = groups /\ owned' = OwnedAfterAdopt(C.grp, C.tgt)
      BY <2>1, <2>2, <2>3, GroupTableAssumption DEF AdoptToGroup
    <3>2. QED
      BY <1>0, <2>3, <3>1 DEF OwnedAfterAdopt, TableInv, TableTypeOK
  <2>4. AgentTypes' /\ \A x \in Agents : LaneInv(x)'
    BY <1>0, <1>b, <1>L, <2>1, <2>3
  <2>5. QED
    BY <1>s, <2>1, <2>4 DEF ToolsInv
<1>6. CASE CheckTarget(a) \/ OpenPage(a)
  <2>1. TableStays /\ SessionStays
    BY <1>6 DEF CheckTarget, OpenPage, OnlyTheCall
  <2>2. /\ pc[a] \in DrivingLabels
        /\ Return(a) \/ \E l \in DrivingLabels : Become(a, l, C, disturbed[a])
    BY <1>6 DEF CheckTarget, OpenPage, At, Goto, DrivingLabels, C
  <2>3. C.grp # NoGroup /\ ~disturbed[a] => C.grp \in groups /\ C.tgt \in owned[C.grp]
    BY <1>0, <2>2 DEF LaneInv, InLane, Grouped, C
  <2>4. AgentTypes' /\ \A x \in Agents : LaneInv(x)'
    BY <1>0, <1>b, <1>r, <1>n, <1>L, <2>1, <2>2, <2>3
  <2>5. QED
    BY <1>s, <2>1, <2>4 DEF ToolsInv
<1>7. CASE ClearStale(a)
  <2>1. /\ lane' = lane /\ UNCHANGED <<client, lastConn, openConns>> /\ Return(a)
        /\ activeTarget' \in {activeTarget, NoTarget}
    BY <1>7 DEF ClearStale
  <2>2. ClientTypes'
    BY <1>0, <2>1 DEF ClientTypes, AnyTarget
  <2>3. QED
    BY <1>r, <2>1, <2>2 DEF ToolsInv
<1>8. CASE Finish(a) \/ Fail(a)
  <2>1. TableStays /\ SessionStays /\ Return(a)
    BY <1>8 DEF Finish, Fail, OnlyTheCall
  <2>2. QED
    BY <1>n, <1>r, <1>s, <2>1 DEF ToolsInv
<1>9. QED
  BY <1>1, <1>2, <1>3, <1>4, <1>5, <1>6, <1>7, <1>8 DEF PageStep

LEMMA AttachKeepsToolsInv ==
  ASSUME ToolsInv, TableInv', NEW a \in Agents, Attach(a) \/ Detach(a)
  PROVE  ToolsInv'
<1>1. lane' = lane /\ Return(a)
  BY DEF Attach, Detach, TableStays
<1>2. AgentTypes' /\ \A x \in Agents : LaneInv(x)'
  BY <1>1, ReturnKeepsLanes DEF ToolsInv, AgentTypes
<1>3. ClientTypes'
  BY AgentToolsAssumption DEF Attach, Detach, ToolsInv, ClientTypes, NoConn, AnyTarget
<1>4. QED
  BY <1>2, <1>3 DEF ToolsInv

LEMMA WorldKeepsToolsInv ==
  ASSUME ToolsInv, World
  PROVE  ToolsInv'
<1>1. UNCHANGED <<tableVars, lane, pc, call, disturbed, activeTarget, client, lastConn>>
  BY DEF World, TableStays
<1>2. TableInv'
  BY <1>1, TableStepKeepsTableInv DEF ToolsInv
<1>3. AgentTypes' /\ ClientTypes' /\ \A x \in Agents : LaneInv(x)'
  BY <1>1 DEF ToolsInv, AgentTypes, ClientTypes, LaneInv, InLane, ClaimHasTab, ClaimIsChecked,
              Grouped, tableVars
<1>4. QED
  BY <1>2, <1>3 DEF ToolsInv

LEMMA InitToolsInv == Init => ToolsInv
<1>1. ASSUME Init PROVE TableInv
  BY <1>1, InitTableInv DEF Init
<1>2. ASSUME Init PROVE AgentTypes
  BY <1>2, NoCallTypes DEF Init, AgentTypes
<1>3. ASSUME Init PROVE ClientTypes
  BY <1>3, AgentToolsAssumption DEF Init, ClientTypes, NoConn, AnyTarget
<1>4. ASSUME Init, NEW a \in Agents PROVE LaneInv(a)
  BY <1>4 DEF Init, LaneInv, InLane, ClaimHasTab, ClaimIsChecked, DrivingLabels
<1>5. QED
  BY <1>1, <1>2, <1>3, <1>4 DEF ToolsInv

LEMMA NextKeepsToolsInv ==
  ASSUME ToolsInv, [Next]_toolVars
  PROVE  ToolsInv'
<1>1. CASE Next
  <2>1. TableInv'
    BY <1>1, StepUsesTable, TableStepKeepsTableInv DEF ToolsInv
  <2>2. ASSUME NEW a \in Agents, TabStep(a) \/ LaneStep(a) \/ PageStep(a) \/ Attach(a) \/ Detach(a)
        PROVE  ToolsInv'
    BY <2>1, <2>2, TabStepKeepsToolsInv, LaneStepKeepsToolsInv, PageStepKeepsToolsInv,
       AttachKeepsToolsInv
  <2>3. CASE \/ \E t \in Targets : UserOpensTab(t) \/ UserClosesTab(t) \/ ReapPage(t)
             \/ \E n \in Conns : ConnDrops(n)
    <3>1. World
      BY <2>3 DEF UserOpensTab, UserClosesTab, ReapPage, ConnDrops
    <3>2. QED
      BY <3>1, WorldKeepsToolsInv
  <2>4. QED
    BY <1>1, <2>2, <2>3 DEF Next
<1>2. CASE UNCHANGED toolVars
  <2>1. UNCHANGED <<tableVars, lane, pc, call, disturbed, activeTarget, client, lastConn>>
    BY <1>2 DEF toolVars, agentVars
  <2>2. TableInv'
    BY <2>1, TableStepKeepsTableInv DEF ToolsInv
  <2>3. AgentTypes' /\ ClientTypes' /\ \A x \in Agents : LaneInv(x)'
    BY <2>1 DEF ToolsInv, AgentTypes, ClientTypes, LaneInv, InLane, ClaimHasTab, ClaimIsChecked,
                Grouped, tableVars
  <2>4. QED
    BY <2>2, <2>3 DEF ToolsInv
<1>3. QED
  BY <1>1, <1>2

LEMMA ToolsInvariance == Spec => []ToolsInv
<1>1. Init => ToolsInv
  BY InitToolsInv
<1>2. ToolsInv /\ [Next]_toolVars => ToolsInv'
  BY NextKeepsToolsInv
<1>3. QED
  BY <1>1, <1>2, PTL DEF Spec

-------------------------------------------------------------------------------
(* However the handlers of many agents interleave, the group table goes    *)
(* through steps of its own methods only: the tools never leave it between *)
(* two of them (groups.go, browser_targets.go, browser_nav.go).            *)
THEOREM ToolsUseTable == Spec => TableSpec
<1>1. Init => TableInit
  BY DEF Init
<1>2. ToolsInv /\ [Next]_toolVars => [TableNext]_tableVars
  <2>1. ASSUME UNCHANGED toolVars PROVE UNCHANGED tableVars
    BY <2>1 DEF toolVars
  <2>2. QED
    BY <2>1, StepUsesTable
<1>3. QED
  BY <1>1, <1>2, ToolsInvariance, PTL DEF Spec, TableSpec

(* So the table invariant holds of the running bridge: its two records of  *)
(* ownership agree and every group's active tab is its own, in the middle  *)
(* of any handlers.                                                        *)
THEOREM TableSoundUnderTools == Spec => []TableInv
BY ToolsUseTable, TableInvariance, PTL

(* A grouped call that drives a tab drives one its live group owns, unless *)
(* another step moved the tab or ended the group after the call resolved   *)
(* it (group.go:183-213), for any number of agents, tabs and groups.       *)
THEOREM GroupedCallsActInOwnLane == Spec => []ActsInOwnLane
<1>1. ToolsInv => ActsInOwnLane
  BY DEF ToolsInv, ActsInOwnLane, LaneInv, InLane, DrivingLabels
<1>2. QED
  BY <1>1, ToolsInvariance, PTL

-------------------------------------------------------------------------------
(* Only two steps move a tab from a live group to another.                 *)
LEMMA OnlyAdoptionMoves ==
  ASSUME ToolsInv, Next, NEW t \in Targets, Moves(t)
  PROVE  \E a \in Agents : ((Register(a) /\ Grouped(a)) \/ Claim(a)) /\ call[a].tgt = t
                           /\ call[a].grp \in groups /\ targetGroup'[t] = call[a].grp
<1>0. targetGroup \in [Targets -> GroupIds \cup {NoGroup}] /\ NoGroup \notin groups
  <2>1. NoGroup \notin GroupIds
    BY GroupTableAssumption DEF GroupIds
  <2>2. QED
    BY <2>1 DEF ToolsInv, TableInv, TableTypeOK
<1>1. targetGroup'[t] # targetGroup[t] /\ targetGroup[t] \in groups /\ targetGroup'[t] \in groups'
  BY DEF Moves
<1>2. ASSUME UNCHANGED tableVars PROVE FALSE
  BY <1>1, <1>2 DEF tableVars
<1>3. ASSUME NEW a \in Agents, TabStep(a)
      PROVE  Register(a) /\ Grouped(a) /\ SetGroupActive(call[a].grp, call[a].tgt)
  <2>1. ASSUME NEW b \in BOOLEAN, CreateLane(a, b) PROVE FALSE
    BY <1>1, <2>1 DEF CreateLane, CreateGroup
  <2>2. CASE Register(a)
    BY <1>2, <2>2 DEF Register
  <2>3. CASE ~Register(a)
    <3>1. UNCHANGED tableVars
      BY <1>3, <2>1, <2>3
      DEF TabStep, ReadClient, NewTab, CheckGroup, CreateTarget, Activate,
          MakeActive, TakeActive, CloseTarget, IsActive, ClearActive, ForgetTab, SelectTab,
          CloseTab, OnlyTheCall, TableStays
    <3>2. QED
      BY <1>2, <3>1
  <2>4. QED
    BY <2>2, <2>3
<1>4. ASSUME NEW a \in Agents, LaneStep(a) PROVE FALSE
  <2>1. ASSUME NEW b \in BOOLEAN, CloseLane(a, b) PROVE FALSE
    <3>1. /\ targetGroup' = [x \in Targets |-> IF x \in owned[lane[a]] THEN NoGroup ELSE targetGroup[x]]
          /\ groups' \subseteq groups
      BY <2>1 DEF CloseLane, CloseGroup
    <3>2. QED
      BY <1>0, <1>1, <3>1
  <2>2. CASE EachTab(a) \/ LaneClosed(a)
    BY <1>2, <2>2 DEF EachTab, LaneClosed, OnlyTheCall, TableStays
  <2>3. QED
    BY <1>4, <2>1, <2>2 DEF LaneStep
<1>5. ASSUME NEW a \in Agents, PageStep(a) PROVE Claim(a)
  <2>1. ASSUME ClearStale(a) PROVE FALSE
    <3>1. (Grouped(a) /\ SetGroupActive(call[a].grp, NoTarget)) \/ UNCHANGED tableVars
      BY <2>1 DEF ClearStale
    <3>2. targetGroup' = targetGroup
      BY <3>1 DEF SetGroupActive, tableVars
    <3>3. QED
      BY <1>1, <3>2
  <2>2. CASE ~Claim(a)
    <3>1. UNCHANGED tableVars
      BY <1>5, <2>1, <2>2
      DEF PageStep, LegacyPageTool, GroupPageTool, LookupActive, CheckOwner, CheckTarget, OpenPage,
          Finish, Fail, OnlyTheCall, TableStays
    <3>2. QED
      BY <1>2, <3>1
  <2>3. QED
    BY <2>2
<1>6. ASSUME NEW a \in Agents, Attach(a) \/ Detach(a) PROVE FALSE
  <2>1. Attach(a) => UNCHANGED tableVars
    BY DEF Attach, TableStays
  <2>2. Detach(a) => groups' = {}
    BY DEF Detach, ClearGroups
  <2>3. QED
    BY <1>1, <1>2, <1>6, <2>1, <2>2
<1>7. ASSUME \/ \E x \in Targets : UserOpensTab(x) \/ UserClosesTab(x) \/ ReapPage(x)
             \/ \E n \in Conns : ConnDrops(n)
      PROVE  FALSE
  BY <1>2, <1>7 DEF UserOpensTab, UserClosesTab, ReapPage, ConnDrops, World, TableStays
<1>8. PICK a \in Agents :
        \/ Register(a) /\ Grouped(a) /\ SetGroupActive(call[a].grp, call[a].tgt)
        \/ Claim(a) /\ AdoptToGroup(call[a].grp, call[a].tgt)
  <2>1. \A a \in Agents : Claim(a) => AdoptToGroup(call[a].grp, call[a].tgt)
    BY DEF Claim
  <2>2. QED
    BY <1>3, <1>4, <1>5, <1>6, <1>7, <2>1 DEF Next
<1>9. /\ targetGroup' = targetGroup \/ targetGroup' = [targetGroup EXCEPT ![call[a].tgt] = call[a].grp]
      /\ call[a].grp \in groups
  BY <1>2, <1>8 DEF SetGroupActive, AdoptToGroup
<1>10. call[a].tgt = t /\ targetGroup'[t] = call[a].grp
  BY <1>0, <1>1, <1>9
<1>11. QED
  BY <1>8, <1>9, <1>10

(* A tab goes from a live group to another only through one of the two     *)
(* windows: a claim that was overtaken after its check, or the             *)
(* registration of a new tab that was claimed before it                    *)
(* (group.go:207-211, browser_targets.go:94).                              *)
THEOREM TabsAreStolenOnlyInWindow == Spec => StolenOnlyInWindow
<1>1. ASSUME ToolsInv, Next, NEW t \in Targets, Moves(t)
      PROVE  \E a \in Agents : InWindow(a, t)
  <2>1. PICK a \in Agents :
          /\ (Register(a) /\ Grouped(a)) \/ Claim(a)
          /\ call[a].tgt = t /\ call[a].grp \in groups /\ targetGroup'[t] = call[a].grp
    BY <1>1, OnlyAdoptionMoves
  <2>2. CASE Register(a)
    BY <2>1, <2>2 DEF Register, At, InWindow
  <2>3. CASE Claim(a)
    <3>1. pc[a] = "claim"
      BY <2>3 DEF Claim, At
    <3>2. targetGroup[t] # NoGroup /\ targetGroup[t] # call[a].grp
      <4>1. targetGroup[t] \in groups /\ targetGroup'[t] # targetGroup[t]
        BY <1>1 DEF Moves
      <4>2. groups \subseteq GroupIds /\ NoGroup \notin GroupIds
        BY <1>1, GroupTableAssumption DEF ToolsInv, TableInv, TableTypeOK, GroupIds
      <4>3. QED
        BY <2>1, <4>1, <4>2
    <3>3. disturbed[a]
      BY <1>1, <2>1, <3>1, <3>2 DEF ToolsInv, LaneInv, ClaimIsChecked
    <3>4. QED
      BY <2>1, <3>1, <3>3 DEF InWindow
  <2>4. QED
    BY <2>1, <2>2, <2>3
<1>2. ToolsInv /\ [Next]_toolVars =>
        [\A t \in Targets : Moves(t) => \E a \in Agents : InWindow(a, t)]_toolVars
  BY <1>1
<1>3. QED
  BY <1>2, ToolsInvariance, PTL DEF Spec, StolenOnlyInWindow

(* The page cache is empty whenever the session is detached, whatever      *)
(* handlers were running when it was (session.go:142-188).                 *)
THEOREM DetachedMeansNoPages == Spec => []NoPagesWhenDetached
<1>1. Init => NoPagesWhenDetached
  BY DEF Init, NoPagesWhenDetached
<1>2. ASSUME ToolsInv, NoPagesWhenDetached, [Next]_toolVars PROVE NoPagesWhenDetached'
  <2>1. ASSUME NEW a \in Agents, TabStep(a) PROVE client' = client /\ pages' \subseteq pages
    BY <2>1
    DEF TabStep, CreateLane, ReadClient, NewTab, CheckGroup, CreateTarget, Register,
        Activate, MakeActive, TakeActive, CloseTarget, IsActive, ClearActive,
        ForgetTab, SelectTab, CloseTab, OnlyTheCall, SessionStays, CachesStay
  <2>2. ASSUME NEW a \in Agents, LaneStep(a) PROVE client' = client /\ pages' \subseteq pages
    BY <2>2 DEF LaneStep, CloseLane, EachTab, LaneClosed, OnlyTheCall, SessionStays, CachesStay
  <2>3. ASSUME NEW a \in Agents, PageStep(a)
        PROVE  client' = client /\ (pages' \subseteq pages \/ client # NoConn)
    BY <2>3
    DEF PageStep, LegacyPageTool, GroupPageTool, LookupActive, CheckOwner, Claim, CheckTarget,
        ClearStale, OpenPage, Finish, Fail, OnlyTheCall, SessionStays, CachesStay
  <2>4. ASSUME NEW a \in Agents, Attach(a) \/ Detach(a) PROVE NoPagesWhenDetached'
    <3>1. lastConn + 1 # NoConn
      BY <1>2 DEF ToolsInv, ClientTypes, NoConn
    <3>2. QED
      BY <2>4, <3>1 DEF Attach, Detach, NoPagesWhenDetached
  <2>5. ASSUME \/ \E t \in Targets : UserOpensTab(t) \/ UserClosesTab(t) \/ ReapPage(t)
               \/ \E n \in Conns : ConnDrops(n)
        PROVE  client' = client /\ pages' \subseteq pages
    BY <2>5 DEF UserOpensTab, UserClosesTab, ReapPage, ConnDrops, World
  <2>6. ASSUME UNCHANGED toolVars PROVE client' = client /\ pages' = pages
    BY <2>6 DEF toolVars
  <2>7. QED
    BY <1>2, <2>1, <2>2, <2>3, <2>4, <2>5, <2>6 DEF Next, NoPagesWhenDetached
<1>3. QED
  BY <1>1, <1>2, ToolsInvariance, PTL DEF Spec

-------------------------------------------------------------------------------
(* Tabs, pages and connections, the types that no decision rests on.       *)
TabTypes ==
  /\ openConns \subseteq 1 .. lastConn
  /\ pages \subseteq Targets
  /\ used \subseteq Targets /\ alive \subseteq used

LEMMA TabTypesStep ==
  ASSUME ToolsInv, TabTypes, [Next]_toolVars
  PROVE  TabTypes'
<1>0. lastConn \in Nat
  BY AgentToolsAssumption DEF ToolsInv, ClientTypes
<1>1. ASSUME NEW a \in Agents, TabStep(a) PROVE TabTypes'
  <2>1. /\ lastConn' = lastConn /\ openConns' = openConns /\ pages' \subseteq pages
        /\ \/ alive' \subseteq alive /\ used' = used
           \/ \E t \in Targets : alive' = alive \cup {t} /\ used' = used \cup {t}
    BY <1>1
    DEF TabStep, CreateLane, ReadClient, NewTab, CheckGroup, CreateTarget, Register,
        Activate, MakeActive, TakeActive, CloseTarget, IsActive, ClearActive,
        ForgetTab, SelectTab, CloseTab, OnlyTheCall, SessionStays, CachesStay, TabsStay, tabVars
  <2> QED
    BY <2>1 DEF TabTypes
<1>2. ASSUME NEW a \in Agents, LaneStep(a) PROVE TabTypes'
  <2>1. /\ lastConn' = lastConn /\ openConns' = openConns /\ used' = used
        /\ pages' \subseteq pages /\ alive' \subseteq alive
    BY <1>2 DEF LaneStep, CloseLane, EachTab, LaneClosed, OnlyTheCall, SessionStays,
                CachesStay, TabsStay, tabVars
  <2> QED
    BY <2>1 DEF TabTypes
<1>3. ASSUME NEW a \in Agents, PageStep(a) PROVE TabTypes'
  <2>1. /\ lastConn' = lastConn /\ openConns' = openConns /\ alive' = alive /\ used' = used
        /\ pages' \subseteq pages \cup alive
    BY <1>3
    DEF PageStep, LegacyPageTool, GroupPageTool, LookupActive, CheckOwner, Claim, CheckTarget,
        ClearStale, OpenPage, Finish, Fail, OnlyTheCall, SessionStays, CachesStay, TabsStay, tabVars
  <2> QED
    BY <2>1 DEF TabTypes
<1>4. ASSUME NEW a \in Agents, Attach(a) \/ Detach(a) PROVE TabTypes'
  <2>1. alive' = alive /\ used' = used /\ pages' \subseteq pages
    BY <1>4 DEF Attach, Detach, CachesStay, TabsStay, tabVars
  <2>2. \/ lastConn' = lastConn + 1 /\ openConns' = openConns \cup {lastConn + 1}
        \/ lastConn' = lastConn /\ openConns' \subseteq openConns
    BY <1>4 DEF Attach, Detach
  <2>3. openConns' \subseteq 1 .. lastConn'
    <3>1. openConns \subseteq 1 .. lastConn
      BY DEF TabTypes
    <3>2. 1 .. lastConn \subseteq 1 .. (lastConn + 1) /\ lastConn + 1 \in 1 .. (lastConn + 1)
      BY <1>0
    <3> QED
      BY <2>2, <3>1, <3>2
  <2> QED
    BY <2>1, <2>3 DEF TabTypes
<1>5. CASE \/ \E t \in Targets : UserOpensTab(t) \/ UserClosesTab(t) \/ ReapPage(t)
           \/ \E n \in Conns : ConnDrops(n)
  BY <1>5 DEF UserOpensTab, UserClosesTab, ReapPage, ConnDrops, World, tabVars, TabTypes
<1>6. CASE UNCHANGED toolVars
  BY <1>6 DEF toolVars, tabVars, TabTypes
<1> QED
  BY <1>1, <1>2, <1>3, <1>4, <1>5, <1>6 DEF Next

(* Every variable keeps its type: connections are ones that were made, and *)
(* the cache only ever holds tabs.                                         *)
THEOREM ToolTypes == Spec => []TypeOK
<1>1. Init => TabTypes
  BY DEF Init, TabTypes
<1>2. ToolsInv /\ TabTypes /\ [Next]_toolVars => TabTypes'
  BY TabTypesStep
<1>3. ToolsInv /\ TabTypes => TypeOK
  BY DEF ToolsInv, AgentTypes, ClientTypes, TabTypes, TypeOK
<1> QED
  BY <1>1, <1>2, <1>3, ToolsInvariance, PTL DEF Spec
-------------------------------------------------------------------------------
(* Active tabs: what a call knows of the session's own when it is about to *)
(* change it.  A call that carries a group id never comes to these labels; *)
(* the tab it makes active is one Chrome has had; and when it clears the   *)
(* active tab, undisturbed, that tab is the one it saw go.                 *)
SharedLabels == {"activate", "select", "which", "close", "closed", "clear", "release"}

FrontAt(l, c, own, act, cl, here, had) ==
  /\ l \in SharedLabels => c.grp = NoGroup
  /\ l \in {"lookup", "owner", "claim"} => c.grp # NoGroup
  /\ l \in {"register", "select"} => c.tgt \in had
  /\ l \in {"closed", "clear"} => c.tgt \in had \ here
  /\ l = "clear" /\ ~own => act = c.tgt
  /\ l \in {"exists", "stale"} /\ c.grp = NoGroup /\ ~c.given /\ ~own => act = c.tgt
  /\ l = "stale" => ~c.given
  /\ l = "stale" /\ c.grp = NoGroup /\ ~own => cl = NoConn \/ c.tgt \notin here

FrontInv(a) ==
  FrontAt(pc[a], call[a], disturbed[a], activeTarget, client, alive, used)

ActiveWasThere == activeTarget # NoTarget => activeTarget \in used

ActiveInv == ActiveWasThere /\ \A a \in Agents : FrontInv(a)

(* Chrome never gives the id of a tab to another.                          *)
TabsAreFresh == used \subseteq used' /\ \A t \in alive' \ alive : t \in Targets \ used

LEMMA NextTabsAreFresh ==
  ASSUME TabTypes, Next
  PROVE  TabsAreFresh
<1>1. ASSUME NEW a \in Agents, TabStep(a) \/ LaneStep(a) \/ PageStep(a) \/ Attach(a) \/ Detach(a)
      PROVE  TabsAreFresh
  <2>1. CASE TabStep(a)
    <3>1. \/ alive' \subseteq alive /\ used' = used
          \/ \E t \in Targets \ used : alive' = alive \cup {t} /\ used' = used \cup {t}
      BY <2>1
      DEF TabStep, CreateLane, ReadClient, NewTab, CheckGroup, CreateTarget, Register,
          Activate, MakeActive, TakeActive, CloseTarget, IsActive, ClearActive,
          ForgetTab, SelectTab, CloseTab, OnlyTheCall, TabsStay, tabVars
    <3> QED
      BY <3>1 DEF TabsAreFresh
  <2>2. CASE LaneStep(a)
    BY <2>2 DEF LaneStep, CloseLane, EachTab, LaneClosed, OnlyTheCall, TabsStay, tabVars, TabsAreFresh
  <2>3. CASE PageStep(a)
    <3>1. UNCHANGED tabVars
      BY <2>3 DEF PageStep, LegacyPageTool, GroupPageTool, LookupActive, CheckOwner, Claim,
                  CheckTarget, ClearStale, OpenPage, Finish, Fail, OnlyTheCall, TabsStay
    <3> QED
      BY <3>1 DEF tabVars, TabsAreFresh
  <2>4. CASE Attach(a) \/ Detach(a)
    BY <2>4 DEF Attach, Detach, TabsStay, tabVars, TabsAreFresh
  <2> QED
    BY <1>1, <2>1, <2>2, <2>3, <2>4
<1>2. CASE \/ \E t \in Targets : UserOpensTab(t) \/ UserClosesTab(t) \/ ReapPage(t)
           \/ \E n \in Conns : ConnDrops(n)
  BY <1>2 DEF UserOpensTab, UserClosesTab, ReapPage, ConnDrops, tabVars, TabsAreFresh
<1> QED
  BY <1>1, <1>2 DEF Next

(* Another's step leaves what a call knows true, or disturbs the call.     *)
LEMMA OthersKeepTheirFront ==
  ASSUME AgentTypes, ClientTypes, TabTypes, ActiveWasThere, TabsAreFresh, NEW b \in Agents, FrontInv(b),
         pc'[b] = pc[b], call'[b] = call[b],
         disturbed'[b] <=> pc[b] # "idle" /\ (disturbed[b] \/ Upset(b))
  PROVE  FrontInv(b)'
<1>0. NoTarget \notin Targets /\ alive \subseteq used /\ used \subseteq Targets
  BY GroupTableAssumption DEF TabTypes
<1>1. ASSUME pc[b] # "idle", ~disturbed'[b]
      PROVE  /\ ~disturbed[b]
             /\ call[b].grp = NoGroup => activeTarget' = activeTarget /\ client' = client
  BY <1>1 DEF Upset, Grouped
<1>2. \A t : (t \in used \ alive => t \in used' \ alive')
             /\ ((t = NoTarget \/ t \in used) /\ t \notin alive => t \notin alive')
  BY <1>0 DEF TabsAreFresh
<1>3. used \subseteq used'
  BY DEF TabsAreFresh
<1>4. ASSUME pc[b] = "stale", call[b].grp = NoGroup, ~disturbed'[b]
      PROVE  client' = NoConn \/ call[b].tgt \notin alive'
  <2>1. activeTarget = call[b].tgt /\ client' = client /\ (client = NoConn \/ call[b].tgt \notin alive)
    BY <1>1, <1>4 DEF FrontInv, FrontAt
  <2> QED
    BY <1>2, <2>1 DEF ActiveWasThere
<1>5. /\ pc[b] \in SharedLabels => call[b].grp = NoGroup
      /\ pc[b] \in {"lookup", "owner", "claim"} => call[b].grp # NoGroup
      /\ pc[b] \in {"register", "select"} => call[b].tgt \in used'
      /\ pc[b] \in {"closed", "clear"} => call[b].tgt \in used' \ alive'
      /\ pc[b] = "stale" => ~call[b].given
  BY <1>2, <1>3 DEF FrontInv, FrontAt
<1>6. pc[b] = "clear" /\ ~disturbed'[b] => activeTarget' = call[b].tgt
  BY <1>1, <1>5 DEF FrontInv, FrontAt, SharedLabels
<1>7. pc[b] \in {"exists", "stale"} /\ call[b].grp = NoGroup /\ ~call[b].given /\ ~disturbed'[b] =>
        activeTarget' = call[b].tgt
  BY <1>1 DEF FrontInv, FrontAt
<1> QED
  BY <1>4, <1>5, <1>6, <1>7 DEF FrontInv, FrontAt

LEMMA StepKeepsFront ==
  ASSUME AgentTypes, ClientTypes, TabTypes, ActiveInv, TabsAreFresh,
         NEW a \in Agents, NEW l, NEW c, NEW own, Become(a, l, c, own),
         FrontAt(l, c, own, activeTarget', client', alive', used')
  PROVE  \A x \in Agents : FrontInv(x)'
<1>1. /\ pc'[a] = l /\ call'[a] = c /\ disturbed'[a] = own
      /\ \A b \in Agents \ {a} :
           /\ pc'[b] = pc[b] /\ call'[b] = call[b]
           /\ disturbed'[b] <=> pc[b] # "idle" /\ (disturbed[b] \/ Upset(b))
  BY DEF AgentTypes, Become
<1>2. FrontInv(a)'
  BY <1>1 DEF FrontInv
<1>3. ASSUME NEW b \in Agents \ {a} PROVE FrontInv(b)'
  BY <1>1, <1>3, OthersKeepTheirFront DEF ActiveInv
<1> QED
  BY <1>2, <1>3

(* Labels that demand nothing.                                             *)
LEMMA QuietStepKeepsFront ==
  ASSUME AgentTypes, ClientTypes, TabTypes, ActiveInv, TabsAreFresh,
         NEW a \in Agents, NEW l \in {"idle", "dial", "ungrouped", "each", "check", "create", "open", "act"},
         NEW c, NEW own, Become(a, l, c, own)
  PROVE  \A x \in Agents : FrontInv(x)'
<1>1. FrontAt(l, c, own, activeTarget', client', alive', used')
  BY DEF FrontAt, SharedLabels
<1> QED
  BY <1>1, StepKeepsFront

LEMMA ReturnKeepsFront ==
  ASSUME AgentTypes, ClientTypes, TabTypes, ActiveInv, TabsAreFresh, NEW a \in Agents, Return(a)
  PROVE  \A x \in Agents : FrontInv(x)'
BY QuietStepKeepsFront DEF Return

LEMMA TabStepKeepsActiveInv ==
  ASSUME AgentTypes, ClientTypes, TabTypes, ActiveInv, TabsAreFresh, NEW a \in Agents, TabStep(a)
  PROVE  ActiveInv'
<1>0. FrontInv(a) /\ alive \subseteq used
  BY DEF ActiveInv, TabTypes
<1>n. NoCall.grp = NoGroup
  BY NoCallTypes
<1>s. activeTarget' \in {activeTarget, NoTarget} => ActiveWasThere'
  BY DEF ActiveInv, ActiveWasThere, TabsAreFresh
<1>1. CASE (\E b \in BOOLEAN : CreateLane(a, b)) \/ ReadClient(a) \/ NewTab(a) \/ CheckGroup(a) \/ ForgetTab(a)
  <2>1. activeTarget' = activeTarget
    BY <1>1 DEF CreateLane, ReadClient, NewTab, CheckGroup, ForgetTab, OnlyTheCall, SessionStays
  <2>2. Return(a) \/ \E l \in {"dial", "each", "check", "create"} : \E c : Look(a, l, c)
    BY <1>1 DEF CreateLane, ReadClient, NewTab, CheckGroup, ForgetTab
  <2>3. \A x \in Agents : FrontInv(x)'
    BY <2>2, ReturnKeepsFront, QuietStepKeepsFront DEF Look
  <2> QED
    BY <1>s, <2>1, <2>3 DEF ActiveInv
<1>2. CASE CreateTarget(a)
  <2>1. activeTarget' = activeTarget
    BY <1>2 DEF CreateTarget, SessionStays
  <2>2. PICK t : t \in used' /\ Become(a, "register", [call[a] EXCEPT !.tgt = t], disturbed[a])
    BY <1>2 DEF CreateTarget
  <2>3. [call[a] EXCEPT !.tgt = t].tgt = t
    BY DEF AgentTypes, CallRecords
  <2>4. FrontAt("register", [call[a] EXCEPT !.tgt = t], disturbed[a], activeTarget', client', alive', used')
    BY <2>2, <2>3 DEF FrontAt, SharedLabels
  <2> QED
    BY <1>s, <2>1, <2>2, <2>4, StepKeepsFront DEF ActiveInv
<1>3. CASE Register(a)
  <2>1. /\ activeTarget' \in {activeTarget, call[a].tgt} /\ Return(a)
        /\ pc[a] = "register"
    BY <1>3 DEF Register, At
  <2>2. call[a].tgt \in used'
    BY <1>0, <2>1 DEF FrontInv, FrontAt, TabsAreFresh
  <2> QED
    BY <1>s, <2>1, <2>2, ReturnKeepsFront DEF ActiveInv, ActiveWasThere
<1>4. CASE Activate(a)
  <2>1. activeTarget' = activeTarget /\ pc[a] = "activate" /\ call[a].tgt \in alive /\ Goto(a, "select")
    BY <1>4 DEF Activate, OnlyTheCall, SessionStays, At
  <2>2. FrontAt("select", call[a], disturbed[a], activeTarget', client', alive', used')
    BY <1>0, <2>1 DEF FrontInv, FrontAt, SharedLabels, TabsAreFresh
  <2> QED
    BY <1>s, <2>1, <2>2, StepKeepsFront DEF ActiveInv, Goto
<1>5. CASE MakeActive(a)
  <2>1. activeTarget' = call[a].tgt /\ Return(a) /\ pc[a] = "select"
    BY <1>5 DEF MakeActive, At
  <2>2. call[a].tgt \in used'
    BY <1>0, <2>1 DEF FrontInv, FrontAt, TabsAreFresh
  <2> QED
    BY <2>1, <2>2, ReturnKeepsFront DEF ActiveInv, ActiveWasThere
<1>6. CASE TakeActive(a)
  <2>1. /\ activeTarget' = activeTarget /\ pc[a] = "which"
        /\ Return(a) \/ Look(a, "close", [call[a] EXCEPT !.tgt = activeTarget])
    BY <1>6 DEF TakeActive, OnlyTheCall, SessionStays, At
  <2>2. [call[a] EXCEPT !.tgt = activeTarget].grp = NoGroup
    BY <1>0, <2>1 DEF FrontInv, FrontAt, SharedLabels, AgentTypes, CallRecords
  <2>3. FrontAt("close", [call[a] EXCEPT !.tgt = activeTarget], FALSE, activeTarget', client', alive', used')
    BY <2>2 DEF FrontAt
  <2> QED
    BY <1>s, <2>1, <2>3, ReturnKeepsFront, StepKeepsFront DEF ActiveInv, Look
<1>7. CASE CloseTarget(a)
  <2>1. /\ activeTarget' = activeTarget /\ pc[a] = "close" /\ call[a].tgt \in alive
        /\ alive' = alive \ {call[a].tgt} /\ Goto(a, "closed")
    BY <1>7 DEF CloseTarget, SessionStays, At
  <2>2. FrontAt("closed", call[a], disturbed[a], activeTarget', client', alive', used')
    BY <1>0, <2>1 DEF FrontInv, FrontAt, SharedLabels, TabsAreFresh
  <2> QED
    BY <1>s, <2>1, <2>2, StepKeepsFront DEF ActiveInv, Goto
<1>8. CASE IsActive(a)
  <2>1. /\ activeTarget' = activeTarget /\ alive' = alive /\ used' = used /\ pc[a] = "closed"
        /\ \/ activeTarget = call[a].tgt /\ Look(a, "clear", call[a])
           \/ Look(a, "release", call[a])
    BY <1>8 DEF IsActive, OnlyTheCall, SessionStays, TabsStay, tabVars, At
  <2>2. FrontAt("release", call[a], FALSE, activeTarget', client', alive', used')
    BY <1>0, <2>1 DEF FrontInv, FrontAt, SharedLabels
  <2>3. activeTarget = call[a].tgt =>
          FrontAt("clear", call[a], FALSE, activeTarget', client', alive', used')
    BY <1>0, <2>1 DEF FrontInv, FrontAt, SharedLabels
  <2> QED
    BY <1>s, <2>1, <2>2, <2>3, StepKeepsFront DEF ActiveInv, Look
<1>9. CASE ClearActive(a)
  <2>1. activeTarget' = NoTarget /\ pc[a] = "clear" /\ Goto(a, "release")
    BY <1>9 DEF ClearActive, At
  <2>2. FrontAt("release", call[a], disturbed[a], activeTarget', client', alive', used')
    BY <1>0, <2>1 DEF FrontInv, FrontAt, SharedLabels
  <2> QED
    BY <1>s, <2>1, <2>2, StepKeepsFront DEF ActiveInv, Goto
<1>10. ASSUME NEW t \in AnyTarget, SelectTab(a, t) \/ CloseTab(a, t) PROVE ActiveInv'
  <2>1. PICK l \in {"activate", "which", "close"} :
          Look(a, l, [NoCall EXCEPT !.tgt = t, !.conn = client])
    BY <1>10 DEF SelectTab, CloseTab
  <2>2. activeTarget' = activeTarget
    BY <1>10 DEF SelectTab, CloseTab, OnlyTheCall, SessionStays
  <2>3. [NoCall EXCEPT !.tgt = t, !.conn = client].grp = NoGroup
    BY <1>n DEF NoCall
  <2>4. FrontAt(l, [NoCall EXCEPT !.tgt = t, !.conn = client], FALSE, activeTarget', client', alive', used')
    BY <2>3 DEF FrontAt
  <2> QED
    BY <1>s, <2>1, <2>2, <2>4, StepKeepsFront DEF ActiveInv, Look
<1> QED
  <2>1. \A t \in Targets : t \in AnyTarget
    BY DEF AnyTarget
  <2> QED
    BY <1>1, <1>2, <1>3, <1>4, <1>5, <1>6, <1>7, <1>8, <1>9, <1>10, <2>1 DEF TabStep

LEMMA PageStepKeepsActiveInv ==
  ASSUME AgentTypes, ClientTypes, TableInv, TabTypes, ActiveInv, TabsAreFresh, NEW a \in Agents, PageStep(a)
  PROVE  ActiveInv'
<1>0. FrontInv(a) /\ call[a] \in CallRecords
  BY DEF ActiveInv, AgentTypes
<1>n. lane[a] \in groups => lane[a] # NoGroup
  <2>1. NoGroup \notin GroupIds
    BY GroupTableAssumption DEF GroupIds
  <2> QED
    BY <2>1 DEF TableInv, TableTypeOK
<1>s. activeTarget' \in {activeTarget, NoTarget} => ActiveWasThere'
  BY DEF ActiveInv, ActiveWasThere, TabsAreFresh
<1>q. activeTarget' \in {activeTarget, NoTarget}
  BY DEF PageStep, LegacyPageTool, GroupPageTool, LookupActive, CheckOwner, Claim, CheckTarget,
         ClearStale, OpenPage, Finish, Fail, OnlyTheCall, SessionStays
<1>1. ASSUME NEW t \in AnyTarget, NEW nav \in BOOLEAN, LegacyPageTool(a, t, nav)
      PROVE  \A x \in Agents : FrontInv(x)'
  <2> PICK tid : tid = IF t = NoTarget THEN activeTarget ELSE t
    OBVIOUS
  <2> PICK c : c = [NoCall EXCEPT !.tgt = tid, !.given = (t # NoTarget), !.nav = nav]
    OBVIOUS
  <2>1. activeTarget' = activeTarget /\ (Look(a, "exists", c) \/ Look(a, "open", c))
    BY <1>1 DEF LegacyPageTool, OnlyTheCall, SessionStays
  <2>2. c.tgt = tid /\ c.given = (t # NoTarget)
    BY DEF NoCall
  <2>3. FrontAt("exists", c, FALSE, activeTarget', client', alive', used')
    BY <2>1, <2>2 DEF FrontAt, SharedLabels
  <2>4. CASE Become(a, "exists", c, FALSE)
    BY <2>3, <2>4, StepKeepsFront
  <2>5. CASE Become(a, "open", c, FALSE)
    BY <2>5, QuietStepKeepsFront
  <2> QED
    BY <2>1, <2>4, <2>5 DEF Look
<1>2. ASSUME NEW t \in AnyTarget, NEW nav \in BOOLEAN, GroupPageTool(a, t, nav)
      PROVE  \A x \in Agents : FrontInv(x)'
  <2> PICK c : c = [NoCall EXCEPT !.grp = lane[a], !.tgt = t, !.given = (t # NoTarget), !.nav = nav]
    OBVIOUS
  <2>1. c.grp = lane[a] /\ lane[a] # NoGroup
    BY <1>n, <1>2 DEF NoCall, GroupPageTool
  <2>2. \E l \in {"lookup", "owner"} : Become(a, l, c, FALSE)
    BY <1>2 DEF GroupPageTool, Look
  <2>3. \A l \in {"lookup", "owner"} : FrontAt(l, c, FALSE, activeTarget', client', alive', used')
    BY <2>1 DEF FrontAt, SharedLabels
  <2> QED
    BY <2>2, <2>3, StepKeepsFront
<1>3. ASSUME NEW c, NEW own, Become(a, Resolved(a), c, own), c.grp # NoGroup
      PROVE  \A x \in Agents : FrontInv(x)'
  <2>1. FrontAt("exists", c, own, activeTarget', client', alive', used')
    BY <1>3 DEF FrontAt, SharedLabels
  <2>2. FrontAt("open", c, own, activeTarget', client', alive', used')
    BY DEF FrontAt, SharedLabels
  <2>3. CASE call[a].nav
    BY <1>3, <2>1, <2>3, StepKeepsFront DEF Resolved
  <2>4. CASE ~call[a].nav
    BY <1>3, <2>2, <2>4, StepKeepsFront DEF Resolved
  <2> QED
    BY <2>3, <2>4
<1>4. ASSUME LookupActive(a) PROVE \A x \in Agents : FrontInv(x)'
  <2>1. call[a].grp # NoGroup
    BY <1>0, <1>4 DEF LookupActive, At, FrontInv, FrontAt
  <2>2. Return(a) \/ \E t : Become(a, Resolved(a), [call[a] EXCEPT !.tgt = t], FALSE)
    BY <1>4 DEF LookupActive, Look
  <2>3. \A t : [call[a] EXCEPT !.tgt = t].grp # NoGroup
    BY <1>0, <2>1 DEF CallRecords
  <2> QED
    BY <1>3, <2>2, <2>3, ReturnKeepsFront
<1>5. ASSUME CheckOwner(a) PROVE \A x \in Agents : FrontInv(x)'
  <2>1. call[a].grp # NoGroup
    BY <1>0, <1>5 DEF CheckOwner, At, FrontInv, FrontAt
  <2>2. Return(a) \/ Become(a, "claim", call[a], call[a].grp \notin groups)
    BY <1>5 DEF CheckOwner
  <2>3. FrontAt("claim", call[a], call[a].grp \notin groups, activeTarget', client', alive', used')
    BY <2>1 DEF FrontAt, SharedLabels
  <2> QED
    BY <2>2, <2>3, ReturnKeepsFront, StepKeepsFront
<1>6. ASSUME Claim(a) PROVE \A x \in Agents : FrontInv(x)'
  <2>1. call[a].grp # NoGroup
    BY <1>0, <1>6 DEF Claim, At, FrontInv, FrontAt
  <2>2. Become(a, Resolved(a), call[a], call[a].grp \notin groups)
    BY <1>6 DEF Claim
  <2> QED
    BY <1>3, <2>1, <2>2
<1>7. ASSUME CheckTarget(a) PROVE \A x \in Agents : FrontInv(x)'
  <2>1. /\ pc[a] = "exists" /\ UNCHANGED <<activeTarget, client, alive, used>>
        /\ \/ Return(a)
           \/ Become(a, "open", call[a], disturbed[a])
           \/ /\ Become(a, "stale", call[a], disturbed[a])
              /\ ~call[a].given /\ (client = NoConn \/ call[a].tgt \notin alive)
    BY <1>7 DEF CheckTarget, At, OnlyTheCall, SessionStays, TabsStay, tabVars, Goto
  <2>2. CASE /\ Become(a, "stale", call[a], disturbed[a])
             /\ ~call[a].given /\ (client = NoConn \/ call[a].tgt \notin alive)
    <3>1. FrontAt("stale", call[a], disturbed[a], activeTarget', client', alive', used')
      BY <1>0, <2>1, <2>2 DEF FrontInv, FrontAt, SharedLabels
    <3> QED
      BY <2>2, <3>1, StepKeepsFront
  <2> QED
    BY <2>1, <2>2, ReturnKeepsFront, QuietStepKeepsFront
<1>8. ASSUME ClearStale(a) \/ Finish(a) \/ Fail(a) PROVE \A x \in Agents : FrontInv(x)'
  <2>1. Return(a)
    BY <1>8 DEF ClearStale, Finish, Fail
  <2> QED
    BY <2>1, ReturnKeepsFront
<1>9. ASSUME OpenPage(a) PROVE \A x \in Agents : FrontInv(x)'
  <2>1. Become(a, "act", call[a], disturbed[a])
    BY <1>9 DEF OpenPage, Goto
  <2> QED
    BY <2>1, QuietStepKeepsFront
<1> QED
  <2>1. \A x \in Agents : FrontInv(x)'
    BY <1>1, <1>2, <1>4, <1>5, <1>6, <1>7, <1>8, <1>9 DEF PageStep
  <2> QED
    BY <1>q, <1>s, <2>1 DEF ActiveInv

LEMMA NextKeepsActiveInv ==
  ASSUME ToolsInv, TabTypes, ActiveInv, [Next]_toolVars
  PROVE  ActiveInv'
<1>0. AgentTypes /\ ClientTypes /\ TableInv
  BY DEF ToolsInv
<1>1. CASE Next
  <2>0. TabsAreFresh
    BY <1>1, NextTabsAreFresh
  <2>s. activeTarget' \in {activeTarget, NoTarget} => ActiveWasThere'
    BY <2>0 DEF ActiveInv, ActiveWasThere, TabsAreFresh
  <2>1. ASSUME NEW a \in Agents, LaneStep(a) PROVE ActiveInv'
    <3>1. activeTarget' = activeTarget
      BY <2>1 DEF LaneStep, CloseLane, EachTab, LaneClosed, OnlyTheCall, SessionStays
    <3>2. Return(a) \/ \E l \in {"ungrouped", "each"} : \E c : Become(a, l, c, FALSE)
      BY <2>1 DEF LaneStep, CloseLane, EachTab, LaneClosed, Look
    <3>3. \A x \in Agents : FrontInv(x)'
      BY <1>0, <2>0, <3>2, ReturnKeepsFront, QuietStepKeepsFront
    <3> QED
      BY <2>s, <3>1, <3>3 DEF ActiveInv
  <2>2. ASSUME NEW a \in Agents, Attach(a) \/ Detach(a) PROVE ActiveInv'
    <3>1. activeTarget' \in {activeTarget, NoTarget} /\ Return(a)
      BY <2>2 DEF Attach, Detach
    <3> QED
      BY <1>0, <2>0, <2>s, <3>1, ReturnKeepsFront DEF ActiveInv
  <2>3. CASE \/ \E t \in Targets : UserOpensTab(t) \/ UserClosesTab(t) \/ ReapPage(t)
             \/ \E n \in Conns : ConnDrops(n)
    <3>1. UNCHANGED <<pc, call, disturbed, activeTarget, client>>
      BY <2>3 DEF UserOpensTab, UserClosesTab, ReapPage, ConnDrops, World
    <3>2. ASSUME NEW b \in Agents PROVE FrontInv(b)'
      <4>0. NoTarget \notin Targets /\ alive \subseteq used /\ used \subseteq Targets
        BY GroupTableAssumption DEF TabTypes
      <4>1. \A t : (t \in used \ alive => t \in used' \ alive')
                   /\ ((t = NoTarget \/ t \in used) /\ t \notin alive => t \notin alive')
        BY <4>0, <2>0 DEF TabsAreFresh
      <4>2. used \subseteq used' /\ FrontInv(b) /\ ActiveWasThere
        BY <2>0 DEF TabsAreFresh, ActiveInv
      <4>3. pc[b] = "stale" /\ call[b].grp = NoGroup /\ ~disturbed[b] =>
              client = NoConn \/ call[b].tgt \notin alive'
        BY <4>1, <4>2 DEF FrontInv, FrontAt, ActiveWasThere
      <4> QED
        BY <3>1, <4>1, <4>2, <4>3 DEF FrontInv, FrontAt
    <3> QED
      BY <2>s, <3>1, <3>2 DEF ActiveInv
  <2> QED
    BY <1>0, <1>1, <2>0, <2>1, <2>2, <2>3, TabStepKeepsActiveInv, PageStepKeepsActiveInv DEF Next
<1>2. CASE UNCHANGED toolVars
  BY <1>2 DEF toolVars, agentVars, tabVars, ActiveInv, ActiveWasThere, FrontInv
<1> QED
  BY <1>1, <1>2

LEMMA ActiveInvariance == Spec => [](ToolsInv /\ TabTypes /\ ActiveInv)
<1>1. Init => TabTypes /\ ActiveInv
  BY DEF Init, TabTypes, ActiveInv, ActiveWasThere, FrontInv, FrontAt, SharedLabels
<1>2. ToolsInv /\ TabTypes /\ ActiveInv /\ [Next]_toolVars => TabTypes' /\ ActiveInv'
  BY TabTypesStep, NextKeepsActiveInv
<1> QED
  BY <1>1, <1>2, ToolsInvariance, PTL DEF Spec
(* Only three steps move the active tab of a group that stays.             *)
LEMMA OnlyThreeMoveActive ==
  ASSUME ToolsInv, Next, NEW g \in groups \cap groups', active'[g] # active[g]
  PROVE  \E a \in Agents :
           \/ Register(a) /\ Grouped(a) /\ SetGroupActive(call[a].grp, call[a].tgt)
           \/ Claim(a) /\ AdoptToGroup(call[a].grp, call[a].tgt)
           \/ ClearStale(a) /\ Grouped(a) /\ SetGroupActive(call[a].grp, NoTarget)
<1>0. active \in [GroupIds -> Targets \cup {NoTarget}] /\ \A h \in groups : h <= nextGroupSeq
  BY DEF ToolsInv, TableInv, TableTypeOK, LiveIdsBelowSeq
<1>1. ASSUME UNCHANGED tableVars PROVE FALSE
  BY <1>1 DEF tableVars
<1>2. ASSUME NEW a \in Agents, TabStep(a)
      PROVE  Register(a) /\ Grouped(a) /\ SetGroupActive(call[a].grp, call[a].tgt)
  <2>1. ASSUME NEW b \in BOOLEAN, CreateLane(a, b) PROVE FALSE
    <3>1. PICK h \in GroupIds : h = nextGroupSeq + 1 /\ active' = [active EXCEPT ![h] = NoTarget]
      BY <2>1 DEF CreateLane, CreateGroup
    <3>2. g # h
      BY <1>0, <3>1 DEF ToolsInv, TableInv, TableTypeOK
    <3> QED
      BY <1>0, <3>1, <3>2
  <2>2. CASE Register(a)
    BY <1>1, <2>2 DEF Register
  <2>3. CASE ~Register(a)
    <3>1. UNCHANGED tableVars
      BY <1>2, <2>1, <2>3
      DEF TabStep, ReadClient, NewTab, CheckGroup, CreateTarget, Activate,
          MakeActive, TakeActive, CloseTarget, IsActive, ClearActive, ForgetTab, SelectTab,
          CloseTab, OnlyTheCall, TableStays
    <3> QED
      BY <1>1, <3>1
  <2> QED
    BY <2>2, <2>3
<1>3. ASSUME NEW a \in Agents, LaneStep(a) PROVE FALSE
  <2>1. ASSUME NEW b \in BOOLEAN, CloseLane(a, b) PROVE FALSE
    <3>1. groups' = groups \ {lane[a]} /\ active' = [active EXCEPT ![lane[a]] = NoTarget]
      BY <2>1 DEF CloseLane, CloseGroup
    <3> QED
      BY <1>0, <3>1
  <2>2. CASE EachTab(a) \/ LaneClosed(a)
    BY <1>1, <2>2 DEF EachTab, LaneClosed, OnlyTheCall, TableStays
  <2> QED
    BY <1>3, <2>1, <2>2 DEF LaneStep
<1>4. ASSUME NEW a \in Agents, PageStep(a), ~Claim(a)
      PROVE  ClearStale(a) /\ Grouped(a) /\ SetGroupActive(call[a].grp, NoTarget)
  <2>1. CASE ClearStale(a)
    BY <1>1, <2>1 DEF ClearStale
  <2>2. CASE ~ClearStale(a)
    <3>1. UNCHANGED tableVars
      BY <1>4, <2>2
      DEF PageStep, LegacyPageTool, GroupPageTool, LookupActive, CheckOwner, CheckTarget, OpenPage,
          Finish, Fail, OnlyTheCall, TableStays
    <3> QED
      BY <1>1, <3>1
  <2> QED
    BY <2>1, <2>2
<1>5. \A a \in Agents : Claim(a) => AdoptToGroup(call[a].grp, call[a].tgt)
  BY DEF Claim
<1>6. ASSUME NEW a \in Agents, Attach(a) \/ Detach(a) PROVE FALSE
  <2>1. Attach(a) => UNCHANGED tableVars
    BY DEF Attach, TableStays
  <2>2. Detach(a) => groups' = {}
    BY DEF Detach, ClearGroups
  <2> QED
    BY <1>1, <1>6, <2>1, <2>2
<1>7. ASSUME \/ \E x \in Targets : UserOpensTab(x) \/ UserClosesTab(x) \/ ReapPage(x)
             \/ \E n \in Conns : ConnDrops(n)
      PROVE  FALSE
  BY <1>1, <1>7 DEF UserOpensTab, UserClosesTab, ReapPage, ConnDrops, World, TableStays
<1> QED
  BY <1>2, <1>3, <1>4, <1>5, <1>6, <1>7 DEF Next

(* A tab that leaves another group's front by an adoption was that group's. *)
LEMMA FrontLostToAdoption ==
  ASSUME TableInv, NEW h, NEW t, NEW g \in groups, g # h,
         ActiveAfterAdopt(h, t)[g] # active[g]
  PROVE  active[g] = t /\ targetGroup[t] = g /\ ActiveAfterAdopt(h, t)[g] = NoTarget
<1>1. g \in GroupIds
  BY DEF TableInv, TableTypeOK
<1> QED
  BY <1>1 DEF ActiveAfterAdopt, Loses

(* A group's active tab changes by a call that carries its id, or because  *)
(* the tab is taken through one of the two windows; and the session's own  *)
(* never by a call that carries a group id (browser_targets.go:90-97,      *)
(* browser_nav.go:38-42), for any number of agents, tabs and groups.       *)
THEOREM ActiveTabsStayPrivate == Spec => ActiveTabsArePrivate
<1>1. ASSUME ToolsInv, TabTypes, ActiveInv, Next, NEW g \in groups \cap groups', active'[g] # active[g]
      PROVE  \/ \E a \in Agents : pc[a] # "idle" /\ pc'[a] # pc[a] /\ call[a].grp = g
             \/ active'[g] = NoTarget /\ \E a \in Agents : InWindow(a, active[g]) /\ pc'[a] # pc[a]
  <2>0. /\ groups \subseteq GroupIds /\ NoGroup \notin groups /\ NoTarget \notin Targets
        /\ active \in [GroupIds -> Targets \cup {NoTarget}]
        /\ targetGroup \in [Targets -> GroupIds \cup {NoGroup}]
    <3>1. NoGroup \notin GroupIds
      BY GroupTableAssumption DEF GroupIds
    <3> QED
      BY <1>1, <3>1, GroupTableAssumption DEF ToolsInv, TableInv, TableTypeOK
  <2>1. PICK a \in Agents :
          \/ Register(a) /\ Grouped(a) /\ SetGroupActive(call[a].grp, call[a].tgt)
          \/ Claim(a) /\ AdoptToGroup(call[a].grp, call[a].tgt)
          \/ ClearStale(a) /\ Grouped(a) /\ SetGroupActive(call[a].grp, NoTarget)
    BY <1>1, OnlyThreeMoveActive
  <2> PICK h : h = call[a].grp
    OBVIOUS
  <2> PICK t : t = call[a].tgt
    OBVIOUS
  <2>2. pc[a] \in {"register", "claim", "stale"} /\ pc'[a] # pc[a]
    <3>1. pc[a] \in {"register", "claim", "stale"}
      BY <2>1 DEF Register, Claim, ClearStale, At
    <3>2. \E l \in {"idle", "exists", "open"} : \E c, own : Become(a, l, c, own)
      BY <2>1 DEF Register, Claim, ClearStale, Return, Resolved
    <3> QED
      BY <1>1, <3>1, <3>2 DEF Become, ToolsInv, AgentTypes
  <2>3. CASE g = h
    BY <2>2, <2>3
  <2>4. CASE g # h
    <3>1. /\ pc[a] \in {"register", "claim"} /\ t # NoTarget /\ h \in groups
          /\ active'[g] = ActiveAfterAdopt(h, t)[g]
          /\ targetGroup' = [targetGroup EXCEPT ![t] = h]
      <4>1. CASE Register(a) /\ SetGroupActive(h, t)
        BY <1>1, <2>0, <2>4, <4>1 DEF SetGroupActive, Register, At, ActiveAfterAdopt
      <4>2. CASE Claim(a) /\ AdoptToGroup(h, t)
        BY <1>1, <4>2 DEF AdoptToGroup, Claim, At, tableVars
      <4>3. ASSUME SetGroupActive(h, NoTarget) PROVE FALSE
        BY <1>1, <2>0, <2>4, <4>3 DEF SetGroupActive
      <4> QED
        BY <2>1, <4>1, <4>2, <4>3
    <3>2. active[g] = t /\ targetGroup[t] = g /\ active'[g] = NoTarget
      BY <1>1, <2>4, <3>1, FrontLostToAdoption DEF ToolsInv
    <3>3. t \in Targets /\ targetGroup'[t] = h
      BY <2>0, <3>1, <3>2
    <3>4. pc[a] = "claim" => disturbed[a]
      BY <1>1, <2>0, <2>4, <3>2 DEF ToolsInv, LaneInv, ClaimIsChecked
    <3>5. InWindow(a, active[g])
      BY <3>1, <3>2, <3>3, <3>4 DEF InWindow
    <3> QED
      BY <2>2, <3>2, <3>5
  <2> QED
    BY <2>3, <2>4
<1>2. ASSUME ToolsInv, TabTypes, ActiveInv, Next, activeTarget' # activeTarget,
             NEW b \in Agents, pc'[b] # pc[b]
      PROVE  call[b].grp = NoGroup
  <2>1. ASSUME NEW a \in Agents, NEW l, NEW c, NEW own, Become(a, l, c, own) PROVE b = a
    BY <1>2, <2>1 DEF Become, ToolsInv, AgentTypes
  <2>2. FrontInv(b)
    BY <1>2 DEF ActiveInv
  <2>3. ASSUME NEW a \in Agents, TabStep(a)
        PROVE  \/ Register(a) /\ ~Grouped(a) /\ Return(a)
               \/ MakeActive(a) /\ pc[a] = "select" /\ Return(a)
               \/ ClearActive(a) /\ pc[a] = "clear" /\ Goto(a, "release")
    BY <1>2, <2>3
    DEF TabStep, CreateLane, ReadClient, NewTab, CheckGroup, CreateTarget, Register,
        Activate, MakeActive, TakeActive, CloseTarget, IsActive, ClearActive,
        ForgetTab, SelectTab, CloseTab, OnlyTheCall, SessionStays, At
  <2>4. ASSUME NEW a \in Agents, LaneStep(a) PROVE FALSE
    BY <1>2, <2>4 DEF LaneStep, CloseLane, EachTab, LaneClosed, OnlyTheCall, SessionStays
  <2>5. ASSUME NEW a \in Agents, PageStep(a) PROVE ~Grouped(a) /\ Return(a)
    BY <1>2, <2>5
    DEF PageStep, LegacyPageTool, GroupPageTool, LookupActive, CheckOwner, Claim, CheckTarget,
        ClearStale, OpenPage, Finish, Fail, OnlyTheCall, SessionStays
  <2>6. ASSUME NEW a \in Agents, Attach(a) \/ Detach(a) PROVE FALSE
    <3>1. Detach(a) /\ pc[a] = "idle" /\ Become(a, "idle", NoCall, FALSE)
      BY <1>2, <2>6 DEF Attach, Detach, CanCall, Return
    <3> QED
      BY <1>2, <2>1, <3>1 DEF Become, ToolsInv, AgentTypes
  <2>7. ASSUME \/ \E x \in Targets : UserOpensTab(x) \/ UserClosesTab(x) \/ ReapPage(x)
               \/ \E n \in Conns : ConnDrops(n)
        PROVE  FALSE
    BY <1>2, <2>7 DEF UserOpensTab, UserClosesTab, ReapPage, ConnDrops, World
  <2>8. PICK a \in Agents :
          /\ ~Grouped(a) \/ pc[a] \in {"select", "clear"}
          /\ \E l, c, own : Become(a, l, c, own)
    BY <1>2, <2>3, <2>4, <2>5, <2>6, <2>7 DEF Next, Return, Goto
  <2> QED
    BY <2>1, <2>2, <2>8 DEF FrontInv, FrontAt, SharedLabels, Grouped
<1>3. ToolsInv /\ TabTypes /\ ActiveInv /\ [Next]_toolVars =>
        [/\ \A g \in groups \cap groups' : active'[g] # active[g] =>
              \/ \E a \in Agents : pc[a] # "idle" /\ pc'[a] # pc[a] /\ call[a].grp = g
              \/ active'[g] = NoTarget /\ \E a \in Agents : InWindow(a, active[g]) /\ pc'[a] # pc[a]
         /\ activeTarget' # activeTarget =>
              \A a \in Agents : pc'[a] # pc[a] => call[a].grp = NoGroup]_toolVars
  BY <1>1, <1>2
<1> QED
  BY <1>3, ActiveInvariance, PTL DEF Spec, ActiveTabsArePrivate

(* The session's active tab, still open in Chrome, is forgotten only by a  *)
(* detach, or without a connection, or by a call under which it changed    *)
(* after the call had looked (browser_targets.go:154, browser_nav.go:41).  *)
THEOREM LiveActiveIsLostOnlyInRace == Spec => LiveActiveLostOnlyInRace
<1>1. ASSUME ToolsInv, TabTypes, ActiveInv, Next, activeTarget' = NoTarget, activeTarget \in alive
      PROVE  client' = NoConn \/ \E a \in Agents : RacedClear(a)
  <2>0. activeTarget # NoTarget /\ activeTarget' # activeTarget
    BY <1>1, GroupTableAssumption DEF TabTypes
  <2>1. ASSUME NEW a \in Agents, pc[a] \in {"clear", "stale"}, ~Grouped(a), client' = client,
               NEW l \in {"idle", "release"}, NEW c, NEW own, Become(a, l, c, own)
        PROVE  client' = NoConn \/ RacedClear(a)
    <3>1. pc'[a] # pc[a]
      BY <1>1, <2>1 DEF Become, ToolsInv, AgentTypes
    <3>2. ASSUME ~disturbed[a] PROVE client = NoConn
      <4>1. FrontInv(a) /\ call[a].grp = NoGroup
        BY <1>1, <2>1 DEF ActiveInv, Grouped
      <4> QED
        BY <1>1, <2>1, <3>2, <4>1 DEF FrontInv, FrontAt
    <3> QED
      BY <2>1, <3>1, <3>2 DEF RacedClear
  <2>2. ASSUME NEW a \in Agents, TabStep(a) PROVE client' = NoConn \/ RacedClear(a)
    <3>1. \/ pc[a] \in {"register", "select"} /\ activeTarget' = call[a].tgt
          \/ pc[a] = "clear" /\ client' = client /\ Become(a, "release", call[a], disturbed[a])
      BY <2>0, <2>2
      DEF TabStep, CreateLane, ReadClient, NewTab, CheckGroup, CreateTarget, Register,
          Activate, MakeActive, TakeActive, CloseTarget, IsActive, ClearActive,
          ForgetTab, SelectTab, CloseTab, OnlyTheCall, SessionStays, At, Goto
    <3>2. FrontInv(a) /\ NoTarget \notin used
      BY <1>1, GroupTableAssumption DEF ActiveInv, TabTypes
    <3>3. pc[a] \notin {"register", "select"} \/ activeTarget' # call[a].tgt
      BY <1>1, <3>2 DEF FrontInv, FrontAt
    <3>4. pc[a] = "clear" => ~Grouped(a)
      BY <3>2 DEF FrontInv, FrontAt, SharedLabels, Grouped
    <3> QED
      BY <2>1, <3>1, <3>3, <3>4
  <2>3. ASSUME NEW a \in Agents, LaneStep(a) PROVE FALSE
    BY <2>0, <2>3 DEF LaneStep, CloseLane, EachTab, LaneClosed, OnlyTheCall, SessionStays
  <2>4. ASSUME NEW a \in Agents, PageStep(a) PROVE client' = NoConn \/ RacedClear(a)
    <3>1. pc[a] = "stale" /\ ~Grouped(a) /\ client' = client /\ Become(a, "idle", NoCall, FALSE)
      BY <2>0, <2>4
      DEF PageStep, LegacyPageTool, GroupPageTool, LookupActive, CheckOwner, Claim, CheckTarget,
          ClearStale, OpenPage, Finish, Fail, OnlyTheCall, SessionStays, At, Return
    <3> QED
      BY <2>1, <3>1
  <2>5. ASSUME NEW a \in Agents, Attach(a) \/ Detach(a) PROVE client' = NoConn
    BY <2>0, <2>5 DEF Attach, Detach
  <2>6. ASSUME \/ \E x \in Targets : UserOpensTab(x) \/ UserClosesTab(x) \/ ReapPage(x)
               \/ \E n \in Conns : ConnDrops(n)
        PROVE  FALSE
    BY <2>0, <2>6 DEF UserOpensTab, UserClosesTab, ReapPage, ConnDrops, World
  <2> QED
    BY <1>1, <2>2, <2>3, <2>4, <2>5, <2>6 DEF Next
<1>2. ToolsInv /\ TabTypes /\ ActiveInv /\ [Next]_toolVars =>
        [activeTarget' = NoTarget /\ activeTarget \in alive =>
           client' = NoConn \/ \E a \in Agents : RacedClear(a)]_toolVars
  BY <1>1
<1> QED
  BY <1>2, ActiveInvariance, PTL DEF Spec, LiveActiveLostOnlyInRace
===============================================================================
