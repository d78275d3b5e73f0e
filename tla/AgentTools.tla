------------------------------- MODULE AgentTools -------------------------------
(***************************************************************************)
(* Agents sharing one bridge: the tool handlers that create, choose, claim *)
(* and close tabs (tools/groups.go, browser_targets.go, browser_nav.go,    *)
(* browser_interact.go, meta.go), each a sequence of calls on Session      *)
(* (GroupTable and the fields below) and of CDP commands.  The HTTP        *)
(* transport runs every request in a goroutine of its own (httpsse.go:27), *)
(* so the steps of two handlers interleave; a step is one critical section *)
(* of Session.mu, or one command, with the local work after it.            *)
(*                                                                         *)
(* What the handlers tell the project scope, which has a lock and a file   *)
(* of its own and never answers back, is left out, as are the short tab    *)
(* ids: a call names its tab by target id.                                 *)
(*                                                                         *)
(* An agent has one call in flight.  After browser_create_group it passes  *)
(* the group id it was given, before that none (legacy calls).             *)
(***************************************************************************)
EXTENDS GroupTable, FiniteSets

CONSTANTS
  Agents,
  Tools,     \* the tools the agents use: create, newTab, select, closeTab, closeGroup, page, attach, detach
  MaxConns   \* bound on meta_attach calls

ASSUME AgentToolsAssumption == MaxConns \in Nat

Conns == 1 .. MaxConns
NoConn == 0

VARIABLES
  activeTarget, \* the session's shared active tab
  client,       \* the session's connection, NoConn when detached
  lastConn,     \* how many connections were ever made
  openConns,    \* those not closed and not dropped
  pages,        \* tabs with a cached Page
  alive,        \* tabs Chrome has (external)
  used,         \* ids of tabs Chrome ever had (external)
  lane,         \* the group id each agent was given
  pc, call,     \* where each agent's call is, and its local variables
  disturbed     \* history: since its last look at what it decides on, another
                \* step changed it

tabVars   == <<alive, used>>
agentVars == <<lane, pc, call, disturbed>>
toolVars  == <<tableVars, activeTarget, client, lastConn, openConns, pages,
               tabVars, agentVars>>

NoCall == [grp |-> NoGroup, tgt |-> NoTarget, given |-> FALSE, nav |-> FALSE,
           conn |-> NoConn, todo |-> {}]

Init ==
  /\ TableInit
  /\ activeTarget = NoTarget
  /\ client = NoConn /\ lastConn = 0 /\ openConns = {}
  /\ pages = {}
  /\ alive = {} /\ used = {}
  /\ lane = [a \in Agents |-> NoGroup]
  /\ pc = [a \in Agents |-> "idle"]
  /\ call = [a \in Agents |-> NoCall]
  /\ disturbed = [a \in Agents |-> FALSE]

-------------------------------------------------------------------------------
At(a, l) == pc[a] = l
CanCall(a, tool) == tool \in Tools /\ pc[a] = "idle"
Grouped(a) == call[a].grp # NoGroup

(* A CDP command on the call's connection can get through.                 *)
Reachable(a) == call[a].conn \in openConns

(* What a step changes under call b: its tab's group, its group, or for a  *)
(* legacy call the session's active tab or client.                         *)
Upset(b) ==
  \/ call[b].tgt # NoTarget /\ targetGroup'[call[b].tgt] # targetGroup[call[b].tgt]
  \/ call[b].grp \in groups \ groups'
  \/ ~Grouped(b) /\ (activeTarget' # activeTarget \/ client' # client)

(* A step of agent a leaves its call at label l with locals c; own says    *)
(* whether the call has been disturbed.                                    *)
Become(a, l, c, own) ==
  /\ pc' = [pc EXCEPT ![a] = l]
  /\ call' = [call EXCEPT ![a] = c]
  /\ disturbed' = [b \in Agents |->
       IF b = a THEN own ELSE pc[b] # "idle" /\ (disturbed[b] \/ Upset(b))]

Goto(a, l)    == Become(a, l, call[a], disturbed[a])
Look(a, l, c) == Become(a, l, c, FALSE)
Return(a)     == Become(a, "idle", NoCall, FALSE)

TableStays   == UNCHANGED tableVars /\ UNCHANGED lane
SessionStays == UNCHANGED <<activeTarget, client, lastConn, openConns>>
CachesStay   == UNCHANGED pages
TabsStay     == UNCHANGED tabVars
OnlyTheCall  == TableStays /\ SessionStays /\ CachesStay /\ TabsStay

-------------------------------------------------------------------------------
(* browser_create_group, browser_new_tab                                   *)

CreateLane(a, openTab) ==
  /\ CanCall(a, "create")
  /\ \E g \in GroupIds :
       /\ CreateGroup(g)
       /\ lane' = [lane EXCEPT ![a] = g]
       /\ SessionStays
       /\ IF openTab THEN Look(a, "dial", [NoCall EXCEPT !.grp = g]) ELSE Return(a)
  /\ CachesStay /\ TabsStay

(* Where a handler that has changed the table reads the session's client.  *)
ReadClient(a) ==
  /\ OnlyTheCall
  /\ \/ At(a, "dial") /\ client = NoConn /\ Return(a)
     \/ At(a, "dial") /\ client # NoConn /\ Look(a, "create", [call[a] EXCEPT !.conn = client])
     \/ At(a, "ungrouped") /\ Look(a, "each", [call[a] EXCEPT !.conn = client])

NewTab(a) ==
  /\ CanCall(a, "newTab")
  /\ client # NoConn
  /\ OnlyTheCall
  /\ Look(a, IF lane[a] = NoGroup THEN "create" ELSE "check",
          [NoCall EXCEPT !.grp = lane[a], !.conn = client])

CheckGroup(a) ==
  /\ At(a, "check")
  /\ OnlyTheCall
  /\ IF call[a].grp \in groups THEN Look(a, "create", call[a]) ELSE Return(a)

(* Target.createTarget.                                                    *)
CreateTarget(a) ==
  /\ At(a, "create") /\ Reachable(a)
  /\ TableStays /\ SessionStays /\ CachesStay
  /\ \E t \in Targets \ used :
       /\ alive' = alive \cup {t} /\ used' = used \cup {t}
       /\ Become(a, "register", [call[a] EXCEPT !.tgt = t], disturbed[a])

(* Mutant: a grouped tab also becomes the session's active one.            *)
RegisterShared(a) ==
  /\ At(a, "register")
  /\ activeTarget' = call[a].tgt
  /\ SetGroupActive(call[a].grp, call[a].tgt) \/ (call[a].grp \notin groups /\ UNCHANGED tableVars)
  /\ UNCHANGED <<lane, client, lastConn, openConns>> /\ CachesStay /\ TabsStay
  /\ Return(a)

(* SetGroupActive, a no-op when the group has gone, or SetActiveTarget.    *)
Register(a) ==
  /\ At(a, "register")
  /\ IF Grouped(a)
     THEN /\ SetGroupActive(call[a].grp, call[a].tgt) \/
             (call[a].grp \notin groups /\ UNCHANGED tableVars)
          /\ UNCHANGED activeTarget
     ELSE activeTarget' = call[a].tgt /\ UNCHANGED tableVars
  /\ UNCHANGED <<lane, client, lastConn, openConns>> /\ CachesStay /\ TabsStay
  /\ Return(a)

-------------------------------------------------------------------------------
(* browser_select_tab                                                      *)

SelectTab(a, t) ==
  /\ CanCall(a, "select")
  /\ client # NoConn
  /\ OnlyTheCall
  /\ Look(a, "activate", [NoCall EXCEPT !.tgt = t, !.conn = client])

Activate(a) ==
  /\ At(a, "activate") /\ Reachable(a) /\ call[a].tgt \in alive
  /\ OnlyTheCall
  /\ Goto(a, "select")

MakeActive(a) ==
  /\ At(a, "select")
  /\ activeTarget' = call[a].tgt
  /\ TableStays /\ CachesStay /\ TabsStay /\ UNCHANGED <<client, lastConn, openConns>>
  /\ Return(a)

-------------------------------------------------------------------------------
(* browser_close_tab                                                       *)

CloseTab(a, t) ==
  /\ CanCall(a, "closeTab")
  /\ client # NoConn
  /\ OnlyTheCall
  /\ Look(a, IF t = NoTarget THEN "which" ELSE "close", [NoCall EXCEPT !.tgt = t, !.conn = client])

TakeActive(a) ==
  /\ At(a, "which")
  /\ OnlyTheCall
  /\ IF activeTarget = NoTarget THEN Return(a)
     ELSE Look(a, "close", [call[a] EXCEPT !.tgt = activeTarget])

CloseTarget(a) ==
  /\ At(a, "close") /\ Reachable(a) /\ call[a].tgt \in alive
  /\ alive' = alive \ {call[a].tgt}
  /\ TableStays /\ SessionStays /\ CachesStay /\ UNCHANGED used
  /\ Goto(a, "closed")

(* Mutant: the active target is cleared whichever tab was closed.          *)
IsActiveAlways(a) ==
  /\ At(a, "closed")
  /\ OnlyTheCall
  /\ Look(a, "clear", call[a])

(* The active target is read and then cleared, in two critical sections.   *)
IsActive(a) ==
  /\ At(a, "closed")
  /\ OnlyTheCall
  /\ Look(a, IF activeTarget = call[a].tgt THEN "clear" ELSE "release", call[a])

ClearActive(a) ==
  /\ At(a, "clear")
  /\ activeTarget' = NoTarget
  /\ TableStays /\ CachesStay /\ TabsStay /\ UNCHANGED <<client, lastConn, openConns>>
  /\ Goto(a, "release")

(* DropPage.                                                               *)
ForgetTab(a) ==
  /\ At(a, "release")
  /\ pages' = pages \ {call[a].tgt}
  /\ TableStays /\ SessionStays /\ TabsStay
  /\ Return(a)

-------------------------------------------------------------------------------
(* browser_close_group; nav stands for its close_tabs argument.            *)

CloseLane(a, closeTabs) ==
  /\ CanCall(a, "closeGroup")
  /\ lane[a] \in groups
  /\ CloseGroup(lane[a])
  /\ UNCHANGED lane /\ SessionStays /\ CachesStay /\ TabsStay
  /\ Look(a, "ungrouped", [NoCall EXCEPT !.nav = closeTabs, !.todo = owned[lane[a]]])

(* One turn of its loop: the tab is left open, or closed.                  *)
EachTab(a) ==
  /\ At(a, "each")
  /\ TableStays /\ SessionStays /\ UNCHANGED used
  /\ \E t \in call[a].todo :
       /\ \/ /\ call[a].nav /\ Reachable(a) /\ t \in alive
             /\ alive' = alive \ {t}
             /\ pages' = pages \ {t}
          \/ UNCHANGED <<alive, pages>>
       /\ Look(a, "each", [call[a] EXCEPT !.todo = @ \ {t}])

LaneClosed(a) ==
  /\ At(a, "each") /\ call[a].todo = {}
  /\ OnlyTheCall
  /\ Return(a)

-------------------------------------------------------------------------------
(* The page-level tools: ResolveActive, then Session.Page, then the tab is *)
(* driven.  browser_navigate (nav) checks that the tab is there first.     *)

LegacyPageTool(a, t, nav) ==
  /\ CanCall(a, "page")
  /\ lane[a] = NoGroup
  /\ OnlyTheCall
  /\ LET tid == IF t = NoTarget THEN activeTarget ELSE t
     IN  /\ tid # NoTarget
         /\ Look(a, IF nav THEN "exists" ELSE "open",
                 [NoCall EXCEPT !.tgt = tid, !.given = (t # NoTarget), !.nav = nav])

(* GroupExists.                                                            *)
GroupPageTool(a, t, nav) ==
  /\ CanCall(a, "page")
  /\ lane[a] \in groups
  /\ OnlyTheCall
  /\ Look(a, IF t = NoTarget THEN "lookup" ELSE "owner",
          [NoCall EXCEPT !.grp = lane[a], !.tgt = t, !.given = (t # NoTarget), !.nav = nav])

Resolved(a) == IF call[a].nav THEN "exists" ELSE "open"

(* GroupActive: a group that has gone has none.                            *)
LookupActive(a) ==
  /\ At(a, "lookup")
  /\ OnlyTheCall
  /\ LET tid == IF call[a].grp \in groups THEN active[call[a].grp] ELSE NoTarget
     IN  IF tid = NoTarget THEN Return(a)
         ELSE Look(a, Resolved(a), [call[a] EXCEPT !.tgt = tid])

(* Mutant: no cross_group.                                                 *)
CheckOwnerLax(a) ==
  /\ At(a, "owner")
  /\ OnlyTheCall
  /\ Become(a, "claim", call[a], call[a].grp \notin groups)

(* GroupOf, and cross_group for a tab of another group.                    *)
CheckOwner(a) ==
  /\ At(a, "owner")
  /\ OnlyTheCall
  /\ IF targetGroup[call[a].tgt] \in {NoGroup, call[a].grp}
     THEN Become(a, "claim", call[a], call[a].grp \notin groups)
     ELSE Return(a)

(* Mutant: a free tab is used but not adopted.                             *)
ClaimNothing(a) ==
  /\ At(a, "claim")
  /\ UNCHANGED tableVars
  /\ UNCHANGED lane /\ SessionStays /\ CachesStay /\ TabsStay
  /\ Become(a, Resolved(a), call[a], call[a].grp \notin groups)

(* AdoptToGroup, in a critical section after the check's.                  *)
Claim(a) ==
  /\ At(a, "claim")
  /\ AdoptToGroup(call[a].grp, call[a].tgt)
  /\ UNCHANGED lane /\ SessionStays /\ CachesStay /\ TabsStay
  /\ Become(a, Resolved(a), call[a], call[a].grp \notin groups)

(* targetExists on the client of the moment; without one it answers no.    *)
CheckTarget(a) ==
  /\ At(a, "exists")
  /\ OnlyTheCall
  /\ \/ client \in openConns /\ call[a].tgt \in alive /\ Goto(a, "open")
     \/ /\ client = NoConn \/ (client \in openConns /\ call[a].tgt \notin alive)
        /\ IF call[a].given THEN Return(a) ELSE Goto(a, "stale")

(* The stale active tab is cleared, whatever it is by now.                 *)
ClearStale(a) ==
  /\ At(a, "stale")
  /\ IF Grouped(a)
     THEN /\ SetGroupActive(call[a].grp, NoTarget) \/
             (call[a].grp \notin groups /\ UNCHANGED tableVars)
          /\ UNCHANGED activeTarget
     ELSE activeTarget' = NoTarget /\ UNCHANGED tableVars
  /\ UNCHANGED <<lane, client, lastConn, openConns>> /\ CachesStay /\ TabsStay
  /\ Return(a)

(* Session.Page: cached, or attached to and cached.                        *)
OpenPage(a) ==
  /\ At(a, "open")
  /\ client # NoConn
  /\ \/ call[a].tgt \in pages /\ UNCHANGED pages
     \/ /\ call[a].tgt \notin pages
        /\ client \in openConns /\ call[a].tgt \in alive
        /\ pages' = pages \cup {call[a].tgt}
  /\ TableStays /\ SessionStays /\ TabsStay
  /\ Goto(a, "act")

(* The call has driven its tab and returns.                                *)
Finish(a) ==
  /\ At(a, "act")
  /\ OnlyTheCall
  /\ Return(a)

(* A command that fails - any may - or a page that cannot be had.          *)
Fail(a) ==
  /\ pc[a] \in {"create", "activate", "close", "exists", "open"}
  /\ OnlyTheCall
  /\ Return(a)

-------------------------------------------------------------------------------
(* meta_attach once it has a connection: SetClient overwrites the old one, *)
(* which stays open.  meta_detach: Clear, one critical section.            *)
Attach(a) ==
  /\ CanCall(a, "attach")
  /\ lastConn < MaxConns
  /\ lastConn' = lastConn + 1
  /\ client' = lastConn + 1
  /\ openConns' = openConns \cup {lastConn + 1}
  /\ TableStays /\ CachesStay /\ TabsStay /\ UNCHANGED activeTarget
  /\ Return(a)

Detach(a) ==
  /\ CanCall(a, "detach")
  /\ ClearGroups
  /\ activeTarget' = NoTarget
  /\ pages' = {}
  /\ openConns' = openConns \ {client}
  /\ client' = NoConn
  /\ TabsStay /\ UNCHANGED <<lane, lastConn>>
  /\ Return(a)

-------------------------------------------------------------------------------
(* The user and the network (external).  The watcher's DropPage of a tab   *)
(* the user closed may come at any time later, or never.                   *)

World == TableStays /\ UNCHANGED <<pc, call, disturbed, activeTarget, client, lastConn>>

UserOpensTab(t) ==
  /\ t \notin used
  /\ alive' = alive \cup {t} /\ used' = used \cup {t}
  /\ World /\ UNCHANGED <<pages, openConns>>

UserClosesTab(t) ==
  /\ t \in alive
  /\ alive' = alive \ {t}
  /\ World /\ UNCHANGED <<pages, openConns, used>>

ReapPage(t) ==
  /\ t \in pages \ alive
  /\ pages' = pages \ {t}
  /\ World /\ UNCHANGED <<openConns, tabVars>>

ConnDrops(n) ==
  /\ n \in openConns
  /\ openConns' = openConns \ {n}
  /\ World /\ UNCHANGED <<pages, tabVars>>

-------------------------------------------------------------------------------
AnyTarget == Targets \cup {NoTarget}

TabStep(a) ==
  \/ \E b \in BOOLEAN : CreateLane(a, b)
  \/ ReadClient(a) \/ NewTab(a) \/ CheckGroup(a) \/ CreateTarget(a)
  \/ Register(a)
  \/ Activate(a) \/ MakeActive(a)
  \/ TakeActive(a) \/ CloseTarget(a) \/ IsActive(a) \/ ClearActive(a) \/ ForgetTab(a)
  \/ \E t \in Targets : SelectTab(a, t)
  \/ \E t \in AnyTarget : CloseTab(a, t)

LaneStep(a) ==
  \/ \E b \in BOOLEAN : CloseLane(a, b)
  \/ EachTab(a) \/ LaneClosed(a)

PageStep(a) ==
  \/ \E t \in AnyTarget, nav \in BOOLEAN : LegacyPageTool(a, t, nav) \/ GroupPageTool(a, t, nav)
  \/ LookupActive(a) \/ CheckOwner(a) \/ Claim(a) \/ CheckTarget(a) \/ ClearStale(a)
  \/ OpenPage(a) \/ Finish(a) \/ Fail(a)

Next ==
  \/ \E a \in Agents : TabStep(a) \/ LaneStep(a) \/ PageStep(a) \/ Attach(a) \/ Detach(a)
  \/ \E t \in Targets : UserOpensTab(t) \/ UserClosesTab(t) \/ ReapPage(t)
  \/ \E n \in Conns : ConnDrops(n)

Spec == Init /\ [][Next]_toolVars

-------------------------------------------------------------------------------
Labels == {"idle", "dial", "ungrouped", "each", "check", "create", "register",
           "activate", "select", "which", "close", "closed", "clear", "release",
           "lookup", "owner", "claim", "exists", "stale", "open", "act"}

CallRecords ==
  [grp : GroupIds \cup {NoGroup}, tgt : AnyTarget, given : BOOLEAN, nav : BOOLEAN,
   conn : Conns \cup {NoConn}, todo : SUBSET Targets]

TypeOK ==
  /\ activeTarget \in AnyTarget
  /\ lastConn \in 0 .. MaxConns
  /\ client \in 0 .. lastConn
  /\ openConns \subseteq 1 .. lastConn
  /\ pages \subseteq Targets
  /\ used \subseteq Targets /\ alive \subseteq used
  /\ lane \in [Agents -> GroupIds \cup {NoGroup}]
  /\ pc \in [Agents -> Labels]
  /\ call \in [Agents -> CallRecords]
  /\ disturbed \in [Agents -> BOOLEAN]

(* A grouped call that goes on to drive a tab drives one of its own group, *)
(* unless since it resolved the tab another call moved it, or closed or    *)
(* cleared the group.                                                      *)
ActsInOwnLane ==
  \A a \in Agents :
    pc[a] \in {"exists", "stale", "open", "act"} /\ Grouped(a) /\ ~disturbed[a] =>
      call[a].grp \in groups /\ call[a].tgt \in owned[call[a].grp]

(* Detached means no page: a handler that still runs cannot put one back   *)
(* into the cache that Clear has emptied (session.go:142-188).             *)
NoPagesWhenDetached == client = NoConn => pages = {}

(* cross_group keeps lanes apart but for two windows: the tab was claimed  *)
(* by another call between this call's check and its adoption, or a new    *)
(* tab was claimed before its creator registered it.  No other sequence of *)
(* calls takes a tab from a live group to another (group.go:207-211).      *)
Moves(t) ==
  /\ targetGroup[t] \in groups /\ targetGroup'[t] \in groups'
  /\ targetGroup'[t] # targetGroup[t]

InWindow(a, t) ==
  /\ call[a].tgt = t /\ call[a].grp = targetGroup'[t]
  /\ pc[a] = "register" \/ (pc[a] = "claim" /\ disturbed[a])

StolenOnlyInWindow ==
  [][\A t \in Targets : Moves(t) => \E a \in Agents : InWindow(a, t)]_toolVars

(* The tab a group acts on by default changes only by a call that carries  *)
(* the group's id, or because the tab itself is taken; the session's own   *)
(* active tab never changes by a call that carries a group id              *)
(* (browser_targets.go:90-97, browser_nav.go:38-42).                       *)
ActiveTabsArePrivate ==
  [][/\ \A g \in groups \cap groups' : active'[g] # active[g] =>
          \/ \E a \in Agents : pc[a] # "idle" /\ pc'[a] # pc[a] /\ call[a].grp = g
          \/ active'[g] = NoTarget /\ \E a \in Agents : InWindow(a, active[g]) /\ pc'[a] # pc[a]
     /\ activeTarget' # activeTarget =>
          \A a \in Agents : pc'[a] # pc[a] => call[a].grp = NoGroup]_toolVars

(* The session's active tab, while it is open in Chrome, is forgotten only *)
(* by a detach, or without a connection, or by a call under which it has   *)
(* changed: closing or missing one tab does not take the front from        *)
(* another, but for that race (browser_targets.go:154, browser_nav.go:41). *)
RacedClear(a) == pc[a] \in {"clear", "stale"} /\ pc'[a] # pc[a] /\ disturbed[a]

LiveActiveLostOnlyInRace ==
  [][activeTarget' = NoTarget /\ activeTarget \in alive =>
       client' = NoConn \/ \E a \in Agents : RacedClear(a)]_toolVars
===============================================================================
