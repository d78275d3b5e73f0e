------------------------------ MODULE Interaction ------------------------------
(***************************************************************************)
(* Acting on one tab: snapshots (internal/browser/snapshot.go), locators   *)
(* (locator.go), the gestures made of several commands (interact.go) and   *)
(* browser_drop_files (drop.go, tools/browser_drop.go), as called by       *)
(* agents whose requests run at the same time.  No lock spans the commands *)
(* of a gesture: p.mu only guards the pointer to the cached snapshot.      *)
(*                                                                         *)
(* A step is one CDP command with the local work after it, or one critical *)
(* section of p.mu; the two or three commands that look an element up are  *)
(* one step.  A gesture is the list of its commands; any of them may fail, *)
(* which ends the call.                                                    *)
(*                                                                         *)
(* The page (external) is a document, the elements in document order; its  *)
(* lay-out is one element per line, so that a point of the viewport is a   *)
(* line number counted from the scroll position.  Names and texts are the  *)
(* elements' labels.                                                       *)
(***************************************************************************)
EXTENDS Integers, Sequences, FiniteSets, SequencesExt

CONSTANTS
  Agents,
  Elements, Label, NoLabel,  \* each element's accessible name or text
  Subtree,     \* for each element, itself and what it encloses
  Ignored,     \* elements whose accessibility node is marked ignored
  FileInputs,  \* the <input type="file"> elements
  Docs,        \* the documents the page may show
  View,        \* lines in the viewport
  DragSteps,   \* mouse moves of a drag
  Uses,        \* the tool calls each agent makes, see Use
  MaxCalls, MaxChanges, MaxPolls, \* bounds: calls, changes of the page, polls of a verify
  NoElement, NoSnapshot, NoUse

Located == {"click", "fill", "hover", "select", "upload", "drop"}
AtPoint == {"clickAt", "hoverAt", "drag", "key"}
Locators == [by : {"id", "role", "css", "xpath", "text", "exactText", "innerText"},
             what : UNION {{Label[e] : e \in Elements}, 0 .. Cardinality(Elements)}]

(* One call: its tool, its locator (or point), what follows a gesture that *)
(* went through, and the locator of its verify.                            *)
Use == [op : Located \cup AtPoint \cup {"snapshot", "domText"}, loc : Locators,
        then : {"reply", "snapshot", "verify"}, mark : Locators]

ASSUME InteractionAssumption ==
  /\ Label \in [Elements -> {Label[e] : e \in Elements}]
  /\ Subtree \in [Elements -> SUBSET Elements]
  /\ \A e \in Elements : e \in Subtree[e]
  /\ Ignored \cup FileInputs \subseteq Elements
  /\ Docs \subseteq Seq(Elements)
  /\ \A d \in Docs : Len(d) > 0 /\ Elements \cap ToSet(d) \subseteq Subtree[d[1]]
  /\ \A a \in Agents : Uses[a] \subseteq Use
  /\ View \in Nat \ {0} /\ {DragSteps, MaxCalls, MaxChanges, MaxPolls} \subseteq Nat
  /\ NoElement \notin Elements

VARIABLES
  doc, top, focus,  \* the page: document, scroll position, focused element
  held,             \* what Chrome takes to be down: button, key, drag
  snapshot,         \* Page.snapshot: the elements listed, in order; an id is a position
  pc, call,         \* each agent's call
  seen, current,    \* history: the snapshot shown to each agent last, and
                    \* whether it is still the cached one
  upset,            \* history: the page or its focus moved since the call looked
  broken,           \* history: what a failed gesture left down
  missed,           \* history: a verify poll overlooked its marker
  calls, changes    \* how many calls began, how often the page changed

pageVars    == <<doc, top, focus, held>>
cacheVars   == <<snapshot, seen, current>>
historyVars == <<upset, broken, missed>>
interactionVars == <<pageVars, cacheVars, historyVars, pc, call, calls, changes>>

NoCall == [use |-> NoUse, node |-> NoElement, todo |-> << >>, spot |-> 0, view |-> << >>,
           why |-> "show", verify |-> FALSE, polls |-> 0, there |-> FALSE,
           nested |-> FALSE]

Init ==
  /\ doc \in Docs /\ top = 0 /\ focus = NoElement /\ held = {}
  /\ snapshot = NoSnapshot
  /\ pc = [a \in Agents |-> "idle"]
  /\ call = [a \in Agents |-> NoCall]
  /\ seen = [a \in Agents |-> NoSnapshot] /\ current = [a \in Agents |-> FALSE]
  /\ upset = [a \in Agents |-> FALSE] /\ broken = {} /\ missed = FALSE
  /\ calls = 0 /\ changes = 0

-------------------------------------------------------------------------------
(* The page, as the commands see it.                                       *)
InDoc(e) == e \in ToSet(doc)
Line(e)  == CHOOSE i \in DOMAIN doc : doc[i] = e
Under(y) == IF y \in 1 .. View /\ top + y <= Len(doc) THEN doc[top + y] ELSE NoElement
InView(e) == Line(e) - top \in 1 .. View

(* The labels an element's text is made of.                                *)
TextParts(e) == {d \in Subtree[e] : InDoc(d) /\ Label[d] # NoLabel}

(* The snapshot's walk: an ignored node hides what is below it, a node     *)
(* with nothing to tell in its subtree is pruned, the root stays.          *)
Shown(e) == \A x \in Ignored : InDoc(x) => e \notin Subtree[x]
Kept(e)  == Shown(e) /\ (e = doc[1] \/ \E d \in TextParts(e) : Shown(d))
AXTree   == SelectSeq(doc, Kept)

-------------------------------------------------------------------------------
(* The commands of each gesture once its element is known.                 *)
(* Mutant: the box is measured before the page scrolls.                    *)
ClickUnscrolled == <<"box", "scroll", "press", "release">>
Click == <<"scroll", "box", "press", "release">>

Fill  == <<"focus", "clear", "type">>
Hover == <<"box", "move">>
SelectOption == <<"object", "choose">>
UploadFile   == <<"setFiles">>
ClickAt == <<"press", "release">>
HoverAt == <<"move">>

(* Mutant: the button is not let go.                                       *)
DragUnreleased == <<"press">> \o [i \in 1 .. DragSteps |-> "move"]
Drag     == <<"press">> \o [i \in 1 .. DragSteps |-> "move"] \o <<"release">>
PressKey == <<"keyDown", "keyUp">>
dispatchDrag == <<"dragEnter", "dragOver", "drop">>
SyntheticDrop == <<"scroll", "box">> \o dispatchDrag

Gesture(op) ==
  CASE op = "click" -> Click       [] op = "fill" -> Fill
    [] op = "hover" -> Hover       [] op = "select" -> SelectOption
    [] op = "upload" -> UploadFile [] op = "clickAt" -> ClickAt
    [] op = "hoverAt" -> HoverAt   [] op = "drag" -> Drag
    [] op = "key" -> PressKey      [] op = "drop" -> << >>

NeedsNode == {"scroll", "box", "focus", "object", "setFiles"}

(* What lets go of what.                                                   *)
Presses  == [press |-> "button", keyDown |-> "key", dragEnter |-> "drag"]
Releases == [release |-> "button", keyUp |-> "key", drop |-> "drag"]

(* What the rest of a gesture has to let go of: a release is due whose     *)
(* press went out.                                                         *)
Owes(todo) == {Releases[c] : c \in ToSet(todo) \cap DOMAIN Releases}
                \ {Presses[c] : c \in ToSet(todo) \cap DOMAIN Presses}

(* The element a command acts on, whatever the call means to act on.       *)
Hits(a, c) ==
  CASE c \in {"press", "release", "move"} \cup ToSet(dispatchDrag) -> Under(call[a].spot)
    [] c \in {"clear", "type"} -> focus
    [] OTHER -> call[a].node

(* A command of agent a may upset the other gestures; its own is as good   *)
(* as new when it looks at where its element is, and when it is over.      *)
Moved == <<doc, top, focus>>' # <<doc, top, focus>>
Upsets(a, anew) ==
  upset' = [b \in Agents |->
              IF b = a THEN upset[b] /\ ~anew ELSE upset[b] \/ (pc[b] = "act" /\ Moved)]

Become(a, l, c) ==
  /\ pc' = [pc EXCEPT ![a] = l]
  /\ call' = [call EXCEPT ![a] = c]

(* The end of a call; one that task_action_diff made returns to it.        *)
Return(a) ==
  IF call[a].nested THEN Become(a, "settle", [NoCall EXCEPT !.nested = TRUE])
                    ELSE Become(a, "idle", NoCall)

-------------------------------------------------------------------------------
(* Where a call starts once it has its Page.                               *)
Entry(u) == CASE u.op \in {"snapshot", "domText"} -> "fetch"
              [] u.op \in Located -> "resolve"
              [] u.op \in AtPoint -> "act"

Enter(a, u, nested) ==
  Become(a, Entry(u), [NoCall EXCEPT !.use = u, !.nested = nested,
                                     !.spot = IF u.op \in AtPoint THEN u.loc.what ELSE 0,
                                     !.todo = IF u.op \in AtPoint THEN Gesture(u.op) ELSE << >>])

Begin(a, u) ==
  /\ pc[a] = "idle" /\ calls < MaxCalls
  /\ Enter(a, u, FALSE)
  /\ calls' = calls + 1
  /\ UNCHANGED <<pageVars, cacheVars, historyVars, changes>>

-------------------------------------------------------------------------------
(* Locators.  A verify polls with a locator of its own.                    *)
Loc(a) == IF call[a].verify THEN call[a].use.mark ELSE call[a].use.loc

Labelled(s, l) == {e \in ToSet(s) : Label[e] = l}

(* textXPath compares the whole text of an element, descendants and all.   *)
HasText(e, l, exact) ==
  IF exact THEN \E d \in TextParts(e) : TextParts(e) = {d} /\ Label[d] = l
           ELSE \E d \in TextParts(e) : Label[d] = l

(* The elements a locator that asks the page itself finds now.             *)
Live(loc) ==
  LET here == Labelled(doc, loc.what)
  IN  CASE loc.by = "css" -> {e \in here : \A f \in here : Line(e) <= Line(f)}
        [] loc.by = "xpath" -> here
        [] loc.by = "text" -> {e \in ToSet(doc) : HasText(e, loc.what, FALSE)}
        [] loc.by = "exactText" -> {e \in ToSet(doc) : HasText(e, loc.what, TRUE)}
        [] loc.by = "innerText" -> IF here = {} THEN {} ELSE {doc[1]}
        [] loc.by = "role" -> Labelled(AXTree, loc.what)
        [] OTHER -> {}

OnPage(loc) == Cardinality(Live(loc)) = 1

(* A poll that finds its marker reports it, one that does not waits for    *)
(* the next; a locator that finds nothing, or more than one, ends a call.  *)
Resolved(a, found) ==
  IF Cardinality(found) = 1
  THEN /\ IF call[a].verify THEN Return(a)
          ELSE \E e \in found : Become(a, "push", [call[a] EXCEPT !.node = e])
       /\ UNCHANGED missed
  ELSE /\ IF call[a].verify THEN Become(a, "wait", call[a]) ELSE Return(a)
       /\ missed' = (missed \/ (call[a].there /\ OnPage(Loc(a))))

(* Mutant: an id is a position in the page as it is now.                   *)
ResolveIdLive(a) ==
  /\ pc[a] = "resolve" /\ Loc(a).by = "id"
  /\ Resolved(a, {AXTree[i] : i \in {Loc(a).what} \cap DOMAIN AXTree})
  /\ UNCHANGED <<pageVars, cacheVars, upset, broken, calls, changes>>

ResolveId(a) ==
  /\ pc[a] = "resolve" /\ Loc(a).by = "id"
  /\ Resolved(a, IF snapshot = NoSnapshot THEN {}
                 ELSE {snapshot[i] : i \in {Loc(a).what} \cap DOMAIN snapshot})
  /\ UNCHANGED <<pageVars, cacheVars, upset, broken, calls, changes>>

(* A role and name is looked up in the cached snapshot, however old; only  *)
(* when there is none is one taken.                                        *)
ResolveRole(a) ==
  /\ pc[a] = "resolve" /\ Loc(a).by = "role"
  /\ IF snapshot = NoSnapshot
     THEN Become(a, "fetch", [call[a] EXCEPT !.why = "role"]) /\ UNCHANGED missed
     ELSE Resolved(a, Labelled(snapshot, Loc(a).what))
  /\ UNCHANGED <<pageVars, cacheVars, upset, broken, calls, changes>>

ResolveLive(a) ==
  /\ pc[a] = "resolve" /\ Loc(a).by \notin {"id", "role"}
  /\ Resolved(a, Live(Loc(a)))
  /\ UNCHANGED <<pageVars, cacheVars, upset, broken, calls, changes>>

(* backendToNodeID: the node must still be in the document.                *)
Push(a) ==
  /\ pc[a] = "push"
  /\ IF ~InDoc(call[a].node) THEN Return(a)
     ELSE IF call[a].use.op = "drop" THEN Become(a, "findInput", call[a])
     ELSE Become(a, "act", [call[a] EXCEPT !.todo = Gesture(call[a].use.op)])
  /\ UNCHANGED <<pageVars, cacheVars, historyVars, calls, changes>>

(* findFileInputIn: the first file input in the subtree, if the look-up    *)
(* works; otherwise the drop is synthesized.                               *)
FindInput(a) ==
  /\ pc[a] = "findInput"
  /\ LET inputs == {e \in Subtree[call[a].node] \cap FileInputs : InDoc(e)}
     IN  \/ \E e \in inputs :
              /\ \A f \in inputs : Line(e) <= Line(f)
              /\ InDoc(call[a].node)
              /\ Become(a, "act", [call[a] EXCEPT !.node = e, !.todo = UploadFile])
         \/ Become(a, "act", [call[a] EXCEPT !.todo = SyntheticDrop])
  /\ UNCHANGED <<pageVars, cacheVars, historyVars, calls, changes>>

-------------------------------------------------------------------------------
(* The next command of a gesture goes through.                             *)
Effect(a, c) ==
  /\ c \in NeedsNode => InDoc(call[a].node)
  /\ top' = IF c = "scroll" /\ ~InView(call[a].node) THEN Line(call[a].node) - 1 ELSE top
  /\ focus' = CASE c = "focus" -> call[a].node
                [] c = "press" /\ Under(call[a].spot) # NoElement -> Under(call[a].spot)
                [] OTHER -> focus
  /\ held' = (held \cup {Presses[x] : x \in {c} \cap DOMAIN Presses})
               \ {Releases[x] : x \in {c} \cap DOMAIN Releases}
  /\ UNCHANGED doc

(* After the last one the call replies, snapshots or verifies.             *)
Send(a) ==
  /\ pc[a] = "act"
  /\ LET c == Head(call[a].todo)
         next == [call[a] EXCEPT !.todo = Tail(@),
                                 !.spot = IF c = "box" THEN Line(call[a].node) - top ELSE @]
     IN  /\ Effect(a, c)
         /\ Upsets(a, c \in {"scroll", "focus"} \/ next.todo = << >>)
         /\ IF next.todo # << >> THEN Become(a, "act", next)
            ELSE CASE call[a].use.then = "reply"    -> Return(a)
                   [] call[a].use.then = "snapshot" -> Become(a, "fetch", [next EXCEPT !.why = "show"])
                   [] call[a].use.then = "verify"   ->
                        Become(a, "wait", [next EXCEPT !.verify = TRUE])
  /\ UNCHANGED <<cacheVars, broken, missed, calls, changes>>

(* A command is refused: the call returns its error, and what it pressed   *)
(* stays down.  A poll that fails is not the last.                         *)
Fails(a) ==
  /\ \/ pc[a] \in {"push", "act"}
     \/ pc[a] = "resolve" /\ Loc(a).by \notin {"id", "role"}
  /\ IF call[a].verify THEN Become(a, "wait", call[a]) ELSE Return(a)
  /\ broken' = broken \cup Owes(call[a].todo)
  /\ upset' = [upset EXCEPT ![a] = FALSE]
  /\ UNCHANGED <<pageVars, cacheVars, missed, calls, changes>>

(* Chrome carries the command out, but the answer does not come: the call  *)
(* is cancelled or the connection lost.                                    *)
AnswerLost(a) ==
  /\ pc[a] = "act"
  /\ Effect(a, Head(call[a].todo))
  /\ Upsets(a, TRUE)
  /\ Return(a)
  /\ broken' = broken \cup Owes(Tail(call[a].todo))
  /\ UNCHANGED <<cacheVars, missed, calls, changes>>

(* waitForUploadMarker: poll until the deadline.                           *)
Poll(a) ==
  /\ pc[a] = "wait" /\ call[a].polls < MaxPolls
  /\ Become(a, "resolve", [call[a] EXCEPT !.polls = @ + 1, !.there = OnPage(Loc(a))])
  /\ UNCHANGED <<pageVars, cacheVars, historyVars, calls, changes>>

GiveUp(a) ==
  /\ pc[a] = "wait"
  /\ Return(a)
  /\ UNCHANGED <<pageVars, cacheVars, historyVars, calls, changes>>

-------------------------------------------------------------------------------
(* Snapshot: the tree is fetched, then put into the cache.                 *)
FetchTree(a) ==
  /\ pc[a] = "fetch"
  /\ LET textOnly == call[a].why = "show" /\ call[a].use.op = "domText"
     IN  Become(a, "store", [call[a] EXCEPT !.view = IF textOnly THEN << >> ELSE AXTree])
  /\ UNCHANGED <<pageVars, cacheVars, historyVars, calls, changes>>

FetchFails(a) ==
  /\ pc[a] = "fetch" /\ call[a].why \in {"show", "role"}
  /\ IF call[a].verify THEN Become(a, "wait", call[a]) ELSE Return(a)
  /\ UNCHANGED <<pageVars, cacheVars, historyVars, calls, changes>>

(* The snapshot just taken replaces whatever is cached; when it is shown   *)
(* to the agent its ids are the agent's to use.                            *)
Cache(a, shown) ==
  /\ snapshot' = call[a].view
  /\ seen' = IF shown THEN [seen EXCEPT ![a] = call[a].view] ELSE seen
  /\ current' = [b \in Agents |-> b = a /\ shown]

StoreSnapshot(a) ==
  /\ pc[a] = "store"
  /\ \/ /\ call[a].why = "show"
        /\ Cache(a, TRUE)
        /\ Return(a) /\ UNCHANGED missed
     \/ /\ call[a].why = "role"
        /\ Cache(a, FALSE)
        /\ Resolved(a, Labelled(call[a].view, Loc(a).what))
  /\ UNCHANGED <<pageVars, upset, broken, calls, changes>>

-------------------------------------------------------------------------------
(* Navigation and scripts, while a call is under way.                      *)
ChangePage ==
  /\ changes < MaxChanges /\ \E a \in Agents : pc[a] # "idle"
  /\ \E d \in Docs \ {doc} :
       /\ doc' = d
       /\ top' \in {0, top} /\ top' < Len(d)
       /\ focus' = IF focus \in ToSet(d) THEN focus ELSE NoElement
  /\ changes' = changes + 1
  /\ upset' = [a \in Agents |-> pc[a] = "act"]
  /\ UNCHANGED <<held, cacheVars, broken, missed, pc, call, calls>>

CallStep(a) ==
  \/ ResolveId(a) \/ ResolveRole(a) \/ ResolveLive(a) \/ Push(a) \/ FindInput(a)
  \/ Send(a) \/ Fails(a) \/ AnswerLost(a) \/ Poll(a) \/ GiveUp(a)
  \/ FetchTree(a) \/ FetchFails(a) \/ StoreSnapshot(a)

Next ==
  \/ \E a \in Agents : CallStep(a) \/ \E u \in Uses[a] : Begin(a, u)
  \/ ChangePage

Spec == Init /\ [][Next]_interactionVars

-------------------------------------------------------------------------------
(* A gesture lands on the element its locator named, unless since it       *)
(* scrolled to or focused that element the page, the scroll position or    *)
(* the focus moved under it (interact.go:19-45, 59-69, drop.go:50-84).     *)
LandsOnItsElement ==
  \A a \in Agents :
    (pc[a] = "act" /\ call[a].use.op \in Located \ {"hover"} /\ ~upset[a]) =>
      LET c == Head(call[a].todo)
      IN  c \notin NeedsNode => Hits(a, c) = call[a].node

(* What Chrome takes to be down, a call under way will let go of, or a     *)
(* gesture that failed half-way left it so - whoever else pressed and      *)
(* released meanwhile (interact.go:39-45, 172-199, 203-213).               *)
NothingStaysDown == held \subseteq broken \cup UNION {Owes(call[a].todo) : a \in Agents}

(* An id names the element it named in the snapshot its agent was shown,   *)
(* unless another snapshot was cached since - another agent's, or one      *)
(* taken unasked by a role locator or a diff (locator.go:38-50).           *)
IdsMeanWhatWasShown ==
  [][\A a \in Agents :
       (pc[a] = "resolve" /\ Loc(a).by = "id" /\ current[a] /\ pc'[a] = "push") =>
         \E i \in DOMAIN seen[a] \cap {Loc(a).what} : call'[a].node = seen[a][i]]_interactionVars

(* Claimed in docs/tools.md:128 and browser_drop.go:74-78: the verify of a *)
(* drop waits for the element its locator names to appear.  So no poll     *)
(* overlooks one that is on the page all the while.                        *)
UploadMarkerIsSeen == ~missed
===============================================================================
