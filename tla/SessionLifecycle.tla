--------------------------- MODULE SessionLifecycle ---------------------------
(***************************************************************************)
(* The session of internal/mcp/session.go from attach to detach: the one   *)
(* CDP client it holds, the pages it caches per tab, and the goroutine     *)
(* that drops the page of a tab that is gone (cdp/session.go).  The tools  *)
(* meta_attach, meta_detach, browser_close_tab and every tool that needs a *)
(* page meet here, each a sequence of critical sections of Session.mu and  *)
(* of round trips to Chrome; Session.Page makes its round trips with the   *)
(* mutex held.                                                             *)
(*                                                                         *)
(* A page is named by the call that made it.  Chrome tells of a tab's end  *)
(* at once; what delays the news is the watcher, its channel and the       *)
(* mutex.  What groups and active tabs add is in AgentTools.               *)
(***************************************************************************)
EXTENDS Naturals, FiniteSets, Sequences

CONSTANTS
  Targets,      \* Chrome's tabs
  Conns,        \* connections that can be dialed
  MaxCalls,     \* how many tool calls there are
  Tools,        \* what the calls may be: "attach", "detach", "page", "closeTab"
  Starts,       \* the clients main may start with: NoConn, or an auto-attached one
  ChanCap,      \* capacity of the watcher's channel
  NoTarget, NoConn, NoPage, Nobody

(* Calls are numbered in the order they begin.                             *)
Calls == 1 .. MaxCalls

ASSUME SessionLifecycleAssumption ==
  /\ MaxCalls \in Nat
  /\ Calls \cap Conns = {}
  /\ NoTarget \notin Targets
  /\ NoConn \notin Conns
  /\ Starts \subseteq Conns \cup {NoConn}
  /\ NoPage \notin Calls
  /\ Nobody \notin Calls
  /\ ChanCap \in Nat

VARIABLES
  client, closer,   \* Session.client, and the watcher clientCloser stops
  pages,            \* Session.pages: the page cached for each tab
  mu,               \* the call that holds Session.mu across round trips
  conn, watch,      \* a connection's life, and that of its watcher
  mail, reaping,    \* a watcher's channel, and the tab it is about to drop
  page,             \* each page's tab, connection and state
  doomed,           \* pages a call or a watcher has taken out to close
  pc, tab, link,    \* a call's place, its tab and its connection
  alive,            \* Chrome's open tabs
  unheard,          \* history: tabs whose end no watcher was told of
  tangled           \* history: an attach met another client, or a detach

sessionVars == <<client, closer, pages, mu>>
watchVars   == <<watch, mail, reaping>>
callVars    == <<pc, tab, link>>
vars == <<sessionVars, conn, watchVars, page, doomed, callVars, alive, unheard, tangled>>

Actors    == Calls \cup Conns
NotMade   == [tab |-> NoTarget, via |-> NoConn, state |-> "none"]
Cached    == {pages[t] : t \in Targets} \ {NoPage}
InMail(c, t) == \E i \in 1 .. Len(mail[c]) : mail[c][i] = t
Attaching(c) == {k \in Calls : link[k] = c /\ pc[k] \in {"discover", "subscribe", "closer"}}

(* main may attach before it serves, and then installs the client only.    *)
Init ==
  /\ client \in Starts
  /\ conn = [c \in Conns |-> IF c = client THEN "open" ELSE "new"]
  /\ closer = NoConn
  /\ pages = [t \in Targets |-> NoPage]
  /\ mu = Nobody
  /\ watch = [c \in Conns |-> "none"]
  /\ mail = [c \in Conns |-> << >>]
  /\ reaping = [c \in Conns |-> NoTarget]
  /\ page = [k \in Calls |-> NotMade]
  /\ doomed = [a \in Actors |-> {}]
  /\ pc = [k \in Calls |-> "idle"]
  /\ tab = [k \in Calls |-> NoTarget]
  /\ link = [k \in Calls |-> NoConn]
  /\ alive = Targets
  /\ unheard = {}
  /\ tangled = FALSE

Goto(k, label) == pc' = [pc EXCEPT ![k] = label] /\ UNCHANGED <<tab, link>>

Enter(k, label, t, c) ==
  /\ pc[k] = "idle" /\ \A j \in 1 .. k - 1 : pc[j] # "idle"
  /\ pc' = [pc EXCEPT ![k] = label]
  /\ tab' = [tab EXCEPT ![k] = t]
  /\ link' = [link EXCEPT ![k] = c]

Return(k) ==
  /\ pc' = [pc EXCEPT ![k] = "done"]
  /\ tab' = [tab EXCEPT ![k] = NoTarget]
  /\ link' = [link EXCEPT ![k] = NoConn]

-------------------------------------------------------------------------------
(* meta_attach.                                                            *)

(* AttachFunc dials a new connection and tries it, or gives up and closes  *)
(* it.                                                                     *)
Dial(k, c) ==
  /\ "attach" \in Tools /\ conn[c] = "new"
  /\ \/ conn' = [conn EXCEPT ![c] = "open"] /\ Enter(k, "set", NoTarget, c)
     \/ conn' = [conn EXCEPT ![c] = "closed"] /\ Enter(k, "done", NoTarget, NoConn)
  /\ UNCHANGED <<sessionVars, watchVars, page, doomed, alive, unheard, tangled>>

SetClient(k) ==
  /\ pc[k] = "set" /\ mu = Nobody
  /\ client' = link[k]
  /\ tangled' = (tangled \/ client # NoConn)
  /\ Goto(k, "discover")
  /\ UNCHANGED <<closer, pages, mu, conn, watchVars, page, doomed, alive, unheard>>

(* WatchTargets asks Chrome to tell of tabs, and only then subscribes.  A  *)
(* failed request leaves the client without a watcher; the tool reports ok.*)
Discover(k) ==
  /\ pc[k] = "discover"
  /\ \/ conn[link[k]] = "open" /\ Goto(k, "subscribe")
     \/ Return(k)
  /\ UNCHANGED <<sessionVars, conn, watchVars, page, doomed, alive, unheard, tangled>>

Watch(k) ==
  /\ pc[k] = "subscribe"
  /\ watch' = [watch EXCEPT ![link[k]] = "on"]
  /\ Goto(k, "closer")
  /\ UNCHANGED <<sessionVars, conn, mail, reaping, page, doomed, alive, unheard, tangled>>

SetClientCloser(k) ==
  /\ pc[k] = "closer" /\ mu = Nobody
  /\ closer' = link[k]
  /\ Return(k)
  /\ UNCHANGED <<client, pages, mu, conn, watchVars, page, doomed, alive, unheard, tangled>>

-------------------------------------------------------------------------------
(* meta_detach.                                                            *)

(* Mutant: the cached pages are closed but stay in the map.                *)
ClearKeepsPages(k) ==
  /\ "detach" \in Tools /\ mu = Nobody
  /\ closer' = NoConn
  /\ client' = NoConn
  /\ conn' = IF client = NoConn THEN conn ELSE [conn EXCEPT ![client] = "closed"]
  /\ watch' = IF client = NoConn \/ closer = NoConn THEN watch
              ELSE [watch EXCEPT ![closer] = "stopping"]
  /\ tangled' = (tangled \/ \E c \in Conns : c = client /\ Attaching(c) # {})
  /\ Enter(k, "closing", NoTarget, NoConn)
  /\ UNCHANGED <<pages, mu, mail, reaping, page, doomed, alive, unheard>>

(* Mutant: the watcher's stop is forgotten without a call.                 *)
ClearForgetsCloser(k) ==
  /\ "detach" \in Tools /\ mu = Nobody
  /\ doomed' = [doomed EXCEPT ![k] = Cached]
  /\ pages' = [t \in Targets |-> NoPage]
  /\ closer' = NoConn
  /\ client' = NoConn
  /\ conn' = IF client = NoConn THEN conn ELSE [conn EXCEPT ![client] = "closed"]
  /\ tangled' = (tangled \/ \E c \in Conns : c = client /\ Attaching(c) # {})
  /\ Enter(k, "closing", NoTarget, NoConn)
  /\ UNCHANGED <<mu, watch, mail, reaping, page, alive, unheard>>

(* Clear empties the session in one critical section: it takes the pages,  *)
(* stops the watcher, and closes the client.  Without a client the         *)
(* watcher's stop is dropped uncalled.  The pages are closed afterwards.   *)
Clear(k) ==
  /\ "detach" \in Tools /\ mu = Nobody
  /\ doomed' = [doomed EXCEPT ![k] = Cached]
  /\ pages' = [t \in Targets |-> NoPage]
  /\ closer' = NoConn
  /\ client' = NoConn
  /\ conn' = IF client = NoConn THEN conn ELSE [conn EXCEPT ![client] = "closed"]
  /\ watch' = IF client = NoConn \/ closer = NoConn THEN watch
              ELSE [watch EXCEPT ![closer] = "stopping"]
  /\ tangled' = (tangled \/ \E c \in Conns : c = client /\ Attaching(c) # {})
  /\ Enter(k, "closing", NoTarget, NoConn)
  /\ UNCHANGED <<mu, mail, reaping, page, alive, unheard>>

(* Pages taken out of the map are closed, by whoever took them out; a call *)
(* then returns.                                                           *)
ClosePages(a) ==
  /\ page' = [p \in Calls |-> IF p \in doomed[a] THEN [page[p] EXCEPT !.state = "closed"]
                              ELSE page[p]]
  /\ doomed' = [doomed EXCEPT ![a] = {}]

CloseTaken(k) ==
  /\ pc[k] = "closing"
  /\ ClosePages(k)
  /\ Return(k)
  /\ UNCHANGED <<sessionVars, conn, watchVars, alive, unheard, tangled>>

-------------------------------------------------------------------------------
(* Session.Page, which every tool that acts on a tab calls.                *)

(* Mutant: the mutex is released for the round trips.                      *)
PageUnlocked(k, t) ==
  /\ "page" \in Tools /\ mu = Nobody
  /\ IF client # NoConn /\ pages[t] = NoPage
     THEN Enter(k, "attachTarget", t, client)
     ELSE Enter(k, "done", NoTarget, NoConn)
  /\ UNCHANGED <<sessionVars, conn, watchVars, page, doomed, alive, unheard, tangled>>

(* Not attached is an error, a cached page is the answer; else the mutex   *)
(* is kept while NewPage talks to Chrome.                                  *)
Page(k, t) ==
  /\ "page" \in Tools /\ mu = Nobody
  /\ IF client # NoConn /\ pages[t] = NoPage
     THEN mu' = k /\ Enter(k, "attachTarget", t, client)
     ELSE Enter(k, "done", NoTarget, NoConn) /\ UNCHANGED mu
  /\ UNCHANGED <<client, closer, pages, conn, watchVars, page, doomed, alive, unheard, tangled>>

(* The round trips of NewPage: attachToTarget, and the enables, of which   *)
(* the last counts.  They succeed only while the tab and the link live.    *)
Answered(k) ==
  /\ \/ pc[k] = "attachTarget" /\ Goto(k, "enable")
     \/ pc[k] = "enable" /\ Goto(k, "store")
  /\ conn[link[k]] = "open" /\ tab[k] \in alive
  /\ UNCHANGED <<sessionVars, conn, watchVars, page, doomed, alive, unheard, tangled>>

(* Mutant: the way out on an error does not release the mutex.             *)
NewPageFailsLocked(k) ==
  /\ pc[k] \in {"attachTarget", "enable"}
  /\ Return(k)
  /\ UNCHANGED <<sessionVars, conn, watchVars, page, doomed, alive, unheard, tangled>>

(* Any of them may fail - Chrome refuses, the link is lost, the caller's   *)
(* context ends - and nothing is cached; Chrome's side stays attached.     *)
NewPageFails(k) ==
  /\ pc[k] \in {"attachTarget", "enable"}
  /\ mu' = Nobody
  /\ Return(k)
  /\ UNCHANGED <<client, closer, pages, conn, watchVars, page, doomed, alive, unheard, tangled>>

(* The collectors start, the page is cached, the mutex is released.        *)
StorePage(k) ==
  /\ pc[k] = "store"
  /\ page' = [page EXCEPT ![k] = [tab |-> tab[k], via |-> link[k], state |-> "open"]]
  /\ pages' = [pages EXCEPT ![tab[k]] = k]
  /\ mu' = Nobody
  /\ Return(k)
  /\ UNCHANGED <<client, closer, conn, watchVars, doomed, alive, unheard, tangled>>

-------------------------------------------------------------------------------
(* Tabs end, and watchers hear of it.                                      *)

Hears(c) == watch[c] = "on" /\ conn[c] = "open" /\ Len(mail[c]) < ChanCap

(* targetDestroyed goes to the watchers of all open connections; a full    *)
(* channel drops it.                                                       *)
TabEnds(t) ==
  /\ t \in alive
  /\ alive' = alive \ {t}
  /\ mail' = [c \in Conns |-> IF Hears(c) THEN Append(mail[c], t) ELSE mail[c]]
  /\ unheard' = IF \E c \in Conns : Hears(c) THEN unheard ELSE unheard \cup {t}

(* browser_close_tab reads the client.                                     *)
CloseTab(k, t) ==
  /\ "closeTab" \in Tools /\ mu = Nobody
  /\ IF client = NoConn THEN Enter(k, "done", NoTarget, NoConn)
     ELSE Enter(k, "closeTarget", t, client)
  /\ UNCHANGED <<sessionVars, conn, watchVars, page, doomed, alive, unheard, tangled>>

CloseTarget(k) ==
  /\ pc[k] = "closeTarget" /\ conn[link[k]] = "open"
  /\ TabEnds(tab[k])
  /\ Goto(k, "drop")
  /\ UNCHANGED <<sessionVars, conn, watch, reaping, page, doomed, tangled>>

(* Also when the tab was gone already: then nothing is dropped here.       *)
CloseTargetFails(k) ==
  /\ pc[k] = "closeTarget"
  /\ Return(k)
  /\ UNCHANGED <<sessionVars, conn, watchVars, page, doomed, alive, unheard, tangled>>

(* DropPage takes the page out of the map; it is closed after the unlock.  *)
TakeOut(a, t) ==
  /\ mu = Nobody
  /\ pages' = [pages EXCEPT ![t] = NoPage]
  /\ doomed' = [doomed EXCEPT ![a] = {pages[t]} \ {NoPage}]

DropPage(k) ==
  /\ pc[k] = "drop"
  /\ TakeOut(k, tab[k])
  /\ Goto(k, "closing")
  /\ UNCHANGED <<client, closer, mu, conn, watchVars, page, alive, unheard, tangled>>

(* The watcher's loop.  A stop closes done and ends the subscription; the  *)
(* select may still choose an event that is there.                         *)
TakeMail(c) ==
  /\ watch[c] \in {"on", "stopping"} /\ mail[c] # << >>
  /\ reaping[c] = NoTarget /\ doomed[c] = {}
  /\ reaping' = [reaping EXCEPT ![c] = Head(mail[c])]
  /\ mail' = [mail EXCEPT ![c] = Tail(@)]
  /\ UNCHANGED <<sessionVars, conn, watch, page, doomed, callVars, alive, unheard, tangled>>

(* Mutant: the watcher does not wait for a mutex that is held.             *)
ReapUnlessBusy(c) ==
  /\ reaping[c] # NoTarget
  /\ IF mu = Nobody THEN TakeOut(c, reaping[c]) ELSE UNCHANGED <<pages, doomed>>
  /\ reaping' = [reaping EXCEPT ![c] = NoTarget]
  /\ UNCHANGED <<client, closer, mu, conn, watch, mail, page, callVars, alive, unheard, tangled>>

(* Mutant: the watcher serves one event and returns.                       *)
ReapOnce(c) ==
  /\ reaping[c] # NoTarget
  /\ TakeOut(c, reaping[c])
  /\ reaping' = [reaping EXCEPT ![c] = NoTarget]
  /\ watch' = [watch EXCEPT ![c] = "ended"]
  /\ UNCHANGED <<client, closer, mu, conn, mail, page, callVars, alive, unheard, tangled>>

Reap(c) ==
  /\ reaping[c] # NoTarget
  /\ TakeOut(c, reaping[c])
  /\ reaping' = [reaping EXCEPT ![c] = NoTarget]
  /\ UNCHANGED <<client, closer, mu, conn, watch, mail, page, callVars, alive, unheard, tangled>>

CloseReaped(c) ==
  /\ doomed[c] # {}
  /\ ClosePages(c)
  /\ UNCHANGED <<sessionVars, conn, watchVars, callVars, alive, unheard, tangled>>

WatcherEnds(c) ==
  /\ watch[c] = "stopping" /\ reaping[c] = NoTarget /\ doomed[c] = {}
  /\ watch' = [watch EXCEPT ![c] = "ended"]
  /\ mail' = [mail EXCEPT ![c] = << >>]
  /\ UNCHANGED <<sessionVars, conn, reaping, page, doomed, callVars, alive, unheard, tangled>>

-------------------------------------------------------------------------------
(* The user and the network, who rest when every call is done.             *)
Busy == \E k \in Calls : pc[k] # "done"

UserClosesTab(t) ==
  /\ Busy
  /\ TabEnds(t)
  /\ UNCHANGED <<sessionVars, conn, watch, reaping, page, doomed, callVars, tangled>>

LinkLost(c) ==
  /\ Busy
  /\ conn[c] = "open"
  /\ conn' = [conn EXCEPT ![c] = "closed"]
  /\ UNCHANGED <<sessionVars, watchVars, page, doomed, callVars, alive, unheard, tangled>>

-------------------------------------------------------------------------------
(* A call that has begun gets on; a round trip ends in one way or another. *)
CallStep(k) ==
  \/ SetClient(k) \/ Discover(k) \/ Watch(k) \/ SetClientCloser(k)
  \/ CloseTaken(k) \/ Answered(k) \/ NewPageFails(k) \/ StorePage(k)
  \/ CloseTarget(k) \/ CloseTargetFails(k) \/ DropPage(k)

WatcherStep(c) == TakeMail(c) \/ Reap(c) \/ CloseReaped(c) \/ WatcherEnds(c)

Begin(k) ==
  \/ \E c \in Conns : Dial(k, c)
  \/ Clear(k)
  \/ \E t \in Targets : Page(k, t) \/ CloseTab(k, t)

Next ==
  \/ \E k \in Calls : Begin(k) \/ CallStep(k)
  \/ \E c \in Conns : WatcherStep(c) \/ LinkLost(c)
  \/ \E t \in Targets : UserClosesTab(t)

Spec == Init /\ [][Next]_vars

(* What has begun goes on: the calls and the watchers.                     *)
(* No step is ever undone, so each runs only finitely often and fairness   *)
(* of all is fairness of each.                                             *)
Fairness ==
  /\ WF_vars(\E k \in Calls : CallStep(k))
  /\ WF_vars(\E c \in Conns : WatcherStep(c))

FairSpec == Spec /\ Fairness

-------------------------------------------------------------------------------
TypeOK ==
  /\ client \in Conns \cup {NoConn}
  /\ closer \in Conns \cup {NoConn}
  /\ pages \in [Targets -> Calls \cup {NoPage}]
  /\ mu \in Calls \cup {Nobody}
  /\ conn \in [Conns -> {"new", "open", "closed"}]
  /\ watch \in [Conns -> {"none", "on", "stopping", "ended"}]
  /\ mail \in [Conns -> Seq(Targets)]
  /\ reaping \in [Conns -> Targets \cup {NoTarget}]
  /\ page \in [Calls -> [tab : Targets \cup {NoTarget}, via : Conns \cup {NoConn},
                         state : {"none", "open", "closed"}]]
  /\ doomed \in [Actors -> SUBSET Calls]
  /\ pc \in [Calls -> {"idle", "set", "discover", "subscribe", "closer", "closing",
                       "attachTarget", "enable", "store", "closeTarget", "drop", "done"}]
  /\ tab \in [Calls -> Targets \cup {NoTarget}]
  /\ link \in [Calls -> Conns \cup {NoConn}]
  /\ alive \subseteq Targets
  /\ unheard \subseteq Targets \ alive
  /\ tangled \in BOOLEAN

(* A page that is open is the one cached for its tab, or somebody has      *)
(* taken it out and will close it; a cached page is never a closed one.    *)
(* So no page is left running outside the map, whatever meets in           *)
(* Session.Page, DropPage and Clear.                                       *)
OpenPagesAreCached ==
  \A p \in Calls :
    /\ page[p].state = "open" <=> p \in Cached \/ \E a \in Actors : p \in doomed[a]
    /\ p \in Cached => pages[page[p].tab] = p
    /\ \A a \in Actors : p \in doomed[a] =>
         p \notin Cached /\ \A b \in Actors : p \in doomed[b] => a = b

(* Unless an attach ran into another client or a detach, the pages the     *)
(* session hands out are bound to the client it holds: none survives a     *)
(* detach, none is made on a client that was replaced meanwhile.           *)
PagesAreOfTheClient ==
  ~tangled => \A t \in Targets : pages[t] # NoPage => page[pages[t]].via = client

(* With the same exception, what an attach acquired is the session's to    *)
(* release: an open connection or a running watcher is that of the client, *)
(* or of an attach still on its way.                                       *)
NothingOutlivesDetach ==
  ~tangled => \A c \in Conns :
    /\ conn[c] = "open" => client = c \/ \E k \in Calls : pc[k] = "set" /\ link[k] = c
    /\ watch[c] = "on" => client = c /\ (closer = c \/ Attaching(c) # {})

(* The page of a tab that is gone is on its way out: its end is in a       *)
(* watcher's channel or hand, or the call that closed it is about to drop  *)
(* it - unless no watcher was told, or the channel was full.               *)
DeadPagesAreOnTheirWayOut ==
  \A t \in Targets \ (alive \cup unheard) :
    pages[t] # NoPage =>
      \E c \in Conns : watch[c] = "on" /\ (reaping[c] = t \/ InMail(c, t))

(* Every call returns, whatever the others do: none is left waiting for a  *)
(* mutex, although Session.Page keeps it while it waits for Chrome.        *)
CallsReturn == <>[](\A k \in Calls : pc[k] \in {"idle", "done"})

(* In the end each tab whose end was told to a watcher has lost its page.  *)
ReportedTabsAreReaped == <>[](\A t \in Targets \ (alive \cup unheard) : pages[t] = NoPage)

(* Claimed in browser_targets.go:161-163 and README.md:335: the page of a  *)
(* tab the user closes is reaped, as long as there is a connection to hear *)
(* it on.                                                                  *)
UserClosedTabsAreReaped ==
  \A t \in Targets :
    (t \notin alive /\ pages[t] # NoPage) ~> (pages[t] = NoPage \/ \A c \in Conns : conn[c] # "open")
===============================================================================
