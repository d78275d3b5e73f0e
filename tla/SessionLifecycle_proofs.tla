----------------------- MODULE SessionLifecycle_proofs -----------------------
(***************************************************************************)
(* Proofs about SessionLifecycle: that its safety invariants hold for any  *)
(* number of tabs, connections and calls and any channel capacity.         *)
(*                                                                         *)
(* They need more than they say.  A page is cached under its own tab, and  *)
(* an attach that is on its way has its connection to itself (PageInv,     *)
(* AttachInv); a call in NewPage holds the mutex, so its client and the    *)
(* hole in the map stay as it found them (CallInv); and a call about to    *)
(* store the page of a tab that just ended counts among those a watcher    *)
(* still has to deal with (DeadInv).                                       *)
(***************************************************************************)
EXTENDS SessionLifecycle, TLAPS

Making == {"attachTarget", "enable", "store"}
Early  == {"set", "discover", "subscribe"}

CallOK(k) ==
  /\ pc[k] \in Making =>
       /\ mu = k /\ link[k] = client /\ link[k] \in Conns
       /\ tab[k] \in Targets /\ pages[tab[k]] = NoPage
       /\ page[k].state = "none"
  /\ pc[k] = "idle" => page[k].state = "none"
  /\ pc[k] \in {"closeTarget", "drop"} => tab[k] \in Targets
  /\ doomed[k] # {} => pc[k] = "closing"

CallInv == \A k \in Calls : CallOK(k)

ReapInv == \A c \in Conns : reaping[c] # NoTarget => doomed[c] = {}

PageInv ==
  \A t \in Targets : pages[t] # NoPage =>
    page[pages[t]].tab = t /\ page[pages[t]].via \in Conns

AttachInv ==
  /\ \A k \in Calls :
       /\ pc[k] \in Early \cup {"closer"} => link[k] \in Conns /\ conn[link[k]] # "new"
       /\ pc[k] \in Early => watch[link[k]] = "none" /\ closer # link[k]
       /\ ~tangled /\ pc[k] \in {"discover", "subscribe", "closer"} => link[k] = client
       /\ \A j \in Calls :
            (pc[k] \in Early \cup {"closer"} /\ pc[j] \in Early \cup {"closer"}
              /\ link[k] = link[j]) => k = j
  /\ \A c \in Conns : conn[c] = "new" => watch[c] = "none" /\ closer # c

WatchInv ==
  ~tangled => \A c \in Conns :
    /\ conn[c] = "open" => client = c \/ \E k \in Calls : pc[k] = "set" /\ link[k] = c
    /\ watch[c] = "on" =>
         client = c /\ (closer = c \/ \E k \in Calls : pc[k] = "closer" /\ link[k] = c)

DeadInv ==
  \A t \in Targets \ (alive \cup unheard) :
    (pages[t] # NoPage \/ \E k \in Calls : pc[k] = "store" /\ tab[k] = t) =>
      \E c \in Conns : watch[c] = "on" /\ (reaping[c] = t \/ InMail(c, t))

IInv ==
  /\ TypeOK /\ CallInv /\ ReapInv /\ PageInv
  /\ OpenPagesAreCached /\ PagesAreOfTheClient
  /\ AttachInv /\ WatchInv /\ DeadInv

-------------------------------------------------------------------------------
(* The kinds of step, named once.                                          *)
Step(k) ==
  \/ \E c \in Conns : Dial(k, c)
  \/ \E t \in Targets : Page(k, t) \/ CloseTab(k, t)
  \/ Clear(k) \/ CallStep(k)

LEMMA NextSteps ==
  ASSUME Next
  PROVE  \/ \E k \in Calls : Step(k)
         \/ \E c \in Conns : WatcherStep(c) \/ LinkLost(c)
         \/ \E t \in Targets : UserClosesTab(t)
BY DEF Next, Begin, Step

(* What a call's beginning changes of the call.                            *)
LEMMA EnterEffect ==
  ASSUME NEW k, NEW l, NEW t, NEW c, Enter(k, l, t, c)
  PROVE  /\ pc[k] = "idle"
         /\ pc' = [pc EXCEPT ![k] = l]
         /\ tab' = [tab EXCEPT ![k] = t]
         /\ link' = [link EXCEPT ![k] = c]
BY DEF Enter

Labels == {"idle", "set", "discover", "subscribe", "closer", "closing",
           "attachTarget", "enable", "store", "closeTarget", "drop", "done"}

CallTypes ==
  /\ pc \in [Calls -> Labels]
  /\ tab \in [Calls -> Targets \cup {NoTarget}]
  /\ link \in [Calls -> Conns \cup {NoConn}]

LEMMA EnterAt ==
  ASSUME TypeOK, NEW k \in Calls, NEW l, NEW t, NEW c, Enter(k, l, t, c)
  PROVE  /\ pc[k] = "idle" /\ pc'[k] = l /\ tab'[k] = t /\ link'[k] = c
         /\ \A j \in Calls : j # k => pc'[j] = pc[j] /\ tab'[j] = tab[j] /\ link'[j] = link[j]
BY EnterEffect DEF TypeOK

LEMMA EnterTypes ==
  ASSUME TypeOK, NEW k \in Calls, NEW l \in Labels, NEW t \in Targets \cup {NoTarget},
         NEW c \in Conns \cup {NoConn}, Enter(k, l, t, c)
  PROVE  CallTypes'
<1>1. CallTypes
  BY DEF TypeOK, CallTypes, Labels
<1> QED
  BY <1>1, EnterEffect DEF CallTypes

Pages == [tab : Targets \cup {NoTarget}, via : Conns \cup {NoConn},
          state : {"none", "open", "closed"}]

LEMMA ClosedPageIsPage ==
  ASSUME NEW p \in Pages
  PROVE  [p EXCEPT !.state = "closed"] \in Pages
BY DEF Pages

(* Every step keeps the types.                                             *)
LEMMA TypeCallStep ==
  ASSUME TypeOK, CallInv, NEW k \in Calls, Step(k)
  PROVE  TypeOK'
<1> USE SessionLifecycleAssumption
<1>1. ASSUME NEW c \in Conns, Dial(k, c) PROVE TypeOK'
  <2>1. /\ conn' \in [Conns -> {"new", "open", "closed"}]
        /\ UNCHANGED <<client, closer, pages, mu, watch, mail, reaping, page, doomed,
                       alive, unheard, tangled>>
    BY <1>1 DEF TypeOK, Dial, sessionVars, watchVars
  <2>2. CallTypes'
    <3>1. Enter(k, "set", NoTarget, c) \/ Enter(k, "done", NoTarget, NoConn)
      BY <1>1 DEF Dial
    <3> QED
      BY <3>1, EnterTypes DEF Labels
  <2> QED
    BY <2>1, <2>2 DEF TypeOK, CallTypes, Labels
<1>2. CASE SetClient(k)
  BY <1>2 DEF TypeOK, SetClient, Goto, watchVars
<1>3. CASE Discover(k)
  BY <1>3 DEF TypeOK, Discover, Goto, Return, sessionVars, watchVars
<1>4. CASE Watch(k)
  BY <1>4 DEF TypeOK, Watch, Goto, sessionVars
<1>5. CASE SetClientCloser(k)
  BY <1>5 DEF TypeOK, SetClientCloser, Return, watchVars
<1>6. CASE Clear(k)
  <2>1. Cached \subseteq Calls
    BY DEF TypeOK, Cached
  <2>2. k \in Actors
    BY DEF Actors
  <2>3. doomed' \in [Actors -> SUBSET Calls]
    BY <1>6, <2>1, <2>2 DEF TypeOK, Clear
  <2>4. /\ conn' \in [Conns -> {"new", "open", "closed"}]
        /\ watch' \in [Conns -> {"none", "on", "stopping", "ended"}]
    BY <1>6 DEF TypeOK, Clear
  <2>5. closer' = NoConn /\ client' = NoConn /\ pages' \in [Targets -> Calls \cup {NoPage}]
    BY <1>6 DEF Clear
  <2>6. tangled' \in BOOLEAN
    BY <1>6 DEF TypeOK, Clear
  <2>7. /\ pc' = [pc EXCEPT ![k] = "closing"]
        /\ tab' = [tab EXCEPT ![k] = NoTarget]
        /\ link' = [link EXCEPT ![k] = NoConn]
        /\ UNCHANGED <<mu, mail, reaping, page, alive, unheard>>
    BY <1>6, EnterEffect DEF Clear
  <2> QED
    BY <2>3, <2>4, <2>5, <2>6, <2>7 DEF TypeOK
<1>7. CASE CloseTaken(k)
  <2>1. \A p \in Calls : page[p] \in Pages /\ [page[p] EXCEPT !.state = "closed"] \in Pages
    BY ClosedPageIsPage DEF TypeOK, Pages
  <2>2. page' \in [Calls -> Pages]
    BY <1>7, <2>1 DEF CloseTaken, ClosePages
  <2> QED
    BY <1>7, <2>2 DEF TypeOK, Pages, CloseTaken, ClosePages, Return, sessionVars, watchVars
<1>8. ASSUME NEW t \in Targets, Page(k, t) PROVE TypeOK'
  <2>1. CallTypes'
    <3>1. Enter(k, "attachTarget", t, client) \/ Enter(k, "done", NoTarget, NoConn)
      BY <1>8 DEF Page
    <3>2. client \in Conns \cup {NoConn}
      BY DEF TypeOK
    <3> QED
      BY <3>1, <3>2, EnterTypes DEF Labels
  <2> QED
    BY <1>8, <2>1 DEF TypeOK, CallTypes, Labels, Page, sessionVars, watchVars
<1>9. CASE Answered(k)
  BY <1>9 DEF TypeOK, Answered, Goto, sessionVars, watchVars
<1>10. CASE NewPageFails(k)
  BY <1>10 DEF TypeOK, NewPageFails, Return, watchVars
<1>11. CASE StorePage(k)
  <2>1. page' \in [Calls -> [tab : Targets \cup {NoTarget}, via : Conns \cup {NoConn},
                             state : {"none", "open", "closed"}]]
    BY <1>11 DEF TypeOK, StorePage
  <2>2. tab[k] \in Targets
    BY <1>11 DEF CallInv, CallOK, Making, StorePage
  <2> QED
    BY <1>11, <2>1, <2>2 DEF TypeOK, StorePage, Return, watchVars
<1>12. ASSUME NEW t \in Targets, CloseTab(k, t) PROVE TypeOK'
  <2>1. CallTypes'
    <3>1. Enter(k, "closeTarget", t, client) \/ Enter(k, "done", NoTarget, NoConn)
      BY <1>12 DEF CloseTab
    <3>2. client \in Conns \cup {NoConn}
      BY DEF TypeOK
    <3> QED
      BY <3>1, <3>2, EnterTypes DEF Labels
  <2> QED
    BY <1>12, <2>1 DEF TypeOK, CallTypes, Labels, CloseTab, sessionVars, watchVars
<1>13. CASE CloseTarget(k)
  <2>1. tab[k] \in Targets /\ TabEnds(tab[k])
    BY <1>13 DEF TypeOK, CloseTarget, TabEnds
  <2>2. mail' \in [Conns -> Seq(Targets)]
    BY <2>1 DEF TypeOK, TabEnds
  <2> QED
    BY <1>13, <2>1, <2>2 DEF TypeOK, CloseTarget, TabEnds, Goto, sessionVars
<1>14. CASE CloseTargetFails(k)
  BY <1>14 DEF TypeOK, CloseTargetFails, Return, sessionVars, watchVars
<1>15. CASE DropPage(k)
  <2>1. k \in Actors
    BY DEF Actors
  <2>2. pages' \in [Targets -> Calls \cup {NoPage}]
    BY <1>15 DEF TypeOK, DropPage, TakeOut
  <2>3. {pages[tab[k]]} \ {NoPage} \subseteq Calls
    BY <1>15 DEF TypeOK, CallInv, CallOK, DropPage
  <2> QED
    BY <1>15, <2>1, <2>2, <2>3 DEF TypeOK, DropPage, TakeOut, Goto, watchVars
<1> QED
  BY <1>1, <1>2, <1>3, <1>4, <1>5, <1>6, <1>7, <1>8, <1>9, <1>10, <1>11, <1>12, <1>13,
     <1>14, <1>15 DEF Step, CallStep

LEMMA TypeOtherStepOfConn ==
  ASSUME TypeOK, NEW c \in Conns, WatcherStep(c) \/ LinkLost(c)
  PROVE  TypeOK'
<1> USE SessionLifecycleAssumption
<1>a. c \in Actors
  BY DEF Actors
<1>1. CASE TakeMail(c)
  <2>1. Head(mail[c]) \in Targets /\ Tail(mail[c]) \in Seq(Targets)
    BY <1>1 DEF TypeOK, TakeMail
  <2> QED
    BY <1>1, <2>1 DEF TypeOK, TakeMail, sessionVars, callVars
<1>2. CASE Reap(c)
  <2>1. reaping[c] \in Targets
    BY <1>2 DEF TypeOK, Reap
  <2>2. {pages[reaping[c]]} \ {NoPage} \subseteq Calls
    BY <2>1 DEF TypeOK
  <2> QED
    BY <1>2, <1>a, <2>1, <2>2 DEF TypeOK, Reap, TakeOut, callVars
<1>3. CASE CloseReaped(c)
  <2>1. \A p \in Calls : page[p] \in Pages /\ [page[p] EXCEPT !.state = "closed"] \in Pages
    BY ClosedPageIsPage DEF TypeOK, Pages
  <2>2. page' \in [Calls -> Pages]
    BY <1>3, <2>1 DEF CloseReaped, ClosePages
  <2> QED
    BY <1>3, <2>2 DEF TypeOK, Pages, CloseReaped, ClosePages, sessionVars, watchVars, callVars
<1>4. CASE WatcherEnds(c)
  BY <1>4 DEF TypeOK, WatcherEnds, sessionVars, callVars
<1>5. CASE LinkLost(c)
  BY <1>5 DEF TypeOK, LinkLost, sessionVars, watchVars, callVars
<1> QED
  BY <1>1, <1>2, <1>3, <1>4, <1>5 DEF WatcherStep

LEMMA TypeOtherStepOfUser ==
  ASSUME TypeOK, NEW t \in Targets, UserClosesTab(t)
  PROVE  TypeOK'
<1>1. mail' \in [Conns -> Seq(Targets)]
  BY DEF TypeOK, UserClosesTab, TabEnds
<1> QED
  BY <1>1 DEF TypeOK, UserClosesTab, TabEnds, sessionVars, callVars

-------------------------------------------------------------------------------
(* What the calls know: a step of one call changes nothing another one     *)
(* relies on, because the mutex is held from Page to StorePage.            *)
LEMMA CallFrame ==
  ASSUME CallInv, NEW j \in Calls,
         pc'[j] = pc[j], tab'[j] = tab[j], link'[j] = link[j],
         doomed'[j] = doomed[j], page[j].state = "none" => page'[j] = page[j],
         pc[j] \in Making => mu' = mu /\ client' = client /\ pages'[tab[j]] = pages[tab[j]]
  PROVE  CallOK(j)'
BY DEF CallInv, CallOK

(* Nobody is in NewPage while the mutex is free.                           *)
LEMMA FreeMutex ==
  ASSUME CallInv, mu = Nobody
  PROVE  \A j \in Calls : pc[j] \notin Making
BY SessionLifecycleAssumption DEF CallInv, CallOK

LEMMA CallInvCallStep ==
  ASSUME TypeOK, CallInv, OpenPagesAreCached, NEW k \in Calls, Step(k)
  PROVE  CallInv'
<1> SUFFICES ASSUME NEW j \in Calls PROVE CallOK(j)'
  BY DEF CallInv
<1> USE SessionLifecycleAssumption
<1>0. k \in Actors /\ j \in Actors /\ j \in DOMAIN page
  BY DEF Actors, TypeOK
<1>k. CallOK(k) /\ CallOK(j)
  BY DEF CallInv
<1>1. ASSUME NEW c \in Conns, Dial(k, c) PROVE CallOK(j)'
  <2>1. Enter(k, "set", NoTarget, c) \/ Enter(k, "done", NoTarget, NoConn)
    BY <1>1 DEF Dial
  <2>2. UNCHANGED <<client, pages, mu, page, doomed>>
    BY <1>1 DEF Dial, sessionVars
  <2>3. CASE j = k
    BY <1>k, <2>1, <2>2, <2>3, EnterAt DEF CallOK, Making
  <2>4. CASE j # k
    BY <2>1, <2>2, <2>4, EnterAt, CallFrame
  <2> QED
    BY <2>3, <2>4
<1>2. CASE SetClient(k)
  BY <1>2, <1>k, FreeMutex DEF CallOK, Making, TypeOK, SetClient, Goto
<1>3. CASE Discover(k)
  BY <1>3, <1>k DEF CallOK, Making, TypeOK, Discover, Goto, Return, sessionVars
<1>4. CASE Watch(k)
  BY <1>4, <1>k DEF CallOK, Making, TypeOK, Watch, Goto, sessionVars
<1>5. CASE SetClientCloser(k)
  BY <1>5, <1>k DEF CallOK, Making, TypeOK, SetClientCloser, Return
<1>6. CASE Clear(k)
  <2>1. Enter(k, "closing", NoTarget, NoConn) /\ mu = Nobody
    BY <1>6 DEF Clear
  <2>2. doomed' = [doomed EXCEPT ![k] = Cached] /\ UNCHANGED page
    BY <1>6 DEF Clear
  <2>3. CASE j = k
    BY <2>1, <2>3, EnterAt DEF CallOK, Making
  <2>4. CASE j # k
    <3>1. doomed'[j] = doomed[j]
      BY <1>0, <2>2, <2>4 DEF TypeOK
    <3> QED
      BY <2>1, <2>2, <2>4, <3>1, FreeMutex, EnterAt, CallFrame
  <2> QED
    BY <2>3, <2>4
<1>7. CASE CloseTaken(k)
  <2>1. page[j].state = "none" => page'[j] = page[j]
    BY <1>0, <1>7 DEF CloseTaken, ClosePages, OpenPagesAreCached
  <2>2. CASE j = k
    <3>1. pc'[k] = "done" /\ doomed'[k] = {}
      BY <1>0, <1>7 DEF CloseTaken, ClosePages, Return, TypeOK
    <3> QED
      BY <2>2, <3>1 DEF CallOK, Making
  <2>3. CASE j # k
    <3>1. pc'[j] = pc[j] /\ tab'[j] = tab[j] /\ link'[j] = link[j]
      BY <1>7, <2>3 DEF CloseTaken, Return, TypeOK
    <3>2. doomed'[j] = doomed[j]
      BY <1>0, <1>7, <2>3 DEF CloseTaken, ClosePages, TypeOK
    <3>3. UNCHANGED <<client, pages, mu>>
      BY <1>7 DEF CloseTaken, sessionVars
    <3> QED
      BY <2>1, <3>1, <3>2, <3>3, CallFrame
  <2> QED
    BY <2>2, <2>3
<1>8. ASSUME NEW t \in Targets, Page(k, t) PROVE CallOK(j)'
  <2>0. mu = Nobody /\ UNCHANGED <<client, pages, page, doomed>>
    BY <1>8 DEF Page
  <2>1. ASSUME client # NoConn, pages[t] = NoPage PROVE CallOK(j)'
    <3>1. mu' = k /\ Enter(k, "attachTarget", t, client)
      BY <1>8, <2>1 DEF Page
    <3>2. client \in Conns
      BY <2>1 DEF TypeOK
    <3>3. CASE j = k
      BY <1>k, <2>0, <2>1, <3>1, <3>2, <3>3, EnterAt DEF CallOK
    <3>4. CASE j # k
      BY <2>0, <3>1, <3>4, FreeMutex, EnterAt, CallFrame
    <3> QED
      BY <3>3, <3>4
  <2>2. ASSUME ~(client # NoConn /\ pages[t] = NoPage) PROVE CallOK(j)'
    <3>1. Enter(k, "done", NoTarget, NoConn)
      BY <1>8, <2>2 DEF Page
    <3>2. CASE j = k
      BY <1>k, <2>0, <3>1, <3>2, EnterAt DEF CallOK, Making
    <3>3. CASE j # k
      BY <2>0, <3>1, <3>3, FreeMutex, EnterAt, CallFrame
    <3> QED
      BY <3>2, <3>3
  <2> QED
    BY <2>1, <2>2
<1>9. CASE Answered(k)
  BY <1>9, <1>k DEF CallOK, Making, TypeOK, Answered, Goto, sessionVars
<1>10. CASE NewPageFails(k)
  BY <1>10, <1>k DEF CallOK, Making, TypeOK, NewPageFails, Return
<1>11. CASE StorePage(k)
  BY <1>11, <1>k DEF CallOK, Making, TypeOK, StorePage, Return
<1>12. ASSUME NEW t \in Targets, CloseTab(k, t) PROVE CallOK(j)'
  <2>1. Enter(k, "closeTarget", t, client) \/ Enter(k, "done", NoTarget, NoConn)
    BY <1>12 DEF CloseTab
  <2>2. UNCHANGED <<client, pages, mu, page, doomed>>
    BY <1>12 DEF CloseTab, sessionVars
  <2>3. CASE j = k
    BY <1>k, <2>1, <2>2, <2>3, EnterAt DEF CallOK, Making
  <2>4. CASE j # k
    BY <2>1, <2>2, <2>4, EnterAt, CallFrame
  <2> QED
    BY <2>3, <2>4
<1>13. CASE CloseTarget(k)
  BY <1>13, <1>k DEF CallOK, Making, TypeOK, CloseTarget, Goto, sessionVars
<1>14. CASE CloseTargetFails(k)
  BY <1>14, <1>k DEF CallOK, Making, TypeOK, CloseTargetFails, Return, sessionVars
<1>15. CASE DropPage(k)
  BY <1>0, <1>15, <1>k DEF CallOK, Making, TypeOK, DropPage, TakeOut, Goto
<1> QED
  BY <1>1, <1>2, <1>3, <1>4, <1>5, <1>6, <1>7, <1>8, <1>9, <1>10, <1>11, <1>12, <1>13,
     <1>14, <1>15 DEF Step, CallStep

LEMMA CallInvOtherStepOfConn ==
  ASSUME TypeOK, CallInv, OpenPagesAreCached, NEW c \in Conns, WatcherStep(c) \/ LinkLost(c)
  PROVE  CallInv'
<1> USE SessionLifecycleAssumption DEF Making
<1>0. c \in Actors /\ Calls \subseteq Actors /\ c \notin Calls
  BY DEF Actors
<1>1. CASE TakeMail(c)
  BY <1>1 DEF CallInv, CallOK, TakeMail, sessionVars, callVars
<1>2. CASE Reap(c)
  BY <1>0, <1>2 DEF CallInv, CallOK, TypeOK, Reap, TakeOut, callVars
<1>3. CASE CloseReaped(c)
  <2>1. \A p \in Calls : page[p].state = "none" => page'[p] = page[p]
    BY <1>0, <1>3 DEF OpenPagesAreCached, CloseReaped, ClosePages
  <2> QED
    BY <1>0, <1>3, <2>1 DEF CallInv, CallOK, TypeOK, CloseReaped, ClosePages, sessionVars, callVars
<1>4. CASE WatcherEnds(c)
  BY <1>4 DEF CallInv, CallOK, WatcherEnds, sessionVars, callVars
<1>5. CASE LinkLost(c)
  BY <1>5 DEF CallInv, CallOK, LinkLost, sessionVars, callVars
<1> QED
  BY <1>1, <1>2, <1>3, <1>4, <1>5 DEF WatcherStep

LEMMA CallInvOtherStepOfUser ==
  ASSUME CallInv, NEW t \in Targets, UserClosesTab(t)
  PROVE  CallInv'
BY DEF CallInv, CallOK, Making, UserClosesTab, sessionVars, callVars

-------------------------------------------------------------------------------
(* The books on pages: a page enters the map in StorePage, leaves it to    *)
(* one holder in DropPage, Reap or Clear, and is closed by that holder.    *)
Books == <<pages, page, doomed>>
BookInv == PageInv /\ OpenPagesAreCached

LEMMA CachedMeans ==
  ASSUME TypeOK, NEW p \in Calls
  PROVE  p \in Cached <=> \E t \in Targets : pages[t] = p
BY SessionLifecycleAssumption DEF Cached

LEMMA BooksFrame ==
  ASSUME BookInv, UNCHANGED Books
  PROVE  BookInv'
BY DEF BookInv, Books, PageInv, OpenPagesAreCached, Cached

(* Taking the page of one tab out of the map, to close it.                 *)
LEMMA BooksTakeOut ==
  ASSUME TypeOK, TypeOK', BookInv, NEW a \in Actors, NEW t \in Targets, TakeOut(a, t),
         doomed[a] = {}, UNCHANGED page
  PROVE  BookInv'
<1> USE SessionLifecycleAssumption
<1>1. /\ pages'[t] = NoPage
      /\ \A u \in Targets : u # t => pages'[u] = pages[u]
      /\ doomed'[a] = {pages[t]} \ {NoPage}
      /\ \A b \in Actors : b # a => doomed'[b] = doomed[b]
  BY DEF TypeOK, TakeOut
<1>2. PageInv'
  BY <1>1 DEF BookInv, PageInv
<1>3. \A p \in Calls : p \in Cached' <=> \E u \in Targets : pages'[u] = p
  BY DEF Cached
<1>4. ASSUME NEW p \in Calls, pages[t] = p
      PROVE  /\ p \notin Cached' /\ p \in doomed'[a]
             /\ \A b \in Actors : b # a => p \notin doomed'[b]
             /\ page'[p].state = "open"
  <2>1. p \in Cached
    BY <1>4, CachedMeans
  <2>2. page[p].tab = t /\ page[p].state = "open" /\ \A b \in Actors : p \notin doomed[b]
    BY <1>4, <2>1 DEF BookInv, PageInv, OpenPagesAreCached
  <2>3. \A u \in Targets : pages[u] = p => u = t
    BY <1>4, <2>2 DEF BookInv, PageInv
  <2> QED
    BY <1>1, <1>3, <1>4, <2>2, <2>3
<1>5. ASSUME NEW p \in Calls, pages[t] # p
      PROVE  /\ p \in Cached' <=> p \in Cached
             /\ \A b \in Actors : p \in doomed'[b] <=> p \in doomed[b]
  BY <1>1, <1>3, <1>5, CachedMeans
<1>6. \A p \in Calls : p \in Cached' => pages'[page'[p].tab] = p
  BY <1>1, <1>2, <1>3 DEF PageInv
<1>7. OpenPagesAreCached'
  BY <1>4, <1>5, <1>6 DEF BookInv, OpenPagesAreCached
<1> QED
  BY <1>2, <1>7 DEF BookInv

(* Closing what was taken out.                                             *)
LEMMA BooksClose ==
  ASSUME TypeOK, TypeOK', BookInv, NEW a \in Actors, ClosePages(a), UNCHANGED pages
  PROVE  BookInv'
<1>1. /\ doomed'[a] = {} /\ \A b \in Actors : b # a => doomed'[b] = doomed[b]
      /\ \A p \in Calls : p \in doomed[a] => page'[p].state = "closed"
      /\ \A p \in Calls : p \notin doomed[a] => page'[p] = page[p]
      /\ \A p \in Calls : page'[p].tab = page[p].tab /\ page'[p].via = page[p].via
  BY DEF TypeOK, ClosePages
<1>2. Cached' = Cached
  BY DEF Cached
<1>3. PageInv'
  BY <1>1 DEF BookInv, PageInv, TypeOK
<1>4. OpenPagesAreCached'
  BY <1>1, <1>2 DEF BookInv, OpenPagesAreCached
<1> QED
  BY <1>3, <1>4 DEF BookInv

(* Clear takes all out at once.                                            *)
LEMMA BooksClear ==
  ASSUME TypeOK, CallInv, BookInv, NEW k \in Calls, Clear(k)
  PROVE  BookInv'
<1> USE SessionLifecycleAssumption
<1>1. doomed[k] = {} /\ k \in Actors
  BY EnterEffect DEF Clear, CallInv, CallOK, Actors
<1>2. /\ \A t \in Targets : pages'[t] = NoPage
      /\ doomed'[k] = Cached /\ \A b \in Actors : b # k => doomed'[b] = doomed[b]
      /\ UNCHANGED page
  BY <1>1 DEF Clear, TypeOK
<1>3. Cached' = {}
  BY <1>2 DEF Cached
<1>4. PageInv'
  BY <1>2 DEF PageInv
<1>5. OpenPagesAreCached'
  BY <1>1, <1>2, <1>3 DEF BookInv, OpenPagesAreCached
<1> QED
  BY <1>4, <1>5 DEF BookInv

(* StorePage finds the hole in the map that Page left, and a page that is  *)
(* nobody's yet.                                                           *)
LEMMA BooksStore ==
  ASSUME TypeOK, CallInv, BookInv, NEW k \in Calls, StorePage(k)
  PROVE  BookInv'
<1> USE SessionLifecycleAssumption
<1>1. /\ link[k] \in Conns /\ tab[k] \in Targets /\ pages[tab[k]] = NoPage
      /\ page[k].state = "none"
  BY DEF StorePage, CallInv, CallOK, Making
<1>2. /\ pages'[tab[k]] = k
      /\ \A t \in Targets : t # tab[k] => pages'[t] = pages[t]
      /\ page'[k] = [tab |-> tab[k], via |-> link[k], state |-> "open"]
      /\ \A p \in Calls : p # k => page'[p] = page[p]
      /\ UNCHANGED doomed
  BY <1>1 DEF StorePage, TypeOK
<1>3. k \notin Cached /\ \A a \in Actors : k \notin doomed[a]
  BY <1>1 DEF BookInv, OpenPagesAreCached
<1>4. \A p \in Calls : p \in Cached' <=> \E u \in Targets : pages'[u] = p
  BY DEF Cached
<1>5. \A t \in Targets : pages[t] # k
  BY <1>3, CachedMeans
<1>6. \A p \in Calls : p # k => (p \in Cached' <=> p \in Cached)
  BY <1>1, <1>2, <1>4, CachedMeans
<1>7. PageInv'
  BY <1>1, <1>2, <1>5 DEF BookInv, PageInv, TypeOK
<1>8. \A p \in Calls : p \in Cached' => pages'[page'[p].tab] = p
  BY <1>4, <1>7 DEF PageInv
<1>9. k \in Cached' /\ page'[k].state = "open"
  BY <1>1, <1>2, <1>4
<1>10. OpenPagesAreCached'
  BY <1>2, <1>3, <1>6, <1>8, <1>9 DEF BookInv, OpenPagesAreCached
<1> QED
  BY <1>7, <1>10 DEF BookInv

LEMMA BooksStep ==
  ASSUME TypeOK, TypeOK', CallInv, ReapInv, BookInv, Next
  PROVE  BookInv'
<1> USE DEF Books
<1>1. ASSUME NEW k \in Calls, Step(k) PROVE BookInv'
  <2>0. k \in Actors /\ CallOK(k)
    BY DEF Actors, CallInv
  <2>1. CASE Clear(k)
    BY <2>1, BooksClear
  <2>2. CASE CloseTaken(k)
    BY <2>0, <2>2, BooksClose DEF CloseTaken, sessionVars
  <2>3. CASE StorePage(k)
    BY <2>3, BooksStore
  <2>4. CASE DropPage(k)
    BY <2>0, <2>4, BooksTakeOut DEF DropPage, CallOK
  <2>5. CASE \/ \E c \in Conns : Dial(k, c)
             \/ \E t \in Targets : Page(k, t) \/ CloseTab(k, t)
    BY <2>5, BooksFrame DEF Dial, Page, CloseTab, sessionVars
  <2>6. CASE SetClient(k) \/ Discover(k) \/ Watch(k) \/ SetClientCloser(k)
    BY <2>6, BooksFrame DEF SetClient, Discover, Watch, SetClientCloser, sessionVars
  <2>7. CASE Answered(k) \/ NewPageFails(k) \/ CloseTarget(k) \/ CloseTargetFails(k)
    BY <2>7, BooksFrame DEF Answered, NewPageFails, CloseTarget, CloseTargetFails, sessionVars
  <2> QED
    BY <1>1, <2>1, <2>2, <2>3, <2>4, <2>5, <2>6, <2>7 DEF Step, CallStep
<1>2. ASSUME NEW c \in Conns, WatcherStep(c) PROVE BookInv'
  <2>0. c \in Actors
    BY DEF Actors
  <2>1. CASE Reap(c)
    <3>1. reaping[c] \in Targets /\ doomed[c] = {}
      BY <2>1 DEF Reap, TypeOK, ReapInv
    <3> QED
      BY <2>0, <2>1, <3>1, BooksTakeOut DEF Reap
  <2>2. CASE CloseReaped(c)
    BY <2>0, <2>2, BooksClose DEF CloseReaped, sessionVars
  <2>3. CASE TakeMail(c) \/ WatcherEnds(c)
    BY <2>3, BooksFrame DEF TakeMail, WatcherEnds, sessionVars
  <2> QED
    BY <1>2, <2>1, <2>2, <2>3 DEF WatcherStep
<1>3. ASSUME NEW c \in Conns, LinkLost(c) PROVE BookInv'
  BY <1>3, BooksFrame DEF LinkLost, sessionVars
<1>4. ASSUME NEW t \in Targets, UserClosesTab(t) PROVE BookInv'
  BY <1>4, BooksFrame DEF UserClosesTab, sessionVars
<1> QED
  BY <1>1, <1>2, <1>3, <1>4, NextSteps

(* A watcher that has a tab in hand has no page in hand.                   *)
LEMMA ReapStep ==
  ASSUME TypeOK, ReapInv, Next
  PROVE  ReapInv'
<1> SUFFICES ASSUME NEW d \in Conns, reaping'[d] # NoTarget PROVE doomed'[d] = {}
  BY DEF ReapInv
<1> USE SessionLifecycleAssumption
<1>0. d \in Actors /\ d \notin Calls /\ Calls \subseteq Actors /\ Conns \subseteq Actors
  BY DEF Actors
<1>1. ASSUME NEW k \in Calls, Step(k) PROVE doomed'[d] = {}
  <2>1. reaping'[d] = reaping[d] /\ doomed'[d] = doomed[d]
    <3>1. CASE Clear(k) \/ CloseTaken(k) \/ DropPage(k)
      BY <1>0, <3>1 DEF Clear, CloseTaken, DropPage, ClosePages, TakeOut, TypeOK, watchVars
    <3>2. CASE \/ \E c \in Conns : Dial(k, c)
               \/ \E t \in Targets : Page(k, t) \/ CloseTab(k, t)
      BY <3>2 DEF Dial, Page, CloseTab, watchVars
    <3>3. CASE SetClient(k) \/ Discover(k) \/ Watch(k) \/ SetClientCloser(k)
      BY <3>3 DEF SetClient, Discover, Watch, SetClientCloser, watchVars
    <3>4. CASE Answered(k) \/ NewPageFails(k) \/ StorePage(k) \/ CloseTarget(k) \/ CloseTargetFails(k)
      BY <3>4 DEF Answered, NewPageFails, StorePage, CloseTarget, CloseTargetFails, watchVars
    <3> QED
      BY <1>1, <3>1, <3>2, <3>3, <3>4 DEF Step, CallStep
  <2> QED
    BY <2>1 DEF ReapInv
<1>2. ASSUME NEW c \in Conns, WatcherStep(c) PROVE doomed'[d] = {}
  <2>1. CASE TakeMail(c)
    BY <2>1 DEF TakeMail, ReapInv, TypeOK
  <2>2. CASE Reap(c)
    BY <1>0, <2>2 DEF Reap, TakeOut, ReapInv, TypeOK
  <2>3. CASE CloseReaped(c)
    BY <1>0, <2>3 DEF CloseReaped, ClosePages, ReapInv, TypeOK, watchVars
  <2>4. CASE WatcherEnds(c)
    BY <2>4 DEF WatcherEnds, ReapInv
  <2> QED
    BY <1>2, <2>1, <2>2, <2>3, <2>4 DEF WatcherStep
<1>3. ASSUME NEW c \in Conns, LinkLost(c) PROVE doomed'[d] = {}
  BY <1>3 DEF LinkLost, watchVars, ReapInv
<1>4. ASSUME NEW t \in Targets, UserClosesTab(t) PROVE doomed'[d] = {}
  BY <1>4 DEF UserClosesTab, ReapInv
<1> QED
  BY <1>1, <1>2, <1>3, <1>4, NextSteps

-------------------------------------------------------------------------------
(* The pages handed out are of the client: SetClient finds no page on the  *)
(* empty session, and StorePage still has the client that Page read.       *)
LEMMA ClosingKeepsVia ==
  ASSUME TypeOK, NEW a, ClosePages(a)
  PROVE  \A p \in Calls : page'[p].via = page[p].via
BY DEF TypeOK, ClosePages

LEMMA PagesAreOfTheClientStep ==
  ASSUME TypeOK, CallInv, PageInv, PagesAreOfTheClient, Next
  PROVE  PagesAreOfTheClient'
<1> USE SessionLifecycleAssumption
<1>1. ASSUME NEW k \in Calls, Step(k) PROVE PagesAreOfTheClient'
  <2>1. CASE SetClient(k)
    <3>1. tangled' \/ (client = NoConn /\ ~tangled)
      BY <2>1 DEF SetClient
    <3>2. UNCHANGED <<pages, page>>
      BY <2>1 DEF SetClient
    <3> QED
      BY <3>1, <3>2 DEF PagesAreOfTheClient, PageInv
  <2>2. CASE Clear(k)
    BY <2>2 DEF Clear, PagesAreOfTheClient
  <2>3. CASE CloseTaken(k)
    <3>1. ClosePages(k) /\ UNCHANGED <<client, pages, tangled>>
      BY <2>3 DEF CloseTaken, sessionVars
    <3>2. \A p \in Calls : page'[p].via = page[p].via
      BY <3>1, ClosingKeepsVia
    <3> QED
      BY <3>1, <3>2 DEF PagesAreOfTheClient, TypeOK
  <2>4. CASE StorePage(k)
    <3>1. link[k] = client /\ tab[k] \in Targets
      BY <2>4 DEF StorePage, CallInv, CallOK, Making
    <3>2. page'[k].via = client /\ \A p \in Calls : p # k => page'[p] = page[p]
      BY <2>4, <3>1 DEF StorePage, TypeOK
    <3>3. \A t \in Targets : pages'[t] = k \/ pages'[t] = pages[t]
      BY <2>4, <3>1 DEF StorePage, TypeOK
    <3>4. UNCHANGED <<client, tangled>>
      BY <2>4 DEF StorePage
    <3>5. ASSUME ~tangled, NEW t \in Targets, pages'[t] # NoPage
          PROVE  page'[pages'[t]].via = client
      <4>1. CASE pages'[t] = k
        BY <3>2, <4>1
      <4>2. CASE pages'[t] # k
        BY <3>2, <3>3, <3>5, <4>2 DEF PagesAreOfTheClient, TypeOK
      <4> QED
        BY <4>1, <4>2
    <3> QED
      BY <3>4, <3>5 DEF PagesAreOfTheClient
  <2>5. CASE DropPage(k)
    BY <2>5 DEF DropPage, TakeOut, PagesAreOfTheClient, TypeOK
  <2>6. CASE \/ \E c \in Conns : Dial(k, c)
             \/ \E t \in Targets : Page(k, t) \/ CloseTab(k, t)
    BY <2>6 DEF Dial, Page, CloseTab, sessionVars, PagesAreOfTheClient
  <2>7. CASE Discover(k) \/ Watch(k) \/ SetClientCloser(k)
    BY <2>7 DEF Discover, Watch, SetClientCloser, sessionVars, PagesAreOfTheClient
  <2>8. CASE Answered(k) \/ NewPageFails(k) \/ CloseTarget(k) \/ CloseTargetFails(k)
    BY <2>8 DEF Answered, NewPageFails, CloseTarget, CloseTargetFails, sessionVars, PagesAreOfTheClient
  <2> QED
    BY <1>1, <2>1, <2>2, <2>3, <2>4, <2>5, <2>6, <2>7, <2>8 DEF Step, CallStep
<1>2. ASSUME NEW c \in Conns, WatcherStep(c) PROVE PagesAreOfTheClient'
  <2>1. CASE Reap(c)
    BY <2>1 DEF Reap, TakeOut, PagesAreOfTheClient, TypeOK
  <2>2. CASE CloseReaped(c)
    BY <2>2, ClosingKeepsVia DEF CloseReaped, sessionVars, PagesAreOfTheClient, TypeOK
  <2>3. CASE TakeMail(c) \/ WatcherEnds(c)
    BY <2>3 DEF TakeMail, WatcherEnds, sessionVars, PagesAreOfTheClient
  <2> QED
    BY <1>2, <2>1, <2>2, <2>3 DEF WatcherStep
<1>3. ASSUME NEW c \in Conns, LinkLost(c) PROVE PagesAreOfTheClient'
  BY <1>3 DEF LinkLost, sessionVars, PagesAreOfTheClient
<1>4. ASSUME NEW t \in Targets, UserClosesTab(t) PROVE PagesAreOfTheClient'
  BY <1>4 DEF UserClosesTab, sessionVars, PagesAreOfTheClient
<1> QED
  BY <1>1, <1>2, <1>3, <1>4, NextSteps

-------------------------------------------------------------------------------
(* An attach on its way has its connection to itself until the session     *)
(* takes it, and the session's client is released with its watcher.        *)
AttachVars == <<client, closer, conn, watch, tangled>>

LEMMA AttachFrame ==
  ASSUME AttachInv, WatchInv, UNCHANGED AttachVars,
         \A k \in Calls : pc'[k] # pc[k] =>
           /\ pc[k] \notin {"set", "closer"}
           /\ pc'[k] \notin Early \cup {"closer"} \/ (pc'[k] = "subscribe" /\ pc[k] = "discover"),
         \A k \in Calls : pc'[k] \in Early \cup {"closer"} => link'[k] = link[k]
  PROVE  AttachInv' /\ WatchInv'
<1> USE DEF AttachVars, Early
<1>1. AttachInv'
  BY DEF AttachInv
<1>2. WatchInv'
  BY DEF WatchInv
<1> QED
  BY <1>1, <1>2

(* A step of a call that is no attach, or that moves on in WatchTargets.   *)
LEMMA AttachFrameCall ==
  ASSUME AttachInv, WatchInv, UNCHANGED AttachVars, NEW k \in Calls,
         pc[k] \notin {"set", "closer"},
         \/ pc'[k] \notin Early \cup {"closer"}
         \/ pc'[k] = "subscribe" /\ pc[k] = "discover" /\ link'[k] = link[k],
         \A j \in Calls : j # k => pc'[j] = pc[j] /\ link'[j] = link[j]
  PROVE  AttachInv' /\ WatchInv'
<1>1. \A j \in Calls : pc'[j] # pc[j] =>
        /\ pc[j] \notin {"set", "closer"}
        /\ pc'[j] \notin Early \cup {"closer"} \/ (pc'[j] = "subscribe" /\ pc[j] = "discover")
  OBVIOUS
<1>2. \A j \in Calls : pc'[j] \in Early \cup {"closer"} => link'[j] = link[j]
  OBVIOUS
<1> QED
  BY <1>1, <1>2, AttachFrame

LEMMA AttachDial ==
  ASSUME TypeOK, AttachInv, WatchInv, NEW k \in Calls, NEW c \in Conns, Dial(k, c)
  PROVE  AttachInv' /\ WatchInv'
<1> USE SessionLifecycleAssumption DEF Early
<1>0. UNCHANGED <<client, closer, watch, tangled>> /\ conn[c] = "new"
  BY DEF Dial, sessionVars, watchVars
<1>1. ASSUME conn' = [conn EXCEPT ![c] = "open"], Enter(k, "set", NoTarget, c)
      PROVE  AttachInv' /\ WatchInv'
  <2>1. /\ conn'[c] = "open" /\ \A d \in Conns : d # c => conn'[d] = conn[d]
        /\ watch[c] = "none" /\ closer # c
    BY <1>0, <1>1 DEF TypeOK, AttachInv
  <2>2. \A j \in Calls : pc[j] \in Early \cup {"closer"} => link[j] # c
    BY <1>0 DEF AttachInv
  <2>3. AttachInv'
    BY <1>0, <1>1, <2>1, <2>2, EnterAt DEF AttachInv
  <2>4. WatchInv'
    BY <1>0, <1>1, <2>1, EnterAt DEF WatchInv
  <2> QED
    BY <2>3, <2>4
<1>2. ASSUME conn' = [conn EXCEPT ![c] = "closed"], Enter(k, "done", NoTarget, NoConn)
      PROVE  AttachInv' /\ WatchInv'
  <2>1. conn'[c] = "closed" /\ \A d \in Conns : d # c => conn'[d] = conn[d]
    BY <1>2 DEF TypeOK
  <2>2. AttachInv'
    BY <1>0, <1>2, <2>1, EnterAt DEF AttachInv
  <2>3. WatchInv'
    BY <1>0, <1>2, <2>1, EnterAt DEF WatchInv
  <2> QED
    BY <2>2, <2>3
<1> QED
  BY <1>1, <1>2 DEF Dial

LEMMA AttachSetClient ==
  ASSUME TypeOK, AttachInv, WatchInv, NEW k \in Calls, SetClient(k)
  PROVE  AttachInv' /\ WatchInv'
<1> USE SessionLifecycleAssumption DEF Early
<1>1. /\ client' = link[k] /\ UNCHANGED <<closer, conn, watch, link>>
      /\ pc[k] = "set" /\ pc'[k] = "discover"
      /\ \A j \in Calls : j # k => pc'[j] = pc[j]
      /\ tangled' \/ (client = NoConn /\ ~tangled)
  BY DEF SetClient, Goto, TypeOK, watchVars
<1>2. AttachInv'
  BY <1>1 DEF AttachInv
<1>3. WatchInv'
  BY <1>1 DEF WatchInv
<1> QED
  BY <1>2, <1>3

LEMMA AttachWatch ==
  ASSUME TypeOK, AttachInv, WatchInv, NEW k \in Calls, Watch(k)
  PROVE  AttachInv' /\ WatchInv'
<1> USE SessionLifecycleAssumption DEF Early
<1>1. link[k] \in Conns /\ conn[link[k]] # "new" /\ closer # link[k] /\ (~tangled => link[k] = client)
  BY DEF Watch, AttachInv
<1>2. /\ watch'[link[k]] = "on" /\ \A d \in Conns : d # link[k] => watch'[d] = watch[d]
      /\ UNCHANGED <<client, closer, conn, tangled, link>>
      /\ pc[k] = "subscribe" /\ pc'[k] = "closer"
      /\ \A j \in Calls : j # k => pc'[j] = pc[j]
  BY <1>1 DEF Watch, Goto, TypeOK, sessionVars
<1>3. AttachInv'
  BY <1>1, <1>2 DEF AttachInv
<1>4. WatchInv'
  BY <1>1, <1>2 DEF WatchInv
<1> QED
  BY <1>3, <1>4

LEMMA AttachCloser ==
  ASSUME TypeOK, AttachInv, WatchInv, NEW k \in Calls, SetClientCloser(k)
  PROVE  AttachInv' /\ WatchInv'
<1> USE SessionLifecycleAssumption DEF Early
<1>1. link[k] \in Conns /\ conn[link[k]] # "new" /\ (~tangled => link[k] = client)
  BY DEF SetClientCloser, AttachInv
<1>2. /\ closer' = link[k] /\ UNCHANGED <<client, watch, conn, tangled>>
      /\ pc[k] = "closer" /\ pc'[k] = "done"
      /\ \A j \in Calls : j # k => pc'[j] = pc[j] /\ link'[j] = link[j]
  BY <1>1 DEF SetClientCloser, Return, TypeOK, watchVars
<1>3. AttachInv'
  BY <1>1, <1>2 DEF AttachInv
<1>4. WatchInv'
  BY <1>1, <1>2 DEF WatchInv
<1> QED
  BY <1>3, <1>4

LEMMA AttachClear ==
  ASSUME TypeOK, AttachInv, WatchInv, NEW k \in Calls, Clear(k)
  PROVE  AttachInv' /\ WatchInv'
<1> USE SessionLifecycleAssumption DEF Early
<1>1. Enter(k, "closing", NoTarget, NoConn) /\ closer' = NoConn /\ client' = NoConn
  BY DEF Clear
<1>2. \A c \in Conns : conn'[c] = IF c = client THEN "closed" ELSE conn[c]
  BY DEF Clear, TypeOK
<1>3. \A c \in Conns : watch'[c] = IF c = closer /\ client # NoConn THEN "stopping" ELSE watch[c]
  BY DEF Clear, TypeOK
<1>4. \A c \in Conns, j \in Calls :
        ~tangled' /\ c = client /\ link[j] = c => pc[j] \notin {"discover", "subscribe", "closer"}
  BY DEF Clear, Attaching
<1>5. ~tangled' => ~tangled
  BY DEF Clear
<1>6. AttachInv'
  BY <1>1, <1>2, <1>3, <1>4, <1>5, EnterAt DEF AttachInv
<1>7. WatchInv'
  BY <1>1, <1>2, <1>3, <1>4, <1>5, EnterAt DEF WatchInv
<1> QED
  BY <1>6, <1>7

LEMMA AttachStep ==
  ASSUME TypeOK, AttachInv, WatchInv, Next
  PROVE  AttachInv' /\ WatchInv'
<1> USE SessionLifecycleAssumption
<1>1. ASSUME NEW k \in Calls, Step(k) PROVE AttachInv' /\ WatchInv'
  <2>1. CASE \E c \in Conns : Dial(k, c)
    BY <2>1, AttachDial
  <2>2. CASE SetClient(k) \/ Watch(k) \/ SetClientCloser(k) \/ Clear(k)
    BY <2>2, AttachSetClient, AttachWatch, AttachCloser, AttachClear
  <2>3. ASSUME NEW t \in Targets, Page(k, t) \/ CloseTab(k, t) PROVE AttachInv' /\ WatchInv'
    <3>1. \/ Enter(k, "attachTarget", t, client)
          \/ Enter(k, "closeTarget", t, client)
          \/ Enter(k, "done", NoTarget, NoConn)
      BY <2>3 DEF Page, CloseTab
    <3>2. UNCHANGED AttachVars
      BY <2>3 DEF Page, CloseTab, AttachVars, sessionVars, watchVars
    <3>3. /\ pc[k] = "idle" /\ pc'[k] \in {"attachTarget", "closeTarget", "done"}
          /\ \A j \in Calls : j # k => pc'[j] = pc[j] /\ link'[j] = link[j]
      BY <3>1, EnterAt
    <3>4. pc[k] \notin {"set", "closer"} /\ pc'[k] \notin Early \cup {"closer"}
      BY <3>3 DEF Early
    <3> QED
      BY <3>2, <3>3, <3>4, AttachFrameCall
  <2>4. CASE Discover(k) \/ Answered(k)
    <3>1. UNCHANGED AttachVars
      BY <2>4 DEF Discover, Answered, AttachVars, sessionVars, watchVars
    <3>2. /\ pc[k] \notin {"set", "closer"}
          /\ \/ pc'[k] \notin Early \cup {"closer"}
             \/ pc'[k] = "subscribe" /\ pc[k] = "discover" /\ link'[k] = link[k]
          /\ \A j \in Calls : j # k => pc'[j] = pc[j] /\ link'[j] = link[j]
      BY <2>4 DEF Discover, Answered, Goto, Return, TypeOK, Early
    <3> QED
      BY <3>1, <3>2, AttachFrameCall
  <2>5. CASE CloseTaken(k) \/ NewPageFails(k) \/ StorePage(k)
    <3>1. UNCHANGED AttachVars
      BY <2>5 DEF CloseTaken, NewPageFails, StorePage, AttachVars, sessionVars, watchVars
    <3>2. /\ pc[k] \notin {"set", "closer"} /\ pc'[k] \notin Early \cup {"closer"}
          /\ \A j \in Calls : j # k => pc'[j] = pc[j] /\ link'[j] = link[j]
      BY <2>5 DEF CloseTaken, NewPageFails, StorePage, Return, TypeOK, Early
    <3> QED
      BY <3>1, <3>2, AttachFrameCall
  <2>6. CASE CloseTarget(k) \/ CloseTargetFails(k) \/ DropPage(k)
    <3>1. UNCHANGED AttachVars
      BY <2>6 DEF CloseTarget, CloseTargetFails, DropPage, AttachVars, sessionVars, watchVars
    <3>2. /\ pc[k] \notin {"set", "closer"} /\ pc'[k] \notin Early \cup {"closer"}
          /\ \A j \in Calls : j # k => pc'[j] = pc[j] /\ link'[j] = link[j]
      BY <2>6 DEF CloseTarget, CloseTargetFails, DropPage, Goto, Return, TypeOK, Early
    <3> QED
      BY <3>1, <3>2, AttachFrameCall
  <2> QED
    BY <1>1, <2>1, <2>2, <2>3, <2>4, <2>5, <2>6 DEF Step, CallStep
<1>2. ASSUME NEW c \in Conns, TakeMail(c) \/ Reap(c) \/ CloseReaped(c) PROVE AttachInv' /\ WatchInv'
  BY <1>2, AttachFrame DEF TakeMail, Reap, CloseReaped, AttachVars, callVars, sessionVars, watchVars
<1>3. ASSUME NEW c \in Conns, WatcherEnds(c) PROVE AttachInv' /\ WatchInv'
  <2>1. /\ watch[c] = "stopping" /\ watch'[c] = "ended"
        /\ \A d \in Conns : d # c => watch'[d] = watch[d]
        /\ UNCHANGED <<client, closer, conn, tangled, pc, link>>
    BY <1>3 DEF WatcherEnds, TypeOK, sessionVars, callVars
  <2>2. AttachInv'
    BY <2>1 DEF AttachInv, Early
  <2>3. WatchInv'
    BY <2>1 DEF WatchInv
  <2> QED
    BY <2>2, <2>3
<1>4. ASSUME NEW c \in Conns, LinkLost(c) PROVE AttachInv' /\ WatchInv'
  <2>1. /\ conn[c] = "open" /\ conn'[c] = "closed"
        /\ \A d \in Conns : d # c => conn'[d] = conn[d]
        /\ UNCHANGED <<client, closer, watch, tangled, pc, link>>
    BY <1>4 DEF LinkLost, TypeOK, sessionVars, callVars, watchVars
  <2>2. AttachInv'
    BY <2>1 DEF AttachInv, Early
  <2>3. WatchInv'
    BY <2>1 DEF WatchInv
  <2> QED
    BY <2>2, <2>3
<1>5. ASSUME NEW t \in Targets, UserClosesTab(t) PROVE AttachInv' /\ WatchInv'
  BY <1>5, AttachFrame DEF UserClosesTab, AttachVars, callVars, sessionVars
<1> QED
  BY <1>1, <1>2, <1>3, <1>4, <1>5, NextSteps DEF WatcherStep

-------------------------------------------------------------------------------
(* The page of a tab that ended is somebody's job: the end is announced to *)
(* a channel with room, or counts as unheard, and only dropping the page   *)
(* consumes the announcement.                                              *)
Owed(t)      == pages[t] # NoPage \/ \E k \in Calls : pc[k] = "store" /\ tab[k] = t
Announced(t) == \E c \in Conns : watch[c] = "on" /\ (reaping[c] = t \/ InMail(c, t))
Told         == Targets \ (alive \cup unheard)

LEMMA DeadMeans ==
  DeadInv <=> \A t \in Told : Owed(t) => Announced(t)
BY DEF DeadInv, Told, Owed, Announced

LEMMA AnnouncedStays ==
  ASSUME NEW t, Announced(t), UNCHANGED <<mail, reaping>>,
         \A c \in Conns : watch[c] = "on" => watch'[c] = "on"
  PROVE  Announced(t)'
BY DEF Announced, InMail

(* Steps that owe no more than before and take no announcement away.       *)
LEMMA DeadFrame ==
  ASSUME DeadInv, UNCHANGED <<mail, reaping, alive, unheard>>,
         \A t \in Told : Owed(t)' => Owed(t),
         \A c \in Conns : watch[c] = "on" => watch'[c] = "on"
  PROVE  DeadInv'
<1>1. SUFFICES ASSUME NEW t \in Told', Owed(t)' PROVE Announced(t)'
  BY DEF DeadInv, Told, Owed, Announced
<1>2. t \in Told /\ Owed(t)
  BY <1>1 DEF Told
<1> QED
  BY <1>2, DeadMeans, AnnouncedStays

(* A tab's end goes to a channel, or counts as unheard.                    *)
LEMMA DeadTabEnds ==
  ASSUME TypeOK, DeadInv, NEW u \in Targets, TabEnds(u), UNCHANGED <<watch, reaping, pages>>,
         \A t \in Targets : Owed(t)' => Owed(t)
  PROVE  DeadInv'
<1>1. SUFFICES ASSUME NEW t \in Told', Owed(t)' PROVE Announced(t)'
  BY DEF DeadInv, Told, Owed, Announced
<1>2. \A c \in Conns : InMail(c, t) => InMail(c, t)'
  <2>1. SUFFICES ASSUME NEW c \in Conns, InMail(c, t) PROVE InMail(c, t)'
    OBVIOUS
  <2>2. mail[c] \in Seq(Targets) /\ (mail'[c] = mail[c] \/ mail'[c] = Append(mail[c], u))
    BY DEF TypeOK, TabEnds
  <2> QED
    BY <2>1, <2>2 DEF InMail
<1>3. CASE t = u
  <2>1. PICK c \in Conns : Hears(c)
    BY <1>1, <1>3 DEF TabEnds, Told
  <2>2. mail[c] \in Seq(Targets) /\ mail'[c] = Append(mail[c], u)
    BY <2>1 DEF TypeOK, TabEnds
  <2>3. InMail(c, u)'
    BY <2>2 DEF InMail
  <2> QED
    BY <1>3, <2>1, <2>3 DEF Hears, Announced
<1>4. CASE t # u
  <2>1. t \in Told /\ Owed(t)
    BY <1>1, <1>4 DEF Told, TabEnds
  <2>2. PICK c \in Conns : watch[c] = "on" /\ (reaping[c] = t \/ InMail(c, t))
    BY <2>1, DeadMeans DEF Announced
  <2> QED
    BY <1>2, <2>2 DEF Announced
<1> QED
  BY <1>3, <1>4

LEMMA DeadTakeMail ==
  ASSUME TypeOK, DeadInv, NEW c \in Conns, TakeMail(c)
  PROVE  DeadInv'
<1>1. SUFFICES ASSUME NEW t \in Told', Owed(t)' PROVE Announced(t)'
  BY DEF DeadInv, Told, Owed, Announced
<1>2. t \in Told /\ Owed(t)
  BY <1>1 DEF TakeMail, Told, Owed, sessionVars, callVars
<1>3. PICK d \in Conns : watch[d] = "on" /\ (reaping[d] = t \/ InMail(d, t))
  BY <1>2, DeadMeans DEF Announced
<1>4. watch' = watch
  BY DEF TakeMail
<1>5. CASE d # c
  <2>1. reaping'[d] = reaping[d] /\ mail'[d] = mail[d]
    BY <1>5 DEF TakeMail, TypeOK
  <2> QED
    BY <1>3, <1>4, <2>1 DEF Announced, InMail
<1>6. CASE d = c
  <2>1. /\ t \in Targets /\ mail[c] \in Seq(Targets) /\ mail[c] # << >> /\ reaping[c] = NoTarget
        /\ reaping'[c] = Head(mail[c]) /\ mail'[c] = Tail(mail[c])
    BY <1>1 DEF TakeMail, TypeOK, Told
  <2>2. PICK i \in 1 .. Len(mail[c]) : mail[c][i] = t
    BY <1>3, <1>6, <2>1, SessionLifecycleAssumption DEF InMail
  <2>3. CASE i = 1
    <3>1. reaping'[c] = t
      BY <2>1, <2>2, <2>3
    <3> QED
      BY <1>3, <1>4, <1>6, <3>1 DEF Announced
  <2>4. CASE i # 1
    <3>1. i - 1 \in 1 .. Len(mail'[c]) /\ mail'[c][i - 1] = t
      BY <2>1, <2>2, <2>4
    <3>2. InMail(c, t)'
      BY <3>1 DEF InMail
    <3> QED
      BY <1>3, <1>4, <1>6, <3>2 DEF Announced
  <2> QED
    BY <2>3, <2>4
<1> QED
  BY <1>5, <1>6

(* Reap needs the mutex, so no call is about to store the tab's page.      *)
LEMMA DeadReap ==
  ASSUME TypeOK, CallInv, DeadInv, NEW c \in Conns, Reap(c)
  PROVE  DeadInv'
<1> USE SessionLifecycleAssumption
<1>1. SUFFICES ASSUME NEW t \in Told', Owed(t)' PROVE Announced(t)'
  BY DEF DeadInv, Told, Owed, Announced
<1>2. /\ reaping[c] \in Targets /\ pages'[reaping[c]] = NoPage
      /\ \A u \in Targets : u # reaping[c] => pages'[u] = pages[u]
      /\ \A d \in Conns : d # c => reaping'[d] = reaping[d]
      /\ UNCHANGED <<watch, mail, pc, tab, alive, unheard>>
  BY DEF Reap, TakeOut, TypeOK, callVars
<1>3. \A k \in Calls : pc[k] # "store"
  BY FreeMutex DEF Reap, TakeOut, Making
<1>4. t \in Told /\ t # reaping[c] /\ Owed(t)
  BY <1>1, <1>2, <1>3 DEF Told, Owed
<1>5. PICK d \in Conns : watch[d] = "on" /\ (reaping[d] = t \/ InMail(d, t))
  BY <1>4, DeadMeans DEF Announced
<1> QED
  BY <1>2, <1>4, <1>5 DEF Announced, InMail

LEMMA DeadWatcherEnds ==
  ASSUME TypeOK, DeadInv, NEW c \in Conns, WatcherEnds(c)
  PROVE  DeadInv'
<1>1. SUFFICES ASSUME NEW t \in Told', Owed(t)' PROVE Announced(t)'
  BY DEF DeadInv, Told, Owed, Announced
<1>2. t \in Told /\ Owed(t)
  BY <1>1 DEF WatcherEnds, Told, Owed, sessionVars, callVars
<1>3. PICK d \in Conns : watch[d] = "on" /\ (reaping[d] = t \/ InMail(d, t))
  BY <1>2, DeadMeans DEF Announced
<1>4. d # c /\ watch'[d] = watch[d] /\ mail'[d] = mail[d] /\ reaping' = reaping
  BY <1>3 DEF WatcherEnds, TypeOK
<1> QED
  BY <1>3, <1>4 DEF Announced, InMail

(* Clear stops a watcher, but leaves no page and finds nobody storing one. *)
LEMMA DeadClear ==
  ASSUME TypeOK, CallInv, DeadInv, NEW k \in Calls, Clear(k)
  PROVE  DeadInv'
<1>1. \A j \in Calls : pc[j] # "store"
  BY FreeMutex DEF Clear, Making
<1>2. \A j \in Calls : pc'[j] # "store"
  BY <1>1, EnterAt DEF Clear
<1>3. \A t \in Targets : pages'[t] = NoPage
  BY DEF Clear
<1> QED
  BY <1>2, <1>3 DEF DeadInv

LEMMA DeadStep ==
  ASSUME TypeOK, CallInv, DeadInv, Next
  PROVE  DeadInv'
<1> USE SessionLifecycleAssumption
<1>1. ASSUME NEW k \in Calls, Step(k) PROVE DeadInv'
  <2>1. CASE Clear(k)
    BY <2>1, DeadClear
  <2>2. ASSUME NEW l \in {"set", "attachTarget", "closeTarget", "done"},
               NEW t \in Targets \cup {NoTarget}, NEW c \in Conns \cup {NoConn},
               Enter(k, l, t, c), UNCHANGED <<pages, watch, mail, reaping, alive, unheard>>
        PROVE  DeadInv'
    <3>1. \A u \in Told : Owed(u)' => Owed(u)
      BY <2>2, EnterAt DEF Owed
    <3> QED
      BY <2>2, <3>1, DeadFrame
  <2>3. CASE \E c \in Conns : Dial(k, c)
    BY <2>2, <2>3 DEF Dial, sessionVars, watchVars
  <2>4. CASE \E t \in Targets : Page(k, t) \/ CloseTab(k, t)
    <3>1. client \in Conns \cup {NoConn}
      BY DEF TypeOK
    <3> QED
      BY <2>2, <2>4, <3>1 DEF Page, CloseTab, sessionVars, watchVars
  <2>5. CASE SetClient(k) \/ Discover(k) \/ Watch(k) \/ SetClientCloser(k)
    <3>1. \A u \in Told : Owed(u)' => Owed(u)
      BY <2>5 DEF SetClient, Discover, Watch, SetClientCloser, Goto, Return, sessionVars, TypeOK, Owed
    <3>2. \A c \in Conns : watch[c] = "on" => watch'[c] = "on"
      BY <2>5 DEF SetClient, Discover, Watch, SetClientCloser, watchVars, TypeOK
    <3>3. UNCHANGED <<mail, reaping, alive, unheard>>
      BY <2>5 DEF SetClient, Discover, Watch, SetClientCloser, watchVars
    <3> QED
      BY <3>1, <3>2, <3>3, DeadFrame
  <2>6. CASE CloseTaken(k) \/ NewPageFails(k) \/ CloseTargetFails(k) \/ DropPage(k)
    <3>0. \A j \in Calls : pc'[j] = "store" => pc[j] = "store" /\ tab'[j] = tab[j]
      BY <2>6 DEF CloseTaken, NewPageFails, CloseTargetFails, DropPage, Goto, Return, TypeOK
    <3>a. \A u \in Targets : pages'[u] = pages[u] \/ pages'[u] = NoPage
      BY <2>6 DEF CloseTaken, NewPageFails, CloseTargetFails, DropPage, TakeOut, sessionVars, TypeOK
    <3>1. \A u \in Told : Owed(u)' => Owed(u)
      BY <3>0, <3>a DEF Owed, Told
    <3>2. UNCHANGED <<watch, mail, reaping, alive, unheard>>
      BY <2>6 DEF CloseTaken, NewPageFails, CloseTargetFails, DropPage, watchVars
    <3> QED
      BY <3>1, <3>2, DeadFrame
  <2>7. CASE Answered(k)
    <3>1. \A u \in Told : Owed(u)' => Owed(u)
      BY <2>7 DEF Answered, Goto, sessionVars, TypeOK, Owed, Told
    <3>2. UNCHANGED <<watch, mail, reaping, alive, unheard>>
      BY <2>7 DEF Answered, watchVars
    <3> QED
      BY <3>1, <3>2, DeadFrame
  <2>8. CASE StorePage(k)
    <3>1. tab[k] \in Targets /\ pc[k] = "store"
      BY <2>8 DEF StorePage, CallInv, CallOK, Making
    <3>0. /\ \A u \in Targets : pages'[u] = pages[u] \/ u = tab[k]
          /\ \A j \in Calls : pc'[j] = "store" => pc[j] = "store" /\ tab'[j] = tab[j]
      BY <2>8 DEF StorePage, Return, TypeOK
    <3>2. \A u \in Told : Owed(u)' => Owed(u)
      BY <3>0, <3>1 DEF Owed, Told
    <3>3. UNCHANGED <<watch, mail, reaping, alive, unheard>>
      BY <2>8 DEF StorePage, watchVars
    <3> QED
      BY <3>2, <3>3, DeadFrame
  <2>9. CASE CloseTarget(k)
    <3>1. tab[k] \in Targets /\ TabEnds(tab[k])
      BY <2>9 DEF CloseTarget, CallInv, CallOK
    <3>2. UNCHANGED <<watch, reaping, pages>>
      BY <2>9 DEF CloseTarget, sessionVars
    <3>3. \A t \in Targets : Owed(t)' => Owed(t)
      BY <2>9, <3>2 DEF CloseTarget, Goto, TypeOK, Owed
    <3> QED
      BY <3>1, <3>2, <3>3, DeadTabEnds
  <2> QED
    BY <1>1, <2>1, <2>3, <2>4, <2>5, <2>6, <2>7, <2>8, <2>9 DEF Step, CallStep
<1>2. ASSUME NEW c \in Conns, WatcherStep(c) PROVE DeadInv'
  <2>1. CASE CloseReaped(c)
    <3>1. UNCHANGED <<pages, watch, mail, reaping, pc, tab, alive, unheard>>
      BY <2>1 DEF CloseReaped, sessionVars, watchVars, callVars
    <3> QED
      BY <3>1, DeadFrame DEF Owed
  <2> QED
    BY <1>2, <2>1, DeadTakeMail, DeadReap, DeadWatcherEnds DEF WatcherStep
<1>3. ASSUME NEW c \in Conns, LinkLost(c) PROVE DeadInv'
  <2>1. UNCHANGED <<pages, watch, mail, reaping, pc, tab, alive, unheard>>
    BY <1>3 DEF LinkLost, sessionVars, watchVars, callVars
  <2> QED
    BY <2>1, DeadFrame DEF Owed
<1>4. ASSUME NEW t \in Targets, UserClosesTab(t) PROVE DeadInv'
  <2>1. TabEnds(t) /\ UNCHANGED <<pages, watch, reaping, pc, tab>>
    BY <1>4 DEF UserClosesTab, sessionVars, callVars
  <2> QED
    BY <2>1, DeadTabEnds DEF Owed
<1> QED
  BY <1>1, <1>2, <1>3, <1>4, NextSteps

-------------------------------------------------------------------------------
LEMMA InitIInv ==
  ASSUME Init
  PROVE  IInv
<1> USE SessionLifecycleAssumption DEF Init
<1>1. TypeOK
  <2>1. /\ client \in Conns \cup {NoConn} /\ closer \in Conns \cup {NoConn}
        /\ conn \in [Conns -> {"new", "open", "closed"}]
        /\ watch \in [Conns -> {"none", "on", "stopping", "ended"}]
    OBVIOUS
  <2>2. mail \in [Conns -> Seq(Targets)] /\ reaping \in [Conns -> Targets \cup {NoTarget}]
    OBVIOUS
  <2>3. page \in [Calls -> Pages]
    BY DEF NotMade, Pages
  <2>4. /\ pages \in [Targets -> Calls \cup {NoPage}] /\ mu \in Calls \cup {Nobody}
        /\ doomed \in [Actors -> SUBSET Calls]
        /\ alive \subseteq Targets /\ unheard \subseteq Targets \ alive /\ tangled \in BOOLEAN
    OBVIOUS
  <2>5. CallTypes
    BY DEF CallTypes, Labels
  <2> QED
    BY <2>1, <2>2, <2>3, <2>4, <2>5 DEF TypeOK, Pages, CallTypes, Labels
<1>2. Cached = {} /\ Calls \subseteq Actors
  BY DEF Cached, Actors
<1>3. CallInv
  BY <1>2 DEF CallInv, CallOK, Making, NotMade
<1>4. ReapInv /\ PageInv /\ PagesAreOfTheClient
  BY DEF ReapInv, PageInv, PagesAreOfTheClient
<1>5. OpenPagesAreCached
  BY <1>2 DEF OpenPagesAreCached, NotMade
<1>6. AttachInv /\ WatchInv /\ DeadInv
  BY DEF AttachInv, Early, WatchInv, DeadInv
<1> QED
  BY <1>1, <1>3, <1>4, <1>5, <1>6 DEF IInv

LEMMA StepIInv ==
  ASSUME IInv, [Next]_vars
  PROVE  IInv'
<1>1. CASE UNCHANGED vars
  BY <1>1 DEF IInv, vars, sessionVars, watchVars, callVars, TypeOK, CallInv, CallOK, ReapInv,
              PageInv, OpenPagesAreCached, Cached, PagesAreOfTheClient, AttachInv, WatchInv,
              DeadInv, InMail
<1>2. CASE Next
  <2>0. /\ TypeOK /\ CallInv /\ ReapInv /\ BookInv /\ PageInv /\ OpenPagesAreCached
        /\ PagesAreOfTheClient /\ AttachInv /\ WatchInv /\ DeadInv
    BY DEF IInv, BookInv
  <2>1. TypeOK' /\ CallInv'
    <3>1. ASSUME NEW k \in Calls, Step(k) PROVE TypeOK' /\ CallInv'
      BY <2>0, <3>1, TypeCallStep, CallInvCallStep
    <3>2. ASSUME NEW c \in Conns, WatcherStep(c) \/ LinkLost(c) PROVE TypeOK' /\ CallInv'
      BY <2>0, <3>2, TypeOtherStepOfConn, CallInvOtherStepOfConn
    <3>3. ASSUME NEW t \in Targets, UserClosesTab(t) PROVE TypeOK' /\ CallInv'
      BY <2>0, <3>3, TypeOtherStepOfUser, CallInvOtherStepOfUser
    <3> QED
      BY <1>2, <3>1, <3>2, <3>3, NextSteps
  <2>2. BookInv' /\ ReapInv'
    BY <1>2, <2>0, <2>1, BooksStep, ReapStep
  <2>3. PagesAreOfTheClient' /\ AttachInv' /\ WatchInv' /\ DeadInv'
    BY <1>2, <2>0, PagesAreOfTheClientStep, AttachStep, DeadStep
  <2> QED
    BY <2>1, <2>2, <2>3 DEF IInv, BookInv
<1> QED
  BY <1>1, <1>2

THEOREM IInvHolds == Spec => []IInv
<1>1. Init => IInv
  BY InitIInv
<1>2. IInv /\ [Next]_vars => IInv'
  BY StepIInv
<1> QED
  BY <1>1, <1>2, PTL DEF Spec

(* The session's variables keep their types.                               *)
THEOREM TypeCorrect == Spec => []TypeOK
<1>1. IInv => TypeOK
  BY DEF IInv
<1> QED
  BY <1>1, IInvHolds, PTL

(* Session.Page, DropPage and Clear leave no page running outside the map  *)
(* and never hand out a closed one (session.go 142-203).                   *)
THEOREM NoPageIsLost == Spec => []OpenPagesAreCached
<1>1. IInv => OpenPagesAreCached
  BY DEF IInv
<1> QED
  BY <1>1, IInvHolds, PTL

(* Session.Page hands out pages of the client the session holds            *)
(* (session.go 168-188).                                                   *)
THEOREM PagesFollowTheClient == Spec => []PagesAreOfTheClient
<1>1. IInv => PagesAreOfTheClient
  BY DEF IInv
<1> QED
  BY <1>1, IInvHolds, PTL

(* Clear releases what meta_attach acquired (session.go 142-166, meta.go   *)
(* 54-86).                                                                 *)
THEOREM DetachReleases == Spec => []NothingOutlivesDetach
<1>1. IInv => NothingOutlivesDetach
  BY DEF IInv, WatchInv, NothingOutlivesDetach, Attaching
<1> QED
  BY <1>1, IInvHolds, PTL

(* WatchTargets and DropPage get to every page whose tab's end was told    *)
(* (cdp/session.go 57-92, session.go 193-203).                             *)
THEOREM DeadPagesAreOwed == Spec => []DeadPagesAreOnTheirWayOut
<1>1. IInv => DeadPagesAreOnTheirWayOut
  BY DEF IInv, DeadInv, DeadPagesAreOnTheirWayOut
<1> QED
  BY <1>1, IInvHolds, PTL

===============================================================================
