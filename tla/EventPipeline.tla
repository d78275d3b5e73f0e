----------------------------- MODULE EventPipeline -----------------------------
(***************************************************************************)
(* How a CDP event travels from the websocket to a tab's event buffer and  *)
(* to the calls waiting for it, and on to the /events streams of           *)
(* mcp/httpsse.go:                                                         *)
(*                                                                         *)
(*   read pump --> src --> filter --> out --> collector --> ring + inboxes *)
(*   client.go     (one line per page and method: session.go, events.go)   *)
(*   inbox of a feed --> mover --> merged --> stream                       *)
(*                                                                         *)
(* Each line has two channels and two goroutines.  Every send on the way   *)
(* is non-blocking: a full channel drops the event.  Page.Close tears the  *)
(* lines down while all of this runs.  A channel send or receive and the   *)
(* local work up to the next one is one step; a fan-out has two, the copy  *)
(* of the subscriber list under its mutex and the sends after it.          *)
(*                                                                         *)
(* A page's subscribers are the waiters, calls of WaitFor, and the feeds   *)
(* of the streams, one for each place in the list of types of the request. *)
(***************************************************************************)
EXTENDS Naturals, Sequences, FiniteSets, SequencesExt

CONSTANTS
  Pages,      \* tabs, each with its own CDP session
  Methods,    \* collectedEvents, events.go:11
  Waiters,    \* calls of WaitFor
  Streams,    \* requests for /events
  Queries,    \* lists of types they come with, as the methods these stand for
  ChanCap,    \* capacity of every channel on the way, 16 in the code
  MergeCap,   \* capacity of a stream's merged channel, 64 in the code
  MaxEvents,  \* bound on the events the browser sends
  MaxGuests,  \* bound on waiters and streams that come
  Visited,    \* bound on where to: the tabs they come to
  MaxCloses,  \* bound on the tabs that are closed
  NoPage,     \* a stream that has not begun
  NoLine,     \* a subscriber that has not begun
  Ended       \* a subscriber that has returned

ASSUME EventPipelineAssumption ==
  /\ {ChanCap, MergeCap} \subseteq Nat \ {0}
  /\ {MaxEvents, MaxGuests, MaxCloses} \subseteq Nat
  /\ NoPage \notin Pages
  /\ Queries \subseteq Seq(Methods) \ {<< >>}
  /\ Waiters \cap (Streams \X Nat) = {}
  /\ {NoLine, Ended} \cap (Pages \X Methods) = {}
  /\ NoLine # Ended

Lines == Pages \X Methods
PageOf(l) == l[1]
MethodOf(l) == l[2]

Feeds == Streams \X UNION {DOMAIN q : q \in Queries}
Subscribers == Waiters \cup Feeds

(* An event is its line and its position in the order the pump read it,    *)
(* which is also the time dispatchEvent stamps it with (client.go:140).    *)
Events == [line : Lines, at : 1 .. MaxEvents]

(* What is on a stream's channel or was written: an event and, for the     *)
(* properties alone, the feed it came by.                                  *)
Tellings == [feed : Feeds, event : Events]

VARIABLES
  sent,       \* events read by the pump so far
  fanout,     \* the event the pump is fanning out and the lines it copied
  subscribed, \* lines whose src is on the client's list
  src, out,   \* the two channels of a line
  filter,     \* off, running or exited: SubscribeOnTarget's goroutine
  collector,  \* off, running, fanning or exited: the page's goroutine
  delivering, \* event the collector is fanning out and the waiters it copied
  done,       \* lines whose done channel is closed
  ring,       \* what was added to each page's event buffer, in order
  page,       \* new, opening, open, closing or closed
  waiting,    \* the line a subscriber is subscribed to
  inbox,      \* a subscriber's channel
  heard,      \* events a waiter has taken from its channel, in order
  stream,     \* new, opening, writing, leaving or done: a request's handler
  showing,    \* its page
  types,      \* the methods it asks for, in the order of its query
  mover,      \* off, running or exited: the goroutine of a feed
  merged,     \* a stream's channel
  written,    \* events a stream has written to its client, in order
  peer,       \* there, broken or gone: the connection to the client
  offered,    \* history: events read while their own line was subscribed
  overflow    \* history: those of them a full channel dropped before the ring

pumpVars == <<sent, fanout, offered>>
lineVars == <<subscribed, src, filter, done>>
collVars == <<collector, delivering, ring>>
waitVars == <<waiting, inbox, heard>>
streamVars == <<stream, showing, types, mover, merged, written, peer>>
guestVars == <<waitVars, streamVars>>
vars == <<sent, fanout, offered, subscribed, src, out, filter, collector, delivering,
          done, ring, page, guestVars, overflow>>

None == [to |-> {}]

Init ==
  /\ sent = 0
  /\ fanout = None
  /\ subscribed = {}
  /\ src = [l \in Lines |-> << >>]
  /\ out = [l \in Lines |-> << >>]
  /\ filter = [l \in Lines |-> "off"]
  /\ collector = [l \in Lines |-> "off"]
  /\ delivering = [l \in Lines |-> None]
  /\ done = {}
  /\ ring = [p \in Pages |-> << >>]
  /\ page = [p \in Pages |-> "new"]
  /\ waiting = [x \in Subscribers |-> NoLine]
  /\ inbox = [x \in Subscribers |-> << >>]
  /\ heard = [w \in Waiters |-> << >>]
  /\ stream = [s \in Streams |-> "new"]
  /\ showing = [s \in Streams |-> NoPage]
  /\ types = [s \in Streams |-> << >>]
  /\ mover = [f \in Feeds |-> "off"]
  /\ merged = [s \in Streams |-> << >>]
  /\ written = [s \in Streams |-> << >>]
  /\ peer = [s \in Streams |-> "there"]
  /\ offered = {}
  /\ overflow = {}

(* A non-blocking send: the channel's new content.                         *)
SentTo(ch, e, cap) == IF Len(ch) < cap THEN Append(ch, e) ELSE ch
Sent(ch, e) == SentTo(ch, e, ChanCap)
Full(ch) == Len(ch) >= ChanCap

-------------------------------------------------------------------------------
(* The read pump.                                                          *)

(* dispatchEvent and the first half of fanout: stamp the event and copy    *)
(* the list of the method's subscribers, whichever session they are for.   *)
Dispatch(l) ==
  /\ fanout = None
  /\ sent < MaxEvents
  /\ sent' = sent + 1
  /\ LET e == [line |-> l, at |-> sent + 1]
         to == {k \in subscribed : MethodOf(k) = MethodOf(l)}
     IN  /\ fanout' = IF to = {} THEN None ELSE [to |-> to, event |-> e]
         /\ offered' = IF l \in subscribed THEN offered \cup {e} ELSE offered
  /\ UNCHANGED <<lineVars, out, collVars, page, guestVars, overflow>>

(* Mutant: only one of the copied lines gets the event.                    *)
FanOutToOne ==
  /\ fanout # None
  /\ LET k == CHOOSE l \in fanout.to : TRUE
     IN  /\ src' = [src EXCEPT ![k] = Sent(@, fanout.event)]
         /\ overflow' = IF k = fanout.event.line /\ Full(src[k])
                        THEN overflow \cup {fanout.event} ELSE overflow
  /\ fanout' = None
  /\ UNCHANGED <<sent, offered, subscribed, out, filter, done, collVars, page, guestVars>>

(* The second half: the sends, to lines that may be gone by now.           *)
FanOut ==
  /\ fanout # None
  /\ src' = [l \in Lines |-> IF l \in fanout.to THEN Sent(src[l], fanout.event) ELSE src[l]]
  /\ overflow' = overflow \cup
       {fanout.event : l \in {k \in fanout.to : k = fanout.event.line /\ Full(src[k])}}
  /\ fanout' = None
  /\ UNCHANGED <<sent, offered, subscribed, out, filter, done, collVars, page, guestVars>>

-------------------------------------------------------------------------------
(* The filter goroutine of a line, SubscribeOnTarget.                      *)

(* Mutant: the event's session is not compared.                            *)
FilterNothing(l) ==
  /\ filter[l] = "running"
  /\ src[l] # << >>
  /\ src' = [src EXCEPT ![l] = Tail(@)]
  /\ out' = [out EXCEPT ![l] = Sent(@, Head(src[l]))]
  /\ overflow' = IF Full(out[l]) THEN overflow \cup {Head(src[l])} ELSE overflow
  /\ UNCHANGED <<pumpVars, subscribed, filter, done, collVars, page, guestVars>>

(* Mutant: it returns on an event of another session, where it should not.  *)
FilterEventQuits(l) ==
  /\ filter[l] = "running"
  /\ src[l] # << >>
  /\ src' = [src EXCEPT ![l] = Tail(@)]
  /\ LET e == Head(src[l])
         mine == PageOf(e.line) = PageOf(l)
     IN  /\ out' = IF mine THEN [out EXCEPT ![l] = Sent(@, e)] ELSE out
         /\ overflow' = IF mine /\ Full(out[l]) THEN overflow \cup {e} ELSE overflow
         /\ filter' = IF mine THEN filter ELSE [filter EXCEPT ![l] = "exited"]
  /\ UNCHANGED <<pumpVars, subscribed, done, collVars, page, guestVars>>

FilterEvent(l) ==
  /\ filter[l] = "running"
  /\ src[l] # << >>
  /\ src' = [src EXCEPT ![l] = Tail(@)]
  /\ LET e == Head(src[l])
         mine == PageOf(e.line) = PageOf(l)
     IN  /\ out' = IF mine THEN [out EXCEPT ![l] = Sent(@, e)] ELSE out
         /\ overflow' = IF mine /\ Full(out[l]) THEN overflow \cup {e} ELSE overflow
  /\ UNCHANGED <<pumpVars, subscribed, filter, done, collVars, page, guestVars>>

(* It leaves as soon as it looks at done, and closes out behind it.  An    *)
(* event it has just taken may go with it: as good as left in src, which   *)
(* nobody reads again.                                                     *)
FilterExit(l) ==
  /\ filter[l] = "running"
  /\ l \in done
  /\ filter' = [filter EXCEPT ![l] = "exited"]
  /\ UNCHANGED <<pumpVars, subscribed, src, out, done, collVars, page, guestVars, overflow>>

-------------------------------------------------------------------------------
(* The collector goroutine of a line, startEventCollector.                 *)

(* Mutant: an event somebody waits for is not recorded.                    *)
CollectUnheard(l) ==
  /\ collector[l] = "running"
  /\ out[l] # << >>
  /\ out' = [out EXCEPT ![l] = Tail(@)]
  /\ ring' = IF \E x \in Subscribers : waiting[x] = l THEN ring
             ELSE [ring EXCEPT ![PageOf(l)] = Append(@, Head(out[l]))]
  /\ delivering' = [delivering EXCEPT ![l] = [to |-> {}, event |-> Head(out[l])]]
  /\ collector' = [collector EXCEPT ![l] = "adding"]
  /\ UNCHANGED <<pumpVars, lineVars, page, guestVars, overflow>>

Collect(l) ==
  /\ collector[l] = "running"
  /\ out[l] # << >>
  /\ out' = [out EXCEPT ![l] = Tail(@)]
  /\ ring' = [ring EXCEPT ![PageOf(l)] = Append(@, Head(out[l]))]
  /\ delivering' = [delivering EXCEPT ![l] = [to |-> {}, event |-> Head(out[l])]]
  /\ collector' = [collector EXCEPT ![l] = "adding"]
  /\ UNCHANGED <<pumpVars, lineVars, page, guestVars, overflow>>

(* fanoutEvent: copy the page's subscribers, then send to each.            *)
CopyWaiters(l) ==
  /\ collector[l] = "adding"
  /\ delivering' = [delivering EXCEPT ![l].to = {x \in Subscribers : waiting[x] = l}]
  /\ collector' = [collector EXCEPT ![l] = "fanning"]
  /\ UNCHANGED <<pumpVars, lineVars, out, ring, page, guestVars, overflow>>

Deliver(l) ==
  /\ collector[l] = "fanning"
  /\ LET to == delivering[l].to
         e == delivering[l].event
     IN  inbox' = [x \in Subscribers |->
                     IF x \in to /\ waiting[x] = l THEN Sent(inbox[x], e) ELSE inbox[x]]
  /\ delivering' = [delivering EXCEPT ![l] = None]
  /\ collector' = [collector EXCEPT ![l] = "running"]
  /\ UNCHANGED <<pumpVars, lineVars, out, ring, page, waiting, heard, streamVars, overflow>>

(* It leaves when the page is closing, or when out is closed and drained.  *)
CollectorExit(l) ==
  /\ collector[l] = "running"
  /\ \/ page[PageOf(l)] \in {"closing", "closed"}
     \/ filter[l] = "exited" /\ out[l] = << >>
  /\ collector' = [collector EXCEPT ![l] = "exited"]
  /\ UNCHANGED <<pumpVars, lineVars, out, delivering, ring, page, guestVars, overflow>>

-------------------------------------------------------------------------------
(* Opening and closing a page.                                             *)

(* NewPage's collectors: one line after the other is subscribed and its    *)
(* two goroutines started.                                                 *)
OpenLine(l) ==
  /\ page[PageOf(l)] \in {"new", "opening"}
  /\ filter[l] = "off"
  /\ subscribed' = subscribed \cup {l}
  /\ filter' = [filter EXCEPT ![l] = "running"]
  /\ collector' = [collector EXCEPT ![l] = "running"]
  /\ page' = [page EXCEPT ![PageOf(l)] =
                IF \A k \in Lines \ {l} : PageOf(k) = PageOf(l) => filter[k] # "off"
                THEN "open" ELSE "opening"]
  /\ UNCHANGED <<pumpVars, src, out, done, delivering, ring, guestVars, overflow>>

(* Page.Close marks the page closed and closes closedCh under closeMu.     *)
ClosePage(p) ==
  /\ Cardinality({k \in Pages : page[k] \in {"closing", "closed"}}) < MaxCloses
  /\ page[p] = "open"
  /\ page' = [page EXCEPT ![p] = "closing"]
  /\ UNCHANGED <<pumpVars, lineVars, out, collVars, guestVars, overflow>>

(* Mutant: the line is unsubscribed but its filter is not told.            *)
CleanupLineLeaks(l) ==
  /\ page[PageOf(l)] = "closing"
  /\ l \in subscribed
  /\ subscribed' = subscribed \ {l}
  /\ page' = [page EXCEPT ![PageOf(l)] =
                IF \A k \in subscribed \ {l} : PageOf(k) # PageOf(l) THEN "closed" ELSE @]
  /\ UNCHANGED <<pumpVars, src, out, filter, done, collVars, guestVars, overflow>>

(* Then, outside the mutex, it runs the lines' cleanups one by one.        *)
CleanupLine(l) ==
  /\ page[PageOf(l)] = "closing"
  /\ l \notin done
  /\ done' = done \cup {l}
  /\ subscribed' = subscribed \ {l}
  /\ page' = [page EXCEPT ![PageOf(l)] =
                IF \A k \in Lines \ {l} : PageOf(k) = PageOf(l) => k \in done
                THEN "closed" ELSE @]
  /\ UNCHANGED <<pumpVars, src, out, filter, collVars, guestVars, overflow>>

-------------------------------------------------------------------------------
(* A waiter, WaitFor.  Each waits once; nothing keeps it from waiting on a *)
(* page that is closing, whose pointer it already holds.                   *)

Guests == {w \in Waiters : waiting[w] # NoLine} \cup {s \in Streams : stream[s] # "new"}

StartWait(w, l) ==
  /\ Cardinality(Guests) < MaxGuests
  /\ waiting[w] = NoLine
  /\ PageOf(l) \in Visited /\ page[PageOf(l)] \in {"open", "closing", "closed"}
  /\ waiting' = [waiting EXCEPT ![w] = l]
  /\ UNCHANGED <<pumpVars, lineVars, out, collVars, page, inbox, heard, streamVars, overflow>>

(* An event the predicate rejects keeps it waiting; one it accepts, or the *)
(* deadline, ends the wait and the deferred removeEventSub.                *)
EndWait(w) ==
  /\ waiting' = [waiting EXCEPT ![w] = Ended]
  /\ inbox' = [inbox EXCEPT ![w] = << >>]

Hear(w) ==
  /\ waiting[w] \in Lines
  /\ inbox[w] # << >>
  /\ heard' = [heard EXCEPT ![w] = Append(@, Head(inbox[w]))]
  /\ \/ inbox' = [inbox EXCEPT ![w] = Tail(@)] /\ UNCHANGED waiting
     \/ EndWait(w)
  /\ UNCHANGED <<pumpVars, lineVars, out, collVars, page, streamVars, overflow>>

TimeOut(w) ==
  /\ waiting[w] \in Lines
  /\ EndWait(w)
  /\ UNCHANGED <<pumpVars, lineVars, out, collVars, page, heard, streamVars, overflow>>

-------------------------------------------------------------------------------
(* A stream, serveSSE.  Its handler holds the page's pointer and goes      *)
(* through the list of types, subscribing once for each, also for one that *)
(* the list has twice; a mover takes each feed's events to the merged      *)
(* channel, which the handler writes to the client from.                   *)

FeedsOf(s) == {f \in Feeds : f[1] = s /\ f[2] \in DOMAIN types[s]}
LineOf(f) == <<showing[f[1]], types[f[1]][f[2]]>>

LinesStay == UNCHANGED <<pumpVars, lineVars, out, collVars, page, heard, overflow>>

OpenStream(s, p, q) ==
  /\ Cardinality(Guests) < MaxGuests
  /\ stream[s] = "new"
  /\ p \in Visited /\ page[p] \in {"open", "closing", "closed"}
  /\ stream' = [stream EXCEPT ![s] = "opening"]
  /\ showing' = [showing EXCEPT ![s] = p]
  /\ types' = [types EXCEPT ![s] = q]
  /\ LinesStay /\ UNCHANGED <<waiting, inbox, mover, merged, written, peer>>

Subscribe(f) ==
  /\ stream[f[1]] = "opening" /\ f \in FeedsOf(f[1]) /\ mover[f] = "off"
  /\ \A g \in FeedsOf(f[1]) : g[2] < f[2] => mover[g] # "off"
  /\ waiting' = [waiting EXCEPT ![f] = LineOf(f)]
  /\ mover' = [mover EXCEPT ![f] = "running"]
  /\ stream' = [stream EXCEPT ![f[1]] = IF f[2] = Len(types[f[1]]) THEN "writing" ELSE @]
  /\ LinesStay /\ UNCHANGED <<inbox, showing, types, merged, written, peer>>

Move(f) ==
  /\ mover[f] = "running"
  /\ inbox[f] # << >>
  /\ inbox' = [inbox EXCEPT ![f] = Tail(@)]
  /\ merged' = [merged EXCEPT ![f[1]] =
                  SentTo(@, [feed |-> f, event |-> Head(inbox[f])], MergeCap)]
  /\ LinesStay /\ UNCHANGED <<waiting, stream, showing, types, mover, written, peer>>

(* Mutant: it looks at the context only between two events.                *)
MoverExitAfterEvent(f) ==
  /\ mover[f] = "running" /\ peer[f[1]] = "gone"
  /\ inbox[f] # << >>
  /\ mover' = [mover EXCEPT ![f] = "exited"]
  /\ LinesStay /\ UNCHANGED <<waiting, inbox, stream, showing, types, merged, written, peer>>

(* Only the end of the request's context ends a mover: its channel is      *)
(* never closed.                                                           *)
MoverExit(f) ==
  /\ mover[f] = "running" /\ peer[f[1]] = "gone"
  /\ mover' = [mover EXCEPT ![f] = "exited"]
  /\ LinesStay /\ UNCHANGED <<waiting, inbox, stream, showing, types, merged, written, peer>>

(* The handler writes; on a broken connection that may fail, which ends    *)
(* the loop as the end of the context does.                                *)
Write(s) ==
  /\ stream[s] = "writing" /\ merged[s] # << >>
  /\ merged' = [merged EXCEPT ![s] = Tail(@)]
  /\ \/ /\ written' = [written EXCEPT ![s] = Append(@, Head(merged[s]))]
        /\ UNCHANGED stream
     \/ /\ peer[s] # "there"
        /\ stream' = [stream EXCEPT ![s] = "leaving"]
        /\ UNCHANGED written
  /\ LinesStay /\ UNCHANGED <<waiting, inbox, showing, types, mover, peer>>

LeaveLoop(s) ==
  /\ stream[s] = "writing" /\ peer[s] = "gone"
  /\ stream' = [stream EXCEPT ![s] = "leaving"]
  /\ LinesStay /\ UNCHANGED <<waiting, inbox, showing, types, mover, merged, written, peer>>

(* The deferred function: unsubscribe, wait for the movers, return.        *)
Unsubscribe(f) ==
  /\ stream[f[1]] = "leaving" /\ waiting[f] \in Lines
  /\ \A g \in FeedsOf(f[1]) : g[2] < f[2] => waiting[g] = Ended
  /\ waiting' = [waiting EXCEPT ![f] = Ended]
  /\ LinesStay /\ UNCHANGED <<inbox, streamVars>>

EndStream(s) ==
  /\ stream[s] = "leaving"
  /\ \A f \in FeedsOf(s) : waiting[f] = Ended /\ mover[f] = "exited"
  /\ stream' = [stream EXCEPT ![s] = "done"]
  /\ LinesStay /\ UNCHANGED <<waiting, inbox, showing, types, mover, merged, written, peer>>

(* The client or the network breaks the connection (external); the HTTP    *)
(* server then notices and ends the request's context.                     *)
Breaks(s) ==
  /\ peer[s] = "there" /\ stream[s] \in {"opening", "writing"}
  /\ peer' = [peer EXCEPT ![s] = "broken"]
  /\ LinesStay /\ UNCHANGED <<waiting, inbox, stream, showing, types, mover, merged, written>>

ContextEnds(s) ==
  /\ peer[s] = "broken"
  /\ peer' = [peer EXCEPT ![s] = "gone"]
  /\ LinesStay /\ UNCHANGED <<waiting, inbox, stream, showing, types, mover, merged, written>>

-------------------------------------------------------------------------------
FilterStep(l) == FilterEvent(l) \/ FilterExit(l)
CollectorStep(l) == Collect(l) \/ CopyWaiters(l) \/ Deliver(l) \/ CollectorExit(l)
FeedStep(f) == Subscribe(f) \/ Move(f) \/ MoverExit(f) \/ Unsubscribe(f)
StreamStep(s) == Write(s) \/ LeaveLoop(s) \/ EndStream(s)

Next ==
  \/ FanOut
  \/ \E l \in Lines :
       \/ Dispatch(l) \/ OpenLine(l) \/ CleanupLine(l)
       \/ FilterStep(l) \/ CollectorStep(l)
  \/ \E p \in Pages : ClosePage(p)
  \/ \E w \in Waiters : Hear(w) \/ TimeOut(w) \/ \E l \in Lines : StartWait(w, l)
  \/ \E f \in Feeds : FeedStep(f)
  \/ \E s \in Streams :
       \/ StreamStep(s) \/ Breaks(s) \/ ContextEnds(s)
       \/ \E p \in Pages, q \in Queries : OpenStream(s, p, q)

Spec == Init /\ [][Next]_vars

(* As long as some goroutine can run, one of them does, and a Close that   *)
(* began goes on: whichever the scheduler takes.  Nothing makes the        *)
(* browser send, a page open or close, or a guest come.  A write to a      *)
(* client that is there but does not read may take for ever; the HTTP      *)
(* server notices a broken connection.                                     *)
SomebodyRuns ==
  \/ FanOut
  \/ \E l \in Lines : FilterStep(l) \/ CollectorStep(l) \/ CleanupLine(l)
  \/ \E f \in Feeds : FeedStep(f)
  \/ \E s \in Streams : (peer[s] # "there" /\ StreamStep(s)) \/ ContextEnds(s)

FairSpec == Spec /\ WF_vars(SomebodyRuns)

-------------------------------------------------------------------------------
TypeOK ==
  /\ sent \in 0 .. MaxEvents
  /\ fanout \in [to : SUBSET Lines, event : Events] \cup {None}
  /\ offered \subseteq Events
  /\ overflow \subseteq Events
  /\ subscribed \subseteq Lines
  /\ {src, out} \subseteq [Lines -> Seq(Events)]
  /\ \A l \in Lines : {Len(src[l]), Len(out[l])} \subseteq 0 .. ChanCap
  /\ filter \in [Lines -> {"off", "running", "exited"}]
  /\ collector \in [Lines -> {"off", "running", "adding", "fanning", "exited"}]
  /\ delivering \in [Lines -> [to : SUBSET Subscribers, event : Events] \cup {None}]
  /\ done \subseteq Lines
  /\ ring \in [Pages -> Seq(Events)]
  /\ page \in [Pages -> {"new", "opening", "open", "closing", "closed"}]
  /\ waiting \in [Subscribers -> Lines \cup {NoLine, Ended}]
  /\ inbox \in [Subscribers -> Seq(Events)]
  /\ \A x \in Subscribers : Len(inbox[x]) <= ChanCap
  /\ heard \in [Waiters -> Seq(Events)]
  /\ stream \in [Streams -> {"new", "opening", "writing", "leaving", "done"}]
  /\ showing \in [Streams -> Pages \cup {NoPage}]
  /\ mover \in [Feeds -> {"off", "running", "exited"}]
  /\ types \in [Streams -> Queries \cup {<< >>}]
  /\ {merged, written} \subseteq [Streams -> Seq(Tellings)]
  /\ \A s \in Streams : Len(merged[s]) <= MergeCap
  /\ peer \in [Streams -> {"there", "broken", "gone"}]

(* A tab's buffer only holds events of its own session, although the pump  *)
(* fans an event out to every tab's line for the method, and holds those   *)
(* of one method once each and in the order the browser sent them.         *)
RingIsOwnAndOrdered ==
  \A p \in Pages :
    /\ \A e \in ToSet(ring[p]) : PageOf(e.line) = p
    /\ \A i, j \in DOMAIN ring[p] :
         i < j /\ ring[p][i].line = ring[p][j].line => ring[p][i].at < ring[p][j].at

(* On a page that is open an event is only ever lost to a full channel: it *)
(* is at exactly one place on its way, or in the buffer, or was dropped    *)
(* because a channel held ChanCap events (client.go:172, session.go:118).  *)
Holds(place, e) ==
  \/ place = "pump" /\ fanout # None /\ fanout.event = e
  \/ place = "src"  /\ e \in ToSet(src[e.line])
  \/ place = "out"  /\ e \in ToSet(out[e.line])
  \/ place = "ring" /\ e \in ToSet(ring[PageOf(e.line)])
  \/ place = "lost" /\ e \in overflow

EventsConserved ==
  \A e \in offered :
    page[PageOf(e.line)] \in {"opening", "open"} =>
      \E place \in {"pump", "src", "out", "ring", "lost"} :
        \A other \in {"pump", "src", "out", "ring", "lost"} : Holds(other, e) <=> other = place

(* What a waiter hears is of one line, in that tab's buffer already, once  *)
(* and in order (events.go:87-88).  Of a stream this holds for each of its *)
(* feeds: what is written, or about to be, came by a feed of the stream,   *)
(* is of that feed's line and in the buffer, and each feed's events come   *)
(* once and in order (httpsse.go:148-205).  So an event is never written   *)
(* more often than the query lists its type, and what two feeds bring may  *)
(* come in any order, two copies of one event among it.                    *)
Ordered(told) ==
  \A i, j \in DOMAIN told : i < j /\ told[i].line = told[j].line => told[i].at < told[j].at

Recorded(told) ==
  /\ Ordered(told)
  /\ \A e \in ToSet(told) : e \in ToSet(ring[PageOf(e.line)])

InTurn(told) ==
  \A i, j \in DOMAIN told :
    i < j /\ told[i].feed = told[j].feed => told[i].event.at < told[j].event.at

HeardIsRecorded ==
  /\ \A w \in Waiters :
       /\ Recorded(heard[w] \o inbox[w])
       /\ \A d, e \in ToSet(heard[w] \o inbox[w]) : d.line = e.line
  /\ \A f \in Feeds : Recorded(inbox[f]) /\ \A e \in ToSet(inbox[f]) : e.line = LineOf(f)
  /\ \A s \in Streams :
       /\ InTurn(written[s] \o merged[s])
       /\ \A t \in ToSet(written[s] \o merged[s]) :
            /\ t.feed \in FeedsOf(s) /\ t.event.line = LineOf(t.feed)
            /\ t.event \in ToSet(ring[showing[s]])
            /\ \A e \in ToSet(inbox[t.feed]) : t.event.at < e.at

(* Seen from one subscriber, a line is the lossy queue of EventWay: what   *)
(* the collector has in hand for it, the two channels and what the pump    *)
(* has in hand.  An event is lost only while more than ChanCap are on the  *)
(* way, and that the collector copies the subscribers before it sends      *)
(* makes no difference: who is not in the copy is as one who came after    *)
(* the event was handed on (events.go:44-57).                              *)
InHand(l, x) ==
  IF collector[l] = "adding" \/ (collector[l] = "fanning" /\ x \in delivering[l].to)
  THEN <<delivering[l].event>> ELSE << >>

InPump(l) == IF fanout # None /\ l \in fanout.to THEN <<fanout.event>> ELSE << >>

Way(l, x) == INSTANCE EventWay WITH
  Own   <- {e \in Events : e.line = l},
  Cap   <- ChanCap,
  way   <- (InHand(l, x) \o out[l]) \o (src[l] \o InPump(l)),
  on    <- waiting[x] = l,
  inbox <- IF waiting[x] = l THEN inbox[x] ELSE << >>

ImplementsWay ==
  /\ \A l \in Lines, x \in Subscribers : Way(l, x)!WayInit
  /\ [][\A l \in Lines, x \in Subscribers :
           UNCHANGED Way(l, x)!wayVars \/ Way(l, x)!WayNext]_vars

(* Page.Close stops every collector and filter goroutine and takes every   *)
(* subscription off the client's list, whatever they were doing            *)
(* (page.go:51).                                                           *)
CloseStopsCollectors ==
  []<>(\A l \in Lines : page[PageOf(l)] \in {"closing", "closed"} =>
         filter[l] = "exited" /\ collector[l] = "exited" /\ l \notin subscribed)

(* A stream whose client has gone ends, with no subscription and no        *)
(* goroutine left: its handler waits for movers that nothing but the end   *)
(* of the context stops (httpsse.go:152-179).                              *)
StreamsEnd ==
  []<>(\A s \in Streams : peer[s] # "there" =>
         stream[s] = "done" /\ \A f \in FeedsOf(s) : mover[f] = "exited" /\ waiting[f] = Ended)

(* An event of a subscribed line reaches the buffer unless a channel was   *)
(* full or the page closes: neither a slow guest nor another tab's line  *)
(* can hold it up.                                                         *)
EventsReachRing ==
  []<>(\A e \in offered :
         LET p == PageOf(e.line)
         IN  page[p] \in {"opening", "open"} => e \in ToSet(ring[p]) \cup overflow)
===============================================================================
