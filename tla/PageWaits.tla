------------------------------- MODULE PageWaits -------------------------------
(***************************************************************************)
(* The calls that wait for what a tab's page does: Navigate with its load  *)
(* event and WaitNetworkIdle (navigate.go, networkidle.go), and the HAR,   *)
(* trace and download recorders (har.go, trace.go, download.go), each from *)
(* its tool handler (browser_nav.go, tasks.go) to its return.              *)
(*                                                                         *)
(* All of them subscribe to some methods, do something, and select over    *)
(* the channels.  Each method has a chain of goroutines of its own, here   *)
(* the queue that EventWay says a subscriber may take it for (module       *)
(* EventPipeline): events of different methods reach a call in any order,  *)
(* and one on its way may be lost at any moment, because the events of     *)
(* other tabs, which are not modelled here, fill the same channels.        *)
(* Chrome is external.                                                     *)
(***************************************************************************)
EXTENDS Naturals, Sequences, FiniteSets, SequencesExt

CONSTANTS
  Calls,      \* tool calls on one page
  Requests,   \* network requests
  Downloads,  \* their guids
  NoDownload, \* the empty guid
  Chunk,      \* what a recorded trace consists of
  ChanCap,    \* capacity of a call's channel
  MaxEvents,  \* bound on the events Chrome sends
  MaxOnWay,   \* bound on those of one method on their way
  MaxCommits  \* bound on documents committed in the tab

ASSUME PageWaitsAssumption ==
  /\ NoDownload \notin Downloads
  /\ ChanCap \in Nat \ {0}
  /\ {MaxEvents, MaxOnWay} \subseteq Nat
  /\ MaxCommits \in Nat /\ MaxCommits >= 3

Collected == {"load", "dcl", "willBeSent", "response", "finished", "failed"}
Direct    == {"downloadWillBegin", "downloadProgress"}
Methods   == Collected \cup Direct \cup {"dataCollected", "tracingComplete"}

(* What is called: browser_navigate with each wait_until, the HAR of the   *)
(* page as it is and of one navigated to first, and the rest.              *)
Navigations == {"load", "dcl", "networkidle", "harOfUrl"}
Tools == Navigations \cup {"back", "forward", "reload", "har", "trace", "download"}

Awaited(t) == IF t = "dcl" THEN "dcl" ELSE "load"

(* The methods that take a request off a recorder's books.                 *)
Ends(t) == CASE t = "networkidle" -> {"finished", "failed"}
             [] t \in {"har", "harOfUrl"} -> {"response"}
             [] OTHER -> {}

(* The order in which a recorder subscribes, one critical section each.    *)
Needed(t) == CASE t = "networkidle" -> <<"willBeSent", "finished", "failed">>
               [] t \in {"har", "harOfUrl"} -> <<"willBeSent", "response">>
               [] t = "trace" -> <<"dataCollected", "tracingComplete">>
               [] t = "download" -> <<"downloadWillBegin", "downloadProgress">>

VARIABLES
  pc, tool,  \* where a call is, and what it is
  todo,      \* methods a call has still to subscribe to
  subs,      \* methods it is subscribed to
  inbox,     \* its channel for each
  timer,     \* WaitNetworkIdle's idle timer: off, armed or fired
  book,      \* what it has noted
  past,      \* history: what it took, and what went by it
  target,    \* the history entry a history step goes to
  way,       \* events of a method on their way to the page's subscribers
  emitted,   \* events Chrome has sent (external, like all that follows)
  doc,       \* documents committed so far
  fired,     \* which of its two events the current one has fired
  entries,   \* the tab's history
  at,        \* the position in it
  said,      \* what Chrome has said of each request
  download,  \* new, going, completed or canceled
  tracing,   \* off, on or flushing
  traced     \* whether the trace's data has been sent

callVars == <<pc, tool, todo, subs, inbox, timer, book, past, target>>
docVars == <<doc, fired, entries, at>>
chromeVars == <<docVars, said, download, tracing, traced>>
vars == <<callVars, way, emitted, chromeVars>>

(* open: requests in flight, or HAR entries without a response; answered:  *)
(* HAR entries with one; guid and file: the download heard of and the one  *)
(* reported, size: the one whose bytes were counted; data: trace chunks.   *)
Blank == [open |-> {}, answered |-> {}, guid |-> NoDownload,
          file |-> NoDownload, size |-> NoDownload, data |-> {}]
Fresh == [started |-> {}, ended |-> {}, missed |-> {}]
Empty == [m \in Methods |-> << >>]

Init ==
  /\ pc = [c \in Calls |-> "start"]
  /\ tool = [c \in Calls |-> "none"]
  /\ todo = [c \in Calls |-> << >>]
  /\ subs = [c \in Calls |-> {}]
  /\ inbox = [c \in Calls |-> Empty]
  /\ timer = [c \in Calls |-> "off"]
  /\ book = [c \in Calls |-> Blank]
  /\ past = [c \in Calls |-> Fresh]
  /\ target = [c \in Calls |-> 0]
  /\ way = Empty
  /\ emitted = 0
  /\ doc = 3
  /\ fired = {"dcl"}
  /\ entries = <<1, 2, 3>>
  /\ at = 2
  /\ said = [r \in Requests |-> {}]
  /\ download = [d \in Downloads |-> "new"]
  /\ tracing = "off"
  /\ traced = FALSE

Sent(ch, x) == IF Len(ch) < ChanCap THEN Append(ch, x) ELSE ch
OnWay(c, m) == ToSet(way[m]) \cup ToSet(inbox[c][m])

Go(c, from, to) == pc[c] = from /\ pc' = [pc EXCEPT ![c] = to]

(* A call that returns: its deferred calls take its subscriptions away.    *)
Leave(c, how) ==
  /\ pc' = [pc EXCEPT ![c] = how]
  /\ subs' = [subs EXCEPT ![c] = {}]
  /\ inbox' = [inbox EXCEPT ![c] = Empty]
  /\ timer' = [timer EXCEPT ![c] = "off"]

-------------------------------------------------------------------------------
(* Chrome and the way its events take.                                     *)

Listening(c) == pc[c] \in {"subscribing", "idling", "recording"}

(* The methods whose events end what a call waits for.                     *)
Heeds(c) == CASE Listening(c) -> Ends(tool[c])
              [] pc[c] \in {"sent", "waiting"} -> {Awaited(tool[c])}
              [] OTHER -> {}

(* Such an event has left the way and is not in the call's channel.        *)
PassedBy(m, x) ==
  past' = [c \in Calls |->
             IF m \in Heeds(c) /\ x \notin ToSet(inbox'[c][m])
             THEN [past[c] EXCEPT !.missed = @ \cup {x}] ELSE past[c]]

(* Bound: nobody looks any more.                                           *)
AllLeft == \A c \in Calls : pc[c] \in {"done", "failed"}

(* The pump: an event goes to the chain of its method, and to nobody if    *)
(* there is none; the recorder of downloads has chains of its own.         *)
Emit(m, x) ==
  /\ emitted < MaxEvents /\ ~AllLeft /\ Len(way[m]) < MaxOnWay
  /\ emitted' = emitted + 1
  /\ way' = IF m \in Collected THEN [way EXCEPT ![m] = Append(@, x)] ELSE way
  /\ \E got \in SUBSET {c \in Calls : m \in Direct \cap subs[c]} :
       inbox' = [c \in Calls |-> IF c \in got THEN [inbox[c] EXCEPT ![m] = Sent(@, x)]
                                              ELSE inbox[c]]
  /\ UNCHANGED <<pc, tool, todo, subs, timer, book, past, target>>

(* A channel on the way is full of events, of this tab or of others.       *)
Lose(m) ==
  /\ ~AllLeft
  /\ UNCHANGED <<pc, tool, todo, subs, inbox, timer, book, target, emitted, chromeVars>>
  /\ \E i \in DOMAIN way[m] :
       way' = [way EXCEPT ![m] = RemoveAt(@, i)] /\ PassedBy(m, way[m][i])

(* The collector of a method fans one event out to the page's subscribers. *)
Deliver(m) ==
  /\ way[m] # << >> /\ ~AllLeft
  /\ way' = [way EXCEPT ![m] = Tail(@)]
  /\ inbox' = [c \in Calls |-> IF m \in subs[c] THEN [inbox[c] EXCEPT ![m] = Sent(@, Head(way[m]))]
                                                ELSE inbox[c]]
  /\ PassedBy(m, Head(way[m]))
  /\ UNCHANGED <<pc, tool, todo, subs, timer, book, target, emitted, chromeVars>>

(* A document is committed: nothing of it has fired yet.                   *)
Committed(list, pos) ==
  /\ doc < MaxCommits
  /\ doc' = doc + 1
  /\ fired' = {}
  /\ entries' = list
  /\ at' = pos
NewDocument == Committed(Append(SubSeq(entries, 1, at), doc + 1), at + 1)

UserNavigates == ~AllLeft /\ NewDocument /\ UNCHANGED <<callVars, way, emitted, said, download, tracing, traced>>

Fires(m) ==
  /\ m \notin fired
  /\ m = "load" => "dcl" \in fired
  /\ fired' = fired \cup {m}
  /\ Emit(m, m)
  /\ UNCHANGED <<doc, entries, at, said, download, tracing, traced>>

(* A request is sent, perhaps again for a redirect, under the same id; it  *)
(* is responded to and finishes, or fails before or after the response.    *)
Says(r, m) ==
  /\ said' = [said EXCEPT ![r] = @ \cup {m}]
  /\ UNCHANGED <<docVars, download, tracing, traced>>
Over(r) == said[r] \cap {"finished", "failed"} # {}

SendRequest(r) == said[r] = {} /\ Says(r, "willBeSent") /\ Emit("willBeSent", r)
Redirect(r) == said[r] = {"willBeSent"} /\ Says(r, "redirected") /\ Emit("willBeSent", r)
Respond(r) == /\ "willBeSent" \in said[r] /\ "response" \notin said[r] /\ ~Over(r)
              /\ Says(r, "response") /\ Emit("response", r)
EndRequest(r, m) == /\ "willBeSent" \in said[r] /\ ~Over(r)
                    /\ m = "finished" => "response" \in said[r]
                    /\ Says(r, m) /\ Emit(m, r)

DownloadStep(d, from, to, m) ==
  /\ download[d] = from
  /\ download' = [download EXCEPT ![d] = to]
  /\ Emit(m, d)
  /\ UNCHANGED <<docVars, said, tracing, traced>>
BeginDownload(d) == DownloadStep(d, "new", "going", "downloadWillBegin")
EndDownload(d, how) == DownloadStep(d, "going", how, "downloadProgress")

SendTrace ==
  /\ tracing = "flushing" /\ ~traced
  /\ traced' = TRUE
  /\ Emit("dataCollected", Chunk)
  /\ UNCHANGED <<docVars, said, download, tracing>>
CompleteTrace ==
  /\ tracing = "flushing" /\ traced
  /\ tracing' = "off"
  /\ Emit("tracingComplete", Chunk)
  /\ UNCHANGED <<docVars, said, download, traced>>

-------------------------------------------------------------------------------
(* Navigate and the history steps.                                         *)

(* It subscribes before it sends.                                          *)
SubscribeLoad(c, t) ==
  /\ Go(c, "start", "sending")
  /\ tool' = [tool EXCEPT ![c] = t]
  /\ subs' = [subs EXCEPT ![c] = {Awaited(t)}]
  /\ UNCHANGED <<todo, inbox, timer, book, past, target, way, emitted, chromeVars>>

Commit(c) ==
  /\ Go(c, "sending", "sent")
  /\ NewDocument
  /\ UNCHANGED <<tool, todo, subs, inbox, timer, book, past, target, way, emitted,
                 said, download, tracing, traced>>

(* Mutant: it subscribes when Page.navigate has been answered.             *)
AnsweredThenSubscribes(c) ==
  /\ Go(c, "sent", "waiting")
  /\ inbox' = [inbox EXCEPT ![c] = Empty]
  /\ UNCHANGED <<tool, todo, subs, timer, book, past, target, way, emitted, chromeVars>>

Answered(c) ==
  /\ Go(c, "sent", "waiting")
  /\ UNCHANGED <<tool, todo, subs, inbox, timer, book, past, target, way, emitted, chromeVars>>

(* A recorder begins: what ended before it, without an event still to come *)
(* to the page, it cannot hear of.                                         *)
BeginRecorder(c, t) ==
  /\ pc' = [pc EXCEPT ![c] = "subscribing"]
  /\ todo' = [todo EXCEPT ![c] = Needed(t)]
  /\ subs' = [subs EXCEPT ![c] = {}]
  /\ inbox' = [inbox EXCEPT ![c] = Empty]
  /\ past' = [past EXCEPT ![c].missed =
                {r \in Requests : \E m \in Ends(t) : m \in said[r] /\ r \notin ToSet(way[m])}]

(* Any event of the method will do.  For networkidle the quiescence wait   *)
(* follows, and the load channel is not looked at again; task_capture_har  *)
(* goes on to its recorder.                                                *)
HearLoad(c) ==
  /\ pc[c] = "waiting"
  /\ inbox[c][Awaited(tool[c])] # << >>
  /\ \/ tool[c] \in {"load", "dcl"} /\ Leave(c, "done") /\ UNCHANGED <<todo, past>>
     \/ tool[c] \in {"networkidle", "harOfUrl"} /\ BeginRecorder(c, tool[c]) /\ UNCHANGED timer
  /\ UNCHANGED <<tool, book, target, way, emitted, chromeVars>>

(* back and forward read the history and then ask for the entry by its id, *)
(* which may be gone by then; reload is one command.                       *)
ReadHistory(c, t) ==
  /\ pc[c] = "start"
  /\ tool' = [tool EXCEPT ![c] = t]
  /\ LET pos == IF t = "back" THEN at - 1 ELSE at + 1
     IN  \/ /\ pos \in DOMAIN entries
            /\ target' = [target EXCEPT ![c] = entries[pos]]
            /\ pc' = [pc EXCEPT ![c] = "stepping"]
            /\ UNCHANGED <<subs, inbox, timer>>
         \/ pos \notin DOMAIN entries /\ Leave(c, "failed") /\ UNCHANGED target
  /\ UNCHANGED <<todo, book, past, way, emitted, chromeVars>>

StepTo(c, pos) ==
  /\ Leave(c, "done")
  /\ Committed(entries, pos)
  /\ UNCHANGED <<todo, book, past, target, way, emitted, said, download, tracing, traced>>

HistoryStep(c) ==
  /\ pc[c] = "stepping"
  /\ \E pos \in DOMAIN entries : entries[pos] = target[c] /\ StepTo(c, pos)
  /\ UNCHANGED tool

Reload(c) ==
  /\ pc[c] = "start"
  /\ tool' = [tool EXCEPT ![c] = "reload"]
  /\ StepTo(c, at)

-------------------------------------------------------------------------------
(* Recorders: WaitNetworkIdle, CaptureHAR, CaptureTrace, WaitForDownload.  *)

StartRecorder(c, t) ==
  /\ pc[c] = "start"
  /\ tool' = [tool EXCEPT ![c] = t]
  /\ BeginRecorder(c, t)
  /\ UNCHANGED <<timer, book, target, way, emitted, chromeVars>>

Subscribed(t) == CASE t = "networkidle" -> "idling"
                   [] t \in {"har", "harOfUrl"} -> "recording"
                   [] t = "trace" -> "starting"
                   [] t = "download" -> "downloading"

AddSub(c) ==
  /\ pc[c] = "subscribing"
  /\ subs' = [subs EXCEPT ![c] = @ \cup {Head(todo[c])}]
  /\ todo' = [todo EXCEPT ![c] = Tail(@)]
  /\ IF Len(todo[c]) > 1 THEN UNCHANGED <<pc, timer>>
     ELSE /\ pc' = [pc EXCEPT ![c] = Subscribed(tool[c])]
          /\ timer' = [timer EXCEPT ![c] = IF tool[c] = "networkidle" THEN "armed" ELSE "off"]
  /\ UNCHANGED <<tool, inbox, book, past, target, way, emitted, chromeVars>>

(* Mutant: a request that fails stays on the books.                        *)
NotedFinishedOnly(b, m, x) ==
  CASE m = "willBeSent" -> [b EXCEPT !.open = @ \cup {x}, !.answered = @ \ {x}]
    [] m = "finished" -> [b EXCEPT !.open = @ \ {x}]
    [] m = "failed" -> b
    [] m = "response" -> [b EXCEPT !.open = @ \ {x}, !.answered = @ \cup ({x} \cap b.open)]
    [] m = "dataCollected" -> [b EXCEPT !.data = @ \cup {x}]

(* What a recorder makes of an event: a request that begins, also when it  *)
(* begins anew after a redirect, one that ends, one that is responded to - *)
(* if its entry is there - and a chunk of the trace.                       *)
Noted(b, m, x) ==
  CASE m = "willBeSent" -> [b EXCEPT !.open = @ \cup {x}, !.answered = @ \ {x}]
    [] m \in {"finished", "failed"} -> [b EXCEPT !.open = @ \ {x}]
    [] m = "response" -> [b EXCEPT !.open = @ \ {x}, !.answered = @ \cup ({x} \cap b.open)]
    [] m = "dataCollected" -> [b EXCEPT !.data = @ \cup {x}]

Taken(p, t, m, x) ==
  CASE m = "willBeSent" -> [p EXCEPT !.started = @ \cup {x},
                                     !.missed = @ \cup ({x} \cap p.ended)]
    [] m \in Ends(t) -> [p EXCEPT !.ended = @ \cup {x}]
    [] OTHER -> p

(* One turn of a recorder's select.  Whenever nothing is in flight after   *)
(* it, WaitNetworkIdle starts its timer anew.                              *)
Hear(c, m) ==
  /\ pc[c] \in {"idling", "recording", "collecting"}
  /\ inbox[c][m] # << >>
  /\ m # "tracingComplete"
  /\ LET x == Head(inbox[c][m])
         b == Noted(book[c], m, x)
     IN  /\ book' = [book EXCEPT ![c] = b]
         /\ past' = [past EXCEPT ![c] = Taken(@, tool[c], m, x)]
         /\ timer' = IF tool[c] = "networkidle" /\ b.open = {}
                     THEN [timer EXCEPT ![c] = "armed"] ELSE timer
  /\ inbox' = [inbox EXCEPT ![c][m] = Tail(@)]
  /\ UNCHANGED <<pc, tool, todo, subs, target, way, emitted, chromeVars>>

TimerFires(c) ==
  /\ timer[c] = "armed"
  /\ timer' = [timer EXCEPT ![c] = "fired"]
  /\ UNCHANGED <<pc, tool, todo, subs, inbox, book, past, target, way, emitted, chromeVars>>

(* Mutant: it does not look whether something is in flight.                *)
TimerSeenBlind(c) ==
  /\ timer[c] = "fired"
  /\ Leave(c, "done")
  /\ UNCHANGED <<tool, todo, book, past, target, way, emitted, chromeVars>>

TimerSeen(c) ==
  /\ timer[c] = "fired"
  /\ \/ book[c].open = {} /\ Leave(c, "done")
     \/ /\ book[c].open # {}
        /\ timer' = [timer EXCEPT ![c] = "armed"]
        /\ UNCHANGED <<pc, subs, inbox>>
  /\ UNCHANGED <<tool, todo, book, past, target, way, emitted, chromeVars>>

(* CaptureHAR writes what it has at its deadline, and also when canceled.  *)
HarDone(c) ==
  /\ pc[c] = "recording"
  /\ Leave(c, "done")
  /\ UNCHANGED <<tool, todo, book, past, target, way, emitted, chromeVars>>

StartTrace(c) ==
  /\ Go(c, "starting", "tracing")
  /\ tracing = "off"
  /\ tracing' = "on"
  /\ traced' = FALSE
  /\ UNCHANGED <<tool, todo, subs, inbox, timer, book, past, target, way, emitted,
                 docVars, said, download>>

(* The deadline, or the end of the context, which fails the call.          *)
EndTrace(c) ==
  /\ pc[c] = "tracing"
  /\ tracing' = "flushing"
  /\ \/ Go(c, "tracing", "collecting") /\ UNCHANGED <<subs, inbox, timer>>
     \/ Leave(c, "failed")
  /\ UNCHANGED <<tool, todo, book, past, target, way, emitted, docVars, said, download, traced>>

(* tracingComplete or the safety timer.                                    *)
TraceDone(c) ==
  /\ pc[c] = "collecting"
  /\ Leave(c, "done")
  /\ UNCHANGED <<tool, todo, book, past, target, way, emitted, chromeVars>>

HearBegin(c) ==
  /\ pc[c] = "downloading"
  /\ inbox[c]["downloadWillBegin"] # << >>
  /\ book' = [book EXCEPT ![c].guid = Head(inbox[c]["downloadWillBegin"])]
  /\ inbox' = [inbox EXCEPT ![c]["downloadWillBegin"] = Tail(@)]
  /\ UNCHANGED <<pc, tool, todo, subs, timer, past, target, way, emitted, chromeVars>>

(* The first download that ends ends the call, and the path is made of the *)
(* guid heard last, of this one only if none was heard.                    *)
DownloadEnds(c) ==
  /\ pc[c] = "downloading"
  /\ inbox[c]["downloadProgress"] # << >>
  /\ LET d == Head(inbox[c]["downloadProgress"])
     IN  \/ /\ download[d] = "completed"
            /\ book' = [book EXCEPT ![c].size = d,
                          ![c].file = IF @ = NoDownload /\ book[c].guid = NoDownload
                                      THEN d ELSE book[c].guid]
            /\ Leave(c, "done")
         \/ download[d] = "canceled" /\ Leave(c, "failed") /\ UNCHANGED book
  /\ UNCHANGED <<tool, todo, past, target, way, emitted, chromeVars>>

(* A command that fails, a deadline or the end of the context.             *)
GiveUp(c) ==
  /\ pc[c] \in {"sending", "sent", "waiting", "stepping", "idling", "starting", "tracing",
                "collecting", "downloading"}
  /\ Leave(c, "failed")
  /\ UNCHANGED <<tool, todo, book, past, target, way, emitted, chromeVars>>

-------------------------------------------------------------------------------
Chrome ==
  \/ UserNavigates
  \/ \E m \in {"dcl", "load"} : Fires(m)
  \/ \E r \in Requests : \/ SendRequest(r) \/ Redirect(r) \/ Respond(r)
                         \/ \E m \in {"finished", "failed"} : EndRequest(r, m)
  \/ \E d \in Downloads : BeginDownload(d) \/ \E how \in {"completed", "canceled"} : EndDownload(d, how)
  \/ SendTrace \/ CompleteTrace

Call(c) ==
  \/ \E t \in Navigations : SubscribeLoad(c, t)
  \/ Commit(c) \/ Answered(c) \/ HearLoad(c)
  \/ \E t \in {"back", "forward"} : ReadHistory(c, t)
  \/ HistoryStep(c) \/ Reload(c)
  \/ \E t \in {"har", "trace", "download"} : StartRecorder(c, t)
  \/ AddSub(c) \/ \E m \in Methods : Hear(c, m)
  \/ TimerFires(c) \/ TimerSeen(c) \/ HarDone(c)
  \/ StartTrace(c) \/ EndTrace(c) \/ TraceDone(c)
  \/ HearBegin(c) \/ DownloadEnds(c) \/ GiveUp(c)

Next ==
  \/ Chrome
  \/ \E m \in Collected : Deliver(m) \/ Lose(m)
  \/ \E c \in Calls : Call(c)

Spec == Init /\ [][Next]_vars

(* Goroutines that can run do, a select that has an event to take takes one *)
(* (it chooses at random, so a timer that is always ready cannot keep it    *)
(* from that), and a timer that was set fires.  Chrome and the contexts of  *)
(* the callers owe nothing.                                                 *)
Fairness ==
  /\ \A m \in Collected : WF_vars(Deliver(m))
  /\ \A c \in Calls :
       /\ WF_vars(HearLoad(c) \/ AddSub(c))
       /\ WF_vars(TimerFires(c) \/ TimerSeen(c))
       /\ WF_vars(\E m \in Methods : Hear(c, m))

FairSpec == Spec /\ Fairness

-------------------------------------------------------------------------------
Books == [open : SUBSET Requests, answered : SUBSET Requests, data : SUBSET {Chunk},
          guid : Downloads \cup {NoDownload}, file : Downloads \cup {NoDownload},
          size : Downloads \cup {NoDownload}]
Pasts == [started : SUBSET Requests, ended : SUBSET Requests,
          missed : SUBSET (Requests \cup {"load", "dcl"})]
Payload(m) == CASE m \in {"load", "dcl"} -> {m}
                [] m \in Direct -> Downloads
                [] m \in {"dataCollected", "tracingComplete"} -> {Chunk}
                [] OTHER -> Requests

CallTypes ==
  /\ pc \in [Calls -> {"start", "sending", "sent", "waiting", "subscribing", "idling", "recording",
                       "starting", "tracing", "collecting", "downloading", "stepping",
                       "done", "failed"}]
  /\ tool \in [Calls -> Tools \cup {"none"}]
  /\ todo \in [Calls -> Seq(Methods)]
  /\ subs \in [Calls -> SUBSET Methods]
  /\ timer \in [Calls -> {"off", "armed", "fired"}]
  /\ book \in [Calls -> Books]
  /\ past \in [Calls -> Pasts]
  /\ target \in [Calls -> 0 .. MaxCommits]

ChromeTypes ==
  /\ emitted \in 0 .. MaxEvents
  /\ doc \in 3 .. MaxCommits
  /\ fired \subseteq {"load", "dcl"}
  /\ entries \in Seq(1 .. MaxCommits) /\ at \in DOMAIN entries
  /\ said \in [Requests -> SUBSET {"willBeSent", "redirected", "response", "finished", "failed"}]
  /\ download \in [Downloads -> {"new", "going", "completed", "canceled"}]
  /\ tracing \in {"off", "on", "flushing"}
  /\ traced \in BOOLEAN

(* What is on its way carries what its method carries; a call that is not  *)
(* under way is subscribed to nothing, has nothing to subscribe to and no  *)
(* timer, and a channel nobody subscribed is empty.                        *)
TypeOK ==
  /\ CallTypes /\ ChromeTypes
  /\ \A m \in Methods : way[m] \in Seq(Payload(m))
  /\ \A c \in Calls, m \in Methods :
       /\ inbox[c][m] \in BoundedSeq(Payload(m), ChanCap)
       /\ m \notin subs[c] => inbox[c][m] = << >>
  /\ \A c \in Calls :
       /\ pc[c] \in {"start", "done", "failed"} => subs[c] = {}
       /\ timer[c] # "off" <=> pc[c] = "idling"
       /\ todo[c] # << >> <=> pc[c] = "subscribing"

(* A request on a recorder's books - in flight for WaitNetworkIdle, an HAR *)
(* entry without a response - really has no end yet, or its end is on the  *)
(* way to the recorder, or it passed the recorder by: dropped on a full    *)
(* channel, before it subscribed, or taken before the request's start.     *)
OpenIsExplained(c) ==
  \A r \in book[c].open :
    \/ said[r] \cap Ends(tool[c]) = {}
    \/ \E m \in Ends(tool[c]) : r \in OnWay(c, m)
    \/ r \in past[c].missed

(* What is off the books has really ended, or been answered.              *)
TakenOffHasEnded(c) ==
  \A r \in past[c].started \ book[c].open : said[r] \cap Ends(tool[c]) # {}

(* WaitNetworkIdle returned: nothing it heard the start of is running.     *)
IdleIsOver(c) ==
  tool[c] = "networkidle" /\ pc[c] = "done" => \A r \in past[c].started : Over(r)

(* The path task_wait_for_download returns is that of the download whose   *)
(* end it saw, whichever of the two channels its select read first, unless *)
(* several downloads ran in the tab (download.go:66-74).                   *)
DownloadIsNamed(c) ==
  book[c].size # NoDownload =>
    /\ download[book[c].size] = "completed"
    /\ book[c].file = book[c].size \/ \E d \in Downloads \ {book[c].size} : download[d] # "new"

(* What a recorder believes is so: what is open on its books is, what was  *)
(* taken off them has really ended (networkidle.go:33-44) or been answered *)
(* (har.go:86-99), also when starts and ends cross, WaitNetworkIdle does   *)
(* not return over a request it heard the start of and that still runs,    *)
(* and a download's path is its own.                                       *)
BooksAreTrue ==
  \A c \in Calls :
    /\ pc[c] \in {"idling", "recording"} => OpenIsExplained(c)
    /\ TakenOffHasEnded(c) /\ IdleIsOver(c) /\ DownloadIsNamed(c)

(* Navigate cannot miss the load event of its document: if Chrome fires it *)
(* the call does not go on waiting for it, although the event may be on    *)
(* its way before Page.navigate is answered (navigate.go:55-58) and the    *)
(* call's channel be full, unless the event was lost on the way.           *)
NavigateHearsLoad ==
  \A c \in Calls :
    pc[c] = "waiting" /\ Awaited(tool[c]) \in fired ~>
      pc[c] # "waiting" \/ Awaited(tool[c]) \in past[c].missed

(* WaitNetworkIdle returns once every request has ended for good, unless   *)
(* the end of one passed it by (networkidle.go:10, 46-76).                 *)
Quiet == \A r \in Requests : said[r] # {} => Over(r)
QuietEndsIdle ==
  \A c \in Calls : []<>(pc[c] = "idling" /\ Quiet => past[c].missed # {})

(* "Subscribe BEFORE start so we don't miss the dataCollected stream"      *)
(* (trace.go:28): while the recorder collects, a chunk that Chrome has     *)
(* sent is on its way, in the recorder's channel, or in the trace.         *)
TraceMissesNothing ==
  \A c \in Calls :
    tool[c] = "trace" /\ pc[c] = "collecting" /\ traced =>
      Chunk \in OnWay(c, "dataCollected") \cup book[c].data
===============================================================================
