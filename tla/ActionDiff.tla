------------------------------ MODULE ActionDiff ------------------------------
(***************************************************************************)
(* task_action_diff (tools/task_action_diff.go): capture the tab's state,  *)
(* run another tool through the registry, capture again, report what is    *)
(* new.  It composes the gestures of Interaction with the event ring of    *)
(* RingBuffer: the tab's collectors add to the ring all the while, and the *)
(* capture of the DOM is a snapshot like any other, cached in the page.    *)
(*                                                                         *)
(* The URL, the cookies and the hash are read to be compared in the reply, *)
(* which nothing depends on, so only that they are read is modelled; a     *)
(* read that fails is swallowed.  The events of the first capture are      *)
(* never looked at.                                                        *)
(***************************************************************************)
EXTENDS RingBuffer, Interaction

CONSTANTS
  DiffUses,   \* the calls each agent has task_action_diff make
  MaxEvents   \* bound on events recorded while a diff is under way

ASSUME ActionDiffAssumption ==
  /\ \A a \in Agents : DiffUses[a] \subseteq Use
  /\ MaxEvents \in Nat /\ 1 \in Times

VARIABLES
  now,    \* the clock events and calls are stamped by
  start,  \* each diff's startTime
  heard,  \* the events its second capture took from the ring
  since,  \* history: events recorded from its start to that capture
  added   \* how many events were recorded

clockVars == <<now, start, heard, since, added>>
diffVars  == <<ringVars, interactionVars, clockVars>>

DiffInit ==
  /\ RingInit /\ Init
  /\ now = 1 /\ added = 0
  /\ start = [a \in Agents |-> 0]
  /\ heard = [a \in Agents |-> << >>]
  /\ since = [a \in Agents |-> << >>]

(* From its start until the ring was read again.                           *)
Listening(a) == call[a].nested /\ call[a].why # "sumAfter"

-------------------------------------------------------------------------------
BeginDiff(a, u) ==
  /\ pc[a] = "idle" /\ calls < MaxCalls
  /\ Become(a, "before", [NoCall EXCEPT !.use = u, !.nested = TRUE])
  /\ start' = [start EXCEPT ![a] = now]
  /\ calls' = calls + 1
  /\ UNCHANGED <<ringVars, pageVars, cacheVars, historyVars, changes, now, heard, since, added>>

(* captureState: URL and cookies, then the events, then the DOM.           *)
CaptureBefore(a) ==
  /\ pc[a] = "before"
  /\ Become(a, "fetch", [call[a] EXCEPT !.why = "sumBefore"])
  /\ UNCHANGED <<ringVars, pageVars, cacheVars, historyVars, calls, changes, clockVars>>

CaptureAfter(a) ==
  /\ pc[a] = "settle"
  /\ heard' = [heard EXCEPT ![a] = Recent(0, {})]
  /\ Become(a, "fetch", [call[a] EXCEPT !.why = "sumAfter"])
  /\ UNCHANGED <<ringVars, pageVars, cacheVars, historyVars, calls, changes,
                 now, start, since, added>>

AfterSummary(a) == IF call[a].why = "sumBefore" THEN "invoke" ELSE "report"

(* domSummaryHash: a snapshot nobody is shown, but cached.                 *)
StoreSummary(a) ==
  /\ pc[a] = "store" /\ call[a].why \in {"sumBefore", "sumAfter"}
  /\ Cache(a, FALSE)
  /\ Become(a, AfterSummary(a), [call[a] EXCEPT !.view = << >>])
  /\ UNCHANGED <<ringVars, pageVars, historyVars, calls, changes, clockVars>>

SummaryFails(a) ==
  /\ pc[a] = "fetch" /\ call[a].why \in {"sumBefore", "sumAfter"}
  /\ Become(a, AfterSummary(a), call[a])
  /\ UNCHANGED <<ringVars, pageVars, cacheVars, historyVars, calls, changes, clockVars>>

(* The action is invoked through the registry; an unknown tool ends the    *)
(* call there.                                                             *)
Invoke(a) ==
  /\ pc[a] = "invoke"
  /\ Enter(a, call[a].use, TRUE)
  /\ UNCHANGED <<ringVars, pageVars, cacheVars, historyVars, calls, changes, clockVars>>

EndDiff(a) ==
  /\ Become(a, "idle", NoCall)
  /\ start' = [start EXCEPT ![a] = 0]
  /\ heard' = [heard EXCEPT ![a] = << >>]
  /\ since' = [since EXCEPT ![a] = << >>]
  /\ UNCHANGED <<ringVars, pageVars, cacheVars, historyVars, calls, changes, now, added>>

InvokeFails(a) == pc[a] = "invoke" /\ EndDiff(a)
Report(a)      == pc[a] = "report" /\ EndDiff(a)

-------------------------------------------------------------------------------
(* Bound on events and clock, which no gesture looks at: an event may come *)
(* before the last call and the clock move after it; they go on while that *)
(* call is a diff that listens, the others having returned.                *)
Early == calls = MaxCalls - 1 /\ \A a \in Agents : pc[a] = "idle"
Heard == /\ calls = MaxCalls
         /\ \E a \in Agents : Listening(a) /\ \A b \in Agents \ {a} : pc[b] = "idle"

(* A collector stamps an event and adds it to the ring, maybe a moment     *)
(* later (events.go:81-88).                                                *)
Record ==
  /\ (Early /\ added = 0) \/ (Heard /\ added < MaxEvents)
  /\ \E e \in Events :
       /\ e.at \in {now, now - 1}
       /\ Add(e)
       /\ since' = [a \in Agents |-> IF Listening(a) THEN Append(since[a], e) ELSE since[a]]
  /\ added' = added + 1
  /\ UNCHANGED <<interactionVars, now, start, heard>>

Tick ==
  /\ now + 1 \in Times
  /\ (Early /\ added = 1) \/ Heard
  /\ now' = now + 1
  /\ UNCHANGED <<ringVars, interactionVars, start, heard, since, added>>

DiffStep(a) ==
  \/ \E u \in DiffUses[a] : BeginDiff(a, u)
  \/ CaptureBefore(a) \/ CaptureAfter(a) \/ StoreSummary(a) \/ SummaryFails(a)
  \/ Invoke(a) \/ InvokeFails(a) \/ Report(a)

DiffNext ==
  \/ \E a \in Agents : DiffStep(a)
  \/ Record \/ Tick
  \/ Next /\ UNCHANGED <<ringVars, clockVars>>

DiffSpec == DiffInit /\ [][DiffNext]_diffVars

-------------------------------------------------------------------------------
(* Mutant: an event stamped exactly at since is left out.                  *)
newSinceTimeStrict(events, method, t) ==
  Keep(events, {e \in Events : e.method = method /\ e.at > t})

newSinceTime(events, method, t) ==
  Keep(events, {e \in Events : e.method = method /\ e.at >= t})

(* What the ring can still hold of the events recorded.                    *)
Youngest(events) ==
  IF Len(events) > Cap THEN SubSeq(events, Len(events) - Cap + 1, Len(events)) ELSE events

(* The reply names every event of its kind that was stamped and recorded   *)
(* since the call began, short of those the ring has since overwritten; in *)
(* front of them it names at most events stamped in the very instant the   *)
(* call began (task_action_diff.go:57-92, event_buffer.go:30-46).          *)
DiffReportsWhatHappened ==
  \A a \in Agents, m \in Methods :
    pc[a] = "report" =>
      LET due == Keep(Youngest(since[a]), {e \in Events : e.method = m /\ e.at >= start[a]})
          reported == newSinceTime(heard[a], m, start[a])
      IN  /\ IsSuffix(due, reported)
          /\ \A i \in 1 .. Len(reported) - Len(due) : reported[i].at = start[a]
===============================================================================
