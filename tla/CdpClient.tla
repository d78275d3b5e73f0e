------------------------------- MODULE CdpClient -------------------------------
(***************************************************************************)
(* One CDP websocket connection, internal/cdp/client.go and session.go:    *)
(* goroutines in Send or SendOnTarget, the read pump that routes responses *)
(* back by id, and the two ways the connection ends - a Close call and a   *)
(* read error seen by the pump - which meet in one sync.Once.              *)
(*                                                                         *)
(* Send and SendOnTarget take the same steps (they differ in the text of   *)
(* one error), so a call stands for either.  A request is known by its     *)
(* call, a response by the id it carries and the call it really answers.   *)
(* Events are routed by the same pump without ever blocking it; module     *)
(* EventPipeline has them.                                                 *)
(***************************************************************************)
EXTENDS Naturals, Sequences, FiniteSets

CONSTANTS
  Calls,      \* invocations of Send or SendOnTarget
  Closers,    \* invocations of Close
  Pump,       \* the read pump goroutine
  NoCall,     \* "nobody"
  MaxRepeats  \* bound on responses the peer sends a second time

ASSUME CdpClientAssumption ==
  /\ IsFiniteSet(Calls)
  /\ Pump \notin Closers
  /\ NoCall \notin Calls
  /\ MaxRepeats \in Nat

Answers == {"result", "cdpError"}  \* r.Result, r.Error

VARIABLES
  pc,         \* where each call is in Send
  nextID,     \* the atomic id counter
  callId,     \* the id a call took, 0 before
  pending,    \* ids registered in the pending map
  slot,       \* a call's response channel, of capacity 1
  outcome,    \* what Send returned
  writer,     \* holder of writeMu
  requests,   \* requests on the wire or at the peer
  answer,     \* the peer's answer to each call (external)
  inbox,      \* frames on their way to the pump
  repeats,    \* how many frames the peer has sent twice
  hand,       \* the frame the pump is routing and the channel it looked up
  stage,      \* where each closer and the pump are in the closing sequence
  once,       \* the state of closeOnce
  closeError, \* the reason stored for callers
  connOpen,   \* conn.Close has not been called
  peerGone,   \* the peer has gone away (external)
  closes      \* how many times close(c.closed) has run

callVars  == <<pc, callId, slot, outcome>>
peerVars  == <<requests, answer, inbox, repeats, peerGone>>
closeVars == <<stage, once, closeError, connOpen, closes>>
vars == <<pc, nextID, callId, pending, slot, outcome, writer,
          requests, answer, inbox, repeats, hand, stage, once, closeError,
          connOpen, peerGone, closes>>

Procs   == Closers \cup {Pump}
Frames  == [id : Nat, call : Calls, ans : Answers]
NoFrame == [id |-> 0]
Idle    == [frame |-> NoFrame, to |-> NoCall]
closed  == closes > 0

Init ==
  /\ pc = [c \in Calls |-> "idle"]
  /\ nextID = 0
  /\ callId = [c \in Calls |-> 0]
  /\ pending = {}
  /\ slot = [c \in Calls |-> NoFrame]
  /\ outcome = [c \in Calls |-> "none"]
  /\ writer = NoCall
  /\ requests = {}
  /\ answer = [c \in Calls |-> "none"]
  /\ inbox = << >>
  /\ repeats = 0
  /\ hand = Idle
  /\ stage = [p \in Procs |-> "start"]
  /\ once = "fresh"
  /\ closeError = "none"
  /\ connOpen = TRUE
  /\ peerGone = FALSE
  /\ closes = 0

Move(c, from, to) ==
  /\ pc[c] = from
  /\ pc' = [pc EXCEPT ![c] = to]

-------------------------------------------------------------------------------
(* A call.                                                                 *)

Begin(c) ==
  /\ Move(c, "idle", "begun")
  /\ nextID' = nextID + 1
  /\ callId' = [callId EXCEPT ![c] = nextID + 1]
  /\ UNCHANGED <<pending, slot, outcome, writer, hand, peerVars, closeVars>>

Register(c) ==
  /\ Move(c, "begun", "registered")
  /\ pending' = pending \cup {callId[c]}
  /\ UNCHANGED <<nextID, callId, slot, outcome, writer, hand, peerVars, closeVars>>

LockWrite(c) ==
  /\ Move(c, "registered", "writing")
  /\ writer = NoCall
  /\ writer' = c
  /\ UNCHANGED <<nextID, callId, pending, slot, outcome, hand, peerVars, closeVars>>

(* WriteJSON hands the frame to the socket; a peer that is gone may not be *)
(* noticed yet.                                                            *)
Write(c) ==
  /\ Move(c, "writing", "waiting")
  /\ connOpen
  /\ writer' = NoCall
  /\ requests' = requests \cup {[id |-> callId[c], call |-> c]}
  /\ UNCHANGED <<nextID, callId, pending, slot, outcome, hand,
                 answer, inbox, repeats, peerGone, closeVars>>

Return(c, o) == outcome' = [outcome EXCEPT ![c] = o]

(* Mutant: the early return leaves the call in the pending map.            *)
WriteFailsLeaks(c) ==
  /\ Move(c, "writing", "done")
  /\ ~connOpen \/ peerGone
  /\ writer' = NoCall
  /\ Return(c, "writeError")
  /\ UNCHANGED <<nextID, callId, pending, slot, hand, peerVars, closeVars>>

WriteFails(c) ==
  /\ Move(c, "writing", "returning")
  /\ ~connOpen \/ peerGone
  /\ writer' = NoCall
  /\ Return(c, "writeError")
  /\ UNCHANGED <<nextID, callId, pending, slot, hand, peerVars, closeVars>>

(* The three branches of Send's select.  Go picks any that is ready.  The  *)
(* caller's context may expire at any moment, so the first always may be.  *)
SeeCancelled(c) ==
  /\ Move(c, "waiting", "returning")
  /\ Return(c, "cancelled")
  /\ UNCHANGED <<nextID, callId, pending, slot, writer, hand, peerVars, closeVars>>

(* Mutant: the stored reason is looked at instead of the closed channel.   *)
SeeClosedEarly(c) ==
  /\ Move(c, "waiting", "returning")
  /\ closeError # "none"
  /\ Return(c, "closed")
  /\ UNCHANGED <<nextID, callId, pending, slot, writer, hand, peerVars, closeVars>>

SeeClosed(c) ==
  /\ Move(c, "waiting", "returning")
  /\ closed
  /\ Return(c, "closed")
  /\ UNCHANGED <<nextID, callId, pending, slot, writer, hand, peerVars, closeVars>>

Receive(c) ==
  /\ Move(c, "waiting", "returning")
  /\ slot[c] # NoFrame
  /\ Return(c, slot[c].ans)
  /\ slot' = [slot EXCEPT ![c] = NoFrame]
  /\ UNCHANGED <<nextID, callId, pending, writer, hand, peerVars, closeVars>>

(* The deferred pending.Delete.                                            *)
Deregister(c) ==
  /\ Move(c, "returning", "done")
  /\ pending' = pending \ {callId[c]}
  /\ UNCHANGED <<nextID, callId, slot, outcome, writer, hand, peerVars, closeVars>>

-------------------------------------------------------------------------------
(* The read pump.                                                          *)

(* Mutant: a response goes to any pending call, whatever its id.           *)
PumpLookupAny ==
  /\ stage[Pump] = "start"
  /\ hand = Idle
  /\ inbox # << >>
  /\ inbox' = Tail(inbox)
  /\ LET found == {c \in Calls : callId[c] \in pending}
     IN  hand' = IF found = {} THEN Idle
                 ELSE [frame |-> Head(inbox), to |-> CHOOSE c \in found : TRUE]
  /\ UNCHANGED <<nextID, pending, writer, callVars, requests, answer, repeats,
                 peerGone, closeVars>>

(* ReadMessage, then pending.Load on the response's id.                    *)
PumpLookup ==
  /\ stage[Pump] = "start"
  /\ hand = Idle
  /\ inbox # << >>
  /\ inbox' = Tail(inbox)
  /\ LET f == Head(inbox)
         found == {c \in Calls : callId[c] = f.id /\ f.id \in pending}
     IN  hand' = IF found = {} THEN Idle
                 ELSE [frame |-> f, to |-> CHOOSE c \in found : TRUE]
  /\ UNCHANGED <<nextID, pending, writer, callVars, requests, answer, repeats,
                 peerGone, closeVars>>

(* Mutant: the send blocks while the channel holds a response.             *)
PumpDeliverBlocks ==
  /\ hand # Idle
  /\ slot[hand.to] = NoFrame
  /\ slot' = [slot EXCEPT ![hand.to] = hand.frame]
  /\ hand' = Idle
  /\ UNCHANGED <<pc, nextID, callId, pending, outcome, writer, peerVars, closeVars>>

(* The non-blocking send: a channel that already holds a response keeps it *)
(* and the new one is dropped.                                             *)
PumpDeliver ==
  /\ hand # Idle
  /\ slot' = [slot EXCEPT ![hand.to] = IF @ = NoFrame THEN hand.frame ELSE @]
  /\ hand' = Idle
  /\ UNCHANGED <<pc, nextID, callId, pending, outcome, writer,
                 peerVars, closeVars>>

(* Mutant: the pump stops without closing the client.                      *)
PumpReadErrorQuiet ==
  /\ stage[Pump] = "start"
  /\ hand = Idle
  /\ ~connOpen \/ peerGone
  /\ closeError' = "readError"
  /\ stage' = [stage EXCEPT ![Pump] = "returned"]
  /\ UNCHANGED <<nextID, pending, writer, hand, callVars, peerVars, once, connOpen, closes>>

(* A read fails once either end is closed; frames already buffered may or  *)
(* may not be returned first.  The error is stored before the Once.        *)
PumpReadError ==
  /\ stage[Pump] = "start"
  /\ hand = Idle
  /\ ~connOpen \/ peerGone
  /\ closeError' = "readError"
  /\ stage' = [stage EXCEPT ![Pump] = "enter"]
  /\ UNCHANGED <<nextID, pending, writer, hand, callVars, peerVars, once, connOpen, closes>>

-------------------------------------------------------------------------------
(* Close, and the closing sequence it shares with the pump.                *)

CallClose(p) ==
  /\ p \in Closers
  /\ stage[p] = "start"
  /\ stage' = [stage EXCEPT ![p] = "enter"]
  /\ UNCHANGED <<nextID, pending, writer, hand, callVars, peerVars, once,
                 closeError, connOpen, closes>>

(* Mutant: a plain flag instead of the Once.                               *)
EnterAlways(p) ==
  /\ stage[p] = "enter"
  /\ once' = "running"
  /\ stage' = [stage EXCEPT ![p] = IF p = Pump THEN "conn" ELSE "store"]
  /\ UNCHANGED <<nextID, pending, writer, hand, callVars, peerVars, closeError,
                 connOpen, closes>>

EnterOnce(p) ==
  /\ stage[p] = "enter"
  /\ \/ /\ once = "fresh"
        /\ once' = "running"
        /\ stage' = [stage EXCEPT ![p] = IF p = Pump THEN "conn" ELSE "store"]
     \/ /\ once = "done"
        /\ stage' = [stage EXCEPT ![p] = "returned"]
        /\ UNCHANGED once
  /\ UNCHANGED <<nextID, pending, writer, hand, callVars, peerVars, closeError,
                 connOpen, closes>>

StoreCloseError(p) ==
  /\ stage[p] = "store"
  /\ closeError' = "clientClosed"
  /\ stage' = [stage EXCEPT ![p] = "conn"]
  /\ UNCHANGED <<nextID, pending, writer, hand, callVars, peerVars, once, connOpen, closes>>

CloseConn(p) ==
  /\ stage[p] = "conn"
  /\ connOpen' = FALSE
  /\ stage' = [stage EXCEPT ![p] = "signal"]
  /\ UNCHANGED <<nextID, pending, writer, hand, callVars, peerVars, once, closeError, closes>>

SignalClosed(p) ==
  /\ stage[p] = "signal"
  /\ closes' = closes + 1
  /\ once' = "done"
  /\ stage' = [stage EXCEPT ![p] = "returned"]
  /\ UNCHANGED <<nextID, pending, writer, hand, callVars, peerVars, closeError, connOpen>>

-------------------------------------------------------------------------------
(* The peer (external): the browser's end of the websocket.                *)

FrameFor(r) == [id |-> r.id, call |-> r.call, ans |-> answer[r.call]]

PeerAnswers(r, a) ==
  /\ ~peerGone
  /\ answer[r.call] = "none"
  /\ answer' = [answer EXCEPT ![r.call] = a]
  /\ inbox' = Append(inbox, [id |-> r.id, call |-> r.call, ans |-> a])
  /\ UNCHANGED <<nextID, pending, writer, hand, callVars, requests, repeats,
                 peerGone, closeVars>>

PeerRepeats(r) ==
  /\ ~peerGone
  /\ answer[r.call] # "none"
  /\ repeats < MaxRepeats
  /\ repeats' = repeats + 1
  /\ inbox' = Append(inbox, FrameFor(r))
  /\ UNCHANGED <<nextID, pending, writer, hand, callVars, requests, answer,
                 peerGone, closeVars>>

PeerGoes ==
  /\ ~peerGone
  /\ peerGone' = TRUE
  /\ UNCHANGED <<nextID, pending, writer, hand, callVars, requests, answer,
                 inbox, repeats, closeVars>>

-------------------------------------------------------------------------------
CallerStep(c) ==
  \/ Register(c) \/ LockWrite(c) \/ Write(c) \/ WriteFails(c)
  \/ SeeClosed(c) \/ Receive(c) \/ Deregister(c)

PumpStep == PumpLookup \/ PumpDeliver \/ PumpReadError

CloseStep(p) ==
  EnterOnce(p) \/ StoreCloseError(p) \/ CloseConn(p) \/ SignalClosed(p)

Next ==
  \/ \E c \in Calls : Begin(c) \/ CallerStep(c) \/ SeeCancelled(c)
  \/ PumpStep
  \/ \E p \in Procs : CallClose(p) \/ CloseStep(p)
  \/ \E r \in requests : PeerRepeats(r) \/ \E a \in Answers : PeerAnswers(r, a)
  \/ PeerGoes

Spec == Init /\ [][Next]_vars

(* The Go scheduler runs every goroutine that can run.  Nothing makes a    *)
(* caller call, a context expire, or the peer answer or go.                *)
Fairness ==
  /\ \A c \in Calls : WF_vars(CallerStep(c))
  /\ WF_vars(PumpStep)
  /\ \A p \in Procs : WF_vars(CloseStep(p))

FairSpec == Spec /\ Fairness

-------------------------------------------------------------------------------
InCall == {c \in Calls : pc[c] \notin {"idle", "done"}}

TypeOK ==
  /\ pc \in [Calls -> {"idle", "begun", "registered", "writing", "waiting",
                       "returning", "done"}]
  /\ nextID \in Nat
  /\ callId \in [Calls -> Nat]
  /\ pending \subseteq Nat
  /\ slot \in [Calls -> Frames \cup {NoFrame}]
  /\ outcome \in [Calls -> Answers \cup {"none", "cancelled", "closed", "writeError"}]
  /\ writer \in Calls \cup {NoCall}
  /\ requests \subseteq [id : Nat, call : Calls]
  /\ answer \in [Calls -> Answers \cup {"none"}]
  /\ inbox \in Seq(Frames)
  /\ repeats \in 0 .. MaxRepeats
  /\ hand \in [frame : Frames, to : Calls] \cup {Idle}
  /\ stage \in [Procs -> {"start", "enter", "store", "conn", "signal", "returned"}]
  /\ once \in {"fresh", "running", "done"}
  /\ closeError \in {"none", "readError", "clientClosed"}
  /\ connOpen \in BOOLEAN
  /\ peerGone \in BOOLEAN
  /\ closes \in Nat

(* Two calls in flight never share an id, so a response is never handed to *)
(* the wrong goroutine (client.go:53, session.go:33).                      *)
IdsDistinct ==
  \A c, d \in Calls : c # d /\ pc[c] # "idle" /\ pc[d] # "idle" => callId[c] # callId[d]

(* A response waiting in a call's channel, or in the pump's hand for it,   *)
(* answers that call and no other, also when answers come in any order,    *)
(* late, or twice (client.go:103-108).                                     *)
ResponsesReachTheirCall ==
  /\ \A c \in Calls : slot[c] # NoFrame => slot[c].call = c /\ slot[c].ans = answer[c]
  /\ hand # Idle => hand.frame.call = hand.to /\ hand.frame.ans = answer[hand.to]

(* The pending map holds exactly the calls between their Store and their   *)
(* deferred Delete: nothing leaks, on any way out of Send (client.go:55-56).*)
PendingIsExact ==
  pending = {callId[c] : c \in {d \in Calls : pc[d] \in
                             {"registered", "writing", "waiting", "returning"}}}

(* close(c.closed) runs at most once - a second would panic - and only     *)
(* after the connection is shut and a reason is stored, whoever comes      *)
(* first, Close or the pump; and when Close returns it has run, also for a *)
(* caller that found another goroutine at it (client.go:42-49, 86-88).     *)
ClosedOnceWithReason ==
  /\ closes <= 1
  /\ closed => ~connOpen /\ closeError # "none"
  /\ \A p \in Closers : stage[p] = "returned" => closed

(* The refinement mapping: a call is open until it has an outcome, and the *)
(* link is up while both ends are.                                         *)
Rpc == INSTANCE RpcService WITH
  status <- [c \in Calls |-> IF pc[c] = "idle" THEN "idle"
                             ELSE IF outcome[c] = "none" THEN "open" ELSE "ended"],
  linkUp <- connOpen /\ ~peerGone

(* The client implements the promise of a CDP connection: every call ends  *)
(* at most once and with a cause - its own answer, its own context, or a   *)
(* link that is down (client.go:52-79).                                    *)
ImplementsRpc == Rpc!RpcSpec

(* Once the peer has gone, or somebody calls Close, every call that was    *)
(* made returns, even with a context that never expires: the pump's read   *)
(* error or the closed channel wakes it (client.go:42-49, 81-89).          *)
LossReleasesCalls ==
  \A c \in Calls :
    (peerGone \/ \E p \in Closers : stage[p] # "start") /\ pc[c] # "idle" ~> pc[c] = "done"

(* An answered call returns: the pump is never held up by the channel of   *)
(* another call that stopped listening (client.go:105-108).                *)
AnsweredCallReturns ==
  \A c \in Calls : (answer[c] # "none") ~> pc[c] = "done"
===============================================================================
