---------------------------- MODULE CdpClient_proofs ----------------------------
(***************************************************************************)
(* For any number of calls, closers and repeated frames: ids are distinct, *)
(* the pending map is exact, every response reaches its own call, the      *)
(* client closes once and with a reason, and the client implements the     *)
(* promise of RpcService.  Each invariant rests on the ones before it:     *)
(* routing needs distinct ids, since the pump finds a call by its id, and  *)
(* the refinement needs all of them.                                       *)
(***************************************************************************)
EXTENDS CdpClient, SequenceTheorems, TLAPS

(* An id is taken once, from a counter that only grows.                    *)
IdsInv ==
  /\ \A c \in Calls : pc[c] = "idle" => callId[c] = 0
  /\ \A c \in Calls : pc[c] # "idle" => callId[c] \in 1 .. nextID
  /\ IdsDistinct

Registered == {"registered", "writing", "waiting", "returning"}

(* A frame, wherever it is, carries the id of the call it answers, and the *)
(* answer that was given to it.                                            *)
Genuine(f) ==
  /\ pc[f.call] # "idle"
  /\ f.id = callId[f.call]
  /\ f.ans = answer[f.call]

GenuineFrames == {f \in Frames : Genuine(f)}

RoutingInv ==
  /\ \A r \in requests : pc[r.call] # "idle" /\ r.id = callId[r.call]
  /\ \A c \in Calls : answer[c] # "none" => pc[c] # "idle"
  /\ inbox \in Seq(GenuineFrames)
  /\ hand # Idle => hand.frame \in GenuineFrames /\ hand.frame.call = hand.to
  /\ \A c \in Calls : slot[c] # NoFrame => slot[c] \in GenuineFrames /\ slot[c].call = c

(* A call has its outcome exactly from the branch it left the select by.   *)
OutcomeInv ==
  \A c \in Calls : outcome[c] # "none" <=> pc[c] \in {"returning", "done"}

(* At most one goroutine is inside the Once, and nobody has left it before *)
(* it is done.  The pump has stored its reason before it comes to it.      *)
Inside == {"store", "conn", "signal"}

ClosingInv ==
  /\ closes = IF once = "done" THEN 1 ELSE 0
  /\ \A p \in Procs : stage[p] \in Inside => once = "running"
  /\ \A p, q \in Procs : stage[p] \in Inside /\ stage[q] \in Inside => p = q
  /\ \A p \in Procs : stage[p] = "returned" => once = "done"
  /\ \A p \in Procs : stage[p] \in {"conn", "signal"} => closeError # "none"
  /\ \A p \in Procs : stage[p] = "signal" => ~connOpen
  /\ stage[Pump] = "enter" => closeError # "none"
  /\ once = "done" => ~connOpen /\ closeError # "none"

-------------------------------------------------------------------------------
(* Types.                                                                  *)

LEMMA InitTypes == Init => TypeOK
<1> SUFFICES ASSUME Init PROVE TypeOK
  OBVIOUS
<1>1. repeats \in 0 .. MaxRepeats
  BY CdpClientAssumption DEF Init
<1>2. inbox \in Seq(Frames)
  BY DEF Init
<1>3. slot \in [Calls -> Frames \cup {NoFrame}] /\ hand = Idle
  BY DEF Init
<1>4. QED
  BY <1>1, <1>2, <1>3 DEF Init, TypeOK

LEMMA StepTypes == TypeOK /\ [Next]_vars => TypeOK'
<1> SUFFICES ASSUME TypeOK, [Next]_vars PROVE TypeOK'
  OBVIOUS
<1>1. ASSUME NEW c \in Calls, Begin(c) PROVE TypeOK'
  BY <1>1 DEF TypeOK, Begin, Move, Return, callVars, peerVars, closeVars
<1>2. ASSUME NEW c \in Calls, Register(c) PROVE TypeOK'
  BY <1>2 DEF TypeOK, Register, Move, Return, callVars, peerVars, closeVars
<1>3. ASSUME NEW c \in Calls, LockWrite(c) PROVE TypeOK'
  BY <1>3 DEF TypeOK, LockWrite, Move, Return, callVars, peerVars, closeVars
<1>4. ASSUME NEW c \in Calls, Write(c) PROVE TypeOK'
  <2>1. [id |-> callId[c], call |-> c] \in [id : Nat, call : Calls]
    BY DEF TypeOK
  <2>2. requests' \subseteq [id : Nat, call : Calls]
    BY <1>4, <2>1 DEF TypeOK, Write
  <2>3. QED
    BY <1>4, <2>2 DEF TypeOK, Write, Move, closeVars
<1>5. ASSUME NEW c \in Calls, WriteFails(c) PROVE TypeOK'
  BY <1>5 DEF TypeOK, WriteFails, Move, Return, callVars, peerVars, closeVars
<1>6. ASSUME NEW c \in Calls, SeeClosed(c) PROVE TypeOK'
  BY <1>6 DEF TypeOK, SeeClosed, Move, Return, callVars, peerVars, closeVars
<1>7. ASSUME NEW c \in Calls, SeeCancelled(c) PROVE TypeOK'
  BY <1>7 DEF TypeOK, SeeCancelled, Move, Return, callVars, peerVars, closeVars
<1>8. ASSUME NEW c \in Calls, Receive(c) PROVE TypeOK'
  <2>1. slot[c].ans \in Answers
    BY <1>8 DEF TypeOK, Receive, Frames
  <2>2. QED
    BY <1>8, <2>1 DEF TypeOK, Receive, Move, Return, peerVars, closeVars
<1>9. ASSUME NEW c \in Calls, Deregister(c) PROVE TypeOK'
  BY <1>9 DEF TypeOK, Deregister, Move, Return, callVars, peerVars, closeVars
<1>10. ASSUME PumpLookup PROVE TypeOK'
  <2>1. Head(inbox) \in Frames /\ Tail(inbox) \in Seq(Frames)
    BY <1>10, HeadTailProperties DEF TypeOK, PumpLookup
  <2>2. hand' \in [frame : Frames, to : Calls] \cup {Idle}
    BY <1>10, <2>1 DEF PumpLookup
  <2>3. QED
    BY <1>10, <2>1, <2>2 DEF TypeOK, PumpLookup, callVars, closeVars
<1>11. ASSUME PumpDeliver PROVE TypeOK'
  BY <1>11 DEF TypeOK, PumpDeliver, Move, Return, callVars, peerVars, closeVars
<1>12. ASSUME PumpReadError PROVE TypeOK'
  BY <1>12 DEF TypeOK, PumpReadError, Move, Return, callVars, peerVars, closeVars
<1>13. ASSUME NEW p \in Procs, CallClose(p) PROVE TypeOK'
  BY <1>13 DEF TypeOK, CallClose, Move, Return, callVars, peerVars, closeVars
<1>14. ASSUME NEW p \in Procs, EnterOnce(p) PROVE TypeOK'
  BY <1>14 DEF TypeOK, EnterOnce, Move, Return, callVars, peerVars, closeVars
<1>15. ASSUME NEW p \in Procs, StoreCloseError(p) PROVE TypeOK'
  BY <1>15 DEF TypeOK, StoreCloseError, Move, Return, callVars, peerVars, closeVars
<1>16. ASSUME NEW p \in Procs, CloseConn(p) PROVE TypeOK'
  BY <1>16 DEF TypeOK, CloseConn, Move, Return, callVars, peerVars, closeVars
<1>17. ASSUME NEW p \in Procs, SignalClosed(p) PROVE TypeOK'
  BY <1>17 DEF TypeOK, SignalClosed, Move, Return, callVars, peerVars, closeVars
<1>18. ASSUME NEW r \in requests, PeerRepeats(r) PROVE TypeOK'
  <2>1. FrameFor(r) \in Frames
    BY <1>18 DEF TypeOK, PeerRepeats, Frames, FrameFor
  <2>2. inbox' \in Seq(Frames)
    BY <1>18, <2>1, AppendProperties DEF TypeOK, PeerRepeats
  <2>3. QED
    BY <1>18, <2>2, CdpClientAssumption DEF TypeOK, PeerRepeats, callVars, closeVars
<1>19. ASSUME NEW r \in requests, NEW a \in Answers, PeerAnswers(r, a) PROVE TypeOK'
  <2>1. [id |-> r.id, call |-> r.call, ans |-> a] \in Frames
    BY <1>19 DEF TypeOK, PeerAnswers, Frames
  <2>2. inbox' \in Seq(Frames)
    BY <1>19, <2>1, AppendProperties DEF TypeOK, PeerAnswers
  <2>3. QED
    BY <1>19, <2>2, CdpClientAssumption DEF TypeOK, PeerAnswers, callVars, closeVars
<1>20. ASSUME PeerGoes PROVE TypeOK'
  BY <1>20 DEF TypeOK, PeerGoes, Move, Return, callVars, peerVars, closeVars
<1>21. CASE UNCHANGED vars
  BY <1>21 DEF vars, TypeOK
<1>22. QED
  BY <1>1, <1>2, <1>3, <1>4, <1>5, <1>6, <1>7, <1>8, <1>9, <1>10, <1>11, <1>12, <1>13, <1>14, <1>15, <1>16, <1>17, <1>18, <1>19, <1>20, <1>21
  DEF Next, CallerStep, PumpStep, CloseStep

-------------------------------------------------------------------------------
(* Ids and the pending map.                                                *)

CallStep(c) == Begin(c) \/ CallerStep(c) \/ SeeCancelled(c)

(* The pump, the closers and the peer touch neither ids nor the map.       *)
LEMMA OnlyCallersChangeCalls ==
  ASSUME [Next]_vars, \A c \in Calls : ~CallStep(c)
  PROVE  UNCHANGED <<pc, nextID, callId, pending, outcome, writer>>
<1>1. CASE PumpStep
  BY <1>1 DEF PumpStep, PumpLookup, PumpDeliver, PumpReadError, callVars
<1>2. ASSUME NEW p \in Procs, CallClose(p) \/ CloseStep(p)
      PROVE  UNCHANGED <<pc, nextID, callId, pending, outcome, writer>>
  BY <1>2 DEF CallClose, CloseStep, EnterOnce, StoreCloseError, CloseConn, SignalClosed, callVars
<1>3. ASSUME NEW r \in requests, PeerRepeats(r) \/ \E a \in Answers : PeerAnswers(r, a)
      PROVE  UNCHANGED <<pc, nextID, callId, pending, outcome, writer>>
  BY <1>3 DEF PeerRepeats, PeerAnswers, callVars
<1>4. CASE PeerGoes
  BY <1>4 DEF PeerGoes, callVars
<1>5. CASE UNCHANGED vars
  BY <1>5 DEF vars
<1>6. QED
  BY <1>1, <1>2, <1>3, <1>4, <1>5 DEF Next, CallStep

(* After it has begun a call keeps its id and moves on.                    *)
LEMMA CallersKeepIds ==
  ASSUME TypeOK, NEW c \in Calls, CallerStep(c) \/ SeeCancelled(c)
  PROVE  /\ UNCHANGED <<nextID, callId>>
         /\ \E s \in {"registered", "writing", "waiting", "returning", "done"} :
              pc' = [pc EXCEPT ![c] = s]
         /\ pc[c] # "idle"
  BY DEF CallerStep, Register, LockWrite, Write, WriteFails, SeeClosed, SeeCancelled,
         Receive, Deregister, Move

LEMMA KeepIds ==
  ASSUME TypeOK, [Next]_vars, \A c \in Calls : ~Begin(c)
  PROVE  /\ UNCHANGED <<nextID, callId>>
         /\ \A d \in Calls : pc'[d] = "idle" <=> pc[d] = "idle"
<1>1. ASSUME NEW c \in Calls, CallerStep(c) \/ SeeCancelled(c)
      PROVE  /\ UNCHANGED <<nextID, callId>>
             /\ \A d \in Calls : pc'[d] = "idle" <=> pc[d] = "idle"
  BY <1>1, CallersKeepIds DEF TypeOK
<1>2. CASE \A c \in Calls : ~CallStep(c)
  BY <1>2, OnlyCallersChangeCalls
<1>3. QED
  BY <1>1, <1>2 DEF CallStep

LEMMA InitIds == Init => IdsInv
  BY DEF Init, IdsInv, IdsDistinct

LEMMA StepIds == TypeOK /\ IdsInv /\ [Next]_vars => IdsInv'
<1> SUFFICES ASSUME TypeOK, IdsInv, [Next]_vars PROVE IdsInv'
  OBVIOUS
<1>1. ASSUME NEW c \in Calls, Begin(c) PROVE IdsInv'
  <2>1. /\ pc' = [pc EXCEPT ![c] = "begun"]
        /\ nextID' = nextID + 1
        /\ callId' = [callId EXCEPT ![c] = nextID + 1]
    BY <1>1 DEF Begin, Move
  <2>2. \A d \in Calls : d # c => pc'[d] = pc[d] /\ callId'[d] = callId[d]
    BY <2>1 DEF TypeOK
  <2>3. pc'[c] = "begun" /\ callId'[c] = nextID + 1 /\ nextID \in Nat
    BY <2>1 DEF TypeOK
  <2>4. QED
    BY <2>1, <2>2, <2>3 DEF IdsInv, IdsDistinct
<1>2. CASE \A c \in Calls : ~Begin(c)
  BY <1>2, KeepIds DEF IdsInv, IdsDistinct
<1>3. QED
  BY <1>1, <1>2

LEMMA InitPending == Init => PendingIsExact
  BY DEF Init, PendingIsExact

LEMMA StepPending == TypeOK /\ IdsInv /\ PendingIsExact /\ [Next]_vars => PendingIsExact'
<1> DEFINE In(d) == pc[d] \in Registered
<1> SUFFICES ASSUME TypeOK, IdsInv, PendingIsExact, [Next]_vars PROVE PendingIsExact'
  OBVIOUS
<1>1. \A i : i \in pending <=> \E d \in Calls : In(d) /\ callId[d] = i
  BY DEF PendingIsExact, Registered
<1>2. SUFFICES \A i : i \in pending' <=> \E d \in Calls : In(d)' /\ callId'[d] = i
  <2>1. pending' = {callId'[d] : d \in {e \in Calls : In(e)'}}
    BY <1>2
  <2>2. QED
    BY <2>1 DEF PendingIsExact, Registered
<1>3. ASSUME NEW c \in Calls, Begin(c)
      PROVE  \A i : i \in pending' <=> \E d \in Calls : In(d)' /\ callId'[d] = i
  <2>1. pending' = pending /\ ~In(c) /\ ~In(c)'
    BY <1>3 DEF Begin, Move, TypeOK, Registered
  <2>2. \A d \in Calls : d # c => pc'[d] = pc[d] /\ callId'[d] = callId[d]
    BY <1>3 DEF Begin, Move, TypeOK
  <2>3. QED
    BY <1>1, <2>1, <2>2
<1>4. ASSUME NEW c \in Calls, Register(c)
      PROVE  \A i : i \in pending' <=> \E d \in Calls : In(d)' /\ callId'[d] = i
  <2>1. pending' = pending \cup {callId[c]} /\ callId' = callId /\ ~In(c) /\ In(c)'
    BY <1>4 DEF Register, Move, TypeOK, Registered
  <2>2. \A d \in Calls : d # c => pc'[d] = pc[d]
    BY <1>4 DEF Register, Move, TypeOK
  <2>3. QED
    BY <1>1, <2>1, <2>2
<1>5. ASSUME NEW c \in Calls, Deregister(c)
      PROVE  \A i : i \in pending' <=> \E d \in Calls : In(d)' /\ callId'[d] = i
  <2>1. pending' = pending \ {callId[c]} /\ callId' = callId /\ ~In(c)'
    BY <1>5 DEF Deregister, Move, TypeOK, Registered
  <2>2. \A d \in Calls : d # c => pc'[d] = pc[d]
    BY <1>5 DEF Deregister, Move, TypeOK
  <2>3. pc[c] # "idle"
    BY <1>5 DEF Deregister, Move
  <2>4. \A d \in Calls : d # c /\ In(d) => callId[d] # callId[c]
    BY <2>3 DEF IdsInv, IdsDistinct, Registered
  <2>5. QED
    BY <1>1, <2>1, <2>2, <2>4
<1>6. ASSUME NEW c \in Calls, LockWrite(c) \/ Write(c) \/ WriteFails(c) \/ SeeClosed(c)
                              \/ SeeCancelled(c) \/ Receive(c)
      PROVE  \A i : i \in pending' <=> \E d \in Calls : In(d)' /\ callId'[d] = i
  <2>1. /\ UNCHANGED <<pending, callId>>
        /\ pc[c] \in Registered
        /\ \E s \in Registered : pc' = [pc EXCEPT ![c] = s]
    BY <1>6 DEF LockWrite, Write, WriteFails, SeeClosed, SeeCancelled, Receive, Move, Registered
  <2>2. \A d \in Calls : In(d)' <=> In(d)
    BY <2>1 DEF TypeOK
  <2>3. QED
    BY <1>1, <2>1, <2>2
<1>7. CASE \A c \in Calls : ~CallStep(c)
  BY <1>1, <1>7, OnlyCallersChangeCalls
<1>8. QED
  BY <1>3, <1>4, <1>5, <1>6, <1>7 DEF CallStep, CallerStep
-------------------------------------------------------------------------------
(* Routing.                                                                *)

(* Which actions a frame moves by.                                         *)
FrameMoves ==
  /\ requests' = requests \/ \E c \in Calls : Write(c)
  /\ answer' = answer \/ \E r \in requests, a \in Answers : PeerAnswers(r, a)
  /\ \/ inbox' = inbox
     \/ PumpLookup
     \/ \E r \in requests : PeerRepeats(r) \/ \E a \in Answers : PeerAnswers(r, a)
  /\ hand' = hand \/ PumpLookup \/ PumpDeliver
  /\ slot' = slot \/ PumpDeliver \/ \E c \in Calls : Receive(c)

LEMMA FramesMove == ASSUME [Next]_vars PROVE FrameMoves
<1>1. ASSUME NEW c \in Calls, CallStep(c) PROVE FrameMoves
  <2>1. UNCHANGED <<answer, inbox, hand>>
    BY <1>1 DEF CallStep, CallerStep, Begin, Register, LockWrite, Write, WriteFails,
                SeeClosed, SeeCancelled, Receive, Deregister, peerVars
  <2>2. requests' = requests \/ Write(c)
    BY <1>1 DEF CallStep, CallerStep, Begin, Register, LockWrite, WriteFails,
                SeeClosed, SeeCancelled, Receive, Deregister, peerVars
  <2>3. slot' = slot \/ Receive(c)
    BY <1>1 DEF CallStep, CallerStep, Begin, Register, LockWrite, Write, WriteFails,
                SeeClosed, SeeCancelled, Deregister
  <2>4. QED
    BY <2>1, <2>2, <2>3 DEF FrameMoves
<1>2. CASE PumpStep
  BY <1>2 DEF FrameMoves, PumpStep, PumpLookup, PumpDeliver, PumpReadError, callVars, peerVars
<1>3. ASSUME NEW p \in Procs, CallClose(p) \/ CloseStep(p) PROVE FrameMoves
  <2>1. UNCHANGED <<requests, answer, inbox, hand, slot>>
    BY <1>3 DEF CallClose, CloseStep, EnterOnce, StoreCloseError, CloseConn, SignalClosed,
                callVars, peerVars
  <2>2. QED
    BY <2>1 DEF FrameMoves
<1>4. ASSUME NEW r \in requests, PeerRepeats(r) PROVE FrameMoves
  <2>1. UNCHANGED <<requests, answer, hand, slot>>
    BY <1>4 DEF PeerRepeats, callVars
  <2>2. QED
    BY <1>4, <2>1 DEF FrameMoves
<1>5. ASSUME NEW r \in requests, NEW a \in Answers, PeerAnswers(r, a) PROVE FrameMoves
  <2>1. UNCHANGED <<requests, hand, slot>>
    BY <1>5 DEF PeerAnswers, callVars
  <2>2. QED
    BY <1>5, <2>1 DEF FrameMoves
<1>6. CASE PeerGoes \/ UNCHANGED vars
  BY <1>6 DEF FrameMoves, PeerGoes, vars, callVars
<1>7. QED
  BY <1>1, <1>2, <1>3, <1>4, <1>5, <1>6 DEF Next, CallStep

LEMMA BegunStays ==
  ASSUME TypeOK, [Next]_vars, NEW d \in Calls, pc[d] # "idle"
  PROVE  pc'[d] # "idle" /\ callId'[d] = callId[d]
<1>1. ASSUME NEW c \in Calls, Begin(c) PROVE pc'[d] # "idle" /\ callId'[d] = callId[d]
  BY <1>1 DEF Begin, Move, TypeOK
<1>2. CASE \A c \in Calls : ~Begin(c)
  BY <1>2, KeepIds
<1>3. QED
  BY <1>1, <1>2

LEMMA AnswerStays ==
  ASSUME TypeOK, [Next]_vars, NEW d \in Calls, answer[d] # "none"
  PROVE  answer'[d] = answer[d]
<1>1. ASSUME NEW r \in requests, NEW a \in Answers, PeerAnswers(r, a)
      PROVE  answer'[d] = answer[d]
  BY <1>1 DEF PeerAnswers, TypeOK
<1>2. QED
  BY <1>1, FramesMove DEF FrameMoves

(* A genuine frame stays genuine: ids and answers are given once.          *)
LEMMA GenuineStays ==
  ASSUME TypeOK, [Next]_vars
  PROVE  GenuineFrames \subseteq GenuineFrames'
<1> SUFFICES ASSUME NEW f \in Frames, Genuine(f) PROVE Genuine(f)'
  BY DEF GenuineFrames
<1>1. f.call \in Calls /\ f.ans # "none"
  BY DEF Frames, Answers
<1>2. pc'[f.call] # "idle" /\ callId'[f.call] = callId[f.call]
  BY <1>1, BegunStays DEF Genuine
<1>3. answer'[f.call] = answer[f.call]
  BY <1>1, AnswerStays DEF Genuine
<1>4. QED
  BY <1>2, <1>3 DEF Genuine

LEMMA InitRouting == Init => RoutingInv
  BY DEF Init, RoutingInv

(* The pump looks a call up by the id of the frame and finds the call the  *)
(* frame answers, because no other call has that id.                       *)
LEMMA LookupFindsTheCall ==
  ASSUME TypeOK, IdsInv, NEW f \in GenuineFrames, NEW d \in Calls, callId[d] = f.id
  PROVE  d = f.call
<1>1. f.call \in Calls /\ pc[f.call] # "idle" /\ callId[f.call] = callId[d]
  BY DEF GenuineFrames, Genuine, Frames
<1>2. callId[f.call] \in 1 .. nextID
  BY <1>1 DEF IdsInv
<1>3. pc[d] # "idle"
  BY <1>1, <1>2 DEF IdsInv
<1>4. QED
  BY <1>1, <1>3 DEF IdsInv, IdsDistinct

LEMMA StepRouting == TypeOK /\ IdsInv /\ RoutingInv /\ [Next]_vars => RoutingInv'
<1> SUFFICES ASSUME TypeOK, IdsInv, RoutingInv, [Next]_vars PROVE RoutingInv'
  OBVIOUS
<1>1. \A r \in requests' : pc'[r.call] # "idle" /\ r.id = callId'[r.call]
  <2>1. ASSUME NEW r \in requests PROVE pc'[r.call] # "idle" /\ r.id = callId'[r.call]
    <3>1. r.call \in Calls
      BY DEF TypeOK
    <3>2. QED
      BY <3>1, BegunStays DEF RoutingInv
  <2>2. ASSUME NEW c \in Calls, Write(c)
        PROVE  \A r \in requests' : pc'[r.call] # "idle" /\ r.id = callId'[r.call]
    <3>1. requests' = requests \cup {[id |-> callId[c], call |-> c]}
      BY <2>2 DEF Write
    <3>2. pc'[c] # "idle" /\ callId' = callId
      BY <2>2 DEF Write, Move, TypeOK
    <3>3. QED
      BY <2>1, <3>1, <3>2
  <2>3. QED
    BY <2>1, <2>2, FramesMove DEF FrameMoves
<1>2. \A c \in Calls : answer'[c] # "none" => pc'[c] # "idle"
  <2>1. ASSUME NEW r \in requests, NEW a \in Answers, PeerAnswers(r, a), NEW c \in Calls,
               answer'[c] # "none"
        PROVE  pc[c] # "idle"
    BY <2>1 DEF PeerAnswers, RoutingInv, TypeOK
  <2>2. ASSUME NEW c \in Calls, answer'[c] # "none" PROVE pc[c] # "idle"
    BY <2>1, <2>2, FramesMove DEF FrameMoves, RoutingInv
  <2>3. QED
    BY <2>2, BegunStays
<1>3. inbox' \in Seq(GenuineFrames')
  <2>1. inbox \in Seq(GenuineFrames')
    BY GenuineStays, SeqMonotonic DEF RoutingInv
  <2>2. CASE PumpLookup
    BY <2>1, <2>2, HeadTailProperties DEF PumpLookup
  <2>3. ASSUME NEW r \in requests, PeerRepeats(r)
        PROVE  inbox' \in Seq(GenuineFrames')
    <3>1. r.call \in Calls /\ r.id \in Nat /\ answer[r.call] \in Answers
      BY <2>3 DEF PeerRepeats, TypeOK
    <3>2. FrameFor(r) \in GenuineFrames
      BY <3>1 DEF FrameFor, Frames, GenuineFrames, Genuine, RoutingInv
    <3>3. inbox' = Append(inbox, FrameFor(r))
      BY <2>3 DEF PeerRepeats
    <3>4. QED
      BY <2>1, <3>2, <3>3, GenuineStays, AppendProperties
  <2>4. ASSUME NEW r \in requests, NEW a \in Answers, PeerAnswers(r, a)
        PROVE  inbox' \in Seq(GenuineFrames')
    <3> DEFINE f == [id |-> r.id, call |-> r.call, ans |-> a]
    <3>1. r.call \in Calls /\ r.id \in Nat
      BY DEF TypeOK
    <3>2. answer'[r.call] = a
      BY <2>4, <3>1 DEF PeerAnswers, TypeOK
    <3>3. pc'[r.call] # "idle" /\ r.id = callId'[r.call]
      BY <3>1, BegunStays DEF RoutingInv
    <3>4. f \in GenuineFrames'
      BY <3>1, <3>2, <3>3 DEF GenuineFrames, Genuine, Frames
    <3>5. inbox' = Append(inbox, f)
      BY <2>4 DEF PeerAnswers
    <3>6. QED
      BY <2>1, <3>4, <3>5, AppendProperties
  <2>5. QED
    BY <2>1, <2>2, <2>3, <2>4, FramesMove DEF FrameMoves
<1>4. hand' # Idle => hand'.frame \in GenuineFrames' /\ hand'.frame.call = hand'.to
  <2>1. CASE hand' = hand
    BY <2>1, GenuineStays DEF RoutingInv
  <2>2. CASE PumpLookup
    <3> DEFINE f == Head(inbox)
               found == {c \in Calls : callId[c] = f.id /\ f.id \in pending}
    <3>1. f \in GenuineFrames
      BY <2>2, HeadTailProperties DEF PumpLookup, RoutingInv
    <3>2. \A d \in found : d = f.call
      BY <3>1, LookupFindsTheCall
    <3>3. hand' = Idle \/ \E d \in found : hand' = [frame |-> f, to |-> d]
      BY <2>2 DEF PumpLookup
    <3>4. QED
      BY <3>1, <3>2, <3>3, GenuineStays
  <2>3. CASE PumpDeliver
    BY <2>3 DEF PumpDeliver
  <2>4. QED
    BY <2>1, <2>2, <2>3, FramesMove DEF FrameMoves
<1>5. \A c \in Calls : slot'[c] # NoFrame => slot'[c] \in GenuineFrames' /\ slot'[c].call = c
  <2>1. CASE slot' = slot
    BY <2>1, GenuineStays DEF RoutingInv
  <2>2. CASE PumpDeliver
    <3>1. /\ hand.frame \in GenuineFrames' /\ hand.to \in Calls
          /\ hand.frame.call = hand.to
      BY <2>2, GenuineStays DEF PumpDeliver, TypeOK, RoutingInv
    <3>2. \A c \in Calls : slot'[c] = slot[c] \/ (c = hand.to /\ slot'[c] = hand.frame)
      BY <2>2, <3>1 DEF PumpDeliver, TypeOK
    <3>3. QED
      BY <3>1, <3>2, GenuineStays DEF RoutingInv
  <2>3. ASSUME NEW d \in Calls, Receive(d), NEW c \in Calls
        PROVE  slot'[c] # NoFrame => slot'[c] \in GenuineFrames' /\ slot'[c].call = c
    <3>1. slot'[c] = slot[c] \/ slot'[c] = NoFrame
      BY <2>3 DEF Receive, TypeOK
    <3>2. QED
      BY <3>1, GenuineStays DEF RoutingInv
  <2>4. QED
    BY <2>1, <2>2, <2>3, FramesMove DEF FrameMoves
<1>6. QED
  BY <1>1, <1>2, <1>3, <1>4, <1>5 DEF RoutingInv
-------------------------------------------------------------------------------
(* Outcomes.                                                               *)

LEMMA InitOutcome == Init => OutcomeInv
  BY DEF Init, OutcomeInv

LEMMA StepOutcome == TypeOK /\ OutcomeInv /\ [Next]_vars => OutcomeInv'
<1> SUFFICES ASSUME TypeOK, OutcomeInv, [Next]_vars PROVE OutcomeInv'
  OBVIOUS
<1>1. ASSUME NEW c \in Calls, Begin(c) \/ Register(c) \/ LockWrite(c) \/ Write(c)
      PROVE  OutcomeInv'
  <2>1. /\ outcome' = outcome /\ pc[c] \notin {"returning", "done"}
        /\ \E s \in {"begun", "registered", "writing", "waiting"} : pc' = [pc EXCEPT ![c] = s]
    BY <1>1 DEF Begin, Register, LockWrite, Write, Move
  <2>2. \A d \in Calls : pc'[d] \in {"returning", "done"} <=> pc[d] \in {"returning", "done"}
    BY <2>1 DEF TypeOK
  <2>3. QED
    BY <2>1, <2>2 DEF OutcomeInv
<1>2. ASSUME NEW c \in Calls, WriteFails(c) \/ SeeClosed(c) \/ SeeCancelled(c) \/ Receive(c)
      PROVE  OutcomeInv'
  <2>1. Receive(c) => slot[c].ans \in Answers
    BY DEF Receive, TypeOK, Frames
  <2>2. pc'[c] = "returning" /\ outcome'[c] # "none"
    BY <1>2, <2>1 DEF WriteFails, SeeClosed, SeeCancelled, Receive, Move, Return, TypeOK, Answers
  <2>3. \A d \in Calls : d # c => pc'[d] = pc[d] /\ outcome'[d] = outcome[d]
    BY <1>2 DEF WriteFails, SeeClosed, SeeCancelled, Receive, Move, Return, TypeOK
  <2>4. QED
    BY <2>2, <2>3 DEF OutcomeInv
<1>3. ASSUME NEW c \in Calls, Deregister(c) PROVE OutcomeInv'
  BY <1>3 DEF Deregister, Move, TypeOK, OutcomeInv
<1>4. CASE \A c \in Calls : ~CallStep(c)
  BY <1>4, OnlyCallersChangeCalls DEF OutcomeInv
<1>5. QED
  BY <1>1, <1>2, <1>3, <1>4 DEF CallStep, CallerStep

-------------------------------------------------------------------------------
(* Closing.                                                                *)

LEMMA InitClosing == Init => ClosingInv
  BY DEF Init, ClosingInv, Inside, Procs

LEMMA StepClosing == TypeOK /\ ClosingInv /\ [Next]_vars => ClosingInv'
<1> SUFFICES ASSUME TypeOK, ClosingInv, [Next]_vars PROVE ClosingInv'
  OBVIOUS
<1> Pump \in Procs
  BY DEF Procs
<1>1. ASSUME NEW p \in Procs, CallClose(p) PROVE ClosingInv'
  <2>1. p # Pump /\ UNCHANGED <<once, closeError, connOpen, closes>>
    BY <1>1, CdpClientAssumption DEF CallClose
  <2>2. stage'[p] = "enter" /\ \A q \in Procs : q # p => stage'[q] = stage[q]
    BY <1>1 DEF CallClose, TypeOK
  <2>3. QED
    BY <2>1, <2>2 DEF ClosingInv, Inside
<1>2. ASSUME NEW p \in Procs, EnterOnce(p) PROVE ClosingInv'
  <2>1. UNCHANGED <<closeError, connOpen, closes>> /\ stage[p] = "enter"
    BY <1>2 DEF EnterOnce
  <2>2. \A q \in Procs : q # p => stage'[q] = stage[q]
    BY <1>2 DEF EnterOnce, TypeOK
  <2>3. CASE once = "fresh"
    <3>1. once' = "running" /\ stage'[p] = IF p = Pump THEN "conn" ELSE "store"
      BY <1>2, <2>3 DEF EnterOnce, TypeOK
    <3>2. QED
      BY <2>1, <2>2, <2>3, <3>1 DEF ClosingInv, Inside
  <2>4. CASE once = "done"
    <3>1. once' = "done" /\ stage'[p] = "returned"
      BY <1>2, <2>4 DEF EnterOnce, TypeOK
    <3>2. QED
      BY <2>1, <2>2, <2>4, <3>1 DEF ClosingInv, Inside
  <2>5. QED
    BY <1>2, <2>3, <2>4 DEF EnterOnce
<1>3. ASSUME NEW p \in Procs, StoreCloseError(p) PROVE ClosingInv'
  <2>1. /\ stage[p] = "store" /\ closeError' = "clientClosed"
        /\ UNCHANGED <<once, connOpen, closes>>
    BY <1>3 DEF StoreCloseError
  <2>2. stage'[p] = "conn" /\ \A q \in Procs : q # p => stage'[q] = stage[q]
    BY <1>3 DEF StoreCloseError, TypeOK
  <2>3. QED
    BY <2>1, <2>2 DEF ClosingInv, Inside
<1>4. ASSUME NEW p \in Procs, CloseConn(p) PROVE ClosingInv'
  <2>1. stage[p] = "conn" /\ connOpen' = FALSE /\ UNCHANGED <<once, closeError, closes>>
    BY <1>4 DEF CloseConn
  <2>2. stage'[p] = "signal" /\ \A q \in Procs : q # p => stage'[q] = stage[q]
    BY <1>4 DEF CloseConn, TypeOK
  <2>3. QED
    BY <2>1, <2>2 DEF ClosingInv, Inside
<1>5. ASSUME NEW p \in Procs, SignalClosed(p) PROVE ClosingInv'
  <2>1. /\ stage[p] = "signal" /\ once = "running" /\ closes = 0
        /\ closes' = 1 /\ once' = "done" /\ UNCHANGED <<closeError, connOpen>>
    BY <1>5 DEF SignalClosed, ClosingInv, Inside
  <2>2. stage'[p] = "returned" /\ \A q \in Procs : q # p => stage'[q] = stage[q]
    BY <1>5 DEF SignalClosed, TypeOK
  <2>3. \A q \in Procs : q # p => stage[q] \notin Inside
    BY <2>1 DEF ClosingInv, Inside
  <2>4. QED
    BY <2>1, <2>2, <2>3 DEF ClosingInv, Inside
<1>6. CASE PumpReadError
  <2>1. closeError' = "readError" /\ UNCHANGED <<once, connOpen, closes>>
    BY <1>6 DEF PumpReadError
  <2>2. stage'[Pump] = "enter" /\ \A q \in Procs : q # Pump => stage'[q] = stage[q]
    BY <1>6 DEF PumpReadError, TypeOK
  <2>3. QED
    BY <2>1, <2>2 DEF ClosingInv, Inside
<1>7. CASE UNCHANGED closeVars
  BY <1>7 DEF closeVars, ClosingInv
<1>8. CASE PumpLookup \/ PumpDeliver \/ PeerGoes \/ UNCHANGED vars
  BY <1>7, <1>8 DEF PumpLookup, PumpDeliver, PeerGoes, vars, closeVars
<1>9. ASSUME NEW c \in Calls, CallStep(c) PROVE ClosingInv'
  BY <1>7, <1>9 DEF CallStep, CallerStep, Begin, Register, LockWrite, Write, WriteFails,
                    SeeClosed, SeeCancelled, Receive, Deregister
<1>10. ASSUME NEW r \in requests, PeerRepeats(r) \/ \E a \in Answers : PeerAnswers(r, a)
       PROVE  ClosingInv'
  BY <1>7, <1>10 DEF PeerRepeats, PeerAnswers
<1>11. QED
  BY <1>1, <1>2, <1>3, <1>4, <1>5, <1>6, <1>8, <1>9, <1>10
  DEF Next, CallStep, PumpStep, CloseStep

-------------------------------------------------------------------------------
(* The theorems.                                                           *)

IInv == TypeOK /\ IdsInv /\ PendingIsExact /\ RoutingInv /\ OutcomeInv /\ ClosingInv

(* The inductive invariant of the connection holds in every state: types,  *)
(* ids, the pending map, routing, outcomes and closing (client.go:34-140,  *)
(* session.go:27-62).                                                      *)
THEOREM ClientInvariance == Spec => []IInv
<1>1. Init => IInv
  BY InitTypes, InitIds, InitPending, InitRouting, InitOutcome, InitClosing DEF IInv
<1>2. IInv /\ [Next]_vars => IInv'
  BY StepTypes, StepIds, StepPending, StepRouting, StepOutcome, StepClosing DEF IInv
<1>3. QED
  BY <1>1, <1>2, PTL DEF Spec

(* Two calls in flight never share an id, however many there are           *)
(* (client.go:53, session.go:33).                                          *)
THEOREM IdsAreDistinct == Spec => []IdsDistinct
<1>1. IInv => IdsDistinct
  BY DEF IInv, IdsInv
<1>2. QED
  BY <1>1, ClientInvariance, PTL

(* A response reaches the call it answers and no other, in whatever order, *)
(* however late and however often the answers come (client.go:103-108).    *)
THEOREM ResponsesAreRouted == Spec => []ResponsesReachTheirCall
<1>1. IInv => ResponsesReachTheirCall
  BY DEF IInv, RoutingInv, GenuineFrames, Genuine, ResponsesReachTheirCall
<1>2. QED
  BY <1>1, ClientInvariance, PTL

(* The pending map never leaks: it holds exactly the calls between their   *)
(* Store and their deferred Delete (client.go:55-56).                      *)
THEOREM PendingMapIsExact == Spec => []PendingIsExact
<1>1. IInv => PendingIsExact
  BY DEF IInv
<1>2. QED
  BY <1>1, ClientInvariance, PTL

(* The closed channel is closed at most once, after a reason is stored and *)
(* the connection is shut, whoever comes first (client.go:42-49, 86-88).   *)
THEOREM ClosedOnce == Spec => []ClosedOnceWithReason
<1>1. IInv => ClosedOnceWithReason
  BY DEF IInv, ClosingInv, ClosedOnceWithReason, closed, Procs
<1>2. QED
  BY <1>1, ClientInvariance, PTL

-------------------------------------------------------------------------------
(* The client implements RpcService.                                       *)

Status == [c \in Calls |-> IF pc[c] = "idle" THEN "idle"
                           ELSE IF outcome[c] = "none" THEN "open" ELSE "ended"]
LinkUp == connOpen /\ ~peerGone

LEMMA StartRefines ==
  ASSUME IInv, NEW c \in Calls, Begin(c)
  PROVE  Rpc!Start(c)
<1>1. /\ pc[c] = "idle" /\ outcome[c] = "none" /\ pc' = [pc EXCEPT ![c] = "begun"]
      /\ UNCHANGED <<outcome, answer, connOpen, peerGone>>
  BY DEF Begin, Move, IInv, OutcomeInv, peerVars, closeVars
<1>2. Status' = [Status EXCEPT ![c] = "open"] /\ Status[c] = "idle"
  BY <1>1 DEF Status, IInv, TypeOK
<1>3. QED
  BY <1>1, <1>2 DEF Rpc!Start, Status

(* A branch of the select, or a failed write, ends the call with a cause.  *)
LEMMA EndRefines ==
  ASSUME IInv, NEW c \in Calls, NEW o \in Rpc!Outcomes,
         pc[c] \in {"writing", "waiting"}, pc' = [pc EXCEPT ![c] = "returning"],
         Return(c, o), UNCHANGED <<answer, connOpen, peerGone>>,
         Rpc!Justified(c, o)
  PROVE  Rpc!End(c, o)
<1>1. outcome[c] = "none" /\ outcome' = [outcome EXCEPT ![c] = o] /\ o # "none"
  BY DEF IInv, OutcomeInv, Return, Rpc!Outcomes, Rpc!Answers
<1>2. Status' = [Status EXCEPT ![c] = "ended"] /\ Status[c] = "open"
  BY <1>1 DEF Status, IInv, TypeOK
<1>3. QED
  BY <1>1, <1>2 DEF Rpc!End, Status

LEMMA AnswerRefines ==
  ASSUME IInv, NEW r \in requests, NEW a \in Answers, PeerAnswers(r, a)
  PROVE  r.call \in Calls /\ Rpc!AnswerCall(r.call, a)
<1>1. r.call \in Calls /\ pc[r.call] # "idle"
  BY DEF IInv, TypeOK, RoutingInv
<1>2. QED
  BY <1>1 DEF PeerAnswers, Rpc!AnswerCall, callVars, closeVars

(* The client implements the promise of a CDP connection: every call ends  *)
(* at most once and with a cause - its own answer, its own context, or a   *)
(* link that is down (client.go:52-79).                                    *)
THEOREM ClientImplementsRpc == Spec => ImplementsRpc
<1> USE DEF Rpc!Answers, Answers
<1>1. Init => Rpc!RpcInit
  BY DEF Init, Rpc!RpcInit
<1>2. IInv /\ [Next]_vars => [Rpc!RpcNext]_(Rpc!rpcVars)
  <2> SUFFICES ASSUME IInv, [Next]_vars PROVE Rpc!RpcNext \/ UNCHANGED Rpc!rpcVars
    OBVIOUS
  <2>1. ASSUME NEW c \in Calls, Begin(c) PROVE Rpc!RpcNext
    BY <2>1, StartRefines DEF Rpc!RpcNext
  <2>2. ASSUME NEW c \in Calls, WriteFails(c) PROVE Rpc!RpcNext
    <3>1. Rpc!Justified(c, "writeError")
      BY <2>2 DEF WriteFails, Rpc!Justified
    <3>2. Rpc!End(c, "writeError")
      BY <2>2, <3>1, EndRefines DEF WriteFails, Move, Rpc!Outcomes, peerVars, closeVars
    <3>3. QED
      BY <3>2 DEF Rpc!RpcNext, Rpc!Outcomes
  <2>3. ASSUME NEW c \in Calls, SeeClosed(c) PROVE Rpc!RpcNext
    <3>1. Rpc!Justified(c, "closed")
      BY <2>3 DEF SeeClosed, Rpc!Justified, IInv, ClosingInv, closed
    <3>2. Rpc!End(c, "closed")
      BY <2>3, <3>1, EndRefines DEF SeeClosed, Move, Rpc!Outcomes, peerVars, closeVars
    <3>3. QED
      BY <3>2 DEF Rpc!RpcNext, Rpc!Outcomes
  <2>4. ASSUME NEW c \in Calls, SeeCancelled(c) PROVE Rpc!RpcNext
    <3>1. Rpc!End(c, "cancelled")
      BY <2>4, EndRefines DEF SeeCancelled, Rpc!Justified, Move, Rpc!Outcomes, peerVars, closeVars
    <3>2. QED
      BY <3>1 DEF Rpc!RpcNext, Rpc!Outcomes
  <2>5. ASSUME NEW c \in Calls, Receive(c) PROVE Rpc!RpcNext
    <3>1. slot[c] \in Frames /\ slot[c].ans = answer[c]
      BY <2>5 DEF Receive, IInv, RoutingInv, GenuineFrames, Genuine
    <3>2. slot[c].ans \in Rpc!Outcomes /\ Rpc!Justified(c, slot[c].ans)
      BY <3>1 DEF Frames, Rpc!Outcomes, Rpc!Justified
    <3>3. PICK o \in Rpc!Outcomes : o = slot[c].ans
      BY <3>2
    <3>4. Rpc!End(c, o)
      BY <2>5, <3>2, <3>3, EndRefines DEF Receive, Move, peerVars, closeVars
    <3>5. QED
      BY <3>4 DEF Rpc!RpcNext
  <2>6. ASSUME NEW c \in Calls, Register(c) \/ LockWrite(c) \/ Write(c) \/ Deregister(c)
        PROVE  UNCHANGED Rpc!rpcVars
    <3>1. /\ UNCHANGED <<outcome, answer, connOpen, peerGone>> /\ pc[c] # "idle"
          /\ \E s \in {"registered", "writing", "waiting", "done"} : pc' = [pc EXCEPT ![c] = s]
      BY <2>6 DEF Register, LockWrite, Write, Deregister, Move, peerVars, closeVars
    <3>2. Status' = Status
      BY <3>1 DEF Status, IInv, TypeOK
    <3>3. QED
      BY <3>1, <3>2 DEF Rpc!rpcVars, Status
  <2>7. CASE PumpStep
    BY <2>7 DEF PumpStep, PumpLookup, PumpDeliver, PumpReadError, Rpc!rpcVars,
                callVars, peerVars, closeVars
  <2>8. ASSUME NEW p \in Procs, CallClose(p) \/ EnterOnce(p) \/ StoreCloseError(p) \/ SignalClosed(p)
        PROVE  UNCHANGED Rpc!rpcVars
    BY <2>8 DEF CallClose, EnterOnce, StoreCloseError, SignalClosed, Rpc!rpcVars,
                callVars, peerVars
  <2>9. ASSUME NEW p \in Procs, CloseConn(p) PROVE Rpc!RpcNext
    BY <2>9 DEF CloseConn, Rpc!RpcNext, Rpc!LinkDown, callVars, peerVars
  <2>10. ASSUME NEW r \in requests, NEW a \in Answers, PeerAnswers(r, a) PROVE Rpc!RpcNext
    BY <2>10, AnswerRefines DEF Rpc!RpcNext
  <2>11. ASSUME NEW r \in requests, PeerRepeats(r) PROVE UNCHANGED Rpc!rpcVars
    BY <2>11 DEF PeerRepeats, Rpc!rpcVars, callVars, closeVars
  <2>12. CASE PeerGoes
    BY <2>12 DEF PeerGoes, Rpc!RpcNext, Rpc!LinkDown, callVars, closeVars
  <2>13. CASE UNCHANGED vars
    BY <2>13 DEF vars, Rpc!rpcVars
  <2>14. QED
    BY <2>1, <2>2, <2>3, <2>4, <2>5, <2>6, <2>7, <2>8, <2>9, <2>10, <2>11, <2>12, <2>13
    DEF Next, CallerStep, CloseStep
<1>3. QED
  BY <1>1, <1>2, ClientInvariance, PTL DEF Spec, ImplementsRpc, Rpc!RpcSpec
===============================================================================
