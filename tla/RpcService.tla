------------------------------ MODULE RpcService ------------------------------
(***************************************************************************)
(* What a CDP connection promises its callers (internal/cdp): a call stays *)
(* open until it ends exactly once, and it ends with an outcome that has a *)
(* cause - the answer the peer gave to this very call, the caller's own    *)
(* context, or a link that has gone down.  It says nothing of ids, of the  *)
(* read pump or of locks; module CdpClient is shown to implement it.       *)
(***************************************************************************)
CONSTANT Calls

Answers  == {"result", "cdpError"}
Outcomes == Answers \cup {"cancelled", "closed", "writeError"}

VARIABLES
  status,     \* idle, open or ended, per call
  outcome,    \* how the call ended, "none" before
  answer,     \* what the peer answered to the call, "none" before
  linkUp      \* the connection can still carry traffic

rpcVars == <<status, outcome, answer, linkUp>>

RpcInit ==
  /\ status = [c \in Calls |-> "idle"]
  /\ outcome = [c \in Calls |-> "none"]
  /\ answer = [c \in Calls |-> "none"]
  /\ linkUp = TRUE

Start(c) ==
  /\ status[c] = "idle"
  /\ status' = [status EXCEPT ![c] = "open"]
  /\ UNCHANGED <<outcome, answer, linkUp>>

(* The peer answers a call at most once, and may answer one that has       *)
(* already been given up.                                                  *)
AnswerCall(c, a) ==
  /\ status[c] # "idle"
  /\ answer[c] = "none"
  /\ answer' = [answer EXCEPT ![c] = a]
  /\ UNCHANGED <<status, outcome, linkUp>>

LinkDown ==
  /\ linkUp' = FALSE
  /\ UNCHANGED <<status, outcome, answer>>

(* A caller may give up for reasons of its own at any time.                *)
Justified(c, o) ==
  \/ o \in Answers /\ answer[c] = o
  \/ o = "cancelled"
  \/ o \in {"closed", "writeError"} /\ ~linkUp

End(c, o) ==
  /\ status[c] = "open"
  /\ Justified(c, o)
  /\ status' = [status EXCEPT ![c] = "ended"]
  /\ outcome' = [outcome EXCEPT ![c] = o]
  /\ UNCHANGED <<answer, linkUp>>

RpcNext ==
  \/ LinkDown
  \/ \E c \in Calls :
       \/ Start(c)
       \/ \E a \in Answers : AnswerCall(c, a)
       \/ \E o \in Outcomes : End(c, o)

RpcSpec == RpcInit /\ [][RpcNext]_rpcVars
===============================================================================
