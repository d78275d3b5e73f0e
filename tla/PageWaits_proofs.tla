---------------------------- MODULE PageWaits_proofs ----------------------------
(***************************************************************************)
(* What the calls that wait and record believe of their page, for any      *)
(* calls, requests, downloads and capacities, whatever Chrome sends and    *)
(* whatever is lost on the way, at any moment.  BooksAreTrue is not        *)
(* inductive: it speaks of what a recorder has noted, and what it notes    *)
(* next is in its channels.                                                *)
(* Inv adds what the queues hold and where each call stands:               *)
(*                                                                         *)
(*  - QueueTypes: a queue holds what its method carries;                   *)
(*  - WayIsTrue, MailIsTrue, GuidIsTrue: an event on its way, in a channel *)
(*    or noted tells of something that Chrome did;                         *)
(*  - Follows: every end of a request that Chrome told is still to come to *)
(*    a recorder, was taken by it, or passed it by;                        *)
(*  - Crossed: an end taken before its start - the methods have queues of  *)
(*    their own - leaves the request open, and counts as passed by;        *)
(*  - Stands, Rests: which tool a call at each label is, and what it has   *)
(*    subscribed, noted and armed there.                                   *)
(*                                                                         *)
(* What is open on the books, with Follows and Crossed, is open in the     *)
(* page or explained; what is off them has ended, because only an end that *)
(* MailIsTrue vouches for takes a request off.                             *)
(***************************************************************************)
EXTENDS PageWaits, SequenceTheorems, TLAPS

Recorders == {"networkidle", "har", "harOfUrl", "trace", "download"}
Early     == {"start", "sending", "sent", "waiting", "stepping"}
Endings   == {"response", "finished", "failed"}

(* The methods a recorder hears.                                           *)
Heard(t) == ToSet(Needed(t))

(* A queue for each method, of what that method carries: the way, and the  *)
(* channels of a call.                                                     *)
IsWay(q) ==
  /\ q = [m \in Methods |-> q[m]]
  /\ \A m \in Methods : q[m] \in Seq(Payload(m))
IsQueues(q) == IsWay(q) /\ \A m \in Methods : Len(q[m]) <= ChanCap

QueueTypes ==
  /\ IsWay(way)
  /\ inbox = [c \in Calls |-> inbox[c]] /\ \A c \in Calls : IsQueues(inbox[c])

-------------------------------------------------------------------------------
(* Where a call stands, and what that says of what it has noted.           *)
Stands(c) ==
  /\ pc[c] \in {"sending", "sent", "waiting"} => tool[c] \in Navigations
  /\ pc[c] = "stepping" => tool[c] \in {"back", "forward"}
  /\ pc[c] = "subscribing" => tool[c] \in Recorders /\ ToSet(todo[c]) \subseteq Heard(tool[c])
  /\ pc[c] = "idling" => tool[c] = "networkidle"
  /\ pc[c] = "recording" => tool[c] \in {"har", "harOfUrl"}
  /\ pc[c] \in {"starting", "tracing", "collecting"} => tool[c] = "trace"
  /\ pc[c] = "downloading" => tool[c] = "download"
  /\ pc[c] \in {"subscribing", "idling", "recording", "starting", "tracing", "collecting",
                "downloading"} => subs[c] \subseteq Heard(tool[c])
  /\ pc[c] \in Early => book[c] = Blank /\ past[c].started = {} /\ past[c].ended = {}
  /\ pc[c] # "done" => book[c].size = NoDownload /\ book[c].file = NoDownload

(* What TypeOK says of a call that is not under way.                       *)
Rests(c) ==
  /\ pc[c] \in {"start", "done", "failed"} => subs[c] = {}
  /\ timer[c] # "off" <=> pc[c] = "idling"
  /\ todo[c] # << >> <=> pc[c] = "subscribing"
  /\ \A m \in Methods : m \notin subs[c] => inbox[c][m] = << >>

(* An event on its way tells of something that Chrome did.                 *)
WayIsTrue == \A m \in Endings : \A r \in ToSet(way[m]) : m \in said[r]
MailIsTrue(c) ==
  /\ \A m \in Endings : \A r \in ToSet(inbox[c][m]) : m \in said[r]
  /\ \A d \in ToSet(inbox[c]["downloadWillBegin"]) : download[d] # "new"
GuidIsTrue(c) == book[c].guid # NoDownload => download[book[c].guid] # "new"

(* Every end of a request is still to come to a recorder, was taken by it, *)
(* or passed it by.                                                        *)
Follows(c) ==
  Listening(c) =>
    \A m \in Ends(tool[c]), r \in Requests :
      m \in said[r] => r \in OnWay(c, m) \cup past[c].ended \cup past[c].missed

(* An end taken before its start, the request looks open for ever.         *)
Crossed(c) == book[c].open \cap past[c].ended \subseteq past[c].missed

CallInv(c) ==
  /\ Stands(c) /\ Rests(c) /\ MailIsTrue(c) /\ GuidIsTrue(c) /\ Follows(c) /\ Crossed(c)
  /\ TakenOffHasEnded(c) /\ IdleIsOver(c) /\ DownloadIsNamed(c)

Inv == CallTypes /\ ChromeTypes /\ QueueTypes /\ WayIsTrue /\ \A c \in Calls : CallInv(c)

-------------------------------------------------------------------------------
(* Queues.                                                                 *)

LEMMA TailFacts ==
  ASSUME NEW S, NEW s \in Seq(S), s # << >>
  PROVE  /\ Head(s) \in S /\ Head(s) \in ToSet(s)
         /\ Tail(s) \in Seq(S) /\ Len(Tail(s)) = Len(s) - 1 /\ Len(s) \in Nat \ {0}
         /\ ToSet(s) = ToSet(Tail(s)) \cup {Head(s)}
<1> PICK t : t = Tail(s)
  OBVIOUS
<1>1. /\ Head(s) \in S /\ t \in Seq(S) /\ Len(t) = Len(s) - 1
      /\ \A i \in 1 .. Len(t) : t[i] = s[i + 1]
      /\ Len(s) \in Nat \ {0} /\ Head(s) = s[1]
      /\ DOMAIN s = 1 .. Len(s) /\ DOMAIN t = 1 .. Len(t)
  BY HeadTailProperties, LenProperties, EmptySeq
<1>2. Head(s) \in ToSet(s)
  BY <1>1 DEF ToSet
<1>3. \A i \in DOMAIN s : i = 1 \/ (i - 1 \in DOMAIN t /\ t[i - 1] = s[i])
  BY <1>1
<1>4. ToSet(s) \subseteq ToSet(t) \cup {Head(s)}
  <2> SUFFICES ASSUME NEW i \in DOMAIN s PROVE s[i] \in ToSet(t) \cup {Head(s)}
    BY DEF ToSet
  <2>1. i - 1 \in DOMAIN t /\ t[i - 1] = s[i] => s[i] \in ToSet(t)
    BY DEF ToSet
  <2> QED
    BY <1>1, <1>3, <2>1
<1>5. \A i \in DOMAIN t : i + 1 \in DOMAIN s /\ s[i + 1] = t[i]
  BY <1>1
<1>6. ToSet(t) \subseteq ToSet(s)
  BY <1>5 DEF ToSet
<1> QED
  BY <1>1, <1>2, <1>4, <1>6

LEMMA AppendFacts ==
  ASSUME NEW S, NEW s \in Seq(S), NEW e \in S
  PROVE  /\ Append(s, e) \in Seq(S) /\ Len(Append(s, e)) = Len(s) + 1 /\ Len(s) \in Nat
         /\ ToSet(Append(s, e)) = ToSet(s) \cup {e}
<1> PICK t : t = Append(s, e)
  OBVIOUS
<1>1. /\ t \in Seq(S) /\ Len(t) = Len(s) + 1 /\ Len(s) \in Nat
      /\ \A i \in 1 .. Len(s) : t[i] = s[i]
      /\ t[Len(s) + 1] = e
      /\ DOMAIN s = 1 .. Len(s) /\ DOMAIN t = 1 .. Len(s) + 1
  BY AppendProperties, LenProperties
<1>2. \A i \in DOMAIN t : i \in DOMAIN s \/ i = Len(s) + 1
  BY <1>1
<1>3. \A i \in DOMAIN s : i \in DOMAIN t
  BY <1>1
<1>4. ToSet(t) \subseteq ToSet(s) \cup {e}
  BY <1>1, <1>2 DEF ToSet
<1>5. ToSet(s) \subseteq ToSet(t) /\ e \in ToSet(t)
  BY <1>1, <1>3 DEF ToSet
<1> QED
  BY <1>1, <1>4, <1>5

(* Two parts of a sequence without the element between them.               *)
LEMMA PartsFacts ==
  ASSUME NEW S, NEW s \in Seq(S), NEW a \in Seq(S), NEW b \in Seq(S), NEW i \in 1 .. Len(s),
         Len(a) = i - 1, \A j \in 1 .. i - 1 : a[j] = s[j],
         Len(b) = Len(s) - i, \A j \in 1 .. Len(s) - i : b[j] = s[i + j],
         NEW t, t = a \o b
  PROVE  /\ t \in Seq(S)
         /\ ToSet(t) \subseteq ToSet(s) /\ ToSet(s) \subseteq ToSet(t) \cup {s[i]}
<1>1. Len(s) \in Nat /\ DOMAIN s = 1 .. Len(s)
  BY LenProperties
<1>2. /\ t \in Seq(S) /\ Len(t) = Len(a) + Len(b)
      /\ \A j \in 1 .. Len(a) + Len(b) : t[j] = IF j <= Len(a) THEN a[j] ELSE b[j - Len(a)]
  BY ConcatProperties
<1>3. Len(a) + Len(b) = Len(s) - 1
  BY <1>1
<1>4. DOMAIN t = 1 .. Len(s) - 1
  BY <1>2, <1>3, LenProperties
<1>5. ASSUME NEW j \in 1 .. Len(s) - 1, j < i PROVE t[j] = s[j]
  BY <1>1, <1>2, <1>3, <1>5
<1>6. ASSUME NEW j \in 1 .. Len(s) - 1, ~(j < i) PROVE t[j] = s[j + 1]
  <2>1. t[j] = b[j - (i - 1)]
    BY <1>1, <1>2, <1>3, <1>6
  <2>2. j - (i - 1) \in 1 .. Len(s) - i /\ i + (j - (i - 1)) = j + 1
    BY <1>1, <1>6
  <2> QED
    BY <2>1, <2>2
<1>7. ASSUME NEW j \in DOMAIN t PROVE t[j] \in ToSet(s)
  <2>1. j \in 1 .. Len(s) - 1 /\ j \in DOMAIN s /\ j + 1 \in DOMAIN s
    BY <1>1, <1>4
  <2>2. t[j] = s[j] \/ t[j] = s[j + 1]
    BY <1>5, <1>6, <2>1
  <2> QED
    BY <2>1, <2>2 DEF ToSet
<1>8. ASSUME NEW k \in DOMAIN s, k # i PROVE s[k] \in ToSet(t)
  <2>1. CASE k < i
    <3>1. k \in DOMAIN t /\ t[k] = s[k]
      BY <1>1, <1>4, <1>5, <2>1
    <3> QED
      BY <3>1 DEF ToSet
  <2>2. CASE k > i
    <3>1. k - 1 \in 1 .. Len(s) - 1 /\ ~(k - 1 < i) /\ (k - 1) + 1 = k
      BY <1>1, <2>2
    <3>2. k - 1 \in DOMAIN t /\ t[k - 1] = s[k]
      BY <1>4, <1>6, <3>1
    <3> QED
      BY <3>2 DEF ToSet
  <2> QED
    BY <1>1, <1>8, <2>1, <2>2
<1> QED
  BY <1>2, <1>7, <1>8 DEF ToSet

LEMMA RemoveFacts ==
  ASSUME NEW S, NEW s \in Seq(S), NEW i \in DOMAIN s
  PROVE  /\ RemoveAt(s, i) \in Seq(S) /\ s[i] \in S /\ s[i] \in ToSet(s)
         /\ ToSet(RemoveAt(s, i)) \subseteq ToSet(s)
         /\ ToSet(s) \subseteq ToSet(RemoveAt(s, i)) \cup {s[i]}
<1>1. DOMAIN s = 1 .. Len(s) /\ Len(s) \in Nat /\ i \in 1 .. Len(s)
  BY LenProperties
<1>2. \A j \in 1 .. Len(s) : s[j] \in S
  BY <1>1, ElementOfSeq
<1>3. PICK a : a = SubSeq(s, 1, i - 1)
  OBVIOUS
<1>4. PICK b : b = SubSeq(s, i + 1, Len(s))
  OBVIOUS
<1>5. a \in Seq(S) /\ Len(a) = i - 1 /\ \A j \in 1 .. i - 1 : a[j] = s[j]
  BY <1>1, <1>2, <1>3, SubSeqProperties
<1>6. b \in Seq(S) /\ Len(b) = Len(s) - i /\ \A j \in 1 .. Len(s) - i : b[j] = s[i + j]
  <2>1. i + 1 \in Int /\ Len(s) \in Int /\ \A j \in i + 1 .. Len(s) : s[j] \in S
    BY <1>1, <1>2
  <2>2. /\ b \in Seq(S) /\ Len(b) = IF i + 1 <= Len(s) THEN Len(s) - (i + 1) + 1 ELSE 0
        /\ \A j \in 1 .. Len(s) - (i + 1) + 1 : b[j] = s[(i + 1) + j - 1]
    BY <1>4, <2>1, SubSeqProperties
  <2>3. /\ Len(s) - (i + 1) + 1 = Len(s) - i /\ (~(i + 1 <= Len(s)) => Len(s) - i = 0)
        /\ \A j \in 1 .. Len(s) - i : (i + 1) + j - 1 = i + j
    BY <1>1
  <2> QED
    BY <2>2, <2>3
<1>7. RemoveAt(s, i) = a \o b
  BY <1>3, <1>4 DEF RemoveAt
<1>8. PICK t : t = a \o b
  OBVIOUS
<1>9. /\ t \in Seq(S)
      /\ ToSet(t) \subseteq ToSet(s) /\ ToSet(s) \subseteq ToSet(t) \cup {s[i]}
  BY <1>1, <1>5, <1>6, <1>8, PartsFacts
<1>10. s[i] \in S /\ s[i] \in ToSet(s)
  BY <1>1, <1>2 DEF ToSet
<1> QED
  BY <1>7, <1>8, <1>9, <1>10

LEMMA EmptyFacts == << >> \in Seq({}) /\ ToSet(<< >>) = {} /\ Len(<< >>) = 0
BY DEF ToSet

(* A send to a queue that is full is lost.                                 *)
LEMMA SentFacts ==
  ASSUME NEW S, NEW s \in Seq(S), NEW x \in S, Len(s) <= ChanCap
  PROVE  /\ Sent(s, x) \in Seq(S) /\ Len(Sent(s, x)) <= ChanCap
         /\ ToSet(s) \subseteq ToSet(Sent(s, x))
         /\ ToSet(Sent(s, x)) \subseteq ToSet(s) \cup {x}
<1>1. Len(s) \in Nat /\ ChanCap \in Nat
  BY PageWaitsAssumption, LenProperties
<1> QED
  BY <1>1, AppendFacts DEF Sent

LEMMA IsBounded ==
  ASSUME NEW S, NEW s \in Seq(S), NEW n \in Nat, Len(s) <= n
  PROVE  s \in BoundedSeq(S, n)
<1>1. Len(s) \in 0 .. n /\ s \in [1 .. Len(s) -> S]
  BY LenProperties
<1> QED
  BY <1>1 DEF BoundedSeq, SeqOf

(* A queue is put to, or taken from, the others left alone.                *)
Put(q, m, x) == [q EXCEPT ![m] = Sent(@, x)]
Took(q, m)   == [q EXCEPT ![m] = Tail(@)]

LEMMA QueuePut ==
  ASSUME NEW q, IsQueues(q), NEW m \in Methods, NEW x \in Payload(m)
  PROVE  /\ IsQueues(Put(q, m, x))
         /\ \A n \in Methods : /\ ToSet(q[n]) \subseteq ToSet(Put(q, m, x)[n])
                               /\ n # m => Put(q, m, x)[n] = q[n]
         /\ ToSet(Put(q, m, x)[m]) \subseteq ToSet(q[m]) \cup {x}
<1> PICK p : p = Put(q, m, x)
  OBVIOUS
<1>1. p[m] = Sent(q[m], x) /\ \A n \in Methods \ {m} : p[n] = q[n]
  BY DEF IsQueues, IsWay, Put
<1>2. p = [n \in Methods |-> p[n]]
  BY DEF IsQueues, IsWay, Put
<1>3. q[m] \in Seq(Payload(m)) /\ Len(q[m]) <= ChanCap
  BY DEF IsQueues, IsWay
<1>4. /\ p[m] \in Seq(Payload(m)) /\ Len(p[m]) <= ChanCap
      /\ ToSet(q[m]) \subseteq ToSet(p[m])
      /\ ToSet(p[m]) \subseteq ToSet(q[m]) \cup {x}
  BY <1>1, <1>3, SentFacts
<1> QED
  BY <1>1, <1>2, <1>4 DEF IsQueues, IsWay

LEMMA QueueTake ==
  ASSUME NEW q, IsWay(q), NEW m \in Methods, q[m] # << >>
  PROVE  /\ IsWay(Took(q, m)) /\ (IsQueues(q) => IsQueues(Took(q, m)))
         /\ Head(q[m]) \in Payload(m) /\ Head(q[m]) \in ToSet(q[m])
         /\ ToSet(q[m]) = ToSet(Took(q, m)[m]) \cup {Head(q[m])}
         /\ \A n \in Methods : /\ n # m => Took(q, m)[n] = q[n]
                               /\ ToSet(Took(q, m)[n]) \subseteq ToSet(q[n])
<1> PICK p : p = Took(q, m)
  OBVIOUS
<1>1. p[m] = Tail(q[m]) /\ \A n \in Methods \ {m} : p[n] = q[n]
  BY DEF IsQueues, IsWay, Took
<1>2. p = [n \in Methods |-> p[n]]
  BY DEF IsQueues, IsWay, Took
<1>3. q[m] \in Seq(Payload(m))
  BY DEF IsQueues, IsWay
<1>4. /\ p[m] \in Seq(Payload(m)) /\ (Len(q[m]) <= ChanCap => Len(p[m]) <= ChanCap)
      /\ Head(q[m]) \in Payload(m) /\ Head(q[m]) \in ToSet(q[m])
      /\ ToSet(q[m]) = ToSet(p[m]) \cup {Head(q[m])}
  BY <1>1, <1>3, TailFacts, PageWaitsAssumption
<1> QED
  BY <1>1, <1>2, <1>4 DEF IsQueues, IsWay

(* An event is lost: the others are on their way as they were.             *)
LEMMA QueueLoses ==
  ASSUME NEW q, IsWay(q), NEW m \in Methods, NEW i \in DOMAIN q[m],
         NEW p, p = [q EXCEPT ![m] = RemoveAt(q[m], i)]
  PROVE  /\ IsWay(p) /\ q[m][i] \in Payload(m) /\ q[m][i] \in ToSet(q[m])
         /\ \A n \in Methods : /\ n # m => p[n] = q[n]
                               /\ ToSet(p[n]) \subseteq ToSet(q[n])
         /\ ToSet(q[m]) \subseteq ToSet(p[m]) \cup {q[m][i]}
<1>1. p[m] = RemoveAt(q[m], i) /\ \A n \in Methods \ {m} : p[n] = q[n]
  BY DEF IsWay
<1>2. p = [n \in Methods |-> p[n]]
  BY DEF IsWay
<1> PICK s : s = q[m]
  OBVIOUS
<1>3. s \in Seq(Payload(m)) /\ i \in DOMAIN s
  BY DEF IsWay
<1>4. /\ p[m] \in Seq(Payload(m)) /\ s[i] \in Payload(m) /\ s[i] \in ToSet(s)
      /\ ToSet(p[m]) \subseteq ToSet(s) /\ ToSet(s) \subseteq ToSet(p[m]) \cup {s[i]}
  BY <1>1, <1>3, RemoveFacts
<1> QED
  BY <1>1, <1>2, <1>4 DEF IsWay

LEMMA EmptyQueues == IsQueues(Empty) /\ \A m \in Methods : Empty[m] = << >>
<1>1. /\ Empty = [m \in Methods |-> << >>]
      /\ \A m \in Methods : Empty[m] = << >>
  BY DEF Empty
<1>2. \A m \in Methods : << >> \in Seq(Payload(m)) /\ Len(<< >>) <= ChanCap
  BY EmptySeq, PageWaitsAssumption
<1> QED
  BY <1>1, <1>2 DEF IsQueues, IsWay

LEMMA HeardFacts ==
  /\ Heard("networkidle") = {"willBeSent", "finished", "failed"}
  /\ \A t \in {"har", "harOfUrl"} : Heard(t) = {"willBeSent", "response"}
  /\ Heard("trace") = {"dataCollected", "tracingComplete"}
  /\ Heard("download") = {"downloadWillBegin", "downloadProgress"}
  /\ \A t \in Recorders : Needed(t) \in Seq(Methods) /\ Needed(t) # << >>
<1>1. \A x, y : ToSet(<<x, y>>) = {x, y}
  <2> TAKE x, y
  <2> PICK s : s = <<x, y>>
    OBVIOUS
  <2>1. DOMAIN s = {1, 2} /\ s[1] = x /\ s[2] = y
    OBVIOUS
  <2> QED
    BY <2>1 DEF ToSet
<1>2. \A x, y, z : ToSet(<<x, y, z>>) = {x, y, z}
  <2> TAKE x, y, z
  <2> PICK s : s = <<x, y, z>>
    OBVIOUS
  <2>1. DOMAIN s = {1, 2, 3} /\ s[1] = x /\ s[2] = y /\ s[3] = z
    OBVIOUS
  <2> QED
    BY <2>1 DEF ToSet
<1>3. /\ Needed("networkidle") = <<"willBeSent", "finished", "failed">>
      /\ \A t \in {"har", "harOfUrl"} : Needed(t) = <<"willBeSent", "response">>
      /\ Needed("trace") = <<"dataCollected", "tracingComplete">>
      /\ Needed("download") = <<"downloadWillBegin", "downloadProgress">>
  BY DEF Needed
<1>4. \A t \in Recorders : Needed(t) \in Seq(Methods) /\ Needed(t) # << >>
  <2>1. /\ <<"willBeSent", "finished", "failed">> \in Seq(Methods)
        /\ <<"willBeSent", "response">> \in Seq(Methods)
        /\ <<"dataCollected", "tracingComplete">> \in Seq(Methods)
        /\ <<"downloadWillBegin", "downloadProgress">> \in Seq(Methods)
    BY DEF Methods, Collected, Direct
  <2>2. /\ <<"willBeSent", "finished", "failed">> # << >>
        /\ <<"willBeSent", "response">> # << >>
        /\ <<"dataCollected", "tracingComplete">> # << >>
        /\ <<"downloadWillBegin", "downloadProgress">> # << >>
    OBVIOUS
  <2> QED
    BY <1>3, <2>1, <2>2 DEF Recorders
<1> QED
  BY <1>1, <1>2, <1>3, <1>4 DEF Heard

-------------------------------------------------------------------------------
(* Steps of one call leave the others alone.                               *)

Alone(c) ==
  /\ inbox' = [d \in Calls |-> inbox'[d]] /\ IsQueues(inbox[c])'
  /\ UNCHANGED <<way, said, download>>
  /\ \A d \in Calls \ {c} :
       /\ pc'[d] = pc[d] /\ tool'[d] = tool[d] /\ todo'[d] = todo[d] /\ subs'[d] = subs[d]
       /\ inbox'[d] = inbox[d] /\ timer'[d] = timer[d] /\ book'[d] = book[d] /\ past'[d] = past[d]

LEMMA SameCall ==
  ASSUME NEW d \in Calls, CallInv(d), UNCHANGED <<way, said, download>>,
         pc'[d] = pc[d], tool'[d] = tool[d], todo'[d] = todo[d], subs'[d] = subs[d],
         inbox'[d] = inbox[d], timer'[d] = timer[d], book'[d] = book[d], past'[d] = past[d]
  PROVE  CallInv(d)'
<1>1. Stands(d)' /\ Rests(d)'
  BY DEF CallInv, Stands, Rests
<1>2. MailIsTrue(d)' /\ GuidIsTrue(d)'
  BY DEF CallInv, MailIsTrue, GuidIsTrue
<1>3. Follows(d)' /\ Crossed(d)'
  BY DEF CallInv, Follows, Crossed, Listening, OnWay
<1>4. TakenOffHasEnded(d)' /\ IdleIsOver(d)' /\ DownloadIsNamed(d)'
  BY DEF CallInv, TakenOffHasEnded, IdleIsOver, Over, DownloadIsNamed
<1> QED
  BY <1>1, <1>2, <1>3, <1>4 DEF CallInv

LEMMA OwnStep ==
  ASSUME Inv, NEW c \in Calls, CallTypes', ChromeTypes', Alone(c), CallInv(c)'
  PROVE  Inv'
<1>1. QueueTypes'
  BY DEF Inv, QueueTypes, Alone, IsQueues, IsWay
<1>2. WayIsTrue'
  BY DEF Inv, WayIsTrue, Alone
<1>3. ASSUME NEW d \in Calls PROVE CallInv(d)'
  <2>1. CASE d # c
    BY <2>1, SameCall DEF Inv, Alone
  <2> QED
    BY <2>1
<1> QED
  BY <1>1, <1>2, <1>3 DEF Inv

LEMMA QueuesSet ==
  ASSUME Inv, NEW c \in Calls, NEW q, IsQueues(q), inbox' = [inbox EXCEPT ![c] = q]
  PROVE  /\ inbox' = [d \in Calls |-> inbox'[d]] /\ IsQueues(inbox[c])' /\ inbox'[c] = q
         /\ \A d \in Calls \ {c} : inbox'[d] = inbox[d]
<1>1. inbox'[c] = q
  BY DEF Inv, QueueTypes
<1> QED
  BY <1>1 DEF Inv, QueueTypes, IsQueues, IsWay

LEMMA QueuesStay ==
  ASSUME Inv, NEW c \in Calls, UNCHANGED inbox
  PROVE  inbox' = [d \in Calls |-> inbox'[d]] /\ IsQueues(inbox[c])'
BY DEF Inv, QueueTypes, IsQueues, IsWay

(* A call returns, its books as they are.                                  *)
LEMMA LeaveKeeps ==
  ASSUME Inv, NEW c \in Calls, NEW how \in {"done", "failed"}, Leave(c, how),
         pc[c] \notin {"subscribing", "done"},
         CallTypes', ChromeTypes', UNCHANGED <<todo, book, past, way, said, download>>,
         \/ UNCHANGED tool /\ (tool[c] = "networkidle" /\ how = "done" => book[c].open = {})
         \/ /\ pc[c] = "start" /\ \A d \in Calls \ {c} : tool'[d] = tool[d]
            /\ tool'[c] # "networkidle"
  PROVE  Inv'
<1>1. /\ pc'[c] = how /\ subs'[c] = {} /\ timer'[c] = "off" /\ todo'[c] = todo[c]
      /\ book'[c] = book[c] /\ past'[c] = past[c]
      /\ inbox' = [inbox EXCEPT ![c] = Empty]
  BY DEF Leave, Inv, CallTypes
<1>2. /\ inbox' = [d \in Calls |-> inbox'[d]] /\ IsQueues(inbox[c])' /\ inbox'[c] = Empty
      /\ \A d \in Calls \ {c} : inbox'[d] = inbox[d]
  BY <1>1, EmptyQueues, QueuesSet
<1>3. Alone(c)
  BY <1>2 DEF Alone, Leave, Inv, CallTypes
<1>4. CallInv(c)
  BY DEF Inv
<1>5. Stands(c)' /\ Rests(c)'
  BY <1>1, <1>2, <1>4, EmptyQueues DEF CallInv, Stands, Rests, Early
<1>6. MailIsTrue(c)' /\ GuidIsTrue(c)'
  BY <1>1, <1>2, <1>4, EmptyQueues, EmptyFacts
     DEF CallInv, MailIsTrue, GuidIsTrue, Endings, Methods, Collected, Direct
<1>7. Follows(c)' /\ Crossed(c)'
  BY <1>1, <1>4 DEF CallInv, Follows, Crossed, Listening
<1>8. TakenOffHasEnded(c)' /\ IdleIsOver(c)'
  <2>1. CASE UNCHANGED tool /\ (tool[c] = "networkidle" /\ how = "done" => book[c].open = {})
    BY <1>1, <1>4, <2>1 DEF CallInv, TakenOffHasEnded, IdleIsOver, Over, Ends
  <2>2. CASE pc[c] = "start" /\ tool'[c] # "networkidle"
    <3>1. past[c].started = {}
      BY <1>4, <2>2 DEF CallInv, Stands, Early
    <3> QED
      BY <1>1, <2>2, <3>1 DEF TakenOffHasEnded, IdleIsOver
  <2> QED
    BY <2>1, <2>2
<1>9. DownloadIsNamed(c)'
  BY <1>1, <1>4 DEF CallInv, DownloadIsNamed
<1> QED
  BY <1>3, <1>5, <1>6, <1>7, <1>8, <1>9, OwnStep DEF CallInv

LEMMA HistoryMoves ==
  ASSUME ChromeTypes, NewDocument \/ \E pos \in DOMAIN entries : Committed(entries, pos),
         UNCHANGED <<emitted, said, download, tracing, traced>>
  PROVE  ChromeTypes'
<1>1. doc \in 3 .. MaxCommits /\ doc < MaxCommits /\ doc' = doc + 1 /\ fired' = {}
  BY DEF NewDocument, Committed, ChromeTypes
<1>2. entries' \in Seq(1 .. MaxCommits) /\ at' \in DOMAIN entries'
  <2>1. CASE \E pos \in DOMAIN entries : Committed(entries, pos)
    BY <2>1 DEF Committed, ChromeTypes
  <2>2. CASE NewDocument
    <3> PICK s : s = SubSeq(entries, 1, at)
      OBVIOUS
    <3>1. DOMAIN entries = 1 .. Len(entries) /\ Len(entries) \in Nat /\ at \in DOMAIN entries
      BY LenProperties DEF ChromeTypes
    <3>2. \A i \in 1 .. at : entries[i] \in 1 .. MaxCommits
      <4> SUFFICES ASSUME NEW i \in 1 .. at PROVE entries[i] \in 1 .. MaxCommits
        OBVIOUS
      <4>1. i \in 1 .. Len(entries) /\ entries \in Seq(1 .. MaxCommits)
        BY <3>1 DEF ChromeTypes
      <4> QED
        BY <4>1, ElementOfSeq
    <3>3. s \in Seq(1 .. MaxCommits) /\ Len(s) = at
      BY <3>1, <3>2, SubSeqProperties
    <3>4. doc + 1 \in 1 .. MaxCommits
      BY <1>1, PageWaitsAssumption
    <3>5. entries' = Append(s, doc + 1) /\ at' = at + 1
      BY <2>2 DEF NewDocument, Committed
    <3>6. entries' \in Seq(1 .. MaxCommits) /\ Len(entries') = at + 1
      BY <3>3, <3>4, <3>5, AppendFacts
    <3>7. DOMAIN entries' = 1 .. at + 1
      BY <3>6, LenProperties
    <3> QED
      BY <3>1, <3>5, <3>6, <3>7
  <2> QED
    BY <2>1, <2>2
<1> QED
  BY <1>1, <1>2, PageWaitsAssumption DEF ChromeTypes

LEMMA ChromeStays ==
  ASSUME ChromeTypes, UNCHANGED <<emitted, chromeVars>>
  PROVE  ChromeTypes' /\ UNCHANGED <<said, download>>
BY DEF ChromeTypes, chromeVars, docVars


-------------------------------------------------------------------------------
(* Navigate and the history steps.                                         *)

LEMMA SubscribeLoadKeeps ==
  ASSUME Inv, NEW c \in Calls, NEW t \in Navigations, SubscribeLoad(c, t)
  PROVE  Inv'
<1>1. /\ pc[c] = "start" /\ pc'[c] = "sending" /\ tool'[c] = t /\ subs'[c] = {Awaited(t)}
      /\ UNCHANGED <<todo, inbox, timer, book, past, target>>
  BY DEF SubscribeLoad, Go, Inv, CallTypes
<1>2. CallTypes'
  BY DEF SubscribeLoad, Go, Inv, CallTypes, Tools, Awaited, Methods, Collected
<1>3. ChromeTypes' /\ UNCHANGED <<way, said, download>>
  BY ChromeStays DEF SubscribeLoad, Inv
<1>4. Alone(c)
  BY <1>1, <1>3, QueuesStay DEF Alone, SubscribeLoad, Go, Inv, CallTypes
<1>5. CallInv(c)
  BY DEF Inv
<1>6. Stands(c)' /\ Rests(c)'
  BY <1>1, <1>5 DEF CallInv, Stands, Rests, Early
<1>7. MailIsTrue(c)' /\ GuidIsTrue(c)'
  BY <1>1, <1>3, <1>5 DEF CallInv, MailIsTrue, GuidIsTrue
<1>8. past[c].started = {} /\ past[c].ended = {} /\ book[c] = Blank
  BY <1>1, <1>5 DEF CallInv, Stands, Early
<1>9. Follows(c)' /\ Crossed(c)' /\ TakenOffHasEnded(c)' /\ IdleIsOver(c)' /\ DownloadIsNamed(c)'
  BY <1>1, <1>8 DEF Follows, Listening, Crossed, TakenOffHasEnded, IdleIsOver, DownloadIsNamed,
                    Blank
<1> QED
  BY <1>2, <1>3, <1>4, <1>6, <1>7, <1>9, OwnStep DEF CallInv

(* The call goes from one label to another, and nothing else changes that  *)
(* its books depend on.                                                    *)
LEMMA GoKeeps ==
  ASSUME Inv, NEW c \in Calls, NEW from, NEW to, Go(c, from, to),
         \/ from = "sending" /\ to = "sent"
         \/ from = "sent" /\ to = "waiting"
         \/ from = "starting" /\ to = "tracing"
         \/ from = "tracing" /\ to = "collecting",
         ChromeTypes',
         UNCHANGED <<tool, todo, subs, inbox, timer, book, past, target, way, said, download>>
  PROVE  Inv'
<1>1. pc[c] = from /\ pc'[c] = to /\ \A d \in Calls \ {c} : pc'[d] = pc[d]
  BY DEF Go, Inv, CallTypes
<1>2. CallTypes'
  BY DEF Go, Inv, CallTypes
<1>3. Alone(c)
  BY <1>1, QueuesStay DEF Alone
<1>4. CallInv(c)
  BY DEF Inv
<1>5. Stands(c)' /\ Rests(c)'
  BY <1>1, <1>4 DEF CallInv, Stands, Rests, Early
<1>6. MailIsTrue(c)' /\ GuidIsTrue(c)'
  BY <1>4 DEF CallInv, MailIsTrue, GuidIsTrue
<1>7. Follows(c)' /\ Crossed(c)' /\ TakenOffHasEnded(c)' /\ IdleIsOver(c)' /\ DownloadIsNamed(c)'
  BY <1>1, <1>4 DEF CallInv, Follows, Listening, Crossed, TakenOffHasEnded, IdleIsOver,
                    DownloadIsNamed
<1> QED
  BY <1>2, <1>3, <1>5, <1>6, <1>7, OwnStep DEF CallInv

LEMMA NavigateKeeps ==
  ASSUME Inv, NEW c \in Calls, Commit(c) \/ Answered(c)
  PROVE  Inv'
<1>1. ASSUME Commit(c) PROVE Inv'
  BY <1>1, HistoryMoves, GoKeeps DEF Commit, Inv
<1>2. ASSUME Answered(c) PROVE Inv'
  BY <1>2, ChromeStays, GoKeeps DEF Answered, Inv
<1> QED
  BY <1>1, <1>2

LEMMA HistoryKeeps ==
  ASSUME Inv, NEW c \in Calls, HistoryStep(c) \/ Reload(c)
  PROVE  Inv'
<1>1. PICK pos : pos \in DOMAIN entries /\ StepTo(c, pos)
  BY DEF HistoryStep, Reload, Inv, ChromeTypes
<1>2. ChromeTypes' /\ UNCHANGED <<todo, book, past, way, said, download>> /\ Leave(c, "done")
  BY <1>1, HistoryMoves DEF StepTo, Inv
<1>3. CallInv(c)
  BY DEF Inv
<1>4. CASE HistoryStep(c)
  <2>1. pc[c] = "stepping" /\ UNCHANGED tool /\ tool[c] # "networkidle"
    BY <1>3, <1>4 DEF HistoryStep, CallInv, Stands
  <2>2. CallTypes'
    BY <1>1, <2>1 DEF StepTo, Leave, Inv, CallTypes
  <2> QED
    BY <1>2, <2>1, <2>2, LeaveKeeps
<1>5. CASE Reload(c)
  <2>1. pc[c] = "start" /\ tool' = [tool EXCEPT ![c] = "reload"]
    BY <1>5 DEF Reload
  <2>2. CallTypes'
    BY <1>1, <2>1 DEF StepTo, Leave, Inv, CallTypes, Tools
  <2>3. tool'[c] = "reload" /\ \A d \in Calls \ {c} : tool'[d] = tool[d]
    BY <2>1 DEF Inv, CallTypes
  <2> QED
    BY <1>2, <2>1, <2>2, <2>3, LeaveKeeps
<1> QED
  BY <1>4, <1>5

LEMMA ReadHistoryKeeps ==
  ASSUME Inv, NEW c \in Calls, NEW t \in {"back", "forward"}, ReadHistory(c, t)
  PROVE  Inv'
<1>1. /\ pc[c] = "start" /\ tool' = [tool EXCEPT ![c] = t]
      /\ UNCHANGED <<todo, book, past, way, emitted, chromeVars>>
  BY DEF ReadHistory
<1>2. tool'[c] = t /\ \A d \in Calls \ {c} : tool'[d] = tool[d]
  BY <1>1 DEF Inv, CallTypes
<1>3. ChromeTypes' /\ UNCHANGED <<said, download>>
  BY <1>1, ChromeStays DEF Inv
<1>4. CASE Leave(c, "failed") /\ UNCHANGED target
  <2>1. CallTypes'
    BY <1>1, <1>4 DEF Leave, Inv, CallTypes, Tools
  <2> QED
    BY <1>1, <1>2, <1>3, <1>4, <2>1, LeaveKeeps
<1>5. ASSUME NEW pos \in DOMAIN entries, target' = [target EXCEPT ![c] = entries[pos]],
             pc' = [pc EXCEPT ![c] = "stepping"], UNCHANGED <<subs, inbox, timer>>
      PROVE  Inv'
  <2>1. entries[pos] \in 0 .. MaxCommits
    <3>1. entries \in Seq(1 .. MaxCommits)
      BY DEF Inv, ChromeTypes
    <3>2. pos \in 1 .. Len(entries)
      BY <3>1, <1>5, LenProperties
    <3>3. entries[pos] \in 1 .. MaxCommits
      BY <3>1, <3>2, ElementOfSeq
    <3> QED
      BY <3>3, PageWaitsAssumption
  <2>2. CallTypes'
    BY <1>1, <1>5, <2>1 DEF Inv, CallTypes, Tools
  <2>3. pc'[c] = "stepping" /\ \A d \in Calls \ {c} : pc'[d] = pc[d]
    BY <1>5 DEF Inv, CallTypes
  <2>4. Alone(c)
    BY <1>1, <1>2, <1>3, <1>5, <2>3, QueuesStay DEF Alone
  <2>5. CallInv(c)
    BY DEF Inv
  <2>6. Stands(c)' /\ Rests(c)'
    BY <1>1, <1>2, <1>5, <2>3, <2>5 DEF CallInv, Stands, Rests, Early
  <2>7. MailIsTrue(c)' /\ GuidIsTrue(c)'
    BY <1>1, <1>3, <1>5, <2>5 DEF CallInv, MailIsTrue, GuidIsTrue
  <2>8. past[c].started = {} /\ past[c].ended = {} /\ book[c] = Blank
    BY <1>1, <2>5 DEF CallInv, Stands, Early
  <2>9. Follows(c)' /\ Crossed(c)' /\ TakenOffHasEnded(c)' /\ IdleIsOver(c)' /\ DownloadIsNamed(c)'
    BY <1>1, <2>3, <2>8 DEF Follows, Listening, Crossed, TakenOffHasEnded, IdleIsOver,
                            DownloadIsNamed, Blank
  <2> QED
    BY <1>3, <2>2, <2>4, <2>6, <2>7, <2>9, OwnStep DEF CallInv
<1> QED
  BY <1>4, <1>5 DEF ReadHistory

-------------------------------------------------------------------------------
(* Recorders.                                                              *)

LEMMA BeginKeeps ==
  ASSUME Inv, NEW c \in Calls, NEW t \in Recorders, BeginRecorder(c, t), pc[c] \in {"start", "waiting"},
         tool' = [tool EXCEPT ![c] = t],
         UNCHANGED <<timer, book, target, way, emitted, chromeVars>>
  PROVE  Inv'
<1>1. /\ pc'[c] = "subscribing" /\ tool'[c] = t /\ todo'[c] = Needed(t) /\ subs'[c] = {}
      /\ inbox' = [inbox EXCEPT ![c] = Empty] /\ timer'[c] = timer[c] /\ book'[c] = book[c]
      /\ past'[c] = [past[c] EXCEPT !.missed =
                       {r \in Requests : \E m \in Ends(t) : m \in said[r] /\ r \notin ToSet(way[m])}]
  BY DEF BeginRecorder, Inv, CallTypes
<1>2. /\ inbox' = [d \in Calls |-> inbox'[d]] /\ IsQueues(inbox[c])' /\ inbox'[c] = Empty
      /\ \A d \in Calls \ {c} : inbox'[d] = inbox[d]
  BY <1>1, EmptyQueues, QueuesSet
<1>3. ChromeTypes' /\ UNCHANGED <<said, download>>
  BY ChromeStays DEF Inv
<1>4. CallTypes'
  <2>1. Needed(t) \in Seq(Methods) /\ t \in Tools
    BY HeardFacts DEF Recorders, Tools, Navigations
  <2>2. past'[c] \in Pasts
    <3>1. past[c] \in Pasts
      BY DEF Inv, CallTypes
    <3>2. \A q \in SUBSET Requests : [past[c] EXCEPT !.missed = q] \in Pasts
      BY <3>1 DEF Pasts
    <3> QED
      BY <1>1, <3>2
  <2>3. past' \in [Calls -> Pasts]
    BY <2>2 DEF Inv, CallTypes, BeginRecorder
  <2> QED
    BY <2>1, <2>3 DEF BeginRecorder, Inv, CallTypes
<1>5. Alone(c)
  BY <1>2, <1>3 DEF Alone, BeginRecorder, Inv, CallTypes
<1>6. CallInv(c)
  BY DEF Inv
<1>7. past[c].started = {} /\ past[c].ended = {} /\ book[c] = Blank
  BY <1>6 DEF CallInv, Stands, Early
<1>8. Stands(c)' /\ Rests(c)'
  BY <1>1, <1>2, <1>6, <1>7, HeardFacts, EmptyQueues
     DEF CallInv, Stands, Rests, Early, Heard, Blank
<1>9. MailIsTrue(c)' /\ GuidIsTrue(c)'
  BY <1>1, <1>2, <1>7, EmptyQueues, EmptyFacts
     DEF MailIsTrue, GuidIsTrue, Endings, Methods, Collected, Direct, Blank
<1>10. Follows(c)'
  BY <1>1, <1>3 DEF Follows, OnWay, Inv, CallTypes, Pasts
<1>11. Crossed(c)' /\ TakenOffHasEnded(c)' /\ IdleIsOver(c)' /\ DownloadIsNamed(c)'
  <2>1. past'[c].started = {} /\ past'[c].ended = {}
    BY <1>1, <1>7 DEF Inv, CallTypes, Pasts
  <2> QED
    BY <1>1, <1>7, <2>1 DEF Crossed, TakenOffHasEnded, IdleIsOver, DownloadIsNamed, Blank
<1> QED
  BY <1>3, <1>4, <1>5, <1>8, <1>9, <1>10, <1>11, OwnStep DEF CallInv

LEMMA StartRecorderKeeps ==
  ASSUME Inv, NEW c \in Calls, NEW t \in {"har", "trace", "download"}, StartRecorder(c, t)
  PROVE  Inv'
BY BeginKeeps DEF StartRecorder, Recorders

LEMMA HearLoadKeeps ==
  ASSUME Inv, NEW c \in Calls, HearLoad(c)
  PROVE  Inv'
<1>1. pc[c] = "waiting" /\ UNCHANGED <<tool, book, target, way, emitted, chromeVars>>
  BY DEF HearLoad
<1>2. CASE tool[c] \in {"load", "dcl"} /\ Leave(c, "done") /\ UNCHANGED <<todo, past>>
  <2>1. CallTypes'
    BY <1>1, <1>2 DEF Leave, Inv, CallTypes
  <2>2. ChromeTypes' /\ UNCHANGED <<said, download>>
    BY <1>1, ChromeStays DEF Inv
  <2> QED
    BY <1>1, <1>2, <2>1, <2>2, LeaveKeeps
<1>3. CASE tool[c] \in {"networkidle", "harOfUrl"} /\ BeginRecorder(c, tool[c]) /\ UNCHANGED timer
  <2>1. tool' = [tool EXCEPT ![c] = tool[c]]
    BY <1>1 DEF Inv, CallTypes
  <2> QED
    BY <1>1, <1>3, <2>1, BeginKeeps DEF Recorders
<1> QED
  BY <1>2, <1>3 DEF HearLoad

LEMMA AddSubKeeps ==
  ASSUME Inv, NEW c \in Calls, AddSub(c)
  PROVE  Inv'
<1>1. CallInv(c) /\ pc[c] = "subscribing" /\ todo[c] \in Seq(Methods) /\ tool[c] \in Recorders
  BY DEF AddSub, Inv, CallInv, Stands, CallTypes
<1>2. /\ todo[c] # << >> /\ ToSet(todo[c]) \subseteq Heard(tool[c])
      /\ subs[c] \subseteq Heard(tool[c])
  BY <1>1 DEF CallInv, Stands, Rests
<1> PICK s : s = todo[c]
  OBVIOUS
<1>3. /\ Head(s) \in Methods /\ Head(s) \in Heard(tool[c]) /\ Tail(s) \in Seq(Methods)
      /\ ToSet(Tail(s)) \subseteq Heard(tool[c])
      /\ Len(Tail(s)) = Len(s) - 1 /\ Len(s) \in Nat \ {0}
  BY <1>1, <1>2, TailFacts
<1>4. Tail(s) # << >> <=> Len(s) > 1
  BY <1>3, EmptySeq
<1>5. /\ subs'[c] = subs[c] \cup {Head(s)} /\ todo'[c] = Tail(s)
      /\ UNCHANGED <<tool, inbox, book, past, way>>
      /\ IF Len(s) > 1 THEN UNCHANGED <<pc, timer>>
         ELSE /\ pc'[c] = Subscribed(tool[c])
              /\ timer'[c] = IF tool[c] = "networkidle" THEN "armed" ELSE "off"
  BY DEF AddSub, Inv, CallTypes
<1>6. ChromeTypes' /\ UNCHANGED <<said, download>>
  BY ChromeStays DEF AddSub, Inv
<1>7. CallTypes'
  <2>1. Subscribed(tool[c]) \in {"idling", "recording", "starting", "downloading"}
    BY <1>1 DEF Subscribed, Recorders
  <2> QED
    BY <1>3, <2>1 DEF AddSub, Inv, CallTypes
<1>8. Alone(c)
  BY <1>5, <1>6, QueuesStay DEF Alone, AddSub, Inv, CallTypes
<1>9. Stands(c)' /\ Rests(c)'
  <2>1. CASE Len(s) > 1
    BY <1>1, <1>2, <1>3, <1>4, <1>5, <2>1 DEF CallInv, Stands, Rests, Early
  <2>2. CASE ~(Len(s) > 1)
    <3>1. \/ tool[c] = "networkidle" /\ pc'[c] = "idling" /\ timer'[c] = "armed"
          \/ tool[c] \in {"har", "harOfUrl"} /\ pc'[c] = "recording" /\ timer'[c] = "off"
          \/ tool[c] = "trace" /\ pc'[c] = "starting" /\ timer'[c] = "off"
          \/ tool[c] = "download" /\ pc'[c] = "downloading" /\ timer'[c] = "off"
      BY <1>1, <1>5, <2>2 DEF Subscribed, Recorders
    <3> QED
      BY <1>1, <1>2, <1>3, <1>4, <1>5, <2>2, <3>1 DEF CallInv, Stands, Rests, Early
  <2> QED
    BY <2>1, <2>2
<1>10. MailIsTrue(c)' /\ GuidIsTrue(c)'
  BY <1>1, <1>5, <1>6 DEF CallInv, MailIsTrue, GuidIsTrue
<1>11. Follows(c)' /\ Crossed(c)'
  BY <1>1, <1>5, <1>6 DEF CallInv, Follows, Listening, Crossed, OnWay
<1>12. pc'[c] # "done"
  BY <1>1, <1>5 DEF Subscribed, Recorders
<1>13. TakenOffHasEnded(c)' /\ IdleIsOver(c)' /\ DownloadIsNamed(c)'
  BY <1>1, <1>5, <1>6, <1>12 DEF CallInv, TakenOffHasEnded, IdleIsOver, DownloadIsNamed
<1> QED
  BY <1>6, <1>7, <1>8, <1>9, <1>10, <1>11, <1>13, OwnStep DEF CallInv


LEMMA TimerKeeps ==
  ASSUME Inv, NEW c \in Calls, timer[c] # "off", NEW v \in {"armed", "fired"},
         timer' = [timer EXCEPT ![c] = v],
         UNCHANGED <<pc, tool, todo, subs, inbox, book, past, target, way, emitted, chromeVars>>
  PROVE  Inv'
<1>1. ChromeTypes' /\ UNCHANGED <<said, download>>
  BY ChromeStays DEF Inv
<1>2. CallTypes' /\ timer'[c] # "off" /\ \A d \in Calls \ {c} : timer'[d] = timer[d]
  BY DEF Inv, CallTypes
<1>3. Alone(c)
  BY <1>1, <1>2, QueuesStay DEF Alone
<1>4. CallInv(c)
  BY DEF Inv
<1>5. Stands(c)' /\ Rests(c)'
  BY <1>2, <1>4 DEF CallInv, Stands, Rests
<1>6. MailIsTrue(c)' /\ GuidIsTrue(c)'
  BY <1>1, <1>4 DEF CallInv, MailIsTrue, GuidIsTrue
<1>7. Follows(c)' /\ Crossed(c)' /\ TakenOffHasEnded(c)' /\ IdleIsOver(c)' /\ DownloadIsNamed(c)'
  BY <1>1, <1>4 DEF CallInv, Follows, Listening, OnWay, Crossed, TakenOffHasEnded, IdleIsOver,
                    Over, DownloadIsNamed
<1> QED
  BY <1>1, <1>2, <1>3, <1>5, <1>6, <1>7, OwnStep DEF CallInv

(* A call returns and nothing else happens: the commands that fail, the    *)
(* deadlines, and the timer that finds nothing in flight.                  *)
LEMMA ReturnKeeps ==
  ASSUME Inv, NEW c \in Calls, NEW how \in {"done", "failed"}, Leave(c, how),
         pc[c] \notin {"subscribing", "done"},
         tool[c] = "networkidle" /\ how = "done" => book[c].open = {},
         UNCHANGED <<tool, todo, book, past, target, way, said, download>>, ChromeTypes'
  PROVE  Inv'
<1>1. CallTypes'
  BY DEF Leave, Inv, CallTypes
<1> QED
  BY <1>1, LeaveKeeps

LEMMA ReturnsKeep ==
  ASSUME Inv, NEW c \in Calls,
         TimerFires(c) \/ TimerSeen(c) \/ HarDone(c) \/ TraceDone(c) \/ GiveUp(c)
  PROVE  Inv'
<1>1. CallInv(c)
  BY DEF Inv
<1>2. CASE TimerFires(c)
  BY <1>2, TimerKeeps DEF TimerFires
<1>3. CASE TimerSeen(c)
  <2>1. pc[c] = "idling" /\ timer[c] = "fired" /\ UNCHANGED <<tool, todo, book, past, target, way, emitted, chromeVars>>
    BY <1>1, <1>3 DEF TimerSeen, CallInv, Rests
  <2>2. CASE book[c].open = {} /\ Leave(c, "done")
    <3>1. ChromeTypes' /\ UNCHANGED <<said, download>>
      BY <2>1, ChromeStays DEF Inv
    <3> QED
      BY <2>1, <2>2, <3>1, ReturnKeeps
  <2>3. CASE timer' = [timer EXCEPT ![c] = "armed"] /\ UNCHANGED <<pc, subs, inbox>>
    BY <2>1, <2>3, TimerKeeps
  <2> QED
    BY <1>3, <2>2, <2>3 DEF TimerSeen
<1>4. CASE HarDone(c) \/ TraceDone(c) \/ GiveUp(c)
  <2>1. PICK how \in {"done", "failed"} :
          /\ Leave(c, how) /\ UNCHANGED <<tool, todo, book, past, target, way, emitted, chromeVars>>
          /\ pc[c] \notin {"subscribing", "done"}
          /\ how = "done" => pc[c] \in {"recording", "collecting"}
    BY <1>4 DEF HarDone, TraceDone, GiveUp
  <2>2. ChromeTypes' /\ UNCHANGED <<said, download>>
    BY <2>1, ChromeStays DEF Inv
  <2>3. how = "done" => tool[c] # "networkidle"
    BY <1>1, <2>1 DEF CallInv, Stands
  <2> QED
    BY <2>1, <2>2, <2>3, ReturnKeeps
<1> QED
  BY <1>2, <1>3, <1>4

LEMMA TraceKeeps ==
  ASSUME Inv, NEW c \in Calls, StartTrace(c) \/ EndTrace(c)
  PROVE  Inv'
<1>1. CASE StartTrace(c)
  <2>1. ChromeTypes' /\ UNCHANGED <<said, download>>
    BY <1>1 DEF StartTrace, Inv, ChromeTypes, docVars
  <2> QED
    BY <1>1, <2>1, GoKeeps DEF StartTrace
<1>2. CASE EndTrace(c)
  <2>1. ChromeTypes' /\ UNCHANGED <<said, download>>
    BY <1>2 DEF EndTrace, Inv, ChromeTypes, docVars
  <2>2. pc[c] = "tracing" /\ UNCHANGED <<tool, todo, book, past, target, way>>
    BY <1>2 DEF EndTrace
  <2>3. CASE Go(c, "tracing", "collecting") /\ UNCHANGED <<subs, inbox, timer>>
    BY <2>1, <2>2, <2>3, GoKeeps
  <2>4. CASE Leave(c, "failed")
    BY <2>1, <2>2, <2>4, ReturnKeeps
  <2> QED
    BY <1>2, <2>3, <2>4 DEF EndTrace
<1> QED
  BY <1>1, <1>2

-------------------------------------------------------------------------------
(* A recorder takes an event from one of its channels.                     *)

LEMMA NotedFacts ==
  ASSUME NEW b \in Books, NEW m \in {"willBeSent", "finished", "failed", "response", "dataCollected"},
         NEW x \in Payload(m), NEW n, n = Noted(b, m, x)
  PROVE  /\ n \in Books /\ n.guid = b.guid /\ n.file = b.file /\ n.size = b.size
         /\ m = "willBeSent" => n.open = b.open \cup {x}
         /\ m \in Endings => n.open = b.open \ {x}
         /\ m = "dataCollected" => n.open = b.open
<1>0. /\ m # "dataCollected" => x \in Requests
      /\ m = "dataCollected" => x = Chunk
  BY DEF Payload, Direct
<1>1. CASE m = "willBeSent"
  <2>1. n = [b EXCEPT !.open = @ \cup {x}, !.answered = @ \ {x}]
    BY <1>1 DEF Noted
  <2>2. /\ DOMAIN n = DOMAIN b /\ n.open = b.open \cup {x} /\ n.answered = b.answered \ {x}
        /\ n.data = b.data /\ n.guid = b.guid /\ n.file = b.file /\ n.size = b.size
    BY <2>1 DEF Books
  <2>3. n \in Books
    <3>1. b.open \cup {x} \in SUBSET Requests /\ b.answered \ {x} \in SUBSET Requests
      BY <1>0, <1>1 DEF Books
    <3>2. n = [b EXCEPT !.open = b.open \cup {x}, !.answered = b.answered \ {x}]
      BY <2>1
    <3> QED
      BY <3>1, <3>2 DEF Books
  <2> QED
    BY <1>1, <2>2, <2>3 DEF Endings
<1>2. CASE m \in {"finished", "failed"}
  <2>1. n = [b EXCEPT !.open = @ \ {x}]
    BY <1>2 DEF Noted
  <2> QED
    BY <1>0, <1>2, <2>1 DEF Books, Endings
<1>3. CASE m = "response"
  <2>1. n = [b EXCEPT !.open = @ \ {x}, !.answered = @ \cup ({x} \cap b.open)]
    BY <1>3 DEF Noted
  <2> QED
    BY <1>0, <1>3, <2>1 DEF Books, Endings
<1>4. CASE m = "dataCollected"
  <2>1. n = [b EXCEPT !.data = @ \cup {x}]
    BY <1>4 DEF Noted
  <2> QED
    BY <1>0, <1>4, <2>1 DEF Books, Endings
<1> QED
  BY <1>1, <1>2, <1>3, <1>4

LEMMA EndsAreEndings == \A t : Ends(t) \subseteq Endings /\ "willBeSent" \notin Ends(t)
BY DEF Ends, Endings

LEMMA TakenFacts ==
  ASSUME NEW p \in Pasts, NEW t, NEW m, NEW x \in Requests, NEW n, n = Taken(p, t, m, x),
         m = "willBeSent" \/ m \in Ends(t)
  PROVE  /\ n \in Pasts
         /\ m = "willBeSent" => /\ n.started = p.started \cup {x} /\ n.ended = p.ended
                                /\ n.missed = p.missed \cup ({x} \cap p.ended)
         /\ m # "willBeSent" => /\ n.started = p.started /\ n.missed = p.missed
                                /\ n.ended = p.ended \cup {x}
<1>1. CASE m = "willBeSent"
  <2>1. n = [p EXCEPT !.started = @ \cup {x}, !.missed = @ \cup ({x} \cap p.ended)]
    BY <1>1, EndsAreEndings DEF Taken
  <2> QED
    BY <1>1, <2>1 DEF Pasts
<1>2. CASE m # "willBeSent" /\ m \in Ends(t)
  <2>1. n = [p EXCEPT !.ended = @ \cup {x}]
    BY <1>2, EndsAreEndings DEF Taken
  <2> QED
    BY <1>2, <2>1 DEF Pasts
<1> QED
  BY <1>1, <1>2

LEMMA EndingsFacts ==
  /\ Endings \subseteq Methods /\ "downloadWillBegin" \in Methods
  /\ \A m \in Endings \cup {"willBeSent"} : m \in Methods /\ m \in Collected /\ Payload(m) = Requests
  /\ \A m \in Direct : m \in Methods /\ Payload(m) = Downloads
BY DEF Endings, Methods, Collected, Direct, Payload

LEMMA HearKeeps ==
  ASSUME Inv, NEW c \in Calls, NEW m \in Methods, Hear(c, m)
  PROVE  Inv'
<1>1. /\ CallInv(c) /\ pc[c] \in {"idling", "recording", "collecting"} /\ inbox[c][m] # << >>
      /\ UNCHANGED <<pc, tool, todo, subs, target, way, emitted, chromeVars>>
  BY DEF Hear, Inv
<1>2. m \in subs[c] /\ subs[c] \subseteq Heard(tool[c])
  BY <1>1 DEF CallInv, Rests, Stands
<1>3. \/ tool[c] = "networkidle" /\ m \in {"willBeSent", "finished", "failed"} /\ pc[c] = "idling"
      \/ tool[c] \in {"har", "harOfUrl"} /\ m \in {"willBeSent", "response"} /\ pc[c] = "recording"
      \/ tool[c] = "trace" /\ m = "dataCollected" /\ pc[c] = "collecting"
  <2>1. m # "tracingComplete"
    BY DEF Hear
  <2> QED
    BY <1>1, <1>2, <2>1, HeardFacts DEF CallInv, Stands
<1> PICK q : q = Took(inbox[c], m)
  OBVIOUS
<1> PICK x : x = Head(inbox[c][m])
  OBVIOUS
<1> PICK b : b = Noted(book[c], m, x)
  OBVIOUS
<1> PICK p : p = Taken(past[c], tool[c], m, x)
  OBVIOUS
<1>4. /\ IsQueues(q) /\ x \in Payload(m) /\ x \in ToSet(inbox[c][m])
      /\ ToSet(inbox[c][m]) = ToSet(q[m]) \cup {x}
      /\ \A n \in Methods : /\ n # m => q[n] = inbox[c][n]
                            /\ ToSet(q[n]) \subseteq ToSet(inbox[c][n])
  BY <1>1, QueueTake DEF Inv, QueueTypes, IsQueues
<1>5. inbox' = [inbox EXCEPT ![c] = q]
  BY DEF Hear, Took
<1>6. /\ inbox' = [d \in Calls |-> inbox'[d]] /\ IsQueues(inbox[c])' /\ inbox'[c] = q
      /\ \A d \in Calls \ {c} : inbox'[d] = inbox[d]
  BY <1>4, <1>5, QueuesSet
<1>7. /\ b \in Books /\ b.guid = book[c].guid /\ b.file = book[c].file /\ b.size = book[c].size
      /\ m = "willBeSent" => b.open = book[c].open \cup {x}
      /\ m \in Endings => b.open = book[c].open \ {x}
      /\ m = "dataCollected" => b.open = book[c].open
  BY <1>3, <1>4, NotedFacts DEF Inv, CallTypes, Endings
<1>8. past[c] \in Pasts
  BY DEF Inv, CallTypes
<1>9. m \in {"willBeSent", "dataCollected"} \/ m \in Ends(tool[c])
  BY <1>3 DEF Ends
<1>10. /\ p \in Pasts
       /\ m = "willBeSent" => /\ p.started = past[c].started \cup {x} /\ p.ended = past[c].ended
                              /\ p.missed = past[c].missed \cup ({x} \cap past[c].ended)
       /\ m \in Ends(tool[c]) => /\ p.started = past[c].started /\ p.missed = past[c].missed
                                 /\ p.ended = past[c].ended \cup {x}
       /\ m = "dataCollected" => p = past[c]
  <2>1. CASE m = "dataCollected"
    BY <1>8, <2>1, EndsAreEndings DEF Taken, Endings
  <2>2. CASE m = "willBeSent" \/ m \in Ends(tool[c])
    <3>1. x \in Requests
      BY <1>4, <2>2, EndingsFacts, EndsAreEndings
    <3> QED
      BY <1>8, <2>2, <3>1, TakenFacts, EndsAreEndings DEF Endings
  <2> QED
    BY <1>9, <2>1, <2>2
<1>11. /\ book' = [book EXCEPT ![c] = b] /\ past' = [past EXCEPT ![c] = p]
       /\ timer' = IF tool[c] = "networkidle" /\ b.open = {}
                   THEN [timer EXCEPT ![c] = "armed"] ELSE timer
  BY DEF Hear
<1>12. /\ book'[c] = b /\ past'[c] = p /\ \A d \in Calls \ {c} : book'[d] = book[d] /\ past'[d] = past[d]
       /\ timer'[c] = timer[c] \/ (pc[c] = "idling" /\ timer'[c] = "armed")
       /\ \A d \in Calls \ {c} : timer'[d] = timer[d]
  BY <1>3, <1>11 DEF Inv, CallTypes
<1>13. CallTypes'
  BY <1>1, <1>7, <1>10, <1>11 DEF Inv, CallTypes
<1>14. ChromeTypes' /\ UNCHANGED <<said, download>>
  BY <1>1, ChromeStays DEF Inv
<1>15. Alone(c)
  BY <1>1, <1>6, <1>12, <1>14 DEF Alone
<1>16. Stands(c)' /\ Rests(c)'
  BY <1>1, <1>2, <1>4, <1>6, <1>7, <1>12 DEF CallInv, Stands, Rests, Early
<1>17. MailIsTrue(c)' /\ GuidIsTrue(c)'
  BY <1>1, <1>4, <1>6, <1>7, <1>12, <1>14, EndingsFacts DEF CallInv, MailIsTrue, GuidIsTrue
<1>18. Follows(c)'
  <2> SUFFICES ASSUME NEW n \in Ends(tool[c]), NEW r \in Requests, n \in said[r], Listening(c)
               PROVE  r \in ToSet(way[n]) \cup ToSet(q[n]) \cup p.ended \cup p.missed
    BY <1>1, <1>6, <1>12, <1>14 DEF Follows, OnWay, Listening
  <2>1. r \in ToSet(way[n]) \cup ToSet(inbox[c][n]) \cup past[c].ended \cup past[c].missed
    BY <1>1 DEF CallInv, Follows, OnWay
  <2>2. past[c].ended \subseteq p.ended /\ past[c].missed \subseteq p.missed
    BY <1>9, <1>10
  <2>3. n = m => x \in p.ended
    BY <1>10
  <2>4. n # m => q[n] = inbox[c][n]
    BY <1>4, EndsAreEndings, EndingsFacts
  <2> QED
    BY <1>4, <2>1, <2>2, <2>3, <2>4
<1>19. Crossed(c)'
  BY <1>1, <1>7, <1>9, <1>10, <1>12, EndsAreEndings DEF CallInv, Crossed, Endings
<1>20. TakenOffHasEnded(c)'
  <2>1. m \in Ends(tool[c]) => m \in said[x]
    BY <1>1, <1>4, EndsAreEndings DEF CallInv, MailIsTrue
  <2> QED
    BY <1>1, <1>7, <1>9, <1>10, <1>12, <1>14, <2>1, EndsAreEndings
       DEF CallInv, TakenOffHasEnded, Endings
<1>21. IdleIsOver(c)' /\ DownloadIsNamed(c)'
  BY <1>1, <1>7, <1>12, <1>14 DEF CallInv, IdleIsOver, DownloadIsNamed
<1> QED
  BY <1>13, <1>14, <1>15, <1>16, <1>17, <1>18, <1>19, <1>20, <1>21, OwnStep DEF CallInv


-------------------------------------------------------------------------------
(* The recorder of downloads.                                              *)

LEMMA HearBeginKeeps ==
  ASSUME Inv, NEW c \in Calls, HearBegin(c)
  PROVE  Inv'
<1>1. /\ CallInv(c) /\ pc[c] = "downloading" /\ inbox[c]["downloadWillBegin"] # << >>
      /\ UNCHANGED <<pc, tool, todo, subs, timer, past, target, way, emitted, chromeVars>>
  BY DEF HearBegin, Inv
<1> PICK q : q = Took(inbox[c], "downloadWillBegin")
  OBVIOUS
<1> PICK x : x = Head(inbox[c]["downloadWillBegin"])
  OBVIOUS
<1> PICK b : b = [book[c] EXCEPT !.guid = x]
  OBVIOUS
<1>2. /\ IsQueues(q) /\ x \in Downloads /\ x \in ToSet(inbox[c]["downloadWillBegin"])
      /\ \A n \in Methods : /\ n # "downloadWillBegin" => q[n] = inbox[c][n]
                            /\ ToSet(q[n]) \subseteq ToSet(inbox[c][n])
  <2>1. "downloadWillBegin" \in Methods /\ Payload("downloadWillBegin") = Downloads
    BY EndingsFacts DEF Direct
  <2>2. IsQueues(inbox[c])
    BY DEF Inv, QueueTypes
  <2> QED
    BY <1>1, <2>1, <2>2, QueueTake DEF IsQueues
<1>3. inbox' = [inbox EXCEPT ![c] = q] /\ book' = [book EXCEPT ![c] = b]
  BY DEF HearBegin, Took
<1>4. /\ inbox' = [d \in Calls |-> inbox'[d]] /\ IsQueues(inbox[c])' /\ inbox'[c] = q
      /\ \A d \in Calls \ {c} : inbox'[d] = inbox[d]
  BY <1>2, <1>3, QueuesSet
<1>5. /\ b \in Books /\ b.open = book[c].open /\ b.size = book[c].size /\ b.file = book[c].file
      /\ b.guid = x
  <2>1. book[c] \in Books
    BY DEF Inv, CallTypes
  <2>2. x \in Downloads
    BY <1>2
  <2> QED
    BY <2>1, <2>2 DEF Books
<1>6. book'[c] = b /\ \A d \in Calls \ {c} : book'[d] = book[d]
  BY <1>3 DEF Inv, CallTypes
<1>7. CallTypes'
  BY <1>1, <1>3, <1>5 DEF Inv, CallTypes
<1>8. ChromeTypes' /\ UNCHANGED <<said, download>>
  BY <1>1, ChromeStays DEF Inv
<1>9. Alone(c)
  BY <1>1, <1>4, <1>6, <1>8 DEF Alone
<1>10. Stands(c)' /\ Rests(c)'
  BY <1>1, <1>2, <1>4, <1>5, <1>6 DEF CallInv, Stands, Rests, Early
<1>11. MailIsTrue(c)' /\ GuidIsTrue(c)'
  BY <1>1, <1>2, <1>4, <1>5, <1>6, <1>8, EndingsFacts DEF CallInv, MailIsTrue, GuidIsTrue
<1>12. Follows(c)' /\ Crossed(c)' /\ TakenOffHasEnded(c)' /\ IdleIsOver(c)' /\ DownloadIsNamed(c)'
  BY <1>1, <1>5, <1>6, <1>8 DEF CallInv, Follows, Listening, Crossed, TakenOffHasEnded, IdleIsOver,
                                Over, DownloadIsNamed
<1> QED
  BY <1>7, <1>8, <1>9, <1>10, <1>11, <1>12, OwnStep DEF CallInv

LEMMA DownloadEndsKeeps ==
  ASSUME Inv, NEW c \in Calls, DownloadEnds(c)
  PROVE  Inv'
<1>1. /\ CallInv(c) /\ pc[c] = "downloading" /\ inbox[c]["downloadProgress"] # << >>
      /\ UNCHANGED <<tool, todo, past, target, way, emitted, chromeVars>>
  BY DEF DownloadEnds, Inv
<1>2. ChromeTypes' /\ UNCHANGED <<said, download>>
  BY <1>1, ChromeStays DEF Inv
<1>3. CASE Leave(c, "failed") /\ UNCHANGED book
  BY <1>1, <1>2, <1>3, ReturnKeeps
<1>4. ASSUME NEW d, d = Head(inbox[c]["downloadProgress"]), download[d] = "completed",
             book' = [book EXCEPT ![c].size = d,
                        ![c].file = IF @ = NoDownload /\ book[c].guid = NoDownload
                                    THEN d ELSE book[c].guid],
             Leave(c, "done")
      PROVE  Inv'
  <2>1. d \in Downloads
    <3>1. "downloadProgress" \in Methods /\ Payload("downloadProgress") = Downloads
      BY EndingsFacts DEF Direct
    <3>2. IsQueues(inbox[c])
      BY DEF Inv, QueueTypes
    <3> QED
      BY <1>1, <1>4, <3>1, <3>2, QueueTake DEF IsQueues
  <2>2. /\ book[c] \in Books /\ book[c].file = NoDownload
        /\ book[c].guid # NoDownload => book[c].guid \in Downloads /\ download[book[c].guid] # "new"
    BY <1>1 DEF CallInv, Stands, GuidIsTrue, Inv, CallTypes, Books
  <2> PICK b : b = [book[c] EXCEPT !.size = d, !.file = IF book[c].guid = NoDownload THEN d
                                                        ELSE book[c].guid]
    OBVIOUS
  <2>3. /\ b \in Books /\ b.size = d /\ b.guid = book[c].guid /\ b.open = book[c].open
        /\ b.file = IF book[c].guid = NoDownload THEN d ELSE book[c].guid
    BY <2>1, <2>2 DEF Books
  <2>4. book' = [book EXCEPT ![c] = b]
    BY <1>4, <2>2 DEF Inv, CallTypes
  <2>5. /\ book'[c] = b /\ pc'[c] = "done" /\ subs'[c] = {} /\ timer'[c] = "off"
        /\ inbox' = [inbox EXCEPT ![c] = Empty]
    BY <1>4, <2>4 DEF Leave, Inv, CallTypes
  <2>6. /\ inbox' = [e \in Calls |-> inbox'[e]] /\ IsQueues(inbox[c])' /\ inbox'[c] = Empty
        /\ \A e \in Calls \ {c} : inbox'[e] = inbox[e]
    BY <2>5, EmptyQueues, QueuesSet
  <2>7. CallTypes'
    <3>1. book' \in [Calls -> Books]
      BY <2>3, <2>4 DEF Inv, CallTypes
    <3>2. Leave(c, "done") /\ UNCHANGED <<tool, todo, past, target>>
      BY <1>1, <1>4
    <3> QED
      BY <3>1, <3>2 DEF Leave, Inv, CallTypes
  <2>8. Alone(c)
    BY <1>1, <1>2, <1>4, <2>4, <2>6 DEF Alone, Leave, Inv, CallTypes
  <2>9. Stands(c)' /\ Rests(c)'
    BY <1>1, <2>5, <2>6, EmptyQueues DEF CallInv, Stands, Rests, Early
  <2>10. MailIsTrue(c)' /\ GuidIsTrue(c)'
    BY <1>1, <1>2, <2>3, <2>5, <2>6, EmptyQueues, EmptyFacts, EndingsFacts
       DEF CallInv, MailIsTrue, GuidIsTrue
  <2>11. Follows(c)' /\ Crossed(c)' /\ TakenOffHasEnded(c)' /\ IdleIsOver(c)'
    BY <1>1, <1>2, <2>3, <2>5 DEF CallInv, Stands, Follows, Listening, Crossed, TakenOffHasEnded,
                                  IdleIsOver
  <2>12. DownloadIsNamed(c)'
    <3>1. download'[d] = "completed" /\ download' = download
      BY <1>2, <1>4
    <3>2. book[c].guid = NoDownload \/ (book[c].guid \in Downloads /\ download'[book[c].guid] # "new")
      BY <2>2, <3>1
    <3>3. b.file = d \/ \E e \in Downloads \ {d} : download'[e] # "new"
      BY <2>3, <3>2
    <3> QED
      BY <2>3, <2>5, <3>1, <3>3 DEF DownloadIsNamed
  <2> QED
    BY <1>2, <2>7, <2>8, <2>9, <2>10, <2>11, <2>12, OwnStep DEF CallInv
<1> QED
  BY <1>3, <1>4 DEF DownloadEnds

-------------------------------------------------------------------------------
(* Chrome, and the way its events take.                                    *)

LEMMA PassedByFacts ==
  ASSUME CallTypes, NEW m \in Methods, NEW x \in Payload(m), PassedBy(m, x)
  PROVE  /\ past' \in [Calls -> Pasts]
         /\ \A c \in Calls :
              /\ past'[c].started = past[c].started /\ past'[c].ended = past[c].ended
              /\ past[c].missed \subseteq past'[c].missed
              /\ Listening(c) /\ m \in Ends(tool[c]) =>
                   x \in ToSet(inbox'[c][m]) \cup past'[c].missed
<1> SUFFICES ASSUME NEW c \in Calls
             PROVE  /\ past'[c] \in Pasts
                    /\ past'[c].started = past[c].started /\ past'[c].ended = past[c].ended
                    /\ past[c].missed \subseteq past'[c].missed
                    /\ Listening(c) /\ m \in Ends(tool[c]) =>
                         x \in ToSet(inbox'[c][m]) \cup past'[c].missed
  BY DEF PassedBy
<1>1. past[c] \in Pasts
  BY DEF CallTypes
<1>2. past'[c] = IF m \in Heeds(c) /\ x \notin ToSet(inbox'[c][m])
                 THEN [past[c] EXCEPT !.missed = @ \cup {x}] ELSE past[c]
  BY DEF PassedBy
<1>3. m \in Heeds(c) => x \in Requests \cup {"load", "dcl"}
  <2>1. m \in Ends(tool[c]) => x \in Requests
    BY EndsAreEndings, EndingsFacts
  <2>2. m = Awaited(tool[c]) => x \in {"load", "dcl"}
    BY DEF Awaited, Payload, Direct
  <2>3. m \in Heeds(c) => m \in Ends(tool[c]) \/ m = Awaited(tool[c])
    BY DEF Heeds
  <2> QED
    BY <2>1, <2>2, <2>3
<1>4. Listening(c) => Heeds(c) = Ends(tool[c])
  BY DEF Heeds, Listening
<1>5. \/ past'[c] = past[c]
      \/ past'[c] = [past[c] EXCEPT !.missed = @ \cup {x}] /\ x \in Requests \cup {"load", "dcl"}
  BY <1>2, <1>3
<1>6. /\ past'[c] \in Pasts
      /\ past'[c].started = past[c].started /\ past'[c].ended = past[c].ended
      /\ past[c].missed \subseteq past'[c].missed
  BY <1>1, <1>5 DEF Pasts
<1>7. m \in Heeds(c) => x \in ToSet(inbox'[c][m]) \cup past'[c].missed
  BY <1>1, <1>2 DEF Pasts
<1> QED
  BY <1>4, <1>6, <1>7

(* A call that only an event and its way concern.                          *)
LEMMA EventPasses ==
  ASSUME Inv, NEW c \in Calls, NEW m \in Methods, NEW x \in Payload(m),
         pc'[c] = pc[c], tool'[c] = tool[c], todo'[c] = todo[c], subs'[c] = subs[c],
         timer'[c] = timer[c], book'[c] = book[c],
         past'[c].started = past[c].started, past'[c].ended = past[c].ended,
         past[c].missed \subseteq past'[c].missed,
         inbox'[c] = inbox[c] \/ (m \in subs[c] /\ inbox'[c] = Put(inbox[c], m, x)),
         \A n \in Endings, r \in Requests : n \in said'[r] <=> n \in said[r] \/ (n = m /\ r = x),
         \A d \in Downloads : /\ download[d] # "new" => download'[d] # "new"
                              /\ download[d] = "completed" => download'[d] = "completed",
         m = "downloadWillBegin" => download'[x] # "new",
         inbox'[c] # inbox[c] /\ m \in Endings => m \in said'[x],
         \A n \in Ends(tool[c]), r \in Requests :
           n \in said'[r] /\ Listening(c) =>
             \/ r \in ToSet(way'[n]) \cup ToSet(inbox'[c][n]) \cup past'[c].missed
             \/ n \in said[r] /\ r \notin OnWay(c, n)
  PROVE  CallInv(c)'
<1>1. CallInv(c) /\ IsQueues(inbox[c]) /\ book[c] \in Books /\ past[c] \in Pasts
  BY DEF Inv, QueueTypes, CallTypes
<1>2. Stands(c)' /\ Rests(c)'
  <2>1. Stands(c)'
    BY <1>1 DEF CallInv, Stands, Early, Listening
  <2>2. \A n \in Methods \ subs[c] : inbox'[c][n] = inbox[c][n]
    BY <1>1, QueuePut
  <2> QED
    BY <1>1, <2>1, <2>2 DEF CallInv, Rests
<1>3. \A n \in Methods : /\ n # m => inbox'[c][n] = inbox[c][n]
                         /\ ToSet(inbox'[c][n]) \subseteq ToSet(inbox[c][n]) \cup {x}
                         /\ n # m => ToSet(inbox'[c][n]) \subseteq ToSet(inbox[c][n])
  <2>1. CASE inbox'[c] = inbox[c]
    BY <2>1
  <2>2. CASE inbox'[c] = Put(inbox[c], m, x)
    <3>1. /\ \A n \in Methods : n # m => Put(inbox[c], m, x)[n] = inbox[c][n]
          /\ ToSet(Put(inbox[c], m, x)[m]) \subseteq ToSet(inbox[c][m]) \cup {x}
      <4> PICK s : s = inbox[c]
        OBVIOUS
      <4>1. IsQueues(s)
        BY <1>1
      <4>2. \A n \in Methods : n # m => Put(s, m, x)[n] = s[n]
        BY <4>1, QueuePut
      <4>3. ToSet(Put(s, m, x)[m]) \subseteq ToSet(s[m]) \cup {x}
        BY <4>1, QueuePut
      <4> QED
        BY <4>2, <4>3
    <3> SUFFICES ASSUME NEW n \in Methods
                 PROVE  /\ n # m => Put(inbox[c], m, x)[n] = inbox[c][n]
                        /\ ToSet(Put(inbox[c], m, x)[n]) \subseteq ToSet(inbox[c][n]) \cup {x}
                        /\ n # m => ToSet(Put(inbox[c], m, x)[n]) \subseteq ToSet(inbox[c][n])
      BY <2>2
    <3>2. CASE n = m
      BY <3>1, <3>2
    <3>3. CASE n # m
      <4>1. Put(inbox[c], m, x)[n] = inbox[c][n]
        BY <3>1, <3>3
      <4> QED
        BY <3>3, <4>1
    <3> QED
      BY <3>2, <3>3
  <2> QED
    BY <2>1, <2>2
<1>4. /\ \A n \in Methods : ToSet(inbox[c][n]) \subseteq Payload(n)
      /\ \A n \in Endings : ToSet(inbox[c][n]) \subseteq Requests
  <2>1. \A n \in Methods : ToSet(inbox[c][n]) \subseteq Payload(n)
    <3> SUFFICES ASSUME NEW n \in Methods PROVE ToSet(inbox[c][n]) \subseteq Payload(n)
      OBVIOUS
    <3>1. inbox[c][n] \in Seq(Payload(n))
      BY <1>1 DEF IsQueues, IsWay
    <3> QED
      BY <3>1 DEF ToSet
  <2> QED
    BY <2>1, EndingsFacts
<1>5. MailIsTrue(c)' /\ GuidIsTrue(c)'
  <2>1. ASSUME NEW n \in Endings, NEW r \in ToSet(inbox'[c][n]) PROVE n \in said'[r]
    <3>1. n \in Methods
      BY EndingsFacts
    <3>2. CASE r \in ToSet(inbox[c][n])
      BY <1>1, <1>4, <3>2 DEF CallInv, MailIsTrue
    <3>3. CASE r \notin ToSet(inbox[c][n])
      BY <1>3, <2>1, <3>1, <3>3
    <3> QED
      BY <3>2, <3>3
  <2>2. ASSUME NEW d \in ToSet(inbox'[c]["downloadWillBegin"]) PROVE download'[d] # "new"
    <3>1. ToSet(inbox[c]["downloadWillBegin"]) \subseteq Downloads
      BY <1>4, EndingsFacts DEF Payload, Direct
    <3>2. CASE d \in ToSet(inbox[c]["downloadWillBegin"])
      BY <1>1, <3>1, <3>2 DEF CallInv, MailIsTrue
    <3>3. CASE d \notin ToSet(inbox[c]["downloadWillBegin"])
      BY <1>3, <2>2, <3>3, EndingsFacts
    <3> QED
      BY <3>2, <3>3
  <2>3. GuidIsTrue(c)'
    BY <1>1 DEF CallInv, GuidIsTrue, Books
  <2> QED
    BY <2>1, <2>2, <2>3 DEF MailIsTrue
<1>6. Follows(c)'
  <2> SUFFICES ASSUME NEW n \in Ends(tool[c]), NEW r \in Requests, n \in said'[r], Listening(c)
               PROVE  r \in ToSet(way'[n]) \cup ToSet(inbox'[c][n]) \cup past'[c].ended \cup past'[c].missed
    BY DEF Follows, Listening, OnWay
  <2>1. n \in said[r] /\ r \notin OnWay(c, n) => r \in past[c].ended \cup past[c].missed
    BY <1>1 DEF CallInv, Follows
  <2> QED
    BY <2>1
<1>7. Crossed(c)'
  BY <1>1 DEF CallInv, Crossed
<1>8. TakenOffHasEnded(c)' /\ IdleIsOver(c)'
  BY <1>1, EndsAreEndings DEF CallInv, TakenOffHasEnded, IdleIsOver, Over, Endings, Pasts
<1>9. DownloadIsNamed(c)'
  BY <1>1 DEF CallInv, DownloadIsNamed, Books
<1> QED
  BY <1>2, <1>5, <1>6, <1>7, <1>8, <1>9 DEF CallInv


(* The pump takes an event over from Chrome.                               *)
LEMMA EmitKeeps ==
  ASSUME Inv, NEW m \in Methods, NEW x \in Payload(m), Emit(m, x), ChromeTypes',
         \A n \in Endings, r \in Requests : n \in said'[r] <=> n \in said[r] \/ (n = m /\ r = x),
         \A d \in Downloads : /\ download[d] # "new" => download'[d] # "new"
                              /\ download[d] = "completed" => download'[d] = "completed",
         m = "downloadWillBegin" => download'[x] # "new"
  PROVE  Inv'
<1>0. PICK got \in SUBSET {c \in Calls : m \in Direct \cap subs[c]} :
        inbox' = [c \in Calls |-> IF c \in got THEN Put(inbox[c], m, x) ELSE inbox[c]]
  BY DEF Emit, Put
<1>1. /\ way' = IF m \in Collected THEN [way EXCEPT ![m] = Append(@, x)] ELSE way
      /\ UNCHANGED <<pc, tool, todo, subs, timer, book, past, target>>
  BY DEF Emit
<1>3. CallTypes'
  BY <1>1 DEF Inv, CallTypes
<1>4. /\ IsWay(way')
      /\ \A n \in Methods : /\ ToSet(way[n]) \subseteq ToSet(way'[n])
                            /\ n # m => way'[n] = way[n]
      /\ ToSet(way'[m]) \subseteq ToSet(way[m]) \cup {x}
      /\ m \in Collected => x \in ToSet(way'[m])
  <2>1. IsWay(way)
    BY DEF Inv, QueueTypes
  <2>2. CASE m \in Collected
    <3>1. way' = [way EXCEPT ![m] = Append(@, x)]
      BY <1>1, <2>2
    <3>2. way'[m] = Append(way[m], x) /\ \A n \in Methods \ {m} : way'[n] = way[n]
      BY <2>1, <3>1 DEF IsWay
    <3>3. way' = [n \in Methods |-> way'[n]] /\ way[m] \in Seq(Payload(m))
      BY <2>1, <3>1 DEF IsWay
    <3>4. way'[m] \in Seq(Payload(m)) /\ ToSet(way'[m]) = ToSet(way[m]) \cup {x}
      BY <3>2, <3>3, AppendFacts
    <3> QED
      BY <2>1, <3>2, <3>3, <3>4 DEF IsWay
  <2>3. CASE m \notin Collected
    BY <1>1, <2>1, <2>3
  <2> QED
    BY <2>2, <2>3
<1>5. QueueTypes'
  <2>1. ASSUME NEW c \in Calls PROVE IsQueues(inbox'[c])
    <3>1. IsQueues(inbox[c]) /\ IsQueues(Put(inbox[c], m, x))
      BY QueuePut DEF Inv, QueueTypes
    <3> QED
      BY <1>0, <3>1
  <2>2. inbox' = [c \in Calls |-> inbox'[c]]
    BY <1>0
  <2> QED
    BY <1>4, <2>1, <2>2 DEF QueueTypes, IsQueues, IsWay
<1>6. WayIsTrue'
  <2> SUFFICES ASSUME NEW n \in Endings, NEW r \in ToSet(way'[n]) PROVE n \in said'[r]
    BY DEF WayIsTrue
  <2>1. n \in Methods /\ Payload(n) = Requests
    BY EndingsFacts
  <2>2. r \in Requests
    <3>1. way'[n] \in Seq(Payload(n))
      BY <1>4, <2>1 DEF IsWay
    <3> QED
      BY <2>1, <3>1 DEF ToSet
  <2>3. r \in ToSet(way[n]) => n \in said[r]
    BY DEF Inv, WayIsTrue
  <2> QED
    BY <1>4, <2>1, <2>2, <2>3
<1>7. ASSUME NEW c \in Calls PROVE CallInv(c)'
  <2>1. /\ inbox'[c] = inbox[c] \/ (m \in subs[c] /\ inbox'[c] = Put(inbox[c], m, x))
        /\ m \in Endings => inbox'[c] = inbox[c]
    <3>1. c \in got => m \in Direct /\ m \in subs[c]
      BY <1>0
    <3> QED
      BY <1>0, <3>1 DEF Endings, Direct
  <2>2. ASSUME NEW n \in Ends(tool[c]), NEW r \in Requests, n \in said'[r], Listening(c)
        PROVE  \/ r \in ToSet(way'[n]) \cup ToSet(inbox'[c][n]) \cup past'[c].missed
               \/ n \in said[r] /\ r \notin OnWay(c, n)
    <3>1. n \in Endings /\ n \in Methods /\ n \in Collected
      BY EndsAreEndings, EndingsFacts
    <3>2. ToSet(inbox[c][n]) \subseteq ToSet(inbox'[c][n])
      <4>1. IsQueues(inbox[c])
        BY DEF Inv, QueueTypes
      <4> QED
        BY <2>1, <3>1, <4>1, QueuePut
    <3>3. CASE n \in said[r]
      BY <1>4, <3>1, <3>2, <3>3 DEF OnWay
    <3>4. CASE n = m /\ r = x
      BY <1>4, <3>1, <3>4
    <3> QED
      BY <2>2, <3>1, <3>3, <3>4
  <2>3. /\ pc'[c] = pc[c] /\ tool'[c] = tool[c] /\ todo'[c] = todo[c] /\ subs'[c] = subs[c]
        /\ timer'[c] = timer[c] /\ book'[c] = book[c] /\ past'[c] = past[c]
    BY <1>1
  <2> QED
    BY <2>1, <2>2, <2>3, EventPasses
<1> QED
  BY <1>3, <1>5, <1>6, <1>7 DEF Inv

(* The collector of a method fans an event out.                            *)
LEMMA DeliverKeeps ==
  ASSUME Inv, NEW m \in Collected, Deliver(m)
  PROVE  Inv'
<1> PICK x : x = Head(way[m])
  OBVIOUS
<1>1. /\ m \in Methods /\ way[m] # << >> /\ way' = Took(way, m) /\ PassedBy(m, x)
      /\ inbox' = [c \in Calls |-> IF m \in subs[c] THEN Put(inbox[c], m, x) ELSE inbox[c]]
      /\ UNCHANGED <<pc, tool, todo, subs, timer, book, target, emitted, chromeVars>>
  BY DEF Deliver, Took, Put, Methods
<1>2. /\ IsWay(way') /\ x \in Payload(m) /\ x \in ToSet(way[m])
      /\ ToSet(way[m]) = ToSet(way'[m]) \cup {x}
      /\ \A n \in Methods : /\ n # m => way'[n] = way[n]
                            /\ ToSet(way'[n]) \subseteq ToSet(way[n])
  <2>1. IsWay(way)
    BY DEF Inv, QueueTypes
  <2>2. /\ IsWay(Took(way, m))
        /\ Head(way[m]) \in Payload(m) /\ Head(way[m]) \in ToSet(way[m])
        /\ ToSet(way[m]) = ToSet(Took(way, m)[m]) \cup {Head(way[m])}
        /\ \A n \in Methods : /\ n # m => Took(way, m)[n] = way[n]
                              /\ ToSet(Took(way, m)[n]) \subseteq ToSet(way[n])
    BY <1>1, <2>1, QueueTake
  <2> QED
    BY <1>1, <2>2
<1>4. /\ past' \in [Calls -> Pasts]
      /\ \A c \in Calls :
           /\ past'[c].started = past[c].started /\ past'[c].ended = past[c].ended
           /\ past[c].missed \subseteq past'[c].missed
           /\ Listening(c) /\ m \in Ends(tool[c]) =>
                x \in ToSet(inbox'[c][m]) \cup past'[c].missed
  BY <1>1, <1>2, PassedByFacts DEF Inv
<1>5. CallTypes' /\ ChromeTypes' /\ UNCHANGED <<said, download>>
  BY <1>1, <1>4, ChromeStays DEF Inv, CallTypes
<1>6. QueueTypes'
  <2>1. ASSUME NEW c \in Calls PROVE IsQueues(inbox'[c])
    <3>1. IsQueues(inbox[c])
      BY DEF Inv, QueueTypes
    <3>2. IsQueues(Put(inbox[c], m, x))
      BY <1>1, <1>2, <3>1, QueuePut
    <3> QED
      BY <1>1, <3>1, <3>2
  <2>2. inbox' = [c \in Calls |-> inbox'[c]]
    BY <1>1
  <2> QED
    BY <1>2, <2>1, <2>2 DEF QueueTypes
<1>7. WayIsTrue'
  BY <1>2, <1>5, EndingsFacts DEF Inv, WayIsTrue
<1>8. m \in Endings => m \in said[x]
  BY <1>2 DEF Inv, WayIsTrue
<1>9. ASSUME NEW c \in Calls PROVE CallInv(c)'
  <2>1. inbox'[c] = inbox[c] \/ (m \in subs[c] /\ inbox'[c] = Put(inbox[c], m, x))
    BY <1>1
  <2>2. /\ IsQueues(inbox[c])
        /\ \A n \in Methods : ToSet(inbox[c][n]) \subseteq ToSet(inbox'[c][n])
    <3>1. IsQueues(inbox[c])
      BY DEF Inv, QueueTypes
    <3>2. \A n \in Methods : ToSet(inbox[c][n]) \subseteq ToSet(Put(inbox[c], m, x)[n])
      BY <1>1, <1>2, <3>1, QueuePut
    <3> QED
      BY <2>1, <3>1, <3>2
  <2>3. ASSUME NEW n \in Ends(tool[c]), NEW r \in Requests, n \in said'[r], Listening(c)
        PROVE  \/ r \in ToSet(way'[n]) \cup ToSet(inbox'[c][n]) \cup past'[c].missed
               \/ n \in said[r] /\ r \notin OnWay(c, n)
    <3>1. n \in Methods
      BY EndsAreEndings, EndingsFacts
    <3>2. CASE r \in ToSet(inbox[c][n])
      BY <2>2, <3>1, <3>2
    <3>3. CASE r \in ToSet(way[n]) /\ (n # m \/ r # x)
      BY <1>2, <3>1, <3>3
    <3>4. CASE n = m /\ r = x
      BY <1>4, <2>3, <3>4
    <3>5. CASE r \notin OnWay(c, n)
      BY <1>5, <2>3, <3>5
    <3> QED
      BY <3>2, <3>3, <3>4, <3>5 DEF OnWay
  <2>4. /\ pc'[c] = pc[c] /\ tool'[c] = tool[c] /\ todo'[c] = todo[c] /\ subs'[c] = subs[c]
        /\ timer'[c] = timer[c] /\ book'[c] = book[c]
    BY <1>1
  <2>5. m = "downloadWillBegin" => download'[x] # "new"
    BY DEF Collected
  <2>6. \A n \in Endings, r \in Requests : n \in said'[r] <=> n \in said[r] \/ (n = m /\ r = x)
    BY <1>5, <1>8
  <2>7. \A d \in Downloads : /\ download[d] # "new" => download'[d] # "new"
                             /\ download[d] = "completed" => download'[d] = "completed"
    BY <1>5
  <2>8. inbox'[c] # inbox[c] /\ m \in Endings => m \in said'[x]
    BY <1>5, <1>8
  <2>9. m \in Methods /\ x \in Payload(m)
    BY <1>1, <1>2
  <2>10. /\ past'[c].started = past[c].started /\ past'[c].ended = past[c].ended
         /\ past[c].missed \subseteq past'[c].missed
    BY <1>4
  <2> QED
    BY <2>9, <2>10, <2>1, <2>3, <2>4, <2>5, <2>6, <2>7, <2>8, EventPasses
<1> QED
  BY <1>5, <1>6, <1>7, <1>9 DEF Inv

(* An event is lost on the way.                                            *)
LEMMA LoseKeeps ==
  ASSUME Inv, NEW m \in Collected, Lose(m)
  PROVE  Inv'
<1>0. PICK i \in DOMAIN way[m] :
        way' = [way EXCEPT ![m] = RemoveAt(@, i)] /\ PassedBy(m, way[m][i])
  BY DEF Lose
<1> PICK x : x = way[m][i]
  OBVIOUS
<1>1. /\ m \in Methods /\ PassedBy(m, x)
      /\ UNCHANGED <<pc, tool, todo, subs, inbox, timer, book, target, emitted, chromeVars>>
  BY <1>0 DEF Lose, Methods
<1>2. /\ IsWay(way') /\ x \in Payload(m) /\ x \in ToSet(way[m])
      /\ ToSet(way[m]) \subseteq ToSet(way'[m]) \cup {x}
      /\ \A n \in Methods : /\ n # m => way'[n] = way[n]
                            /\ ToSet(way'[n]) \subseteq ToSet(way[n])
  <2>1. IsWay(way)
    BY DEF Inv, QueueTypes
  <2>2. /\ IsWay(way') /\ way[m][i] \in Payload(m) /\ way[m][i] \in ToSet(way[m])
        /\ \A n \in Methods : /\ n # m => way'[n] = way[n]
                              /\ ToSet(way'[n]) \subseteq ToSet(way[n])
        /\ ToSet(way[m]) \subseteq ToSet(way'[m]) \cup {way[m][i]}
    <3>1. way' = [way EXCEPT ![m] = RemoveAt(way[m], i)]
      BY <1>0
    <3> QED
      BY <1>0, <1>1, <2>1, <3>1, QueueLoses
  <2> QED
    BY <2>2
<1>4. /\ past' \in [Calls -> Pasts]
      /\ \A c \in Calls :
           /\ past'[c].started = past[c].started /\ past'[c].ended = past[c].ended
           /\ past[c].missed \subseteq past'[c].missed
           /\ Listening(c) /\ m \in Ends(tool[c]) =>
                x \in ToSet(inbox'[c][m]) \cup past'[c].missed
  BY <1>1, <1>2, PassedByFacts DEF Inv
<1>5. CallTypes' /\ ChromeTypes' /\ UNCHANGED <<said, download>>
  BY <1>1, <1>4, ChromeStays DEF Inv, CallTypes
<1>6. QueueTypes'
  BY <1>1, <1>2 DEF Inv, QueueTypes, IsQueues, IsWay
<1>7. WayIsTrue'
  BY <1>2, <1>5, EndingsFacts DEF Inv, WayIsTrue
<1>8. m \in Endings => m \in said[x]
  BY <1>2 DEF Inv, WayIsTrue
<1>9. ASSUME NEW c \in Calls PROVE CallInv(c)'
  <2>1. inbox'[c] = inbox[c]
    BY <1>1
  <2>2. ASSUME NEW n \in Ends(tool[c]), NEW r \in Requests, n \in said'[r], Listening(c)
        PROVE  \/ r \in ToSet(way'[n]) \cup ToSet(inbox'[c][n]) \cup past'[c].missed
               \/ n \in said[r] /\ r \notin OnWay(c, n)
    <3>1. n \in Methods
      BY EndsAreEndings, EndingsFacts
    <3>2. CASE n = m /\ r = x
      BY <1>4, <2>2, <3>2
    <3>3. CASE r \in ToSet(way[n]) /\ (n # m \/ r # x)
      BY <1>2, <3>1, <3>3
    <3>4. CASE r \notin ToSet(way[n])
      BY <1>5, <2>1, <2>2, <3>4 DEF OnWay
    <3> QED
      BY <3>2, <3>3, <3>4
  <2>4. /\ pc'[c] = pc[c] /\ tool'[c] = tool[c] /\ todo'[c] = todo[c] /\ subs'[c] = subs[c]
        /\ timer'[c] = timer[c] /\ book'[c] = book[c]
    BY <1>1
  <2>5. m = "downloadWillBegin" => download'[x] # "new"
    BY DEF Collected
  <2>6. \A n \in Endings, r \in Requests : n \in said'[r] <=> n \in said[r] \/ (n = m /\ r = x)
    BY <1>5, <1>8
  <2>7. \A d \in Downloads : /\ download[d] # "new" => download'[d] # "new"
                             /\ download[d] = "completed" => download'[d] = "completed"
    BY <1>5
  <2>8. /\ past'[c].started = past[c].started /\ past'[c].ended = past[c].ended
        /\ past[c].missed \subseteq past'[c].missed
    BY <1>4
  <2> QED
    BY <1>1, <1>2, <2>1, <2>2, <2>4, <2>5, <2>6, <2>7, <2>8, EventPasses
<1> QED
  BY <1>5, <1>6, <1>7, <1>9 DEF Inv

(* Each thing Chrome does is one that the events it sends tell of.         *)
LEMMA ChromeKeeps ==
  ASSUME Inv, Chrome
  PROVE  Inv'
<1>1. CASE UserNavigates
  <2>1. UNCHANGED <<callVars, way, emitted, said, download, tracing, traced>> /\ NewDocument
    BY <1>1 DEF UserNavigates
  <2>2. ChromeTypes'
    BY <2>1, HistoryMoves DEF Inv
  <2>3. CallTypes' /\ QueueTypes' /\ WayIsTrue'
    BY <2>1 DEF Inv, CallTypes, QueueTypes, IsQueues, IsWay, WayIsTrue, callVars
  <2>4. ASSUME NEW c \in Calls PROVE CallInv(c)'
    BY <2>1, SameCall DEF Inv, callVars
  <2> QED
    BY <2>2, <2>3, <2>4 DEF Inv
<1>2. ASSUME NEW m \in Methods, NEW x, Emit(m, x) PROVE emitted' \in 0 .. MaxEvents
  BY <1>2, PageWaitsAssumption DEF Emit, Inv, ChromeTypes
<1>3. ASSUME NEW m \in {"dcl", "load"}, Fires(m) PROVE Inv'
  <2>1. Emit(m, m) /\ m \in Methods /\ m \in Payload(m) /\ m \notin Endings /\ m # "downloadWillBegin"
    <3>1. Emit(m, m)
      BY <1>3 DEF Fires
    <3>2. m \in Methods /\ m \notin Endings /\ m # "downloadWillBegin"
      BY DEF Methods, Collected, Endings
    <3>3. m \in Payload(m)
      BY EndingsFacts DEF Payload, Direct
    <3> QED
      BY <3>1, <3>2, <3>3
  <2>2. /\ UNCHANGED <<doc, entries, at, said, download, tracing, traced>>
        /\ fired' = fired \cup {m}
    BY <1>3 DEF Fires
  <2>3. ChromeTypes'
    BY <1>2, <2>1, <2>2 DEF Inv, ChromeTypes
  <2> QED
    BY <2>1, <2>2, <2>3, EmitKeeps
<1>4. ASSUME NEW r \in Requests, NEW w \in {"willBeSent", "redirected", "response", "finished", "failed"},
             NEW m \in Endings \cup {"willBeSent"}, Says(r, w), Emit(m, r),
             w = m \/ (w = "redirected" /\ m = "willBeSent")
      PROVE  Inv'
  <2>1. m \in Methods /\ Payload(m) = Requests /\ m # "downloadWillBegin"
    BY EndingsFacts DEF Endings
  <2>2. /\ UNCHANGED <<doc, fired, entries, at, download, tracing, traced>>
        /\ said' = [said EXCEPT ![r] = @ \cup {w}]
    BY <1>4 DEF Says, docVars
  <2>3. ChromeTypes'
    BY <1>2, <1>4, <2>1, <2>2 DEF Inv, ChromeTypes
  <2>4. \A n \in Endings, q \in Requests : n \in said'[q] <=> n \in said[q] \/ (n = m /\ q = r)
    BY <1>4, <2>2 DEF Inv, ChromeTypes, Endings
  <2> QED
    BY <1>4, <2>1, <2>2, <2>3, <2>4, EmitKeeps
<1>5. ASSUME NEW r \in Requests, SendRequest(r) \/ Redirect(r) \/ Respond(r) PROVE Inv'
  BY <1>4, <1>5 DEF SendRequest, Redirect, Respond, Endings
<1>6. ASSUME NEW r \in Requests, NEW m \in {"finished", "failed"}, EndRequest(r, m) PROVE Inv'
  BY <1>4, <1>6 DEF EndRequest, Endings
<1>7. ASSUME NEW d \in Downloads, NEW from, NEW to \in {"going", "completed", "canceled"}, NEW m \in Direct,
             DownloadStep(d, from, to, m), from \in {"new", "going"}
      PROVE  Inv'
  <2>1. m \in Methods /\ Payload(m) = Downloads /\ m \notin Endings
    BY EndingsFacts DEF Direct, Endings
  <2>2. /\ UNCHANGED <<doc, fired, entries, at, said, tracing, traced>> /\ Emit(m, d)
        /\ download' = [download EXCEPT ![d] = to] /\ download[d] = from
    BY <1>7 DEF DownloadStep, docVars
  <2>3. ChromeTypes'
    BY <1>2, <2>1, <2>2 DEF Inv, ChromeTypes
  <2>4. /\ download'[d] = to
        /\ \A e \in Downloads : /\ download[e] # "new" => download'[e] # "new"
                                /\ download[e] = "completed" => download'[e] = "completed"
    BY <1>7, <2>2 DEF Inv, ChromeTypes
  <2> QED
    BY <2>1, <2>2, <2>3, <2>4, EmitKeeps
<1>8. ASSUME NEW d \in Downloads, BeginDownload(d) \/ \E how \in {"completed", "canceled"} : EndDownload(d, how)
      PROVE  Inv'
  BY <1>7, <1>8 DEF BeginDownload, EndDownload, Direct
<1>9. CASE SendTrace \/ CompleteTrace
  <2> PICK m \in {"dataCollected", "tracingComplete"} : Emit(m, Chunk)
    BY <1>9 DEF SendTrace, CompleteTrace
  <2>1. m \in Methods /\ Chunk \in Payload(m) /\ m \notin Endings /\ m # "downloadWillBegin"
    BY DEF Methods, Payload, Direct, Endings
  <2>2. /\ UNCHANGED <<doc, fired, entries, at, said, download>>
        /\ tracing' \in {"off", "on", "flushing"} /\ traced' \in BOOLEAN
    BY <1>9 DEF SendTrace, CompleteTrace, docVars, Inv, ChromeTypes
  <2>3. ChromeTypes'
    BY <1>2, <2>1, <2>2 DEF Inv, ChromeTypes
  <2> QED
    BY <2>1, <2>2, <2>3, EmitKeeps
<1> QED
  BY <1>1, <1>3, <1>5, <1>6, <1>8, <1>9 DEF Chrome

-------------------------------------------------------------------------------
(* The invariant is inductive.                                             *)

LEMMA InitInv == Init => Inv
<1> SUFFICES ASSUME Init PROVE Inv
  OBVIOUS
<1>1. CallTypes
  BY EmptySeq, PageWaitsAssumption
     DEF Init, CallTypes, Books, Blank, Pasts, Fresh
<1>2. ChromeTypes
  <2>1. <<1, 2, 3>> \in Seq(1 .. MaxCommits) /\ 2 \in DOMAIN <<1, 2, 3>>
    BY PageWaitsAssumption
  <2>2. emitted \in 0 .. MaxEvents /\ doc \in 3 .. MaxCommits
    BY PageWaitsAssumption DEF Init
  <2>3. fired \subseteq {"load", "dcl"} /\ tracing \in {"off", "on", "flushing"} /\ traced \in BOOLEAN
    BY DEF Init
  <2>4. /\ said \in [Requests -> SUBSET {"willBeSent", "redirected", "response", "finished", "failed"}]
        /\ download \in [Downloads -> {"new", "going", "completed", "canceled"}]
    BY DEF Init
  <2>5. entries \in Seq(1 .. MaxCommits) /\ at \in DOMAIN entries
    BY <2>1 DEF Init
  <2> QED
    BY <2>2, <2>3, <2>4, <2>5 DEF ChromeTypes
<1>3. QueueTypes /\ \A c \in Calls : inbox[c] = Empty
  BY EmptyQueues DEF Init, QueueTypes, IsQueues
<1>4. WayIsTrue
  BY EmptyQueues, EmptyFacts, EndingsFacts DEF Init, WayIsTrue
<1>5. ASSUME NEW c \in Calls PROVE CallInv(c)
  <2>1. Stands(c) /\ Rests(c)
    BY <1>3, EmptyQueues DEF Init, Stands, Rests, Blank, Fresh, Early
  <2>2. MailIsTrue(c) /\ GuidIsTrue(c)
    BY <1>3, EmptyQueues, EmptyFacts, EndingsFacts DEF Init, MailIsTrue, GuidIsTrue, Blank
  <2>3. Follows(c) /\ Crossed(c) /\ TakenOffHasEnded(c) /\ IdleIsOver(c) /\ DownloadIsNamed(c)
    BY DEF Init, Follows, Listening, Crossed, TakenOffHasEnded, IdleIsOver, DownloadIsNamed, Blank, Fresh
  <2> QED
    BY <2>1, <2>2, <2>3 DEF CallInv
<1> QED
  BY <1>1, <1>2, <1>3, <1>4, <1>5 DEF Inv

LEMMA NextKeepsInv == Inv /\ [Next]_vars => Inv'
<1> SUFFICES ASSUME Inv, [Next]_vars PROVE Inv'
  OBVIOUS
<1>1. ASSUME NEW c \in Calls, Call(c) PROVE Inv'
  BY <1>1, SubscribeLoadKeeps, NavigateKeeps, HearLoadKeeps, ReadHistoryKeeps, HistoryKeeps,
     StartRecorderKeeps, AddSubKeeps, HearKeeps, ReturnsKeep, TraceKeeps, HearBeginKeeps,
     DownloadEndsKeeps DEF Call
<1>2. CASE UNCHANGED vars
  <2>1. CallTypes' /\ ChromeTypes' /\ QueueTypes' /\ WayIsTrue'
    BY <1>2 DEF Inv, CallTypes, ChromeTypes, QueueTypes, IsQueues, IsWay, WayIsTrue, vars, callVars,
                chromeVars, docVars
  <2>2. ASSUME NEW c \in Calls PROVE CallInv(c)'
    BY <1>2, SameCall DEF Inv, vars, callVars, chromeVars
  <2> QED
    BY <2>1, <2>2 DEF Inv
<1> QED
  BY <1>1, <1>2, ChromeKeeps, DeliverKeeps, LoseKeeps DEF Next

(* Calls that wait and record, whatever Chrome sends, in whatever order it *)
(* reaches them, and however much of it is lost on the way.                *)
THEOREM PageWaitsInvariant == Spec => []Inv
BY InitInv, NextKeepsInv, PTL DEF Spec

-------------------------------------------------------------------------------
(* What the runs check.                                                    *)

(* What is in the channels, on the books and said of the page is what its  *)
(* method carries; and a call that has returned has left nothing behind it *)
(* on the page: no subscription, no event, no timer (the deferred calls of *)
(* navigate.go, networkidle.go, har.go, trace.go and download.go).         *)
THEOREM PageWaitsTypeOK == Spec => []TypeOK
<1>1. ASSUME NEW q, IsQueues(q), NEW m \in Methods PROVE q[m] \in BoundedSeq(Payload(m), ChanCap)
  BY <1>1, IsBounded, PageWaitsAssumption DEF IsQueues, IsWay
<1>2. Inv => TypeOK
  BY <1>1 DEF Inv, TypeOK, QueueTypes, IsWay, CallInv, Rests
<1> QED
  BY <1>2, PageWaitsInvariant, PTL

(* The books of a recorder are true, for any requests, downloads, calls    *)
(* and capacity of the channels: what is open is, or its end is on the way,*)
(* or passed the recorder by; what was taken off has ended; what           *)
(* WaitNetworkIdle returned over is over; and a download has its own path  *)
(* (networkidle.go:33-76, har.go:86-99, download.go:60-74).                *)
THEOREM RecordersBooksAreTrue == Spec => []BooksAreTrue
<1>1. Inv => BooksAreTrue
  <2> SUFFICES ASSUME Inv, NEW c \in Calls
               PROVE  /\ pc[c] \in {"idling", "recording"} => OpenIsExplained(c)
                      /\ TakenOffHasEnded(c) /\ IdleIsOver(c) /\ DownloadIsNamed(c)
    BY DEF BooksAreTrue
  <2>1. CallInv(c) /\ book[c] \in Books
    BY DEF Inv, CallTypes
  <2>2. ASSUME Listening(c) PROVE OpenIsExplained(c)
    BY <2>1, <2>2 DEF CallInv, Follows, Crossed, OpenIsExplained, Books
  <2> QED
    BY <2>1, <2>2 DEF CallInv, Listening
<1> QED
  BY <1>1, PageWaitsInvariant, PTL

===============================================================================
