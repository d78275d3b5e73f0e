------------------------- MODULE EventPipeline_proofs -------------------------
(***************************************************************************)
(* What a tab's buffer and its subscribers are given of the events the     *)
(* browser sends, for any number of tabs, methods, waiters and streams and *)
(* for channels of any capacity.  The invariant, Inv, has five parts:      *)
(*                                                                         *)
(*  - Types: the types, and that a collector that is handing out an event  *)
(*    has one and a stream that began has a page;                          *)
(*  - LineInv: on each stage of a line the events are in the order the     *)
(*    pump read them, those of a later stage are older than those of the   *)
(*    stages before it, and the one in the pump's hand is the youngest.    *)
(*    The order in the buffer alone is not inductive: it is what the stage *)
(*    before it still holds that may come next;                            *)
(*  - ConserveInv: an event of a subscribed line is somewhere, one that    *)
(*    was dropped is nowhere else and has been overtaken by none;          *)
(*  - CollectorInv: what a collector hands out is in the buffer already;   *)
(*  - GuestInv: what a guest was told is in the buffer, and older than     *)
(*    what the collector of its line is handing out, which is how the      *)
(*    order in the buffer carries over to every waiter and every feed of a *)
(*    stream.                                                              *)
(*                                                                         *)
(* With it a line, seen from any of its subscribers, is shown to be the    *)
(* lossy queue of EventWay: PipelineImplementsWay, at the end.             *)
(***************************************************************************)
EXTENDS EventPipeline, SequenceTheorems, TLAPS

-------------------------------------------------------------------------------
(* Sequences of events: what a send and a receive do to their elements and *)
(* to their order.                                                         *)

Before(s, t) == \A d \in ToSet(s), e \in ToSet(t) : d.line = e.line => d.at < e.at

LEMMA EmptySeqFacts == << >> \in Seq(Events) /\ ToSet(<< >>) = {} /\ Ordered(<< >>)
BY DEF ToSet, Ordered

LEMMA ElementsAreEvents ==
  ASSUME NEW s \in Seq(Events)
  PROVE  ToSet(s) \subseteq Events
BY DEF ToSet

LEMMA ElementAt ==
  ASSUME NEW s \in Seq(Events), NEW i \in DOMAIN s
  PROVE  s[i] \in ToSet(s) /\ i \in 1 .. Len(s) /\ s[i] \in Events
BY DEF ToSet

LEMMA EventFields ==
  ASSUME NEW e \in Events
  PROVE  /\ e.line \in Lines /\ e.at \in Nat
         /\ PageOf(e.line) \in Pages /\ MethodOf(e.line) \in Methods
BY EventPipelineAssumption DEF Events, Lines, PageOf, MethodOf

LEMMA AppendFacts ==
  ASSUME NEW s \in Seq(Events), NEW e \in Events
  PROVE  /\ Append(s, e) \in Seq(Events)
         /\ Len(Append(s, e)) = Len(s) + 1
         /\ ToSet(Append(s, e)) = ToSet(s) \cup {e}
         /\ Ordered(s) /\ (\A d \in ToSet(s) : d.line = e.line => d.at < e.at)
              => Ordered(Append(s, e))
<1> DEFINE t == Append(s, e)
<1>1. /\ t \in Seq(Events) /\ Len(t) = Len(s) + 1 /\ Len(s) \in Nat
      /\ \A i \in 1 .. Len(s) : t[i] = s[i]
      /\ t[Len(s) + 1] = e
      /\ DOMAIN s = 1 .. Len(s) /\ DOMAIN t = 1 .. Len(s) + 1
  BY AppendProperties, LenProperties
<1> HIDE DEF t
<1>2. \A i \in 1 .. Len(s) + 1 : i \in 1 .. Len(s) \/ i = Len(s) + 1
  BY <1>1
<1>3. \A i \in 1 .. Len(s) : i \in 1 .. Len(s) + 1
  BY <1>1
<1>4. ToSet(t) = ToSet(s) \cup {e}
  <2>1. Len(s) + 1 \in DOMAIN t
    BY <1>1
  <2>2. ASSUME NEW x \in ToSet(t) PROVE x \in ToSet(s) \cup {e}
    <3>1. PICK i \in DOMAIN t : t[i] = x
      BY DEF ToSet
    <3> QED
      BY <1>1, <1>2, <3>1 DEF ToSet
  <2>3. ASSUME NEW x \in ToSet(s) PROVE x \in ToSet(t)
    <3>1. PICK i \in DOMAIN s : s[i] = x
      BY DEF ToSet
    <3> QED
      BY <1>1, <1>3, <3>1 DEF ToSet
  <2>4. e \in ToSet(t)
    BY <1>1, <2>1 DEF ToSet
  <2> QED
    BY <2>2, <2>3, <2>4
<1>5. ASSUME Ordered(s), \A d \in ToSet(s) : d.line = e.line => d.at < e.at
      PROVE  Ordered(t)
  <2> SUFFICES ASSUME NEW i \in DOMAIN t, NEW j \in DOMAIN t, i < j, t[i].line = t[j].line
               PROVE  t[i].at < t[j].at
    BY DEF Ordered
  <2>1. i \in 1 .. Len(s)
    BY <1>1
  <2>2. t[i] = s[i] /\ s[i] \in ToSet(s)
    BY <1>1, <2>1 DEF ToSet
  <2>3. CASE j \in 1 .. Len(s)
    BY <1>1, <1>5, <2>1, <2>2, <2>3 DEF Ordered
  <2>4. CASE j = Len(s) + 1
    BY <1>1, <1>5, <2>2, <2>4
  <2> QED
    BY <1>1, <1>2, <2>3, <2>4
<1> QED
  BY <1>1, <1>4, <1>5 DEF t

LEMMA TailFacts ==
  ASSUME NEW s \in Seq(Events), s # << >>
  PROVE  /\ Head(s) \in Events /\ Head(s) \in ToSet(s)
         /\ Tail(s) \in Seq(Events)
         /\ Len(Tail(s)) = Len(s) - 1
         /\ ToSet(s) = ToSet(Tail(s)) \cup {Head(s)}
         /\ Ordered(s) => /\ Ordered(Tail(s))
                          /\ \A e \in ToSet(Tail(s)) : Head(s).line = e.line => Head(s).at < e.at
<1> DEFINE t == Tail(s)
<1>1. /\ Head(s) \in Events /\ t \in Seq(Events) /\ Len(t) = Len(s) - 1
      /\ \A i \in 1 .. Len(t) : t[i] = s[i + 1]
      /\ Len(s) \in Nat /\ Len(s) > 0 /\ Head(s) = s[1]
      /\ DOMAIN s = 1 .. Len(s) /\ DOMAIN t = 1 .. Len(t)
  BY HeadTailProperties, LenProperties, EmptySeq
<1> HIDE DEF t
<1>2. \A i \in 1 .. Len(s) : i = 1 \/ i - 1 \in 1 .. Len(t)
  BY <1>1
<1>3. \A i \in 1 .. Len(t) : i + 1 \in 1 .. Len(s)
  BY <1>1
<1>4. Head(s) \in ToSet(s)
  <2>1. 1 \in 1 .. Len(s)
    BY <1>1
  <2> QED
    BY <1>1, <2>1 DEF ToSet
<1>5. ToSet(s) = ToSet(t) \cup {Head(s)}
  <2>1. ASSUME NEW x \in ToSet(s) PROVE x \in ToSet(t) \cup {Head(s)}
    <3>1. PICK i \in DOMAIN s : s[i] = x
      BY DEF ToSet
    <3>2. CASE i = 1
      BY <1>1, <3>1, <3>2
    <3>3. CASE i - 1 \in 1 .. Len(t)
      <4>1. t[i - 1] = s[i]
        BY <1>1, <3>1, <3>3
      <4> QED
        BY <1>1, <3>1, <3>3, <4>1 DEF ToSet
    <3> QED
      BY <1>1, <1>2, <3>1, <3>2, <3>3
  <2>2. ASSUME NEW x \in ToSet(t) PROVE x \in ToSet(s)
    <3>1. PICK i \in DOMAIN t : t[i] = x
      BY DEF ToSet
    <3> QED
      BY <1>1, <1>3, <3>1 DEF ToSet
  <2> QED
    BY <1>4, <2>1, <2>2
<1>6. ASSUME Ordered(s)
      PROVE  Ordered(t) /\ \A e \in ToSet(t) : Head(s).line = e.line => Head(s).at < e.at
  <2>1. Ordered(t)
    <3> SUFFICES ASSUME NEW i \in DOMAIN t, NEW j \in DOMAIN t, i < j, t[i].line = t[j].line
                 PROVE  t[i].at < t[j].at
      BY DEF Ordered
    <3>1. i + 1 \in DOMAIN s /\ j + 1 \in DOMAIN s /\ i + 1 < j + 1
      BY <1>1, <1>3
    <3> QED
      BY <1>1, <1>6, <3>1 DEF Ordered
  <2>2. ASSUME NEW e \in ToSet(t), Head(s).line = e.line PROVE Head(s).at < e.at
    <3>1. PICK i \in DOMAIN t : t[i] = e
      BY DEF ToSet
    <3>2. i + 1 \in DOMAIN s /\ 1 \in DOMAIN s /\ 1 < i + 1 /\ s[i + 1] = e
      BY <1>1, <1>3, <3>1
    <3> QED
      BY <1>1, <1>6, <2>2, <3>2 DEF Ordered
  <2> QED
    BY <2>1, <2>2
<1> QED
  BY <1>1, <1>4, <1>5, <1>6 DEF t

LEMMA ConcatFacts ==
  ASSUME NEW s \in Seq(Events), NEW t \in Seq(Events)
  PROVE  /\ s \o t \in Seq(Events)
         /\ ToSet(s \o t) = ToSet(s) \cup ToSet(t)
         /\ Ordered(s) /\ Ordered(t) /\ Before(s, t) => Ordered(s \o t)
<1> DEFINE u == s \o t
<1>1. /\ u \in Seq(Events) /\ Len(u) = Len(s) + Len(t) /\ Len(s) \in Nat /\ Len(t) \in Nat
      /\ \A i \in 1 .. Len(s) + Len(t) : u[i] = IF i <= Len(s) THEN s[i] ELSE t[i - Len(s)]
      /\ DOMAIN s = 1 .. Len(s) /\ DOMAIN t = 1 .. Len(t) /\ DOMAIN u = 1 .. Len(s) + Len(t)
  BY ConcatProperties, LenProperties
<1> HIDE DEF u
<1>2. \A i \in DOMAIN u :
        \/ i \in DOMAIN s /\ u[i] = s[i]
        \/ i > Len(s) /\ i - Len(s) \in DOMAIN t /\ u[i] = t[i - Len(s)]
  BY <1>1
<1>3. \A i \in DOMAIN s : i \in DOMAIN u /\ u[i] = s[i]
  BY <1>1
<1>4. \A i \in DOMAIN t : i + Len(s) \in DOMAIN u /\ u[i + Len(s)] = t[i]
  <2> SUFFICES ASSUME NEW i \in DOMAIN t PROVE i + Len(s) \in DOMAIN u /\ u[i + Len(s)] = t[i]
    OBVIOUS
  <2>1. /\ i + Len(s) \in 1 .. Len(s) + Len(t) /\ ~(i + Len(s) <= Len(s))
        /\ (i + Len(s)) - Len(s) = i
    BY <1>1
  <2> QED
    BY <1>1, <2>1
<1>5. ToSet(u) = ToSet(s) \cup ToSet(t)
  BY <1>2, <1>3, <1>4 DEF ToSet
<1>6. ASSUME Ordered(s), Ordered(t), Before(s, t) PROVE Ordered(u)
  <2> SUFFICES ASSUME NEW i \in DOMAIN u, NEW j \in DOMAIN u, i < j, u[i].line = u[j].line
               PROVE  u[i].at < u[j].at
    BY DEF Ordered
  <2>1. CASE j \in DOMAIN s /\ u[j] = s[j]
    <3>1. i \in DOMAIN s /\ u[i] = s[i]
      BY <1>1, <2>1
    <3> QED
      BY <1>6, <2>1, <3>1 DEF Ordered
  <2>2. CASE /\ i \in DOMAIN s /\ u[i] = s[i]
             /\ j > Len(s) /\ j - Len(s) \in DOMAIN t /\ u[j] = t[j - Len(s)]
    <3>1. u[i] \in ToSet(s) /\ u[j] \in ToSet(t)
      BY <2>2 DEF ToSet
    <3> QED
      BY <1>6, <3>1 DEF Before
  <2>3. CASE /\ i > Len(s) /\ i - Len(s) \in DOMAIN t /\ u[i] = t[i - Len(s)]
             /\ j > Len(s) /\ j - Len(s) \in DOMAIN t /\ u[j] = t[j - Len(s)]
    <3>1. i - Len(s) < j - Len(s)
      BY <1>1
    <3> QED
      BY <1>6, <2>3, <3>1 DEF Ordered
  <2> QED
    BY <1>2, <2>1, <2>2, <2>3
<1> QED
  BY <1>1, <1>5, <1>6 DEF u

LEMMA SendFacts ==
  ASSUME NEW ch \in Seq(Events), NEW e \in Events, NEW cap \in Nat, Len(ch) <= cap
  PROVE  /\ SentTo(ch, e, cap) \in Seq(Events)
         /\ Len(SentTo(ch, e, cap)) <= cap
         /\ ToSet(ch) \subseteq ToSet(SentTo(ch, e, cap))
         /\ ToSet(SentTo(ch, e, cap)) \subseteq ToSet(ch) \cup {e}
         /\ Len(ch) < cap => e \in ToSet(SentTo(ch, e, cap))
         /\ Len(ch) >= cap => SentTo(ch, e, cap) = ch
         /\ Ordered(ch) /\ (\A d \in ToSet(ch) : d.line = e.line => d.at < e.at)
              => Ordered(SentTo(ch, e, cap))
<1>1. Len(ch) \in Nat
  BY LenProperties
<1>2. CASE Len(ch) < cap
  BY <1>1, <1>2, AppendFacts DEF SentTo
<1>3. CASE ~(Len(ch) < cap)
  BY <1>1, <1>3 DEF SentTo
<1> QED
  BY <1>2, <1>3

(* The same for what a stream is told, in the order of each feed.          *)

Earlier(s, t) ==
  \A d \in ToSet(s), e \in ToSet(t) : d.feed = e.feed => d.event.at < e.event.at

LEMMA EmptyTellings == << >> \in Seq(Tellings) /\ ToSet(<< >>) = {} /\ InTurn(<< >>)
BY DEF ToSet, InTurn

LEMMA ElementsAreTellings ==
  ASSUME NEW s \in Seq(Tellings)
  PROVE  ToSet(s) \subseteq Tellings
BY DEF ToSet

LEMMA TellAppend ==
  ASSUME NEW s \in Seq(Tellings), NEW e \in Tellings
  PROVE  /\ Append(s, e) \in Seq(Tellings)
         /\ Len(Append(s, e)) = Len(s) + 1
         /\ ToSet(Append(s, e)) = ToSet(s) \cup {e}
         /\ InTurn(s) /\ (\A d \in ToSet(s) : d.feed = e.feed => d.event.at < e.event.at)
              => InTurn(Append(s, e))
<1> DEFINE t == Append(s, e)
<1>1. /\ t \in Seq(Tellings) /\ Len(t) = Len(s) + 1 /\ Len(s) \in Nat
      /\ \A i \in 1 .. Len(s) : t[i] = s[i]
      /\ t[Len(s) + 1] = e
      /\ DOMAIN s = 1 .. Len(s) /\ DOMAIN t = 1 .. Len(s) + 1
  BY AppendProperties, LenProperties
<1> HIDE DEF t
<1>2. \A i \in 1 .. Len(s) + 1 : i \in 1 .. Len(s) \/ i = Len(s) + 1
  BY <1>1
<1>3. \A i \in 1 .. Len(s) : i \in 1 .. Len(s) + 1
  BY <1>1
<1>4. ToSet(t) = ToSet(s) \cup {e}
  <2>1. Len(s) + 1 \in DOMAIN t
    BY <1>1
  <2>2. ASSUME NEW x \in ToSet(t) PROVE x \in ToSet(s) \cup {e}
    <3>1. PICK i \in DOMAIN t : t[i] = x
      BY DEF ToSet
    <3> QED
      BY <1>1, <1>2, <3>1 DEF ToSet
  <2>3. ASSUME NEW x \in ToSet(s) PROVE x \in ToSet(t)
    <3>1. PICK i \in DOMAIN s : s[i] = x
      BY DEF ToSet
    <3> QED
      BY <1>1, <1>3, <3>1 DEF ToSet
  <2>4. e \in ToSet(t)
    BY <1>1, <2>1 DEF ToSet
  <2> QED
    BY <2>2, <2>3, <2>4
<1>5. ASSUME InTurn(s), \A d \in ToSet(s) : d.feed = e.feed => d.event.at < e.event.at
      PROVE  InTurn(t)
  <2> SUFFICES ASSUME NEW i \in DOMAIN t, NEW j \in DOMAIN t, i < j, t[i].feed = t[j].feed
               PROVE  t[i].event.at < t[j].event.at
    BY DEF InTurn
  <2>1. i \in 1 .. Len(s)
    BY <1>1
  <2>2. t[i] = s[i] /\ s[i] \in ToSet(s)
    BY <1>1, <2>1 DEF ToSet
  <2>3. CASE j \in 1 .. Len(s)
    BY <1>1, <1>5, <2>1, <2>2, <2>3 DEF InTurn
  <2>4. CASE j = Len(s) + 1
    BY <1>1, <1>5, <2>2, <2>4
  <2> QED
    BY <1>1, <1>2, <2>3, <2>4
<1> QED
  BY <1>1, <1>4, <1>5 DEF t

LEMMA TellTail ==
  ASSUME NEW s \in Seq(Tellings), s # << >>
  PROVE  /\ Head(s) \in Tellings /\ Head(s) \in ToSet(s)
         /\ Tail(s) \in Seq(Tellings)
         /\ Len(Tail(s)) = Len(s) - 1
         /\ ToSet(s) = ToSet(Tail(s)) \cup {Head(s)}
         /\ InTurn(s) =>
              /\ InTurn(Tail(s))
              /\ \A e \in ToSet(Tail(s)) : Head(s).feed = e.feed => Head(s).event.at < e.event.at
<1> DEFINE t == Tail(s)
<1>1. /\ Head(s) \in Tellings /\ t \in Seq(Tellings) /\ Len(t) = Len(s) - 1
      /\ \A i \in 1 .. Len(t) : t[i] = s[i + 1]
      /\ Len(s) \in Nat /\ Len(s) > 0 /\ Head(s) = s[1]
      /\ DOMAIN s = 1 .. Len(s) /\ DOMAIN t = 1 .. Len(t)
  BY HeadTailProperties, LenProperties, EmptySeq
<1> HIDE DEF t
<1>2. \A i \in 1 .. Len(s) : i = 1 \/ i - 1 \in 1 .. Len(t)
  BY <1>1
<1>3. \A i \in 1 .. Len(t) : i + 1 \in 1 .. Len(s)
  BY <1>1
<1>4. Head(s) \in ToSet(s)
  <2>1. 1 \in 1 .. Len(s)
    BY <1>1
  <2> QED
    BY <1>1, <2>1 DEF ToSet
<1>5. ToSet(s) = ToSet(t) \cup {Head(s)}
  <2>1. ASSUME NEW x \in ToSet(s) PROVE x \in ToSet(t) \cup {Head(s)}
    <3>1. PICK i \in DOMAIN s : s[i] = x
      BY DEF ToSet
    <3>2. CASE i = 1
      BY <1>1, <3>1, <3>2
    <3>3. CASE i - 1 \in 1 .. Len(t)
      <4>1. t[i - 1] = s[i]
        BY <1>1, <3>1, <3>3
      <4> QED
        BY <1>1, <3>1, <3>3, <4>1 DEF ToSet
    <3> QED
      BY <1>1, <1>2, <3>1, <3>2, <3>3
  <2>2. ASSUME NEW x \in ToSet(t) PROVE x \in ToSet(s)
    <3>1. PICK i \in DOMAIN t : t[i] = x
      BY DEF ToSet
    <3> QED
      BY <1>1, <1>3, <3>1 DEF ToSet
  <2> QED
    BY <1>4, <2>1, <2>2
<1>6. ASSUME InTurn(s)
      PROVE  InTurn(t) /\ \A e \in ToSet(t) : Head(s).feed = e.feed => Head(s).event.at < e.event.at
  <2>1. InTurn(t)
    <3> SUFFICES ASSUME NEW i \in DOMAIN t, NEW j \in DOMAIN t, i < j, t[i].feed = t[j].feed
                 PROVE  t[i].event.at < t[j].event.at
      BY DEF InTurn
    <3>1. i + 1 \in DOMAIN s /\ j + 1 \in DOMAIN s /\ i + 1 < j + 1
      BY <1>1, <1>3
    <3> QED
      BY <1>1, <1>6, <3>1 DEF InTurn
  <2>2. ASSUME NEW e \in ToSet(t), Head(s).feed = e.feed PROVE Head(s).event.at < e.event.at
    <3>1. PICK i \in DOMAIN t : t[i] = e
      BY DEF ToSet
    <3>2. i + 1 \in DOMAIN s /\ 1 \in DOMAIN s /\ 1 < i + 1 /\ s[i + 1] = e
      BY <1>1, <1>3, <3>1
    <3> QED
      BY <1>1, <1>6, <2>2, <3>2 DEF InTurn
  <2> QED
    BY <2>1, <2>2
<1> QED
  BY <1>1, <1>4, <1>5, <1>6 DEF t

LEMMA TellConcat ==
  ASSUME NEW s \in Seq(Tellings), NEW t \in Seq(Tellings)
  PROVE  /\ s \o t \in Seq(Tellings)
         /\ ToSet(s \o t) = ToSet(s) \cup ToSet(t)
         /\ InTurn(s) /\ InTurn(t) /\ Earlier(s, t) => InTurn(s \o t)
<1> DEFINE u == s \o t
<1>1. /\ u \in Seq(Tellings) /\ Len(u) = Len(s) + Len(t) /\ Len(s) \in Nat /\ Len(t) \in Nat
      /\ \A i \in 1 .. Len(s) + Len(t) : u[i] = IF i <= Len(s) THEN s[i] ELSE t[i - Len(s)]
      /\ DOMAIN s = 1 .. Len(s) /\ DOMAIN t = 1 .. Len(t) /\ DOMAIN u = 1 .. Len(s) + Len(t)
  BY ConcatProperties, LenProperties
<1> HIDE DEF u
<1>2. \A i \in DOMAIN u :
        \/ i \in DOMAIN s /\ u[i] = s[i]
        \/ i > Len(s) /\ i - Len(s) \in DOMAIN t /\ u[i] = t[i - Len(s)]
  BY <1>1
<1>3. \A i \in DOMAIN s : i \in DOMAIN u /\ u[i] = s[i]
  BY <1>1
<1>4. \A i \in DOMAIN t : i + Len(s) \in DOMAIN u /\ u[i + Len(s)] = t[i]
  <2> SUFFICES ASSUME NEW i \in DOMAIN t PROVE i + Len(s) \in DOMAIN u /\ u[i + Len(s)] = t[i]
    OBVIOUS
  <2>1. /\ i + Len(s) \in 1 .. Len(s) + Len(t) /\ ~(i + Len(s) <= Len(s))
        /\ (i + Len(s)) - Len(s) = i
    BY <1>1
  <2> QED
    BY <1>1, <2>1
<1>5. ToSet(u) = ToSet(s) \cup ToSet(t)
  BY <1>2, <1>3, <1>4 DEF ToSet
<1>6. ASSUME InTurn(s), InTurn(t), Earlier(s, t) PROVE InTurn(u)
  <2> SUFFICES ASSUME NEW i \in DOMAIN u, NEW j \in DOMAIN u, i < j, u[i].feed = u[j].feed
               PROVE  u[i].event.at < u[j].event.at
    BY DEF InTurn
  <2>1. CASE j \in DOMAIN s /\ u[j] = s[j]
    <3>1. i \in DOMAIN s /\ u[i] = s[i]
      BY <1>1, <2>1
    <3> QED
      BY <1>6, <2>1, <3>1 DEF InTurn
  <2>2. CASE /\ i \in DOMAIN s /\ u[i] = s[i]
             /\ j > Len(s) /\ j - Len(s) \in DOMAIN t /\ u[j] = t[j - Len(s)]
    <3>1. u[i] \in ToSet(s) /\ u[j] \in ToSet(t)
      BY <2>2 DEF ToSet
    <3> QED
      BY <1>6, <3>1 DEF Earlier
  <2>3. CASE /\ i > Len(s) /\ i - Len(s) \in DOMAIN t /\ u[i] = t[i - Len(s)]
             /\ j > Len(s) /\ j - Len(s) \in DOMAIN t /\ u[j] = t[j - Len(s)]
    <3>1. i - Len(s) < j - Len(s)
      BY <1>1
    <3> QED
      BY <1>6, <2>3, <3>1 DEF InTurn
  <2> QED
    BY <1>2, <2>1, <2>2, <2>3
<1> QED
  BY <1>1, <1>5, <1>6 DEF u

LEMMA TellSend ==
  ASSUME NEW ch \in Seq(Tellings), NEW e \in Tellings, NEW cap \in Nat, Len(ch) <= cap
  PROVE  /\ SentTo(ch, e, cap) \in Seq(Tellings)
         /\ Len(SentTo(ch, e, cap)) <= cap
         /\ ToSet(ch) \subseteq ToSet(SentTo(ch, e, cap))
         /\ ToSet(SentTo(ch, e, cap)) \subseteq ToSet(ch) \cup {e}
         /\ Len(ch) < cap => e \in ToSet(SentTo(ch, e, cap))
         /\ Len(ch) >= cap => SentTo(ch, e, cap) = ch
         /\ InTurn(ch) /\ (\A d \in ToSet(ch) : d.feed = e.feed => d.event.at < e.event.at)
              => InTurn(SentTo(ch, e, cap))
<1>1. Len(ch) \in Nat
  BY LenProperties
<1>2. CASE Len(ch) < cap
  BY <1>1, <1>2, TellAppend DEF SentTo
<1>3. CASE ~(Len(ch) < cap)
  BY <1>1, <1>3 DEF SentTo
<1> QED
  BY <1>2, <1>3

-------------------------------------------------------------------------------
(* Types, with what they need of a collector that is handing out an event. *)

PumpTypes ==
  /\ sent \in 0 .. MaxEvents
  /\ fanout \in [to : SUBSET Lines, event : Events] \cup {None}
  /\ offered \subseteq Events
  /\ overflow \subseteq Events

ChannelTypes ==
  /\ src \in [Lines -> Seq(Events)] /\ out \in [Lines -> Seq(Events)]
  /\ \A l \in Lines : Len(src[l]) <= ChanCap /\ Len(out[l]) <= ChanCap

LineTypes ==
  /\ subscribed \subseteq Lines
  /\ filter \in [Lines -> {"off", "running", "exited"}]
  /\ done \subseteq Lines
  /\ page \in [Pages -> {"new", "opening", "open", "closing", "closed"}]

CollectorTypes ==
  /\ collector \in [Lines -> {"off", "running", "adding", "fanning", "exited"}]
  /\ delivering \in [Lines -> [to : SUBSET Subscribers, event : Events] \cup {None}]
  /\ ring \in [Pages -> Seq(Events)]
  /\ \A l \in Lines : collector[l] \in {"adding", "fanning"} =>
       delivering[l] \in [to : SUBSET Subscribers, event : Events]

InboxTypes ==
  /\ inbox \in [Subscribers -> Seq(Events)]
  /\ \A x \in Subscribers : Len(inbox[x]) <= ChanCap

WaitTypes ==
  /\ waiting \in [Subscribers -> Lines \cup {NoLine, Ended}]
  /\ heard \in [Waiters -> Seq(Events)]

StreamTypes ==
  /\ stream \in [Streams -> {"new", "opening", "writing", "leaving", "done"}]
  /\ showing \in [Streams -> Pages \cup {NoPage}]
  /\ mover \in [Feeds -> {"off", "running", "exited"}]
  /\ types \in [Streams -> Queries \cup {<< >>}]
  /\ merged \in [Streams -> Seq(Tellings)] /\ written \in [Streams -> Seq(Tellings)]
  /\ \A s \in Streams : Len(merged[s]) <= MergeCap
  /\ peer \in [Streams -> {"there", "broken", "gone"}]
  /\ \A s \in Streams : stream[s] # "new" => showing[s] \in Pages /\ types[s] \in Queries

Types ==
  /\ PumpTypes /\ ChannelTypes /\ LineTypes /\ CollectorTypes
  /\ InboxTypes /\ WaitTypes /\ StreamTypes

LEMMA TypesImplyTypeOK ==
  ASSUME Types
  PROVE  TypeOK
<1>1. \A l \in Lines : Len(src[l]) \in 0 .. ChanCap /\ Len(out[l]) \in 0 .. ChanCap
  BY LenProperties, EventPipelineAssumption DEF Types, ChannelTypes
<1> QED
  BY <1>1 DEF TypeOK, Types, PumpTypes, ChannelTypes, LineTypes, CollectorTypes, InboxTypes,
              WaitTypes, StreamTypes

(* A feed is a request and a place in its list of types, and its line, when *)
(* it has one, is one of the page's lines.                                 *)
LEMMA FeedFacts ==
  ASSUME NEW f \in Feeds
  PROVE  f \in Subscribers /\ f \notin Waiters /\ f[1] \in Streams
<1>1. f \in Subscribers /\ f[1] \in Streams
  BY DEF Feeds, Subscribers
<1>2. PICK q \in Queries : f[2] \in DOMAIN q
  BY DEF Feeds
<1>3. q \in Seq(Methods)
  BY EventPipelineAssumption
<1>4. f[2] \in Nat
  BY <1>2, <1>3
<1>5. f \in Streams \X Nat
  BY <1>1, <1>4 DEF Feeds
<1> QED
  BY <1>1, <1>5, EventPipelineAssumption

LEMMA LineOfFeed ==
  ASSUME StreamTypes, NEW f \in Feeds, f \in FeedsOf(f[1]), stream[f[1]] # "new"
  PROVE  LineOf(f) \in Lines
<1>1. f[1] \in Streams
  BY FeedFacts
<1>2. showing[f[1]] \in Pages /\ types[f[1]] \in Queries /\ f[2] \in DOMAIN types[f[1]]
  BY <1>1 DEF StreamTypes, FeedsOf
<1>3. types[f[1]] \in Seq(Methods)
  BY <1>2, EventPipelineAssumption
<1>4. types[f[1]][f[2]] \in Methods
  BY <1>2, <1>3
<1> QED
  BY <1>2, <1>4 DEF LineOf, Lines

LEMMA InitTypes ==
  ASSUME Init
  PROVE  Types
<1> USE EventPipelineAssumption DEF Init
<1>1. PumpTypes /\ LineTypes
  BY DEF PumpTypes, LineTypes
<1>2. ChannelTypes /\ InboxTypes /\ WaitTypes
  BY DEF ChannelTypes, InboxTypes, WaitTypes
<1>3. CollectorTypes
  BY DEF CollectorTypes
<1>4. StreamTypes
  BY DEF StreamTypes
<1> QED
  BY <1>1, <1>2, <1>3, <1>4 DEF Types

(* What each part of the state looks like after a step that does not touch *)
(* it, and after one that does.                                            *)
LEMMA TypesOfPumpStep ==
  ASSUME Types, FanOut \/ \E l \in Lines : Dispatch(l)
  PROVE  Types'
<1> USE EventPipelineAssumption DEF Types
<1>1. CASE FanOut
  <2>1. fanout.event \in Events
    BY <1>1 DEF FanOut, PumpTypes
  <2>2. ChannelTypes'
    <3>1. \A l \in Lines : /\ Sent(src[l], fanout.event) \in Seq(Events)
                           /\ Len(Sent(src[l], fanout.event)) <= ChanCap
      BY <2>1, SendFacts DEF ChannelTypes, Sent
    <3> QED
      BY <1>1, <3>1 DEF ChannelTypes, FanOut
  <2>3. PumpTypes'
    BY <1>1, <2>1 DEF PumpTypes, FanOut
  <2> QED
    BY <1>1, <2>2, <2>3
       DEF FanOut, LineTypes, collVars, CollectorTypes, guestVars, waitVars, streamVars,
           InboxTypes, WaitTypes, StreamTypes
<1>2. ASSUME NEW l \in Lines, Dispatch(l) PROVE Types'
  <2>1. PumpTypes'
    <3>1. [line |-> l, at |-> sent + 1] \in Events
      BY <1>2 DEF Dispatch, PumpTypes, Events
    <3> QED
      BY <1>2, <3>1 DEF Dispatch, PumpTypes, LineTypes
  <2> QED
    BY <1>2, <2>1
       DEF Dispatch, ChannelTypes, lineVars, LineTypes, collVars, CollectorTypes, guestVars,
           waitVars, streamVars, InboxTypes, WaitTypes, StreamTypes
<1> QED
  BY <1>1, <1>2
LEMMA TypesOfLineStep ==
  ASSUME Types, NEW l \in Lines,
         FilterStep(l) \/ CollectorStep(l) \/ OpenLine(l) \/ CleanupLine(l)
  PROVE  Types'
<1> USE EventPipelineAssumption DEF Types
<1> USE DEF pumpVars, lineVars, collVars, guestVars, waitVars, streamVars
<1>1. CASE FilterEvent(l)
  <2>1. /\ src[l] \in Seq(Events) /\ src[l] # << >> /\ out[l] \in Seq(Events)
        /\ Len(src[l]) <= ChanCap /\ Len(out[l]) <= ChanCap
    BY <1>1 DEF ChannelTypes, FilterEvent
  <2>2. /\ Head(src[l]) \in Events /\ Tail(src[l]) \in Seq(Events)
        /\ Len(Tail(src[l])) <= ChanCap
    BY <2>1, TailFacts, LenProperties
  <2>3. /\ Sent(out[l], Head(src[l])) \in Seq(Events)
        /\ Len(Sent(out[l], Head(src[l]))) <= ChanCap
    BY <2>1, <2>2, SendFacts DEF Sent
  <2>4. ChannelTypes'
    BY <1>1, <2>2, <2>3 DEF ChannelTypes, FilterEvent
  <2>5. PumpTypes'
    BY <1>1, <2>2 DEF PumpTypes, FilterEvent
  <2> QED
    BY <1>1, <2>4, <2>5
       DEF FilterEvent, LineTypes, CollectorTypes, InboxTypes, WaitTypes, StreamTypes
<1>2. CASE FilterExit(l)
  BY <1>2 DEF FilterExit, PumpTypes, ChannelTypes, LineTypes, CollectorTypes, InboxTypes,
              WaitTypes, StreamTypes
<1>3. CASE Collect(l)
  <2>1. out[l] \in Seq(Events) /\ out[l] # << >> /\ Len(out[l]) <= ChanCap
    BY <1>3 DEF ChannelTypes, Collect
  <2>2. /\ Head(out[l]) \in Events /\ Tail(out[l]) \in Seq(Events)
        /\ Len(Tail(out[l])) <= ChanCap
    BY <2>1, TailFacts, LenProperties
  <2>3. ChannelTypes'
    BY <1>3, <2>2 DEF ChannelTypes, Collect
  <2>4. CollectorTypes'
    <3>1. \A p \in Pages : Append(ring[p], Head(out[l])) \in Seq(Events)
      BY <2>2, AppendFacts DEF CollectorTypes
    <3>2. [to |-> {}, event |-> Head(out[l])] \in [to : SUBSET Subscribers, event : Events]
      BY <2>2
    <3>3. ring' \in [Pages -> Seq(Events)]
      BY <1>3, <3>1 DEF CollectorTypes, Collect
    <3> QED
      BY <1>3, <3>2, <3>3 DEF CollectorTypes, Collect
  <2> QED
    BY <1>3, <2>3, <2>4 DEF Collect, PumpTypes, LineTypes, InboxTypes, WaitTypes, StreamTypes
<1>4. CASE CopyWaiters(l)
  <2>1. /\ delivering[l] \in [to : SUBSET Subscribers, event : Events]
        /\ {x \in Subscribers : waiting[x] = l} \in SUBSET Subscribers
    BY <1>4 DEF CopyWaiters, CollectorTypes
  <2>2. CollectorTypes'
    BY <1>4, <2>1 DEF CopyWaiters, CollectorTypes
  <2> QED
    BY <1>4, <2>2
       DEF CopyWaiters, PumpTypes, ChannelTypes, LineTypes, InboxTypes, WaitTypes, StreamTypes
<1>5. CASE Deliver(l)
  <2>1. delivering[l].event \in Events
    BY <1>5 DEF Deliver, CollectorTypes
  <2>2. InboxTypes'
    <3>1. \A x \in Subscribers : /\ Sent(inbox[x], delivering[l].event) \in Seq(Events)
                                 /\ Len(Sent(inbox[x], delivering[l].event)) <= ChanCap
      BY <2>1, SendFacts DEF InboxTypes, Sent
    <3> QED
      BY <1>5, <3>1 DEF InboxTypes, Deliver
  <2>3. CollectorTypes'
    BY <1>5 DEF Deliver, CollectorTypes
  <2> QED
    BY <1>5, <2>2, <2>3
       DEF Deliver, PumpTypes, ChannelTypes, LineTypes, WaitTypes, StreamTypes
<1>6. CASE CollectorExit(l)
  BY <1>6 DEF CollectorExit, PumpTypes, ChannelTypes, LineTypes, CollectorTypes, InboxTypes,
              WaitTypes, StreamTypes
<1>7. CASE OpenLine(l)
  <2>1. LineTypes' /\ CollectorTypes'
    BY <1>7 DEF OpenLine, LineTypes, CollectorTypes
  <2>2. PumpTypes' /\ ChannelTypes' /\ InboxTypes' /\ WaitTypes' /\ StreamTypes'
    BY <1>7 DEF OpenLine, PumpTypes, ChannelTypes, InboxTypes, WaitTypes, StreamTypes
  <2> QED
    BY <2>1, <2>2
<1>8. CASE CleanupLine(l)
  BY <1>8 DEF CleanupLine, PumpTypes, ChannelTypes, LineTypes, CollectorTypes, InboxTypes,
              WaitTypes, StreamTypes
<1> QED
  BY <1>1, <1>2, <1>3, <1>4, <1>5, <1>6, <1>7, <1>8 DEF FilterStep, CollectorStep

LEMMA TypesOfPageStep ==
  ASSUME Types, NEW p \in Pages, ClosePage(p)
  PROVE  Types'
BY DEF Types, ClosePage, PumpTypes, ChannelTypes, LineTypes, CollectorTypes, InboxTypes, WaitTypes,
       StreamTypes, pumpVars, lineVars, collVars, guestVars, waitVars, streamVars

LEMMA TypesOfWaiterStep ==
  ASSUME Types, NEW w \in Waiters,
         Hear(w) \/ TimeOut(w) \/ \E l \in Lines : StartWait(w, l)
  PROVE  Types'
<1> USE EventPipelineAssumption DEF Types
<1> USE DEF pumpVars, lineVars, collVars, streamVars
<1>1. w \in Subscribers
  BY DEF Subscribers
<1>2. ASSUME Hear(w) PROVE InboxTypes' /\ WaitTypes'
  <2>1. inbox[w] \in Seq(Events) /\ inbox[w] # << >> /\ Len(inbox[w]) <= ChanCap
    BY <1>1, <1>2 DEF InboxTypes, Hear
  <2>2. /\ Head(inbox[w]) \in Events /\ Tail(inbox[w]) \in Seq(Events)
        /\ Len(Tail(inbox[w])) <= ChanCap
    BY <2>1, TailFacts, LenProperties
  <2>3. /\ Append(heard[w], Head(inbox[w])) \in Seq(Events)
        /\ << >> \in Seq(Events) /\ Len(<< >>) <= ChanCap
    BY <2>2, AppendFacts DEF WaitTypes
  <2> QED
    BY <1>1, <1>2, <2>2, <2>3 DEF Hear, EndWait, InboxTypes, WaitTypes
<1>3. ASSUME TimeOut(w) PROVE InboxTypes' /\ WaitTypes'
  <2>1. << >> \in Seq(Events) /\ Len(<< >>) <= ChanCap
    OBVIOUS
  <2> QED
    BY <1>1, <1>3, <2>1 DEF TimeOut, EndWait, InboxTypes, WaitTypes
<1>4. ASSUME NEW l \in Lines, StartWait(w, l) PROVE InboxTypes' /\ WaitTypes'
  BY <1>1, <1>4 DEF StartWait, InboxTypes, WaitTypes
<1>5. InboxTypes' /\ WaitTypes'
  BY <1>2, <1>3, <1>4
<1> QED
  BY <1>5 DEF Hear, TimeOut, StartWait, PumpTypes, ChannelTypes, LineTypes, CollectorTypes,
              StreamTypes

LEMMA TypesOfStreamStep ==
  ASSUME Types,
         \/ \E f \in Feeds : FeedStep(f)
         \/ \E s \in Streams : \/ StreamStep(s) \/ Breaks(s) \/ ContextEnds(s)
                               \/ \E p \in Pages, q \in Queries : OpenStream(s, p, q)
  PROVE  Types'
<1> USE EventPipelineAssumption DEF Types
<1>1. ASSUME NEW f \in Feeds, FeedStep(f) PROVE InboxTypes' /\ WaitTypes' /\ StreamTypes'
  <2>1. f \in Subscribers /\ f[1] \in Streams
    BY FeedFacts
  <2>2. CASE Subscribe(f)
    <3>1. LineOf(f) \in Lines
      BY <2>2, LineOfFeed DEF Subscribe
    <3>2. WaitTypes' /\ InboxTypes'
      BY <2>1, <2>2, <3>1 DEF Subscribe, WaitTypes, InboxTypes, LinesStay
    <3>3. StreamTypes'
      BY <2>1, <2>2 DEF Subscribe, StreamTypes
    <3> QED
      BY <3>2, <3>3
  <2>3. CASE Move(f)
    <3>1. /\ inbox[f] \in Seq(Events) /\ inbox[f] # << >> /\ Len(inbox[f]) <= ChanCap
          /\ merged[f[1]] \in Seq(Tellings) /\ Len(merged[f[1]]) <= MergeCap /\ MergeCap \in Nat
      BY <2>1, <2>3 DEF InboxTypes, StreamTypes, Move
    <3>2. /\ Head(inbox[f]) \in Events /\ Tail(inbox[f]) \in Seq(Events)
          /\ Len(Tail(inbox[f])) <= ChanCap
      BY <3>1, TailFacts, LenProperties
    <3> PICK t : t = [feed |-> f, event |-> Head(inbox[f])]
      OBVIOUS
    <3>3. t \in Tellings
      BY <3>2 DEF Tellings
    <3>4. /\ SentTo(merged[f[1]], t, MergeCap) \in Seq(Tellings)
          /\ Len(SentTo(merged[f[1]], t, MergeCap)) <= MergeCap
      BY <3>1, <3>3, TellSend
    <3>5. InboxTypes' /\ WaitTypes'
      BY <2>1, <2>3, <3>2 DEF Move, InboxTypes, WaitTypes, LinesStay
    <3>6. StreamTypes'
      BY <2>1, <2>3, <3>4 DEF Move, StreamTypes
    <3> QED
      BY <3>5, <3>6
  <2>4. CASE MoverExit(f)
    BY <2>1, <2>4 DEF MoverExit, InboxTypes, WaitTypes, StreamTypes, LinesStay
  <2>5. CASE Unsubscribe(f)
    BY <2>1, <2>5 DEF Unsubscribe, InboxTypes, WaitTypes, StreamTypes, LinesStay, streamVars
  <2> QED
    BY <1>1, <2>2, <2>3, <2>4, <2>5 DEF FeedStep
<1>2. ASSUME NEW s \in Streams, StreamStep(s) PROVE InboxTypes' /\ WaitTypes' /\ StreamTypes'
  <2>1. CASE Write(s)
    <3>1. /\ merged[s] \in Seq(Tellings) /\ merged[s] # << >> /\ Len(merged[s]) <= MergeCap
          /\ written[s] \in Seq(Tellings) /\ MergeCap \in Nat
      BY <2>1 DEF Write, StreamTypes
    <3>2. /\ Head(merged[s]) \in Tellings /\ Tail(merged[s]) \in Seq(Tellings)
          /\ Len(Tail(merged[s])) <= MergeCap
      BY <3>1, TellTail, LenProperties
    <3>3. Append(written[s], Head(merged[s])) \in Seq(Tellings)
      BY <3>1, <3>2, TellAppend
    <3>4. StreamTypes'
      <4>1. /\ merged' \in [Streams -> Seq(Tellings)] /\ written' \in [Streams -> Seq(Tellings)]
            /\ \A r \in Streams : Len(merged'[r]) <= MergeCap
        <5> PICK m, w : m = Tail(merged[s]) /\ w = Append(written[s], Head(merged[s]))
          OBVIOUS
        <5>1. /\ m \in Seq(Tellings) /\ Len(m) <= MergeCap /\ w \in Seq(Tellings)
              /\ merged' = [merged EXCEPT ![s] = m]
              /\ written' = [written EXCEPT ![s] = w] \/ written' = written
          BY <2>1, <3>2, <3>3 DEF Write
        <5>2. /\ merged \in [Streams -> Seq(Tellings)] /\ written \in [Streams -> Seq(Tellings)]
              /\ \A r \in Streams : Len(merged[r]) <= MergeCap
          BY DEF StreamTypes
        <5>3. merged' \in [Streams -> Seq(Tellings)] /\ written' \in [Streams -> Seq(Tellings)]
          BY <5>1, <5>2
        <5>4. \A r \in Streams : merged'[r] = merged[r] \/ merged'[r] = m
          BY <5>1, <5>2
        <5> QED
          BY <5>1, <5>2, <5>3, <5>4
      <4>2. /\ UNCHANGED <<showing, types, mover, peer>> /\ stream[s] # "new"
            /\ stream' = stream \/ stream' = [stream EXCEPT ![s] = "leaving"]
        BY <2>1 DEF Write
      <4> QED
        BY <4>1, <4>2 DEF StreamTypes
    <3> QED
      BY <2>1, <3>4 DEF Write, LinesStay, InboxTypes, WaitTypes
  <2>2. CASE LeaveLoop(s) \/ EndStream(s)
    BY <2>2 DEF LeaveLoop, EndStream, LinesStay, InboxTypes, WaitTypes, StreamTypes
  <2> QED
    BY <1>2, <2>1, <2>2 DEF StreamStep
<1>3. ASSUME NEW s \in Streams, Breaks(s) \/ ContextEnds(s)
      PROVE  InboxTypes' /\ WaitTypes' /\ StreamTypes'
  BY <1>3 DEF Breaks, ContextEnds, LinesStay, InboxTypes, WaitTypes, StreamTypes
<1>4. ASSUME NEW s \in Streams, NEW p \in Pages, NEW q \in Queries, OpenStream(s, p, q)
      PROVE  InboxTypes' /\ WaitTypes' /\ StreamTypes'
  BY <1>4 DEF OpenStream, LinesStay, InboxTypes, WaitTypes, StreamTypes
<1>5. InboxTypes' /\ WaitTypes' /\ StreamTypes' /\ LinesStay
  BY <1>1, <1>2, <1>3, <1>4
     DEF FeedStep, Subscribe, Move, MoverExit, Unsubscribe, StreamStep, Write, LeaveLoop,
         EndStream, Breaks, ContextEnds, OpenStream
<1> QED
  BY <1>5 DEF LinesStay, PumpTypes, ChannelTypes, LineTypes, CollectorTypes, pumpVars, lineVars,
              collVars

-------------------------------------------------------------------------------
(* Where the events of a line are: each channel, and the buffer behind     *)
(* them, has them in order, those further on are older, and an event in    *)
(* the pump's hand is the youngest of all.                                 *)

Past(e) == e.at <= sent /\ (fanout # None => e.at < fanout.event.at)

Sound(s) == Ordered(s) /\ \A e \in ToSet(s) : Past(e)

PumpInv ==
  fanout # None =>
    /\ fanout.event.at = sent
    /\ \A l \in fanout.to : MethodOf(l) = MethodOf(fanout.event.line)

LineOK(l) ==
  /\ Sound(src[l]) /\ Sound(out[l])
  /\ Before(out[l], src[l])
  /\ Before(ring[PageOf(l)], out[l])
  /\ Before(ring[PageOf(l)], src[l])
  /\ \A e \in ToSet(src[l]) : MethodOf(e.line) = MethodOf(l)
  /\ \A e \in ToSet(out[l]) : e.line = l

RingOK(p) == Sound(ring[p]) /\ \A e \in ToSet(ring[p]) : PageOf(e.line) = p

LineInv ==
  /\ PumpInv
  /\ \A l \in Lines : LineOK(l)
  /\ \A p \in Pages : RingOK(p)

LEMMA SameLine ==
  ASSUME NEW k \in Lines, NEW l \in Lines, PageOf(k) = PageOf(l), MethodOf(k) = MethodOf(l)
  PROVE  k = l
BY DEF Lines, PageOf, MethodOf

LEMMA LineTyping ==
  ASSUME Types, NEW l \in Lines
  PROVE  /\ PageOf(l) \in Pages
         /\ src[l] \in Seq(Events) /\ out[l] \in Seq(Events) /\ ring[PageOf(l)] \in Seq(Events)
         /\ Len(src[l]) <= ChanCap /\ Len(out[l]) <= ChanCap
         /\ ToSet(src[l]) \subseteq Events /\ ToSet(out[l]) \subseteq Events
         /\ ToSet(ring[PageOf(l)]) \subseteq Events
<1>1. /\ PageOf(l) \in Pages
      /\ src[l] \in Seq(Events) /\ out[l] \in Seq(Events) /\ ring[PageOf(l)] \in Seq(Events)
      /\ Len(src[l]) <= ChanCap /\ Len(out[l]) <= ChanCap
  BY DEF Types, ChannelTypes, CollectorTypes, Lines, PageOf
<1> QED
  BY <1>1, ElementsAreEvents

LEMMA LineInvDispatch ==
  ASSUME Types, LineInv, NEW l \in Lines, Dispatch(l)
  PROVE  LineInv'
<1> DEFINE e == [line |-> l, at |-> sent + 1]
           to == {k \in subscribed : MethodOf(k) = MethodOf(l)}
<1>1. /\ fanout = None /\ sent' = sent + 1 /\ sent \in Nat
      /\ fanout' = (IF to = {} THEN None ELSE [to |-> to, event |-> e])
      /\ src' = src /\ out' = out /\ ring' = ring
  <2>1. sent \in Nat
    BY EventPipelineAssumption DEF Types, PumpTypes
  <2> QED
    BY <2>1 DEF Dispatch, collVars, lineVars
<1>2. fanout' # None => fanout'.event = e /\ fanout'.to = to
  BY <1>1
<1>3. \A x \in Events : Past(x) => Past(x)'
  <2> SUFFICES ASSUME NEW x \in Events, x.at <= sent
               PROVE  x.at <= sent' /\ (fanout' # None => x.at < fanout'.event.at)
    BY DEF Past
  <2> QED
    BY <1>1, <1>2, EventFields
<1>4. PumpInv'
  BY <1>1, <1>2 DEF PumpInv
<1>5. ASSUME NEW k \in Lines PROVE LineOK(k)'
  BY <1>1, <1>3, LineTyping DEF LineInv, LineOK, Sound, Before
<1>6. ASSUME NEW p \in Pages PROVE RingOK(p)'
  <2>1. ToSet(ring[p]) \subseteq Events
    BY ElementsAreEvents DEF Types, CollectorTypes
  <2> QED
    BY <1>1, <1>3, <2>1 DEF LineInv, RingOK, Sound
<1> QED
  BY <1>4, <1>5, <1>6 DEF LineInv

LEMMA LineInvFanOut ==
  ASSUME Types, LineInv, FanOut
  PROVE  LineInv'
<1> PICK e : e = fanout.event
  OBVIOUS
<1>1. /\ fanout # None /\ fanout' = None /\ e \in Events /\ e.at = sent /\ sent \in Nat
      /\ src' = [l \in Lines |-> IF l \in fanout.to THEN Sent(src[l], e) ELSE src[l]]
      /\ out' = out /\ ring' = ring /\ sent' = sent
      /\ \A l \in fanout.to : MethodOf(l) = MethodOf(e.line)
  BY EventPipelineAssumption DEF FanOut, Types, PumpTypes, LineInv, PumpInv, collVars
<1>2. \A x \in Events : Past(x) => Past(x)' /\ x.at < e.at
  BY <1>1 DEF Past
<1>3. Past(e)'
  BY <1>1 DEF Past
<1>4. ASSUME NEW k \in Lines PROVE LineOK(k)'
  <2> USE <1>1, <1>2, LineTyping
  <2>1. LineOK(k)
    BY DEF LineInv
  <2>2. CASE k \notin fanout.to
    BY <2>1, <2>2 DEF LineOK, Sound, Before
  <2>3. CASE k \in fanout.to
    <3>1. /\ ToSet(src'[k]) \subseteq ToSet(src[k]) \cup {e}
          /\ Ordered(src[k]) /\ (\A d \in ToSet(src[k]) : d.line = e.line => d.at < e.at)
               => Ordered(src'[k])
      BY <2>3, SendFacts, EventPipelineAssumption DEF Sent
    <3>2. Sound(src[k])' /\ Sound(out[k])'
      BY <1>3, <2>1, <3>1 DEF LineOK, Sound
    <3>3. \A d \in ToSet(src'[k]) : MethodOf(d.line) = MethodOf(k)
      BY <2>1, <2>3, <3>1 DEF LineOK
    <3> QED
      BY <2>1, <3>1, <3>2, <3>3 DEF LineOK, Sound, Before, LineInv, RingOK
  <2> QED
    BY <2>2, <2>3
<1>5. ASSUME NEW p \in Pages PROVE RingOK(p)'
  <2>1. ToSet(ring[p]) \subseteq Events
    BY ElementsAreEvents DEF Types, CollectorTypes
  <2> QED
    BY <1>1, <1>2, <2>1 DEF LineInv, RingOK, Sound
<1> QED
  BY <1>1, <1>4, <1>5 DEF LineInv, PumpInv

LEMMA LineInvFilterEvent ==
  ASSUME Types, LineInv, NEW l \in Lines, FilterEvent(l)
  PROVE  LineInv'
<1> DEFINE e == Head(src[l])
<1>1. /\ src[l] # << >> /\ src' = [src EXCEPT ![l] = Tail(@)]
      /\ out' = (IF PageOf(e.line) = PageOf(l) THEN [out EXCEPT ![l] = Sent(@, e)] ELSE out)
      /\ ring' = ring /\ sent' = sent /\ fanout' = fanout
      /\ src \in [Lines -> Seq(Events)] /\ out \in [Lines -> Seq(Events)]
  BY DEF FilterEvent, pumpVars, collVars, Types, ChannelTypes
<1>2. \A x : Past(x)' = Past(x)
  BY <1>1 DEF Past
<1>3. LineOK(l) /\ Sound(ring[PageOf(l)])
  BY LineTyping DEF LineInv, RingOK
<1>4. /\ e \in Events /\ e \in ToSet(src[l]) /\ ToSet(Tail(src[l])) \subseteq ToSet(src[l])
      /\ Ordered(Tail(src[l]))
      /\ \A x \in ToSet(Tail(src[l])) : e.line = x.line => e.at < x.at
  BY <1>1, <1>3, LineTyping, TailFacts DEF LineOK, Sound
<1> HIDE DEF e
<1>5. LineOK(l)'
  <2>1. src'[l] = Tail(src[l])
    BY <1>1
  <2>2. Sound(src[l])' /\ \A x \in ToSet(src'[l]) : MethodOf(x.line) = MethodOf(l)
    BY <1>2, <1>3, <1>4, <2>1 DEF LineOK, Sound
  <2>3. CASE PageOf(e.line) # PageOf(l)
    BY <1>1, <1>2, <1>3, <1>4, <2>1, <2>2, <2>3 DEF LineOK, Sound, Before
  <2>4. CASE PageOf(e.line) = PageOf(l)
    <3>1. e.line = l
      BY <1>3, <1>4, <2>4, SameLine, EventFields DEF LineOK
    <3>2. /\ out'[l] = Sent(out[l], e)
          /\ ToSet(out'[l]) \subseteq ToSet(out[l]) \cup {e}
          /\ Ordered(out[l]) /\ (\A d \in ToSet(out[l]) : d.line = e.line => d.at < e.at)
               => Ordered(out'[l])
      BY <1>1, <1>4, <2>4, LineTyping, SendFacts, EventPipelineAssumption DEF Sent
    <3>3. Sound(out[l])'
      BY <1>2, <1>3, <1>4, <3>2 DEF LineOK, Sound, Before
    <3> QED
      BY <1>1, <1>3, <1>4, <2>1, <2>2, <3>1, <3>2, <3>3 DEF LineOK, Before
  <2> QED
    BY <2>3, <2>4
<1>6. ASSUME NEW k \in Lines, k # l PROVE LineOK(k)'
  <2>1. src'[k] = src[k] /\ out'[k] = out[k]
    BY <1>1, <1>6
  <2> QED
    BY <1>1, <1>2, <2>1 DEF LineInv, LineOK, Sound, Before
<1>7. ASSUME NEW p \in Pages PROVE RingOK(p)'
  BY <1>1, <1>2 DEF LineInv, RingOK, Sound
<1> QED
  BY <1>1, <1>5, <1>6, <1>7 DEF LineInv, PumpInv

LEMMA LineInvCollect ==
  ASSUME Types, LineInv, NEW l \in Lines, Collect(l)
  PROVE  LineInv'
<1> DEFINE e == Head(out[l])
           p == PageOf(l)
<1>1. /\ out[l] # << >> /\ out' = [out EXCEPT ![l] = Tail(@)]
      /\ ring' = [ring EXCEPT ![p] = Append(@, e)]
      /\ src' = src /\ sent' = sent /\ fanout' = fanout
      /\ out \in [Lines -> Seq(Events)] /\ ring \in [Pages -> Seq(Events)]
      /\ p \in Pages
  BY LineTyping DEF Collect, pumpVars, lineVars, Types, ChannelTypes, CollectorTypes
<1>2. \A x : Past(x)' = Past(x)
  BY <1>1 DEF Past
<1>3. LineOK(l) /\ RingOK(p)
  BY <1>1 DEF LineInv
<1>4. /\ e \in Events /\ e \in ToSet(out[l]) /\ ToSet(Tail(out[l])) \subseteq ToSet(out[l])
      /\ Ordered(Tail(out[l]))
      /\ \A x \in ToSet(Tail(out[l])) : e.line = x.line => e.at < x.at
  BY <1>1, <1>3, LineTyping, TailFacts DEF LineOK, Sound
<1>5. e.line = l /\ Past(e)
  BY <1>3, <1>4 DEF LineOK, Sound
<1>6. /\ ring'[p] = Append(ring[p], e)
      /\ ToSet(ring'[p]) = ToSet(ring[p]) \cup {e}
      /\ Ordered(ring'[p])
  <2>1. \A d \in ToSet(ring[p]) : d.line = e.line => d.at < e.at
    BY <1>3, <1>4 DEF LineOK, Before
  <2> QED
    BY <1>1, <1>3, <1>4, <2>1, AppendFacts DEF RingOK, Sound
<1> HIDE DEF e, p
<1>7. RingOK(p)'
  BY <1>2, <1>3, <1>5, <1>6 DEF RingOK, Sound, p
<1>8. LineOK(l)'
  <2>1. out'[l] = Tail(out[l]) /\ PageOf(l) = p /\ src'[l] = src[l]
    BY <1>1 DEF p
  <2>2. Sound(src[l])' /\ Sound(out[l])' /\ Before(out[l], src[l])'
    BY <1>2, <1>3, <1>4, <2>1 DEF LineOK, Sound, Before
  <2>3. Before(ring[PageOf(l)], out[l])' /\ Before(ring[PageOf(l)], src[l])'
    <3>1. ToSet(ring'[PageOf(l)]) = ToSet(ring[PageOf(l)]) \cup {e}
      BY <1>6, <2>1
    <3> QED
      BY <1>3, <1>4, <2>1, <3>1 DEF LineOK, Before
  <2> QED
    BY <1>3, <1>4, <2>1, <2>2, <2>3 DEF LineOK
<1>9. ASSUME NEW k \in Lines, k # l PROVE LineOK(k)'
  <2>1. out'[k] = out[k] /\ src'[k] = src[k] /\ LineOK(k)
    BY <1>1, <1>9 DEF LineInv
  <2>2. Sound(src[k])' /\ Sound(out[k])' /\ Before(out[k], src[k])'
    BY <1>2, <2>1 DEF LineOK, Sound, Before
  <2>3. CASE PageOf(k) # p
    <3>1. ring'[PageOf(k)] = ring[PageOf(k)]
      BY <1>1, <2>3
    <3> QED
      BY <2>1, <2>2, <3>1 DEF LineOK, Before
  <2>4. CASE PageOf(k) = p
    <3>1. MethodOf(k) # MethodOf(l)
      BY <1>9, <2>4, SameLine DEF p
    <3> QED
      BY <1>5, <1>6, <2>1, <2>2, <2>4, <3>1 DEF LineOK, Before
  <2> QED
    BY <2>3, <2>4
<1>10. ASSUME NEW q \in Pages, q # p PROVE RingOK(q)'
  <2>1. ring'[q] = ring[q]
    BY <1>1, <1>10
  <2> QED
    BY <1>2, <2>1 DEF LineInv, RingOK, Sound
<1> QED
  BY <1>1, <1>7, <1>8, <1>9, <1>10 DEF LineInv, PumpInv

LEMMA LineInvFrame ==
  ASSUME LineInv, UNCHANGED <<sent, fanout, src, out, ring>>
  PROVE  LineInv'
BY DEF LineInv, PumpInv, LineOK, RingOK, Sound, Past, Before

-------------------------------------------------------------------------------
(* Where an event can be: while its line was subscribed it is somewhere,   *)
(* and an event that was dropped is nowhere else.                          *)

Held(e) ==
  \/ fanout # None /\ fanout.event = e
  \/ e \in ToSet(src[e.line])
  \/ e \in ToSet(out[e.line])
  \/ e \in ToSet(ring[PageOf(e.line)])

LostInv == \A e \in overflow : Past(e) /\ ~Held(e)

OfferedInv ==
  /\ \A e \in offered : e.at <= sent /\ (Held(e) \/ e \in overflow)
  /\ fanout # None /\ fanout.event \in offered => fanout.event.line \in fanout.to

ConserveInv == LostInv /\ OfferedInv

LEMMA ConserveDispatch ==
  ASSUME Types, LineInv, ConserveInv, NEW l \in Lines, Dispatch(l)
  PROVE  ConserveInv'
<1> PICK e : e = [line |-> l, at |-> sent + 1]
  OBVIOUS
<1> DEFINE to == {k \in subscribed : MethodOf(k) = MethodOf(l)}
<1>0. sent \in Nat /\ overflow \subseteq Events /\ offered \subseteq Events
  BY EventPipelineAssumption DEF Types, PumpTypes
<1>1. /\ fanout = None /\ sent' = sent + 1 /\ sent \in Nat
      /\ fanout' = (IF to = {} THEN None ELSE [to |-> to, event |-> e])
      /\ offered' = (IF l \in subscribed THEN offered \cup {e} ELSE offered)
      /\ src' = src /\ out' = out /\ ring' = ring /\ overflow' = overflow
      /\ e.at = sent + 1 /\ e.line = l
  BY <1>0 DEF Dispatch, collVars, lineVars
<1>2. fanout' # None => fanout'.event = e /\ fanout'.to = to
  BY <1>1
<1>3. l \in subscribed => l \in to /\ fanout' # None
  <2>1. l \in subscribed => l \in to
    OBVIOUS
  <2>2. [to |-> to, event |-> e] # None
    BY DEF None
  <2>3. to # {} => fanout' # None
    BY <1>1, <2>2
  <2> QED
    BY <2>1, <2>3
<1> HIDE DEF to
<1>4. ASSUME NEW x \in Events, x.at <= sent PROVE Held(x)' = Held(x) /\ Past(x)'
  <2>1. x.at # e.at /\ x.at < e.at /\ x.at <= sent'
    BY <1>1, <1>4, EventFields
  <2> QED
    BY <1>1, <1>2, <2>1 DEF Held, Past
<1>5. LostInv'
  BY <1>0, <1>1, <1>4 DEF ConserveInv, LostInv, Past
<1>6. ASSUME NEW x \in offered' PROVE x.at <= sent' /\ (Held(x)' \/ x \in overflow')
  <2>1. CASE x \in offered
    <3>1. x.at <= sent /\ x \in Events
      BY <1>0, <2>1 DEF ConserveInv, OfferedInv
    <3>2. x.at <= sent'
      BY <1>1, <3>1, EventFields
    <3> QED
      BY <1>1, <1>4, <2>1, <3>1, <3>2 DEF ConserveInv, OfferedInv
  <2>2. CASE x \notin offered
    <3>1. x = e /\ l \in subscribed
      BY <1>1, <1>6, <2>2
    <3> QED
      BY <1>1, <1>2, <1>3, <3>1 DEF Held
  <2> QED
    BY <2>1, <2>2
<1>7. fanout' # None /\ fanout'.event \in offered' => fanout'.event.line \in fanout'.to
  <2> SUFFICES ASSUME fanout' # None, e \in offered' PROVE l \in to
    BY <1>1, <1>2
  <2>1. e \notin offered
    BY <1>1, EventFields, <1>0 DEF ConserveInv, OfferedInv
  <2> QED
    BY <1>1, <1>3, <2>1
<1> QED
  BY <1>5, <1>6, <1>7 DEF ConserveInv, OfferedInv

LEMMA ConserveFanOut ==
  ASSUME Types, LineInv, ConserveInv, FanOut
  PROVE  ConserveInv'
<1> PICK e : e = fanout.event
  OBVIOUS
<1>0. /\ overflow \subseteq Events /\ offered \subseteq Events /\ e \in Events
      /\ e.line \in Lines
  BY EventFields DEF FanOut, Types, PumpTypes
<1>1. /\ fanout # None /\ fanout' = None /\ e.at = sent /\ sent \in Nat /\ sent' = sent
      /\ src' = [l \in Lines |-> IF l \in fanout.to THEN Sent(src[l], e) ELSE src[l]]
      /\ out' = out /\ ring' = ring /\ offered' = offered
      /\ overflow' = overflow \cup {e : l \in {k \in fanout.to : k = e.line /\ Full(src[k])}}
  BY EventPipelineAssumption DEF FanOut, Types, PumpTypes, LineInv, PumpInv, collVars
<1>2. \A x \in Events : Past(x) => Past(x)' /\ x # e
  BY <1>1, EventFields DEF Past
<1>3. Past(e)'
  BY <1>1 DEF Past
<1>4. \A l \in Lines : /\ ToSet(src[l]) \subseteq ToSet(src'[l])
                       /\ ToSet(src'[l]) \subseteq ToSet(src[l]) \cup {e}
                       /\ l \in fanout.to /\ ~Full(src[l]) => e \in ToSet(src'[l])
                       /\ Full(src[l]) => src'[l] = src[l]
  <2> SUFFICES ASSUME NEW l \in Lines
               PROVE /\ ToSet(src[l]) \subseteq ToSet(src'[l])
                     /\ ToSet(src'[l]) \subseteq ToSet(src[l]) \cup {e}
                     /\ l \in fanout.to /\ ~Full(src[l]) => e \in ToSet(src'[l])
                     /\ Full(src[l]) => src'[l] = src[l]
    OBVIOUS
  <2>1. ChanCap \in Nat /\ Len(src[l]) \in Nat
    BY EventPipelineAssumption, LineTyping, LenProperties
  <2> QED
    BY <1>0, <1>1, <2>1, LineTyping, SendFacts DEF Sent, Full
<1>5. ~(\/ e \in ToSet(src[e.line]) \/ e \in ToSet(out[e.line])
        \/ e \in ToSet(ring[PageOf(e.line)]))
  BY <1>0, <1>2, LineTyping DEF LineInv, LineOK, RingOK, Sound
<1>6. ASSUME NEW x \in overflow' PROVE Past(x)' /\ ~Held(x)'
  <2>1. CASE x \in overflow
    <3>1. Past(x) /\ ~Held(x) /\ x \in Events /\ x # e /\ x.line \in Lines
      BY <1>0, <1>2, <2>1, EventFields DEF ConserveInv, LostInv
    <3> QED
      BY <1>1, <1>2, <1>4, <3>1 DEF Held
  <2>2. CASE x \notin overflow
    <3>1. x = e /\ Full(src[e.line])
      BY <1>1, <1>6, <2>2
    <3>2. src'[e.line] = src[e.line]
      BY <1>0, <1>4, <3>1
    <3> QED
      BY <1>1, <1>3, <1>5, <3>1, <3>2 DEF Held
  <2> QED
    BY <2>1, <2>2
<1>7. ASSUME NEW x \in offered PROVE Held(x)' \/ x \in overflow'
  <2>1. x \in Events /\ x.line \in Lines /\ (Held(x) \/ x \in overflow)
    BY <1>0, EventFields DEF ConserveInv, OfferedInv
  <2>2. CASE x # e
    BY <1>1, <1>4, <2>1, <2>2 DEF Held
  <2>3. CASE x = e
    <3>1. e.line \in fanout.to
      BY <1>1, <2>3 DEF ConserveInv, OfferedInv
    <3>2. CASE Full(src[e.line])
      BY <1>1, <2>3, <3>1, <3>2
    <3>3. CASE ~Full(src[e.line])
      BY <1>0, <1>4, <2>3, <3>1, <3>3 DEF Held
    <3> QED
      BY <3>2, <3>3
  <2> QED
    BY <2>2, <2>3
<1> QED
  BY <1>1, <1>6, <1>7 DEF ConserveInv, LostInv, OfferedInv

LEMMA ConserveFilterEvent ==
  ASSUME Types, LineInv, ConserveInv, NEW l \in Lines, FilterEvent(l)
  PROVE  ConserveInv'
<1> DEFINE e == Head(src[l])
           mine == PageOf(e.line) = PageOf(l)
<1>0. overflow \subseteq Events /\ offered \subseteq Events
  BY DEF Types, PumpTypes
<1>1. /\ src[l] # << >> /\ src' = [src EXCEPT ![l] = Tail(@)]
      /\ out' = (IF mine THEN [out EXCEPT ![l] = Sent(@, e)] ELSE out)
      /\ overflow' = (IF mine /\ Full(out[l]) THEN overflow \cup {e} ELSE overflow)
      /\ ring' = ring /\ sent' = sent /\ fanout' = fanout /\ offered' = offered
      /\ src \in [Lines -> Seq(Events)] /\ out \in [Lines -> Seq(Events)]
  BY DEF FilterEvent, pumpVars, collVars, Types, ChannelTypes
<1>2. \A x : Past(x)' = Past(x)
  BY <1>1 DEF Past
<1>3. LineOK(l)
  BY DEF LineInv
<1>4. /\ e \in Events /\ e \in ToSet(src[l]) /\ ToSet(src[l]) = ToSet(Tail(src[l])) \cup {e}
      /\ \A x \in ToSet(Tail(src[l])) : e.line = x.line => e.at < x.at
      /\ Past(e)
  BY <1>1, <1>3, LineTyping, TailFacts DEF LineOK, Sound
<1>5. mine => e.line = l
  BY <1>3, <1>4, SameLine, EventFields DEF LineOK
<1> HIDE DEF e
<1>6. mine => /\ e \notin ToSet(Tail(src[l])) /\ e \notin ToSet(out[l])
              /\ e \notin ToSet(ring[PageOf(l)]) /\ ~(fanout # None /\ fanout.event = e)
              /\ Held(e)
  <2> SUFFICES ASSUME mine PROVE /\ e \notin ToSet(Tail(src[l])) /\ e \notin ToSet(out[l])
                                 /\ e \notin ToSet(ring[PageOf(l)])
                                 /\ ~(fanout # None /\ fanout.event = e)
                                 /\ Held(e)
    OBVIOUS
  <2>1. e.at \in Nat /\ ~(e.at < e.at)
    BY <1>4, EventFields
  <2> QED
    BY <1>3, <1>4, <1>5, <2>1 DEF LineOK, Before, Past, Held
<1>7. /\ src'[l] = Tail(src[l]) /\ (\A k \in Lines \ {l} : src'[k] = src[k] /\ out'[k] = out[k])
      /\ ~mine => out'[l] = out[l]
      /\ mine => /\ out'[l] = Sent(out[l], e)
                 /\ ToSet(out[l]) \subseteq ToSet(out'[l])
                 /\ ToSet(out'[l]) \subseteq ToSet(out[l]) \cup {e}
                 /\ ~Full(out[l]) => e \in ToSet(out'[l])
                 /\ Full(out[l]) => out'[l] = out[l]
  <2>1. ChanCap \in Nat /\ Len(out[l]) \in Nat
    BY EventPipelineAssumption, LineTyping, LenProperties
  <2>2. mine => out'[l] = Sent(out[l], e)
    BY <1>1
  <2>3. /\ src'[l] = Tail(src[l]) /\ (\A k \in Lines \ {l} : src'[k] = src[k] /\ out'[k] = out[k])
        /\ ~mine => out'[l] = out[l]
    BY <1>1
  <2> QED
    BY <1>4, <2>1, <2>2, <2>3, LineTyping, SendFacts DEF Sent, Full
<1> HIDE DEF mine
<1>8. ASSUME NEW x \in overflow' PROVE Past(x)' /\ ~Held(x)'
  <2>1. CASE x \in overflow
    <3>1. Past(x) /\ ~Held(x) /\ x \in Events /\ x.line \in Lines
      BY <1>0, <2>1, EventFields DEF ConserveInv, LostInv
    <3>2. mine => x # e
      BY <1>6, <3>1
    <3>3. CASE x.line = l
      <4>1. ~mine => x # e
        BY <1>4, <3>1, <3>3 DEF Held
      <4>2. x # e /\ x \notin ToSet(src'[l]) /\ x \notin ToSet(out'[l])
        BY <1>4, <1>7, <3>1, <3>2, <3>3, <4>1 DEF Held
      <4> QED
        BY <1>1, <1>2, <3>1, <3>3, <4>2 DEF Held
    <3>4. CASE x.line # l
      BY <1>1, <1>2, <1>7, <3>1, <3>4 DEF Held
    <3> QED
      BY <3>3, <3>4
  <2>2. CASE x \notin overflow
    <3>1. x = e /\ mine /\ Full(out[l])
      BY <1>1, <1>8, <2>2
    <3> QED
      BY <1>1, <1>2, <1>4, <1>5, <1>6, <1>7, <3>1 DEF Held
  <2> QED
    BY <2>1, <2>2
<1>9. ASSUME NEW x \in offered PROVE Held(x)' \/ x \in overflow'
  <2>1. x \in Events /\ x.line \in Lines /\ (Held(x) \/ x \in overflow)
    BY <1>0, EventFields DEF ConserveInv, OfferedInv
  <2>2. CASE x = e /\ x.line = l
    <3>1. mine
      BY <2>2 DEF mine
    <3> QED
      BY <1>1, <1>7, <2>2, <3>1 DEF Held
  <2>3. CASE ~(x = e /\ x.line = l)
    <3>1. x \in ToSet(src[x.line]) => x \in ToSet(src'[x.line])
      BY <1>4, <1>7, <2>1, <2>3
    <3>2. x \in ToSet(out[x.line]) => x \in ToSet(out'[x.line])
      BY <1>7, <2>1
    <3> QED
      BY <1>1, <2>1, <3>1, <3>2 DEF Held
  <2> QED
    BY <2>2, <2>3
<1> QED
  BY <1>1, <1>8, <1>9 DEF ConserveInv, LostInv, OfferedInv

LEMMA ConserveCollect ==
  ASSUME Types, LineInv, ConserveInv, NEW l \in Lines, Collect(l)
  PROVE  ConserveInv'
<1> PICK e, p : e = Head(out[l]) /\ p = PageOf(l)
  OBVIOUS
<1>0. overflow \subseteq Events /\ offered \subseteq Events
  BY DEF Types, PumpTypes
<1>1. /\ out[l] # << >> /\ out' = [out EXCEPT ![l] = Tail(@)]
      /\ ring' = [ring EXCEPT ![p] = Append(@, e)]
      /\ src' = src /\ sent' = sent /\ fanout' = fanout
      /\ overflow' = overflow /\ offered' = offered
      /\ out \in [Lines -> Seq(Events)] /\ ring \in [Pages -> Seq(Events)]
      /\ p \in Pages
  BY LineTyping DEF Collect, pumpVars, lineVars, Types, ChannelTypes, CollectorTypes
<1>2. \A x : Past(x)' = Past(x)
  BY <1>1 DEF Past
<1>3. /\ e \in Events /\ e \in ToSet(out[l]) /\ ToSet(out[l]) = ToSet(Tail(out[l])) \cup {e}
      /\ e.line = l
  BY <1>1, LineTyping, TailFacts DEF LineInv, LineOK
<1>4. /\ ring'[p] = Append(ring[p], e)
      /\ ToSet(ring'[p]) = ToSet(ring[p]) \cup {e}
  BY <1>1, <1>3, AppendFacts
<1>5. /\ out'[l] = Tail(out[l]) /\ (\A k \in Lines \ {l} : out'[k] = out[k])
      /\ \A q \in Pages \ {p} : ring'[q] = ring[q]
  BY <1>1
<1>6. ASSUME NEW x \in Events, x # e PROVE Held(x)' = Held(x)
  <2>1. x.line \in Lines /\ PageOf(x.line) \in Pages
    BY EventFields
  <2>2. x \in ToSet(out'[x.line]) <=> x \in ToSet(out[x.line])
    BY <1>3, <1>5, <1>6, <2>1
  <2>3. x \in ToSet(ring'[PageOf(x.line)]) <=> x \in ToSet(ring[PageOf(x.line)])
    BY <1>4, <1>5, <1>6, <2>1
  <2> QED
    BY <1>1, <2>2, <2>3 DEF Held
<1>7. Held(e) /\ Held(e)'
  BY <1>1, <1>3, <1>4 DEF Held
<1>8. LostInv'
  BY <1>0, <1>1, <1>2, <1>6, <1>7 DEF ConserveInv, LostInv
<1>9. OfferedInv'
  BY <1>0, <1>1, <1>6, <1>7 DEF ConserveInv, OfferedInv
<1> QED
  BY <1>8, <1>9 DEF ConserveInv

LEMMA ConserveFrame ==
  ASSUME ConserveInv, UNCHANGED <<sent, fanout, src, out, ring, offered, overflow>>
  PROVE  ConserveInv'
BY DEF ConserveInv, LostInv, OfferedInv, Held, Past
-------------------------------------------------------------------------------
(* What a subscriber may have been told: what is in the buffer and, while  *)
(* the collector still hands out an event of the line, older than that.    *)

Busy(l) == collector[l] \in {"adding", "fanning"}

CollectorOK(l) ==
  Busy(l) => delivering[l].event.line = l /\ delivering[l].event \in ToSet(ring[PageOf(l)])

CollectorInv == \A l \in Lines : CollectorOK(l)

Known(e) ==
  /\ e \in ToSet(ring[PageOf(e.line)])
  /\ Busy(e.line) => e.at < delivering[e.line].event.at

LEMMA KnownFrame ==
  ASSUME CollectorInv, UNCHANGED collVars
  PROVE  CollectorInv' /\ \A e : Known(e)' = Known(e)
BY DEF CollectorInv, CollectorOK, Known, Busy, collVars

LEMMA KnownCollect ==
  ASSUME Types, LineInv, CollectorInv, NEW l \in Lines, Collect(l)
  PROVE  CollectorInv' /\ \A e \in Events : Known(e) => Known(e)'
<1> PICK d, p : d = Head(out[l]) /\ p = PageOf(l)
  OBVIOUS
<1>1. /\ out[l] # << >>
      /\ ring' = [ring EXCEPT ![p] = Append(@, d)]
      /\ delivering' = [delivering EXCEPT ![l] = [to |-> {}, event |-> d]]
      /\ collector' = [collector EXCEPT ![l] = "adding"]
      /\ ring \in [Pages -> Seq(Events)] /\ p \in Pages
      /\ DOMAIN delivering = Lines /\ DOMAIN collector = Lines
  BY LineTyping DEF Collect, Types, CollectorTypes
<1>2. d \in Events /\ d \in ToSet(out[l]) /\ d.line = l
  BY <1>1, LineTyping, TailFacts DEF LineInv, LineOK
<1>3. /\ ToSet(ring'[p]) = ToSet(ring[p]) \cup {d}
      /\ \A q \in Pages \ {p} : ring'[q] = ring[q]
  BY <1>1, <1>2, AppendFacts
<1>4. /\ delivering'[l].event = d /\ collector'[l] = "adding"
      /\ \A k \in Lines \ {l} : delivering'[k] = delivering[k] /\ collector'[k] = collector[k]
  BY <1>1
<1>5. CollectorInv'
  <2> SUFFICES ASSUME NEW k \in Lines PROVE CollectorOK(k)'
    BY DEF CollectorInv
  <2>1. CASE k = l
    BY <1>2, <1>3, <1>4, <2>1 DEF CollectorOK
  <2>2. CASE k # l
    <3>1. PageOf(k) \in Pages
      BY LineTyping
    <3> QED
      BY <1>3, <1>4, <2>2, <3>1 DEF CollectorInv, CollectorOK, Busy
  <2> QED
    BY <2>1, <2>2
<1>6. ASSUME NEW e \in Events, Known(e) PROVE Known(e)'
  <2>1. e.line \in Lines /\ PageOf(e.line) \in Pages
    BY EventFields
  <2>2. e \in ToSet(ring'[PageOf(e.line)])
    BY <1>3, <1>6, <2>1 DEF Known
  <2>3. CASE e.line = l
    <3>1. e.at < d.at
      BY <1>2, <1>6, <2>3 DEF Known, LineInv, LineOK, Before
    <3> QED
      BY <1>4, <2>2, <2>3, <3>1 DEF Known
  <2>4. CASE e.line # l
    BY <1>4, <1>6, <2>1, <2>2, <2>4 DEF Known, Busy
  <2> QED
    BY <2>3, <2>4
<1> QED
  BY <1>5, <1>6

LEMMA KnownLineStep ==
  ASSUME Types, LineInv, CollectorInv, NEW l \in Lines, CollectorStep(l) \/ OpenLine(l)
  PROVE  CollectorInv' /\ \A e \in Events : Known(e) => Known(e)'
<1>1. CASE Collect(l)
  BY <1>1, KnownCollect
<1>2. CASE CopyWaiters(l)
  <2>1. /\ Busy(l) /\ ring' = ring /\ delivering'[l].event = delivering[l].event
        /\ \A k \in Lines \ {l} : delivering'[k] = delivering[k] /\ collector'[k] = collector[k]
    BY <1>2 DEF CopyWaiters, Busy, Types, CollectorTypes
  <2> QED
    BY <2>1, EventFields DEF CollectorInv, CollectorOK, Known, Busy
<1>3. CASE Deliver(l) \/ CollectorExit(l) \/ OpenLine(l)
  <2>1. /\ collector'[l] \in {"running", "exited"} /\ ring' = ring
        /\ \A k \in Lines \ {l} : delivering'[k] = delivering[k] /\ collector'[k] = collector[k]
    BY <1>3 DEF Deliver, CollectorExit, OpenLine, Types, CollectorTypes
  <2> QED
    BY <2>1, EventFields DEF CollectorInv, CollectorOK, Known, Busy
<1> QED
  BY <1>1, <1>2, <1>3 DEF CollectorStep

(* What a collector hands out is in the buffer, and younger than all that  *)
(* anybody was told of its line.                                           *)
LEMMA KnownDeliver ==
  ASSUME Types, LineInv, CollectorInv, NEW l \in Lines, Deliver(l),
         NEW e, e = delivering[l].event
  PROVE  /\ e \in Events /\ e.line = l /\ Known(e)'
         /\ \A d \in Events : Known(d) /\ d.line = l => d.at < e.at
         /\ \A x \in Subscribers : \/ inbox'[x] = inbox[x]
                                   \/ waiting[x] = l /\ inbox'[x] = Sent(inbox[x], e)
<1>1. Busy(l) /\ e \in Events /\ e.line = l /\ e \in ToSet(ring[PageOf(l)])
  BY DEF Deliver, Busy, CollectorInv, CollectorOK, Types, CollectorTypes
<1>2. ~Busy(l)' /\ ring' = ring
  BY DEF Deliver, Busy, Types, CollectorTypes
<1>3. \A x \in Subscribers : \/ inbox'[x] = inbox[x]
                             \/ waiting[x] = l /\ inbox'[x] = Sent(inbox[x], e)
  BY DEF Deliver
<1> QED
  BY <1>1, <1>2, <1>3 DEF Known
-------------------------------------------------------------------------------
(* The guests: a waiter's channel follows what it heard, a feed's channel  *)
(* follows what its stream was told by that feed.                          *)

Told(s) == Ordered(s) /\ \A e \in ToSet(s) : Known(e)

WaiterOK(w) ==
  /\ Told(heard[w]) /\ Told(inbox[w]) /\ Before(heard[w], inbox[w])
  /\ \A d, e \in ToSet(heard[w]) \cup ToSet(inbox[w]) : d.line = e.line
  /\ waiting[w] \in Lines =>
       \A e \in ToSet(heard[w]) \cup ToSet(inbox[w]) : e.line = waiting[w]
  /\ waiting[w] = NoLine => heard[w] = << >> /\ inbox[w] = << >>

StreamOK(s) ==
  /\ InTurn(written[s]) /\ InTurn(merged[s]) /\ Earlier(written[s], merged[s])
  /\ \A t \in ToSet(written[s]) \cup ToSet(merged[s]) :
       t.feed \in FeedsOf(s) /\ t.event.line = LineOf(t.feed) /\ Known(t.event)
  /\ stream[s] = "new" => written[s] = << >> /\ merged[s] = << >>

Ahead(told, f, box) == \A t \in ToSet(told), e \in ToSet(box) : t.feed = f => t.event.at < e.at

FeedOK(f) ==
  /\ Told(inbox[f])
  /\ Ahead(written[f[1]], f, inbox[f]) /\ Ahead(merged[f[1]], f, inbox[f])
  /\ \A e \in ToSet(inbox[f]) : e.line = LineOf(f)
  /\ waiting[f] \in Lines => waiting[f] = LineOf(f)
  /\ waiting[f] \in Lines \/ inbox[f] # << >> => f \in FeedsOf(f[1])
  /\ stream[f[1]] = "new" => inbox[f] = << >> /\ waiting[f] \notin Lines

GuestInv ==
  /\ \A w \in Waiters : WaiterOK(w)
  /\ \A s \in Streams : StreamOK(s)
  /\ \A f \in Feeds : FeedOK(f)

LEMMA GuestTyping ==
  ASSUME Types
  PROVE  /\ \A x \in Subscribers : /\ inbox[x] \in Seq(Events) /\ Len(inbox[x]) <= ChanCap
                                   /\ ToSet(inbox[x]) \subseteq Events
         /\ \A w \in Waiters : /\ w \in Subscribers /\ heard[w] \in Seq(Events)
                               /\ ToSet(heard[w]) \subseteq Events
         /\ \A s \in Streams : /\ merged[s] \in Seq(Tellings) /\ written[s] \in Seq(Tellings)
                               /\ Len(merged[s]) <= MergeCap
         /\ \A s \in Streams : \A t \in ToSet(merged[s]) \cup ToSet(written[s]) :
              t \in Tellings /\ t.feed \in Feeds /\ t.event \in Events
         /\ \A f \in Feeds : f \in Subscribers /\ f \notin Waiters /\ f[1] \in Streams
<1>1. /\ \A x \in Subscribers : inbox[x] \in Seq(Events) /\ Len(inbox[x]) <= ChanCap
      /\ \A w \in Waiters : w \in Subscribers /\ heard[w] \in Seq(Events)
      /\ \A s \in Streams : /\ merged[s] \in Seq(Tellings) /\ written[s] \in Seq(Tellings)
                            /\ Len(merged[s]) <= MergeCap
  BY DEF Types, InboxTypes, WaitTypes, StreamTypes, Subscribers
<1>2. \A f \in Feeds : f \in Subscribers /\ f \notin Waiters /\ f[1] \in Streams
  BY FeedFacts
<1>3. \A t \in Tellings : t.feed \in Feeds /\ t.event \in Events
  BY DEF Tellings
<1> QED
  BY <1>1, <1>2, <1>3, ElementsAreEvents, ElementsAreTellings

(* The feeds of a stream and their lines are settled when it is opened.    *)
LEMMA FeedsStay ==
  ASSUME UNCHANGED <<showing, types>>
  PROVE  (\A s : FeedsOf(s)' = FeedsOf(s)) /\ (\A f : LineOf(f)' = LineOf(f))
BY DEF FeedsOf, LineOf

LEMMA GuestsFrame ==
  ASSUME Types, GuestInv, UNCHANGED guestVars, \A e \in Events : Known(e) => Known(e)'
  PROVE  GuestInv'
<1>0. /\ waiting' = waiting /\ inbox' = inbox /\ heard' = heard /\ stream' = stream
      /\ showing' = showing /\ types' = types
      /\ merged' = merged /\ written' = written
  BY DEF guestVars, waitVars, streamVars
<1>f. (\A s : FeedsOf(s)' = FeedsOf(s)) /\ (\A f : LineOf(f)' = LineOf(f))
  BY <1>0, FeedsStay
<1>1. \A w \in Waiters : WaiterOK(w)'
  BY <1>0, GuestTyping DEF GuestInv, WaiterOK, Told, Before
<1>2. \A s \in Streams : StreamOK(s)'
  BY <1>0, <1>f, GuestTyping DEF GuestInv, StreamOK, Earlier
<1>3. \A f \in Feeds : FeedOK(f)'
  BY <1>0, <1>f, GuestTyping DEF GuestInv, FeedOK, Told, Ahead
<1> QED
  BY <1>1, <1>2, <1>3 DEF GuestInv

LEMMA GuestsDeliver ==
  ASSUME Types, LineInv, CollectorInv, GuestInv, NEW l \in Lines, Deliver(l)
  PROVE  GuestInv'
<1> PICK e : e = delivering[l].event
  OBVIOUS
<1>0. /\ waiting' = waiting /\ heard' = heard /\ stream' = stream
      /\ showing' = showing /\ types' = types /\ merged' = merged /\ written' = written
  BY DEF Deliver, streamVars
<1>f. (\A s : FeedsOf(s)' = FeedsOf(s)) /\ (\A f : LineOf(f)' = LineOf(f))
  BY <1>0, FeedsStay
<1>1. /\ e \in Events /\ e.line = l /\ Known(e)'
      /\ \A d \in Events : Known(d) /\ d.line = l => d.at < e.at
      /\ \A x \in Subscribers : \/ inbox'[x] = inbox[x]
                                \/ waiting[x] = l /\ inbox'[x] = Sent(inbox[x], e)
  BY KnownDeliver
<1>2. \A d \in Events : Known(d) => Known(d)'
  BY KnownLineStep DEF CollectorStep
<1>3. \A x \in Subscribers : Told(inbox[x]) =>
        /\ Told(inbox[x])'
        /\ ToSet(inbox'[x]) \subseteq ToSet(inbox[x]) \cup {e}
        /\ waiting[x] # l => inbox'[x] = inbox[x]
  <2> SUFFICES ASSUME NEW x \in Subscribers, Told(inbox[x])
               PROVE  /\ Told(inbox[x])'
                      /\ ToSet(inbox'[x]) \subseteq ToSet(inbox[x]) \cup {e}
                      /\ waiting[x] # l => inbox'[x] = inbox[x]
    OBVIOUS
  <2>1. CASE inbox'[x] = inbox[x]
    BY <1>2, <2>1, GuestTyping DEF Told
  <2>2. CASE waiting[x] = l /\ inbox'[x] = Sent(inbox[x], e)
    <3>1. /\ ToSet(inbox'[x]) \subseteq ToSet(inbox[x]) \cup {e}
          /\ Ordered(inbox[x]) /\ (\A d \in ToSet(inbox[x]) : d.line = e.line => d.at < e.at)
               => Ordered(inbox'[x])
      BY <1>1, <2>2, GuestTyping, SendFacts, EventPipelineAssumption DEF Sent
    <3> QED
      BY <1>1, <1>2, <2>2, <3>1, GuestTyping DEF Told
  <2> QED
    BY <1>1, <2>1, <2>2
<1>4. ASSUME NEW w \in Waiters PROVE WaiterOK(w)'
  <2>1. WaiterOK(w) /\ w \in Subscribers
    BY GuestTyping DEF GuestInv
  <2>2. CASE waiting[w] # l
    BY <1>0, <1>2, <1>3, <2>1, <2>2, GuestTyping DEF WaiterOK, Told, Before
  <2>3. CASE waiting[w] = l
    <3>1. l # NoLine
      BY EventPipelineAssumption DEF Lines
    <3>2. Told(heard[w])'
      BY <1>0, <1>2, <2>1, GuestTyping DEF WaiterOK, Told
    <3>3. Before(heard[w], inbox[w])'
      BY <1>0, <1>1, <1>3, <2>1, GuestTyping DEF WaiterOK, Told, Before
    <3>4. \A d \in ToSet(heard[w]) \cup ToSet(inbox'[w]) : d.line = l
      BY <1>1, <1>3, <2>1, <2>3 DEF WaiterOK
    <3> QED
      BY <1>0, <1>3, <2>1, <2>3, <3>1, <3>2, <3>3, <3>4 DEF WaiterOK
  <2> QED
    BY <2>2, <2>3
<1>5. ASSUME NEW s \in Streams PROVE StreamOK(s)'
  BY <1>0, <1>2, <1>f, GuestTyping DEF GuestInv, StreamOK, Earlier
<1>6. ASSUME NEW f \in Feeds PROVE FeedOK(f)'
  <2>1. FeedOK(f) /\ f \in Subscribers /\ StreamOK(f[1]) /\ f[1] \in Streams
    BY GuestTyping DEF GuestInv
  <2>2. CASE waiting[f] # l
    BY <1>0, <1>3, <1>f, <2>1, <2>2 DEF FeedOK, Ahead
  <2>3. CASE waiting[f] = l
    <3>1. stream[f[1]] # "new" /\ l = LineOf(f) /\ f \in FeedsOf(f[1])
      BY <2>1, <2>3 DEF FeedOK
    <3>2. ToSet(inbox'[f]) \subseteq ToSet(inbox[f]) \cup {e} /\ Told(inbox[f])'
      BY <1>3, <2>1 DEF FeedOK
    <3>3. \A t \in ToSet(written[f[1]]) \cup ToSet(merged[f[1]]) :
            t.feed = f => t.event.at < e.at
      BY <1>1, <2>1, <3>1, GuestTyping DEF StreamOK
    <3>4. Ahead(written[f[1]], f, inbox[f])' /\ Ahead(merged[f[1]], f, inbox[f])'
      BY <1>0, <2>1, <3>2, <3>3 DEF FeedOK, Ahead
    <3>5. \A d \in ToSet(inbox'[f]) : d.line = LineOf(f)
      BY <1>1, <2>1, <3>1, <3>2 DEF FeedOK
    <3> QED
      BY <1>0, <1>f, <2>1, <2>3, <3>1, <3>2, <3>4, <3>5 DEF FeedOK
  <2> QED
    BY <2>2, <2>3
<1> QED
  BY <1>4, <1>5, <1>6 DEF GuestInv

LEMMA GuestsWaiterStep ==
  ASSUME Types, CollectorInv, GuestInv, NEW w \in Waiters,
         Hear(w) \/ TimeOut(w) \/ \E l \in Lines : StartWait(w, l)
  PROVE  GuestInv'
<1>0. /\ stream' = stream /\ showing' = showing /\ types' = types
      /\ merged' = merged /\ written' = written
      /\ UNCHANGED collVars
      /\ \A x \in Subscribers \ {w} : inbox'[x] = inbox[x] /\ waiting'[x] = waiting[x]
      /\ \A v \in Waiters \ {w} : heard'[v] = heard[v]
  BY DEF Hear, TimeOut, StartWait, EndWait, streamVars, Types, InboxTypes, WaitTypes
<1>f. (\A s : FeedsOf(s)' = FeedsOf(s)) /\ (\A f : LineOf(f)' = LineOf(f))
  BY <1>0, FeedsStay
<1>1. \A e : Known(e)' = Known(e)
  BY <1>0, KnownFrame
<1>2. WaiterOK(w) /\ w \in Subscribers /\ Told(<< >>) /\ ToSet(<< >>) = {}
  BY EmptySeqFacts, GuestTyping DEF GuestInv, Told
<1>3. /\ DOMAIN inbox = Subscribers /\ DOMAIN heard = Waiters /\ DOMAIN waiting = Subscribers
      /\ Ended \notin Lines /\ Ended # NoLine
      /\ inbox[w] \in Seq(Events) /\ heard[w] \in Seq(Events)
      /\ ToSet(heard[w]) \subseteq Events /\ ToSet(inbox[w]) \subseteq Events
  BY EventPipelineAssumption, GuestTyping DEF Types, InboxTypes, WaitTypes, Lines
<1>4. WaiterOK(w)'
  <2>1. CASE Hear(w)
    <3> PICK e : e = Head(inbox[w])
      OBVIOUS
    <3>1. /\ waiting[w] \in Lines /\ inbox[w] # << >>
          /\ heard'[w] = Append(heard[w], e)
          /\ \/ inbox'[w] = Tail(inbox[w]) /\ waiting'[w] = waiting[w]
             \/ inbox'[w] = << >> /\ waiting'[w] = Ended
      BY <1>2, <1>3, <2>1 DEF Hear, EndWait
    <3>2. /\ e \in Events /\ e \in ToSet(inbox[w])
          /\ ToSet(inbox[w]) = ToSet(Tail(inbox[w])) \cup {e}
          /\ Ordered(Tail(inbox[w]))
          /\ \A d \in ToSet(Tail(inbox[w])) : e.line = d.line => e.at < d.at
      BY <1>2, <1>3, <3>1, TailFacts DEF WaiterOK, Told
    <3>3. ToSet(heard'[w]) = ToSet(heard[w]) \cup {e} /\ Ordered(heard'[w])
      BY <1>2, <1>3, <3>1, <3>2, AppendFacts DEF WaiterOK, Told, Before
    <3>4. Told(heard[w])'
      BY <1>1, <1>2, <3>2, <3>3 DEF WaiterOK, Told
    <3>5. CASE inbox'[w] = Tail(inbox[w]) /\ waiting'[w] = waiting[w]
      <4>1. Told(inbox[w])' /\ Before(heard[w], inbox[w])'
        BY <1>1, <1>2, <3>2, <3>3, <3>5 DEF WaiterOK, Told, Before
      <4>2. ToSet(heard'[w]) \cup ToSet(inbox'[w]) = ToSet(heard[w]) \cup ToSet(inbox[w])
        BY <3>2, <3>3, <3>5
      <4> QED
        BY <1>2, <1>3, <3>1, <3>4, <3>5, <4>1, <4>2, EventPipelineAssumption DEF WaiterOK, Lines
    <3>6. CASE inbox'[w] = << >> /\ waiting'[w] = Ended
      <4>1. Told(inbox[w])' /\ Before(heard[w], inbox[w])'
        BY <1>1, <1>2, <3>6 DEF Told, Before
      <4>2. ToSet(heard'[w]) \cup ToSet(inbox'[w]) \subseteq ToSet(heard[w]) \cup ToSet(inbox[w])
        BY <1>2, <3>2, <3>3, <3>6
      <4> QED
        BY <1>2, <1>3, <3>1, <3>4, <3>6, <4>1, <4>2 DEF WaiterOK
    <3> QED
      BY <3>1, <3>5, <3>6
  <2>2. CASE TimeOut(w)
    <3>1. inbox'[w] = << >> /\ waiting'[w] = Ended /\ heard'[w] = heard[w]
      BY <1>2, <1>3, <2>2 DEF TimeOut, EndWait
    <3> QED
      BY <1>1, <1>2, <1>3, <3>1 DEF WaiterOK, Told, Before
  <2>3. ASSUME NEW l \in Lines, StartWait(w, l) PROVE WaiterOK(w)'
    <3>1. /\ inbox'[w] = << >> /\ waiting'[w] = l /\ heard'[w] = << >> /\ l # NoLine
      BY <1>2, <1>3, <2>3, EventPipelineAssumption DEF StartWait, WaiterOK, Lines
    <3> QED
      BY <1>1, <1>2, <3>1 DEF WaiterOK, Told, Before
  <2> QED
    BY <2>1, <2>2, <2>3
<1>5. ASSUME NEW v \in Waiters, v # w PROVE WaiterOK(v)'
  <2>1. v \in Subscribers \ {w} /\ WaiterOK(v)
    BY <1>5, GuestTyping DEF GuestInv
  <2>2. inbox'[v] = inbox[v] /\ waiting'[v] = waiting[v] /\ heard'[v] = heard[v]
    BY <1>0, <1>5, <2>1
  <2> QED
    BY <1>1, <2>1, <2>2 DEF WaiterOK, Told, Before
<1>6. ASSUME NEW s \in Streams PROVE StreamOK(s)'
  BY <1>0, <1>1, <1>f DEF GuestInv, StreamOK, Earlier
<1>7. ASSUME NEW f \in Feeds PROVE FeedOK(f)'
  <2>1. f \in Subscribers \ {w} /\ FeedOK(f)
    BY GuestTyping DEF GuestInv
  <2>2. inbox'[f] = inbox[f] /\ waiting'[f] = waiting[f]
    BY <1>0, <2>1
  <2> QED
    BY <1>0, <1>1, <1>f, <2>1, <2>2 DEF FeedOK, Told, Ahead
<1> QED
  BY <1>4, <1>5, <1>6, <1>7 DEF GuestInv
LEMMA GuestsOpenStream ==
  ASSUME Types, CollectorInv, GuestInv,
         NEW s \in Streams, NEW p \in Pages, NEW q \in Queries, OpenStream(s, p, q)
  PROVE  GuestInv'
<1>0. /\ UNCHANGED <<collVars, waiting, inbox, heard, merged, written>>
      /\ stream[s] = "new" /\ stream'[s] = "opening"
      /\ \A r \in Streams \ {s} : /\ stream'[r] = stream[r] /\ showing'[r] = showing[r]
                                  /\ types'[r] = types[r]
  BY DEF OpenStream, LinesStay, Types, StreamTypes
<1>1. \A e : Known(e)' = Known(e)
  BY <1>0, KnownFrame
<1>2. \A w \in Waiters : WaiterOK(w)'
  BY <1>0, <1>1 DEF GuestInv, WaiterOK, Told, Before
<1>3. ASSUME NEW r \in Streams PROVE StreamOK(r)'
  <2>1. CASE r = s
    <3>1. written[r] = << >> /\ merged[r] = << >>
      BY <1>0, <2>1 DEF GuestInv, StreamOK
    <3> QED
      BY <1>0, <3>1, EmptyTellings DEF StreamOK, Earlier
  <2>2. CASE r # s
    <3>1. /\ FeedsOf(r)' = FeedsOf(r)
          /\ \A f \in FeedsOf(r) : LineOf(f)' = LineOf(f)
      BY <1>0, <2>2 DEF FeedsOf, LineOf
    <3> QED
      BY <1>0, <1>1, <2>2, <3>1 DEF GuestInv, StreamOK, Earlier
  <2> QED
    BY <2>1, <2>2
<1>4. ASSUME NEW f \in Feeds PROVE FeedOK(f)'
  <2>1. f[1] \in Streams
    BY GuestTyping
  <2>2. CASE f[1] = s
    <3>1. inbox[f] = << >> /\ waiting[f] \notin Lines
      BY <1>0, <2>2 DEF GuestInv, FeedOK
    <3> QED
      BY <1>0, <2>2, <3>1, EmptySeqFacts DEF FeedOK, Told, Ahead
  <2>3. CASE f[1] # s
    <3>1. /\ stream'[f[1]] = stream[f[1]] /\ FeedsOf(f[1])' = FeedsOf(f[1])
          /\ LineOf(f)' = LineOf(f)
      BY <1>0, <2>1, <2>3 DEF FeedsOf, LineOf
    <3> QED
      BY <1>0, <1>1, <3>1 DEF GuestInv, FeedOK, Told, Ahead
  <2> QED
    BY <2>2, <2>3
<1> QED
  BY <1>2, <1>3, <1>4 DEF GuestInv

(* A stream's handler and its connection, but for the writing: nothing     *)
(* moves, no subscription begins.                                          *)
LEMMA GuestsStreamFrame ==
  ASSUME Types, CollectorInv, GuestInv,
         UNCHANGED <<collVars, inbox, heard, showing, types, merged, written>>,
         \A x \in Subscribers : waiting'[x] # waiting[x] => x \in Feeds /\ waiting'[x] \notin Lines,
         \A s \in Streams : stream'[s] # stream[s] => stream[s] # "new" /\ stream'[s] # "new"
  PROVE  GuestInv'
<1>f. (\A s : FeedsOf(s)' = FeedsOf(s)) /\ (\A f : LineOf(f)' = LineOf(f))
  BY FeedsStay
<1>1. \A e : Known(e)' = Known(e)
  BY KnownFrame
<1>2. ASSUME NEW w \in Waiters PROVE WaiterOK(w)'
  <2>1. waiting'[w] = waiting[w]
    BY GuestTyping
  <2> QED
    BY <1>1, <2>1 DEF GuestInv, WaiterOK, Told, Before
<1>3. \A s \in Streams : StreamOK(s)'
  BY <1>1, <1>f DEF GuestInv, StreamOK, Earlier
<1>4. ASSUME NEW f \in Feeds PROVE FeedOK(f)'
  <2>1. f \in Subscribers /\ f[1] \in Streams
    BY GuestTyping
  <2>2. waiting'[f] = waiting[f] \/ waiting'[f] \notin Lines
    BY <2>1
  <2>3. stream'[f[1]] = "new" => stream[f[1]] = "new"
    BY <2>1
  <2> QED
    BY <1>1, <1>f, <2>2, <2>3 DEF GuestInv, FeedOK, Told, Ahead
<1> QED
  BY <1>2, <1>3, <1>4 DEF GuestInv

LEMMA GuestsSubscribe ==
  ASSUME Types, CollectorInv, GuestInv, NEW f \in Feeds, Subscribe(f)
  PROVE  GuestInv'
<1>0. /\ UNCHANGED <<collVars, inbox, heard, showing, types, merged, written>>
      /\ \A x \in Subscribers \ {f} : waiting'[x] = waiting[x]
      /\ waiting'[f] = LineOf(f) /\ f \in FeedsOf(f[1])
      /\ stream[f[1]] = "opening" /\ stream'[f[1]] # "new"
      /\ \A r \in Streams \ {f[1]} : stream'[r] = stream[r]
  BY GuestTyping DEF Subscribe, LinesStay, Types, StreamTypes, WaitTypes
<1>f. (\A s : FeedsOf(s)' = FeedsOf(s)) /\ (\A g : LineOf(g)' = LineOf(g))
  BY <1>0, FeedsStay
<1>1. \A e : Known(e)' = Known(e)
  BY <1>0, KnownFrame
<1>2. ASSUME NEW w \in Waiters PROVE WaiterOK(w)'
  <2>1. waiting'[w] = waiting[w]
    BY <1>0, GuestTyping
  <2> QED
    BY <1>0, <1>1, <2>1 DEF GuestInv, WaiterOK, Told, Before
<1>3. ASSUME NEW s \in Streams PROVE StreamOK(s)'
  <2>1. stream'[s] = "new" => stream[s] = "new"
    BY <1>0
  <2> QED
    BY <1>0, <1>1, <1>f, <2>1 DEF GuestInv, StreamOK, Earlier
<1>4. ASSUME NEW g \in Feeds PROVE FeedOK(g)'
  <2>1. g \in Subscribers /\ g[1] \in Streams
    BY GuestTyping
  <2>2. stream'[g[1]] = "new" => stream[g[1]] = "new" /\ g # f
    BY <1>0, <2>1
  <2>3. waiting'[g] = waiting[g] \/ g = f
    BY <1>0, <2>1
  <2> QED
    BY <1>0, <1>1, <1>f, <2>2, <2>3 DEF GuestInv, FeedOK, Told, Ahead
<1> QED
  BY <1>2, <1>3, <1>4 DEF GuestInv

LEMMA GuestsMove ==
  ASSUME Types, CollectorInv, GuestInv, NEW f \in Feeds, Move(f)
  PROVE  GuestInv'
<1> PICK s, e, t : s = f[1] /\ e = Head(inbox[f]) /\ t = [feed |-> f, event |-> e]
  OBVIOUS
<1>0. /\ UNCHANGED <<collVars, waiting, heard, stream, showing, types, written>>
      /\ inbox[f] # << >> /\ inbox'[f] = Tail(inbox[f])
      /\ \A x \in Subscribers \ {f} : inbox'[x] = inbox[x]
      /\ merged'[s] = SentTo(merged[s], t, MergeCap)
      /\ \A r \in Streams \ {s} : merged'[r] = merged[r]
      /\ s \in Streams /\ f \in Subscribers /\ t.feed = f /\ t.event = e
  BY GuestTyping DEF Move, LinesStay, Types, StreamTypes, InboxTypes
<1>1. \A x : Known(x)' = Known(x)
  BY <1>0, KnownFrame
<1>2. /\ FeedOK(f) /\ StreamOK(s)
      /\ (\A r : FeedsOf(r)' = FeedsOf(r)) /\ (\A g : LineOf(g)' = LineOf(g))
  BY <1>0, FeedsStay DEF GuestInv
<1>3. /\ e \in Events /\ e \in ToSet(inbox[f]) /\ ToSet(inbox'[f]) \subseteq ToSet(inbox[f])
      /\ Ordered(inbox'[f])
      /\ \A d \in ToSet(inbox'[f]) : e.line = d.line => e.at < d.at
  BY <1>0, <1>2, GuestTyping, TailFacts DEF FeedOK, Told
<1>4. /\ Known(e) /\ e.line = LineOf(f) /\ f \in FeedsOf(s)
      /\ \A d \in ToSet(inbox'[f]) : e.at < d.at
  BY <1>0, <1>2, <1>3 DEF FeedOK, Told
<1>5. ToSet(merged'[s]) \subseteq ToSet(merged[s]) \cup {t} /\ InTurn(merged'[s])
  <2>1. InTurn(merged[s]) /\ \A d \in ToSet(merged[s]) : d.feed = t.feed => d.event.at < t.event.at
    BY <1>0, <1>2, <1>3 DEF StreamOK, FeedOK, Ahead
  <2>2. t \in Tellings
    BY <1>3 DEF Tellings
  <2>3. merged[s] \in Seq(Tellings) /\ Len(merged[s]) <= MergeCap /\ MergeCap \in Nat
    BY <1>0, GuestTyping, EventPipelineAssumption
  <2> QED
    BY <1>0, <2>1, <2>2, <2>3, TellSend
<1>6. StreamOK(s)'
  <2>1. Earlier(written[s], merged[s])'
    BY <1>0, <1>2, <1>3, <1>5 DEF StreamOK, FeedOK, Earlier, Ahead
  <2>2. stream[s] # "new"
    BY <1>0, <1>2 DEF FeedOK
  <2>3. \A d \in ToSet(written'[s]) \cup ToSet(merged'[s]) :
          d.feed \in FeedsOf(s) /\ d.event.line = LineOf(d.feed) /\ Known(d.event)
    BY <1>0, <1>2, <1>4, <1>5 DEF StreamOK
  <2> QED
    BY <1>0, <1>1, <1>2, <1>5, <2>1, <2>2, <2>3 DEF StreamOK
<1>7. ASSUME NEW r \in Streams, r # s PROVE StreamOK(r)'
  <2>1. merged'[r] = merged[r] /\ StreamOK(r)
    BY <1>0, <1>7 DEF GuestInv
  <2> QED
    BY <1>0, <1>1, <1>2, <2>1 DEF StreamOK, Earlier
<1>8. FeedOK(f)'
  <2>1. Told(inbox[f])'
    BY <1>1, <1>2, <1>3 DEF FeedOK, Told
  <2>2. Ahead(written[s], f, inbox[f])' /\ Ahead(merged[s], f, inbox[f])'
    BY <1>0, <1>2, <1>3, <1>4, <1>5 DEF FeedOK, Ahead
  <2>3. stream[s] # "new"
    BY <1>0, <1>2 DEF FeedOK
  <2> QED
    BY <1>0, <1>2, <1>3, <1>4, <2>1, <2>2, <2>3 DEF FeedOK
<1>9. ASSUME NEW g \in Feeds, g # f PROVE FeedOK(g)'
  <2>1. g \in Subscribers \ {f} /\ g[1] \in Streams /\ FeedOK(g) /\ inbox'[g] = inbox[g]
    BY <1>0, <1>9, GuestTyping DEF GuestInv
  <2>2. Told(inbox[g])' /\ Ahead(written[g[1]], g, inbox[g])'
    BY <1>0, <1>1, <2>1 DEF FeedOK, Told, Ahead
  <2>3. Ahead(merged[g[1]], g, inbox[g])'
    <3>1. CASE g[1] = s
      BY <1>0, <1>5, <1>9, <2>1, <3>1 DEF FeedOK, Ahead
    <3>2. CASE g[1] # s
      BY <1>0, <2>1, <3>2 DEF FeedOK, Ahead
    <3> QED
      BY <3>1, <3>2
  <2> QED
    BY <1>0, <1>2, <2>1, <2>2, <2>3 DEF FeedOK
<1>10. ASSUME NEW w \in Waiters PROVE WaiterOK(w)'
  <2>1. w \in Subscribers \ {f} /\ WaiterOK(w) /\ inbox'[w] = inbox[w]
    BY <1>0, GuestTyping DEF GuestInv
  <2> QED
    BY <1>0, <1>1, <2>1 DEF WaiterOK, Told, Before
<1> QED
  BY <1>6, <1>7, <1>8, <1>9, <1>10 DEF GuestInv

LEMMA GuestsWrite ==
  ASSUME Types, CollectorInv, GuestInv, NEW s \in Streams, Write(s)
  PROVE  GuestInv'
<1> PICK t : t = Head(merged[s])
  OBVIOUS
<1>0. /\ UNCHANGED <<collVars, waiting, heard, inbox, showing, types>>
      /\ stream[s] = "writing" /\ stream'[s] # "new" /\ merged[s] # << >>
      /\ merged'[s] = Tail(merged[s])
      /\ written'[s] = Append(written[s], t) \/ written'[s] = written[s]
      /\ \A r \in Streams \ {s} : /\ merged'[r] = merged[r] /\ written'[r] = written[r]
                                  /\ stream'[r] = stream[r]
  BY DEF Write, LinesStay, Types, StreamTypes
<1>1. \A x : Known(x)' = Known(x)
  BY <1>0, KnownFrame
<1>2. /\ StreamOK(s)
      /\ (\A r : FeedsOf(r)' = FeedsOf(r)) /\ (\A g : LineOf(g)' = LineOf(g))
  BY <1>0, FeedsStay DEF GuestInv
<1>3. /\ t \in Tellings /\ t \in ToSet(merged[s]) /\ ToSet(merged'[s]) \subseteq ToSet(merged[s])
      /\ InTurn(merged'[s])
      /\ \A d \in ToSet(merged'[s]) : t.feed = d.feed => t.event.at < d.event.at
  BY <1>0, <1>2, GuestTyping, TellTail DEF StreamOK
<1>4. ToSet(written'[s]) \subseteq ToSet(written[s]) \cup {t} /\ InTurn(written'[s])
  <2>1. /\ InTurn(written[s])
        /\ \A d \in ToSet(written[s]) : d.feed = t.feed => d.event.at < t.event.at
    BY <1>2, <1>3 DEF StreamOK, Earlier
  <2>2. CASE written'[s] = written[s]
    BY <2>1, <2>2
  <2>3. CASE written'[s] = Append(written[s], t)
    BY <1>3, <2>1, <2>3, GuestTyping, TellAppend
  <2> QED
    BY <1>0, <2>2, <2>3
<1>5. StreamOK(s)'
  <2>1. Earlier(written[s], merged[s])'
    BY <1>2, <1>3, <1>4 DEF StreamOK, Earlier
  <2>2. \A d \in ToSet(written'[s]) \cup ToSet(merged'[s]) :
          d.feed \in FeedsOf(s) /\ d.event.line = LineOf(d.feed) /\ Known(d.event)
    BY <1>2, <1>3, <1>4 DEF StreamOK
  <2> QED
    BY <1>0, <1>1, <1>2, <1>3, <1>4, <2>1, <2>2 DEF StreamOK
<1>6. ASSUME NEW r \in Streams, r # s PROVE StreamOK(r)'
  <2>1. merged'[r] = merged[r] /\ written'[r] = written[r] /\ stream'[r] = stream[r] /\ StreamOK(r)
    BY <1>0, <1>6 DEF GuestInv
  <2> QED
    BY <1>1, <1>2, <2>1 DEF StreamOK, Earlier
<1>7. ASSUME NEW g \in Feeds PROVE FeedOK(g)'
  <2>1. FeedOK(g) /\ g[1] \in Streams
    BY GuestTyping DEF GuestInv
  <2>2. CASE g[1] = s
    <3>1. Ahead(written[s], g, inbox[g])' /\ Ahead(merged[s], g, inbox[g])'
      BY <1>0, <1>3, <1>4, <2>1, <2>2 DEF FeedOK, Ahead
    <3> QED
      BY <1>0, <1>1, <1>2, <2>1, <2>2, <3>1 DEF FeedOK, Told
  <2>3. CASE g[1] # s
    <3>1. /\ merged'[g[1]] = merged[g[1]] /\ written'[g[1]] = written[g[1]]
          /\ stream'[g[1]] = stream[g[1]]
      BY <1>0, <2>1, <2>3
    <3> QED
      BY <1>0, <1>1, <1>2, <2>1, <3>1 DEF FeedOK, Told, Ahead
  <2> QED
    BY <2>2, <2>3
<1>8. ASSUME NEW w \in Waiters PROVE WaiterOK(w)'
  BY <1>0, <1>1 DEF GuestInv, WaiterOK, Told, Before
<1> QED
  BY <1>5, <1>6, <1>7, <1>8 DEF GuestInv

-------------------------------------------------------------------------------
(* The invariant and its preservation.                                     *)

Inv == Types /\ LineInv /\ ConserveInv /\ CollectorInv /\ GuestInv

LEMMA InitInv ==
  ASSUME Init
  PROVE  Inv
<1>1. Types
  BY InitTypes
<1>2. /\ \A l \in Lines : src[l] = << >> /\ out[l] = << >> /\ collector[l] = "off"
      /\ \A p \in Pages : ring[p] = << >>
      /\ fanout = None /\ offered = {} /\ overflow = {}
      /\ \A x \in Subscribers : inbox[x] = << >> /\ waiting[x] = NoLine
      /\ \A w \in Waiters : heard[w] = << >>
      /\ \A s \in Streams : merged[s] = << >> /\ written[s] = << >>
      /\ NoLine \notin Lines
  BY EventPipelineAssumption DEF Init, Lines
<1>3. LineInv
  BY <1>1, <1>2, LineTyping, EmptySeqFacts DEF LineInv, PumpInv, LineOK, RingOK, Sound, Before
<1>4. ConserveInv
  BY <1>2 DEF ConserveInv, LostInv, OfferedInv
<1>5. CollectorInv
  BY <1>2 DEF CollectorInv, CollectorOK, Busy
<1>6. GuestInv
  BY <1>1, <1>2, GuestTyping, EmptySeqFacts, EmptyTellings
     DEF GuestInv, WaiterOK, StreamOK, FeedOK, Told, Before, Earlier, Ahead
<1> QED
  BY <1>1, <1>3, <1>4, <1>5, <1>6 DEF Inv

LEMMA InvPumpStep ==
  ASSUME Inv, FanOut \/ \E l \in Lines : Dispatch(l)
  PROVE  Inv'
<1>1. LineInv' /\ ConserveInv'
  BY LineInvDispatch, LineInvFanOut, ConserveDispatch, ConserveFanOut DEF Inv
<1>2. UNCHANGED <<collVars, guestVars>>
  BY DEF FanOut, Dispatch
<1>3. CollectorInv' /\ GuestInv'
  BY <1>2, KnownFrame, GuestsFrame DEF Inv
<1> QED
  BY <1>1, <1>3, TypesOfPumpStep DEF Inv

LEMMA InvLineStep ==
  ASSUME Inv, NEW l \in Lines,
         FilterStep(l) \/ CollectorStep(l) \/ OpenLine(l) \/ CleanupLine(l)
  PROVE  Inv'
<1>1. LineInv' /\ ConserveInv'
  <2>1. CASE FilterEvent(l)
    BY <2>1, LineInvFilterEvent, ConserveFilterEvent DEF Inv
  <2>2. CASE Collect(l)
    BY <2>2, LineInvCollect, ConserveCollect DEF Inv
  <2>3. CASE FilterExit(l) \/ CopyWaiters(l) \/ Deliver(l) \/ CollectorExit(l) \/ OpenLine(l)
             \/ CleanupLine(l)
    <3>1. UNCHANGED <<sent, fanout, src, out, ring, offered, overflow>>
      BY <2>3 DEF FilterExit, CopyWaiters, Deliver, CollectorExit, OpenLine, CleanupLine,
                  pumpVars, lineVars, collVars
    <3> QED
      BY <3>1, LineInvFrame, ConserveFrame DEF Inv
  <2> QED
    BY <2>1, <2>2, <2>3 DEF FilterStep, CollectorStep
<1>2. CollectorInv' /\ \A e \in Events : Known(e) => Known(e)'
  <2>1. CASE CollectorStep(l) \/ OpenLine(l)
    BY <2>1, KnownLineStep DEF Inv
  <2>2. CASE FilterStep(l) \/ CleanupLine(l)
    <3>1. UNCHANGED collVars
      BY <2>2 DEF FilterStep, FilterEvent, FilterExit, CleanupLine
    <3> QED
      BY <3>1, KnownFrame DEF Inv
  <2> QED
    BY <2>1, <2>2
<1>3. GuestInv'
  <2>1. CASE Deliver(l)
    BY <2>1, GuestsDeliver DEF Inv
  <2>2. CASE ~Deliver(l)
    <3>1. UNCHANGED guestVars
      BY <2>2 DEF FilterStep, FilterEvent, FilterExit, CollectorStep, Collect, CopyWaiters,
                  CollectorExit, OpenLine, CleanupLine
    <3> QED
      BY <1>2, <3>1, GuestsFrame DEF Inv
  <2> QED
    BY <2>1, <2>2
<1> QED
  BY <1>1, <1>2, <1>3, TypesOfLineStep DEF Inv

LEMMA InvPageStep ==
  ASSUME Inv, NEW p \in Pages, ClosePage(p)
  PROVE  Inv'
<1>1. UNCHANGED <<sent, fanout, src, out, ring, offered, overflow, collVars, guestVars>>
  BY DEF ClosePage, pumpVars, lineVars, collVars
<1> QED
  BY <1>1, LineInvFrame, ConserveFrame, KnownFrame, GuestsFrame, TypesOfPageStep DEF Inv

LEMMA InvGuestStep ==
  ASSUME Inv,
         \/ \E w \in Waiters : Hear(w) \/ TimeOut(w) \/ \E l \in Lines : StartWait(w, l)
         \/ \E f \in Feeds : FeedStep(f)
         \/ \E s \in Streams : \/ StreamStep(s) \/ Breaks(s) \/ ContextEnds(s)
                               \/ \E p \in Pages, q \in Queries : OpenStream(s, p, q)
  PROVE  Inv'
<1>1. UNCHANGED <<sent, fanout, src, out, ring, offered, overflow, collVars>>
  BY DEF Hear, TimeOut, StartWait, FeedStep, Subscribe, Move, MoverExit, Unsubscribe, StreamStep,
         Write, LeaveLoop, EndStream, Breaks, ContextEnds, OpenStream, LinesStay, pumpVars,
         lineVars, collVars
<1>2. LineInv' /\ ConserveInv' /\ CollectorInv'
  BY <1>1, LineInvFrame, ConserveFrame, KnownFrame DEF Inv
<1>3. GuestInv'
  <2>1. ASSUME NEW w \in Waiters, Hear(w) \/ TimeOut(w) \/ \E l \in Lines : StartWait(w, l)
        PROVE  GuestInv'
    BY <2>1, GuestsWaiterStep DEF Inv
  <2>2. ASSUME NEW f \in Feeds, FeedStep(f) PROVE GuestInv'
    <3>1. CASE Subscribe(f) \/ Move(f)
      BY <3>1, GuestsSubscribe, GuestsMove DEF Inv
    <3>2. CASE MoverExit(f) \/ Unsubscribe(f)
      <4>1. /\ UNCHANGED <<collVars, inbox, heard, showing, types, merged, written, stream>>
            /\ waiting' = waiting \/ waiting' = [waiting EXCEPT ![f] = Ended]
        BY <3>2 DEF MoverExit, Unsubscribe, LinesStay, streamVars
      <4>2. \A x \in Subscribers :
              waiting'[x] # waiting[x] => x \in Feeds /\ waiting'[x] \notin Lines
        BY <4>1, EventPipelineAssumption DEF Inv, Types, WaitTypes, Lines
      <4> QED
        BY <4>1, <4>2, GuestsStreamFrame DEF Inv
    <3> QED
      BY <2>2, <3>1, <3>2 DEF FeedStep
  <2>3. ASSUME NEW s \in Streams, StreamStep(s) \/ Breaks(s) \/ ContextEnds(s) PROVE GuestInv'
    <3>1. CASE Write(s)
      BY <3>1, GuestsWrite DEF Inv
    <3>2. CASE LeaveLoop(s) \/ EndStream(s) \/ Breaks(s) \/ ContextEnds(s)
      <4>1. /\ UNCHANGED <<collVars, inbox, heard, showing, types, merged, written, waiting>>
            /\ \/ stream' = stream
               \/ /\ stream[s] # "new"
                  /\ \E v \in {"leaving", "done"} : stream' = [stream EXCEPT ![s] = v]
        BY <3>2 DEF LeaveLoop, EndStream, Breaks, ContextEnds, LinesStay
      <4>2. \A r \in Streams : stream'[r] # stream[r] => stream[r] # "new" /\ stream'[r] # "new"
        BY <4>1 DEF Inv, Types, StreamTypes
      <4> QED
        BY <4>1, <4>2, GuestsStreamFrame DEF Inv
    <3> QED
      BY <2>3, <3>1, <3>2 DEF StreamStep
  <2>4. ASSUME NEW s \in Streams, NEW p \in Pages, NEW q \in Queries, OpenStream(s, p, q)
        PROVE  GuestInv'
    BY <2>4, GuestsOpenStream DEF Inv
  <2> QED
    BY <2>1, <2>2, <2>3, <2>4
<1>4. Types'
  BY TypesOfWaiterStep, TypesOfStreamStep DEF Inv
<1> QED
  BY <1>2, <1>3, <1>4 DEF Inv

LEMMA InvStutter ==
  ASSUME Inv, UNCHANGED vars
  PROVE  Inv'
<1>1. /\ UNCHANGED <<sent, fanout, src, out, ring, offered, overflow, collVars, guestVars>>
      /\ UNCHANGED <<lineVars, page>>
  BY DEF vars, lineVars, collVars
<1>2. Types'
  BY <1>1 DEF Inv, Types, PumpTypes, ChannelTypes, LineTypes, CollectorTypes, InboxTypes, WaitTypes,
              StreamTypes, lineVars, collVars, guestVars, waitVars, streamVars
<1> QED
  BY <1>1, <1>2, LineInvFrame, ConserveFrame, KnownFrame, GuestsFrame DEF Inv

(* Every step of every goroutine keeps the invariant, whatever Chrome      *)
(* sends and whoever comes, waits or breaks off.                           *)
THEOREM EventPipelineInvariant == Spec => []Inv
<1>1. Init => Inv
  BY InitInv
<1>2. Inv /\ [Next]_vars => Inv'
  <2> SUFFICES ASSUME Inv, [Next]_vars PROVE Inv'
    OBVIOUS
  <2> QED
    BY InvPumpStep, InvLineStep, InvPageStep, InvGuestStep, InvStutter DEF Next
<1> QED
  BY <1>1, <1>2, PTL DEF Spec

-------------------------------------------------------------------------------
(* What the runs check.                                                    *)

(* Every variable stays within its type and no channel holds more than its *)
(* capacity (client.go:168, session.go:116, httpsse.go:151).               *)
THEOREM EventPipelineTypeOK == Spec => []TypeOK
<1>1. Inv => TypeOK
  BY TypesImplyTypeOK DEF Inv
<1> QED
  BY <1>1, EventPipelineInvariant, PTL

(* A tab's buffer holds events of its own session only, those of one       *)
(* method in the order they were sent, each once (session.go:110-122,      *)
(* events.go:79-90).                                                       *)
THEOREM BufferIsOwnAndOrdered == Spec => []RingIsOwnAndOrdered
<1>1. Inv => RingIsOwnAndOrdered
  BY DEF Inv, LineInv, RingOK, Sound, Ordered, RingIsOwnAndOrdered
<1> QED
  BY <1>1, EventPipelineInvariant, PTL

LEMMA InvImpliesEventsConserved ==
  ASSUME Inv
  PROVE  EventsConserved
<1> SUFFICES ASSUME NEW e \in offered
             PROVE  \E place \in {"pump", "src", "out", "ring", "lost"} :
                      \A other \in {"pump", "src", "out", "ring", "lost"} :
                        Holds(other, e) <=> other = place
  BY DEF EventsConserved
<1> DEFINE pump == fanout # None /\ fanout.event = e
           s == e \in ToSet(src[e.line])
           o == e \in ToSet(out[e.line])
           r == e \in ToSet(ring[PageOf(e.line)])
           lost == e \in overflow
<1>1. e \in Events /\ e.line \in Lines /\ PageOf(e.line) \in Pages /\ e.at \in Nat
  BY EventFields DEF Inv, Types, PumpTypes
<1>2. pump \/ s \/ o \/ r \/ lost
  BY DEF Inv, ConserveInv, OfferedInv, Held
<1>3. lost => ~pump /\ ~s /\ ~o /\ ~r
  BY DEF Inv, ConserveInv, LostInv, Held
<1>4. s \/ o \/ r => ~pump
  <2>1. s \/ o \/ r => Past(e)
    BY <1>1 DEF Inv, LineInv, LineOK, RingOK, Sound
  <2> QED
    BY <1>1, <2>1 DEF Past
<1>5. ~(e.at < e.at)
  BY <1>1
<1>6. ~(s /\ o) /\ ~(s /\ r) /\ ~(o /\ r)
  BY <1>1, <1>5 DEF Inv, LineInv, LineOK, Before
<1>7. /\ Holds("pump", e) <=> pump
      /\ Holds("src", e) <=> s
      /\ Holds("out", e) <=> o
      /\ Holds("ring", e) <=> r
      /\ Holds("lost", e) <=> lost
  BY DEF Holds
<1> HIDE DEF pump, s, o, r, lost
<1> QED
  BY <1>2, <1>3, <1>4, <1>6, <1>7

(* An event a tab was subscribed to is at exactly one place: in the pump's *)
(* hand, in one of the line's channels, in the buffer, or dropped.         *)
THEOREM NoEventLostOrTwice == Spec => []EventsConserved
<1>1. Inv => EventsConserved
  BY InvImpliesEventsConserved
<1> QED
  BY <1>1, EventPipelineInvariant, PTL

LEMMA InvImpliesHeardIsRecorded ==
  ASSUME Inv
  PROVE  HeardIsRecorded
<1>1. Types /\ GuestInv
  BY DEF Inv
<1>2. \A s \in Seq(Events) : Told(s) => Recorded(s)
  BY DEF Told, Recorded, Known
<1>3. ASSUME NEW s \in Seq(Events), NEW t \in Seq(Events), Told(s), Told(t), Before(s, t)
      PROVE  Told(s \o t) /\ s \o t \in Seq(Events) /\ ToSet(s \o t) = ToSet(s) \cup ToSet(t)
  BY <1>3, ConcatFacts DEF Told
<1>4. ASSUME NEW w \in Waiters
      PROVE  /\ Recorded(heard[w] \o inbox[w])
             /\ \A d, e \in ToSet(heard[w] \o inbox[w]) : d.line = e.line
  <2>1. WaiterOK(w) /\ heard[w] \in Seq(Events) /\ inbox[w] \in Seq(Events)
    BY <1>1, GuestTyping DEF GuestInv
  <2>2. /\ Told(heard[w] \o inbox[w]) /\ heard[w] \o inbox[w] \in Seq(Events)
        /\ ToSet(heard[w] \o inbox[w]) = ToSet(heard[w]) \cup ToSet(inbox[w])
    BY <1>3, <2>1 DEF WaiterOK
  <2>3. Recorded(heard[w] \o inbox[w])
    BY <1>2, <2>2
  <2> QED
    BY <2>1, <2>2, <2>3 DEF WaiterOK
<1>5. ASSUME NEW f \in Feeds
      PROVE  Recorded(inbox[f]) /\ \A e \in ToSet(inbox[f]) : e.line = LineOf(f)
  <2>1. FeedOK(f) /\ inbox[f] \in Seq(Events)
    BY <1>1, GuestTyping DEF GuestInv
  <2> QED
    BY <1>2, <2>1 DEF FeedOK
<1>6. ASSUME NEW s \in Streams
      PROVE  /\ InTurn(written[s] \o merged[s])
             /\ \A t \in ToSet(written[s] \o merged[s]) :
                  /\ t.feed \in FeedsOf(s) /\ t.event.line = LineOf(t.feed)
                  /\ t.event \in ToSet(ring[showing[s]])
                  /\ \A e \in ToSet(inbox[t.feed]) : t.event.at < e.at
  <2>1. StreamOK(s) /\ written[s] \in Seq(Tellings) /\ merged[s] \in Seq(Tellings)
    BY <1>1, GuestTyping DEF GuestInv
  <2>2. /\ InTurn(written[s] \o merged[s])
        /\ ToSet(written[s] \o merged[s]) = ToSet(written[s]) \cup ToSet(merged[s])
    BY <2>1, TellConcat DEF StreamOK
  <2>3. ASSUME NEW t \in ToSet(written[s]) \cup ToSet(merged[s])
        PROVE  /\ t.feed \in FeedsOf(s) /\ t.event.line = LineOf(t.feed)
               /\ t.event \in ToSet(ring[showing[s]])
               /\ \A e \in ToSet(inbox[t.feed]) : t.event.at < e.at
    <3>1. t.feed \in FeedsOf(s) /\ t.event.line = LineOf(t.feed) /\ Known(t.event)
      BY <2>1 DEF StreamOK
    <3>2. t.feed \in Feeds /\ t.feed[1] = s
      BY <3>1 DEF FeedsOf
    <3>3. PageOf(t.event.line) = showing[s]
      BY <3>1, <3>2 DEF LineOf, PageOf
    <3>4. FeedOK(t.feed)
      BY <1>1, <3>2 DEF GuestInv
    <3> QED
      BY <3>1, <3>2, <3>3, <3>4 DEF Known, FeedOK, Ahead
  <2> QED
    BY <2>2, <2>3
<1> QED
  BY <1>4, <1>5, <1>6 DEF HeardIsRecorded

(* What a waiter hears is of one line, in the tab's buffer already, once   *)
(* and in order (events.go:87-88).  What a stream is told, each feed of it *)
(* brings once and in order, from the line of its own entry in the list of *)
(* types, and it is in the buffer too (httpsse.go:148-205): a stream whose *)
(* list has a type twice may be told an event twice, and no more often.    *)
THEOREM ToldIsRecorded == Spec => []HeardIsRecorded
<1>1. Inv => HeardIsRecorded
  BY InvImpliesHeardIsRecorded
<1> QED
  BY <1>1, EventPipelineInvariant, PTL

-------------------------------------------------------------------------------
(* Seen from one subscriber a line is the lossy queue of EventWay.  What   *)
(* is in the hands of the collector and of the pump, and the two channels, *)
(* are the parts of the way.  They are put together with Cat, which the    *)
(* provers are only told what they need of.  Begun adds to Inv that a line *)
(* not opened has no collector, and a feed without a mover no subscription.*)

Nil       == << >>
One(e)    == <<e>>
Cat(s, t) == s \o t

WayOf(l, x) == Cat(Cat(InHand(l, x), out[l]), Cat(src[l], InPump(l)))
On(l, x)    == waiting[x] = l
Box(l, x)   == IF waiting[x] = l THEN inbox[x] ELSE << >>

WayStep(l, x) == UNCHANGED Way(l, x)!wayVars \/ Way(l, x)!WayNext

Begun ==
  /\ \A l \in Lines : filter[l] = "off" => collector[l] = "off"
  /\ \A f \in Feeds : mover[f] = "off" => waiting[f] = NoLine /\ inbox[f] = << >>

(* A sequence with one element before it, and without one of its elements. *)
LEMMA OneFirst ==
  ASSUME NEW b \in Seq(Events), NEW e \in Events, NEW c, c = <<e>> \o b
  PROVE  /\ c \in Seq(Events) /\ Len(c) = Len(b) + 1 /\ c[1] = e
         /\ \A j \in 1 .. Len(b) : c[j + 1] = b[j]
<1>1. <<e>> \in Seq(Events) /\ Len(<<e>>) = 1 /\ <<e>>[1] = e
  OBVIOUS
<1>2. Len(b) \in Nat
  BY LenProperties
<1>3. /\ c \in Seq(Events) /\ Len(c) = 1 + Len(b)
      /\ \A j \in 1 .. 1 + Len(b) : c[j] = IF j <= 1 THEN <<e>>[j] ELSE b[j - 1]
  BY <1>1, ConcatProperties
<1>4. ASSUME NEW j \in 1 .. Len(b) PROVE c[j + 1] = b[j]
  <2>1. j + 1 \in 1 .. 1 + Len(b) /\ ~(j + 1 <= 1) /\ (j + 1) - 1 = j
    BY <1>2
  <2> QED
    BY <1>3, <2>1
<1> QED
  BY <1>1, <1>2, <1>3, <1>4

Splits(w, i, a, e, b) ==
  /\ i \in DOMAIN w /\ w[i] = e /\ Len(w) = Len(a) + Len(b) + 1
  /\ RemoveAt(w, i) = a \o b

LEMMA WithoutOne ==
  ASSUME NEW a \in Seq(Events), NEW b \in Seq(Events), NEW e \in Events,
         NEW w, w = a \o (<<e>> \o b), NEW i, i = Len(a) + 1
  PROVE  Splits(w, i, a, e, b)
<1>1. PICK c : c = <<e>> \o b
  OBVIOUS
<1>2. /\ c \in Seq(Events) /\ Len(c) = Len(b) + 1 /\ c[1] = e
      /\ \A j \in 1 .. Len(b) : c[j + 1] = b[j]
  BY <1>1, OneFirst
<1>3. /\ w \in Seq(Events) /\ Len(w) = Len(a) + Len(c)
      /\ \A j \in 1 .. Len(a) + Len(c) : w[j] = IF j <= Len(a) THEN a[j] ELSE c[j - Len(a)]
  BY <1>1, <1>2, ConcatProperties
<1>4. /\ Len(a) \in Nat /\ Len(b) \in Nat /\ Len(c) \in Nat /\ i \in 1 .. Len(w)
      /\ DOMAIN w = 1 .. Len(w) /\ Len(w) = Len(a) + Len(b) + 1 /\ i - 1 = Len(a)
  BY <1>2, <1>3, LenProperties
<1>5. w[i] = e
  BY <1>2, <1>3, <1>4
<1>6. PICK p : p = SubSeq(w, 1, i - 1)
  OBVIOUS
<1>7. PICK q : q = SubSeq(w, i + 1, Len(w))
  OBVIOUS
<1>8. \A j \in 1 .. Len(w) : w[j] \in Events
  BY <1>3, ElementOfSeq
<1>9. p = a
  <2>1. \A j \in 1 .. i - 1 : w[j] \in Events
    BY <1>4, <1>8
  <2>2. p \in Seq(Events) /\ Len(p) = Len(a) /\ \A j \in 1 .. Len(a) : p[j] = w[j]
    BY <1>4, <1>6, <2>1, SubSeqProperties
  <2>3. \A j \in 1 .. Len(a) : w[j] = a[j]
    BY <1>3, <1>4
  <2> QED
    BY <2>2, <2>3, SeqEqual
<1>10. q = b
  <2>1. i + 1 \in Int /\ Len(w) \in Int /\ \A j \in i + 1 .. Len(w) : w[j] \in Events
    BY <1>4, <1>8
  <2>2. /\ q \in Seq(Events) /\ Len(q) = IF i + 1 <= Len(w) THEN Len(w) - (i + 1) + 1 ELSE 0
        /\ \A j \in 1 .. Len(w) - (i + 1) + 1 : q[j] = w[(i + 1) + j - 1]
    BY <1>7, <2>1, SubSeqProperties
  <2>3. Len(q) = Len(b) /\ Len(w) - (i + 1) + 1 = Len(b)
    BY <1>4, <2>2
  <2>4. ASSUME NEW j \in 1 .. Len(b) PROVE q[j] = b[j]
    <3>0. PICK k : k = Len(a) + (j + 1)
      OBVIOUS
    <3>1. (i + 1) + j - 1 = k /\ k \in 1 .. Len(a) + Len(c) /\ ~(k <= Len(a)) /\ k - Len(a) = j + 1
      BY <1>2, <1>4, <3>0
    <3>2. q[j] = w[k]
      BY <2>2, <2>3, <3>1
    <3>3. w[k] = c[j + 1]
      BY <1>3, <3>1
    <3> QED
      BY <1>2, <3>2, <3>3
  <2> QED
    BY <2>2, <2>3, <2>4, SeqEqual
<1>11. p \o q = a \o b
  BY <1>9, <1>10
<1>12. RemoveAt(w, i) = a \o b
  BY <1>6, <1>7, <1>11 DEF RemoveAt
<1>13. i \in DOMAIN w /\ Len(w) = Len(a) + Len(b) + 1
  BY <1>4
<1> QED
  BY <1>5, <1>12, <1>13 DEF Splits

LEMMA OneThenRest ==
  ASSUME NEW s \in Seq(Events), s # << >>
  PROVE  /\ s = <<Head(s)>> \o Tail(s)
         /\ Head(s) \in Events /\ Tail(s) \in Seq(Events)
<1>1. 1 \in 1 .. Len(s) /\ Len(s) \in 1 .. Len(s)
  BY EmptySeq, LenProperties
<1>2. s = SubSeq(s, 1, Len(s)) /\ Tail(s) = SubSeq(s, 2, Len(s))
  BY SubSeqFull, TailIsSubSeq
<1>3. SubSeq(s, 1, Len(s)) = <<s[1]>> \o SubSeq(s, 1 + 1, Len(s))
  BY <1>1, SubSeqRecursiveFirst
<1>4. Head(s) = s[1] /\ Head(s) \in Events /\ Tail(s) \in Seq(Events)
  BY HeadTailProperties
<1> QED
  BY <1>2, <1>3, <1>4

(* The steps of EventWay, in terms of the parts of the way.                *)
LEMMA WayStays ==
  ASSUME NEW l \in Lines, NEW x \in Subscribers,
         UNCHANGED <<WayOf(l, x), On(l, x), Box(l, x)>>
  PROVE  WayStep(l, x)
BY DEF WayStep, Way!wayVars, WayOf, Cat, On, Box

LEMMA WayEnters ==
  ASSUME NEW l \in Lines, NEW x \in Subscribers, NEW e \in Events,
         WayOf(l, x)' = Append(WayOf(l, x), e), UNCHANGED <<On(l, x), Box(l, x)>>
  PROVE  WayStep(l, x)
<1>1. Way(l, x)!Enter(e)
  BY DEF Way!Enter, WayOf, Cat, On, Box
<1> QED
  BY <1>1 DEF WayStep, Way!WayNext

LEMMA WayLoses ==
  ASSUME NEW l \in Lines, NEW x \in Subscribers,
         NEW a \in Seq(Events), NEW b \in Seq(Events), NEW e \in Events,
         WayOf(l, x) = Cat(a, Cat(One(e), b)), WayOf(l, x)' = Cat(a, b),
         e.line = l => Len(a) + Len(b) >= ChanCap,
         UNCHANGED <<On(l, x), Box(l, x)>>
  PROVE  WayStep(l, x)
<1>1. PICK i : i = Len(a) + 1
  OBVIOUS
<1>2. PICK w : w = WayOf(l, x)
  OBVIOUS
<1>3. /\ i \in DOMAIN w /\ w[i] = e /\ Len(w) = Len(a) + Len(b) + 1
      /\ RemoveAt(w, i) = a \o b
  <2>1. Splits(w, i, a, e, b)
    BY <1>1, <1>2, WithoutOne DEF Cat, One
  <2> QED
    BY <2>1 DEF Splits
<1>4. w[i] \in {d \in Events : d.line = l} => Len(w) > ChanCap
  <2>1. Len(a) \in Nat /\ Len(b) \in Nat /\ ChanCap \in Nat
    BY LenProperties, EventPipelineAssumption
  <2> QED
    BY <1>3, <2>1
<1>5. Way(l, x)!Lose(i)
  BY <1>2, <1>3, <1>4 DEF Way!Lose, WayOf, Cat, On, Box, RemoveAt
<1> QED
  BY <1>2, <1>3, <1>5 DEF WayStep, Way!WayNext, WayOf, Cat

LEMMA WayHands ==
  ASSUME NEW l \in Lines, NEW x \in Subscribers, NEW e \in Events, NEW b \in Seq(Events),
         e.line = l, WayOf(l, x) = Cat(One(e), b), WayOf(l, x)' = b, UNCHANGED On(l, x),
         Box(l, x)' = IF On(l, x) /\ Len(Box(l, x)) < ChanCap
                      THEN Append(Box(l, x), e) ELSE Box(l, x)
  PROVE  WayStep(l, x)
<1>1. PICK w : w = WayOf(l, x)
  OBVIOUS
<1>2. w # << >> /\ Head(w) = e /\ Tail(w) = b
  <2>2. /\ w \in Seq(Events) /\ Len(w) = Len(b) + 1 /\ w[1] = e
        /\ \A j \in 1 .. Len(b) : w[j + 1] = b[j]
    BY <1>1, OneFirst DEF Cat, One
  <2>3. Len(b) \in Nat
    BY LenProperties
  <2>4. w # << >>
    BY <2>2, <2>3, EmptySeq
  <2>5. /\ Head(w) = w[1] /\ Tail(w) \in Seq(Events) /\ Len(Tail(w)) = Len(b)
        /\ \A j \in 1 .. Len(b) : Tail(w)[j] = w[j + 1]
    BY <2>2, <2>3, <2>4, HeadTailProperties
  <2>6. Tail(w) = b
    BY <2>2, <2>5, SeqEqual
  <2> QED
    BY <2>2, <2>4, <2>5, <2>6
<1>3. Way(l, x)!Hand
  BY <1>1, <1>2 DEF Way!Hand, WayOf, Cat, On, Box
<1> QED
  BY <1>3 DEF WayStep, Way!WayNext

(* A guest comes, takes, leaves, or does what does not concern its channel. *)
LEMMA WayOfGuest ==
  ASSUME NEW l \in Lines, NEW x \in Subscribers, UNCHANGED WayOf(l, x),
         \/ waiting'[x] = waiting[x] /\ inbox'[x] = inbox[x]
         \/ waiting[x] = NoLine /\ inbox[x] = << >> /\ inbox'[x] = << >> /\ waiting'[x] \in Lines
         \/ waiting'[x] = waiting[x] /\ inbox[x] # << >> /\ inbox'[x] = Tail(inbox[x])
         \/ waiting[x] \in Lines /\ waiting'[x] = Ended
  PROVE  WayStep(l, x)
<1>1. NoLine # l /\ Ended # l
  BY EventPipelineAssumption DEF Lines
<1>2. CASE waiting'[x] = waiting[x] /\ inbox'[x] = inbox[x]
  BY <1>2, WayStays DEF On, Box
<1>3. CASE waiting[x] = NoLine /\ inbox[x] = << >> /\ inbox'[x] = << >> /\ waiting'[x] \in Lines
  <2>1. CASE waiting'[x] = l
    <3>1. Way(l, x)!Join
      BY <1>1, <1>3, <2>1 DEF Way!Join, WayOf, Cat
    <3> QED
      BY <3>1 DEF WayStep, Way!WayNext
  <2>2. CASE waiting'[x] # l
    BY <1>1, <1>3, <2>2, WayStays DEF On, Box
  <2> QED
    BY <2>1, <2>2
<1>4. CASE waiting'[x] = waiting[x] /\ inbox[x] # << >> /\ inbox'[x] = Tail(inbox[x])
  <2>1. CASE waiting[x] = l
    <3>1. Way(l, x)!Take
      BY <1>4, <2>1 DEF Way!Take, WayOf, Cat
    <3> QED
      BY <3>1 DEF WayStep, Way!WayNext
  <2>2. CASE waiting[x] # l
    BY <1>4, <2>2, WayStays DEF On, Box
  <2> QED
    BY <2>1, <2>2
<1>5. CASE waiting[x] \in Lines /\ waiting'[x] = Ended
  <2>1. CASE waiting[x] = l
    <3>1. Way(l, x)!Leave
      BY <1>1, <1>5, <2>1 DEF Way!Leave, WayOf, Cat
    <3> QED
      BY <3>1 DEF WayStep, Way!WayNext
  <2>2. CASE waiting[x] # l
    BY <1>1, <1>5, <2>2, WayStays DEF On, Box
  <2> QED
    BY <2>1, <2>2
<1> QED
  BY <1>2, <1>3, <1>4, <1>5

LEMMA CatFacts ==
  /\ Nil \in Seq(Events) /\ \A e \in Events : One(e) \in Seq(Events)
  /\ \A v, w \in Seq(Events) : Cat(v, w) \in Seq(Events)
  /\ \A v \in Seq(Events) : Cat(v, Nil) = v /\ Cat(Nil, v) = v
  /\ \A v \in Seq(Events), e \in Events : Append(v, e) = Cat(v, One(e))
<1>1. Nil \in Seq(Events) /\ \A e \in Events : One(e) \in Seq(Events)
  BY DEF Nil, One
<1>2. \A v, w \in Seq(Events) : Cat(v, w) \in Seq(Events)
  BY ConcatProperties DEF Cat
<1>3. \A v \in Seq(Events) : Cat(v, Nil) = v /\ Cat(Nil, v) = v
  BY ConcatEmptySeq DEF Cat, Nil
<1>4. \A v \in Seq(Events), e \in Events : Append(v, e) = Cat(v, One(e))
  BY AppendIsConcat DEF Cat, One
<1> QED
  BY <1>1, <1>2, <1>3, <1>4

LEMMA CatAssociates ==
  ASSUME NEW v \in Seq(Events), NEW w \in Seq(Events), NEW z \in Seq(Events)
  PROVE  Cat(Cat(v, w), z) = Cat(v, Cat(w, z))
BY ConcatAssociative DEF Cat

LEMMA Regroup ==
  ASSUME NEW h \in Seq(Events), NEW o \in Seq(Events), NEW s \in Seq(Events), NEW p \in Seq(Events),
         NEW e \in Events
  PROVE  /\ Append(Cat(Cat(h, o), Cat(s, Nil)), e) = Cat(Cat(h, o), Cat(s, One(e)))
         /\ Cat(Cat(h, o), Cat(Append(s, e), Nil)) = Cat(Cat(h, o), Cat(s, One(e)))
         /\ Cat(Cat(h, o), Cat(s, One(e))) = Cat(Cat(Cat(h, o), s), Cat(One(e), Nil))
         /\ Cat(Cat(h, o), Cat(s, Nil)) = Cat(Cat(Cat(h, o), s), Nil)
         /\ Cat(Cat(h, o), Cat(Cat(One(e), s), p)) = Cat(Cat(h, Append(o, e)), Cat(s, p))
         /\ Cat(Cat(h, o), Cat(Cat(One(e), s), p)) = Cat(Cat(h, o), Cat(One(e), Cat(s, p)))
         /\ Cat(Cat(One(e), o), Cat(s, p)) = Cat(One(e), Cat(o, Cat(s, p)))
         /\ Cat(Cat(Nil, o), Cat(s, p)) = Cat(o, Cat(s, p))
<1>1. PICK u : u = One(e)
  OBVIOUS
<1>2. u \in Seq(Events) /\ \A v \in Seq(Events) : Append(v, e) = Cat(v, u)
  BY <1>1, CatFacts
<1>3. Cat(h, o) \in Seq(Events) /\ Cat(s, p) \in Seq(Events) /\ Cat(u, s) \in Seq(Events)
  BY <1>2, CatFacts
<1>4. Append(Cat(Cat(h, o), Cat(s, Nil)), e) = Cat(Cat(h, o), Cat(s, u))
  <2>1. Cat(s, Nil) = s /\ Cat(Cat(h, o), s) \in Seq(Events)
    BY <1>3, CatFacts
  <2>2. Append(Cat(Cat(h, o), s), e) = Cat(Cat(Cat(h, o), s), u)
    BY <1>2, <2>1
  <2>3. Cat(Cat(Cat(h, o), s), u) = Cat(Cat(h, o), Cat(s, u))
    BY <1>2, <1>3, CatAssociates
  <2> QED
    BY <2>1, <2>2, <2>3
<1>5. Cat(Cat(h, o), Cat(Append(s, e), Nil)) = Cat(Cat(h, o), Cat(s, u))
  <2>1. Append(s, e) = Cat(s, u) /\ Cat(s, u) \in Seq(Events)
    BY <1>2, CatFacts
  <2> QED
    BY <2>1, CatFacts
<1>6. Cat(Cat(h, o), Cat(s, u)) = Cat(Cat(Cat(h, o), s), Cat(u, Nil))
  <2>1. Cat(u, Nil) = u
    BY <1>2, CatFacts
  <2>2. Cat(Cat(Cat(h, o), s), u) = Cat(Cat(h, o), Cat(s, u))
    BY <1>2, <1>3, CatAssociates
  <2> QED
    BY <2>1, <2>2
<1>7. Cat(Cat(h, o), Cat(s, Nil)) = Cat(Cat(Cat(h, o), s), Nil)
  <2>1. Cat(s, Nil) = s /\ Cat(Cat(h, o), s) \in Seq(Events)
    BY <1>3, CatFacts
  <2>2. Cat(Cat(Cat(h, o), s), Nil) = Cat(Cat(h, o), s)
    BY <2>1, CatFacts
  <2> QED
    BY <2>1, <2>2
<1>8. Cat(Cat(u, s), p) = Cat(u, Cat(s, p))
  BY <1>2, CatAssociates
<1>9. Cat(Cat(h, o), Cat(u, Cat(s, p))) = Cat(Cat(h, Append(o, e)), Cat(s, p))
  <2>1. Cat(Cat(h, o), Cat(u, Cat(s, p))) = Cat(Cat(Cat(h, o), u), Cat(s, p))
    BY <1>2, <1>3, CatAssociates
  <2>2. Cat(Cat(h, o), u) = Cat(h, Cat(o, u)) /\ Append(o, e) = Cat(o, u)
    BY <1>2, CatAssociates
  <2> QED
    BY <2>1, <2>2
<1>10. Cat(Cat(u, o), Cat(s, p)) = Cat(u, Cat(o, Cat(s, p)))
  BY <1>2, <1>3, CatAssociates
<1>11. Cat(Cat(Nil, o), Cat(s, p)) = Cat(o, Cat(s, p))
  BY CatFacts
<1> QED
  BY <1>1, <1>4, <1>5, <1>6, <1>7, <1>8, <1>9, <1>10, <1>11

LEMMA WayTyping ==
  ASSUME Inv, NEW l \in Lines, NEW x \in Subscribers
  PROVE  /\ InHand(l, x) \in Seq(Events) /\ InPump(l) \in Seq(Events)
         /\ out[l] \in Seq(Events) /\ src[l] \in Seq(Events)
         /\ Busy(l) => delivering[l].event \in Events /\ delivering[l].event.line = l
         /\ fanout # None => fanout.event \in Events
<1>1. Busy(l) => delivering[l].event \in Events /\ delivering[l].event.line = l
  BY DEF Inv, Types, CollectorTypes, CollectorInv, CollectorOK, Busy
<1>2. fanout # None => fanout.event \in Events
  BY DEF Inv, Types, PumpTypes
<1>3. out[l] \in Seq(Events) /\ src[l] \in Seq(Events)
  BY DEF Inv, Types, ChannelTypes
<1>4. InHand(l, x) \in Seq(Events) /\ InPump(l) \in Seq(Events)
  BY <1>1, <1>2 DEF InHand, InPump, Busy
<1> QED
  BY <1>1, <1>2, <1>3, <1>4

LEMMA SameParts ==
  ASSUME NEW l \in Lines, NEW x \in Subscribers, UNCHANGED fanout,
         src'[l] = src[l], out'[l] = out[l], collector'[l] = collector[l],
         delivering'[l] = delivering[l]
  PROVE  UNCHANGED WayOf(l, x)
<1>1. InHand(l, x)' = InHand(l, x) /\ InPump(l)' = InPump(l)
  BY DEF InHand, InPump
<1> QED
  BY <1>1 DEF WayOf

LEMMA SameGuest ==
  ASSUME NEW l \in Lines, NEW x \in Subscribers, UNCHANGED <<waiting, inbox>>
  PROVE  UNCHANGED <<On(l, x), Box(l, x)>>
BY DEF On, Box

(* A way is full if one of the channels on it is.                          *)
LEMMA LenOfCat ==
  /\ \A a, b \in Seq(Events) : Len(b) >= ChanCap \/ ~(Len(b) < ChanCap) =>
       Len(Cat(a, b)) + Len(Nil) >= ChanCap
  /\ \A a, b, d \in Seq(Events) : Len(b) >= ChanCap \/ ~(Len(b) < ChanCap) =>
       Len(Cat(a, b)) + Len(d) >= ChanCap
<1>1. ASSUME NEW a \in Seq(Events), NEW b \in Seq(Events), NEW d \in Seq(Events),
             Len(b) >= ChanCap \/ ~(Len(b) < ChanCap)
      PROVE  Len(Cat(a, b)) + Len(d) >= ChanCap
  <2>1. Len(a) \in Nat /\ Len(b) \in Nat /\ Len(d) \in Nat /\ ChanCap \in Nat
    BY LenProperties, EventPipelineAssumption
  <2>2. Len(Cat(a, b)) = Len(a) + Len(b)
    BY ConcatProperties DEF Cat
  <2> QED
    BY <1>1, <2>1, <2>2
<1> QED
  BY <1>1, CatFacts

(* The pump takes an event up: it enters the way of every line it copied.  *)
LEMMA WayOfDispatch ==
  ASSUME Inv, NEW k \in Lines, Dispatch(k), NEW l \in Lines, NEW x \in Subscribers
  PROVE  WayStep(l, x)
<1>1. PICK e : e = [line |-> k, at |-> sent + 1]
  OBVIOUS
<1>2. PICK to : to = {j \in subscribed : MethodOf(j) = MethodOf(k)}
  OBVIOUS
<1>3. /\ fanout = None /\ fanout' = IF to = {} THEN None ELSE [to |-> to, event |-> e]
      /\ UNCHANGED <<src, out, collector, delivering, waiting, inbox>>
  BY <1>1, <1>2 DEF Dispatch, lineVars, collVars, guestVars, waitVars
<1>4. e \in Events
  BY <1>1, EventPipelineAssumption DEF Dispatch, Inv, Types, PumpTypes, Events
<1>5. InHand(l, x)' = InHand(l, x) /\ InPump(l) = Nil
  BY <1>3 DEF InHand, InPump, Nil
<1>6. UNCHANGED <<On(l, x), Box(l, x)>>
  BY <1>3, SameGuest
<1>7. CASE l \in to
  <2>1. fanout' = [to |-> to, event |-> e] /\ fanout' # None
    <3>1. fanout' = [to |-> to, event |-> e]
      BY <1>3, <1>7
    <3>2. fanout'.to # {}
      BY <1>7, <3>1
    <3> QED
      BY <3>1, <3>2 DEF None
  <2>2. InPump(l)' = One(e)
    BY <1>7, <2>1 DEF InPump, None, One
  <2>3. WayOf(l, x)' = Append(WayOf(l, x), e)
    <3>1. PICK h, o, s : h = InHand(l, x) /\ o = out[l] /\ s = src[l]
      OBVIOUS
    <3>2. h \in Seq(Events) /\ o \in Seq(Events) /\ s \in Seq(Events) /\ Nil \in Seq(Events)
      BY <3>1, WayTyping, CatFacts
    <3>3. WayOf(l, x) = Cat(Cat(h, o), Cat(s, Nil))
      BY <1>5, <3>1 DEF WayOf
    <3>4. WayOf(l, x)' = Cat(Cat(h, o), Cat(s, One(e)))
      BY <1>3, <1>5, <2>2, <3>1 DEF WayOf
    <3>5. Append(Cat(Cat(h, o), Cat(s, Nil)), e) = Cat(Cat(h, o), Cat(s, One(e)))
      BY <1>4, <3>2, Regroup
    <3> QED
      BY <3>3, <3>4, <3>5
  <2> QED
    BY <1>4, <1>6, <2>3, WayEnters
<1>8. CASE l \notin to
  <2>1. InPump(l)' = Nil
    BY <1>3, <1>8 DEF InPump, None, Nil
  <2> QED
    BY <1>3, <1>5, <1>6, <2>1, WayStays DEF WayOf
<1> QED
  BY <1>7, <1>8

(* It puts the event into a channel, or loses it if that is full.          *)
LEMMA WayOfFanOut ==
  ASSUME Inv, FanOut, NEW l \in Lines, NEW x \in Subscribers
  PROVE  WayStep(l, x)
<1>1. /\ fanout # None /\ fanout' = None
      /\ src' = [j \in Lines |-> IF j \in fanout.to THEN Sent(src[j], fanout.event) ELSE src[j]]
      /\ UNCHANGED <<out, collector, delivering, waiting, inbox>>
  BY DEF FanOut, collVars, guestVars, waitVars
<1>2. PICK e : e = fanout.event
  OBVIOUS
<1>3. e \in Events
  BY <1>1, <1>2, WayTyping
<1>4. InHand(l, x)' = InHand(l, x) /\ InPump(l)' = Nil /\ out'[l] = out[l]
  BY <1>1 DEF InHand, InPump, Nil
<1>5. UNCHANGED <<On(l, x), Box(l, x)>>
  BY <1>1, SameGuest
<1>6. CASE l \notin fanout.to
  <2>1. InPump(l) = Nil /\ src'[l] = src[l]
    BY <1>1, <1>6 DEF InPump, Nil
  <2> QED
    BY <1>4, <1>5, <2>1, WayStays DEF WayOf
<1>7. CASE l \in fanout.to /\ Len(src[l]) < ChanCap
  <2>1. InPump(l) = One(e) /\ src'[l] = Append(src[l], e)
    BY <1>1, <1>2, <1>7 DEF InPump, One, Sent, SentTo
  <2>2. UNCHANGED WayOf(l, x)
    <3>1. PICK h, o, s : h = InHand(l, x) /\ o = out[l] /\ s = src[l]
      OBVIOUS
    <3>2. h \in Seq(Events) /\ o \in Seq(Events) /\ s \in Seq(Events) /\ Nil \in Seq(Events)
      BY <3>1, WayTyping, CatFacts
    <3>3. WayOf(l, x) = Cat(Cat(h, o), Cat(s, One(e)))
      BY <2>1, <3>1 DEF WayOf
    <3>4. WayOf(l, x)' = Cat(Cat(h, o), Cat(Append(s, e), Nil))
      BY <1>4, <2>1, <3>1 DEF WayOf
    <3>5. Cat(Cat(h, o), Cat(Append(s, e), Nil)) = Cat(Cat(h, o), Cat(s, One(e)))
      BY <1>3, <3>2, Regroup
    <3> QED
      BY <3>3, <3>4, <3>5
  <2> QED
    BY <1>5, <2>2, WayStays
<1>8. CASE l \in fanout.to /\ ~(Len(src[l]) < ChanCap)
  <2>1. InPump(l) = One(e) /\ src'[l] = src[l]
    BY <1>1, <1>2, <1>8 DEF InPump, One, Sent, SentTo
  <2>2. PICK h, o, s : h = InHand(l, x) /\ o = out[l] /\ s = src[l]
    OBVIOUS
  <2>3. PICK a : a = Cat(Cat(h, o), s)
    OBVIOUS
  <2>4. /\ h \in Seq(Events) /\ o \in Seq(Events) /\ s \in Seq(Events) /\ Nil \in Seq(Events)
        /\ Cat(h, o) \in Seq(Events) /\ a \in Seq(Events)
    BY <2>2, <2>3, WayTyping, CatFacts
  <2>5. WayOf(l, x) = Cat(a, Cat(One(e), Nil))
    <3>1. WayOf(l, x) = Cat(Cat(h, o), Cat(s, One(e)))
      BY <2>1, <2>2 DEF WayOf
    <3>2. Cat(Cat(h, o), Cat(s, One(e))) = Cat(Cat(Cat(h, o), s), Cat(One(e), Nil))
      BY <1>3, <2>4, Regroup
    <3> QED
      BY <2>3, <3>1, <3>2
  <2>6. WayOf(l, x)' = Cat(a, Nil)
    <3>1. WayOf(l, x)' = Cat(Cat(h, o), Cat(s, Nil))
      BY <1>4, <2>1, <2>2 DEF WayOf
    <3>2. Cat(Cat(h, o), Cat(s, Nil)) = Cat(Cat(Cat(h, o), s), Nil)
      BY <1>3, <2>4, Regroup
    <3> QED
      BY <2>3, <3>1, <3>2
  <2>7. Len(a) + Len(Nil) >= ChanCap
    BY <1>8, <2>2, <2>3, <2>4, LenOfCat
  <2> QED
    BY <1>3, <1>5, <2>4, <2>5, <2>6, <2>7, WayLoses
<1> QED
  BY <1>6, <1>7, <1>8


(* The filter passes it on, loses it if the next channel is full, and      *)
(* drops what is of another tab.                                           *)
LEMMA WayOfFilterEvent ==
  ASSUME Inv, NEW k \in Lines, FilterEvent(k), NEW l \in Lines, NEW x \in Subscribers
  PROVE  WayStep(l, x)
<1>1. PICK e, t : e = Head(src[k]) /\ t = Tail(src[k])
  OBVIOUS
<1>2. /\ src[k] # << >> /\ src' = [src EXCEPT ![k] = t]
      /\ out' = IF PageOf(e.line) = PageOf(k) THEN [out EXCEPT ![k] = Sent(@, e)] ELSE out
      /\ UNCHANGED <<fanout, collector, delivering, waiting, inbox>>
  BY <1>1 DEF FilterEvent, pumpVars, collVars, guestVars, waitVars
<1>3. DOMAIN src = Lines /\ DOMAIN out = Lines
  BY DEF Inv, Types, ChannelTypes
<1>4. UNCHANGED <<On(l, x), Box(l, x)>>
  BY <1>2, SameGuest
<1>5. CASE l # k
  <2>1. src'[l] = src[l] /\ out'[l] = out[l]
    BY <1>2, <1>3, <1>5
  <2> QED
    BY <1>2, <1>4, <2>1, SameParts, WayStays
<1>6. CASE l = k
  <2>1. PICK h, o, p : h = InHand(l, x) /\ o = out[l] /\ p = InPump(l)
    OBVIOUS
  <2>2. /\ h \in Seq(Events) /\ o \in Seq(Events) /\ p \in Seq(Events) /\ src[l] \in Seq(Events)
        /\ Cat(h, o) \in Seq(Events)
    BY <2>1, WayTyping, CatFacts
  <2>3. e \in Events /\ t \in Seq(Events) /\ src[l] = Cat(One(e), t) /\ Cat(t, p) \in Seq(Events)
    BY <1>1, <1>2, <1>6, <2>2, OneThenRest, CatFacts DEF Cat, One
  <2>4. InHand(l, x)' = h /\ InPump(l)' = p /\ src'[l] = t
    BY <1>2, <1>3, <1>6, <2>1 DEF InHand, InPump
  <2>5. WayOf(l, x) = Cat(Cat(h, o), Cat(Cat(One(e), t), p))
    BY <2>1, <2>3 DEF WayOf
  <2>6. CASE PageOf(e.line) = PageOf(k) /\ Len(o) < ChanCap
    <3>1. out'[l] = Append(o, e)
      BY <1>2, <1>3, <1>6, <2>1, <2>6 DEF Sent, SentTo
    <3>2. WayOf(l, x)' = Cat(Cat(h, Append(o, e)), Cat(t, p))
      BY <2>4, <3>1 DEF WayOf
    <3>3. Cat(Cat(h, o), Cat(Cat(One(e), t), p)) = Cat(Cat(h, Append(o, e)), Cat(t, p))
      BY <2>2, <2>3, Regroup
    <3> QED
      BY <1>4, <2>5, <3>2, <3>3, WayStays
  <2>7. CASE ~(PageOf(e.line) = PageOf(k) /\ Len(o) < ChanCap)
    <3>1. out'[l] = o
      BY <1>2, <1>3, <1>6, <2>1, <2>7 DEF Sent, SentTo
    <3>2. PICK a, b : a = Cat(h, o) /\ b = Cat(t, p)
      OBVIOUS
    <3>3. WayOf(l, x)' = Cat(a, b)
      BY <2>4, <3>1, <3>2 DEF WayOf
    <3>4. WayOf(l, x) = Cat(a, Cat(One(e), b))
      <4>1. Cat(Cat(h, o), Cat(Cat(One(e), t), p)) = Cat(Cat(h, o), Cat(One(e), Cat(t, p)))
        BY <2>2, <2>3, Regroup
      <4> QED
        BY <2>5, <3>2, <4>1
    <3>5. a \in Seq(Events) /\ b \in Seq(Events)
      BY <2>2, <2>3, <3>2
    <3>6. e.line = l => Len(a) + Len(b) >= ChanCap
      BY <1>6, <2>2, <2>7, <3>2, <3>5, LenOfCat
    <3> QED
      BY <1>4, <2>3, <3>3, <3>4, <3>5, <3>6, WayLoses
  <2> QED
    BY <2>6, <2>7
<1> QED
  BY <1>5, <1>6

(* The collector takes it in hand: it stays on the way.                    *)
LEMMA WayOfCollect ==
  ASSUME Inv, NEW k \in Lines, Collect(k), NEW l \in Lines, NEW x \in Subscribers
  PROVE  WayStep(l, x)
<1>1. PICK e, t : e = Head(out[k]) /\ t = Tail(out[k])
  OBVIOUS
<1>2. /\ out[k] # << >> /\ out' = [out EXCEPT ![k] = t]
      /\ collector[k] = "running" /\ collector' = [collector EXCEPT ![k] = "adding"]
      /\ delivering' = [delivering EXCEPT ![k] = [to |-> {}, event |-> e]]
      /\ UNCHANGED <<fanout, src, waiting, inbox>>
  BY <1>1 DEF Collect, pumpVars, lineVars, guestVars, waitVars
<1>3. DOMAIN out = Lines /\ DOMAIN collector = Lines /\ DOMAIN delivering = Lines
  BY DEF Inv, Types, ChannelTypes, CollectorTypes
<1>4. UNCHANGED <<On(l, x), Box(l, x)>>
  BY <1>2, SameGuest
<1>5. CASE l # k
  <2>1. out'[l] = out[l] /\ collector'[l] = collector[l] /\ delivering'[l] = delivering[l]
    BY <1>2, <1>3, <1>5
  <2> QED
    BY <1>2, <1>4, <2>1, SameParts, WayStays
<1>6. CASE l = k
  <2>1. InHand(l, x) = Nil /\ InPump(l)' = InPump(l) /\ src'[l] = src[l] /\ out'[l] = t
    BY <1>2, <1>3, <1>6 DEF InHand, InPump, Nil
  <2>2. InHand(l, x)' = One(e)
    <3>1. collector'[l] = "adding" /\ delivering'[l].event = e
      BY <1>2, <1>3, <1>6
    <3> QED
      BY <3>1 DEF InHand, One
  <2>3. out[l] \in Seq(Events)
    BY WayTyping
  <2>4. Cat(Nil, out[l]) = Cat(One(e), t)
    <3>1. Cat(Nil, out[l]) = out[l]
      BY <2>3, CatFacts
    <3>2. out[l] = Cat(One(e), t)
      BY <1>1, <1>2, <1>6, <2>3, OneThenRest DEF Cat, One
    <3> QED
      BY <3>1, <3>2
  <2>5. UNCHANGED WayOf(l, x)
    BY <2>1, <2>2, <2>4 DEF WayOf
  <2> QED
    BY <1>4, <2>5, WayStays
<1> QED
  BY <1>5, <1>6

(* It copies the subscribers: for one who is not among them the event is   *)
(* handed on now, to nobody.                                               *)
LEMMA WayOfCopyWaiters ==
  ASSUME Inv, NEW k \in Lines, CopyWaiters(k), NEW l \in Lines, NEW x \in Subscribers
  PROVE  WayStep(l, x)
<1>1. /\ collector[k] = "adding" /\ collector' = [collector EXCEPT ![k] = "fanning"]
      /\ delivering' = [delivering EXCEPT ![k].to = {y \in Subscribers : waiting[y] = k}]
      /\ UNCHANGED <<fanout, src, out, waiting, inbox>>
  BY DEF CopyWaiters, pumpVars, lineVars, guestVars, waitVars
<1>2. DOMAIN collector = Lines /\ DOMAIN delivering = Lines
  BY DEF Inv, Types, CollectorTypes
<1>3. UNCHANGED <<On(l, x), Box(l, x)>>
  BY <1>1, SameGuest
<1>4. CASE l # k
  <2>1. collector'[l] = collector[l] /\ delivering'[l] = delivering[l]
    BY <1>1, <1>2, <1>4
  <2> QED
    BY <1>1, <1>3, <2>1, SameParts, WayStays
<1>5. CASE l = k
  <2>1. PICK e : e = delivering[l].event
    OBVIOUS
  <2>2. e \in Events /\ e.line = l /\ InHand(l, x) = One(e)
    <3>1. e \in Events /\ e.line = l
      BY <1>1, <1>5, <2>1, WayTyping DEF Busy
    <3>2. InHand(l, x) = One(e)
      BY <1>1, <1>5, <2>1 DEF InHand, One
    <3> QED
      BY <3>1, <3>2
  <2>3. /\ collector'[l] = "fanning" /\ InPump(l)' = InPump(l)
        /\ delivering'[l].to = {y \in Subscribers : waiting[y] = l}
    BY <1>1, <1>2, <1>5 DEF InPump
  <2>4. delivering'[l].event = e
    <3>1. [delivering[l] EXCEPT !.to = {y \in Subscribers : waiting[y] = l}].event = e
      BY <1>1, <1>5, <2>1 DEF Inv, Types, CollectorTypes, Busy
    <3> QED
      BY <1>1, <1>2, <1>5, <3>1
  <2>5. CASE On(l, x)
    <3>1. InHand(l, x)' = One(e)
      BY <2>3, <2>4, <2>5 DEF InHand, One, On
    <3> QED
      BY <1>1, <1>3, <2>2, <2>3, <3>1, WayStays DEF WayOf
  <2>6. CASE ~On(l, x)
    <3>1. PICK o, s, p : o = out[l] /\ s = src[l] /\ p = InPump(l)
      OBVIOUS
    <3>2. PICK b : b = Cat(o, Cat(s, p))
      OBVIOUS
    <3>3. /\ o \in Seq(Events) /\ s \in Seq(Events) /\ p \in Seq(Events)
          /\ Nil \in Seq(Events) /\ b \in Seq(Events)
      BY <3>1, <3>2, WayTyping, CatFacts
    <3>4. WayOf(l, x) = Cat(One(e), b)
      <4>1. WayOf(l, x) = Cat(Cat(One(e), o), Cat(s, p))
        BY <2>2, <3>1 DEF WayOf
      <4>2. Cat(Cat(One(e), o), Cat(s, p)) = Cat(One(e), Cat(o, Cat(s, p)))
        BY <2>2, <3>3, Regroup
      <4> QED
        BY <3>2, <4>1, <4>2
    <3>5. WayOf(l, x)' = b
      <4>1. InHand(l, x)' = Nil
        BY <2>3, <2>6 DEF InHand, Nil, On
      <4>2. WayOf(l, x)' = Cat(Cat(Nil, o), Cat(s, p))
        BY <1>1, <2>3, <3>1, <4>1 DEF WayOf
      <4>3. Cat(Cat(Nil, o), Cat(s, p)) = Cat(o, Cat(s, p))
        BY <2>2, <3>3, Regroup
      <4> QED
        BY <3>2, <4>2, <4>3
    <3>6. Box(l, x)' = IF On(l, x) /\ Len(Box(l, x)) < ChanCap
                       THEN Append(Box(l, x), e) ELSE Box(l, x)
      BY <1>3, <2>6
    <3>7. UNCHANGED On(l, x)
      BY <1>3
    <3> QED
      BY <2>2, <3>3, <3>4, <3>5, <3>6, <3>7, WayHands
  <2> QED
    BY <2>5, <2>6
<1> QED
  BY <1>4, <1>5

(* It hands the event to those it copied: a channel that is full, or was   *)
(* taken off the list, does not get it.                                    *)
LEMMA WayOfDeliver ==
  ASSUME Inv, NEW k \in Lines, Deliver(k), NEW l \in Lines, NEW x \in Subscribers
  PROVE  WayStep(l, x)
<1>1. PICK e : e = delivering[k].event
  OBVIOUS
<1>2. /\ collector[k] = "fanning" /\ collector' = [collector EXCEPT ![k] = "running"]
      /\ delivering' = [delivering EXCEPT ![k] = None]
      /\ UNCHANGED <<fanout, src, out, waiting>>
  BY DEF Deliver, pumpVars, lineVars
<1>3. inbox'[x] = IF x \in delivering[k].to /\ waiting[x] = k THEN Sent(inbox[x], e) ELSE inbox[x]
  BY <1>1 DEF Deliver
<1>4. DOMAIN collector = Lines /\ DOMAIN delivering = Lines
  BY DEF Inv, Types, CollectorTypes
<1>5. UNCHANGED On(l, x)
  BY <1>2 DEF On
<1>6. CASE l # k
  <2>1. collector'[l] = collector[l] /\ delivering'[l] = delivering[l]
    BY <1>2, <1>4, <1>6
  <2>2. UNCHANGED Box(l, x)
    BY <1>2, <1>3, <1>6 DEF Box
  <2> QED
    BY <1>2, <1>5, <2>1, <2>2, SameParts, WayStays
<1>7. CASE l = k
  <2>1. collector'[l] = "running" /\ InPump(l)' = InPump(l)
    BY <1>2, <1>4, <1>7 DEF InPump
  <2>2. InHand(l, x)' = Nil
    BY <2>1 DEF InHand, Nil
  <2>3. CASE x \in delivering[l].to
    <3>1. PICK o, s, p : o = out[l] /\ s = src[l] /\ p = InPump(l)
      OBVIOUS
    <3>2. PICK b : b = Cat(o, Cat(s, p))
      OBVIOUS
    <3>3. /\ o \in Seq(Events) /\ s \in Seq(Events) /\ p \in Seq(Events)
          /\ Nil \in Seq(Events) /\ b \in Seq(Events)
      BY <3>1, <3>2, WayTyping, CatFacts
    <3>4. e \in Events /\ e.line = l
      BY <1>1, <1>2, <1>7, WayTyping DEF Busy
    <3>5. WayOf(l, x) = Cat(One(e), b)
      <4>1. InHand(l, x) = One(e)
        BY <1>1, <1>2, <1>7, <2>3 DEF InHand, One
      <4>2. WayOf(l, x) = Cat(Cat(One(e), o), Cat(s, p))
        BY <3>1, <4>1 DEF WayOf
      <4>3. Cat(Cat(One(e), o), Cat(s, p)) = Cat(One(e), Cat(o, Cat(s, p)))
        BY <3>3, <3>4, Regroup
      <4> QED
        BY <3>2, <4>2, <4>3
    <3>6. WayOf(l, x)' = b
      <4>1. WayOf(l, x)' = Cat(Cat(Nil, o), Cat(s, p))
        BY <1>2, <2>1, <2>2, <3>1 DEF WayOf
      <4>2. Cat(Cat(Nil, o), Cat(s, p)) = Cat(o, Cat(s, p))
        BY <3>3, <3>4, Regroup
      <4> QED
        BY <3>2, <4>1, <4>2
    <3>7. Box(l, x)' = IF On(l, x) /\ Len(Box(l, x)) < ChanCap
                       THEN Append(Box(l, x), e) ELSE Box(l, x)
      BY <1>2, <1>3, <1>7, <2>3 DEF Box, On, Sent, SentTo
    <3> QED
      BY <1>5, <3>3, <3>4, <3>5, <3>6, <3>7, WayHands
  <2>4. CASE x \notin delivering[l].to
    <3>1. InHand(l, x) = Nil
      BY <1>2, <1>7, <2>4 DEF InHand, Nil
    <3>2. UNCHANGED WayOf(l, x)
      BY <1>2, <2>1, <2>2, <3>1 DEF WayOf
    <3>3. UNCHANGED Box(l, x)
      BY <1>2, <1>3, <1>7, <2>4 DEF Box
    <3> QED
      BY <1>5, <3>2, <3>3, WayStays
  <2> QED
    BY <2>3, <2>4
<1> QED
  BY <1>6, <1>7

(* The other steps of the lines touch nothing of a way; a line is opened   *)
(* with nobody at work on it.                                              *)
LEMMA WayOfLineFrame ==
  ASSUME Inv, Begun, NEW l \in Lines, NEW x \in Subscribers,
         \/ \E k \in Lines : FilterExit(k) \/ CollectorExit(k) \/ OpenLine(k) \/ CleanupLine(k)
         \/ \E p \in Pages : ClosePage(p)
  PROVE  WayStep(l, x)
<1>1. UNCHANGED <<fanout, src, out, delivering, waiting, inbox>>
  BY DEF FilterExit, CollectorExit, OpenLine, CleanupLine, ClosePage, pumpVars, lineVars, collVars,
         guestVars, waitVars
<1>2. \/ collector'[l] = collector[l]
      \/ {collector[l], collector'[l]} \subseteq {"off", "running", "exited"}
  BY DEF FilterExit, CollectorExit, OpenLine, CleanupLine, ClosePage, collVars, Begun, Inv, Types,
         CollectorTypes
<1>3. InHand(l, x)' = InHand(l, x) /\ InPump(l)' = InPump(l)
  BY <1>1, <1>2 DEF InHand, InPump
<1>4. UNCHANGED WayOf(l, x)
  BY <1>1, <1>3 DEF WayOf
<1> QED
  BY <1>1, <1>4, SameGuest, WayStays

(* A guest's own steps: a waiter leaves with its channel, a feed leaves    *)
(* behind what its mover has not yet taken.                                *)
LEMMA WayOfGuestStep ==
  ASSUME Inv, Begun, NEW l \in Lines, NEW x \in Subscribers,
         \/ \E w \in Waiters : Hear(w) \/ TimeOut(w) \/ \E k \in Lines : StartWait(w, k)
         \/ \E f \in Feeds : FeedStep(f)
         \/ \E s \in Streams : \/ StreamStep(s) \/ Breaks(s) \/ ContextEnds(s)
                               \/ \E p \in Pages, q \in Queries : OpenStream(s, p, q)
  PROVE  WayStep(l, x)
<1>1. UNCHANGED <<fanout, src, out, collector, delivering>>
  BY DEF Hear, TimeOut, StartWait, FeedStep, Subscribe, Move, MoverExit, Unsubscribe, StreamStep,
         Write, LeaveLoop, EndStream, Breaks, ContextEnds, OpenStream, LinesStay, pumpVars,
         lineVars, collVars
<1>2. UNCHANGED WayOf(l, x)
  BY <1>1, SameParts
<1>3. DOMAIN waiting = Subscribers /\ DOMAIN inbox = Subscribers
  BY DEF Inv, Types, InboxTypes, WaitTypes
<1>4. ASSUME NEW w \in Waiters, Hear(w) \/ TimeOut(w) PROVE WayStep(l, x)
  <2>1. /\ waiting[w] \in Lines
        /\ \/ waiting' = waiting /\ inbox[w] # << >> /\ inbox' = [inbox EXCEPT ![w] = Tail(@)]
           \/ waiting' = [waiting EXCEPT ![w] = Ended] /\ inbox' = [inbox EXCEPT ![w] = << >>]
    BY <1>4 DEF Hear, TimeOut, EndWait
  <2> QED
    BY <1>2, <1>3, <2>1, WayOfGuest
<1>5. ASSUME NEW w \in Waiters, NEW k \in Lines, StartWait(w, k) PROVE WayStep(l, x)
  <2>1. waiting[w] = NoLine /\ waiting' = [waiting EXCEPT ![w] = k] /\ inbox' = inbox
    BY <1>5 DEF StartWait
  <2>2. inbox[w] = << >>
    BY <2>1 DEF Inv, GuestInv, WaiterOK
  <2> QED
    BY <1>2, <1>3, <2>1, <2>2, WayOfGuest
<1>6. ASSUME NEW f \in Feeds, FeedStep(f) PROVE WayStep(l, x)
  <2>1. CASE Subscribe(f)
    <3>1. waiting[f] = NoLine /\ inbox[f] = << >> /\ inbox' = inbox
      BY <2>1 DEF Subscribe, Begun
    <3>2. PICK k : k = LineOf(f)
      OBVIOUS
    <3>3. k \in Lines /\ waiting' = [waiting EXCEPT ![f] = k]
      <4>1. LineOf(f) \in Lines
        BY <2>1, LineOfFeed DEF Subscribe, Inv, Types
      <4> QED
        BY <2>1, <3>2, <4>1 DEF Subscribe
    <3> QED
      BY <1>2, <1>3, <3>1, <3>3, WayOfGuest
  <2>2. CASE Move(f)
    <3>1. waiting' = waiting /\ inbox[f] # << >> /\ inbox' = [inbox EXCEPT ![f] = Tail(@)]
      BY <2>2 DEF Move
    <3> QED
      BY <1>2, <1>3, <3>1, WayOfGuest
  <2>3. CASE MoverExit(f)
    <3>1. waiting' = waiting /\ inbox' = inbox
      BY <2>3 DEF MoverExit
    <3> QED
      BY <1>2, <3>1, WayOfGuest
  <2>4. CASE Unsubscribe(f)
    <3>1. waiting[f] \in Lines /\ waiting' = [waiting EXCEPT ![f] = Ended] /\ inbox' = inbox
      BY <2>4 DEF Unsubscribe
    <3> QED
      BY <1>2, <1>3, <3>1, WayOfGuest
  <2> QED
    BY <1>6, <2>1, <2>2, <2>3, <2>4 DEF FeedStep
<1>7. ASSUME NEW s \in Streams,
             \/ StreamStep(s) \/ Breaks(s) \/ ContextEnds(s)
             \/ \E p \in Pages, q \in Queries : OpenStream(s, p, q)
      PROVE  WayStep(l, x)
  <2>1. waiting' = waiting /\ inbox' = inbox
    BY <1>7 DEF StreamStep, Write, LeaveLoop, EndStream, Breaks, ContextEnds, OpenStream
  <2> QED
    BY <1>2, <2>1, WayOfGuest
<1> QED
  BY <1>4, <1>5, <1>6, <1>7

LEMMA BegunInit ==
  ASSUME Init
  PROVE  Begun
BY DEF Init, Begun, Feeds, Subscribers

LEMMA BegunLineStep ==
  ASSUME Inv, Begun, NEW l \in Lines,
         FilterStep(l) \/ CollectorStep(l) \/ OpenLine(l) \/ CleanupLine(l)
  PROVE  Begun'
<1>1. /\ DOMAIN filter = Lines /\ DOMAIN collector = Lines /\ DOMAIN inbox = Subscribers
      /\ Feeds \subseteq Subscribers /\ NoLine # l
  BY EventPipelineAssumption
     DEF Inv, Types, LineTypes, CollectorTypes, InboxTypes, Subscribers, Lines
<1>2. UNCHANGED <<mover, waiting>>
  BY DEF FilterStep, FilterEvent, FilterExit, CollectorStep, Collect, CopyWaiters, Deliver,
         CollectorExit, OpenLine, CleanupLine, guestVars, waitVars, streamVars
<1>3. ASSUME NEW k \in Lines, filter'[k] = "off" PROVE collector'[k] = "off"
  <2>1. CASE FilterStep(l) \/ CleanupLine(l)
    <3>1. UNCHANGED collector /\ (filter' = filter \/ filter' = [filter EXCEPT ![l] = "exited"])
      BY <2>1 DEF FilterStep, FilterEvent, FilterExit, CleanupLine, collVars
    <3> QED
      BY <1>1, <1>3, <3>1 DEF Begun
  <2>2. CASE CollectorStep(l)
    <3>1. /\ UNCHANGED filter /\ collector[l] # "off"
          /\ \E v \in {"adding", "fanning", "running", "exited"} :
               collector' = [collector EXCEPT ![l] = v]
      BY <2>2 DEF CollectorStep, Collect, CopyWaiters, Deliver, CollectorExit, lineVars
    <3> QED
      BY <1>1, <1>3, <3>1 DEF Begun
  <2>3. CASE OpenLine(l)
    <3>1. /\ filter' = [filter EXCEPT ![l] = "running"]
          /\ collector' = [collector EXCEPT ![l] = "running"]
      BY <2>3 DEF OpenLine
    <3> QED
      BY <1>1, <1>3, <3>1 DEF Begun
  <2> QED
    BY <2>1, <2>2, <2>3
<1>4. ASSUME NEW f \in Feeds, mover'[f] = "off" PROVE waiting'[f] = NoLine /\ inbox'[f] = << >>
  <2>1. waiting[f] = NoLine /\ inbox[f] = << >>
    BY <1>2, <1>4 DEF Begun
  <2>2. inbox'[f] = inbox[f]
    <3>1. CASE Deliver(l)
      BY <1>1, <2>1, <3>1 DEF Deliver
    <3>2. CASE ~Deliver(l)
      BY <3>2 DEF FilterStep, FilterEvent, FilterExit, CollectorStep, Collect, CopyWaiters,
                  CollectorExit, OpenLine, CleanupLine, guestVars, waitVars
    <3> QED
      BY <3>1, <3>2
  <2> QED
    BY <1>2, <2>1, <2>2
<1> QED
  BY <1>3, <1>4 DEF Begun

LEMMA BegunGuestStep ==
  ASSUME Inv, Begun,
         \/ \E w \in Waiters : Hear(w) \/ TimeOut(w) \/ \E l \in Lines : StartWait(w, l)
         \/ \E f \in Feeds : FeedStep(f)
         \/ \E s \in Streams : \/ StreamStep(s) \/ Breaks(s) \/ ContextEnds(s)
                               \/ \E p \in Pages, q \in Queries : OpenStream(s, p, q)
  PROVE  Begun'
<1>1. UNCHANGED <<filter, collector>>
  BY DEF Hear, TimeOut, StartWait, FeedStep, Subscribe, Move, MoverExit, Unsubscribe, StreamStep,
         Write, LeaveLoop, EndStream, Breaks, ContextEnds, OpenStream, LinesStay, pumpVars,
         lineVars, collVars
<1>2. /\ DOMAIN waiting = Subscribers /\ DOMAIN inbox = Subscribers /\ DOMAIN mover = Feeds
      /\ Feeds \subseteq Subscribers /\ NoLine \notin Lines
      /\ \A f \in Feeds : f \notin Waiters
  BY GuestTyping, EventPipelineAssumption
     DEF Inv, Types, InboxTypes, WaitTypes, StreamTypes, Subscribers, Lines
<1>3. ASSUME NEW f \in Feeds, mover'[f] = "off" PROVE waiting'[f] = NoLine /\ inbox'[f] = << >>
  <2>1. ASSUME NEW w \in Waiters, Hear(w) \/ TimeOut(w) \/ \E l \in Lines : StartWait(w, l)
        PROVE  waiting'[f] = NoLine /\ inbox'[f] = << >>
    <3>1. UNCHANGED mover /\ f # w
      BY <1>2, <2>1 DEF Hear, TimeOut, StartWait, streamVars
    <3>2. waiting'[f] = waiting[f] /\ inbox'[f] = inbox[f]
      BY <1>2, <2>1, <3>1 DEF Hear, TimeOut, StartWait, EndWait
    <3> QED
      BY <1>3, <3>1, <3>2 DEF Begun
  <2>2. ASSUME NEW g \in Feeds, FeedStep(g)
        PROVE  waiting'[f] = NoLine /\ inbox'[f] = << >>
    <3>1. CASE Subscribe(g) \/ Move(g) \/ MoverExit(g)
      <4>1. /\ (mover' = mover /\ mover[g] # "off") \/ mover'[g] # "off"
            /\ \A h \in Feeds \ {g} : /\ mover'[h] = mover[h] /\ waiting'[h] = waiting[h]
                                      /\ inbox'[h] = inbox[h]
        BY <1>2, <3>1 DEF Subscribe, Move, MoverExit
      <4> QED
        BY <1>3, <4>1 DEF Begun
    <3>2. CASE Unsubscribe(g)
      <4>1. /\ UNCHANGED <<mover, inbox>>
            /\ waiting[g] \in Lines /\ waiting' = [waiting EXCEPT ![g] = Ended]
        BY <3>2 DEF Unsubscribe, streamVars
      <4> QED
        BY <1>2, <1>3, <4>1 DEF Begun
    <3> QED
      BY <2>2, <3>1, <3>2 DEF FeedStep
  <2>3. ASSUME NEW s \in Streams,
               \/ StreamStep(s) \/ Breaks(s) \/ ContextEnds(s)
               \/ \E p \in Pages, q \in Queries : OpenStream(s, p, q)
        PROVE  waiting'[f] = NoLine /\ inbox'[f] = << >>
    <3>1. UNCHANGED <<mover, waiting, inbox>>
      BY <2>3 DEF StreamStep, Write, LeaveLoop, EndStream, Breaks, ContextEnds, OpenStream
    <3> QED
      BY <1>3, <3>1 DEF Begun
  <2> QED
    BY <2>1, <2>2, <2>3
<1> QED
  BY <1>1, <1>3 DEF Begun

LEMMA BegunFrame ==
  ASSUME Begun, UNCHANGED <<filter, collector, mover, waiting, inbox>>
  PROVE  Begun'
BY DEF Begun

LEMMA BegunNext ==
  ASSUME Inv, Begun, [Next]_vars
  PROVE  Begun'
<1>1. CASE \/ FanOut \/ \E l \in Lines : Dispatch(l)
           \/ \E p \in Pages : ClosePage(p)
           \/ UNCHANGED vars
  <2>1. UNCHANGED <<filter, collector, mover, waiting, inbox>>
    BY <1>1 DEF FanOut, Dispatch, ClosePage, vars, lineVars, collVars, guestVars, waitVars,
                streamVars
  <2> QED
    BY <2>1, BegunFrame
<1> QED
  BY <1>1, BegunLineStep, BegunGuestStep DEF Next

LEMMA WayBegins ==
  ASSUME Init, NEW l \in Lines, NEW x \in Subscribers
  PROVE  Way(l, x)!WayInit
<1>1. InHand(l, x) = << >> /\ InPump(l) = << >> /\ out[l] = << >> /\ src[l] = << >>
  BY DEF Init, InHand, InPump, None
<1>2. waiting[x] # l
  BY EventPipelineAssumption DEF Init, Lines
<1> QED
  BY <1>1, <1>2 DEF Way!WayInit

LEMMA EveryStepOnWay ==
  ASSUME Inv, Begun, [Next]_vars, NEW l \in Lines, NEW x \in Subscribers
  PROVE  WayStep(l, x)
<1>1. CASE UNCHANGED vars
  <2>1. UNCHANGED <<fanout, src, out, collector, delivering, waiting, inbox>>
    BY <1>1 DEF vars, lineVars, collVars, guestVars, waitVars
  <2> QED
    BY <2>1, SameParts, SameGuest, WayStays
<1>2. CASE FanOut \/ \E k \in Lines : Dispatch(k)
  BY <1>2, WayOfFanOut, WayOfDispatch
<1>3. CASE \E k \in Lines : FilterEvent(k) \/ Collect(k) \/ CopyWaiters(k) \/ Deliver(k)
  BY <1>3, WayOfFilterEvent, WayOfCollect, WayOfCopyWaiters, WayOfDeliver
<1>4. CASE \/ \E k \in Lines : FilterExit(k) \/ CollectorExit(k) \/ OpenLine(k) \/ CleanupLine(k)
           \/ \E p \in Pages : ClosePage(p)
  BY <1>4, WayOfLineFrame
<1>5. CASE \/ \E w \in Waiters : Hear(w) \/ TimeOut(w) \/ \E k \in Lines : StartWait(w, k)
           \/ \E f \in Feeds : FeedStep(f)
           \/ \E s \in Streams : \/ StreamStep(s) \/ Breaks(s) \/ ContextEnds(s)
                                 \/ \E p \in Pages, q \in Queries : OpenStream(s, p, q)
  BY <1>5, WayOfGuestStep
<1> QED
  BY <1>1, <1>2, <1>3, <1>4, <1>5 DEF Next, FilterStep, CollectorStep

(* Every line, seen from every subscriber, is the lossy queue of EventWay, *)
(* whatever its two goroutines, the pump and Page.Close are doing          *)
(* (client.go:137-176, session.go:105-123, events.go:34-90, httpsse.go:    *)
(* 152-205): the two channels, the filter and the copy of the subscribers  *)
(* between them show in nothing but when an event may be lost.             *)
THEOREM PipelineImplementsWay == Spec => ImplementsWay
<1>1. Init => Begun /\ \A l \in Lines, x \in Subscribers : Way(l, x)!WayInit
  BY BegunInit, WayBegins
<1>2. Inv /\ Begun /\ [Next]_vars => Begun'
  BY BegunNext
<1>3. Inv /\ Begun /\ [Next]_vars =>
        [\A l \in Lines, x \in Subscribers :
           UNCHANGED Way(l, x)!wayVars \/ Way(l, x)!WayNext]_vars
  BY EveryStepOnWay DEF WayStep
<1> QED
  BY <1>1, <1>2, <1>3, EventPipelineInvariant, PTL DEF Spec, ImplementsWay
===============================================================================
