--------------------------- MODULE ActionDiff_proofs ---------------------------
(***************************************************************************)
(* Proofs about ActionDiff, and with it about Interaction and RingBuffer,  *)
(* which it composes: for any number of agents, any page and viewport, any *)
(* length of drag, any number of calls and any capacity of the ring.       *)
(*                                                                         *)
(* The ring.  RingInv is inductive; Contents, the walk from head, is then  *)
(* the last Cap events, and each Add is a step of the bounded log.         *)
(*                                                                         *)
(* The gestures.  GestureInv has three parts that need each other.        *)
(*   - StandingInv: what is known of a call at each label.  Only a call    *)
(*     that acts has commands to do; those let go of all they press        *)
(*     (LetsGo, a fact about the whole rest of a gesture), and when an     *)
(*     element was named they come in an order in which each command's     *)
(*     premise was set up by the one before it (Orderly).                  *)
(*   - PlacedInv: that premise holds as long as nothing moved.  The box    *)
(*     is measured of an element in view, the pointer acts at a point      *)
(*     that element is under, the keys go to it because it has the focus.  *)
(*   - NothingStaysDown is then inductive: a command only takes from what  *)
(*     the rest of its gesture owes what it lets go of itself.             *)
(* CacheInv ties an agent's ids to the cached snapshot until it changes.   *)
(*                                                                         *)
(* The diff.  HearInv relates the ring to what was recorded since a diff   *)
(* began: the ring ends with the youngest of that, and all in front of it  *)
(* is no younger than the diff's start (Follows).  The filter of the reply *)
(* is a walk over a sequence of any length, about which lemmas are proved  *)
(* by a shortest counterexample (Smallest).                                *)
(***************************************************************************)
EXTENDS ActionDiff, SequenceTheorems, WellFoundedInduction, TLAPS

-------------------------------------------------------------------------------
(* The ring.                                                               *)

(* Index arithmetic: a position less than twice around the ring wraps at   *)
(* most once (the % of event_buffer.go:39, 45 and 60).                     *)
LEMMA WrapOnce ==
  ASSUME NEW c \in Nat \ {0}, NEW x \in Nat, x < 2 * c
  PROVE  x % c = IF x < c THEN x ELSE x - c
OBVIOUS

LEMMA CapPositive == Cap \in Nat \ {0}
BY RingBufferAssumption DEF Cap

LEMMA WrapCap ==
  \A x \in Nat : x < 2 * Cap => x % Cap = IF x < Cap THEN x ELSE x - Cap
BY WrapOnce, CapPositive

(* Distinct positions of a full turn are distinct slots.                   *)
LEMMA SlotsDistinct ==
  \A h, i, j \in Slots : i # j => (h + i) % Cap # (h + j) % Cap
BY WrapCap, CapPositive DEF Slots

LEMMA SlotInRange ==
  \A h \in Slots, i \in 0 .. Cap : (h + i) % Cap \in Slots
BY WrapCap, CapPositive DEF Slots

LEMMA InitRing == RingInit => RingInv
BY CapPositive
   DEF RingInit, RingInv, RingTypeOK, HeadMovesOnlyWhenFull, NoPhantomEvent, Slots

LEMMA ContentsIsSeq ==
  ASSUME RingInv
  PROVE  /\ Contents \in Seq(Events)
         /\ Len(Contents) = size
         /\ DOMAIN Contents = 1 .. size
<1>1. size \in Nat BY DEF RingInv, RingTypeOK
<1>2. Contents \in [1 .. size -> Events]
  BY <1>1 DEF RingInv, NoPhantomEvent, Contents
<1>3. QED BY <1>1, <1>2

(* Adding to a ring that is not full appends to its contents.              *)
LEMMA AddToFreeStep ==
  ASSUME RingInv, NEW e \in Events, AddToFree(e)
  PROVE  RingInv' /\ Contents' = Append(Contents, e) /\ Len(Contents) < Cap
<1> USE CapPositive DEF Slots
<1>1. /\ items \in [Slots -> Events \cup {NoEvent}] /\ head = 0
      /\ size \in 0 .. Cap - 1 /\ size' = size + 1 /\ head' = head
      /\ items' = [items EXCEPT ![(head + size) % Cap] = e]
  BY DEF RingInv, RingTypeOK, HeadMovesOnlyWhenFull, AddToFree
<1>2. (head + size) % Cap \in Slots
  BY <1>1, SlotInRange
<1>3. RingTypeOK' /\ HeadMovesOnlyWhenFull'
  BY <1>1, <1>2 DEF RingTypeOK, HeadMovesOnlyWhenFull
<1>4. Contents' = Append(Contents, e)
  <2>1. Contents' = [i \in 1 .. size + 1 |-> items'[(head + (i - 1)) % Cap]]
    BY <1>1 DEF Contents
  <2>2. ASSUME NEW i \in 1 .. size
        PROVE  items'[(head + (i - 1)) % Cap] = Contents[i]
    <3>1. /\ head \in Slots /\ size \in Slots /\ i - 1 \in Slots /\ i - 1 # size
          /\ i - 1 \in 0 .. Cap
      BY <1>1
    <3>2. (head + (i - 1)) % Cap # (head + size) % Cap
      BY <3>1, SlotsDistinct
    <3>3. (head + (i - 1)) % Cap \in Slots
      BY <3>1, SlotInRange
    <3>4. QED BY <1>1, <3>2, <3>3 DEF Contents
  <2>3. items'[(head + size) % Cap] = e
    BY <1>1, <1>2
  <2>4. Append(Contents, e)
          = [i \in 1 .. size + 1 |-> IF i = size + 1 THEN e ELSE Contents[i]]
    <3>1. Contents \in Seq(Events) /\ Len(Contents) = size
      BY ContentsIsSeq
    <3>2. /\ Append(Contents, e) \in Seq(Events)
          /\ Len(Append(Contents, e)) = size + 1
          /\ \A i \in 1 .. size : Append(Contents, e)[i] = Contents[i]
          /\ Append(Contents, e)[size + 1] = e
      BY <3>1, AppendProperties
    <3>3. Append(Contents, e) = [i \in 1 .. size + 1 |-> Append(Contents, e)[i]]
      BY <3>2, LenProperties
    <3>4. \A i \in 1 .. size + 1 : i # size + 1 => i \in 1 .. size
      BY <1>1
    <3>5. QED BY <3>2, <3>3, <3>4
  <2>5. \A i \in 1 .. size + 1 :
          items'[(head + (i - 1)) % Cap] = IF i = size + 1 THEN e ELSE Contents[i]
    <3> SUFFICES ASSUME NEW i \in 1 .. size + 1
                 PROVE items'[(head + (i - 1)) % Cap]
                         = IF i = size + 1 THEN e ELSE Contents[i]
      OBVIOUS
    <3>1. CASE i = size + 1
      BY <3>1, <2>3, <1>1, (size + 1) - 1 = size
    <3>2. CASE i # size + 1
      BY <3>2, <2>2, <1>1
    <3>3. QED BY <3>1, <3>2
  <2>6. QED BY <2>1, <2>4, <2>5
<1>5. \A i \in 1 .. size + 1 : Append(Contents, e)[i] \in Events
  BY ContentsIsSeq, <1>1
<1>6. NoPhantomEvent'
  BY <1>4, <1>5, <1>1 DEF NoPhantomEvent
<1>7. QED BY <1>1, <1>3, <1>4, <1>6, ContentsIsSeq DEF RingInv

(* Adding to a full ring drops its oldest event and appends the new one.   *)
LEMMA AddOverOldestStep ==
  ASSUME RingInv, NEW e \in Events, AddOverOldest(e)
  PROVE  RingInv' /\ Contents' = Append(Tail(Contents), e) /\ Len(Contents) = Cap
<1> USE CapPositive DEF Slots
<1>1. /\ items \in [Slots -> Events \cup {NoEvent}] /\ head \in 0 .. Cap - 1
      /\ size = Cap /\ size' = size /\ head' = (head + 1) % Cap
      /\ items' = [items EXCEPT ![head] = e]
  BY DEF RingInv, RingTypeOK, AddOverOldest
<1>2. head' = (IF head + 1 < Cap THEN head + 1 ELSE 0)
  <2> DEFINE x == head + 1
  <2>1. x \in Nat /\ x < 2 * Cap
    BY <1>1
  <2>2. x % Cap = IF x < Cap THEN x ELSE x - Cap
    BY <2>1, WrapCap
  <2>3. QED BY <1>1, <2>2
<1>3. RingTypeOK' /\ HeadMovesOnlyWhenFull'
  BY <1>1, <1>2 DEF RingTypeOK, HeadMovesOnlyWhenFull
<1>4. Contents' = Append(Tail(Contents), e)
  <2>1. Contents' = [i \in 1 .. Cap |-> items'[(head' + (i - 1)) % Cap]]
    BY <1>1 DEF Contents
  <2>2. ASSUME NEW i \in 1 .. Cap - 1
        PROVE  items'[(head' + (i - 1)) % Cap] = Contents[i + 1]
    <3>0. (head + i) % Cap = IF head + i < Cap THEN head + i ELSE head + i - Cap
      <4> DEFINE y == head + i
      <4>1. y \in Nat /\ y < 2 * Cap
        BY <1>1
      <4>2. y % Cap = IF y < Cap THEN y ELSE y - Cap
        BY <4>1, WrapCap
      <4>3. QED BY <1>1, <4>2
    <3>1. (head' + (i - 1)) % Cap = (head + i) % Cap
      <4> PICK x : x = head' + (i - 1)
        OBVIOUS
      <4>1. x \in Nat /\ x < 2 * Cap
        BY <1>1, <1>2
      <4>2. x % Cap = IF x < Cap THEN x ELSE x - Cap
        BY <4>1, WrapCap
      <4>3. (IF x < Cap THEN x ELSE x - Cap) = IF head + i < Cap THEN head + i ELSE head + i - Cap
        BY <1>1, <1>2
      <4>4. QED BY <3>0, <4>2, <4>3
    <3>2. (head + i) % Cap # head
      BY <1>1, <3>0
    <3>3. (head + i) % Cap \in Slots
      BY <1>1, SlotInRange, i \in 0 .. Cap
    <3>4. (i + 1) - 1 = i /\ i + 1 \in 1 .. size
      BY <1>1
    <3>5. QED BY <1>1, <3>1, <3>2, <3>3, <3>4 DEF Contents
  <2>3. items'[(head' + (Cap - 1)) % Cap] = e
    <3>1. (head' + (Cap - 1)) % Cap = head
      <4> DEFINE x == head' + (Cap - 1)
      <4>1. x \in Nat /\ x < 2 * Cap
        BY <1>1, <1>2
      <4>2. x % Cap = IF x < Cap THEN x ELSE x - Cap
        BY <4>1, WrapCap
      <4>3. QED BY <1>1, <1>2, <4>2
    <3>2. QED BY <3>1, <1>1
  <2>4. /\ Contents \in Seq(Events) /\ Len(Contents) = Cap /\ Contents # << >>
    BY ContentsIsSeq, <1>1
  <2>5. /\ Tail(Contents) \in Seq(Events) /\ Len(Tail(Contents)) = Cap - 1
        /\ \A i \in 1 .. Cap - 1 : Tail(Contents)[i] = Contents[i + 1]
    BY <2>4, HeadTailProperties
  <2>6. Append(Tail(Contents), e)
          = [i \in 1 .. Cap |-> IF i = Cap THEN e ELSE Contents[i + 1]]
    <3> DEFINE s == Append(Tail(Contents), e)
    <3>1. /\ s \in Seq(Events) /\ Len(s) = Cap
          /\ \A i \in 1 .. Cap - 1 : s[i] = Tail(Contents)[i]
          /\ s[Cap] = e
      BY <2>5, AppendProperties, Cap - 1 + 1 = Cap
    <3>2. s = [i \in 1 .. Cap |-> s[i]]
      BY <3>1, LenProperties
    <3>3. \A i \in 1 .. Cap : i # Cap => i \in 1 .. Cap - 1
      OBVIOUS
    <3>4. QED BY <3>1, <3>2, <3>3, <2>5
  <2>7. \A i \in 1 .. Cap :
          items'[(head' + (i - 1)) % Cap] = IF i = Cap THEN e ELSE Contents[i + 1]
    <3> SUFFICES ASSUME NEW i \in 1 .. Cap
                 PROVE items'[(head' + (i - 1)) % Cap]
                         = IF i = Cap THEN e ELSE Contents[i + 1]
      OBVIOUS
    <3>1. CASE i = Cap
      BY <3>1, <2>3
    <3>2. CASE i # Cap
      BY <3>2, <2>2
    <3>3. QED BY <3>1, <3>2
  <2>8. QED BY <2>1, <2>6, <2>7
<1>5. \A i \in 1 .. Cap : Append(Tail(Contents), e)[i] \in Events
  <2>1. Contents \in Seq(Events) /\ Len(Contents) = Cap
    BY ContentsIsSeq, <1>1
  <2>2. Tail(Contents) \in Seq(Events) /\ Len(Tail(Contents)) = Cap - 1
    BY <2>1, HeadTailProperties
  <2>3. QED BY <2>2
<1>6. NoPhantomEvent'
  BY <1>4, <1>5, <1>1 DEF NoPhantomEvent
<1>7. QED BY <1>1, <1>3, <1>4, <1>6, ContentsIsSeq DEF RingInv

LEMMA RingInvStep == RingInv /\ [RingNext]_ringVars => RingInv'
<1> SUFFICES ASSUME RingInv, [RingNext]_ringVars PROVE RingInv'
  OBVIOUS
<1>1. ASSUME NEW e \in Events, Add(e) PROVE RingInv'
  BY <1>1, AddToFreeStep, AddOverOldestStep DEF Add
<1>2. CASE UNCHANGED ringVars
  BY <1>2 DEF ringVars, RingInv, RingTypeOK, HeadMovesOnlyWhenFull, NoPhantomEvent,
              Contents
<1>3. QED BY <1>1, <1>2 DEF RingNext

(* The ring's invariant holds in every reachable state: head and size stay *)
(* in range, head only moves once the ring is full, and every valid slot   *)
(* holds an event that was added (event_buffer.go:34-46).                  *)
THEOREM RingInvariance == RingSpec => []RingInv
BY InitRing, RingInvStep, PTL DEF RingSpec

(* The ring implements the bounded log, whatever capacity was asked for:   *)
(* Recent's walk from head sees the last Cap events, oldest first.         *)
THEOREM RingImplementsLog == RingSpec => ImplementsLog
<1>1. RingInit => Log!LogInit
  BY ContentsIsSeq, InitRing DEF RingInit, Log!LogInit
<1>2. RingInv /\ [RingNext]_ringVars => [Log!LogNext]_Contents
  <2> SUFFICES ASSUME RingInv, [RingNext]_ringVars
               PROVE  [Log!LogNext]_Contents
    OBVIOUS
  <2>1. ASSUME NEW e \in Events, Add(e) PROVE Log!Record(e)
    BY <2>1, AddToFreeStep, AddOverOldestStep, CapPositive DEF Add, Log!Record
  <2>2. CASE UNCHANGED ringVars
    BY <2>2 DEF ringVars, Contents
  <2>3. QED BY <2>1, <2>2 DEF RingNext, Log!LogNext
<1>3. QED BY <1>1, <1>2, RingInvariance, PTL DEF RingSpec, ImplementsLog, Log!LogSpec

-------------------------------------------------------------------------------
(* What a gesture presses it lets go of: a press is followed by the release*)
(* of what it pressed, and by no other press of the same.                  *)

Commands == NeedsNode \cup DOMAIN Presses \cup DOMAIN Releases
              \cup {"clear", "type", "move", "choose", "dragOver"}

LetsGo(todo) ==
  \A i \in DOMAIN todo :
    todo[i] \in DOMAIN Presses =>
      /\ \E j \in DOMAIN todo :
           i < j /\ todo[j] \in DOMAIN Releases /\ Releases[todo[j]] = Presses[todo[i]]
      /\ \A j \in DOMAIN todo :
           i < j /\ todo[j] \in DOMAIN Presses => Presses[todo[j]] # Presses[todo[i]]

PressedBy(c)  == {Presses[x] : x \in {c} \cap DOMAIN Presses}
ReleasedBy(c) == {Releases[x] : x \in {c} \cap DOMAIN Releases}

LEMMA TailElements ==
  ASSUME NEW s \in Seq(Commands), s # << >>
  PROVE  /\ Head(s) \in Commands /\ Tail(s) \in Seq(Commands) /\ Head(s) = s[1]
         /\ DOMAIN s = 1 .. Len(s) /\ DOMAIN Tail(s) = 1 .. Len(s) - 1 /\ 1 \in DOMAIN s
         /\ \A i \in DOMAIN Tail(s) : i + 1 \in DOMAIN s /\ Tail(s)[i] = s[i + 1]
         /\ \A i \in DOMAIN s : i # 1 => i - 1 \in DOMAIN Tail(s) /\ Tail(s)[i - 1] = s[i]
<1> DEFINE t == Tail(s)
<1>1. /\ Head(s) \in Commands /\ t \in Seq(Commands) /\ Len(t) = Len(s) - 1
      /\ \A i \in 1 .. Len(t) : t[i] = s[i + 1]
      /\ Len(s) \in Nat /\ Len(s) > 0 /\ Head(s) = s[1]
      /\ DOMAIN s = 1 .. Len(s) /\ DOMAIN t = 1 .. Len(t)
  BY HeadTailProperties, LenProperties, EmptySeq
<1> HIDE DEF t
<1>2. \A i \in DOMAIN t : i + 1 \in DOMAIN s /\ t[i] = s[i + 1]
  BY <1>1
<1>3. \A i \in DOMAIN s : i # 1 => i - 1 \in DOMAIN t /\ t[i - 1] = s[i]
  <2> SUFFICES ASSUME NEW i \in DOMAIN s, i # 1 PROVE i - 1 \in DOMAIN t /\ t[i - 1] = s[i]
    OBVIOUS
  <2>1. i - 1 \in 1 .. Len(t) /\ (i - 1) + 1 = i
    BY <1>1
  <2> QED
    BY <1>1, <2>1
<1> QED
  BY <1>1, <1>2, <1>3 DEF t

LEMMA LetsGoTail ==
  ASSUME NEW s \in Seq(Commands), s # << >>, LetsGo(s)
  PROVE  LetsGo(Tail(s))
<1> PICK t : t = Tail(s)
  OBVIOUS
<1>1. /\ DOMAIN s = 1 .. Len(s) /\ DOMAIN t = 1 .. Len(s) - 1 /\ Len(s) \in Nat
      /\ \A i \in DOMAIN t : i + 1 \in DOMAIN s /\ t[i] = s[i + 1]
      /\ \A i \in DOMAIN s : i # 1 => i - 1 \in DOMAIN t /\ t[i - 1] = s[i]
  BY TailElements, LenProperties
<1> SUFFICES LetsGo(t)
  OBVIOUS
<1> SUFFICES ASSUME NEW i \in DOMAIN t, t[i] \in DOMAIN Presses
             PROVE  /\ \E j \in DOMAIN t :
                         i < j /\ t[j] \in DOMAIN Releases /\ Releases[t[j]] = Presses[t[i]]
                    /\ \A j \in DOMAIN t :
                         i < j /\ t[j] \in DOMAIN Presses => Presses[t[j]] # Presses[t[i]]
  BY DEF LetsGo
<1>2. i + 1 \in DOMAIN s /\ t[i] = s[i + 1] /\ i \in Nat
  BY <1>1
<1>3. PICK j \in DOMAIN s :
        i + 1 < j /\ s[j] \in DOMAIN Releases /\ Releases[s[j]] = Presses[s[i + 1]]
  BY <1>2 DEF LetsGo
<1>4. j - 1 \in DOMAIN t /\ t[j - 1] = s[j] /\ i < j - 1
  BY <1>1, <1>2, <1>3
<1>5. ASSUME NEW k \in DOMAIN t, i < k, t[k] \in DOMAIN Presses
      PROVE  Presses[t[k]] # Presses[t[i]]
  <2>1. k + 1 \in DOMAIN s /\ t[k] = s[k + 1] /\ i + 1 < k + 1
    BY <1>1, <1>2, <1>5
  <2> QED
    BY <1>2, <1>5, <2>1 DEF LetsGo
<1> QED
  BY <1>2, <1>3, <1>4, <1>5

(* After its next command a gesture still owes what it owed, less what     *)
(* that lets go of, and what that presses.                                 *)
LEMMA OwesTail ==
  ASSUME NEW s \in Seq(Commands), s # << >>, LetsGo(s)
  PROVE  /\ Owes(s) \ ReleasedBy(Head(s)) \subseteq Owes(Tail(s))
         /\ PressedBy(Head(s)) \ ReleasedBy(Head(s)) \subseteq Owes(Tail(s))
<1> PICK t, c : t = Tail(s) /\ c = Head(s)
  OBVIOUS
<1>1. /\ DOMAIN s = 1 .. Len(s) /\ DOMAIN t = 1 .. Len(s) - 1 /\ Len(s) \in Nat
      /\ c = s[1] /\ 1 \in DOMAIN s
      /\ \A i \in DOMAIN t : i + 1 \in DOMAIN s /\ t[i] = s[i + 1]
      /\ \A i \in DOMAIN s : i # 1 => i - 1 \in DOMAIN t /\ t[i - 1] = s[i]
  BY TailElements, LenProperties
<1>2. ToSet(s) = ToSet(t) \cup {c}
  <2>1. ASSUME NEW x \in ToSet(s) PROVE x \in ToSet(t) \cup {c}
    <3>1. PICK i \in DOMAIN s : s[i] = x
      BY DEF ToSet
    <3> QED
      BY <1>1, <3>1 DEF ToSet
  <2>2. ASSUME NEW x \in ToSet(t) PROVE x \in ToSet(s)
    BY <1>1, <2>2 DEF ToSet
  <2>3. c \in ToSet(s)
    BY <1>1 DEF ToSet
  <2> QED
    BY <2>1, <2>2, <2>3
<1>3. ASSUME NEW x \in Owes(s), x \notin ReleasedBy(c) PROVE x \in Owes(t)
  BY <1>2, <1>3 DEF Owes, ReleasedBy
<1>4. ASSUME NEW x \in PressedBy(c) PROVE x \in Owes(t)
  <2>1. c \in DOMAIN Presses /\ x = Presses[c]
    BY <1>4 DEF PressedBy
  <2>2. PICK j \in DOMAIN s : 1 < j /\ s[j] \in DOMAIN Releases /\ Releases[s[j]] = x
    BY <1>1, <2>1 DEF LetsGo
  <2>3. s[j] \in ToSet(t)
    <3>1. j - 1 \in DOMAIN t /\ t[j - 1] = s[j]
      BY <1>1, <2>2
    <3> QED
      BY <3>1 DEF ToSet
  <2>4. ASSUME NEW d \in ToSet(t) \cap DOMAIN Presses PROVE Presses[d] # x
    <3>1. PICK k \in DOMAIN t : t[k] = d
      BY DEF ToSet
    <3>2. k + 1 \in DOMAIN s /\ s[k + 1] = d /\ 1 < k + 1
      BY <1>1, <3>1
    <3> QED
      BY <1>1, <2>1, <2>4, <3>2 DEF LetsGo
  <2> QED
    BY <2>2, <2>3, <2>4 DEF Owes
<1> QED
  BY <1>3, <1>4

LEMMA OwesNothing == Owes(<< >>) = {}
BY DEF Owes, ToSet

(* The drag, whatever the number of its moves.                             *)
LEMMA DragLetsGo == Drag \in Seq(Commands) /\ Drag # << >> /\ LetsGo(Drag)
<1> DEFINE moves == [i \in 1 .. DragSteps |-> "move"]
           ps == <<"press">> \o moves
<1> USE DEF Commands, Presses, Releases
<1>0. DragSteps \in Nat
  BY InteractionAssumption
<1>1. moves \in Seq(Commands) /\ Len(moves) = DragSteps
  BY <1>0
<1>2. <<"press">> \in Seq(Commands) /\ <<"release">> \in Seq(Commands)
      /\ Len(<<"press">>) = 1 /\ Len(<<"release">>) = 1
      /\ <<"press">>[1] = "press" /\ <<"release">>[1] = "release"
  OBVIOUS
<1>3. \A i \in 1 .. DragSteps : moves[i] = "move"
  OBVIOUS
<1> HIDE DEF moves
<1>4. /\ ps \in Seq(Commands) /\ Len(ps) = 1 + DragSteps
      /\ \A i \in 1 .. 1 + DragSteps : ps[i] = IF i <= 1 THEN "press" ELSE "move"
  <2>1. /\ ps \in Seq(Commands) /\ Len(ps) = 1 + DragSteps
        /\ \A i \in 1 .. 1 + DragSteps : ps[i] = IF i <= 1 THEN <<"press">>[i] ELSE moves[i - 1]
    BY <1>1, <1>2, ConcatProperties
  <2>2. \A i \in 1 .. 1 + DragSteps : i <= 1 \/ i - 1 \in 1 .. DragSteps
    BY <1>0
  <2> QED
    BY <1>0, <1>2, <1>3, <2>1, <2>2
<1> HIDE DEF ps
<1>5. /\ Drag \in Seq(Commands) /\ Len(Drag) = DragSteps + 2
      /\ \A i \in 1 .. DragSteps + 2 :
           Drag[i] = IF i = 1 THEN "press" ELSE IF i = DragSteps + 2 THEN "release" ELSE "move"
  <2>1. Drag = ps \o <<"release">>
    BY DEF Drag, ps, moves
  <2>2. /\ Drag \in Seq(Commands) /\ Len(Drag) = 1 + DragSteps + 1
        /\ \A i \in 1 .. 1 + DragSteps + 1 :
             Drag[i] = IF i <= 1 + DragSteps THEN ps[i] ELSE <<"release">>[i - (1 + DragSteps)]
    BY <1>2, <1>4, <2>1, ConcatProperties
  <2>3. 1 + DragSteps + 1 = DragSteps + 2 /\ DragSteps + 2 - (1 + DragSteps) = 1
    BY <1>0
  <2> QED
    BY <1>0, <1>2, <1>4, <2>2, <2>3
<1>6. DOMAIN Drag = 1 .. DragSteps + 2
  BY <1>5, LenProperties
<1>7. LetsGo(Drag)
  <2> SUFFICES ASSUME NEW i \in DOMAIN Drag, Drag[i] \in DOMAIN Presses
               PROVE  /\ \E j \in DOMAIN Drag : /\ i < j /\ Drag[j] \in DOMAIN Releases
                                                /\ Releases[Drag[j]] = Presses[Drag[i]]
                      /\ \A j \in DOMAIN Drag : i < j /\ Drag[j] \in DOMAIN Presses =>
                           Presses[Drag[j]] # Presses[Drag[i]]
    BY DEF LetsGo
  <2>1. i = 1 /\ Drag[i] = "press"
    BY <1>0, <1>5, <1>6
  <2>2. DragSteps + 2 \in DOMAIN Drag /\ 1 < DragSteps + 2 /\ Drag[DragSteps + 2] = "release"
    BY <1>0, <1>5, <1>6
  <2>3. \A j \in DOMAIN Drag : 1 < j => Drag[j] \notin DOMAIN Presses
    BY <1>0, <1>5, <1>6
  <2> QED
    BY <2>1, <2>2, <2>3
<1>8. Drag # << >>
  BY <1>0, <1>5
<1> QED
  BY <1>5, <1>7, <1>8

LEMMA SyntheticDropIs == SyntheticDrop = <<"scroll", "box", "dragEnter", "dragOver", "drop">>
<1> PICK s, u, v, w : /\ s = <<"scroll", "box">> /\ u = <<"dragEnter", "dragOver", "drop">>
                      /\ v = s \o u /\ w = <<"scroll", "box", "dragEnter", "dragOver", "drop">>
  OBVIOUS
<1>1. s \in Seq(Commands) /\ Len(s) = 2 /\ s[1] = "scroll" /\ s[2] = "box"
  BY DEF Commands, NeedsNode, Presses, Releases
<1>2. /\ u \in Seq(Commands) /\ Len(u) = 3
      /\ u[1] = "dragEnter" /\ u[2] = "dragOver" /\ u[3] = "drop"
  BY DEF Commands, NeedsNode, Presses, Releases
<1>3. /\ w \in Seq(Commands) /\ Len(w) = 5
      /\ w[1] = "scroll" /\ w[2] = "box" /\ w[3] = "dragEnter" /\ w[4] = "dragOver" /\ w[5] = "drop"
  BY DEF Commands, NeedsNode, Presses, Releases
<1>4. /\ v \in Seq(Commands) /\ Len(v) = 5
      /\ \A i \in 1 .. 5 : v[i] = IF i <= 2 THEN s[i] ELSE u[i - 2]
  BY <1>1, <1>2, ConcatProperties
<1>5. v[1] = "scroll" /\ v[2] = "box" /\ v[3] = "dragEnter" /\ v[4] = "dragOver" /\ v[5] = "drop"
  BY <1>1, <1>2, <1>4
<1>6. \A i \in 1 .. 5 : v[i] = w[i]
  BY <1>3, <1>5
<1>7. v = w
  BY <1>3, <1>4, <1>6, SeqEqual
<1> QED
  BY <1>7 DEF SyntheticDrop, dispatchDrag

(* The short ones.                                                         *)
LEMMA OthersLetGo ==
  \A s \in {Click, Fill, Hover, SelectOption, UploadFile, ClickAt, HoverAt, PressKey,
               SyntheticDrop} : s \in Seq(Commands) /\ s # << >> /\ LetsGo(s)
<1> USE DEF Commands, NeedsNode, Presses, Releases
<1>1. Click \in Seq(Commands) /\ Click # << >> /\ LetsGo(Click)
  BY DEF LetsGo, Click
<1>2. Fill \in Seq(Commands) /\ Fill # << >> /\ LetsGo(Fill)
  BY DEF LetsGo, Fill
<1>3. Hover \in Seq(Commands) /\ Hover # << >> /\ LetsGo(Hover)
  BY DEF LetsGo, Hover
<1>4. SelectOption \in Seq(Commands) /\ SelectOption # << >> /\ LetsGo(SelectOption)
  BY DEF LetsGo, SelectOption
<1>5. UploadFile \in Seq(Commands) /\ UploadFile # << >> /\ LetsGo(UploadFile)
  BY DEF LetsGo, UploadFile
<1>6. ClickAt \in Seq(Commands) /\ ClickAt # << >> /\ LetsGo(ClickAt)
  BY DEF LetsGo, ClickAt
<1>7. HoverAt \in Seq(Commands) /\ HoverAt # << >> /\ LetsGo(HoverAt)
  BY DEF LetsGo, HoverAt
<1>8. PressKey \in Seq(Commands) /\ PressKey # << >> /\ LetsGo(PressKey)
  BY DEF LetsGo, PressKey
<1>9. SyntheticDrop \in Seq(Commands) /\ SyntheticDrop # << >> /\ LetsGo(SyntheticDrop)
  BY SyntheticDropIs DEF LetsGo
<1> QED
  BY <1>1, <1>2, <1>3, <1>4, <1>5, <1>6, <1>7, <1>8, <1>9

-------------------------------------------------------------------------------
(* The order of a gesture's commands: it measures right after it scrolled, *)
(* points right after it measured, types right after it focused.           *)

Pointing == {"press", "release", "dragEnter", "dragOver", "drop"}
Typing   == {"clear", "type"}

Orderly(s) ==
  \A i \in DOMAIN s :
    /\ s[i] \in NeedsNode \cup Pointing \cup Typing \cup {"choose"}
    /\ i # 1 =>
         /\ s[i] = "box" => s[i - 1] = "scroll"
         /\ s[i] \in Pointing => s[i - 1] \in {"box"} \cup Pointing
         /\ s[i] \in Typing => s[i - 1] \in {"focus"} \cup Typing

StartsAfresh(s) == Head(s) \in {"scroll", "focus", "object", "setFiles"}

LEMMA OrderlyTail ==
  ASSUME NEW s \in Seq(Commands), s # << >>, Orderly(s)
  PROVE  /\ Orderly(Tail(s))
         /\ Head(s) \in NeedsNode \cup Pointing \cup Typing \cup {"choose"}
         /\ Tail(s) # << >> =>
              LET d == Head(Tail(s))
              IN  /\ d = "box" => Head(s) = "scroll"
                  /\ d \in Pointing => Head(s) \in {"box"} \cup Pointing
                  /\ d \in Typing => Head(s) \in {"focus"} \cup Typing
<1> PICK t : t = Tail(s)
  OBVIOUS
<1>1. /\ DOMAIN s = 1 .. Len(s) /\ DOMAIN t = 1 .. Len(s) - 1 /\ Len(s) \in Nat
      /\ Head(s) = s[1] /\ 1 \in DOMAIN s
      /\ \A i \in DOMAIN t : i + 1 \in DOMAIN s /\ t[i] = s[i + 1]
      /\ t \in Seq(Commands)
  BY TailElements, LenProperties
<1>2. ASSUME NEW i \in DOMAIN t
      PROVE  /\ i + 1 \in DOMAIN s /\ t[i] = s[i + 1] /\ i + 1 # 1 /\ (i + 1) - 1 = i
             /\ i # 1 => i - 1 \in DOMAIN t /\ t[i - 1] = s[i]
  <2>1. i + 1 \in DOMAIN s /\ t[i] = s[i + 1] /\ i + 1 # 1 /\ (i + 1) - 1 = i
    BY <1>1
  <2>2. i # 1 => i - 1 \in DOMAIN t /\ (i - 1) + 1 = i
    BY <1>1
  <2> QED
    BY <1>1, <2>1, <2>2
<1>3. Orderly(t)
  BY <1>2 DEF Orderly
<1>4. Head(s) \in NeedsNode \cup Pointing \cup Typing \cup {"choose"}
  BY <1>1 DEF Orderly
<1>5. ASSUME t # << >>
      PROVE  LET d == Head(t)
             IN  /\ d = "box" => Head(s) = "scroll"
                 /\ d \in Pointing => Head(s) \in {"box"} \cup Pointing
                 /\ d \in Typing => Head(s) \in {"focus"} \cup Typing
  <2>1. Head(t) = t[1] /\ 1 \in DOMAIN t
    BY <1>1, <1>5, TailElements
  <2>2. t[1] = s[2] /\ 2 \in DOMAIN s /\ 2 - 1 = 1
    BY <1>1, <2>1
  <2>3. /\ s[2] = "box" => s[1] = "scroll"
        /\ s[2] \in Pointing => s[1] \in {"box"} \cup Pointing
        /\ s[2] \in Typing => s[1] \in {"focus"} \cup Typing
    BY <2>2 DEF Orderly
  <2> QED
    BY <1>1, <2>1, <2>2, <2>3
<1> QED
  BY <1>3, <1>4, <1>5

LEMMA GesturesAreOrderly ==
  \A s \in {Click, Fill, SelectOption, UploadFile, SyntheticDrop} : Orderly(s) /\ StartsAfresh(s)
<1> USE DEF NeedsNode, Pointing, Typing, Orderly, StartsAfresh
<1>1. Orderly(Click) /\ StartsAfresh(Click)
  BY DEF Click
<1>2. Orderly(Fill) /\ StartsAfresh(Fill)
  BY DEF Fill
<1>3. Orderly(SelectOption) /\ StartsAfresh(SelectOption)
  BY DEF SelectOption
<1>4. Orderly(UploadFile) /\ StartsAfresh(UploadFile)
  BY DEF UploadFile
<1>5. Orderly(SyntheticDrop) /\ StartsAfresh(SyntheticDrop)
  BY SyntheticDropIs
<1> QED
  BY <1>1, <1>2, <1>3, <1>4, <1>5

-------------------------------------------------------------------------------
(* Where a call stands: what is known of its record at each label.         *)

CallFields == {"use", "node", "todo", "spot", "view", "why", "verify", "polls", "there", "nested"}

(* A gesture under way on an element that a locator named; the pointer     *)
(* alone hovers where it measured without scrolling.                       *)
Aims(c) == c.use.op \in Located \ {"hover"}

Doing(c) ==
  /\ c.todo \in Seq(Commands) /\ c.todo # << >> /\ LetsGo(c.todo)
  /\ Aims(c) => Orderly(c.todo)

Standing(l, c) ==
  /\ DOMAIN c = CallFields /\ c.verify \in BOOLEAN
  /\ IF l = "act" THEN Doing(c) /\ ~c.verify ELSE c.todo = << >>
  /\ l \notin {"idle", "settle", "report"} => c.why = "sumAfter" \/ c.use \in Use
  /\ l \in {"resolve", "wait", "push", "findInput", "act"} => c.why \in {"show", "role"}
  /\ l \in {"before", "invoke"} => c.why # "sumAfter"
  /\ l = "resolve" \/ (l \in {"fetch", "store"} /\ c.why = "role") =>
       c.verify \/ c.use.op \in Located
  /\ l = "wait" => c.verify
  /\ l \in {"push", "findInput"} => ~c.verify /\ c.use.op \in Located
  /\ l = "findInput" => c.use.op = "drop"

Domains ==
  /\ DOMAIN pc = Agents /\ DOMAIN call = Agents
  /\ DOMAIN seen = Agents /\ DOMAIN current = Agents
  /\ upset \in [Agents -> BOOLEAN]

StandingInv == \A a \in Agents : Standing(pc[a], call[a])

(* A step of agent a's call.                                               *)
Steps(a) ==
  /\ DOMAIN pc' = Agents /\ DOMAIN call' = Agents
  /\ \A b \in Agents \ {a} : pc'[b] = pc[b] /\ call'[b] = call[b]
  /\ Standing(pc'[a], call'[a])

LEMMA Becomes ==
  ASSUME Domains, NEW a \in Agents, NEW l, NEW c, Become(a, l, c), Standing(l, c)
  PROVE  Steps(a) /\ pc'[a] = l /\ call'[a] = c
BY DEF Become, Domains, Steps

LEMMA NoCallFacts ==
  /\ DOMAIN NoCall = CallFields /\ NoCall.verify = FALSE /\ NoCall.todo = << >>
  /\ NoCall.why = "show"
BY DEF NoCall, CallFields

LEMMA ReturnSteps ==
  ASSUME Domains, NEW a \in Agents, Return(a)
  PROVE  Steps(a) /\ pc'[a] \in {"idle", "settle"} /\ call'[a].todo = << >>
<1> PICK n : n = [NoCall EXCEPT !.nested = TRUE]
  OBVIOUS
<1>1. DOMAIN n = CallFields /\ n.verify = FALSE /\ n.todo = << >>
  BY NoCallFacts DEF CallFields
<1>2. Standing("settle", n) /\ Standing("idle", NoCall)
  BY <1>1, NoCallFacts DEF Standing
<1>3. Become(a, "settle", n) \/ Become(a, "idle", NoCall)
  BY DEF Return
<1>4. CASE Become(a, "settle", n)
  BY <1>1, <1>2, <1>4, Becomes
<1>5. CASE Become(a, "idle", NoCall)
  BY <1>2, <1>5, NoCallFacts, Becomes
<1> QED
  BY <1>3, <1>4, <1>5

LEMMA EnterSteps ==
  ASSUME Domains, NEW a \in Agents, NEW u \in Use, NEW nested, Enter(a, u, nested)
  PROVE  Steps(a) /\ (pc'[a] = "act" => ~Aims(call'[a]))
<1> PICK c : c = [NoCall EXCEPT !.use = u, !.nested = nested,
                                !.spot = IF u.op \in AtPoint THEN u.loc.what ELSE 0,
                                !.todo = IF u.op \in AtPoint THEN Gesture(u.op) ELSE << >>]
  OBVIOUS
<1>1. /\ DOMAIN c = CallFields /\ c.verify = FALSE /\ c.why = "show" /\ c.use = u
      /\ c.todo = IF u.op \in AtPoint THEN Gesture(u.op) ELSE << >>
  BY NoCallFacts DEF CallFields
<1>2. u.op \in Located \cup AtPoint \cup {"snapshot", "domText"} /\ Become(a, Entry(u), c)
  BY DEF Use, Enter
<1>3. CASE u.op \in AtPoint
  <2>1. c.todo \in {ClickAt, HoverAt, Drag, PressKey}
    BY <1>1, <1>3 DEF AtPoint, Gesture
  <2>2. Doing(c) /\ Entry(u) = "act" /\ ~Aims(c)
    BY <1>1, <1>3, <2>1, DragLetsGo, OthersLetGo DEF Doing, Aims, Entry, AtPoint, Located
  <2>3. Standing("act", c)
    BY <1>1, <2>2 DEF Standing
  <2> QED
    BY <1>2, <2>2, <2>3, Becomes
<1>4. CASE u.op \notin AtPoint
  <2>1. /\ c.todo = << >> /\ Entry(u) # "act"
        /\ Entry(u) = (IF u.op \in Located THEN "resolve" ELSE "fetch")
    BY <1>1, <1>2, <1>4 DEF Entry, Located, AtPoint
  <2>2. Standing(Entry(u), c)
    BY <1>1, <2>1 DEF Standing
  <2>3. Steps(a) /\ pc'[a] = Entry(u)
    BY <1>2, <2>2, Becomes
  <2> QED
    BY <2>1, <2>3
<1> QED
  BY <1>3, <1>4

(* A look-up leads to the element it found, back to waiting, or nowhere.   *)
LEMMA ResolvedSteps ==
  ASSUME Domains, NEW a \in Agents, Standing(pc[a], call[a]), NEW found, Resolved(a, found),
         pc[a] = "resolve" \/ (pc[a] = "store" /\ call[a].why = "role")
  PROVE  /\ Steps(a) /\ pc'[a] # "act" /\ call'[a].todo = << >>
         /\ pc'[a] = "push" => call'[a].node \in found
<1>1. /\ DOMAIN call[a] = CallFields /\ call[a].todo = << >> /\ call[a].why \in {"show", "role"}
      /\ call[a].use \in Use /\ call[a].verify \in BOOLEAN
      /\ ~call[a].verify => call[a].use.op \in Located
  BY DEF Standing
<1>2. CASE Return(a)
  BY <1>2, ReturnSteps
<1>3. ASSUME ~call[a].verify, NEW e \in found, Become(a, "push", [call[a] EXCEPT !.node = e])
      PROVE  /\ Steps(a) /\ pc'[a] # "act" /\ call'[a].todo = << >>
             /\ call'[a].node \in found
  <2> PICK c : c = [call[a] EXCEPT !.node = e]
    OBVIOUS
  <2>1. /\ DOMAIN c = CallFields /\ c.todo = << >> /\ c.why = call[a].why /\ c.use = call[a].use
        /\ c.verify = call[a].verify /\ c.node = e
    BY <1>1 DEF CallFields
  <2>2. Standing("push", c)
    BY <1>1, <1>3, <2>1 DEF Standing
  <2>3. Become(a, "push", c)
    BY <1>3
  <2>4. Steps(a) /\ pc'[a] = "push" /\ call'[a] = c
    BY <2>2, <2>3, Becomes
  <2> QED
    BY <1>1, <1>3, <2>1, <2>4
<1>4. CASE call[a].verify /\ Become(a, "wait", call[a])
  <2>1. Standing("wait", call[a])
    BY <1>1, <1>4 DEF Standing
  <2> QED
    BY <1>1, <1>4, <2>1, Becomes
<1> QED
  BY <1>1, <1>2, <1>3, <1>4 DEF Resolved

-------------------------------------------------------------------------------
(* The invariant.                                                          *)

PageTypes == doc \in Docs /\ top \in Int

(* What a gesture takes for granted as long as nothing moved.              *)
Placed(a) ==
  (pc[a] = "act" /\ Aims(call[a]) /\ ~upset[a]) =>
    LET c == Head(call[a].todo)
        e == call[a].node
    IN  /\ c = "box" => InDoc(e) /\ InView(e)
        /\ c \in Pointing => Under(call[a].spot) = e
        /\ c \in Typing => focus = e

PlacedInv == \A a \in Agents : Placed(a)

CacheInv == \A a \in Agents : current[a] => seen[a] = snapshot

GestureInv ==
  /\ Domains /\ PageTypes /\ StandingInv /\ PlacedInv /\ CacheInv /\ NothingStaysDown

LEMMA StandingAfter ==
  ASSUME StandingInv, NEW a \in Agents, Steps(a)
  PROVE  StandingInv'
BY DEF StandingInv, Steps

(* A call between two gestures, or before its first command: it holds      *)
(* nothing, and what it goes on to do starts by looking where its element  *)
(* is.                                                                     *)
LEMMA QuietStep ==
  ASSUME GestureInv, NEW a \in Agents, Steps(a), pc[a] # "act",
         UNCHANGED <<doc, top, focus, held, upset, broken>>,
         pc'[a] = "act" /\ Aims(call'[a]) => StartsAfresh(call'[a].todo),
         UNCHANGED <<snapshot, seen, current>> \/ \E shown \in BOOLEAN : Cache(a, shown)
  PROVE  GestureInv'
<1>1. StandingInv'
  BY StandingAfter DEF GestureInv
<1>2. Domains'
  BY DEF GestureInv, Domains, Steps, Cache
<1>3. PlacedInv'
  <2> SUFFICES ASSUME NEW b \in Agents PROVE Placed(b)'
    BY DEF PlacedInv
  <2>1. CASE b = a
    BY <2>1 DEF Placed, StartsAfresh, Pointing, Typing
  <2>2. CASE b # a
    <3>1. pc'[b] = pc[b] /\ call'[b] = call[b]
      BY <2>2 DEF Steps
    <3> QED
      BY <3>1 DEF GestureInv, PlacedInv, Placed, InDoc, InView, Line, Under
  <2> QED
    BY <2>1, <2>2
<1>4. NothingStaysDown'
  <2> SUFFICES ASSUME NEW x \in held
               PROVE  x \in broken \/ \E b \in Agents : x \in Owes(call'[b].todo)
    BY DEF NothingStaysDown
  <2>1. x \in broken \/ \E b \in Agents : x \in Owes(call[b].todo)
    BY DEF GestureInv, NothingStaysDown
  <2>2. Owes(call[a].todo) = {}
    BY OwesNothing DEF GestureInv, StandingInv, Standing
  <2>3. \A b \in Agents \ {a} : call'[b] = call[b]
    BY DEF Steps
  <2> QED
    BY <2>1, <2>2, <2>3
<1>5. CacheInv'
  BY DEF GestureInv, CacheInv, Cache, Domains
<1> QED
  BY <1>1, <1>2, <1>3, <1>4, <1>5 DEF GestureInv, PageTypes

(* What the next command of a gesture does.                                *)
LEMMA EffectFacts ==
  ASSUME GestureInv, NEW a \in Agents, pc[a] = "act",
         NEW s, s = call[a].todo, Effect(a, Head(s))
  PROVE  /\ s \in Seq(Commands) /\ s # << >> /\ LetsGo(s) /\ Doing(call[a])
         /\ Tail(s) \in Seq(Commands) /\ LetsGo(Tail(s))
         /\ held' \subseteq broken \cup Owes(Tail(s)) \cup
                       UNION {Owes(call[b].todo) : b \in Agents \ {a}}
         /\ PageTypes'
<1>1. Doing(call[a]) /\ s \in Seq(Commands) /\ s # << >> /\ LetsGo(s)
  BY DEF GestureInv, StandingInv, Standing, Doing
<1>2. Tail(s) \in Seq(Commands) /\ LetsGo(Tail(s))
  BY <1>1, TailElements, LetsGoTail
<1>3. held' = (held \cup PressedBy(Head(s))) \ ReleasedBy(Head(s))
  BY DEF Effect, PressedBy, ReleasedBy
<1>4. ASSUME NEW x \in held'
      PROVE  x \in broken \cup Owes(Tail(s)) \cup UNION {Owes(call[b].todo) : b \in Agents \ {a}}
  <2>1. x \in PressedBy(Head(s)) \ ReleasedBy(Head(s)) => x \in Owes(Tail(s))
    BY <1>1, OwesTail
  <2>2. x \in Owes(s) \ ReleasedBy(Head(s)) => x \in Owes(Tail(s))
    BY <1>1, OwesTail
  <2>3. x \in held => x \in broken \/ \E b \in Agents : x \in Owes(call[b].todo)
    BY DEF GestureInv, NothingStaysDown
  <2> QED
    BY <1>3, <1>4, <2>1, <2>2, <2>3
<1>5. PageTypes'
  <2>1. Head(s) = "scroll" => InDoc(call[a].node)
    BY DEF Effect, NeedsNode
  <2>2. InDoc(call[a].node) => Line(call[a].node) \in Int
    <3>1. doc \in Seq(Elements)
      BY InteractionAssumption DEF GestureInv, PageTypes
    <3>2. DOMAIN doc = 1 .. Len(doc) /\ Len(doc) \in Nat
      BY <3>1, LenProperties
    <3>3. InDoc(call[a].node) => \E i \in DOMAIN doc : doc[i] = call[a].node
      BY DEF InDoc, ToSet
    <3>4. InDoc(call[a].node) => Line(call[a].node) \in DOMAIN doc
      BY <3>3 DEF Line
    <3> QED
      BY <3>2, <3>4
  <2> QED
    BY <2>1, <2>2 DEF Effect, GestureInv, PageTypes
<1> QED
  BY <1>1, <1>2, <1>3, <1>4, <1>5

(* The gestures of the others, when the one of agent a goes on or ends.    *)
LEMMA OthersPlaced ==
  ASSUME GestureInv, NEW a \in Agents, Steps(a), NEW anew, Upsets(a, anew),
         NEW b \in Agents, b # a
  PROVE  Placed(b)'
<1>1. pc'[b] = pc[b] /\ call'[b] = call[b]
  BY DEF Steps
<1>2. ASSUME pc[b] = "act", ~upset'[b]
      PROVE  ~upset[b] /\ doc' = doc /\ top' = top /\ focus' = focus
  BY <1>2 DEF Upsets, Moved
<1> QED
  BY <1>1, <1>2 DEF GestureInv, PlacedInv, Placed, InDoc, InView, Line, Under

LEMMA DownAfter ==
  ASSUME NEW a \in Agents, Steps(a), NEW owed,
         held' \subseteq broken \cup owed \cup UNION {Owes(call[b].todo) : b \in Agents \ {a}},
         broken \subseteq broken', owed \subseteq broken' \cup Owes(call'[a].todo)
  PROVE  NothingStaysDown'
BY DEF NothingStaysDown, Steps

-------------------------------------------------------------------------------
(* Each step of a call keeps the invariant: the quiet ones first.          *)

LEMMA ResolveKeeps ==
  ASSUME GestureInv, NEW a \in Agents, ResolveId(a) \/ ResolveRole(a) \/ ResolveLive(a)
  PROVE  GestureInv'
<1>1. Domains /\ Standing(pc[a], call[a]) /\ pc[a] = "resolve"
  BY DEF GestureInv, StandingInv, ResolveId, ResolveRole, ResolveLive
<1>2. UNCHANGED <<doc, top, focus, held, upset, broken, snapshot, seen, current>>
  BY DEF ResolveId, ResolveRole, ResolveLive, pageVars, cacheVars
<1>3. CASE \E found : Resolved(a, found)
  BY <1>1, <1>2, <1>3, ResolvedSteps, QuietStep
<1>4. CASE Become(a, "fetch", [call[a] EXCEPT !.why = "role"])
  <2> PICK c : c = [call[a] EXCEPT !.why = "role"]
    OBVIOUS
  <2>1. /\ DOMAIN c = CallFields /\ c.why = "role" /\ c.use = call[a].use
        /\ c.verify = call[a].verify /\ c.todo = << >>
    BY <1>1 DEF Standing, CallFields
  <2>2. Standing("fetch", c)
    BY <1>1, <2>1 DEF Standing
  <2>3. Become(a, "fetch", c)
    BY <1>4
  <2>4. Steps(a) /\ pc'[a] = "fetch"
    BY <1>1, <2>2, <2>3, Becomes
  <2> QED
    BY <1>1, <1>2, <2>4, QuietStep
<1> QED
  BY <1>3, <1>4 DEF ResolveId, ResolveRole, ResolveLive

LEMMA PushKeeps ==
  ASSUME GestureInv, NEW a \in Agents, Push(a)
  PROVE  GestureInv'
<1>1. /\ Domains /\ Standing("push", call[a]) /\ pc[a] = "push"
      /\ UNCHANGED <<doc, top, focus, held, upset, broken, snapshot, seen, current>>
  BY DEF GestureInv, StandingInv, Push, pageVars, cacheVars, historyVars
<1>2. CASE Return(a)
  BY <1>1, <1>2, ReturnSteps, QuietStep
<1>3. CASE call[a].use.op = "drop" /\ Become(a, "findInput", call[a])
  <2>1. Standing("findInput", call[a])
    BY <1>1, <1>3 DEF Standing
  <2>2. Steps(a) /\ pc'[a] = "findInput"
    BY <1>1, <1>3, <2>1, Becomes
  <2> QED
    BY <1>1, <2>2, QuietStep
<1>4. CASE /\ call[a].use.op # "drop"
           /\ Become(a, "act", [call[a] EXCEPT !.todo = Gesture(call[a].use.op)])
  <2> PICK c : c = [call[a] EXCEPT !.todo = Gesture(call[a].use.op)]
    OBVIOUS
  <2>1. /\ DOMAIN c = CallFields /\ c.why = call[a].why /\ c.use = call[a].use
        /\ c.verify = call[a].verify /\ c.todo = Gesture(c.use.op)
        /\ c.use.op \in Located \ {"drop"}
    BY <1>1, <1>4 DEF Standing, CallFields
  <2>2. /\ c.todo \in {Click, Fill, Hover, SelectOption, UploadFile}
        /\ Aims(c) => c.todo \in {Click, Fill, SelectOption, UploadFile}
    BY <2>1 DEF Gesture, Located, Aims
  <2>3. Doing(c) /\ (Aims(c) => StartsAfresh(c.todo))
    BY <2>2, OthersLetGo, GesturesAreOrderly DEF Doing
  <2>4. Standing("act", c) /\ Become(a, "act", c)
    BY <1>1, <1>4, <2>1, <2>3 DEF Standing
  <2>5. Steps(a) /\ pc'[a] = "act" /\ call'[a] = c
    BY <1>1, <2>4, Becomes
  <2> QED
    BY <1>1, <2>3, <2>5, QuietStep
<1> QED
  BY <1>2, <1>3, <1>4 DEF Push

LEMMA FindInputKeeps ==
  ASSUME GestureInv, NEW a \in Agents, FindInput(a)
  PROVE  GestureInv'
<1>1. /\ Domains /\ Standing("findInput", call[a]) /\ pc[a] = "findInput"
      /\ UNCHANGED <<doc, top, focus, held, upset, broken, snapshot, seen, current>>
  BY DEF GestureInv, StandingInv, FindInput, pageVars, cacheVars, historyVars
<1>2. PICK c : /\ Become(a, "act", c)
               /\ \/ \E e : c = [call[a] EXCEPT !.node = e, !.todo = UploadFile]
                  \/ c = [call[a] EXCEPT !.todo = SyntheticDrop]
  BY DEF FindInput
<1>3. /\ DOMAIN c = CallFields /\ c.why = call[a].why /\ c.use = call[a].use
      /\ c.verify = call[a].verify /\ c.todo \in {UploadFile, SyntheticDrop}
  BY <1>1, <1>2 DEF Standing, CallFields
<1>4. Doing(c) /\ StartsAfresh(c.todo)
  BY <1>3, OthersLetGo, GesturesAreOrderly DEF Doing
<1>5. Standing("act", c)
  BY <1>1, <1>3, <1>4 DEF Standing
<1>6. Steps(a) /\ pc'[a] = "act" /\ call'[a] = c
  BY <1>1, <1>2, <1>5, Becomes
<1> QED
  BY <1>1, <1>4, <1>6, QuietStep

LEMMA WaitKeeps ==
  ASSUME GestureInv, NEW a \in Agents, Poll(a) \/ GiveUp(a)
  PROVE  GestureInv'
<1>1. /\ Domains /\ Standing("wait", call[a]) /\ pc[a] = "wait"
      /\ UNCHANGED <<doc, top, focus, held, upset, broken, snapshot, seen, current>>
  BY DEF GestureInv, StandingInv, Poll, GiveUp, pageVars, cacheVars, historyVars
<1>2. CASE Return(a)
  BY <1>1, <1>2, ReturnSteps, QuietStep
<1>3. CASE Poll(a)
  <2> PICK c : c = [call[a] EXCEPT !.polls = @ + 1, !.there = OnPage(Loc(a))]
    OBVIOUS
  <2>1. /\ DOMAIN c = CallFields /\ c.why = call[a].why /\ c.use = call[a].use
        /\ c.verify = call[a].verify /\ c.todo = call[a].todo
    BY <1>1 DEF Standing, CallFields
  <2>2. Standing("resolve", c) /\ Become(a, "resolve", c)
    BY <1>1, <1>3, <2>1 DEF Standing, Poll
  <2>3. Steps(a) /\ pc'[a] = "resolve"
    BY <1>1, <2>2, Becomes
  <2> QED
    BY <1>1, <2>3, QuietStep
<1> QED
  BY <1>2, <1>3 DEF GiveUp

LEMMA FetchKeeps ==
  ASSUME GestureInv, NEW a \in Agents, FetchTree(a) \/ FetchFails(a)
  PROVE  GestureInv'
<1>1. /\ Domains /\ Standing("fetch", call[a]) /\ pc[a] = "fetch"
      /\ UNCHANGED <<doc, top, focus, held, upset, broken, snapshot, seen, current>>
  BY DEF GestureInv, StandingInv, FetchTree, FetchFails, pageVars, cacheVars, historyVars
<1>2. CASE Return(a)
  BY <1>1, <1>2, ReturnSteps, QuietStep
<1>3. CASE call[a].why \in {"show", "role"} /\ call[a].verify /\ Become(a, "wait", call[a])
  <2>1. Standing("wait", call[a])
    BY <1>1, <1>3 DEF Standing
  <2>2. Steps(a) /\ pc'[a] = "wait"
    BY <1>1, <1>3, <2>1, Becomes
  <2> QED
    BY <1>1, <2>2, QuietStep
<1>4. CASE FetchTree(a)
  <2>1. PICK v : Become(a, "store", [call[a] EXCEPT !.view = v])
    BY <1>4 DEF FetchTree
  <2> PICK c : c = [call[a] EXCEPT !.view = v]
    OBVIOUS
  <2>2. /\ DOMAIN c = CallFields /\ c.why = call[a].why /\ c.use = call[a].use
        /\ c.verify = call[a].verify /\ c.todo = call[a].todo
    BY <1>1 DEF Standing, CallFields
  <2>3. Standing("store", c) /\ Become(a, "store", c)
    BY <1>1, <2>1, <2>2 DEF Standing
  <2>4. Steps(a) /\ pc'[a] = "store"
    BY <1>1, <2>3, Becomes
  <2> QED
    BY <1>1, <2>4, QuietStep
<1> QED
  BY <1>2, <1>3, <1>4 DEF FetchFails

LEMMA StoreKeeps ==
  ASSUME GestureInv, NEW a \in Agents, StoreSnapshot(a)
  PROVE  GestureInv'
<1>1. /\ Domains /\ Standing("store", call[a]) /\ pc[a] = "store"
      /\ UNCHANGED <<doc, top, focus, held, upset, broken>>
      /\ \E shown \in BOOLEAN : Cache(a, shown)
  BY DEF GestureInv, StandingInv, StoreSnapshot, pageVars
<1>2. CASE Return(a)
  BY <1>1, <1>2, ReturnSteps, QuietStep
<1>3. CASE call[a].why = "role" /\ \E found : Resolved(a, found)
  BY <1>1, <1>3, ResolvedSteps, QuietStep
<1> QED
  BY <1>2, <1>3 DEF StoreSnapshot

LEMMA BeginKeeps ==
  ASSUME GestureInv, NEW a \in Agents, NEW u \in Uses[a], Begin(a, u)
  PROVE  GestureInv'
<1>1. /\ Domains /\ pc[a] = "idle" /\ u \in Use /\ Enter(a, u, FALSE)
      /\ UNCHANGED <<doc, top, focus, held, upset, broken, snapshot, seen, current>>
  BY InteractionAssumption DEF GestureInv, Begin, pageVars, cacheVars, historyVars
<1> QED
  BY <1>1, EnterSteps, QuietStep
(* The next command of a gesture goes through.                             *)
LEMMA SendSteps ==
  ASSUME GestureInv, NEW a \in Agents, Send(a), NEW s, s = call[a].todo
  PROVE  /\ Steps(a) /\ pc[a] = "act"
         /\ call'[a].todo = Tail(s) \/ (Tail(s) = << >> /\ call'[a].todo = << >>)
         /\ pc'[a] = "act" =>
              /\ call'[a].todo = Tail(s) /\ Tail(s) # << >>
              /\ call'[a].use = call[a].use /\ call'[a].node = call[a].node
              /\ call'[a].spot = IF Head(s) = "box" THEN Line(call[a].node) - top ELSE call[a].spot
<1>1. /\ Domains /\ Standing("act", call[a]) /\ pc[a] = "act" /\ Doing(call[a])
      /\ s \in Seq(Commands) /\ s # << >>
      /\ DOMAIN call[a] = CallFields
  BY DEF GestureInv, StandingInv, Send, Standing, Doing
<1>2. Tail(s) \in Seq(Commands) /\ LetsGo(Tail(s)) /\ (Aims(call[a]) => Orderly(Tail(s)))
  BY <1>1, TailElements, LetsGoTail, OrderlyTail DEF Doing
<1> PICK n : n = [call[a] EXCEPT !.todo = Tail(@),
                                 !.spot = IF Head(s) = "box" THEN Line(call[a].node) - top ELSE @]
  OBVIOUS
<1>3. /\ DOMAIN n = CallFields /\ n.todo = Tail(s) /\ n.why = call[a].why /\ n.use = call[a].use
      /\ n.verify = call[a].verify /\ n.node = call[a].node
      /\ n.spot = IF Head(s) = "box" THEN Line(call[a].node) - top ELSE call[a].spot
  BY <1>1 DEF CallFields
<1>4. CASE Tail(s) # << >>
  <2>1. Become(a, "act", n)
    BY <1>3, <1>4 DEF Send
  <2>2. Standing("act", n)
    BY <1>1, <1>2, <1>3, <1>4 DEF Standing, Doing, Aims
  <2>3. Steps(a) /\ pc'[a] = "act" /\ call'[a] = n
    BY <1>1, <2>1, <2>2, Becomes
  <2> QED
    BY <1>1, <1>3, <1>4, <2>3
<1>5. CASE Tail(s) = << >>
  <2>1. call[a].use \in Use
    BY <1>1 DEF Standing
  <2>2. call[a].use.then \in {"reply", "snapshot", "verify"}
    BY <2>1 DEF Use
  <2>3. \/ Return(a)
        \/ Become(a, "fetch", [n EXCEPT !.why = "show"])
        \/ Become(a, "wait", [n EXCEPT !.verify = TRUE])
    BY <1>3, <1>5, <2>2 DEF Send
  <2>4. CASE Return(a)
    BY <1>1, <1>5, <2>4, ReturnSteps
  <2>5. CASE Become(a, "fetch", [n EXCEPT !.why = "show"])
    <3> PICK c : c = [n EXCEPT !.why = "show"]
      OBVIOUS
    <3>1. DOMAIN c = CallFields /\ c.todo = << >> /\ c.why = "show" /\ c.verify = n.verify /\ c.use = n.use
      BY <1>3, <1>5 DEF CallFields
    <3>2. Standing("fetch", c) /\ Become(a, "fetch", c)
      BY <1>1, <1>3, <2>1, <2>5, <3>1 DEF Standing
    <3>3. Steps(a) /\ pc'[a] = "fetch" /\ call'[a] = c
      BY <1>1, <3>2, Becomes
    <3> QED
      BY <1>1, <1>5, <3>1, <3>3
  <2>6. CASE Become(a, "wait", [n EXCEPT !.verify = TRUE])
    <3> PICK c : c = [n EXCEPT !.verify = TRUE]
      OBVIOUS
    <3>1. DOMAIN c = CallFields /\ c.todo = << >> /\ c.why = n.why /\ c.verify = TRUE /\ c.use = n.use
      BY <1>3, <1>5 DEF CallFields
    <3>2. Standing("wait", c) /\ Become(a, "wait", c)
      BY <1>1, <1>3, <2>1, <2>6, <3>1 DEF Standing
    <3>3. Steps(a) /\ pc'[a] = "wait" /\ call'[a] = c
      BY <1>1, <3>2, Becomes
    <3> QED
      BY <1>1, <1>5, <3>1, <3>3
  <2> QED
    BY <2>3, <2>4, <2>5, <2>6
<1> QED
  BY <1>4, <1>5

(* An element of the document is under the point its line is at, as long   *)
(* as that is in the viewport.                                             *)
LEMMA LineFacts ==
  ASSUME PageTypes, NEW e, InDoc(e)
  PROVE  Line(e) \in 1 .. Len(doc) /\ doc[Line(e)] = e /\ Len(doc) \in Nat
<1>1. doc \in Seq(Elements)
  BY InteractionAssumption DEF PageTypes
<1>2. DOMAIN doc = 1 .. Len(doc) /\ Len(doc) \in Nat
  BY <1>1, LenProperties
<1>3. \E i \in DOMAIN doc : doc[i] = e
  BY DEF InDoc, ToSet
<1>4. Line(e) \in DOMAIN doc /\ doc[Line(e)] = e
  BY <1>3 DEF Line
<1> QED
  BY <1>2, <1>4

LEMMA PlacedAfterSend ==
  ASSUME GestureInv, NEW a \in Agents, Send(a)
  PROVE  Placed(a)'
<1> PICK s, e, c : s = call[a].todo /\ e = call[a].node /\ c = Head(s)
  OBVIOUS
<1> SUFFICES ASSUME pc'[a] = "act", Aims(call'[a]), ~upset'[a]
             PROVE  LET d == Head(call'[a].todo)
                    IN  /\ d = "box" => InDoc(call[a].node)' /\ InView(call[a].node)'
                        /\ d \in Pointing => Under(call[a].spot)' = call'[a].node
                        /\ d \in Typing => focus' = call'[a].node
  BY DEF Placed
<1>1. /\ pc[a] = "act" /\ call'[a].todo = Tail(s) /\ Tail(s) # << >>
      /\ call'[a].use = call[a].use /\ call'[a].node = e
      /\ call'[a].spot = IF c = "box" THEN Line(e) - top ELSE call[a].spot
  BY SendSteps
<1>2. /\ Aims(call[a]) /\ Doing(call[a]) /\ s \in Seq(Commands) /\ s # << >> /\ Orderly(s)
  BY <1>1 DEF Aims, GestureInv, StandingInv, Standing, Doing
<1>3. /\ c = "scroll" => InDoc(e)
      /\ top' = (IF c = "scroll" /\ ~InView(e) THEN Line(e) - 1 ELSE top)
      /\ doc' = doc
      /\ c = "focus" => focus' = e
      /\ c \in Typing \/ c \in {"box"} => focus' = focus
  BY DEF Send, Effect, NeedsNode, Typing
<1>4. upset'[a] = (upset[a] /\ ~(c \in {"scroll", "focus"}))
  <2>1. [call[a] EXCEPT !.todo = Tail(@),
                        !.spot = IF c = "box" THEN Line(call[a].node) - top ELSE @].todo = Tail(s)
    BY <1>2 DEF GestureInv, StandingInv, Standing, CallFields
  <2>2. Upsets(a, c \in {"scroll", "focus"} \/ Tail(s) = << >>)
    BY <2>1 DEF Send
  <2> QED
    BY <1>1, <2>2 DEF Upsets
<1> PICK d : d = Head(Tail(s))
  OBVIOUS
<1>5. /\ d = "box" => c = "scroll"
      /\ d \in Pointing => c \in {"box"} \cup Pointing
      /\ d \in Typing => c \in {"focus"} \cup Typing
  BY <1>1, <1>2, OrderlyTail
<1>6. c \notin {"scroll", "focus"} =>
        /\ c = "box" => InDoc(e) /\ InView(e)
        /\ c \in Pointing => Under(call[a].spot) = e
        /\ c \in Typing => focus = e
  BY <1>1, <1>2, <1>4 DEF GestureInv, PlacedInv, Placed
<1>7. PageTypes /\ View \in Nat \ {0}
  BY InteractionAssumption DEF GestureInv
<1>8. ASSUME d = "box" PROVE InDoc(e)' /\ InView(e)'
  <2>0. c = "scroll" /\ InDoc(e)
    BY <1>3, <1>5, <1>8
  <2>1. c = "scroll" /\ InDoc(e) /\ Line(e) \in 1 .. Len(doc) /\ Len(doc) \in Nat
    BY <1>7, <2>0, LineFacts
  <2>2. InDoc(e)' /\ Line(e)' = Line(e)
    BY <1>3, <2>1 DEF InDoc, Line
  <2>3. CASE InView(e)
    BY <1>3, <2>2, <2>3 DEF InView
  <2>4. CASE ~InView(e)
    BY <1>3, <1>7, <2>1, <2>2, <2>4 DEF InView
  <2> QED
    BY <2>2, <2>3, <2>4
<1>9. ASSUME d \in Pointing PROVE Under(call[a].spot)' = e
  <2>1. CASE c = "box"
    <3>1. InDoc(e) /\ InView(e) /\ top \in Int /\ top' = top
      BY <1>3, <1>6, <1>7, <2>1 DEF PageTypes
    <3>2. Line(e) \in 1 .. Len(doc) /\ doc[Line(e)] = e /\ Len(doc) \in Nat
      BY <1>7, <3>1, LineFacts
    <3>3. Line(e) - top \in 1 .. View /\ top + (Line(e) - top) = Line(e)
      BY <3>1, <3>2 DEF InView
    <3> QED
      BY <1>1, <1>3, <2>1, <3>1, <3>2, <3>3 DEF Under
  <2>2. CASE c \in Pointing
    <3>1. c # "box" /\ c # "scroll" /\ c # "focus"
      BY <2>2 DEF Pointing
    <3> QED
      BY <1>1, <1>3, <1>6, <2>2, <3>1 DEF Under
  <2> QED
    BY <1>5, <1>9, <2>1, <2>2
<1>10. ASSUME d \in Typing PROVE focus' = e
  <2>1. c \in Typing => c # "scroll" /\ c # "focus"
    BY DEF Typing
  <2> QED
    BY <1>3, <1>5, <1>6, <1>10, <2>1
<1> QED
  BY <1>1, <1>8, <1>9, <1>10

LEMMA SendKeeps ==
  ASSUME GestureInv, NEW a \in Agents, Send(a)
  PROVE  GestureInv'
<1> PICK s : s = call[a].todo
  OBVIOUS
<1>1. /\ Steps(a) /\ pc[a] = "act" /\ Effect(a, Head(s)) /\ (\E anew : Upsets(a, anew))
      /\ call'[a].todo = Tail(s) \/ (Tail(s) = << >> /\ call'[a].todo = << >>)
      /\ UNCHANGED <<snapshot, seen, current, broken>>
  BY SendSteps DEF Send, cacheVars
<1>2. StandingInv'
  BY <1>1, StandingAfter DEF GestureInv
<1>3. Domains'
  BY <1>1 DEF GestureInv, Domains, Steps, Upsets
<1>4. /\ held' \subseteq broken \cup Owes(Tail(s)) \cup
                         UNION {Owes(call[b].todo) : b \in Agents \ {a}}
      /\ PageTypes'
  BY <1>1, EffectFacts
<1>5. NothingStaysDown'
  BY <1>1, <1>4, DownAfter
<1>6. PlacedInv'
  BY <1>1, OthersPlaced, PlacedAfterSend DEF PlacedInv
<1>7. CacheInv'
  BY <1>1 DEF GestureInv, CacheInv
<1> QED
  BY <1>2, <1>3, <1>4, <1>5, <1>6, <1>7 DEF GestureInv

LEMMA AnswerLostKeeps ==
  ASSUME GestureInv, NEW a \in Agents, AnswerLost(a)
  PROVE  GestureInv'
<1> PICK s : s = call[a].todo
  OBVIOUS
<1>1. /\ pc[a] = "act" /\ Effect(a, Head(s)) /\ Upsets(a, TRUE) /\ Return(a)
      /\ broken' = broken \cup Owes(Tail(s))
      /\ UNCHANGED <<snapshot, seen, current>>
  BY DEF AnswerLost, cacheVars
<1>2. Steps(a) /\ pc'[a] \in {"idle", "settle"}
  BY <1>1, ReturnSteps DEF GestureInv
<1>3. StandingInv' /\ Domains'
  BY <1>1, <1>2, StandingAfter DEF GestureInv, Domains, Steps, Upsets
<1>4. /\ held' \subseteq broken \cup Owes(Tail(s)) \cup
                         UNION {Owes(call[b].todo) : b \in Agents \ {a}}
      /\ PageTypes'
  BY <1>1, EffectFacts
<1>5. NothingStaysDown'
  BY <1>1, <1>2, <1>4, DownAfter
<1>6. PlacedInv'
  <2>1. Placed(a)'
    BY <1>2 DEF Placed
  <2> QED
    BY <1>1, <1>2, <2>1, OthersPlaced DEF PlacedInv
<1>7. CacheInv'
  BY <1>1 DEF GestureInv, CacheInv
<1> QED
  BY <1>3, <1>4, <1>5, <1>6, <1>7 DEF GestureInv

LEMMA FailsKeeps ==
  ASSUME GestureInv, NEW a \in Agents, Fails(a)
  PROVE  GestureInv'
<1> PICK s : s = call[a].todo
  OBVIOUS
<1>1. /\ pc[a] \in {"push", "act", "resolve"} /\ broken' = broken \cup Owes(s)
      /\ upset' = [upset EXCEPT ![a] = FALSE]
      /\ UNCHANGED <<doc, top, focus, held, snapshot, seen, current>>
      /\ Domains /\ Standing(pc[a], call[a])
  BY DEF Fails, pageVars, cacheVars, GestureInv, StandingInv
<1>2. Steps(a) /\ pc'[a] # "act"
  <2>1. CASE Return(a)
    BY <1>1, <2>1, ReturnSteps
  <2>2. CASE call[a].verify /\ Become(a, "wait", call[a])
    <3>1. Standing("wait", call[a])
      BY <1>1, <2>2 DEF Standing
    <3>2. Steps(a) /\ pc'[a] = "wait"
      BY <1>1, <2>2, <3>1, Becomes
    <3> QED
      BY <3>2
  <2> QED
    BY <2>1, <2>2 DEF Fails
<1>3. StandingInv' /\ Domains' /\ PageTypes'
  BY <1>1, <1>2, StandingAfter DEF GestureInv, Domains, Steps, PageTypes
<1>4. NothingStaysDown'
  <2>1. held' \subseteq broken \cup Owes(s) \cup UNION {Owes(call[b].todo) : b \in Agents \ {a}}
    BY <1>1 DEF GestureInv, NothingStaysDown
  <2> QED
    BY <1>1, <1>2, <2>1, DownAfter
<1>5. PlacedInv'
  <2> SUFFICES ASSUME NEW b \in Agents, b # a PROVE Placed(b)'
    BY <1>2 DEF PlacedInv, Placed
  <2>1. pc'[b] = pc[b] /\ call'[b] = call[b] /\ upset'[b] = upset[b]
    BY <1>1, <1>2 DEF Steps, Domains
  <2> QED
    BY <1>1, <2>1 DEF GestureInv, PlacedInv, Placed, InDoc, InView, Line, Under
<1>6. CacheInv'
  BY <1>1 DEF GestureInv, CacheInv
<1> QED
  BY <1>3, <1>4, <1>5, <1>6 DEF GestureInv

LEMMA ChangePageKeeps ==
  ASSUME GestureInv, ChangePage
  PROVE  GestureInv'
<1>1. /\ UNCHANGED <<held, snapshot, seen, current, broken, pc, call>>
      /\ upset' = [a \in Agents |-> pc[a] = "act"]
      /\ doc' \in Docs /\ top' \in {0, top}
  BY DEF ChangePage, cacheVars
<1>2. Domains' /\ StandingInv' /\ CacheInv' /\ PageTypes'
  BY <1>1 DEF GestureInv, Domains, StandingInv, CacheInv, PageTypes
<1>3. PlacedInv'
  BY <1>1 DEF PlacedInv, Placed
<1>4. NothingStaysDown'
  BY <1>1 DEF GestureInv, NothingStaysDown
<1> QED
  BY <1>2, <1>3, <1>4 DEF GestureInv

-------------------------------------------------------------------------------
(* The steps of a diff.                                                    *)

LEMMA DiffStepKeeps ==
  ASSUME GestureInv, NEW a \in Agents, DiffStep(a)
  PROVE  GestureInv' /\ (pc'[a] = "push" => pc[a] # "resolve") /\ Steps(a)
<1>1. Domains /\ Standing(pc[a], call[a])
  BY DEF GestureInv, StandingInv
<1>2. ASSUME NEW u \in DiffUses[a], BeginDiff(a, u)
      PROVE  GestureInv' /\ Steps(a) /\ pc[a] # "resolve"
  <2> PICK c : c = [NoCall EXCEPT !.use = u, !.nested = TRUE]
    OBVIOUS
  <2>1. /\ DOMAIN c = CallFields /\ c.verify = FALSE /\ c.todo = << >> /\ c.why = "show"
        /\ c.use = u /\ u \in Use
    BY <1>2, NoCallFacts, ActionDiffAssumption DEF CallFields
  <2>2. Standing("before", c)
    BY <2>1 DEF Standing
  <2>3. /\ Become(a, "before", c) /\ pc[a] = "idle"
        /\ UNCHANGED <<doc, top, focus, held, upset, broken, snapshot, seen, current>>
    BY <1>2 DEF BeginDiff, pageVars, cacheVars, historyVars
  <2>4. Steps(a) /\ pc'[a] = "before"
    BY <1>1, <2>2, <2>3, Becomes
  <2> QED
    BY <2>3, <2>4, QuietStep
<1>3. ASSUME CaptureBefore(a) \/ CaptureAfter(a)
      PROVE  GestureInv' /\ Steps(a) /\ pc[a] # "resolve"
  <2> PICK w, c : /\ c = [call[a] EXCEPT !.why = w] /\ Become(a, "fetch", c)
                  /\ w = IF pc[a] = "before" THEN "sumBefore" ELSE "sumAfter"
    BY <1>3 DEF CaptureBefore, CaptureAfter
  <2>1. /\ DOMAIN c = CallFields /\ c.verify = call[a].verify /\ c.todo = call[a].todo
        /\ c.use = call[a].use /\ c.why = w /\ pc[a] \in {"before", "settle"}
    BY <1>1, <1>3 DEF Standing, CallFields, CaptureBefore, CaptureAfter
  <2>2. Standing("fetch", c)
    BY <1>1, <2>1 DEF Standing
  <2>3. UNCHANGED <<doc, top, focus, held, upset, broken, snapshot, seen, current>>
    BY <1>3 DEF CaptureBefore, CaptureAfter, pageVars, cacheVars, historyVars
  <2>4. Steps(a) /\ pc'[a] = "fetch"
    BY <1>1, <2>2, Becomes
  <2> QED
    BY <2>1, <2>3, <2>4, QuietStep
<1>4. ASSUME StoreSummary(a) \/ SummaryFails(a)
      PROVE  GestureInv' /\ Steps(a) /\ pc[a] # "resolve"
  <2> PICK v, c : /\ c = [call[a] EXCEPT !.view = v] \/ c = call[a]
                  /\ Become(a, AfterSummary(a), c)
    BY <1>4 DEF StoreSummary, SummaryFails
  <2>1. /\ DOMAIN c = CallFields /\ c.verify = call[a].verify /\ c.todo = << >>
        /\ c.use = call[a].use /\ c.why = call[a].why
        /\ call[a].why \in {"sumBefore", "sumAfter"} /\ pc[a] \in {"fetch", "store"}
    BY <1>1, <1>4 DEF Standing, CallFields, StoreSummary, SummaryFails
  <2>2. /\ AfterSummary(a) = (IF c.why = "sumBefore" THEN "invoke" ELSE "report")
        /\ Standing(AfterSummary(a), c)
    BY <1>1, <2>1 DEF Standing, AfterSummary
  <2>3. /\ UNCHANGED <<doc, top, focus, held, upset, broken>>
        /\ UNCHANGED <<snapshot, seen, current>> \/ Cache(a, FALSE)
    BY <1>4 DEF StoreSummary, SummaryFails, pageVars, cacheVars, historyVars
  <2>4. Steps(a) /\ pc'[a] \in {"invoke", "report"}
    BY <1>1, <2>2, Becomes
  <2> QED
    BY <2>1, <2>3, <2>4, QuietStep
<1>5. ASSUME Invoke(a) PROVE GestureInv' /\ Steps(a) /\ pc[a] # "resolve"
  <2>1. /\ pc[a] = "invoke" /\ call[a].use \in Use /\ Enter(a, call[a].use, TRUE)
        /\ UNCHANGED <<doc, top, focus, held, upset, broken, snapshot, seen, current>>
    BY <1>1, <1>5 DEF Invoke, Standing, pageVars, cacheVars, historyVars
  <2>2. Steps(a) /\ (pc'[a] = "act" => ~Aims(call'[a]))
    BY <1>1, <2>1, EnterSteps
  <2> QED
    BY <2>1, <2>2, QuietStep
<1>6. ASSUME InvokeFails(a) \/ Report(a) PROVE GestureInv' /\ Steps(a) /\ pc[a] # "resolve"
  <2>1. /\ pc[a] \in {"invoke", "report"} /\ Become(a, "idle", NoCall)
        /\ UNCHANGED <<doc, top, focus, held, upset, broken, snapshot, seen, current>>
    BY <1>6 DEF InvokeFails, Report, EndDiff, pageVars, cacheVars, historyVars
  <2>2. Standing("idle", NoCall)
    BY NoCallFacts DEF Standing
  <2>3. Steps(a) /\ pc'[a] = "idle"
    BY <1>1, <2>1, <2>2, Becomes
  <2> QED
    BY <2>1, <2>3, QuietStep
<1> QED
  BY <1>2, <1>3, <1>4, <1>5, <1>6 DEF DiffStep

LEMMA CallStepKeeps ==
  ASSUME GestureInv, NEW a \in Agents, CallStep(a)
  PROVE  GestureInv'
BY ResolveKeeps, PushKeeps, FindInputKeeps, SendKeeps, FailsKeeps, AnswerLostKeeps, WaitKeeps,
   FetchKeeps, StoreKeeps DEF CallStep

LEMMA GestureInvStays ==
  ASSUME GestureInv, UNCHANGED interactionVars
  PROVE  GestureInv'
BY DEF GestureInv, Domains, PageTypes, StandingInv, PlacedInv, Placed, CacheInv, NothingStaysDown,
       InDoc, InView, Line, Under, interactionVars, pageVars, cacheVars, historyVars

LEMMA GestureInvInit ==
  ASSUME Init
  PROVE  GestureInv
<1>1. Domains /\ PageTypes
  BY DEF Init, Domains, PageTypes
<1>2. StandingInv
  BY NoCallFacts DEF Init, StandingInv, Standing
<1>3. PlacedInv /\ CacheInv /\ NothingStaysDown
  BY DEF Init, PlacedInv, Placed, CacheInv, NothingStaysDown
<1> QED
  BY <1>1, <1>2, <1>3 DEF GestureInv

(* A page, its cached snapshot and the calls of all agents, whatever they  *)
(* do at the same time and whichever command fails.                        *)
THEOREM GestureInvariant == DiffSpec => []GestureInv
<1>1. DiffInit => GestureInv
  BY GestureInvInit DEF DiffInit
<1>2. GestureInv /\ [DiffNext]_diffVars => GestureInv'
  <2> SUFFICES ASSUME GestureInv, [DiffNext]_diffVars PROVE GestureInv'
    OBVIOUS
  <2>1. ASSUME NEW a \in Agents, DiffStep(a) PROVE GestureInv'
    BY <2>1, DiffStepKeeps
  <2>2. CASE Next
    BY <2>2, CallStepKeeps, BeginKeeps, ChangePageKeeps DEF Next
  <2>3. CASE UNCHANGED interactionVars
    BY <2>3, GestureInvStays
  <2>4. Record \/ Tick \/ UNCHANGED diffVars => UNCHANGED interactionVars
    BY DEF Record, Tick, diffVars
  <2> QED
    BY <2>1, <2>2, <2>3, <2>4 DEF DiffNext
<1> QED
  BY <1>1, <1>2, PTL DEF DiffSpec

-------------------------------------------------------------------------------
(* What the runs check.                                                    *)

(* Whatever is down, a call under way will let go of or a failed gesture   *)
(* left so, for any number of agents, calls and moves of a drag            *)
(* (interact.go:39-45, 172-199, 203-213).                                  *)
THEOREM HeldIsAccountedFor == DiffSpec => []NothingStaysDown
<1>1. GestureInv => NothingStaysDown
  BY DEF GestureInv
<1> QED
  BY <1>1, GestureInvariant, PTL

(* A gesture lands on the element its locator named unless something moved *)
(* under it, for any page, viewport and number of agents                   *)
(* (interact.go:19-45, 59-69, drop.go:50-84).                              *)
THEOREM GesturesLand == DiffSpec => []LandsOnItsElement
<1>1. GestureInv => LandsOnItsElement
  <2> SUFFICES ASSUME GestureInv, NEW a \in Agents, pc[a] = "act", Aims(call[a]), ~upset[a],
                      Head(call[a].todo) \notin NeedsNode
               PROVE  Hits(a, Head(call[a].todo)) = call[a].node
    BY DEF LandsOnItsElement, Aims
  <2> PICK c : c = Head(call[a].todo)
    OBVIOUS
  <2>1. Doing(call[a])
    BY DEF GestureInv, StandingInv, Standing
  <2>2. c \in Pointing \cup Typing \cup {"choose"}
    BY <2>1, OrderlyTail DEF Doing
  <2>3. /\ c \in Pointing => Under(call[a].spot) = call[a].node
        /\ c \in Typing => focus = call[a].node
    BY DEF GestureInv, PlacedInv, Placed
  <2>4. ToSet(dispatchDrag) = {"dragEnter", "dragOver", "drop"}
    <3>1. /\ DOMAIN dispatchDrag = 1 .. 3 /\ dispatchDrag[1] = "dragEnter"
          /\ dispatchDrag[2] = "dragOver" /\ dispatchDrag[3] = "drop"
      BY DEF dispatchDrag
    <3> QED
      BY <3>1 DEF ToSet
  <2>5. CASE c \in Pointing
    BY <2>3, <2>4, <2>5 DEF Hits, Pointing
  <2>6. CASE c \in Typing
    BY <2>3, <2>4, <2>6 DEF Hits, Typing
  <2>7. CASE c = "choose"
    BY <2>4, <2>7 DEF Hits
  <2> QED
    BY <2>2, <2>5, <2>6, <2>7
<1> QED
  BY <1>1, GestureInvariant, PTL

-------------------------------------------------------------------------------
(* Ids.                                                                    *)

(* A step of a call leaves the others' where they are.                     *)
LEMMA OthersStay ==
  ASSUME GestureInv, NEW b \in Agents, CallStep(b) \/ \E u \in Uses[b] : Begin(b, u),
         NEW a \in Agents, a # b
  PROVE  pc'[a] = pc[a]
<1>1. ASSUME NEW l, NEW c, Become(b, l, c) PROVE pc'[a] = pc[a]
  BY <1>1 DEF GestureInv, Domains, Become
<1>2. Return(b) => pc'[a] = pc[a]
  BY <1>1 DEF Return
<1>3. \A found : Resolved(b, found) => pc'[a] = pc[a]
  BY <1>1, <1>2 DEF Resolved
<1>4. ResolveId(b) \/ ResolveRole(b) \/ ResolveLive(b) => pc'[a] = pc[a]
  BY <1>1, <1>3 DEF ResolveId, ResolveRole, ResolveLive
<1>5. Push(b) \/ FindInput(b) \/ Poll(b) \/ GiveUp(b) => pc'[a] = pc[a]
  BY <1>1, <1>2 DEF Push, FindInput, Poll, GiveUp
<1>6. Fails(b) \/ AnswerLost(b) \/ FetchTree(b) \/ FetchFails(b) => pc'[a] = pc[a]
  BY <1>1, <1>2 DEF Fails, AnswerLost, FetchTree, FetchFails
<1>7. StoreSnapshot(b) => pc'[a] = pc[a]
  BY <1>2, <1>3 DEF StoreSnapshot
<1>8. (\E u \in Uses[b] : Begin(b, u)) => pc'[a] = pc[a]
  BY <1>1 DEF Begin, Enter
<1>9. Send(b) => pc'[a] = pc[a]
  BY SendSteps DEF Steps
<1> QED
  BY <1>4, <1>5, <1>6, <1>7, <1>8, <1>9 DEF CallStep

(* Only ResolveId takes a call from an id to an element.                   *)
LEMMA IdResolves ==
  ASSUME NEW a \in Agents, CallStep(a), pc[a] = "resolve", Loc(a).by = "id", pc'[a] = "push"
  PROVE  ResolveId(a)
BY DEF CallStep, ResolveRole, ResolveLive, Push, FindInput, Send, Fails, AnswerLost, Poll, GiveUp,
       FetchTree, FetchFails, StoreSnapshot

(* An id names what it named in the snapshot its agent was shown last,     *)
(* unless another was cached since, whatever any number of agents do in    *)
(* between (locator.go:38-50, snapshot.go:98-104).                         *)
THEOREM IdsKeepTheirMeaning == DiffSpec => IdsMeanWhatWasShown
<1>1. GestureInv /\ [DiffNext]_diffVars =>
        [\A a \in Agents :
           (pc[a] = "resolve" /\ Loc(a).by = "id" /\ current[a] /\ pc'[a] = "push") =>
             \E i \in DOMAIN seen[a] \cap {Loc(a).what} : call'[a].node = seen[a][i]]_interactionVars
  <2> SUFFICES ASSUME GestureInv, DiffNext, NEW a \in Agents,
                      pc[a] = "resolve", Loc(a).by = "id", current[a], pc'[a] = "push"
               PROVE  \E i \in DOMAIN seen[a] \cap {Loc(a).what} : call'[a].node = seen[a][i]
    BY DEF diffVars
  <2>1. ASSUME NEW b \in Agents, \/ DiffStep(b)
                                 \/ Next /\ (CallStep(b) \/ \E u \in Uses[b] : Begin(b, u))
        PROVE  b = a /\ CallStep(a)
    <3>1. b # a => pc'[a] = pc[a]
      <4>1. DiffStep(b) /\ b # a => pc'[a] = pc[a]
        BY DiffStepKeeps DEF Steps
      <4> QED
        BY <2>1, <4>1, OthersStay
    <3>2. ~DiffStep(a)
      BY DiffStepKeeps
    <3>3. ~ \E u \in Uses[a] : Begin(a, u)
      BY DEF Begin
    <3> QED
      BY <2>1, <3>1, <3>2, <3>3
  <2>2. ~ (ChangePage \/ Record \/ Tick)
    BY DEF ChangePage, Record, Tick, interactionVars
  <2>3. CallStep(a)
    BY <2>1, <2>2 DEF DiffNext, Next
  <2>4. ResolveId(a)
    BY <2>3, IdResolves
  <2>5. seen[a] = snapshot
    BY DEF GestureInv, CacheInv
  <2> PICK found : found = IF snapshot = NoSnapshot THEN {}
                           ELSE {snapshot[i] : i \in {Loc(a).what} \cap DOMAIN snapshot}
    OBVIOUS
  <2>6. Resolved(a, found) /\ Domains /\ Standing(pc[a], call[a])
    BY <2>4 DEF ResolveId, GestureInv, StandingInv
  <2>7. call'[a].node \in found
    BY <2>6, ResolvedSteps
  <2> QED
    BY <2>5, <2>7
<1> QED
  BY <1>1, GestureInvariant, PTL DEF DiffSpec, IdsMeanWhatWasShown

-------------------------------------------------------------------------------
(* The tab's ring, while calls go on.                                      *)

LEMMA DiffStepsRing == [DiffNext]_diffVars => [RingNext]_ringVars
<1> SUFFICES ASSUME DiffNext PROVE [RingNext]_ringVars
  BY DEF diffVars
<1>1. ASSUME NEW a \in Agents, DiffStep(a) PROVE UNCHANGED ringVars
  BY <1>1 DEF DiffStep, BeginDiff, CaptureBefore, CaptureAfter, StoreSummary, SummaryFails,
              Invoke, InvokeFails, Report, EndDiff
<1>2. Tick => UNCHANGED ringVars
  BY DEF Tick
<1>3. Record => RingNext
  BY DEF Record, RingNext
<1> QED
  BY <1>1, <1>2, <1>3 DEF DiffNext

(* The collectors of a tab under a diff keep the ring's promise: what the  *)
(* diff reads back is the last events recorded, in order                   *)
(* (task_action_diff.go:57-63, event_buffer.go:34-66).                     *)
THEOREM DiffImplementsLog == DiffSpec => ImplementsLog
<1>1. DiffSpec => RingSpec
  BY DiffStepsRing, PTL DEF DiffSpec, DiffInit, RingSpec
<1> QED
  BY <1>1, RingImplementsLog

-------------------------------------------------------------------------------
(* What Keep keeps (event_buffer.go:57-71, task_action_diff.go:186-199).   *)

(* A set of naturals has a smallest: what holds of every sequence is shown *)
(* by looking at a shortest one of which it would not hold.                *)
LEMMA NoneBelow ==
  ASSUME NEW T \in SUBSET Nat, T # {}
  PROVE  \E n \in T : \A m \in T : ~(m < n)
<1> PICK R : R = OpToRel(<, Nat)
  OBVIOUS
<1>1. IsWellFoundedOn(R, Nat)
  BY NatLessThanWellFounded
<1>2. PICK n \in T : \A m \in T : ~(<<m, n>> \in R)
  BY <1>1, WFMin
<1>3. \A m \in Nat : m < n => <<m, n>> \in R
  BY DEF OpToRel
<1> QED
  BY <1>2, <1>3, Zenon

LEMMA Smallest ==
  ASSUME NEW T \in SUBSET Nat, T # {}
  PROVE  \E n \in T : \A m \in T : n <= m
<1>1. PICK n \in T : \A m \in T : ~(m < n)
  BY NoneBelow
<1> QED
  BY <1>1

(* What the walk has kept after k elements; f is that walk.                *)
Walks(f, s, S, n) ==
  f = [k \in 0 .. n |-> IF k = 0 THEN << >>
                        ELSE IF s[k] \in S THEN Append(f[k - 1], s[k]) ELSE f[k - 1]]

(* There is such a walk, however far it goes.                              *)
LEMMA WalkExists ==
  ASSUME NEW s, NEW S, NEW n \in Nat
  PROVE  \E f : Walks(f, s, S, n)
<1> PICK T \in SUBSET Nat : T = {m \in Nat : ~\E f : Walks(f, s, S, m)}
  OBVIOUS
<1>1. SUFFICES ASSUME T # {} PROVE FALSE
  OBVIOUS
<1>2. PICK m \in T : \A j \in T : m <= j
  BY <1>1, Smallest
<1>3. CASE m = 0
  <2>1. Walks([k \in 0 .. 0 |-> << >>], s, S, 0)
    BY DEF Walks
  <2> QED
    BY <1>3, <2>1
<1>4. CASE m # 0
  <2>1. m - 1 \in Nat /\ m - 1 \notin T
    BY <1>2, <1>4
  <2>2. PICK g : Walks(g, s, S, m - 1)
    BY <2>1
  <2>3. PICK h : h = [k \in 0 .. m |-> IF k = m
                        THEN IF s[m] \in S THEN Append(g[m - 1], s[m]) ELSE g[m - 1]
                        ELSE g[k]]
    OBVIOUS
  <2>4. ASSUME NEW k \in 0 .. m
        PROVE  h[k] = IF k = 0 THEN << >>
                      ELSE IF s[k] \in S THEN Append(h[k - 1], s[k]) ELSE h[k - 1]
    <3>1. CASE k = m
      BY <1>4, <2>3, <3>1
    <3>2. CASE k # m
      <4>1. k \in 0 .. m - 1 /\ h[k] = g[k] /\ (k # 0 => h[k - 1] = g[k - 1])
        BY <2>3, <3>2
      <4>2. g[k] = IF k = 0 THEN << >>
                   ELSE IF s[k] \in S THEN Append(g[k - 1], s[k]) ELSE g[k - 1]
        BY <2>2, <4>1 DEF Walks
      <4> QED
        BY <4>1, <4>2
    <3> QED
      BY <3>1, <3>2
  <2>5. Walks(h, s, S, m)
    BY <2>3, <2>4 DEF Walks
  <2> QED
    BY <2>5
<1> QED
  BY <1>3, <1>4

(* The walk only looks at what it has passed.                              *)
LEMMA WalksAgree ==
  ASSUME NEW s, NEW t, NEW S, NEW n \in Nat, NEW m \in Nat, NEW f, NEW g,
         Walks(f, s, S, n), Walks(g, t, S, m), n <= m,
         \A k \in 1 .. n : s[k] = t[k]
  PROVE  f[n] = g[n]
<1> PICK T \in SUBSET Nat : T = {k \in Nat : k <= n /\ f[k] # g[k]}
  OBVIOUS
<1>1. SUFFICES ASSUME T # {} PROVE FALSE
  OBVIOUS
<1>2. PICK k \in T : \A j \in T : k <= j
  BY <1>1, Smallest
<1>3. k \in 0 .. n /\ k \in 0 .. m /\ f[k] # g[k]
  OBVIOUS
<1>4. /\ f[k] = IF k = 0 THEN << >>
                ELSE IF s[k] \in S THEN Append(f[k - 1], s[k]) ELSE f[k - 1]
      /\ g[k] = IF k = 0 THEN << >>
                ELSE IF t[k] \in S THEN Append(g[k - 1], t[k]) ELSE g[k - 1]
  BY <1>3 DEF Walks
<1>5. k # 0
  BY <1>3, <1>4
<1>6. k - 1 \in 0 .. n /\ k - 1 \notin T /\ k \in 1 .. n
  BY <1>2, <1>3, <1>5
<1>7. f[k - 1] = g[k - 1] /\ s[k] = t[k]
  BY <1>6
<1> QED
  BY <1>3, <1>4, <1>5, <1>7

(* Keep is where the walk ends.                                            *)
LEMMA KeepWalks ==
  ASSUME NEW E, NEW s \in Seq(E), NEW S
  PROVE  \E f : Walks(f, s, S, Len(s)) /\ Keep(s, S) = f[Len(s)]
<1>1. PICK f : f = CHOOSE g : Walks(g, s, S, Len(s))
  OBVIOUS
<1>2. Walks(f, s, S, Len(s))
  BY <1>1, WalkExists
<1>3. Keep(s, S) = f[Len(s)]
  BY <1>1 DEF Keep, Walks
<1> QED
  BY <1>2, <1>3

(* Keeping goes event by event.                                            *)
LEMMA KeepNothing ==
  ASSUME NEW S
  PROVE  Keep(<< >>, S) = << >>
<1>1. << >> \in Seq({}) /\ Len(<< >>) = 0
  BY EmptySeq
<1>2. PICK f : Walks(f, << >>, S, 0) /\ Keep(<< >>, S) = f[0]
  BY <1>1, KeepWalks
<1> QED
  BY <1>2 DEF Walks

LEMMA KeepAppend ==
  ASSUME NEW E, NEW s \in Seq(E), NEW e \in E, NEW S
  PROVE  Keep(Append(s, e), S) = IF e \in S THEN Append(Keep(s, S), e) ELSE Keep(s, S)
<1>1. PICK t, n, m : t = Append(s, e) /\ n = Len(s) /\ m = n + 1
  OBVIOUS
<1>2. /\ t \in Seq(E) /\ Len(t) = m /\ n \in Nat /\ m \in Nat /\ n <= m /\ t[m] = e
      /\ \A k \in 1 .. n : s[k] = t[k]
  BY <1>1, AppendProperties, LenProperties
<1>3. PICK f : Walks(f, s, S, n) /\ Keep(s, S) = f[n]
  BY <1>1, KeepWalks
<1>4. PICK g : Walks(g, t, S, m) /\ Keep(t, S) = g[m]
  BY <1>2, KeepWalks
<1>5. f[n] = g[n]
  BY <1>2, <1>3, <1>4, WalksAgree
<1>6. g[m] = IF t[m] \in S THEN Append(g[n], t[m]) ELSE g[n]
  <2>1. m \in 0 .. m /\ m # 0 /\ m - 1 = n
    BY <1>1, <1>2
  <2> QED
    BY <1>4, <2>1 DEF Walks
<1> QED
  BY <1>1, <1>2, <1>3, <1>4, <1>5, <1>6

(* Appending to what comes second.                                         *)
LEMMA ConcatAppend ==
  ASSUME NEW E, NEW p \in Seq(E), NEW q \in Seq(E), NEW e \in E
  PROVE  p \o Append(q, e) = Append(p \o q, e)
<1>1. <<e>> \in Seq(E) /\ p \o q \in Seq(E)
  BY ConcatProperties
<1>2. Append(q, e) = q \o <<e>> /\ Append(p \o q, e) = (p \o q) \o <<e>>
  BY <1>1, AppendIsConcat
<1> QED
  BY <1>1, <1>2, ConcatAssociative

(* What is kept is of both.                                                *)
LEMMA KeepIn ==
  ASSUME NEW E, NEW s \in Seq(E), NEW S
  PROVE  Keep(s, S) \in Seq(E \cap S)
<1> PICK T \in SUBSET Nat :
      T = {n \in Nat : \E t \in Seq(E) : Len(t) = n /\ Keep(t, S) \notin Seq(E \cap S)}
  OBVIOUS
<1>1. SUFFICES ASSUME T # {} PROVE FALSE
  BY LenProperties
<1>2. PICK n \in T : \A j \in T : n <= j
  BY <1>1, Smallest
<1>3. PICK t \in Seq(E) : Len(t) = n /\ Keep(t, S) \notin Seq(E \cap S)
  BY <1>2
<1>4. t # << >>
  BY <1>3, KeepNothing, EmptySeq
<1>5. PICK u \in Seq(E), e \in E : t = Append(u, e)
  BY <1>4, SequenceEmptyOrAppend
<1>6. Len(u) \in Nat /\ Len(u) \notin T
  BY <1>2, <1>3, <1>5, LenProperties, AppendProperties
<1>7. Keep(u, S) \in Seq(E \cap S)
  BY <1>6
<1>8. e \in S => Append(Keep(u, S), e) \in Seq(E \cap S)
  BY <1>7, AppendProperties
<1>9. Keep(t, S) = IF e \in S THEN Append(Keep(u, S), e) ELSE Keep(u, S)
  BY <1>5, KeepAppend
<1> QED
  BY <1>3, <1>7, <1>8, <1>9

(* Keeping of one sequence after another keeps of each.                    *)
LEMMA KeepConcat ==
  ASSUME NEW E, NEW p \in Seq(E), NEW q \in Seq(E), NEW S
  PROVE  Keep(p \o q, S) = Keep(p, S) \o Keep(q, S)
<1>0. PICK T \in SUBSET Nat :
      T = {n \in Nat : \E t \in Seq(E) :
             Len(t) = n /\ Keep(p \o t, S) # Keep(p, S) \o Keep(t, S)}
  OBVIOUS
<1>1. SUFFICES ASSUME T # {} PROVE FALSE
  BY <1>0, LenProperties
<1>2. PICK n \in T : \A j \in T : n <= j
  BY <1>1, Smallest
<1>3. PICK t \in Seq(E) : Len(t) = n /\ Keep(p \o t, S) # Keep(p, S) \o Keep(t, S)
  BY <1>0, <1>2
<1>4. t # << >>
  <2>1. Keep(p, S) \in Seq(E \cap S) /\ Keep(<< >>, S) = << >>
    BY KeepIn, KeepNothing
  <2>2. p \o << >> = p /\ Keep(p, S) \o << >> = Keep(p, S)
    BY <2>1, ConcatEmptySeq
  <2> QED
    BY <1>3, <2>1, <2>2
<1>5. PICK u \in Seq(E), e \in E : t = Append(u, e)
  BY <1>4, SequenceEmptyOrAppend
<1>6. Len(u) \in Nat /\ Len(u) \notin T
  BY <1>2, <1>3, <1>5, LenProperties, AppendProperties
<1>7. Keep(p \o u, S) = Keep(p, S) \o Keep(u, S)
  BY <1>0, <1>6
<1>8. /\ Keep(p, S) \in Seq(E) /\ Keep(u, S) \in Seq(E)
      /\ p \o u \in Seq(E) /\ p \o t = Append(p \o u, e)
  <2>1. Keep(p, S) \in Seq(E \cap S) /\ Keep(u, S) \in Seq(E \cap S)
    BY KeepIn
  <2>2. p \o u \in Seq(E)
    BY ConcatProperties
  <2>3. p \o Append(u, e) = Append(p \o u, e)
    BY ConcatAppend
  <2> QED
    BY <1>5, <2>1, <2>2, <2>3
<1>9. Keep(p, S) \o Append(Keep(u, S), e) = Append(Keep(p, S) \o Keep(u, S), e)
  <2>1. PICK a, b : a = Keep(p, S) /\ b = Keep(u, S)
    OBVIOUS
  <2>2. a \in Seq(E) /\ b \in Seq(E)
    BY <1>8, <2>1
  <2>3. a \o Append(b, e) = Append(a \o b, e)
    BY <2>2, ConcatAppend
  <2> QED
    BY <2>1, <2>3
<1>10. PICK v : v = p \o u
  OBVIOUS
<1>11. v \in Seq(E) /\ p \o t = Append(v, e)
  BY <1>8, <1>10
<1>12. Keep(Append(v, e), S) = IF e \in S THEN Append(Keep(v, S), e) ELSE Keep(v, S)
  BY <1>5, <1>11, KeepAppend
<1>13. Keep(t, S) = IF e \in S THEN Append(Keep(u, S), e) ELSE Keep(u, S)
  BY <1>5, KeepAppend
<1> QED
  BY <1>3, <1>7, <1>9, <1>10, <1>11, <1>12, <1>13

(* Keeping everything changes nothing.                                     *)
LEMMA KeepAll ==
  ASSUME NEW E, NEW s \in Seq(E), NEW S, E \subseteq S
  PROVE  Keep(s, S) = s
<1> PICK T \in SUBSET Nat : T = {n \in Nat : \E t \in Seq(E) : Len(t) = n /\ Keep(t, S) # t}
  OBVIOUS
<1>1. SUFFICES ASSUME T # {} PROVE FALSE
  BY LenProperties
<1>2. PICK n \in T : \A j \in T : n <= j
  BY <1>1, Smallest
<1>3. PICK t \in Seq(E) : Len(t) = n /\ Keep(t, S) # t
  BY <1>2
<1>4. t # << >>
  BY <1>3, KeepNothing
<1>5. PICK u \in Seq(E), e \in E : t = Append(u, e)
  BY <1>4, SequenceEmptyOrAppend
<1>6. Len(u) \in Nat /\ Len(u) \notin T
  BY <1>2, <1>3, <1>5, LenProperties, AppendProperties
<1> QED
  BY <1>3, <1>5, <1>6, KeepAppend

-------------------------------------------------------------------------------
(* What a diff hears.                                                      *)

(* events end with what the ring can still hold of the new ones, and       *)
(* nothing in front of those is younger than t.                            *)
Follows(events, new, t) ==
  LET k == IF Len(new) > Cap THEN Cap ELSE Len(new)
  IN  /\ k <= Len(events)
      /\ \A i \in 1 .. k : events[Len(events) - k + i] = new[Len(new) - k + i]
      /\ \A i \in 1 .. Len(events) - k : events[i].at <= t

(* Where a diff stands: its ring is read for the last time right before    *)
(* its second summary.                                                     *)
Telling(l, c) ==
  /\ c.nested \in BOOLEAN
  /\ l = "idle" => ~c.nested
  /\ l \in {"before", "invoke", "settle"} \/ c.why \in {"sumBefore", "sumAfter"} => c.nested
  /\ c.why = "sumAfter" => l \in {"fetch", "store", "report"}
  /\ l = "report" => c.why = "sumAfter"

ClockTypes ==
  /\ now \in Times
  /\ start \in [Agents -> Nat]
  /\ heard \in [Agents -> Seq(Events)] /\ since \in [Agents -> Seq(Events)]

Hears(a) ==
  /\ start[a] <= now
  /\ Telling(pc[a], call[a])
  /\ ~call[a].nested => since[a] = << >>
  /\ Listening(a) => Follows(Contents, since[a], start[a])
  /\ call[a].why = "sumAfter" => Follows(heard[a], since[a], start[a])

NoneAhead == \A i \in 1 .. size : Contents[i].at <= now

HearInv == ClockTypes /\ NoneAhead /\ \A a \in Agents : Hears(a)

-------------------------------------------------------------------------------
(* A step of a call that is not the diff's own changes nothing a diff      *)
(* hears by.                                                               *)
Carries(a) ==
  /\ \A b \in Agents \ {a} : pc'[b] = pc[b] /\ call'[b] = call[b]
  /\ call'[a].nested = call[a].nested
  /\ call'[a].why = "sumAfter" <=> call[a].why = "sumAfter"
  /\ Telling(pc'[a], call'[a])

LEMMA BecomesCarries ==
  ASSUME Domains, NEW a \in Agents, NEW l, NEW c, Become(a, l, c), Telling(l, c),
         c.nested = call[a].nested, c.why = "sumAfter" <=> call[a].why = "sumAfter"
  PROVE  Carries(a)
BY DEF Become, Domains, Carries

LEMMA ReturnCarries ==
  ASSUME Domains, NEW a \in Agents, Telling(pc[a], call[a]), call[a].why # "sumAfter", Return(a)
  PROVE  Carries(a)
<1> PICK n : n = [NoCall EXCEPT !.nested = TRUE]
  OBVIOUS
<1>1. n.nested = TRUE /\ n.why = "show" /\ NoCall.nested = FALSE /\ NoCall.why = "show"
  BY DEF NoCall
<1>2. Telling("settle", n) /\ Telling("idle", NoCall)
  BY <1>1 DEF Telling
<1>3. CASE call[a].nested
  <2>1. Become(a, "settle", n) /\ call[a].nested = TRUE
    BY <1>3 DEF Return, Telling
  <2> QED
    BY <1>1, <1>2, <2>1, BecomesCarries
<1>4. CASE ~call[a].nested
  <2>1. Become(a, "idle", NoCall) /\ call[a].nested = FALSE
    BY <1>4 DEF Return, Telling
  <2> QED
    BY <1>1, <1>2, <2>1, BecomesCarries
<1> QED
  BY <1>3, <1>4

(* The call goes on at another label, with its record as it is or with one *)
(* of the fields a diff does not hear by set.                              *)
Goes(a, l, c) ==
  /\ Become(a, l, c) /\ c.nested = call[a].nested 
  /\ c.why \in {call[a].why, "show", "role"}
  /\ l \in {"push", "wait", "findInput", "act", "fetch", "store", "resolve"}

LEMMA GoesCarries ==
  ASSUME Domains, NEW a \in Agents, NEW l, NEW c, Telling(pc[a], call[a]),
         call[a].why # "sumAfter", Goes(a, l, c)
  PROVE  Carries(a)
<1>1. Telling(l, c)
  BY DEF Goes, Telling
<1> QED
  BY <1>1, BecomesCarries DEF Goes

LEMMA ResolvedCarries ==
  ASSUME Domains, NEW a \in Agents, Standing(pc[a], call[a]), Telling(pc[a], call[a]),
         call[a].why # "sumAfter", NEW found, Resolved(a, found)
  PROVE  Carries(a)
<1>1. CASE Return(a)
  BY <1>1, ReturnCarries
<1>2. ASSUME NEW e, Become(a, "push", [call[a] EXCEPT !.node = e])
      PROVE  Carries(a)
  <2> PICK c : c = [call[a] EXCEPT !.node = e]
    OBVIOUS
  <2>1. c.nested = call[a].nested /\ c.why = call[a].why
    BY DEF Standing, CallFields
  <2>2. Goes(a, "push", c)
    BY <1>2, <2>1 DEF Goes
  <2> QED
    BY <2>2, GoesCarries
<1>3. CASE Become(a, "wait", call[a])
  <2>1. Goes(a, "wait", call[a])
    BY <1>3 DEF Goes
  <2> QED
    BY <2>1, GoesCarries
<1> QED
  BY <1>1, <1>2, <1>3 DEF Resolved

LEMMA CallStepCarries ==
  ASSUME GestureInv, NEW a \in Agents, CallStep(a), Telling(pc[a], call[a])
  PROVE  Carries(a)
<1>1. /\ Domains /\ Standing(pc[a], call[a]) /\ DOMAIN call[a] = CallFields
      /\ pc[a] \in {"resolve", "wait", "push", "findInput", "act"} => call[a].why # "sumAfter"
  BY DEF GestureInv, StandingInv, Standing
<1>2. CASE ResolveId(a) \/ ResolveLive(a)
  <2>1. call[a].why # "sumAfter" /\ \E found : Resolved(a, found)
    BY <1>1, <1>2 DEF ResolveId, ResolveLive
  <2> QED
    BY <1>1, <2>1, ResolvedCarries
<1>3. CASE ResolveRole(a)
  <2>1. call[a].why # "sumAfter" /\ pc[a] = "resolve"
    BY <1>1, <1>3 DEF ResolveRole
  <2>2. ASSUME NEW c, c = [call[a] EXCEPT !.why = "role"], Become(a, "fetch", c)
        PROVE  Carries(a)
    <3>1. c.nested = call[a].nested /\ c.why = "role"
      BY <1>1, <2>2 DEF CallFields
    <3>2. Goes(a, "fetch", c)
      BY <2>2, <3>1 DEF Goes
    <3> QED
      BY <1>1, <2>1, <3>2, GoesCarries
  <2>3. ASSUME NEW found, Resolved(a, found) PROVE Carries(a)
    BY <1>1, <2>1, <2>3, ResolvedCarries
  <2> QED
    BY <1>3, <2>2, <2>3 DEF ResolveRole
<1>4. CASE Push(a)
  <2>1. call[a].why # "sumAfter"
    BY <1>1, <1>4 DEF Push
  <2>2. ASSUME NEW c, c = [call[a] EXCEPT !.todo = Gesture(call[a].use.op)], Become(a, "act", c)
        PROVE  Carries(a)
    <3>1. c.nested = call[a].nested /\ c.why = call[a].why
      BY <1>1, <2>2 DEF CallFields
    <3>2. Goes(a, "act", c)
      BY <2>1, <2>2, <3>1 DEF Goes
    <3> QED
      BY <1>1, <2>1, <3>2, GoesCarries
  <2>3. ASSUME Become(a, "findInput", call[a]) PROVE Carries(a)
    <3>1. Goes(a, "findInput", call[a])
      BY <2>1, <2>3 DEF Goes
    <3> QED
      BY <1>1, <2>1, <3>1, GoesCarries
  <2>4. Return(a) => Carries(a)
    BY <1>1, <2>1, ReturnCarries
  <2> QED
    BY <1>4, <2>2, <2>3, <2>4 DEF Push
<1>5. CASE FindInput(a)
  <2>1. call[a].why # "sumAfter"
    BY <1>1, <1>5 DEF FindInput
  <2> PICK e, g, c : /\ Become(a, "act", c)
                     /\ \/ c = [call[a] EXCEPT !.node = e, !.todo = g]
                        \/ c = [call[a] EXCEPT !.todo = g]
    BY <1>5 DEF FindInput
  <2>2. c.nested = call[a].nested /\ c.why = call[a].why
    BY <1>1 DEF CallFields
  <2>3. Goes(a, "act", c)
    BY <2>1, <2>2 DEF Goes
  <2> QED
    BY <1>1, <2>1, <2>3, GoesCarries
<1>6. CASE Send(a)
  <2>1. call[a].why # "sumAfter"
    BY <1>1, <1>6 DEF Send
  <2> PICK n : n = [call[a] EXCEPT !.todo = Tail(@),
                      !.spot = IF Head(call[a].todo) = "box" THEN Line(call[a].node) - top ELSE @]
    OBVIOUS
  <2>2. DOMAIN n = CallFields /\ n.nested = call[a].nested /\ n.why = call[a].why
    BY <1>1 DEF CallFields
  <2>3. \/ Become(a, "act", n) \/ Return(a)
        \/ Become(a, "fetch", [n EXCEPT !.why = "show"])
        \/ Become(a, "wait", [n EXCEPT !.verify = TRUE])
    <3>1. call[a].use \in Use /\ pc[a] = "act"
      BY <1>1, <1>6, <2>1 DEF Standing, Send
    <3>2. call[a].use.then \in {"reply", "snapshot", "verify"}
      BY <3>1 DEF Use
    <3>3. CASE n.todo # << >>
      BY <1>6, <3>3 DEF Send
    <3>4. CASE n.todo = << >>
      BY <1>6, <3>2, <3>4 DEF Send
    <3> QED
      BY <3>3, <3>4
  <2>4. ASSUME NEW c, c = [n EXCEPT !.why = "show"], Become(a, "fetch", c) PROVE Carries(a)
    <3>1. c.nested = call[a].nested /\ c.why = "show"
      BY <2>2, <2>4 DEF CallFields
    <3>2. Goes(a, "fetch", c)
      BY <2>4, <3>1 DEF Goes
    <3> QED
      BY <1>1, <2>1, <3>2, GoesCarries
  <2>5. ASSUME NEW c, c = [n EXCEPT !.verify = TRUE], Become(a, "wait", c) PROVE Carries(a)
    <3>1. c.nested = call[a].nested /\ c.why = call[a].why
      BY <2>2, <2>5 DEF CallFields
    <3>2. Goes(a, "wait", c)
      BY <2>1, <2>5, <3>1 DEF Goes
    <3> QED
      BY <1>1, <2>1, <3>2, GoesCarries
  <2>6. ASSUME Become(a, "act", n) PROVE Carries(a)
    <3>1. Goes(a, "act", n)
      BY <2>1, <2>2, <2>6 DEF Goes
    <3> QED
      BY <1>1, <2>1, <3>1, GoesCarries
  <2> QED
    BY <1>1, <2>1, <2>3, <2>4, <2>5, <2>6, ReturnCarries
<1>7. CASE Fails(a)
  <2>1. call[a].why # "sumAfter" /\ (Become(a, "wait", call[a]) \/ Return(a))
    BY <1>1, <1>7 DEF Fails
  <2>2. Become(a, "wait", call[a]) => Goes(a, "wait", call[a])
    BY <2>1 DEF Goes
  <2> QED
    BY <1>1, <2>1, <2>2, GoesCarries, ReturnCarries
<1>8. CASE AnswerLost(a) \/ GiveUp(a)
  <2>1. call[a].why # "sumAfter" /\ Return(a)
    BY <1>1, <1>8 DEF AnswerLost, GiveUp
  <2> QED
    BY <1>1, <2>1, ReturnCarries
<1>9. CASE Poll(a)
  <2> PICK o, c : c = [call[a] EXCEPT !.polls = @ + 1, !.there = o] /\ Become(a, "resolve", c)
    BY <1>9 DEF Poll
  <2>1. call[a].why # "sumAfter" /\ c.nested = call[a].nested /\ c.why = call[a].why
    BY <1>1, <1>9 DEF Poll, CallFields
  <2>2. Goes(a, "resolve", c)
    BY <2>1 DEF Goes
  <2> QED
    BY <1>1, <2>1, <2>2, GoesCarries
<1>10. CASE FetchTree(a)
  <2> PICK v, c : c = [call[a] EXCEPT !.view = v] /\ Become(a, "store", c)
    BY <1>10 DEF FetchTree
  <2>1. c.nested = call[a].nested /\ c.why = call[a].why
    BY <1>1 DEF CallFields
  <2>2. Telling("store", c)
    BY <2>1 DEF Telling
  <2> QED
    BY <1>1, <2>1, <2>2, BecomesCarries
<1>11. CASE FetchFails(a)
  <2>1. call[a].why # "sumAfter" /\ (Become(a, "wait", call[a]) \/ Return(a))
    BY <1>11 DEF FetchFails
  <2>2. Become(a, "wait", call[a]) => Goes(a, "wait", call[a])
    BY <2>1 DEF Goes
  <2> QED
    BY <1>1, <2>1, <2>2, GoesCarries, ReturnCarries
<1>12. CASE StoreSnapshot(a)
  <2>1. call[a].why # "sumAfter" /\ (Return(a) \/ \E found : Resolved(a, found))
    BY <1>12 DEF StoreSnapshot
  <2> QED
    BY <1>1, <2>1, ReturnCarries, ResolvedCarries
<1> QED
  BY <1>2, <1>3, <1>4, <1>5, <1>6, <1>7, <1>8, <1>9, <1>10, <1>11, <1>12 DEF CallStep

-------------------------------------------------------------------------------
(* What the diff hears as events are added.                                *)

LEMMA FollowsNothing ==
  ASSUME NEW s \in Seq(Events), NEW t, \A i \in 1 .. Len(s) : s[i].at <= t
  PROVE  Follows(s, << >>, t)
<1>1. Len(<< >>) = 0 /\ Len(s) \in Nat /\ ~(0 > Cap)
  BY EmptySeq, LenProperties, CapPositive
<1> QED
  BY <1>1 DEF Follows

(* An event added to a ring that is not full.                              *)
LEMMA FollowsGrowing ==
  ASSUME NEW s \in Seq(Events), NEW new \in Seq(Events), NEW e \in Events, NEW t,
         Follows(s, new, t), Len(s) < Cap
  PROVE  Follows(Append(s, e), Append(new, e), t)
<1>1. PICK u, v, k : /\ u = Append(s, e) /\ v = Append(new, e)
                     /\ k = IF Len(new) > Cap THEN Cap ELSE Len(new)
  OBVIOUS
<1>2. /\ Cap \in Nat \ {0} /\ Len(s) \in Nat /\ Len(new) \in Nat
      /\ Len(u) = Len(s) + 1 /\ \A i \in 1 .. Len(s) : u[i] = s[i]
      /\ u[Len(s) + 1] = e
      /\ Len(v) = Len(new) + 1 /\ \A i \in 1 .. Len(new) : v[i] = new[i]
      /\ v[Len(new) + 1] = e
  BY <1>1, CapPositive, LenProperties, AppendProperties
<1>3. /\ k <= Len(s)
      /\ \A i \in 1 .. k : s[Len(s) - k + i] = new[Len(new) - k + i]
      /\ \A i \in 1 .. Len(s) - k : s[i].at <= t
  BY <1>1 DEF Follows
<1>4. k = Len(new) /\ k < Cap
  BY <1>1, <1>2, <1>3
<1>5. (IF Len(v) > Cap THEN Cap ELSE Len(v)) = k + 1
  BY <1>2, <1>4
<1>6. ASSUME NEW i \in 1 .. k + 1
      PROVE  u[Len(u) - (k + 1) + i] = v[Len(v) - (k + 1) + i]
  <2>1. CASE i = k + 1
    BY <1>2, <1>3, <1>4, <2>1
  <2>2. CASE i # k + 1
    <3>1. /\ i \in 1 .. k /\ Len(u) - (k + 1) + i = Len(s) - k + i
          /\ Len(v) - (k + 1) + i = Len(new) - k + i
          /\ Len(s) - k + i \in 1 .. Len(s) /\ Len(new) - k + i \in 1 .. Len(new)
      BY <1>2, <1>3, <1>4, <2>2
    <3> QED
      BY <1>2, <1>3, <3>1
  <2> QED
    BY <2>1, <2>2
<1>7. ASSUME NEW i \in 1 .. Len(u) - (k + 1) PROVE u[i].at <= t
  <2>1. i \in 1 .. Len(s) - k /\ i \in 1 .. Len(s)
    BY <1>2, <1>3, <1>4
  <2> QED
    BY <1>2, <1>3, <2>1
<1>8. k + 1 <= Len(u)
  BY <1>2, <1>3, <1>4
<1>9. Follows(u, v, t)
  BY <1>5, <1>6, <1>7, <1>8 DEF Follows
<1> QED
  BY <1>1, <1>9

(* An event added over the oldest of a full ring.                          *)
LEMMA FollowsFull ==
  ASSUME NEW s \in Seq(Events), NEW new \in Seq(Events), NEW e \in Events, NEW t,
         Follows(s, new, t), Len(s) = Cap
  PROVE  Follows(Append(Tail(s), e), Append(new, e), t)
<1>1. PICK u, v, k, w : /\ u = Append(w, e) /\ v = Append(new, e) /\ w = Tail(s)
                        /\ k = IF Len(new) > Cap THEN Cap ELSE Len(new)
  OBVIOUS
<1>2. Cap \in Nat \ {0} /\ Len(new) \in Nat /\ s # << >>
  BY CapPositive, LenProperties, EmptySeq
<1>3. /\ w \in Seq(Events) /\ Len(w) = Cap - 1 /\ \A i \in 1 .. Cap - 1 : w[i] = s[i + 1]
  BY <1>1, <1>2, HeadTailProperties
<1>4. /\ Len(u) = Cap /\ \A i \in 1 .. Cap - 1 : u[i] = s[i + 1]
      /\ u[Cap] = e
      /\ Len(v) = Len(new) + 1 /\ \A i \in 1 .. Len(new) : v[i] = new[i]
      /\ v[Len(new) + 1] = e
  BY <1>1, <1>2, <1>3, AppendProperties
<1>5. /\ k <= Cap
      /\ \A i \in 1 .. k : s[Cap - k + i] = new[Len(new) - k + i]
      /\ \A i \in 1 .. Cap - k : s[i].at <= t
  BY <1>1 DEF Follows
<1>6. ASSUME Len(new) < Cap PROVE Follows(u, v, t)
  <2>1. k = Len(new) /\ (IF Len(v) > Cap THEN Cap ELSE Len(v)) = k + 1
    BY <1>1, <1>2, <1>4, <1>6
  <2>2. ASSUME NEW i \in 1 .. k + 1
        PROVE  u[Len(u) - (k + 1) + i] = v[Len(v) - (k + 1) + i]
    <3>1. CASE i = k + 1
      BY <1>2, <1>4, <2>1, <3>1
    <3>2. CASE i # k + 1
      <4>1. k \in Nat /\ Len(u) = Cap /\ Len(v) = k + 1 /\ k < Cap /\ Len(new) = k
        BY <1>2, <1>4, <1>6, <2>1
      <4>2. i \in 1 .. k /\ Cap - (k + 1) + i \in 1 .. Cap - 1
        BY <1>2, <3>2, <4>1
      <4>3. (Cap - (k + 1) + i) + 1 = Cap - k + i /\ (k + 1) - (k + 1) + i = i /\ k - k + i = i
        BY <1>2, <4>1
      <4>4. u[Cap - (k + 1) + i] = s[Cap - k + i]
        BY <1>4, <4>2, <4>3
      <4>5. s[Cap - k + i] = new[i] /\ v[i] = new[i]
        BY <1>4, <1>5, <4>1, <4>2, <4>3
      <4> QED
        BY <4>1, <4>3, <4>4, <4>5
    <3> QED
      BY <3>1, <3>2
  <2>3. ASSUME NEW i \in 1 .. Len(u) - (k + 1) PROVE u[i].at <= t
    <3>1. i \in 1 .. Cap - 1 /\ i + 1 \in 1 .. Cap - k
      BY <1>2, <1>4, <1>6, <2>1
    <3> QED
      BY <1>4, <1>5, <3>1
  <2>4. k + 1 <= Len(u)
    BY <1>2, <1>4, <1>6, <2>1
  <2> QED
    BY <2>1, <2>2, <2>3, <2>4 DEF Follows
<1>7. ASSUME Len(new) >= Cap PROVE Follows(u, v, t)
  <2>1. k = Cap /\ (IF Len(v) > Cap THEN Cap ELSE Len(v)) = Cap
    BY <1>1, <1>2, <1>4, <1>7
  <2>2. ASSUME NEW i \in 1 .. Cap
        PROVE  u[Len(u) - Cap + i] = v[Len(v) - Cap + i]
    <3>1. CASE i = Cap
      BY <1>2, <1>4, <3>1
    <3>2. CASE i # Cap
      <4>1. k = Cap /\ Len(u) = Cap /\ Len(v) = Len(new) + 1
        BY <1>4, <2>1
      <4>2. i \in 1 .. Cap - 1 /\ i + 1 \in 1 .. Cap /\ Len(new) - Cap + (i + 1) \in 1 .. Len(new)
        BY <1>2, <1>7, <3>2
      <4>3. /\ Cap - Cap + i = i /\ Cap - Cap + (i + 1) = i + 1
            /\ (Len(new) + 1) - Cap + i = Len(new) - Cap + (i + 1)
        BY <1>2
      <4>4. u[i] = s[i + 1]
        BY <1>4, <4>2
      <4>5. s[Cap - Cap + (i + 1)] = new[Len(new) - Cap + (i + 1)]
        BY <1>5, <4>1, <4>2
      <4>6. v[Len(new) - Cap + (i + 1)] = new[Len(new) - Cap + (i + 1)]
        BY <1>4, <4>2
      <4> QED
        BY <4>1, <4>3, <4>4, <4>5, <4>6
    <3> QED
      BY <3>1, <3>2
  <2>3. Cap <= Len(u) /\ 1 .. Len(u) - Cap = {}
    BY <1>2, <1>4
  <2> QED
    BY <2>1, <2>2, <2>3 DEF Follows
<1>8. Follows(u, v, t)
  BY <1>2, <1>6, <1>7
<1> QED
  BY <1>1, <1>8

-------------------------------------------------------------------------------
(* HearInv is inductive.                                                   *)

(* A step of one call, with the ring and the clock as they were.           *)
LEMMA HearsStep ==
  ASSUME HearInv, NEW a \in Agents, UNCHANGED <<items, head, size, now>>, ClockTypes',
         \A b \in Agents \ {a} : /\ pc'[b] = pc[b] /\ call'[b] = call[b]
                                 /\ start'[b] = start[b] /\ heard'[b] = heard[b]
                                 /\ since'[b] = since[b],
         Hears(a)'
  PROVE  HearInv'
<1>1. Contents' = Contents
  BY DEF Contents
<1>2. NoneAhead'
  BY <1>1 DEF HearInv, NoneAhead
<1>3. ASSUME NEW b \in Agents \ {a} PROVE Hears(b)'
  BY <1>1, <1>3 DEF HearInv, Hears, Listening
<1> QED
  BY <1>2, <1>3 DEF HearInv

LEMMA CarriesHears ==
  ASSUME HearInv, NEW a \in Agents, Carries(a), UNCHANGED <<ringVars, clockVars>>
  PROVE  HearInv'
<1>1. UNCHANGED <<items, head, size, now, start, heard, since>>
  BY DEF ringVars, clockVars
<1>2. Contents' = Contents /\ ClockTypes'
  BY <1>1 DEF Contents, ClockTypes, HearInv
<1>3. Hears(a)'
  BY <1>1, <1>2 DEF HearInv, Hears, Listening, Carries
<1> QED
  BY <1>1, <1>2, <1>3, HearsStep DEF Carries

LEMMA EntryIs == \A u \in Use : Entry(u) \in {"fetch", "resolve", "act"}
<1> SUFFICES ASSUME NEW u \in Use PROVE Entry(u) \in {"fetch", "resolve", "act"}
  OBVIOUS
<1>1. u.op \in Located \cup AtPoint \cup {"snapshot", "domText"}
  BY DEF Use
<1> QED
  BY <1>1 DEF Entry, Located, AtPoint

(* A call enters its tool, for a diff or for itself.                       *)
LEMMA EnterCarries ==
  ASSUME Domains, NEW a \in Agents, NEW u \in Use, Telling(pc[a], call[a]),
         call[a].why # "sumAfter", Enter(a, u, call[a].nested)
  PROVE  Carries(a)
<1> PICK c, d : /\ c = [NoCall EXCEPT !.use = u, !.nested = d,
                                      !.spot = IF u.op \in AtPoint THEN u.loc.what ELSE 0,
                                      !.todo = IF u.op \in AtPoint THEN Gesture(u.op) ELSE << >>]
                /\ d = call[a].nested
  OBVIOUS
<1>1. c.nested = call[a].nested /\ c.why = "show" /\ Become(a, Entry(u), c)
  BY DEF NoCall, Enter
<1>2. Goes(a, Entry(u), c)
  BY <1>1, EntryIs DEF Goes
<1> QED
  BY <1>2, GoesCarries

LEMMA BeginHears ==
  ASSUME HearInv, GestureInv, NEW a \in Agents, NEW u \in Uses[a], Begin(a, u),
         UNCHANGED <<ringVars, clockVars>>
  PROVE  HearInv'
<1>1. /\ Domains /\ pc[a] = "idle" /\ Telling(pc[a], call[a]) /\ u \in Use
      /\ Enter(a, u, FALSE)
  BY InteractionAssumption DEF Begin, GestureInv, HearInv, Hears
<1>2. call[a].nested = FALSE /\ call[a].why # "sumAfter"
  BY <1>1 DEF Telling
<1>3. Carries(a)
  BY <1>1, <1>2, EnterCarries
<1> QED
  BY <1>3, CarriesHears

(* The diff's own steps.                                                   *)
LEMMA DiffStepHears ==
  ASSUME HearInv, GestureInv, RingInv, NEW a \in Agents, DiffStep(a)
  PROVE  HearInv'
<1>1. /\ Domains /\ Standing(pc[a], call[a]) /\ DOMAIN call[a] = CallFields
      /\ ClockTypes /\ NoneAhead /\ Hears(a) /\ Telling(pc[a], call[a])
      /\ Contents \in Seq(Events) /\ Len(Contents) = size
  BY ContentsIsSeq DEF GestureInv, StandingInv, Standing, HearInv, Hears
<1>2. ASSUME NEW u \in DiffUses[a], BeginDiff(a, u) PROVE HearInv'
  <2> PICK c : c = [NoCall EXCEPT !.use = u, !.nested = TRUE]
    OBVIOUS
  <2>1. /\ c.nested = TRUE /\ c.why = "show" /\ Become(a, "before", c) /\ pc[a] = "idle"
        /\ start' = [start EXCEPT ![a] = now]
        /\ UNCHANGED <<items, head, size, now, heard, since>>
    BY <1>2 DEF NoCall, BeginDiff, ringVars
  <2>2. since[a] = << >> /\ now \in Nat
    BY <1>1, <2>1, RingBufferAssumption DEF Hears, Telling, ClockTypes
  <2>3. Follows(Contents, << >>, now)
    BY <1>1, FollowsNothing DEF NoneAhead
  <2>4. /\ pc'[a] = "before" /\ call'[a] = c /\ start'[a] = now /\ since'[a] = << >>
        /\ \A b \in Agents \ {a} : pc'[b] = pc[b] /\ call'[b] = call[b] /\ start'[b] = start[b]
    BY <1>1, <2>1, <2>2 DEF Become, Domains, ClockTypes
  <2>5. ClockTypes' /\ Contents' = Contents
    BY <1>1, <2>1, <2>2 DEF ClockTypes, Contents
  <2>6. Hears(a)'
    BY <2>1, <2>2, <2>3, <2>4, <2>5 DEF Hears, Telling, Listening
  <2> QED
    BY <2>1, <2>4, <2>5, <2>6, HearsStep
<1>3. ASSUME CaptureBefore(a) PROVE HearInv'
  <2> PICK c : c = [call[a] EXCEPT !.why = "sumBefore"]
    OBVIOUS
  <2>1. /\ c.nested = call[a].nested /\ c.why = "sumBefore" /\ Become(a, "fetch", c)
        /\ call[a].why # "sumAfter" /\ UNCHANGED <<ringVars, clockVars>>
    BY <1>1, <1>3 DEF CallFields, CaptureBefore, Telling
  <2>2. Telling("fetch", c)
    BY <1>1, <1>3, <2>1 DEF Telling, CaptureBefore
  <2>3. Carries(a)
    BY <1>1, <2>1, <2>2, BecomesCarries
  <2> QED
    BY <2>1, <2>3, CarriesHears
<1>4. ASSUME CaptureAfter(a) PROVE HearInv'
  <2> PICK c : c = [call[a] EXCEPT !.why = "sumAfter"]
    OBVIOUS
  <2>1. /\ c.nested = call[a].nested /\ c.why = "sumAfter" /\ Become(a, "fetch", c)
        /\ pc[a] = "settle" /\ heard' = [heard EXCEPT ![a] = Recent(0, {})]
        /\ UNCHANGED <<items, head, size, now, start, since>>
    BY <1>1, <1>4 DEF CallFields, CaptureAfter, ringVars
  <2>2. Recent(0, {}) = Contents
    BY <1>1, KeepAll DEF Recent
  <2>3. c.nested = TRUE /\ Listening(a)
    BY <1>1, <2>1 DEF Telling, Hears, Listening
  <2>4. /\ pc'[a] = "fetch" /\ call'[a] = c /\ heard'[a] = Contents
        /\ \A b \in Agents \ {a} : pc'[b] = pc[b] /\ call'[b] = call[b] /\ heard'[b] = heard[b]
    BY <1>1, <2>1, <2>2 DEF Become, Domains, ClockTypes
  <2>5. ClockTypes' /\ Contents' = Contents
    BY <1>1, <2>1, <2>2 DEF ClockTypes, Contents
  <2>6. Hears(a)'
    BY <1>1, <2>1, <2>3, <2>4, <2>5 DEF Hears, Telling, Listening
  <2> QED
    BY <2>1, <2>4, <2>5, <2>6, HearsStep
<1>5. ASSUME StoreSummary(a) \/ SummaryFails(a) PROVE HearInv'
  <2> PICK v, c : /\ c = [call[a] EXCEPT !.view = v] \/ c = call[a]
                  /\ Become(a, AfterSummary(a), c)
    BY <1>5 DEF StoreSummary, SummaryFails
  <2>1. /\ c.nested = call[a].nested /\ c.why = call[a].why
        /\ call[a].why \in {"sumBefore", "sumAfter"} /\ UNCHANGED <<ringVars, clockVars>>
    BY <1>1, <1>5 DEF CallFields, StoreSummary, SummaryFails
  <2>2. Telling(AfterSummary(a), c)
    BY <1>1, <2>1 DEF Telling, AfterSummary
  <2>3. Carries(a)
    BY <1>1, <2>1, <2>2, BecomesCarries
  <2> QED
    BY <2>1, <2>3, CarriesHears
<1>6. ASSUME Invoke(a) PROVE HearInv'
  <2>1. /\ call[a].why # "sumAfter" /\ call[a].use \in Use /\ Enter(a, call[a].use, TRUE)
        /\ UNCHANGED <<ringVars, clockVars>>
    BY <1>1, <1>6 DEF Invoke, Standing
  <2>2. call[a].nested = TRUE
    BY <1>1, <1>6 DEF Invoke, Telling
  <2> QED
    BY <1>1, <2>1, <2>2, EnterCarries, CarriesHears
<1>7. ASSUME InvokeFails(a) \/ Report(a) PROVE HearInv'
  <2>1. EndDiff(a) /\ NoCall.nested = FALSE /\ NoCall.why = "show"
    BY <1>7 DEF InvokeFails, Report, NoCall
  <2>2. /\ pc'[a] = "idle" /\ call'[a] = NoCall /\ start'[a] = 0 /\ since'[a] = << >>
        /\ \A b \in Agents \ {a} : /\ pc'[b] = pc[b] /\ call'[b] = call[b]
                                     /\ start'[b] = start[b] /\ heard'[b] = heard[b]
                                     /\ since'[b] = since[b]
        /\ UNCHANGED <<items, head, size, now>> /\ ClockTypes'
    BY <1>1, <2>1, EmptySeq DEF EndDiff, Become, Domains, ClockTypes, ringVars
  <2>3. 0 <= now
    BY <1>1, RingBufferAssumption DEF ClockTypes
  <2>4. Hears(a)'
    BY <2>1, <2>2, <2>3 DEF Hears, Telling, Listening
  <2> QED
    BY <2>2, <2>4, HearsStep
<1> QED
  BY <1>2, <1>3, <1>4, <1>5, <1>6, <1>7 DEF DiffStep

(* An event is recorded: whoever listens has it follow.                    *)
LEMMA RecordHears ==
  ASSUME HearInv, RingInv, Record
  PROVE  HearInv'
<1>1. PICK e \in Events :
        /\ e.at \in {now, now - 1} /\ Add(e)
        /\ since' = [a \in Agents |-> IF Listening(a) THEN Append(since[a], e) ELSE since[a]]
        /\ UNCHANGED <<pc, call, now, start, heard>>
  BY DEF Record, interactionVars
<1>2. /\ ClockTypes /\ NoneAhead /\ Contents \in Seq(Events) /\ Len(Contents) = size
      /\ Cap \in Nat \ {0} /\ size \in Nat /\ now \in Nat /\ e.at <= now
  <2>1. ClockTypes /\ NoneAhead /\ now \in Nat
    BY RingBufferAssumption DEF HearInv, ClockTypes
  <2>2. Contents \in Seq(Events) /\ Len(Contents) = size
    BY ContentsIsSeq
  <2>3. Cap \in Nat \ {0} /\ size \in Nat
    BY CapPositive DEF RingInv, RingTypeOK
  <2>4. e.at <= now
    BY <1>1, <2>1
  <2> QED
    BY <2>1, <2>2, <2>3, <2>4
<1>3. \/ Contents' = Append(Contents, e) /\ Len(Contents) < Cap /\ size' = size + 1
      \/ Contents' = Append(Tail(Contents), e) /\ Len(Contents) = Cap /\ size' = size
  <2>1. CASE AddToFree(e)
    BY <1>1, <2>1, AddToFreeStep DEF AddToFree
  <2>2. CASE AddOverOldest(e)
    BY <1>1, <2>2, AddOverOldestStep DEF AddOverOldest
  <2> QED
    BY <1>1, <2>1, <2>2 DEF Add
<1>4. ASSUME NEW a \in Agents PROVE since[a] \in Seq(Events) /\ Append(since[a], e) \in Seq(Events)
  BY <1>1, <1>2, <1>4, AppendProperties DEF ClockTypes
<1>5. ClockTypes'
  BY <1>1, <1>2, <1>4 DEF ClockTypes
<1>6. NoneAhead'
  <2> SUFFICES ASSUME NEW i \in 1 .. size' PROVE Contents'[i].at <= now
    BY <1>1 DEF NoneAhead
  <2>1. CASE Contents' = Append(Contents, e) /\ size' = size + 1
    <3>1. CASE i = size + 1
      BY <1>1, <1>2, <2>1, <3>1, AppendProperties
    <3>2. CASE i # size + 1
      <4>1. i \in 1 .. size
        BY <1>2, <2>1, <3>2
      <4> QED
        BY <1>1, <1>2, <2>1, <4>1, AppendProperties DEF NoneAhead
    <3> QED
      BY <3>1, <3>2
  <2>2. CASE Contents' = Append(Tail(Contents), e) /\ Len(Contents) = Cap /\ size' = size
    <3>1. Contents # << >>
      BY <1>2, <2>2, EmptySeq
    <3>2. PICK w : w = Tail(Contents)
      OBVIOUS
    <3>3. /\ w \in Seq(Events) /\ Len(w) = size - 1
          /\ \A j \in 1 .. size - 1 : w[j] = Contents[j + 1]
      BY <1>2, <3>1, <3>2, HeadTailProperties
    <3>4. /\ Contents' = Append(w, e) /\ Append(w, e)[Len(w) + 1] = e
          /\ \A j \in 1 .. Len(w) : Append(w, e)[j] = w[j]
      BY <1>1, <2>2, <3>2, <3>3, AppendProperties
    <3>5. CASE i = size
      BY <1>2, <3>3, <3>4, <3>5
    <3>6. CASE i # size
      <4>1. i \in 1 .. size - 1 /\ i + 1 \in 1 .. size
        <5>1. i \in 1 .. size
          BY <2>2
        <5> QED
          BY <1>2, <3>6, <5>1
      <4> QED
        BY <1>2, <3>3, <3>4, <4>1 DEF NoneAhead
    <3> QED
      BY <3>5, <3>6
  <2> QED
    BY <1>3, <2>1, <2>2
<1>7. ASSUME NEW a \in Agents PROVE Hears(a)'
  <2>1. Hears(a) /\ since[a] \in Seq(Events) /\ start[a] \in Nat
    BY <1>2, <1>4 DEF HearInv, ClockTypes
  <2>2. since'[a] = IF Listening(a) THEN Append(since[a], e) ELSE since[a]
    BY <1>1
  <2>3. CASE Listening(a)
    <3>1. Follows(Contents', Append(since[a], e), start[a])
      BY <1>1, <1>2, <1>3, <2>1, <2>3, FollowsGrowing, FollowsFull DEF Hears
    <3> QED
      BY <1>1, <2>1, <2>2, <2>3, <3>1 DEF Hears, Listening
  <2>4. CASE ~Listening(a)
    BY <1>1, <2>1, <2>2, <2>4 DEF Hears, Listening
  <2> QED
    BY <2>3, <2>4
<1> QED
  BY <1>5, <1>6, <1>7 DEF HearInv

LEMMA TickHears ==
  ASSUME HearInv, RingInv, Tick
  PROVE  HearInv'
<1>1. /\ now' = now + 1 /\ now' \in Times /\ now \in Nat /\ Contents' = Contents
      /\ UNCHANGED <<size, pc, call, start, heard, since>>
  BY RingBufferAssumption DEF Tick, HearInv, ClockTypes, Contents, ringVars, interactionVars
<1>2. \A i \in 1 .. size : Contents[i].at \in Nat
  BY RingBufferAssumption DEF RingInv, NoPhantomEvent, Events
<1>3. NoneAhead'
  BY <1>1, <1>2 DEF HearInv, NoneAhead
<1>4. ClockTypes'
  BY <1>1 DEF HearInv, ClockTypes
<1>5. ASSUME NEW a \in Agents PROVE Hears(a)'
  <2>1. Hears(a) /\ start[a] \in Nat
    BY DEF HearInv, ClockTypes
  <2> QED
    BY <1>1, <2>1 DEF Hears, Listening
<1> QED
  BY <1>3, <1>4, <1>5 DEF HearInv

LEMMA HearInvInit ==
  ASSUME DiffInit
  PROVE  HearInv
<1>1. /\ now = 1 /\ start = [a \in Agents |-> 0] /\ size = 0
      /\ heard = [a \in Agents |-> << >>] /\ since = [a \in Agents |-> << >>]
      /\ pc = [a \in Agents |-> "idle"] /\ call = [a \in Agents |-> NoCall]
  BY DEF DiffInit, RingInit, Init
<1>2. NoCall.nested = FALSE /\ NoCall.why = "show"
  BY DEF NoCall
<1>3. ClockTypes /\ NoneAhead
  BY <1>1, EmptySeq, ActionDiffAssumption DEF ClockTypes, NoneAhead
<1>4. ASSUME NEW a \in Agents PROVE Hears(a)
  <2>1. pc[a] = "idle" /\ call[a] = NoCall /\ start[a] = 0 /\ since[a] = << >>
    BY <1>1
  <2>2. Telling("idle", NoCall)
    BY <1>2 DEF Telling
  <2>3. ~Listening(a) /\ start[a] <= now
    BY <1>1, <1>2, <2>1 DEF Listening
  <2> QED
    BY <1>2, <2>1, <2>2, <2>3 DEF Hears
<1> QED
  BY <1>3, <1>4 DEF HearInv

(* What every diff has heard, and would hear now, whoever else calls.      *)
THEOREM HearInvariant == DiffSpec => []HearInv
<1>1. HearInv /\ GestureInv /\ RingInv /\ [DiffNext]_diffVars => HearInv'
  <2> SUFFICES ASSUME HearInv, GestureInv, RingInv, [DiffNext]_diffVars PROVE HearInv'
    OBVIOUS
  <2>1. ASSUME NEW a \in Agents, DiffStep(a) PROVE HearInv'
    BY <2>1, DiffStepHears
  <2>2. ASSUME NEW a \in Agents, CallStep(a), UNCHANGED <<ringVars, clockVars>> PROVE HearInv'
    BY <2>2, CallStepCarries, CarriesHears DEF HearInv, Hears
  <2>3. ASSUME NEW a \in Agents, NEW u \in Uses[a], Begin(a, u), UNCHANGED <<ringVars, clockVars>>
        PROVE  HearInv'
    BY <2>3, BeginHears
  <2>4. CASE UNCHANGED <<ringVars, pc, call, clockVars>>
    BY <2>4 DEF HearInv, ClockTypes, NoneAhead, Hears, Listening, Contents, ringVars, clockVars
  <2>5. ChangePage => UNCHANGED <<pc, call>>
    BY DEF ChangePage
  <2>6. CASE UNCHANGED diffVars
    BY <2>4, <2>6 DEF diffVars, interactionVars
  <2> QED
    BY <2>1, <2>2, <2>3, <2>4, <2>5, <2>6, RecordHears, TickHears DEF DiffNext, Next
<1>2. DiffSpec => []RingInv
  BY DiffStepsRing, RingInvariance, PTL DEF DiffSpec, DiffInit, RingSpec
<1> QED
  BY <1>1, <1>2, HearInvInit, GestureInvariant, PTL DEF DiffSpec

-------------------------------------------------------------------------------
(* What the diff reports.                                                  *)

LEMMA ConcatEndsWith ==
  ASSUME NEW E, NEW p \in Seq(E), NEW q \in Seq(E)
  PROVE  IsSuffix(q, p \o q)
<1>1. PICK r, n, m : r = p \o q /\ n = Len(q) /\ m = Len(p)
  OBVIOUS
<1>2. /\ r \in Seq(E) /\ Len(r) = m + n /\ n \in Nat /\ m \in Nat
      /\ \A i \in 1 .. m + n : r[i] = IF i <= m THEN p[i] ELSE q[i - m]
  BY <1>1, ConcatProperties, LenProperties
<1>3. /\ Reverse(q) = [i \in 1 .. n |-> q[(n - i) + 1]]
      /\ Reverse(r) = [i \in 1 .. m + n |-> r[((m + n) - i) + 1]]
  BY <1>1, <1>2 DEF Reverse
<1>4. \A i \in 1 .. n : Reverse(q)[i] = Reverse(r)[i]
  <2> SUFFICES ASSUME NEW i \in 1 .. n PROVE Reverse(q)[i] = Reverse(r)[i]
    OBVIOUS
  <2>1. /\ i \in 1 .. m + n /\ ((m + n) - i) + 1 \in 1 .. m + n
        /\ ~(((m + n) - i) + 1 <= m) /\ (((m + n) - i) + 1) - m = (n - i) + 1
    BY <1>2
  <2> QED
    BY <1>2, <1>3, <2>1
<1>5. Len(Reverse(q)) = n /\ Len(Reverse(r)) = m + n
  BY <1>2, <1>3
<1>6. SubSeq(Reverse(q), 1, n) = SubSeq(Reverse(r), 1, n)
  BY <1>2, <1>4
<1> QED
  BY <1>1, <1>2, <1>5, <1>6 DEF IsSuffix, IsPrefix

(* Events that end with the youngest new ones: what is kept of the new is  *)
(* the end of what is kept of all.                                         *)
LEMMA FollowsSplits ==
  ASSUME NEW s \in Seq(Events), NEW new \in Seq(Events), NEW t \in Nat, Follows(s, new, t)
  PROVE  /\ Youngest(new) \in Seq(Events)
         /\ \E p \in Seq({e \in Events : e.at <= t}) : s = p \o Youngest(new)
<1>1. PICK k, n, y, p : /\ k = (IF Len(new) > Cap THEN Cap ELSE Len(new))
                        /\ n = Len(s) - k /\ y = Youngest(new) /\ p = SubSeq(s, 1, n)
  OBVIOUS
<1>2. /\ Cap \in Nat \ {0} /\ Len(s) \in Nat /\ Len(new) \in Nat /\ k \in Nat /\ n \in Nat
      /\ \A i \in 1 .. k : s[n + i] = new[Len(new) - k + i]
      /\ \A i \in 1 .. n : s[i].at <= t
  <2>1. Cap \in Nat \ {0} /\ Len(s) \in Nat /\ Len(new) \in Nat
    BY CapPositive, LenProperties
  <2>2. /\ k <= Len(s)
        /\ \A i \in 1 .. k : s[Len(s) - k + i] = new[Len(new) - k + i]
        /\ \A i \in 1 .. Len(s) - k : s[i].at <= t
    BY <1>1 DEF Follows
  <2>3. k \in Nat /\ n \in Nat
    BY <1>1, <2>1, <2>2
  <2> QED
    BY <1>1, <2>1, <2>2, <2>3
<1>3. y \in Seq(Events) /\ Len(y) = k /\ \A i \in 1 .. k : y[i] = new[Len(new) - k + i]
  <2>1. CASE Len(new) > Cap
    <3>1. /\ y = SubSeq(new, Len(new) - Cap + 1, Len(new)) /\ k = Cap
          /\ Len(new) - Cap + 1 \in Int /\ Len(new) - Cap + 1 <= Len(new)
      BY <1>1, <1>2, <2>1 DEF Youngest
    <3>2. \A i \in Len(new) - Cap + 1 .. Len(new) : new[i] \in Events
      BY <1>2, <2>1, ElementOfSeq
    <3>3. PICK b : b = Len(new) - Cap + 1
      OBVIOUS
    <3>4. /\ y \in Seq(Events) /\ Len(y) = Len(new) - b + 1
          /\ \A i \in 1 .. Len(new) - b + 1 : y[i] = new[b + i - 1]
      BY <1>2, <3>1, <3>2, <3>3, SubSeqProperties
    <3>5. /\ Len(new) - b + 1 = k
          /\ \A i \in 1 .. k : b + i - 1 = Len(new) - k + i
      BY <1>2, <3>1, <3>3
    <3> QED
      BY <3>4, <3>5
  <2>2. CASE ~(Len(new) > Cap)
    <3>1. y = new /\ k = Len(new) /\ \A i \in 1 .. k : Len(new) - k + i = i
      BY <1>1, <1>2, <2>2 DEF Youngest
    <3> QED
      BY <3>1
  <2> QED
    BY <2>1, <2>2
<1>4. /\ p \in Seq({e \in Events : e.at <= t}) /\ Len(p) = n
      /\ \A i \in 1 .. n : p[i] = s[i]
  <2>1. \A i \in 1 .. n : i \in 1 .. Len(s)
    BY <1>1, <1>2
  <2>2. \A i \in 1 .. n : s[i] \in {e \in Events : e.at <= t}
    BY <1>2, <2>1, ElementOfSeq
  <2>3. /\ p \in Seq({e \in Events : e.at <= t})
        /\ Len(p) = IF 1 <= n THEN n - 1 + 1 ELSE 0
        /\ \A i \in 1 .. n - 1 + 1 : p[i] = s[1 + i - 1]
    BY <1>1, <1>2, <2>2, SubSeqProperties
  <2>4. n - 1 + 1 = n /\ \A i \in 1 .. n : 1 + i - 1 = i
    BY <1>2
  <2> QED
    BY <1>2, <2>3, <2>4
<1>5. p \in Seq(Events)
  BY <1>4, SeqMonotonic
<1>6. /\ p \o y \in Seq(Events) /\ Len(p \o y) = n + k
      /\ \A i \in 1 .. n + k : (p \o y)[i] = IF i <= n THEN p[i] ELSE y[i - n]
  <2>1. p \in Seq(Events) /\ y \in Seq(Events) /\ Len(p) = n /\ Len(y) = k
    BY <1>3, <1>4, <1>5
  <2>2. PICK w : w = p \o y
    OBVIOUS
  <2>3. /\ w \in Seq(Events) /\ Len(w) = Len(p) + Len(y)
        /\ \A i \in 1 .. Len(p) + Len(y) : w[i] = IF i <= Len(p) THEN p[i] ELSE y[i - Len(p)]
    BY <2>1, <2>2, ConcatProperties
  <2> QED
    BY <2>1, <2>2, <2>3
<1>7. ASSUME NEW i \in 1 .. Len(s) PROVE (p \o y)[i] = s[i]
  <2>1. Len(s) = n + k
    BY <1>1, <1>2
  <2>2. CASE i <= n
    BY <1>2, <1>4, <1>6, <2>1, <2>2
  <2>3. CASE ~(i <= n)
    <3>1. i - n \in 1 .. k /\ n + (i - n) = i
      BY <1>2, <2>1, <2>3
    <3>2. (p \o y)[i] = y[i - n]
      BY <1>6, <2>1, <2>3
    <3>3. s[n + (i - n)] = new[Len(new) - k + (i - n)] /\ y[i - n] = new[Len(new) - k + (i - n)]
      BY <1>2, <1>3, <3>1
    <3> QED
      BY <3>1, <3>2, <3>3
  <2> QED
    BY <2>2, <2>3
<1>8. s = p \o y
  <2>1. Len(s) = n + k
    BY <1>1, <1>2
  <2> QED
    BY <1>6, <1>7, <2>1, SeqEqual
<1> QED
  BY <1>1, <1>3, <1>4, <1>8

(* The reply of a diff names what happened since it began, and in front of *)
(* it nothing older than its own start: for any capacity of the ring, any  *)
(* number of events and any other calls meanwhile                          *)
(* (task_action_diff.go:57-92, event_buffer.go:30-46).                     *)
THEOREM DiffsReport == DiffSpec => []DiffReportsWhatHappened
<1>1. HearInv => DiffReportsWhatHappened
  <2> SUFFICES ASSUME HearInv, NEW a \in Agents, NEW m \in Methods, pc[a] = "report"
               PROVE  LET due == Keep(Youngest(since[a]),
                                      {e \in Events : e.method = m /\ e.at >= start[a]})
                          reported == newSinceTime(heard[a], m, start[a])
                      IN  /\ IsSuffix(due, reported)
                          /\ \A i \in 1 .. Len(reported) - Len(due) : reported[i].at = start[a]
    BY DEF DiffReportsWhatHappened
  <2> PICK D, due, reported :
        /\ D = {e \in Events : e.method = m /\ e.at >= start[a]}
        /\ due = Keep(Youngest(since[a]), D) /\ reported = Keep(heard[a], D)
    OBVIOUS
  <2>1. /\ heard[a] \in Seq(Events) /\ since[a] \in Seq(Events) /\ start[a] \in Nat
        /\ Follows(heard[a], since[a], start[a])
    BY DEF HearInv, ClockTypes, Hears, Telling
  <2>2. PICK old : old = {e \in Events : e.at <= start[a]}
    OBVIOUS
  <2>3. PICK p \in Seq(old) : heard[a] = p \o Youngest(since[a])
    BY <2>1, <2>2, FollowsSplits
  <2>4. p \in Seq(Events) /\ Youngest(since[a]) \in Seq(Events)
    BY <2>1, <2>2, <2>3, FollowsSplits, SeqMonotonic
  <2>5. PICK q : q = Keep(p, D)
    OBVIOUS
  <2>6. reported = q \o due
    BY <2>3, <2>4, <2>5, KeepConcat
  <2>7. q \in Seq(old \cap D) /\ q \in Seq(Events) /\ due \in Seq(Events)
    <3>1. q \in Seq(old \cap D) /\ due \in Seq(Events \cap D)
      BY <2>3, <2>4, <2>5, KeepIn
    <3> QED
      BY <2>2, <3>1, SeqMonotonic
  <2>8. IsSuffix(due, reported)
    BY <2>6, <2>7, ConcatEndsWith
  <2>9. ASSUME NEW i \in 1 .. Len(reported) - Len(due) PROVE reported[i].at = start[a]
    <3>1. Len(reported) = Len(q) + Len(due) /\ Len(q) \in Nat /\ Len(due) \in Nat
      BY <2>6, <2>7, ConcatProperties, LenProperties
    <3>2. i \in 1 .. Len(q) /\ i \in 1 .. Len(q) + Len(due)
      BY <3>1
    <3>3. reported[i] = q[i]
      BY <2>6, <2>7, <3>2, ConcatProperties
    <3>4. q[i] \in old \cap D
      BY <2>7, <3>2, ElementOfSeq
    <3>5. q[i].at <= start[a] /\ q[i].at >= start[a] /\ q[i].at \in Nat
      BY <2>2, <3>4, RingBufferAssumption DEF Events
    <3> QED
      BY <2>1, <3>3, <3>5
  <2> QED
    BY <2>8, <2>9 DEF newSinceTime
<1> QED
  BY <1>1, HearInvariant, PTL

===============================================================================
