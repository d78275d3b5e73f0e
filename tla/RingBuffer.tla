------------------------------ MODULE RingBuffer ------------------------------
(***************************************************************************)
(* The per-tab event store of internal/cdp/event_buffer.go: a slice of     *)
(* fixed length used as a ring, with the index of its oldest element and   *)
(* the number of valid ones.  Every method runs under the buffer's mutex,  *)
(* so Add is one step.  Slots are numbered from 0, as in Go.               *)
(*                                                                         *)
(* An event is abstracted to what Recent looks at: the time it was stamped *)
(* with and its method.                                                    *)
(***************************************************************************)
EXTENDS Integers, Sequences

CONSTANTS
  RequestedCap,   \* the argument of NewRingBuffer; any integer
  Times, Methods, \* time stamps (0 is Go's zero time) and CDP method names
  NoEvent         \* the zero BufferedEvent a fresh slot holds

Events == [at : Times, method : Methods]

ASSUME RingBufferAssumption ==
  /\ RequestedCap \in Int
  /\ Times \subseteq Nat
  /\ NoEvent \notin Events

(* NewRingBuffer turns a capacity that is not positive into 1.             *)
Cap == IF RequestedCap <= 0 THEN 1 ELSE RequestedCap

VARIABLES items, head, size

ringVars == <<items, head, size>>

Slots == 0 .. Cap - 1

RingInit ==
  /\ items = [i \in Slots |-> NoEvent]
  /\ head = 0
  /\ size = 0

AddToFree(e) ==
  /\ size < Cap
  /\ items' = [items EXCEPT ![(head + size) % Cap] = e]
  /\ size' = size + 1
  /\ UNCHANGED head

(* Mutant: head is not moved.                                              *)
AddOverOldestStuck(e) ==
  /\ size >= Cap
  /\ items' = [items EXCEPT ![head] = e]
  /\ UNCHANGED <<head, size>>

AddOverOldest(e) ==
  /\ size >= Cap
  /\ items' = [items EXCEPT ![head] = e]
  /\ head' = (head + 1) % Cap
  /\ UNCHANGED size

Add(e) == AddToFree(e) \/ AddOverOldest(e)

RingNext == \E e \in Events : Add(e)

RingSpec == RingInit /\ [][RingNext]_ringVars

(* The events the ring holds, in the order Recent walks them: from head,   *)
(* size slots on, wrapping around.                                         *)
Contents == [i \in 1 .. size |-> items[(head + (i - 1)) % Cap]]

(* The events among wanted, in order.                                      *)
Keep(events, wanted) ==
  LET kept[n \in 0 .. Len(events)] ==
        IF n = 0 THEN << >>
        ELSE IF events[n] \in wanted THEN Append(kept[n - 1], events[n]) ELSE kept[n - 1]
  IN  kept[Len(events)]

(* Recent(since, types): since = 0 and types = {} switch their filter off. *)
Recent(since, types) ==
  Keep(Contents, {e \in Events : /\ since = 0 \/ e.at >= since
                                 /\ types = {} \/ e.method \in types})

-------------------------------------------------------------------------------
RingTypeOK ==
  /\ items \in [Slots -> Events \cup {NoEvent}]
  /\ head \in Slots
  /\ size \in 0 .. Cap

(* A fresh slot's zero event is never part of what the ring holds, however *)
(* often head has gone around (event_buffer.go:34-46).                     *)
NoPhantomEvent == \A i \in 1 .. size : Contents[i] \in Events

(* The valid slots are the size slots from head: while the ring fills they *)
(* are a prefix, and head moves only once it is full.                      *)
HeadMovesOnlyWhenFull == size < Cap => head = 0

RingInv == RingTypeOK /\ HeadMovesOnlyWhenFull /\ NoPhantomEvent

(* The ring implements the bounded log: read oldest to newest, it is the   *)
(* last Cap events added, with none lost, repeated or out of order.        *)
Log == INSTANCE BoundedLog WITH log <- Contents

ImplementsLog == Log!LogSpec
===============================================================================
