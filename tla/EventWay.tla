------------------------------- MODULE EventWay -------------------------------
(***************************************************************************)
(* What one subscriber may take the way of a method's events for           *)
(* (internal/cdp and browser/events.go): a queue that hands its events on  *)
(* in order, at once and without a copy of the subscribers, and loses one  *)
(* only while more than Cap are on it.  Events of other tabs take their    *)
(* place on the way and are never handed on.  It says nothing of channels, *)
(* goroutines and lists; module EventPipeline is shown to implement it for *)
(* each line and subscriber, and module PageWaits builds on it.            *)
(***************************************************************************)
EXTENDS Naturals, Sequences

CONSTANTS Events, Own, Cap

VARIABLES
  way,    \* events on their way, the oldest first
  on,     \* whether the subscriber is subscribed
  inbox   \* its channel

wayVars == <<way, on, inbox>>

WayInit == way = << >> /\ on = FALSE /\ inbox = << >>

Enter(e) == way' = Append(way, e) /\ UNCHANGED <<on, inbox>>

(* Of its own events one is lost only from a way that is full.             *)
Lose(i) ==
  /\ way[i] \in Own => Len(way) > Cap
  /\ way' = SubSeq(way, 1, i - 1) \o SubSeq(way, i + 1, Len(way))
  /\ UNCHANGED <<on, inbox>>

(* The oldest goes to the subscriber if it is there and has room.          *)
Hand ==
  /\ way # << >> /\ Head(way) \in Own
  /\ way' = Tail(way)
  /\ inbox' = IF on /\ Len(inbox) < Cap THEN Append(inbox, Head(way)) ELSE inbox
  /\ UNCHANGED on

Join == ~on /\ on' = TRUE /\ UNCHANGED <<way, inbox>>

Take == inbox # << >> /\ inbox' = Tail(inbox) /\ UNCHANGED <<way, on>>

Leave == on /\ on' = FALSE /\ inbox' = << >> /\ UNCHANGED way

WayNext ==
  \/ \E e \in Events : Enter(e)
  \/ \E i \in DOMAIN way : Lose(i)
  \/ Hand \/ Join \/ Take \/ Leave

WaySpec == WayInit /\ [][WayNext]_wayVars
===============================================================================
