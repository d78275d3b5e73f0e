------------------------------ MODULE BoundedLog ------------------------------
(***************************************************************************)
(* What internal/cdp/event_buffer.go promises: a log that keeps the most   *)
(* recent Cap events, oldest first.  It says nothing of heads, sizes or    *)
(* slots; module RingBuffer is shown to implement it.                      *)
(***************************************************************************)
EXTENDS Integers, Sequences

CONSTANTS Events, Cap

VARIABLE log

LogInit == log = << >>

(* A new event goes to the end; when the log is full its oldest event      *)
(* leaves by the front.                                                    *)
Record(e) ==
  log' = IF Len(log) < Cap THEN Append(log, e) ELSE Append(Tail(log), e)

LogNext == \E e \in Events : Record(e)

LogSpec == LogInit /\ [][LogNext]_log
===============================================================================
