----------------------------- MODULE MC_CdpClient -----------------------------
(* Two calls in flight, a goroutine that closes the client and meets the   *)
(* pump doing the same, and one response that arrives twice.               *)
EXTENDS CdpClient
===============================================================================
