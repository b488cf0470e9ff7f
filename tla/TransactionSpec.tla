--------------------------- MODULE TransactionSpec ---------------------------
(***************************************************************************)
(* What a client transaction promises its two users (spec section 4.4):   *)
(* the transaction user is passed provisional responses, then exactly one *)
(* final outcome (a final response, a timeout or a transport error), and  *)
(* nothing after it; the transaction then terminates, Terminated is       *)
(* sticky, and the network layer is notified once.  The layer may also   *)
(* end the transaction itself when its channel goes away: then there is   *)
(* no outcome and no notice (the TU hears of it via OnChannelClosed).     *)
(*                                                                         *)
(* Retransmissions, timers and the network are invisible at this level.   *)
(***************************************************************************)
EXTENDS Naturals

VARIABLES
  lastUp,      \* the last thing passed to the TU: "none", "provisional", "final"
  reports,     \* final outcomes passed to the TU so far
  terminated,  \* has the transaction reached Terminated?
  notices      \* OnTransactionTerminated calls to the network layer

vars == <<lastUp, reports, terminated, notices>>

Init ==
  /\ lastUp = "none"
  /\ reports = 0
  /\ terminated = FALSE
  /\ notices = 0

\* A provisional response reaches the TU before any final outcome.
PassProvisional ==
  /\ ~terminated
  /\ reports = 0
  /\ lastUp' = "provisional"
  /\ UNCHANGED <<reports, terminated, notices>>

\* The one final outcome reaches the TU.
Report ==
  /\ ~terminated
  /\ reports = 0
  /\ reports' = 1
  /\ lastUp' = "final"
  /\ UNCHANGED <<terminated, notices>>

\* After its outcome the transaction terminates and tells the layer.
Terminate ==
  /\ ~terminated
  /\ reports = 1
  /\ terminated' = TRUE
  /\ notices' = notices + 1
  /\ UNCHANGED <<lastUp, reports>>

\* Both in one step (a 2xx to an INVITE, a timeout, a transport error).
ReportAndTerminate ==
  /\ ~terminated
  /\ reports = 0
  /\ reports' = 1
  /\ lastUp' = "final"
  /\ terminated' = TRUE
  /\ notices' = notices + 1

\* The layer destroys the transaction with its channel's context.
Abort ==
  /\ ~terminated
  /\ terminated' = TRUE
  /\ UNCHANGED <<lastUp, reports, notices>>

Next == PassProvisional \/ Report \/ Terminate \/ ReportAndTerminate \/ Abort

Spec == Init /\ [][Next]_vars
====
