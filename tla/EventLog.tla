------------------------------ MODULE EventLog ------------------------------
(***************************************************************************)
(* What the event stream of a run promises a browser that follows it: the  *)
(* events form one log, which only grows, and the browser is handed each   *)
(* in its turn, however often its connection is lost; it is handed every   *)
(* event in the end.                                                       *)
(***************************************************************************)
EXTENDS Naturals, Sequences

VARIABLES
    log,        \* the events of the run, in the order of their numbers
    received    \* those the browser was handed, in the order it was

logVars == <<log, received>>

LogInit == log = <<>> /\ received = <<>>

\* A transaction commits events.
Extend ==
    /\ Len(log) < Len(log')
    /\ log = SubSeq(log', 1, Len(log))
    /\ UNCHANGED received

\* The browser is sent the next event.
Receive ==
    /\ Len(received) < Len(log)
    /\ received' = Append(received, log[Len(received) + 1])
    /\ UNCHANGED log

\* The log grows and a prefix of it is received.
LogSafe == LogInit /\ [][Extend \/ Receive]_logVars

LogSpec == LogSafe /\ WF_logVars(Receive)
=============================================================================
