------------------------------ MODULE EventLog ------------------------------
(***************************************************************************)
(* What the in-process event channel promises to the hooks that feed it    *)
(* and to the backend that reads from it, with nothing said about buffers, *)
(* threads or workers: a log.                                              *)
(*                                                                         *)
(*  - An event the channel accepts is appended to the log; an event it     *)
(*    refuses leaves no trace.                                             *)
(*  - Delivery reads the log from its start, one event after the other:    *)
(*    no accepted event is skipped, repeated or overtaken.                 *)
(*  - At most Slack accepted events are waiting to be delivered.           *)
(*  - The log may close for good; what was not delivered by then is lost.  *)
(***************************************************************************)
EXTENDS Naturals, Sequences

CONSTANTS
  Events,   \* the distinct occurrences that may be offered to the log
  Slack     \* how many accepted events may wait for delivery, a natural number

VARIABLES
  log,        \* every accepted event, oldest first
  delivered,  \* the events delivered so far, oldest first
  open        \* FALSE once nothing can be accepted or delivered any more

logVars == <<log, delivered, open>>

Init ==
  /\ log = <<>>
  /\ delivered = <<>>
  /\ open = TRUE

\* An event that was never accepted before joins the log.
Accept(e) ==
  /\ open
  /\ \A i \in 1 .. Len(log) : log[i] # e
  /\ Len(log) - Len(delivered) < Slack
  /\ log' = Append(log, e)
  /\ UNCHANGED <<delivered, open>>

\* The oldest event still waiting is delivered.
Deliver ==
  /\ open
  /\ Len(delivered) < Len(log)
  /\ delivered' = Append(delivered, log[Len(delivered) + 1])
  /\ UNCHANGED <<log, open>>

Close ==
  /\ open
  /\ open' = FALSE
  /\ UNCHANGED <<log, delivered>>

Next ==
  \/ \E e \in Events : Accept(e)
  \/ Deliver
  \/ Close

Spec == Init /\ [][Next]_logVars

\* An open log that holds undelivered events does not sit on them for ever.
LiveSpec == Spec /\ WF_logVars(Deliver)
=============================================================================
