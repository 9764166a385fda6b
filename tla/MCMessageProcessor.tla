------------------------- MODULE MCMessageProcessor -------------------------
(* Model-checking instance of MessageProcessor.                             *)
EXTENDS MessageProcessor

CONSTANTS n1, n2, g1, g2

\* Two nodes; the first has two publishers, and calls a service whose replies
\* it takes; a third publisher of n1 has no known graph id.
MCEvents ==
  {[kind |-> "create_node",  timeline |-> n1, gid |-> NoGid],
   [kind |-> "rmw",          timeline |-> n2, gid |-> NoGid],
   [kind |-> "publish",      timeline |-> n1, gid |-> g1],
   [kind |-> "publish",      timeline |-> n1, gid |-> g2],
   [kind |-> "publish",      timeline |-> n2, gid |-> NoGid],
   [kind |-> "receive",      timeline |-> n2, gid |-> NoGid],
   [kind |-> "send_request", timeline |-> n1, gid |-> NoGid],
   [kind |-> "service",      timeline |-> n1, gid |-> NoGid]}
=============================================================================
