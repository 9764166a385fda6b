-------------------------- MODULE MCTracePipeline --------------------------
(* Model-checking instances of TracePipeline.                               *)
EXTENDS TracePipeline

CONSTANTS other, create, serve, reply, talk, n1, n2, g1

What(kind, timeline, gid) ==
  [kind |-> kind, timeline |-> timeline, gid |-> gid]

\* Two nodes are created in one process.  One goes on to create a service and
\* to answer a request, the other to publish a message.
MCShape ==
  [o \in Occurrences |->
     CASE o = other  -> What("create_node", n2, NoGid)
       [] o = create -> What("create_node", n1, NoGid)
       [] o = serve  -> What("rmw", n1, NoGid)
       [] o = reply  -> What("service", n1, NoGid)
       [] o = talk   -> What("publish", n2, g1)]
=============================================================================
