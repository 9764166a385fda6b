---------------------------- MODULE MCServiceRpc ----------------------------
(* A model-checking instance of ServiceRpc: two clients of one node, and a    *)
(* service in another process.                                               *)
EXTENDS ServiceRpc

CONSTANTS c1, c2, srv, client_node, server_node, client_process, server_process

MCClients == {c1, c2}
MCCalls == {<<c1, 1>>, <<c1, 2>>, <<c2, 1>>}
MCRegistered == {{c1, c2, srv}, {c2, srv}, {c1, c2}}
MCNodes == {client_node, server_node}
MCNode == [e \in {c1, c2, srv} |-> IF e = srv THEN server_node ELSE client_node]
MCProcesses == {client_process, server_process}
MCProcess == [n \in MCNodes |-> IF n = server_node THEN server_process
                                ELSE client_process]
=============================================================================
