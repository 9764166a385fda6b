CONSTANTS
  c1 = c1
  c2 = c2
  srv = srv
  client_node = client_node
  server_node = server_node
  client_process = client_process
  server_process = server_process
  Clients <- MCClients
  Server = srv
  Nodes <- MCNodes
  Node <- MCNode
  Processes <- MCProcesses
  Process <- MCProcess
  Calls <- MCCalls
  MaxCalls = 2
  Registered <- MCRegistered
  Capacity = 1
  MaxFailures = 1
SPECIFICATION FairSpec
INVARIANTS
  TypeOK
  JoinsAreExact
  UnlinkedMeansMissed
PROPERTY CallIsTraced
\* The calls are finitely many.
CHECK_DEADLOCK FALSE
