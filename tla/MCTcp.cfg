SPECIFICATION Spec
CONSTANTS
  client = client
  server = server
  Hosts = {client, server}
  NoHost = NoHost
  Links <- MCLinks
  Senders = {client}
  Ports = {80}
  TCP_MAX_CONNECTIONS = 1
  TCP_BUFFER_SIZE = 2
  FRAME_DATA_MAX = 2
  SEQ_MOD = 16
  ISNS <- MCISNS
  WIRE = 2
  MaxBytes = 3
  MaxFaults = 1
INVARIANTS
  Prefix
CHECK_DEADLOCK FALSE
