SPECIFICATION Spec
CONSTANTS
  h1 = h1
  h2 = h2
  h6 = h6
  h7 = h7
  Hosts <- MCHosts
  V6 <- MCV6
  Net64 <- MCNet64
  Packets <- MCPackets
  Queries <- MCQueries
  TCP_ALLOW <- OpenTcp
  UDP_ALLOW <- OpenUdp
  ALLOW_FROM_TCP <- ToH1
  ALLOW_FROM_UDP <- Nobody
  Limited <- OpenTcp
  EPHEMERAL_LOW = 9
  UDP_FLOW_TTL = 2
  FlowCapacity = 1
  RingSize = 1
  Horizon = 3
  MaxOps = 5
INVARIANTS AnswersGetIn OnlyAnswersGetIn Accounted
CHECK_DEADLOCK FALSE
