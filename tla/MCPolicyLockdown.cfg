SPECIFICATION Spec
CONSTANTS
  lan = lan
  wan = wan
  homeNet = homeNet
  Ports <- AllPorts
  Addrs <- TwoAddrs
  Nets <- TwoNets
  Networks <- OneNetwork
  Configs <- TwoConfigs
  Default <- Open
  DHCP_CLIENT_PORTS <- DHCPPorts
  Decoys <- DecoyRule
  TrieCapacity = 2
  PROFILE_TICKS = 2
  MaxOps = 2
PROPERTY LockdownTakesEffect
