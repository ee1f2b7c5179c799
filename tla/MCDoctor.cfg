SPECIFICATION Spec
CONSTANTS
  docker = docker
  ufw = ufw
  virbr0 = virbr0
  Chains = {docker, ufw}
  UfwChains = {ufw}
  Bridges = {virbr0}
  Libvirt = {virbr0}
  MaxRules = 4
  MaxOps = 3
INVARIANTS HolesArePairs 
PROPERTIES HealsVms
