CONSTANTS
  a = a
  b = b
  n1 = n1
  n2 = n2
  Addrs = {a, b}
  Names = {n1, n2}
  Configs <- ConfigsDef
  Initial <- InitialDef
  MaxReloads = 2
SPECIFICATION FairSpec
INVARIANTS NeverUnrouted NegotiatedIsRouted StoresAgree
PROPERTY ReloadsEnd
CHECK_DEADLOCK FALSE
