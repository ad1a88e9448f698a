SPECIFICATION Spec
CONSTANTS
  IPs = {"ip1", "ip2", "ip3", "link"}
  MACs = {"m1", "m2", "m3", "m4", "m5"}
  Unusable = {"link"}
  Names <- MCNames
  Hints <- MCHints
  Virtual <- MCVirtual
  Exact <- MCExact
  Part <- MCPart
  MaxNets = 3
  Inputs <- MCInputs
INVARIANTS
  SelectsUniqueBest
  AcceptedIsOneAdapter
  PacketsSound
