SPECIFICATION Spec
CONSTANTS
  Ram <- MCRam
  Benches <- MCBenches
PROPERTY DecimalAdjust
PROPERTY CarriesChain
PROPERTY BranchFollowsCompare
PROPERTY LastInFirstOut
PROPERTY BytesTakeTime
