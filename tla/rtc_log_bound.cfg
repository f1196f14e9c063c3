\* The log copied by a program whose policy exceeds the default.
SPECIFICATION Spec
CONSTANTS
    p1 = p1  cubin = cubin  ltoir = ltoir  bitcode = bitcode
    Programs = {p1}
    Sizes <- MCSizes
    Policies <- MCPolicies
    DefaultLimits <- MCDefault
    MaxCount = 2
    MaxBuilds = 3
    Outputs = {cubin, ltoir, bitcode}
    SizeExported = {cubin, ltoir}
    BytesExported = {cubin, bitcode}
INVARIANT LogWithinDefault
