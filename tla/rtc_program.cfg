\* A program from creation to destruction, recompiled up to three times.
SPECIFICATION Spec
CONSTANTS
    p1 = p1  cubin = cubin  ltoir = ltoir  bitcode = bitcode
    Programs = {p1}
    Sizes <- MCSizes
    Policies <- MCPolicies
    DefaultLimits <- MCDefault
    MaxCount = 2
    MaxBuilds = 3
    Outputs = {cubin, ltoir, bitcode}
    SizeExported = {cubin, ltoir}
    BytesExported = {cubin, bitcode}
INVARIANTS
    DestroyedOnce FlagsAreTrue OutputIsCurrent
    CopiesAreBounded RejectionIsReported
PROPERTY KeepsVendorProtocol
