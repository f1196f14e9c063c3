\* The inventory of f1, f2 and the alias a1 of f1 under every history of the oracles.
SPECIFICATION Spec
CONSTANTS
    f1 = f1  f2 = f2   a1 = a1
    NoSlot = NoSlot  NoNumber = NoNumber
    InRust = {f1, f2}
    InUnion = {f1, a1}
    Aliases = {a1}
    Target <- MCTarget
    Extensions = {}
    UnionRank <- MCRank
    MaxSlot = 4
INVARIANTS
    SlotsNeverClash
PROPERTIES
    AdditionsNeedTheBase FreedSlotRests RefinesFieldLog SyncSettles
