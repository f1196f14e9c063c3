\* An oracle that loses the declaration of one function moves the fields behind it, here one that a common extension uses.
SPECIFICATION Spec
CONSTANTS
    f1 = f1  f2 = f2   a1 = a1
    NoSlot = NoSlot  NoNumber = NoNumber
    InRust = {f1, f2}
    InUnion = {f1, a1}
    Aliases = {a1}
    Target <- MCTarget
    Extensions = {f2}
    UnionRank <- MCRank
    MaxSlot = 3
PROPERTY FieldsNeverMove
