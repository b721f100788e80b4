SPECIFICATION LiveSpec
CONSTANTS
    None = None
    first = first
    second = second
    other = other
    b = b
    v1 = v1
    v2 = v2
    Rotations <- MCRotations
    Beneficiaries = {b}
    SameTab = {b}
    Roots = {first, second, other}
    FirstRoot = first
    Members <- MCMembers
INVARIANTS
    VersionsInOrder
    PostedAfterChain
    NewestIsLive
    ReportedIsPaid
PROPERTIES
    ProofsCatchUp
