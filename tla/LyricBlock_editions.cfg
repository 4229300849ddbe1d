SPECIFICATION Spec
CONSTANTS
    NoBody = NoBody
    NoRow = NoRow
    Rows = {r1, r2}
    Bodies = {b1, b2}
    CanUnblock = TRUE
INVARIANTS TypeOK BlockedRowHasBlock
PROPERTIES RemovesOnlyBackedUp
