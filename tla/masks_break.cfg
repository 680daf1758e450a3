\* Loops in which some lanes continue and the others then break.
CONSTANTS
    l1 = l1
    l2 = l2
    l3 = l3
    NaN = NaN
    Lanes = {l1, l2}
    Values = {1, 2}
    Programs <- BreakAfterContinue
SPECIFICATION Spec
INVARIANT
    MaskExact
