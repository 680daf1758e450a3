\* A foreach_unique over floating-point values, NaN among them.
CONSTANTS
    l1 = l1
    l2 = l2
    l3 = l3
    NaN = NaN
    Lanes = {l1, l2}
    Values = {1, NaN}
    Programs <- UniqueOnly
SPECIFICATION FairSpec
PROPERTY
    FunctionReturns
