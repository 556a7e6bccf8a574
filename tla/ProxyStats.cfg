SPECIFICATION Spec
CONSTANTS
    f1 = f1
    f2 = f2
    f3 = f3
    a = a
    b = b
    other = other
    direct = direct
    exit = exit
    Flows = {f1, f2, f3}
    Hosts = {a, b}
    OtherHost = other
    Labels = {direct, exit}
    ServiceMax = 2
    OverflowSlots = 2
    MaxBytes = 1
    NoSlot = NoSlot
SYMMETRY StatsSymmetry
INVARIANTS TypeOK RowsDistinct FoldNotLoss MislabelledOnlyWhenFull GaugeExact
PROPERTY PublishedNeverGoesBack
