SPECIFICATION MCSpec
CONSTANTS
    t1 = t1
    t2 = t2
    c1 = c1
    c2 = c2
    dash = dash
    prod = prod
    Things = {t1, t2}
    Times <- TwoTimes
    Nows = {23, 24}
    Amounts <- OneAmount
    Claims <- OneClaim
    DayTicks = 4
    WeekDays = 2
    ThirtyDays = 3
    MonthLen = 2
    YearLen = 2
    Zone = 1
    MaxBooked = 2
    Imports <- OneReport
    SetupCalls = {c1, c2}
    Modules = {dash, prod}
    Essential = {dash}
    Always = {dash}
    Protected = {dash}
    Recommendable <- NoneOrAll
    Rankings <- LastOnly
    Layouts <- TwoLayouts
    DefaultLayout = {"m1"}
    CoreLayout = {"m2"}
    MaxSaves = 3
SYMMETRY CompanySymmetry
INVARIANTS
    FiguresAddUp
    FiguresCompare
    SetupAsAsked
PROPERTIES
    NeverSentBack
CHECK_DEADLOCK FALSE
