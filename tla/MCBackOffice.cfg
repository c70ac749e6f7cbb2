SPECIFICATION MCSpec
CONSTANTS
    i1 = i1
    i2 = i2
    o1 = o1
    o2 = o2
    k1 = k1
    k2 = k2
    p1 = p1
    p2 = p2
    p3 = p3
    f1 = f1
    f2 = f2
    Entities = {o1, o2, k1, k2, p1, p2, p3}
    EntityKind <- KindOfEntity
    EntityKey <- KeyOf
    Marks <- MarksOf
    FieldOf <- ColumnOf
    Extractions <- SomeExtractions
    ImportCalls = {i1, i2}
    MaxOvertaken = 1
    CsvLines = 2
    Mappings = {f1, f2}
    Reading <- ReadingOf
    Finds <- Findings
    CsvCalls = {i1, i2}
    MaxCsvMishaps = 1
    CsvTables <- Tables
    MaxDigits = 7
    SessionCalls = {i1, i2}
    Companies = {k1}
    MaxTokens = 3
    MaxOverlaps = 1
    MaxAccounts = 1
SYMMETRY BackOfficeSymmetry
INVARIANTS
    BookedAsConfirmed
    CsvLinesStored
    TextsReadBack
    OneTokenPerSignIn
CHECK_DEADLOCK FALSE
