CONSTANTS
    CrashIds = {c1, c2}
    DayTicks <- MCDayTicks
    MaxTick <- MCMaxTick
    KeepDays <- MCKeepDays
    NoStamp = NoStamp
    NoKeep = NoKeep
    Absent = Absent
    Malformed = Malformed
    None = None
SYMMETRY Symmetry
SPECIFICATION Spec
PROPERTIES PruneRemovesExpired
