\* Two requests at a time in every module.  Rows of different modules share model values:
\* they never meet, and the group of symmetries stays small.
CONSTANTS
    Handler = {h1, h2}
    Person = {p1, p2, p3}
    Branch = {b1, b2}
    Department = {d1}
    MaxEmployees = 1
    LeaveRequest = {b1, b2}
    LastLeaveDay = 4
    RestDays = {3}
    UsedBefore = 14
    Event = {1, 2}
    LastDate = 2
    MaxFaults = 1
    Session = {b1, b2}
    MaxChoices = 2
    User = {p1, p2}
    Role = {r1}
    Permission = {"p1", "p2"}
    BuiltIn = {"p1"}
    MaxTokens = 3
    LastTick = 5
    Second = 2
    Connection = {b1, b2}
    MaxLocks = 2
    Entry = {b1, b2}
    Salaries = {1, 600, 1650, 2000, 3200, 4000, 5250, 7000, 7800, 8800, 10000, 10900, 14000, 15000, 17000}
    Allowances = {0, 2200, 3000}
    BookedPays <- MCBookedPays
    Shifts <- MCShifts
    Tenant = {p1, p2}
    Row = {b1, b2}
    Queries <- MCQueries
    Run = {b1, b2}
    Employed = {b1}
    Holder = {b1, b2}
    MaxStops = 1
    Workspace = {b1, b2}
    Address = {p1, p2}
    MaxLinks = 2
    Applicant = {p1, p2}
    Pickable = {2, 4}
    EntryLife = 2
    LastInstant = 3
SPECIFICATION WorkplaceSpec
SYMMETRY WorkplaceSymmetry
INVARIANTS
    WorkplaceTypeOK
    SeatsBounded
    EveryoneBelongs
    CachesCurrent
    LeaveSound
    EventsAccounted
    EventLoggedOnce
    RecordFollowsLog
    SignInsSound
    DoneOnce
    WagesSound
    FormsSound
    PagesSound
    IsolationSound
    GuardLag
CHECK_DEADLOCK FALSE
