\* The bounds of every bracket of both schedules.
CONSTANTS
    Salaries = {1, 600, 1650, 2000, 3200, 4000, 5250, 7000, 7800, 8800, 10000, 10900, 14000, 15000, 17000}
    Allowances = {0, 2200, 3000}
SPECIFICATION PaySpec
INVARIANTS
    OneSchedule
CHECK_DEADLOCK FALSE
