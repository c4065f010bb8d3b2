\* A tenant over four days with a period of two and two nights of notice, two webhook
\* calls at a time; in the busy histories one failure, and one night only.
CONSTANTS
    Invoice = {1, 2}
    Night = {n1}
    Hook = {h1, h2}
    LastDay = 4
    ShortDay = 1
    MaxJobs = 2
    MaxNotices = 2
    MaxMishaps = 1
    Period = 2
    Grace = 1
    Notice = 2
SPECIFICATION BillingSpec
INVARIANTS
    BillingTypeOK
    StatusFollowsExpiry
    NoFreeTime
    BilledOncePerPeriod
PROPERTIES
    RenewalReactivates
    FirstPaymentActivates
CHECK_DEADLOCK FALSE
