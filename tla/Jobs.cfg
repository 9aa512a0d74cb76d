SPECIFICATION JobDeliverySpec
CONSTANTS
    Call = {c1, c2}
    JobId = {j1}
    Worker = {w1, w2}
    MaxGenerated = 3
    MaxFaults = 2
    Offered <- Inputs
    None = None
INVARIANTS
    RejectedMeansNotAdded
    OneJobPerJobId
    TimingsOfRunningJobs
PROPERTIES
    AcknowledgedJobsEnd
    EnqueueSettles
CHECK_DEADLOCK FALSE
