CONSTANTS
    dust = dust
    short = short
    enough = enough
    more = more
    Deposit <- MCDeposit
    Change = more
    Sats <- MCSats
    Dust = 1
    MinLiveFundingSats = 3
    Windows = {2}
    Ttls = {5}
    PhaseTimeout = 3
    Slack = 2
    Poll = 1
    ReadMax = 1
    Horizon = 6
    None = None
SPECIFICATION Spec
INVARIANTS WaitOutrunsTheTtl NeverArrivedIsHonest OneConvention
CHECK_DEADLOCK FALSE
