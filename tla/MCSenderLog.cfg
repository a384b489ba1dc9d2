SPECIFICATION Spec
CONSTANTS
    Header = 46
    Load = 1200
    FecK = 4
    Probes = 4
    IpUdp = 28
    Halvings = 16
    MaxFrames = 3
    MaxRetries = 1
    Sizes <- MCSizes
    Received = {3}
    Delays = {150}
    Interval = 2
    Target = 4800
    Capacities = {370, 1569, 1570, 1571, 2844, 6700, 7940, 9000}
INVARIANTS SiftAccepts SummaryAccounts WireIsSent SmoothedIsMean SettledConverges EquivalentFits
CHECK_DEADLOCK FALSE
