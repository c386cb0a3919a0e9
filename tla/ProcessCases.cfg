SPECIFICATION ProcessesSpec
CONSTANTS
    h1 = h1
    h2 = h2
    address = address
    None = None
    Hostnames <- TwoHostnames
    Addresses <- ThreeAddresses
    MaxDisruptions = 6
    SizeRange = 4096
    Tries = {}
    Starting <- MCEnvironments
    Environments <- MCEnvironments
    DataDirs <- MCDirs
    PeerHashes <- MCHashes
    Exponents = {1, 4, 62}
    MaxStarts = 2
INVARIANTS
    LeaseNamesTheTunnel
    HashForLife
    NothingOutlivesWhatItUses
PROPERTIES
    ImplementsLease
    LeaseComesToRest
    StopsOnceTold
CHECK_DEADLOCK FALSE
