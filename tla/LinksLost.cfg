SPECIFICATION Spec
CONSTANTS
    s = s
    a = a
    b = b
    c = c
    hostS = hostS
    hostAB = hostAB
    w1 = w1
    w2 = w2
    URLs <- MCURLs
    Seeds <- MCSeeds
    Hosts <- MCHosts
    HostOf <- MCHostOf
    Links <- MCLinks
    Target <- MCTarget
    InScope <- MCInScope
    Answers <- MCAnswers
    Workers <- MCWorkers
    MaxDepth = 1
    MaxPagesPerHost = 1
    UnlimitedPages = FALSE
    MaxAttempts = 1
    MaxDeferrals = 1
    MaxCopies = 2
    MaxDisruptions = 1
INVARIANT RestartKeepsLinks
