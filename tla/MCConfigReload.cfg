SPECIFICATION FairSpec
CONSTANTS
    None = None
    n1 = n1
    n2 = n2
    Nodes = {n1, n2}
    Identity <- MCIdentity
    FirstDocuments <- MCFirstDocuments
    Edits <- MCEdits
    MaxVersion = 5
    AnyRestart = FALSE
    MaxKeys = 16
    InFlightCeiling = 3
    TimerCFloor = 3
    TokenLifetime = 4
    SkewAllowance = 1
    DefaultMax = 4
    Resolves = {"dsn"}
INVARIANTS
  PeersHoldTheMint
  IdsAgree
PROPERTIES
  FleetConverges
