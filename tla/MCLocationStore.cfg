SPECIFICATION SpecStore
CONSTANTS
  Contacts <- MCContacts
  Same = {}
  Commands <- MCCommands
  DefaultExpires = 2
  MinExpires = 2
  MaxExpires = 4
  MaxBindings = 1
  MaxContactOps = 3
  MaxClock = 1
  MaxRevision = 6
  Workers = {w1, w2}
  Nodes = {h1}
  NodeOf <- OneNode
  Retries = 1
  FeedCapacity = 2
  MaxDeliveries = 3
SYMMETRY WorkerSymmetry
INVARIANTS
  RevisionFences
  AcceptanceIsTrue
  FeedIsTrue
PROPERTIES
  ActsAsOneRegistrar
