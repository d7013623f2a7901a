SPECIFICATION SpecRegistrar
CONSTANTS
  Contacts <- MCContacts
  Same <- Spellings
  Commands <- MCCommands
  DefaultExpires = 2
  MinExpires = 2
  MaxExpires = 4
  MaxBindings = 2
  MaxContactOps = 3
  MaxClock = 2
  MaxRevision = 2
INVARIANTS
  OnePathPerAor
