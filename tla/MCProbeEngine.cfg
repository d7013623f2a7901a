SPECIFICATION SpecProbe
CONSTANTS
    Mine = Mine
    Other = Other
    None = None
INVARIANTS
  ReportIsTrue
PROPERTIES
  EveryRunEnds
  KeepsContract
