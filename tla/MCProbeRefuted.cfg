\* Statements the code does not keep, refuted one at a time: leave one of them in.
SPECIFICATION SpecProbe
CONSTANTS
    Mine = Mine
    Other = Other
    None = None
INVARIANTS
    RegistrationIsRemoved
\*  OneBye
