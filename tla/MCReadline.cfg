SPECIFICATION Spec
CONSTANTS
    MaxLen = 2
    Size = 4
    MaxDrift = 3
INVARIANTS
    TypeOK
    CountsExact
    NoMissedLine
PROPERTIES
    RequestAnswered
