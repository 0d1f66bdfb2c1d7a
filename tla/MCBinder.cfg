SPECIFICATION Spec
CONSTANTS
    Expected = 1
    MaxBindAttempts = 2
    MaxRestoreRounds = 2
    Ephemeral = FALSE
    Keypairs = {2}
    Generations = {1, 2}
    Challenges = {101, 102}
    CoordOutcomes <- MCCoordOutcomes
    MaxBoots = 2
    MaxRevision = 3
INVARIANTS AgreesWithTable OneAuthorization AuthorizedFirst RestoreBounded
PROPERTIES ImplementsContract Terminates
CHECK_DEADLOCK FALSE
