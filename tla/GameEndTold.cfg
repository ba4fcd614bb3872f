SPECIFICATION Spec
CONSTANTS
    MaxClients = 2
    Faulty = {1}
    Modes <- Together
INVARIANTS
    GameEndTold
