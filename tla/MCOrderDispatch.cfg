SPECIFICATION Spec
CONSTANTS
    Tags = {"noTag", "scv", "barracks"}
    NullTag = "noTag"
    Whats = {"depot", "marine", "move"}
    Priorities = {1}
    Places = {1, 2}
    Actors = {"scv", "barracks"}
    Kinds = {"depot", "marine"}
    Constructed = {"depot"}
    Abilities <- OneKindEach
    MaxCount = 1
    StepSize = 1
    ProducerTimeout = 1
    ConstructionTimeout = 2
    DrainBudget = 1
    Nothing = "nothing"
INVARIANTS
    TypeOK
    GivenUpInTime
PROPERTIES
    ImplementsLifecycle
