SPECIFICATION Spec
CONSTANTS
    Tags = {"noTag", "scv1", "scv2"}
    NullTag = "noTag"
    Whats = {"depot", "move"}
    Priorities = {1}
    Places = {1, 2}
    Actors = {"scv1", "scv2"}
    Kinds = {"depot"}
    Constructed = {"depot"}
    Abilities <- AllTheSame
    MaxCount = 2
    StepSize = 2
    ProducerTimeout = 1
    ConstructionTimeout = 3
    DrainBudget = 1
    Nothing = "nothing"
PROPERTIES
    AnswersHeard
