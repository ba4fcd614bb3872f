SPECIFICATION Spec
CONSTANTS
    Tags = {"none", "scv", "marine"}
    NullTag = "none"
    Whats = {"w1", "w2"}
    Priorities = {1, 2}
    Domains = {"Recovery", "StructureBuild", "UnitProduction"}
    MaxIntents = 3
INVARIANTS
    CommandsAreBest
