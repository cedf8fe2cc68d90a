SPECIFICATION Spec
CONSTANTS
  Client = {"c1", "c2"}
  Caller = {"c1", "c2"}
  NoClient = "none"
  Name = {"a", "b", "c"}
  MaxInstances = 3
  MaxRetries = 1
  Embedder = {"p", "q"}
  Text = {"s", "t"}
  Plans <- MCPlans
INVARIANTS FailoversAreSound
PROPERTIES CallsEndAndHeal
