SPECIFICATION Spec
CONSTANT Reports = {"Authenticated"}
INVARIANTS
  FailureIsShown
