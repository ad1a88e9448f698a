SPECIFICATION FairSpec
CONSTANT Toggles = {"first", "second"}
INVARIANTS
  MenuTellsTruth
  BusyGuards
PROPERTIES
  StartSurvives
  ClickMeansOpposite
  ItemComesBack
