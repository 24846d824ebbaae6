SPECIFICATION Spec
CONSTANTS
  Bytes = {"a", "n", "<", ">", "t", "."}
  MaxMessage = 4
  PaneLimit = 11
  Arguments <- MCArguments
  MaxArgs = 3
  Texts <- MCTexts
  Bodies <- MCBodies
INVARIANT AllMeansAll
