SPECIFICATION Spec
CONSTANTS
  Bytes = {"a", "n", "<", ">", "t", "."}
  MaxMessage = 4
  PaneLimit = 11
  Arguments <- MCArguments
  MaxArgs = 4
  Texts <- MCTexts
  Bodies <- MCBodies
INVARIANTS EveryArgumentOnce NamespaceAsTyped SplitLosesNothing PaneKeepsItsEnd
PROPERTY EveryCommandAnswers
