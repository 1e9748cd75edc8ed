CONSTANTS
  Literals = {"a", "b"}
  Singles = {":x"}
  Rests = {"*p"}
  MaxParts = 2
  MaxRoutes = 3
  Names = {"v", "n", "-v"}
  ArgLines <- SomeArgLines
  Instances = {"i", "j"}
  Paths = {"p", "q"}
  Contents <- SomeContents
  Order <- SomeOrder
  Levels = {1, 2}
  Patterns <- SomePatterns
  MaxDay = 2
  MaxLines = 3
  Urls <- SomeUrls
  Methods = {"GET"}
  Bodies <- SomeBodies
  Answers <- SomeAnswers
  Piece = 2
  MaxSends = 2
  MaxQuery = 2
SPECIFICATION MCSpec
INVARIANT DoubleStarRuns
CHECK_DEADLOCK FALSE
