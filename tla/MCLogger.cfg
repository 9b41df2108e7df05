SPECIFICATION Logging
CONSTANTS
  h1 = h1
  h2 = h2
  h3 = h3
  f1 = f1
  f2 = f2
  f3 = f3
  l1 = l1
  l2 = l2
  Nodes = {1, 2, 3}
  Source = 1
  Costs = {0, 1, 3}
  MaxEdges = 4
  MaxCost = 100
  EventTypes = {"posted", "read"}
  Handlers <- MCHandlers
  MaxInvokes = 3
  Actions <- MCActions
  NoFn = NoFn
  MaxObjects = 3
  Objects = {"o1", "o2", "o3"}
  Paths = {"p", "q"}
  NoPath = "none"
  MaxHandles = 3
  Programs = {"x", "y"}
  Files = {"a", "b"}
  MaxBackups = 2
  LastSecond = 4
  Loggers <- MCLoggers
  MaxMessages = 2
  StartupLines = 1
  MaxDepth = 4
  Blocks = 2
  LineChars = {"x", "y", "z"}
  LineTexts <- MCLineTexts
  LineBuffer = 5
  LastBlock = 4
  MaxLines = 3
  Chars = {"esc", "3", "0", "[", "m", "|"}
  MaxText = 6
  MaxColumns = 2
INVARIANT LoggerSurvives
CHECK_DEADLOCK FALSE
