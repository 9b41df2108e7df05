SPECIFICATION Spec
CONSTANTS
  root = root
  print = print
  all = all
  nothing = nothing
  Sections <- MCSections
  Symbols <- MCSymbols
  Root <- root
  Commands <- MCCommands
  Parent <- MCParent
  Arguments <- MCArguments
  Booleans = {"help"}
  Lettered = {"help"}
  Lenient = {root}
  DotKey = "bbsdir"
  Initially <- MCInitially
  Nothing <- nothing
  Cases <- MCCases
INVARIANTS
  SettingsReadBack
  EveryWordOnce
  GivenBeatsDefaults
CHECK_DEADLOCK FALSE
