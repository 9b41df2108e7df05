CONSTANTS
  IntMax = 6
  MaxFrames = 60
  Fuel = 8
  Root = ""
  IoModule = "wwiv.io"
  Ids <- MCIds
  Packages <- MCPackages
  Blocks <- MCBlocks
  ProgramIds <- MCProgramIds
  Programs <- MCPrograms
SPECIFICATION FairSpec
PROPERTY ProgramsLoad
