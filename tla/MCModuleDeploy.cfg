SPECIFICATION FairSpec
CONSTANTS
  Jobs = {1, 2}
  Zips <- MCZips
  TarZips <- MCTarZips
  Inside <- MCInside
  TarOf <- MCTarOf
  Order <- MCOrder
  MaxPass = 12
  Damages = {{}, {"java8.tar.zip"}}
  Projects <- MCProjects
  BaseTars = {"java8.tar.zip"}
  Html = {"inner"}
  Shipped = {"pack", "java8.tar.zip"}
  ImageIn <- MCImageIn
  Names <- MCNames
  Needs <- MCNeeds
  Base = "java:8"
  RepoOf <- MCRepoOf
  Tags <- MCTags
  Older = {"app:1"}
  Requests = {"full", "up", "build", "nginx"}
  Rounds = 3
  Crews = {1, 2}
  MaxAsked = 2
  MaxHarm <- MCMaxHarm
INVARIANTS
  ModuleOK
  PrepareExpandsAll
  BaseIsBase
PROPERTIES
  OkMeansAll
  EveryJobEnds
CHECK_DEADLOCK FALSE
