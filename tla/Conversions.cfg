SPECIFICATION Spec
CONSTANTS
  VarNames = {"A", "B", "V_$(A)", "V_1", "E"}
  Rank <- MCRank
  Computed <- MCComputed
  Defaults <- MCDefaults
  EnvNames <- MCEnv
  EnvFiles <- MCFiles
  ConfigDirs <- MCConfig
  MaxNested = 3
  MaxEdits = 1
  FileNames <- MCFileNames
  Directories <- MCDirectories
  Texts <- MCTexts
  World <- MCWorld
  Projects <- MCProjects
  ItemTrees <- MCItemTrees
  Lines <- MCLines
  ProjectFiles <- MCProjectFiles
  EmptyProject <- MCEmptyProject
  Desktops <- MCDesktops
  EmptyDesktop <- MCEmptyDesktop
  Versions <- MCVersions
  HistoryIDs <- MCHistoryIDs
  Number <- MCNumber
  Chopped <- MCChopped
  Letters = {"c"}
  BaseOf <- MCBaseOf
  Findable <- MCFindable
  Said <- MCSaid
  Headers = {"h1", "h2", "/usr/stdio.h"}
  Noise <- MCNoise
  Calls <- MCCalls
  Arguments <- MCArguments
  OptionTexts <- MCOptionTexts
  Platform = "Linux"
  TempEnvs <- MCTempEnvs
  FileType <- MCFileType
  FirstFiles <- MCFirst
  MayAppear <- MCMayAppear
  Lists <- MCLists
  Archives <- MCArchives
  Sections = {"IDE", "WATCHES", "BREAKPOINTS"}
  RhgdbTexts <- MCRhgdbTexts
  RhgdbArguments <- MCRhgdbArguments
  RgdSettings <- MCRgdSettings
  RgdDefaults <- MCRgdDefaults
  Lower <- MCLower
  Inside <- MCInside
  Similar <- MCSimilar
  InfoFile <- MCInfoFile
  Indices <- MCIndices
  InfoLists <- MCInfoLists
  Infos <- MCInfos
  SourceFiles <- MCSourceFiles
  FirstSources <- MCFirstSources
  ComeAndGo <- MCComeAndGo
  SearchLists <- MCSearchLists
  Stops <- MCStops
  MaxViews = 2
  MaxDirs = 1
INVARIANTS NamesRight  StreamsRight OutputsRight FilesFound StopIsShown
PROPERTIES ScopesRestored
