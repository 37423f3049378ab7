SPECIFICATION PartsSpec
CONSTANTS
  PairLength = 3 OneEdits = 2 TwoEdits = 1
  StateLength = 4 MaxUpdates = 1 MaxRanges = 2
  HistoryLength = 1 MinDepth = 3 DepthSlack = 2 MaxTyped = 2 MaxOther = 1 MaxSelects = 1
  TextShift = 1 TextBound = 5 Inserts <- MCInserts
  Specs = {1, 2} Keys = {k1, k2} MaxRounds = 2 MaxVersion = 2 MaxFrames = 3 MaxInstances = 3
  Sources = {s1, s2} MaxSize = 2 MaxQueries = 4 MaxFailed = 1 MaxTaken = 3
  Lexemes <- MCLexemes MaxLexemes = 4 Table <- MCTable Goto <- MCGoto TokenTable <- MCTokens
  MinRepeatTerm = 11 EofTerm = 13 MaxNext = 4 MinPrune = 50 RecoverDistance = 5 MaxRemaining = 3 ForceLimit = 10
  Fields = {"field", "counted"} Facets = {"A", "B", "init"} InitFacet = "init"
  Providers = {"static", "from", "a_sel", "b_doc", "b_of_a", "cycle", "start"}
  FacetOf <- MCFacetOf KindOf <- MCKindOf DependsOn <- MCDependsOn StaticOf <- MCStaticOf
  SlotsRead <- MCReads FirstValue <- MCFirst UpdateF <- MCUpdateF Getter <- MCGetter
  Provides <- MCProvides Enables <- MCEnables NodeOf <- MCNodes
  Base = "base" Compartments = {"one", "two"} Contents = {"looks", "again", "cycle"}
  Appended = {"start", "a_sel"} SecondEffects <- MCSecond Docs = {0, 1} Sels = {0, 1} MaxTransactions = 3
  ChunkSize = 2 Kinds <- MCKinds RangesLength = 2 MaxBuilt = 3 MaxSetSteps = 1 MaxWide = 1 MaxAdded = 1
  TextChanges <- MCTextChanges TypedTexts <- MCTyped Tall = 2 Special = 3
  FirstLineHeight = 4 TextHeight = 2 TallHeight = 6 Margin = 4 MinCoverMargin = 1 MaxCoverMargin = 2
  NearRange = 2 NearLength = 2 Screen = 4 Tops = {0, 6} MaxMeasures = 2
  CommandDocs <- MCDocs
INVARIANTS
    ViewFollows
PROPERTIES
    DocumentsAgree
    StatesCurrent
    LayoutHolds
    LanguageFits
CHECK_DEADLOCK FALSE
