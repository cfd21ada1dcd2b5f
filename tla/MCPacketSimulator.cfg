SPECIFICATION FairSpec
CONSTANTS
  f1 = f1
  f2 = f2
  Schemas <- MCSchemas
  Devices <- MCDevices
  Fits <- MCFits
  Drafts <- MCDrafts
  Texts <- MCTexts
  DefaultDrafts <- MCDefaultDrafts
  TimeDrafts <- MCTimeDrafts
  Gaps <- MCGaps
  FirstGap = " "
  Generate <- MCGenerate
  Parse <- MCParse
  MaxHistory = 2
  MaxRuns = 3
  Null = Null
CHECK_DEADLOCK FALSE
INVARIANTS OneReceiveAtATime HistoryIsCoherent ReplayIsFaithful
PROPERTY StreamDelivers
