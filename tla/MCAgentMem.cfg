SPECIFICATION Spec
CONSTANTS
  r1 = r1
  r2 = r2
  Runs = {r1, r2}
  ASetups <- MCASetups
  AMaxLoops = 4
  AFailLimit = 2
  SLists <- MCSLists
  SFrameMax = 5
  c1 = c1
  c2 = c2
  Callers = {c1, c2}
  RSetups <- MCRSetups
  RTmo <- MCRTmo
  RDefaultTmo = 1
  RMaxResp = 2
  RNegMax = 1
  RLevelMax = 3
  RNegCap = 2
  RTime = 2
  MTexts <- MCTexts
  MDocs <- MCDocs
  MHan = {"H", "J"}
  MStop = {"of"}
  MMax = 2
  MDfMax = 6
  MIds <- MCIds
  MFiles <- MCFiles
  MSetups <- MCSetups
  CTexts <- MCCTexts
  CModels <- MCModels
  CSecret <- MCCSecret
  CHash <- MCCHash
  CMaxEntries = 2
  CMaxBytes = 8
  CTtls = {0, 1}
  CDefaultTtl = 2
  CTime = 2
  CPuts = 3
  CGets = 2
  LScripts <- MCScripts
  LTok <- MCTok
  LInstr = {"q"}
  LMaxEntries = 12
  LMaxTool = 3
  LMaxTurns = 2
  LMinL2 = 3
  LBudget = 10
  LWarn = 8
  LCfgs <- MCLCfgs
  LCompresses = 2
  LMarks = 1
INVARIANTS
  
  
  
  RpcHolds
  
  
  LedgerHolds
CHECK_DEADLOCK FALSE
