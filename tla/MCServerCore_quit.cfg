CONSTANTS
  s1 = s1
  s2 = s2
  c1 = c1
  c2 = c2
  NoCtx = NoCtx
  ServerCtxs <- MCServers
  ClientCtxs <- MCClients
  Tasks <- MCSeqs
  Timeouts <- MCTimeouts
  MaxTime = 2
  IdSpace = 3
  CtxTimerIdSpace = 3
  UseCoroutine = TRUE
  Styles <- Plain
  RetCodes <- Answers
SPECIFICATION CoreFairSpec
INVARIANTS
  ExitIsClean
  RequestsStayReachable
PROPERTIES
  ReadyIsStable
  QuitDrains
  EveryRequestFinishes
CHECK_DEADLOCK FALSE
