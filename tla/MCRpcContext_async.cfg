CONSTANTS
  s1 = s1
  s2 = s2
  c1 = c1
  c2 = c2
  c3 = c3
  NoCtx = NoCtx
  ServerCtxs <- MCServers
  ClientCtxs <- MCClients
  Tasks <- MCSeqs
  Timeouts <- MCTimeouts
  MaxTime = 2
  IdSpace = 4
  CtxTimerIdSpace = 4
  UseCoroutine = FALSE
  Styles <- Plain
  RetCodes <- Answers
SPECIFICATION Spec
SYMMETRY Sym
INVARIANTS
  ParkedCallsAreTimed
  RequestsStayReachable
  CompletedCallsAreFreed
PROPERTIES
  ImplementsLedger
  CompletesAtMostOnce
