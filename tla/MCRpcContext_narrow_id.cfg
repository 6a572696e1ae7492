CONSTANTS
  s1 = s1
  s2 = s2
  c1 = c1
  c2 = c2
  c3 = c3
  NoCtx = NoCtx
  ServerCtxs <- MCServers
  ClientCtxs <- MCClients
  Tasks <- MCSeqs
  Timeouts <- OneTick
  MaxTime = 1
  IdSpace = 6
  CtxTimerIdSpace = 2
  UseCoroutine = FALSE
  Styles <- Plain
  RetCodes <- OkOnly
SPECIFICATION Spec
INVARIANTS
  TimeoutArmed
