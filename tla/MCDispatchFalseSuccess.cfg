CONSTANTS
  c1 = c1   c2 = c2   p1 = p1   p2 = p2   d1 = d1   d2 = d2
  k1 = k1   k2 = k2   r1 = r1   r2 = r2
  Callers <- MCCallers
  Requests <- RaceRequests
  Keys = {k1, k2}
  Domains <- OneDomain
  Providers <- OneProvider
  Epoch <- Epoch1
  Health <- Healthy1
  Runtimes = {r1}
  Never = Never
  NoGrant = NoGrant
  Nothing = Nothing
  MaxCalls = 3
  MaxNow = 1
  MaxTick = 1
SPECIFICATION Spec
INVARIANT NoFalseSuccess
