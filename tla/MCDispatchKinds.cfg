CONSTANTS
  c1 = c1   c2 = c2   p1 = p1   p2 = p2   d1 = d1   d2 = d2
  k1 = k1   k2 = k2   r1 = r1   r2 = r2
  Callers <- OneCaller
  Requests <- KindRequests
  Keys = {k1, k2}
  Domains = {d1, d2}
  Providers = {p1, p2}
  Epoch <- Epochs
  Health <- Healths
  Runtimes = {r1}
  Never = Never
  NoGrant = NoGrant
  Nothing = Nothing
  MaxCalls = 2
  MaxNow = 1
  MaxTick = 0
SPECIFICATION Spec
INVARIANT TypeOK
PROPERTY OnlyGrantedChanges
