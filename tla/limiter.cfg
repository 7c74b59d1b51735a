\* Three clients share a table of two buckets.
SPECIFICATION Spec
CONSTANTS
  proxy = proxy
  a = a
  Addresses = {proxy, a}
  Trusted = {proxy}
  Unparsable = Unparsable
  Cost = 2
  Burst = 3
  IdleAfter = 3
  MaxClients = 2
  MaxTime = 6
INVARIANTS
  TypeOK
  WithinBudget
  RefusedForItsOwn
