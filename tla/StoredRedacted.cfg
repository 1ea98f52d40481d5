\* As in Gateway.cfg: a message in lower case and the same one in capitals.
SPECIFICATION Spec
CONSTANTS
  route = route
  login = login
  Tenants = {t1}
  Requests = {r1, r2}
  Words = {route, login}
  Iban = {route}
  Mail = {login}
  Bgp = {route}
  Bodies <- MCBodies
  Limits = {1}
  DefaultLimit = 2
  Burst = 2
  BatchMaxSize = 2
  RpkiCapacity = 1
  MaxWindows = 2
  MaxRefills = 1
SYMMETRY Symmetry
INVARIANT StoredRedacted
CHECK_DEADLOCK FALSE
