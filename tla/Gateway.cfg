\* Two ingest requests of a tenant, capacities so small that they are reached;
\* two API requests at a time on a tenant and a rule, each there from before or
\* not; tables of up to two entries; up to three records of one prefix and two
\* ASNs; two ROAs; snapshots over three days; three collectors.
SPECIFICATION GatewaySpec
CONSTANTS
  route = route
  login = login
  Tenants = {t1}
  Requests = {r1, r2}
  Words = {route, login}
  Iban = {route}
  Mail = {login}
  Bgp = {route}
  Bodies <- MCBodies
  Limits = {1}
  DefaultLimit = 2
  Burst = 1
  BatchMaxSize = 2
  RpkiCapacity = 1
  MaxWindows = 2
  MaxRefills = 1
  TenantIds = {t1}
  RuleIds = {u1}
  Values = {v1, v2}
  AdminRequests = {r1, r2}
  MaxTime = 1
  MaxHups = 1
  Keep = Keep
  Bad = Bad
  NoRow = NoRow
  AnswersAsAsked = TRUE
  p1 = p1
  a1 = a1
  a2 = a2
  BadNet = BadNet
  BadAsn = BadAsn
  Routes <- MCRoutes
  RouteAsns = {a1, a2}
  Dumps <- MCDumps
  Prefixes = {p1}
  Asns = {a1, a2}
  Learnt <- MCLearnt
  Registry <- MCRegistry
  IrrTtl = 2
  Unusual = {p1}
  WellKnown = {a1}
  Lengths = {1, 2}
  MinSamples = 2
  FlapThreshold = 2
  MinDirectionChanges = 1
  FlapWindow = 0
  AlertCapacity = 1
  MaxRecords = 3
  MaxChecks = 2
  MaxNow = 2
  Roas = {o1, o2}
  MaxPolls = 4
  SnapPrefixes = {p1}
  SnapAsns = {a1}
  RetentionDays = 2
  MaxDay = 2
  MaxSamples = 2
  MaxSaves = 2
  MaxCrashes = 1
  Collectors = {1, 2, 3}
  Position <- MCPosition
  Times = {0, 9, 40}
  Entries <- MCEntries
SYMMETRY GatewaySymmetry
INVARIANTS TypeOK AsAskedUnlessRaced AnswersTrue CopyCurrent
           QuotaHolds AccountsAgree EntriesStored
           RpkiStatusSound  OriginsReportedOnce IrrAnswersJustified
           RoaChangesAccounted SnapshotSafe
CHECK_DEADLOCK FALSE
