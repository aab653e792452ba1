SPECIFICATION PartsSpec
CONSTANTS
  c1 = c1
  c2 = c2
  u1 = u1
  h1 = h1
  h2 = h2
  d1 = d1
  d2 = d2
  Cases = {c1, c2}
  Attorneys = {u1}
  Audience = "ATTORNEY"
  Metered <- MCMetered
  PackRungs = {"SHORT"}
  Grants = {0, 1}
  MonthCap = 1
  PackRecords = 1
  Handlers = {h1, h2}
  MaxSessions = 1
  MaxRequests = 1
  MaxRare = 1
  Devices = {d1, d2}
  Calls = {h1, h2}
  Primary = p
  Spare = {x}
  Foreign = {f}
  NoAddress = none
  NoDevice = nodev
  MaxSignInTries = 1
  MaxTime = 4
  MaxCalls = 3
  MaxOutages = 1
  People = {p1, p2}
  Founder = p1
  Mail = {m1, m2}
  Invitations = {d1, d2}
  Staff = {w1, w2, w3}
  FirstAdmin = w1
  Numbers = {n1, n2}
  Routes = {h1, h2}
  NoOne = noone
  MaxRoutes = 5
  Admins = {h1, h2}
  Requests = {d1, d2}
  Owned = {k1, k2}
  Reviewed = k1
  NoRequest = norequest
  Part = 1
  Price = 2
  MaxCuts = 1
  Consents = {g1, g2}
  Links = {d1, d2}
  Visits = {h1, h2}
  NoConsent = noconsent
  Versions = 2
  MaxVisits = 5
SYMMETRY Symmetric
CHECK_DEADLOCK FALSE
INVARIANTS OverdrawnOnlyByRacers ParkedOnlyByFaultOrRerun
INVARIANTS AccountIsItsOwners KeysAreEarned
INVARIANTS RequestsAreHonoured SharedAsShown
PROPERTY CoverIsKept
