SPECIFICATION MCSpec

CONSTANTS
  Admin = {adm}
  Setting = {"mode", "threshold"}
  Value <- MCValue
  Governed <- MCGoverned
  Default <- MCDefault
  Kid = {k1, k2}
  Ttl = 2
  Subject = {"chief", "neighbour", "visitor", "robot"}
  Service = {"robot"}
  Listed <- MCListed
  ServiceRole <- MCServiceRole
  DefaultRole = "viewer"
  Token <- MCToken
  Capacity = 2
  Window = 2
  PruneEvery = 3
  IdleWindows = 2
  QueryWindow = 3
  MaxQueries = 2
  MaxChanges = 2
  MaxFlights = 2
  MaxDrops = 1
  MaxDetected = 3
  PageLimit = 2

INVARIANTS
  QuietIsDurable
  CitizensConfined
  KeysFollowProvider
  AdmissionsBounded
  HandoverOmissions

PROPERTIES
  OnlyAdminsGovern
  QueueNeverGoesBack
  ChangeIsFetched

