\* As documented, a chat calls only what was tested: a policy changed between
\* the reading of the gate and that of the call breaks it.
SPECIFICATION PlatformSpec
CONSTANTS
  Active = {"provider"}
  None = None
  \* i1, i2, i3 and p1, p2 are interchangeable wherever a component has them
  Pair = {p1, p2}
  \* HardwareApproval
  Candidate = {"usb"}
  Approver = {i1, i2, i3}
  RegistrationMax = 2
  \* OffhostReceipts, and the clocks of ProviderGate and AgentHealth
  ReadinessProbe = {p1, p2}
  Nonce = {"n1", "n2"}
  OffhostReceipt = {"r1"}
  NoEntry = None
  Life = 1
  ClockMax = 1
  StampMax = 2
  CacheMax = 1
  \* AccessControl
  Role = {"operator", "custom"}
  Scope = {"read", "write"}
  DefaultScopes <- MCDefaultScopes
  Request = {"q1"}
  Administrator = {"ann"}
  AssignChoice <- MCAssignChoice
  RoleChoice <- MCRoleChoice
  \* ProviderGate
  Provider = {"cloud"}
  Cloud = {"cloud"}
  Model = {"m1", "m2"}
  Chat = {"c1"}
  Test = {"t1"}
  PolicyChoice <- MCPolicyChoice
  Ttl = 0
  \* MqttAdapter
  Device = {"sensor"}
  MessageMax = 2
  \* NetworkScan
  Network <- MCNetwork
  Port = {80, 443}
  MaxHosts = 3
  Concurrency = 2
  \* AuthLimiter
  Worker = {p1, p2}
  PasswordKey = {"login"}
  TokenKey = {"t1", "t2"}
  PasswordLimit = 2
  TokenLimit = 1
  PasswordWindow = 3
  TokenWindow = 1
  KeyMax = 2
  LockWait = 1
  \* BodyLimit
  MaxBytes = 3
  ChunkMax = 2
  ChunkCount = 3
  \* AgentHealth
  Endpoint = {"e1", "e2"}
  Secondary = "e3"
  HealthModel = {"m1"}
  HealthAgent = {"a1"}
  HealthCheck = {p1, p2}
  ChangeMax = 2
  \* PromptVersions
  Field = {"system"}
  Text = {p1, p2}
  Editor = {i1, i2, i3}
  VersionMax = 3
  \* ReleaseMission
  Operator = {p1, p2}
  Lane = {"api", "rag"}
  HealthChoice <- MCHealthChoice
  Version = {"v1", "v2"}
  FailScore = 99
  WorkMax = 2
  \* GoLive
  Control = {"backup-retention"}
  Decision = {"customer-feedback"}
  ControlState = {"ready"}
  DecisionState = {"approved"}
  Deployment <- MCDeployment
  SignalChoice <- MCSignalChoice
  Verifier = {"v"}
  Cadence = 0
  Tolerance = 1
  ReadWindow = 1
  AuditMax = 2
  \* AssistantMemory
  Interaction = {i1, i2, i3}
  ChatSession = {1, 2}
  MemoryChoice <- MCMemoryChoice
  ProposalMax = 1
  HoursMax = 2
  \* Inventory
  Asset = {"a1"}
  Profile = {"f1", "f2"}
  NamedProfile = {"f1"}
  Firmware = {0, 1}
  Rows <- MCRows
  Patches <- MCPatches
  Offers <- MCOffers
  Runs <- MCRuns
  MaxWrites = 1
  \* AgenticControl
  Agents <- MCAgents
  Coordinator = "operations"
  Objective = {"note"}
  CycleMax = 2
  MissionMax = 1
INVARIANTS
  CallsWereChecked
CHECK_DEADLOCK FALSE
