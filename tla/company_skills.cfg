SPECIFICATION Spec
CONSTANTS
  c1 = c1
  c2 = c2
  i1 = i1
  i2 = i2
  q1 = q1
  q2 = q2
  m1 = m1
  d1 = d1
  d2 = d2
  f1 = f1
  f2 = f2
  p1 = p1
  k1 = k1
  k2 = k2
  s1 = s1
  l1 = l1
  dotted = dotted
  Server = Server
  Nothing = Nothing
  Question = {q1, q2}
  Reserved = {q1}
  Mandate = {m1}
  Observable = {k1}
  Department = {d1, d2}
  Function = {f1, f2}
  CoreFunction = {f1}
  CoreDepartment <- MCCoreDepartment
  Process = {p1}
  Capability = {k1, k2}
  FunctionOf <- MCFunctionOf
  CatalogSkill = {s1}
  LocalSkill = {l1}
  CatalogProvides <- MCCatalogProvides
  Suited <- MCSuited
  ProcessLimit = 1
  CapabilityLimit = 2
  Preference <- MCPreference
  JournalOwner = {Server}
  Caller = {c1}
  Id = {i1, i2}
  SkillName = {l1, dotted}
  Slug <- MCSlug
  WorkInput = {"x"}
  DiscoveryInput <- MCDiscoveryInput
  IntakeInput <- MCIntakeInput
  Scopes = {"all", "some"}
  InstallInput <- MCInstallInput
  SkillInput <- MCSkillInput
  ReflectionInput <- MCReflectionInput
  MaxCalls = 2
  MaxFaults = 0
INVARIANTS OneDefinitionPerSkill
CHECK_DEADLOCK FALSE
