SPECIFICATION Spec
CONSTANTS
  i1 = i1
  i2 = i2
  i3 = i3
  Ids <- Artifacts
  Types = {"CDDContract", "PRD"}
  Lineages <- Chains
  Depth = 3
  Writers = {w1}
  MaxAudit = 4
  MaxFailures = 1
  MaxSpans = 4
  MaxFlows = 3
  GateTools = {t1, t2}
  Confirmed = {t2}
  GateAgents = {a1, a2}
  ToolLimit = 3
  AgentLimit = 4
  Threshold = 2
  Requests = {r1, r2}
  MaxReplies = 2
  Sessions = {s1, s2}
  MaxRuns = 2
  MaxWrites = 2
  Tools = {t1, t2}
  Providers = {p1}
  Bootstraps = {b1, b2}
  MaxEdits = 1
  TemplateCalls = {c1, c2, c3}
  GithubCalls = {g1, g2}
  Specs <- FilesLists
  Commands = {auth1, auth2}
  AuthServices <- SomeServices
  Adc = {"gcp"}
  Tested = {"gcp", "gke"}
  Required = {"groq", "gcp"}
  Environment = {"linear"}
  Selections <- Selected
  ToolCalls <- SomeCalls
  Tokens = {"aws_ssm"}
  MaxCalls = 2
  Rels <- FilePaths
  Texts = {"text"}
  Kept <- NeverTouched
  Siblings = {"swarm-x"}
  Scaffolds <- Scaffolded
  Templates <- TemplateFiles
  MaxText = 2
  Nothing = Nothing
INVARIANTS
  DryRunChangesNothing
CHECK_DEADLOCK FALSE
