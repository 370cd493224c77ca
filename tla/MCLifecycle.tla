---------------------------- MODULE MCLifecycle ----------------------------
(***************************************************************************)
(* The lifecycle file that is shipped, configs/lifecycles/                 *)
(* software_delivery.yaml, and two small ones whose phases reroute on      *)
(* failure, with and without a phase named "iteration".                    *)
(***************************************************************************)
EXTENDS Lifecycle

\* [phase |-> <<inputs, outputs, roles, gate, deployOnly>>] of the file.
Table ==
  [discovery |-> <<{}, {"ProductBrief", "MarketResearch"},
                   <<"market_research", "memory_agent">>, FALSE, FALSE>>,
   planning |-> <<{"ProductBrief", "MarketResearch"}, {"PRD"},
                  <<"product_manager", "critic", "memory_agent">>, TRUE, FALSE>>,
   architecture |-> <<{"PRD"}, {"ArchitectureDoc", "APISpec", "DBSchema"},
                      <<"architecture", "security_engineer", "memory_agent">>,
                      TRUE, FALSE>>,
   repo_discovery |-> <<{"PRD", "ArchitectureDoc"}, {"RepoDiscovery"},
                        <<"repo_scout">>, FALSE, FALSE>>,
   contracting |-> <<{"ArchitectureDoc", "APISpec", "DBSchema", "RepoDiscovery"},
                     {"CDDContract"}, <<"chief_orchestrator">>, TRUE, FALSE>>,
   build |-> <<{"PRD", "ArchitectureDoc", "APISpec", "DBSchema", "RepoDiscovery",
                "CDDContract"}, {"CodeChangeSet"},
               <<"frontend_engineer", "backend_engineer", "database_engineer",
                 "integration_engineer", "memory_agent">>, FALSE, FALSE>>,
   live_test |-> <<{"CodeChangeSet"}, {"LiveTestReport"}, <<"live_test">>,
                   FALSE, FALSE>>,
   quality |-> <<{"CodeChangeSet", "PRD"},
                 {"TestReport", "SecurityReport", "CodeReviewReport"},
                 <<"qa_engineer", "security_engineer", "code_reviewer",
                   "memory_agent">>, TRUE, FALSE>>,
   deployment |-> <<{"CodeChangeSet", "ArchitectureDoc"},
                    {"DeploymentPlan", "DeploymentRecord"},
                    <<"devops_engineer", "deployment_engineer", "memory_agent">>,
                    TRUE, TRUE>>,
   post_launch |-> <<{"DeploymentRecord", "MonitoringConfig"}, {"FeedbackDigest"},
                     <<"sre_engineer", "observability", "user_feedback",
                       "memory_agent">>, FALSE, TRUE>>,
   iteration |-> <<{"FeedbackDigest"}, {"ReleaseDecision"},
                   <<"iteration", "chief_orchestrator", "memory_agent">>,
                   TRUE, FALSE>>]

SoftwareDelivery ==
  LET ids == DOMAIN Table
  IN  [order |-> <<"discovery", "planning", "architecture", "repo_discovery",
                   "contracting", "build", "live_test", "quality", "deployment",
                   "post_launch", "iteration">>,
       inputs |-> [p \in ids |-> Table[p][1]],
       outputs |-> [p \in ids |-> Table[p][2]],
       roles |-> [p \in ids |-> Table[p][3]],
       gate |-> [p \in ids |-> Table[p][4]],
       deployOnly |-> [p \in ids |-> Table[p][5]],
       reroute |-> [p \in ids |-> FALSE]]

\* Three or four of those phases, all but "iteration" rerouting on failure.
Rerouting(order) ==
  LET ids == {order[i] : i \in 1..Len(order)}
  IN  [order |-> order,
       inputs |-> [p \in ids |-> IF p = "build" THEN {} ELSE {"CodeChangeSet"}],
       outputs |-> [p \in ids |-> IF p = "build" THEN {"CodeChangeSet"} ELSE {}],
       roles |-> [p \in ids |-> <<"chief_orchestrator", "human_liaison">>],
       gate |-> [p \in ids |-> p # "live_test"],
       deployOnly |-> [p \in ids |-> FALSE],
       reroute |-> [p \in ids |-> p # "iteration"]]

MCLifecycles ==
  {SoftwareDelivery,
   Rerouting(<<"build", "live_test", "quality", "iteration">>),
   Rerouting(<<"build", "live_test", "quality">>)}

\* None of them reroutes backwards.
ASSUME NoneGoesBack == ReroutesAreForward

ShippedOnly == {SoftwareDelivery}

\* The roles of examples/software_delivery/topology.yaml.
ShippedTopology ==
  {"chief_orchestrator", "memory_agent", "market_research", "product_manager",
   "critic", "architecture", "security_engineer", "repo_scout",
   "frontend_engineer", "backend_engineer", "database_engineer",
   "integration_engineer", "qa_engineer", "code_reviewer", "devops_engineer",
   "deployment_engineer", "sre_engineer", "gke_monitor", "observability",
   "user_feedback", "iteration", "debug_agent"}

\* ... and with the role it lacks.
FullTopology == ShippedTopology \cup {"live_test"}

\* An empty registry, one with two artifacts of an earlier run, and one that
\* holds everything, but nothing on the deployment.
AllButDeployment ==
  UNION {Table[p][1] \cup Table[p][2] : p \in DOMAIN Table}
    \ {"DeploymentPlan", "DeploymentRecord"}
MCLeftOvers == {{}, {"CodeChangeSet", "MonitoringConfig"}}
MCUnasked == {"MonitoringConfig"}
NoLeftOvers == {{}}
FullLeftOvers == {AllButDeployment}
=============================================================================
