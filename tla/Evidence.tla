----------------------------- MODULE Evidence -----------------------------
(***************************************************************************)
(* The read-only queries of agent/tools.py over the fixture rows of the    *)
(* scenario an investigation is bound to (module GoldenDataset).  Every    *)
(* window is anchored to the incident's start, never to the present.       *)
(***************************************************************************)
EXTENDS Integers, FiniteSets

\* "since_minutes" where the model leaves it out, and at most.
DefaultSince(tool) == IF tool = "get_recent_deployments" THEN 1440 ELSE 60
MaxSince == 10080

DefaultLimit == 20

\* Mutant: the window ends when the incident starts.
MutantInWindow(at, since) == -since <= at /\ at <= 0

\* _window, both ends included.
InWindow(at, since) == -since <= at /\ at <= 15

get_metrics(ctx, metric_name, since) ==
    {m \in ctx.metrics : m.metric = metric_name /\ \E at \in m.at : InWindow(at, since)}

\* The oldest ones first, up to the limit.
get_logs(ctx, since, limit) ==
    LET rows == {l \in ctx.logs : InWindow(l.at, since)}
    IN  {l \in rows : Cardinality({m \in rows : m.at < l.at}) < limit}

get_recent_deployments(ctx, since) == {d \in ctx.deployments : InWindow(d.at, since)}

get_dependency_status(ctx) == ctx.dependencies

\* Which tool a category of evidence comes from (eval/deterministic.py).
EvidenceCategoryTool ==
    [deployment |-> "get_recent_deployments", metrics |-> "get_metrics", logs |-> "get_logs",
     dependency_status |-> "get_dependency_status"]

Tools == {EvidenceCategoryTool[c] : c \in DOMAIN EvidenceCategoryTool} \cup {"get_runbook"}

-----------------------------------------------------------------------------

\* Whether a call that looks back "since" minutes shows what the ground truth cites.
Shows(ctx, cite, since) ==
    \/ cite.category = "metrics" /\ get_metrics(ctx, cite.what, since) # {}
    \/ cite.category = "logs"
       /\ \E l \in get_logs(ctx, since, DefaultLimit) : cite.what \in l.cites
    \/ cite.category = "deployment" /\ cite.what = "none_recent"
       /\ get_recent_deployments(ctx, since) = {}
    \/ cite.category = "deployment"
       /\ \E d \in get_recent_deployments(ctx, since) : d.version = cite.what
    \/ cite.category = "dependency_status" /\ cite.what \in get_dependency_status(ctx)
=============================================================================
