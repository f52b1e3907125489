----------------------------- MODULE MCServices -----------------------------
(***************************************************************************)
(* One run for the components of the servers, and the engine's cognition   *)
(* loop, that share no state with each other: the request pipeline, the    *)
(* tenant registry, the namespace stores and the sessions.  A behaviour is *)
(* one of one of them, chosen in the initial state: no step of one         *)
(* component reads or writes a variable of another, so nothing is lost,    *)
(* and the state space is the sum of theirs and not the product.           *)
(***************************************************************************)
EXTENDS Cognition, Pipeline, Tenants, McpStores, Sessions

VARIABLE chosen     \* the component whose behaviour this is

\* Two requests under one key, and a third with another key or none.
MCKeyChoices == {[q1 |-> "k1", q2 |-> "k1", q3 |-> k] : k \in {"k2", "none"}}

servicesVars == <<cogVars, pipelineVars, tenantsVars, mcpVars, sessionVars, chosen>>

ServicesInit ==
    /\ chosen \in {"cognition", "pipeline", "tenants", "mcp", "sessions"}
    /\ CogInit /\ PipelineInit /\ TenantsInit /\ McpInit /\ SessionsInit
    /\ chosen # "pipeline" => keyOf = CHOOSE k \in KeyChoices : TRUE

Steps(cog, pipeline, tenants, mcp, sessions) ==
    \/ /\ chosen = "cognition" /\ cog
       /\ UNCHANGED <<pipelineVars, tenantsVars, mcpVars, sessionVars, chosen>>
    \/ /\ chosen = "pipeline" /\ pipeline
       /\ UNCHANGED <<cogVars, tenantsVars, mcpVars, sessionVars, chosen>>
    \/ /\ chosen = "tenants" /\ tenants
       /\ UNCHANGED <<cogVars, pipelineVars, mcpVars, sessionVars, chosen>>
    \/ /\ chosen = "mcp" /\ mcp
       /\ UNCHANGED <<cogVars, pipelineVars, tenantsVars, sessionVars, chosen>>
    \/ /\ chosen = "sessions" /\ sessions
       /\ UNCHANGED <<cogVars, pipelineVars, tenantsVars, mcpVars, chosen>>

ServicesNext == Steps(CogNext, PipelineNext, TenantsNext, McpNext, SessionsNext)

\* The component that runs makes progress: its own fairness.  The fair steps
\* of the others, disabled in their initial states, are asked for nothing.
ServicesProgress ==
    Steps(CogProgress, PipelineProgress, TenantsProgress, McpProgress, SessionsProgress)

ServicesSpec ==
    ServicesInit /\ [][ServicesNext]_servicesVars /\ WF_servicesVars(ServicesProgress)
=============================================================================
