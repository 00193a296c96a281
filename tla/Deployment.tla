----------------------------- MODULE Deployment -----------------------------
(***************************************************************************)
(* The processes of the service and how far each has come in main.ts:      *)
(* create the application, align and verify the schema, listen, and with   *)
(* it the modules' onModuleInit, then serve.  An error in between ends the *)
(* process, and Kubernetes starts it again.  A rollout runs two at once.   *)
(***************************************************************************)
EXTENDS Naturals

CONSTANTS
  None,   \* null or undefined
  Procs   \* processes that run the service

VARIABLES
  env,    \* the pods there are, the flags of their environment, and who watches
  phase,  \* phase[p]: how far process p is in its boot
  exit    \* exit[p]: why p last ended

deploymentVars == <<env, phase, exit>>

Environments ==
  [pods : SUBSET Procs, apply : BOOLEAN, strict : BOOLEAN, nightly : BOOLEAN,
   watched : BOOLEAN]
Phases ==
  {"down", "created", "aligned", "verified", "ensuring", "ensured", "found", "serving"}
Exits == {"none", "crash", "error", "strict", "cron"}

Serving(p) == phase[p] = "serving"

\* The boot of p goes on.
BootGoesTo(p, next) ==
  /\ phase' = [phase EXCEPT ![p] = next]
  /\ UNCHANGED <<env, exit>>

\* NestFactory.create, in a process just started.
CreateApp(p) ==
  /\ p \in env.pods
  /\ phase[p] = "down"
  /\ phase' = [phase EXCEPT ![p] = "created"]
  /\ exit' = [exit EXCEPT ![p] = "none"]
  /\ UNCHANGED env

\* process.exit(1), or the end of the pod.
ProcessEnds(p, why) ==
  /\ phase[p] # "down"
  /\ phase' = [phase EXCEPT ![p] = "down"]
  /\ exit' = [exit EXCEPT ![p] = why]
  /\ UNCHANGED env

DeploymentInit ==
  /\ phase = [p \in Procs |-> "down"]
  /\ exit = [p \in Procs |-> "none"]

DeploymentTypeOK ==
  /\ env \in Environments
  /\ phase \in [Procs -> Phases]
  /\ exit \in [Procs -> Exits]
=============================================================================
