---------------------------- MODULE MCDeployment -----------------------------
(* What makes the nodes of a deployment work together, one of which the      *)
(* initial state chooses: the certificate authority that installs and        *)
(* configures them, the ports and Raft groups that each works out from the   *)
(* configuration, and two of them that merge the same logs.                  *)
EXTENDS MCReplicaAgreement, TLC

CONSTANTS Host, MaxNodes, Tries, HelloTries, Requests, Faults   \* CaService

VARIABLES
    part,
    deployment,
    config, localId, nodesList, pool, disk, request, starts, process, steps,
    requests, faults

caVars == <<config, localId, nodesList, pool, disk, request, starts, process, steps,
            requests, faults>>
all == <<part, deployment, vars, caVars>>

ASSUME DeploymentAssumption == MaxNodes \in Nat

\* Three layouts of groups, from a low port on and close to the last one.
Deployments ==
    [nodes : {<<1, 1>>, <<4, 1>>, <<1, 2, 2>>}, offset : {1, 65500}, distributed : BOOLEAN]

P == INSTANCE PortCalculator WITH MaxPort <- 65535
O == INSTANCE OrderingSetup
CA == INSTANCE CaService

MCInit ==
    /\ part \in {"replicas", "ports", "ca"}
    /\ Init /\ CA!Init
    /\ part # "replicas" => log = CHOOSE l \in Logs : TRUE
    /\ part # "ca" => disk = [h \in Host |-> CA!Blank]
    /\ IF part = "ports" THEN P!Init
       ELSE deployment = CHOOSE d \in Deployments : TRUE

MCNext ==
    /\ UNCHANGED <<part, deployment>>
    /\ \/ part = "replicas" /\ Next /\ UNCHANGED caVars
       \/ part = "ca" /\ CA!Next /\ UNCHANGED vars

MCSpec == MCInit /\ [][MCNext]_all

Hosts == Permutations(Host)

-----------------------------------------------------------------------------
\* SetupSound: PortsDistinct, of the port tables, and SetupAgrees, of the Raft
\* groups; the nodes compute both alone.
SetupSound == part = "ports" => P!PortsDistinct /\ O!SetupAgrees

\* DeployedTruly: of the certificate authority.
DeployedTruly == CA!DeployedTruly
=============================================================================
