---------------------------- MODULE RaftLeadership ----------------------------
(* One Raft group of the multi-Raft cluster: every node starts an instance   *)
(* of it (MultiRaftFSM::start), braft elects whom it likes, and              *)
(* AgreementRaftFSM passes the leadership on to the node the group is meant  *)
(* to be led by.  A thread of every node waits in ready() until the leader   *)
(* is known.  braft (elections, transfer of leadership, the order of its     *)
(* callbacks) is external.                                                   *)
EXTENDS Integers, FiniteSets

CONSTANTS
    Node,
    Leader,       \* the expected leader, peers[leaderPos]
    MaxTerm,      \* bound: elections
    Disturbances  \* bound: elections held although there is a leader, and nodes
                  \* that stop

Nobody == -1   \* nodes are numbers

VARIABLES
    instances,  \* MultiRaftFSM::_instances: the nodes whose instance runs
    stopped,    \* the nodes that have ended
    leading,    \* braft's leader
    term,
    disturbed,  \* elections held in spite of a leader
    following,  \* per node, whom it has been told it follows
    elected,    \* nodes whose on_leader_start is to be called
    handing,    \* nodes inside the transfer loop of on_leader_start
    running,    \* per node, AgreementRaftFSM::_running
    hasLed,     \* history: nodes that on_leader_start has been called on
    onError,    \* nodes that have reported the group's leader as failed
    ready       \* per node, the call of ready(): "waiting", "true", "false"

vars == <<instances, stopped, leading, term, disturbed, following, elected, handing,
          running, hasLed, onError, ready>>

Init ==
    /\ instances = {} /\ stopped = {} /\ leading = Nobody /\ term = 0 /\ disturbed = 0
    /\ following = [n \in Node |-> Nobody]
    /\ elected = {} /\ handing = {} /\ hasLed = {} /\ onError = {}
    /\ running = [n \in Node |-> "INIT"]
    /\ ready = [n \in Node |-> "waiting"]

\* MultiRaftFSM::start, refused for a peer that has been started
start(n) == n \notin instances \cup stopped /\ instances' = instances \cup {n}

startCluster(n) ==
    /\ start(n)
    /\ UNCHANGED <<stopped, leading, term, disturbed, following, elected, handing, running,
                   hasLed, onError, ready>>

\* MultiRaftFSM::stop, or the end of the process: n calls nothing back any more,
\* and is missed when it led
stop(n) ==
    /\ n \in instances /\ disturbed + Cardinality(stopped) < Disturbances
    /\ instances' = instances \ {n} /\ stopped' = stopped \cup {n}
    /\ leading' = IF leading = n THEN Nobody ELSE leading
    /\ elected' = elected \ {n} /\ handing' = handing \ {n}
    /\ UNCHANGED <<term, disturbed, following, running, hasLed, onError, ready>>

-----------------------------------------------------------------------------
(* braft                                                                     *)

Majority == 2 * Cardinality(instances) > Cardinality(Node)

\* n wins an election: there was no leader, or its heartbeats were late.
Elect(n) ==
    /\ n \in instances /\ Majority /\ leading # n /\ term < MaxTerm
    /\ leading # Nobody => disturbed + Cardinality(stopped) < Disturbances
    /\ disturbed' = disturbed + (IF leading = Nobody THEN 0 ELSE 1)
    /\ leading' = n /\ term' = term + 1
    /\ elected' = {n} /\ handing' = {}
    /\ UNCHANGED <<instances, stopped, following, running, hasLed, onError, ready>>

\* A transfer that was accepted makes the target the leader, or times out and
\* leaves n the leader, on_leader_start being called on it again.
Transferred(n) ==
    /\ n \in handing /\ leading = n /\ Leader \in instances
    /\ \/ leading' = Leader /\ term' = term + 1 /\ elected' = {Leader}
       \/ UNCHANGED <<leading, term>> /\ elected' = {n}
    /\ handing' = handing \ {n}
    /\ UNCHANGED <<instances, stopped, disturbed, following, running, hasLed, onError, ready>>

-----------------------------------------------------------------------------
(* The callbacks of AgreementRaftFSM.                                        *)

\* Mutant: an unexpected leader declares the group ready.
on_leader_start_unchecked(n) ==
    /\ n \in elected
    /\ elected' = elected \ {n} /\ hasLed' = hasLed \cup {n}
    /\ running' = [running EXCEPT ![n] = "READY"]
    /\ UNCHANGED <<instances, stopped, leading, term, disturbed, following, handing, onError, ready>>

\* braft calls on_stop_following for the old leader before
on_leader_start(n) ==
    /\ n \in elected /\ following[n] = Nobody
    /\ elected' = elected \ {n} /\ hasLed' = hasLed \cup {n}
    /\ \/ /\ n # Leader /\ running[n] = "ERROR"
          /\ UNCHANGED <<handing, running>>
       \/ /\ n # Leader /\ running[n] # "ERROR"
          /\ handing' = handing \cup {n}
          /\ UNCHANGED running
       \/ /\ n = Leader
          /\ running' = [running EXCEPT ![n] = "READY"]
          /\ UNCHANGED handing
    /\ UNCHANGED <<instances, stopped, leading, term, disturbed, following, onError, ready>>

on_start_following(n) ==
    /\ n \in instances /\ following[n] = Nobody
    /\ leading \notin {n, Nobody}
    /\ following' = [following EXCEPT ![n] = leading]
    /\ running' = IF leading = Leader THEN [running EXCEPT ![n] = "READY"] ELSE running
    /\ UNCHANGED <<instances, stopped, leading, term, disturbed, elected, handing, hasLed,
                   onError, ready>>

\* ctx holds the leader the node stops following
on_stop_following(n) ==
    /\ n \in instances /\ following[n] \notin {Nobody, leading}
    /\ following' = [following EXCEPT ![n] = Nobody]
    /\ IF following[n] = Leader
       THEN /\ running' = [running EXCEPT ![n] = "ERROR"]
            /\ onError' = onError \cup {n}
       ELSE UNCHANGED <<running, onError>>
    /\ UNCHANGED <<instances, stopped, leading, term, disturbed, elected, handing, hasLed, ready>>

\* The loop of ready() ends; an error it has met is overwritten.
Ready(n) ==
    /\ n \in instances /\ ready[n] = "waiting" /\ running[n] # "INIT"
    /\ running' = [running EXCEPT ![n] = "READY"]
    /\ ready' = [ready EXCEPT ![n] = IF n = Leader THEN "true" ELSE "false"]
    /\ UNCHANGED <<instances, stopped, leading, term, disturbed, following, elected, handing,
                   hasLed, onError>>

-----------------------------------------------------------------------------
Callback(n) ==
    on_leader_start(n) \/ on_start_following(n) \/ on_stop_following(n) \/ Ready(n)
Local == \E n \in Node : startCluster(n) \/ Callback(n)
Election == \E n \in Node : Elect(n)
Transfer == \E n \in Node : Transferred(n)
Next == Local \/ Election \/ Transfer \/ \E n \in Node : stop(n)

Spec == Init /\ [][Next]_vars

\* Every node starts its instance and has its callbacks called, elections end
\* with a leader, and a transfer that is tried again and again succeeds.
Fairness ==
    /\ WF_vars(Local)
    /\ WF_vars(leading = Nobody /\ Election)
    /\ SF_vars(Transfer /\ leading' = Leader)

-----------------------------------------------------------------------------
\* ReadyTruthful: ready() returns true only on the expected leader, and only
\* after that node has really been elected, whichever nodes led before; the
\* leader starts to propose blocks on the strength of it.
ReadyTruthful ==
    \A n \in Node : ready[n] = "true" => n = Leader /\ n \in hasLed

\* LeaderSettles: whichever node wins the first election, without further
\* disturbance the expected leader leads in the end and all calls of ready()
\* return.  One late heartbeat later on voids it: the followers then hold the
\* leader for failed and keep the leadership.
LeaderSettles ==
    <>[](disturbed > 0 \/ stopped # {} \/
         (leading = Leader /\ \A n \in Node : ready[n] # "waiting"))

\* FailureReported: when the leader ends, every node that followed it reports the
\* group as down, whatever election is under way; the order manager waits for the
\* group's votes until then.
FailureReported ==
    \A n \in Node \ {Leader} :
        (Leader \in stopped /\ following[n] = Leader) ~> (n \in onError \cup stopped)
=============================================================================
