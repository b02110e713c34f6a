---------------------------- MODULE OrderingSetup ----------------------------
(***************************************************************************)
(* How the nodes set up the ordering between the groups: every node works  *)
(* out by itself, from the configuration, which nodes take part in the     *)
(* Raft groups, which of these it starts, and whom it hears the decisions  *)
(* from (ModuleFactory::newGlobalBlockOrdering and NewBlockOrder).         *)
(***************************************************************************)
EXTENDS Integers, Sequences

VARIABLE deployment    \* [nodes |-> nodes per group, ...], see PortCalculator

Groups == 0 .. Len(deployment.nodes) - 1
Nodes(g) == {g} \X (0 .. deployment.nodes[g + 1] - 1)
AllNodes == UNION {Nodes(g) : g \in Groups}

Ordering == {"massbft", "geobft", "steward"}

\* Mutant: f nodes of a group take part.
FParticipants == UNION {{m \in Nodes(g) : m[2] < (deployment.nodes[g + 1] - 1) \div 3}
                            : g \in Groups}

\* f + 1 nodes of every group; the first one leads
Participants == UNION {{m \in Nodes(g) : m[2] <= (deployment.nodes[g + 1] - 1) \div 3}
                            : g \in Groups}
Leader(g) == <<g, 0>>

\* A Raft node, named by the host and the group whose log it keeps, and its
\* peers and leader as the node that starts it sees them.
startCluster(me, g) ==
    [id |-> <<me, g>>, peers |-> {<<m, g>> : m \in Participants}, leader |-> <<Leader(g), g>>]

\* whom a node hears the decisions from: itself, and all nodes of its group
NewLocalDistributor(me) == Nodes(me[1])

NewBlockOrder(me) ==
    [isRaftLeader |-> \E g \in Groups : me = Leader(g),
     raft |-> IF me \in Participants THEN {startCluster(me, g) : g \in Groups} ELSE {},
     hears |-> NewLocalDistributor(me)]

\* one Raft group is enough
NewStewardBlockOrder(me) ==
    [NewBlockOrder(me) EXCEPT !.raft = {r \in @ : r.id[2] = 0}]

\* no agreement between the groups: the decisions are the node's own
NewGeoBFTBlockOrder(me) == [isRaftLeader |-> FALSE, raft |-> {}, hears |-> {}]

Setup(ordering, me) ==
    CASE ordering = "massbft" -> NewBlockOrder(me)
      [] ordering = "steward" -> NewStewardBlockOrder(me)
      [] ordering = "geobft" -> NewGeoBFTBlockOrder(me)

\* the groups that have clients, and so blocks
Producers(ordering) == IF ordering = "steward" THEN {0} ELSE Groups

-----------------------------------------------------------------------------
\* SetupAgrees: the nodes agree on the Raft groups although each works them out
\* alone: the peers of a Raft node have all been started and see the same peers
\* and leader; the leader of a group with blocks finds its own Raft node when it
\* proposes, and the Raft node is that log's leader; and every node hears all
\* logs.
SetupAgrees ==
    \A o \in Ordering :
        LET S == [m \in AllNodes |-> Setup(o, m)]
            started == UNION {S[m].raft : m \in AllNodes}
        IN  /\ \A r \in started :
                 /\ r.peers = {k.id : k \in {q \in started : q.id[2] = r.id[2]}}
                 /\ \A q \in started : q.id[2] = r.id[2] => q.leader = r.leader
            /\ o # "geobft" => \A g \in Producers(o) :
                 /\ S[Leader(g)].isRaftLeader
                 /\ \E r \in S[Leader(g)].raft : r.id = <<Leader(g), g>> /\ r.leader = r.id
                 /\ \A m \in AllNodes : \E k \in S[m].hears : \E r \in S[k].raft : r.id[2] = g
=============================================================================
