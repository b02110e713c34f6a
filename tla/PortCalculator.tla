---------------------------- MODULE PortCalculator ----------------------------
(* ZMQPortUtil and PortCalculator (zmq_port_util.h, zmq_port_util.cpp): from *)
(* the number of nodes of every group, each node works out by itself the     *)
(* ports that it and the others listen on.  A deployment is distributed, a   *)
(* host for every node, or local, all nodes on one host.                     *)
EXTENDS Integers, Sequences

CONSTANTS
    Deployments,  \* [nodes |-> nodes per group, offset, distributed]
    MaxPort       \* 65535

VARIABLE deployment

Groups(d) == 0 .. Len(d.nodes) - 1
Nodes(d, g) == 0 .. d.nodes[g + 1] - 1
AllNodes(d) == UNION {{g} \X Nodes(d, g) : g \in Groups(d)}

\* The nodes of the groups before group g.
Before(d, g) ==
    LET Sum[k \in 0 .. Len(d.nodes)] == IF k = 0 THEN 0 ELSE Sum[k - 1] + d.nodes[k]
    IN  Sum[g]

\* The services that listen on a port per node, and those with a port per
\* remote group, in the order in which they are given ports.
LocalService == 1 .. 7
RemoteService == 8 .. 9

\* A calculator is its _portOffset and its _results.  A result that is out of
\* range is not recorded, and the service keeps the index -1: NoPorts.
NoPorts == <<>>
isPortValid(offset) == offset <= MaxPort /\ offset > 0

Result(offset, ports, upTo) ==
    [offset |-> offset, ports |-> IF isPortValid(upTo) THEN ports ELSE NoPorts]

\* The offset is checked when the ports of the own group are known, and the
\* groups after it are skipped only if it is valid.
newHeterogeneousLocalServicePorts(d, g, offset) ==
    LET own == offset + Before(d, g)
        end == own + d.nodes[g + 1]
    IN  Result(IF isPortValid(end) THEN offset + Before(d, Len(d.nodes)) ELSE end,
               [n \in Nodes(d, g) |-> own + n], end)

newHeterogeneousRemoteServicePorts(d, g, n, offset) ==
    LET end == offset + Len(d.nodes) * Before(d, Len(d.nodes))
    IN  Result(end,
               [r \in Groups(d) |-> offset + Len(d.nodes) * (Before(d, g) + n) + r], end)

newHomogeneousLocalServicePorts(d, g, offset) ==
    Result(offset + 1, [n \in Nodes(d, g) |-> offset], offset + 1)

newHomogeneousRemoteServicePorts(d, offset) ==
    LET end == offset + Len(d.nodes)
    IN  Result(end, [r \in Groups(d) |-> offset + r], end)

initWithDistributedDeployment(d, g, n, s, offset) ==
    IF s \in LocalService THEN newHomogeneousLocalServicePorts(d, g, offset)
    ELSE newHomogeneousRemoteServicePorts(d, offset)

initWithLocalDeployment(d, g, n, s, offset) ==
    IF s \in LocalService THEN newHeterogeneousLocalServicePorts(d, g, offset)
    ELSE newHeterogeneousRemoteServicePorts(d, g, n, offset)

\* The tables of node n of group g: per service, its ports.
NewZMQPortUtil(d, g, n) ==
    LET After[s \in 0 .. 9] ==
            CASE s = 0 -> [offset |-> d.offset, ports |-> NoPorts]
              [] s > 0 /\ d.distributed ->
                    initWithDistributedDeployment(d, g, n, s, After[s - 1].offset)
              [] OTHER -> initWithLocalDeployment(d, g, n, s, After[s - 1].offset)
    IN  [s \in LocalService \cup RemoteService |-> After[s].ports]

InitPortsConfig(d) == [m \in AllNodes(d) |-> NewZMQPortUtil(d, m[1], m[2])]

Init == deployment \in Deployments

-----------------------------------------------------------------------------
\* The sockets a node binds: <<service, remote group or 0>>
Sockets(d) == (LocalService \X {0}) \cup (RemoteService \X Groups(d))

PortOf(tables, m, socket) ==
    IF socket[1] \in LocalService THEN tables[m][socket[1]][m[2]]
    ELSE tables[m][socket[1]][socket[2]]

\* PortsDistinct: no two sockets that are bound on one host have the same
\* port, and all nodes of a group have the same idea of each other's ports,
\* although every node computes them alone; unless some node has run out of
\* ports.
PortsDistinct ==
    LET d == deployment
        tables == InitPortsConfig(d)
        bound == AllNodes(d) \X Sockets(d)
    IN  \/ \E m \in AllNodes(d) : \E s \in DOMAIN tables[m] : tables[m][s] = NoPorts
        \/ /\ \A b, c \in bound :
                /\ b # c
                /\ d.distributed => b[1] = c[1]
                => PortOf(tables, b[1], b[2]) # PortOf(tables, c[1], c[2])
           /\ \A m, k \in AllNodes(d) : \A s \in LocalService :
                m[1] = k[1] => tables[m][s] = tables[k][s]
=============================================================================
