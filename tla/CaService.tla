------------------------------ MODULE CaService ------------------------------
(***************************************************************************)
(* The certificate authority: an operator sends it HTTP requests, and it   *)
(* installs, configures and starts the peers and users of the other hosts  *)
(* over SSH.  The operator keeps to the order of the deployment guide and  *)
(* takes the next step when the last one was answered with success; hosts  *)
(* may have files of an earlier deployment.                                *)
(*                                                                         *)
(* Connections, channels and transfers fail now and then.  The exit code   *)
(* of a command is not looked at (SSHSession::executeCommand), and some    *)
(* operations report success although they failed.  The database of a peer *)
(* is in memory (DBConnection is the hash map): on disk there are its Raft *)
(* logs.                                                                   *)
(***************************************************************************)
EXTENDS Integers, Sequences

CONSTANTS
    Host,        \* public addresses
    MaxNodes,    \* bound: nodes of a deployment, named 1 .. MaxNodes
    Tries,       \* uploads of a configuration tried per host (3 in the code)
    HelloTries,  \* rounds of /hello (15 in the code)
    Requests,    \* bound: requests
    Faults       \* bound: failed connections, channels and transfers

Process == {"peer", "user"}

VARIABLES
    config,      \* Properties, nodes: the address of each node
    localId,     \* Properties, local_node_id: one for the whole service
    nodesList,   \* ServiceBackend::_nodesList
    pool,        \* hosts with a session in defaultPool and in destroyPool
    disk,        \* what is in the running path of each host
    request,     \* the request being handled
    starts,      \* start requests that have not reached their host yet
    process,     \* per kind and host, what the running process has loaded
    steps,       \* steps of the guide that have been answered with success
    requests, faults

caVars == <<config, localId, nodesList, pool, disk, request, starts, process, steps,
            requests, faults>>

NoYaml == [id |-> 0, nodes |-> <<>>]
Blank == [code |-> FALSE, pack |-> FALSE, build |-> FALSE, yaml |-> NoYaml,
          data |-> "none"]
Earlier == [code |-> TRUE, pack |-> TRUE, build |-> TRUE,
            yaml |-> [id |-> 1, nodes |-> <<"elsewhere">>], data |-> "old"]
NotRunning == [yaml |-> NoYaml, data |-> "none"]
Unlisted == [id |-> 0, isClient |-> FALSE]
NoRequest == [op |-> "none", left |-> {}, at |-> {}, tries |-> 0, ok |-> TRUE]

Init ==
    /\ config = <<>> /\ localId = 0
    /\ nodesList = [h \in Host |-> Unlisted]
    /\ pool = [default |-> {}, destroy |-> {}]
    /\ disk \in [Host -> {Blank, Earlier}]
    /\ request = NoRequest /\ starts = {}
    /\ process = [k \in Process |-> [h \in Host |-> NotRunning]]
    /\ steps = 0 /\ requests = 0 /\ faults = 0

Listed == {h \in Host : nodesList[h] # Unlisted}
Clients == {h \in Listed : nodesList[h].isClient}
Peers == Listed \ Clients

-----------------------------------------------------------------------------
(* The operator.                                                             *)

Guide == <<"init", "nodes", "all", "compile", "prop">>

\* The requests that are answered when what they start has ended.  With the
\* database in memory peer -i, which generates one, goes on as the peer.
Starting == {"generate", "startPeer", "startUser"}
KindOf(op) == IF op \in {"startUser", "stopUser"} THEN "user" ELSE "peer"

Sends(op, hosts) ==
    /\ request = NoRequest /\ requests < Requests /\ requests' = requests + 1
    /\ request' = [NoRequest EXCEPT !.op = op, !.left = hosts]
    /\ UNCHANGED <<faults, starts>>

\* the steps of the guide, each once those before it have succeeded; a new
\* configuration when nothing runs
Follows(op) ==
    \E i \in DOMAIN Guide :
        /\ Guide[i] = op /\ i <= steps + 1
        /\ i <= 2 => starts = {} /\ \A k \in Process, h \in Host : process[k][h] = NotRunning

\* what there is belongs to an earlier deployment now
Aged == [h \in Host |-> [disk[h] EXCEPT !.data = IF @ = "new" THEN "old" ELSE @]]

\* a fresh configuration of n nodes, with addresses nobody has
initDefaultConfig(n) == [i \in 1 .. n |-> "default"]

\* /config/init: initNodes replaces the properties, but keeps the list of hosts
initNodes ==
    /\ Follows("init") /\ Sends("none", {})
    /\ \E n \in 1 .. MaxNodes : config' = initDefaultConfig(n)
    /\ localId' = 1 /\ steps' = 1 /\ disk' = Aged
    /\ UNCHANGED <<nodesList, pool, process>>

\* SetNodeIp of the peers, ignored for a node the configuration has not got
SetNodeIp(list) ==
    config' = [i \in DOMAIN config |->
                 IF \E h \in DOMAIN list : list[h] = [id |-> i, isClient |-> FALSE]
                 THEN CHOOSE h \in DOMAIN list : list[h] = [id |-> i, isClient |-> FALSE]
                 ELSE config[i]]

\* /config/nodes: setNodesIp and addNodeAsClient of hosts the operator lists;
\* no two of its peers are the same node
addNode ==
    /\ Follows("nodes") /\ Sends("none", {})
    /\ \E S \in SUBSET Host \ {{}} :
         \E list \in [S -> [id : 1 .. MaxNodes, isClient : BOOLEAN]] :
            /\ \A g, h \in S : ~list[g].isClient /\ list[g] = list[h] => g = h
            /\ SetNodeIp(list)
            /\ nodesList' = [h \in Host |-> IF h \in S THEN list[h] ELSE nodesList[h]]
    /\ steps' = 2 /\ disk' = Aged
    /\ UNCHANGED <<localId, pool, process>>

\* the requests that processParallel carries out, one thread per host
Parallel ==
    \/ \E op \in {"all", "compile"} : Follows(op) /\ Sends(op, Listed)
    \/ \E op \in {"code", "pbft"} : steps >= 3 /\ Sends(op, Listed)
    \/ steps >= 5 /\ \E op \in {"backup", "restore", "stopPeer"} : Sends(op, Peers)
    \/ steps >= 5 /\ Sends("stopUser", Clients)

\* the ones that visit the hosts in turn
Serial ==
    \/ Follows("prop") /\ Sends("prop", Listed)
    \/ steps >= 5 /\ Sends("prop", Clients)
    \/ steps >= 2 /\ Sends("hello", Listed)

Accepts == (Parallel \/ Serial) /\ UNCHANGED <<config, localId, nodesList, pool, disk, process, steps>>

\* /peer/generate, /peer/start and /user/start, while which other requests are sent
AcceptsStart ==
    /\ steps >= 5 /\ request = NoRequest /\ requests < Requests
    /\ \E op \in Starting :
         /\ ~\E t \in starts : KindOf(t[1]) = KindOf(op)
         /\ \A h \in Host : process[KindOf(op)][h] = NotRunning
         /\ starts' = starts \cup ({op} \X (IF KindOf(op) = "peer" THEN Peers ELSE Clients))
    /\ requests' = requests + 1
    /\ UNCHANGED <<config, localId, nodesList, pool, disk, request, process, steps, faults>>

\* The last host is done: the answer.  updateProperties has none, and is taken
\* for a success.
Answer ==
    /\ request # NoRequest /\ request.left = {} /\ request.at = {}
    /\ steps' = IF request.ok /\ \E i \in DOMAIN Guide : Guide[i] = request.op /\ i = steps + 1
                THEN steps + 1 ELSE steps
    /\ request' = NoRequest
    /\ UNCHANGED <<config, localId, nodesList, pool, disk, starts, process, requests, faults>>

-----------------------------------------------------------------------------
(* SSH.                                                                      *)

Fails == faults < Faults /\ faults' = faults + 1

\* SessionPool::connect to h succeeds; a session is kept for good
connect(p, h) == pool' = [pool EXCEPT ![p] = @ \cup {h}]

\* ... or fails: only the first time
cannotConnect(p, h) == h \notin pool[p] /\ Fails /\ UNCHANGED pool

\* SSHChannel::execute fails on the session, which stays in the pool
cannotExecute(p, h) == connect(p, h) /\ Fails

-----------------------------------------------------------------------------
(* The operations of Dispatcher on a host: the disk afterwards.              *)

updateRemoteSourcecode(d) == [d EXCEPT !.code = TRUE]
updateRemoteBFTPack(d) == [d EXCEPT !.pack = TRUE]

\* Mutant: the old files are left where they are.
KeepOldFiles(d) == d

\* rm -rf of both folders, with all that is in them
CleanOldFiles(d) == Blank

transmitFileToRemote(d) == updateRemoteBFTPack(updateRemoteSourcecode(CleanOldFiles(d)))

\* cmake in the source folder; the build may fail, which nobody notices
compileRemoteSourcecode(d) == {[d EXCEPT !.build = @ \/ d.code], d}

Runnable(d) == d.pack /\ d.build /\ d.yaml # NoYaml

\* peer -i, after the old logs have been removed
generateDatabase(d) == [d EXCEPT !.data = IF d.pack THEN "none" ELSE @]

\* cp -r data data_bk, which nothing reads but restoreRemoteDatabase
backupRemoteDatabase(d) == d

\* the copy of the backup is cleared of the logs (data/ip:port:index)
restoreRemoteDatabase(d) == [d EXCEPT !.data = "none"]

\* all disks that an operation may leave when it succeeds, and when it fails on
\* the way
After(op, d) ==
    CASE op = "all"      -> {transmitFileToRemote(d)}
      [] op = "code"     -> {updateRemoteSourcecode(d)}
      [] op = "pbft"     -> {updateRemoteBFTPack(d)}
      [] op = "compile"  -> compileRemoteSourcecode(d)
      [] op = "backup"   -> {backupRemoteDatabase(d)}
      [] op = "restore"  -> {restoreRemoteDatabase(d)}
      [] OTHER           -> {d}

Halfway(op, d) ==
    IF op = "all" THEN {d, CleanOldFiles(d), updateRemoteSourcecode(CleanOldFiles(d))} ELSE {d}

PoolOf(op) == IF op \in {"stopPeer", "stopUser"} THEN "destroy" ELSE "default"

\* stopPeer, stopUser: kill -9 whatever runs by that name
Killed(op, h) ==
    IF op \in {"stopPeer", "stopUser"} THEN [process EXCEPT ![KindOf(op)][h] = NotRunning]
    ELSE process

\* processParallel: any thread that fails makes the answer an error
Result(h, ok) == [request EXCEPT !.left = @ \ {h}, !.ok = @ /\ ok]

\* The thread of host h.  A failed backup or restoration is only logged.
Task(h) ==
    LET op == request.op
    IN  /\ op \notin {"none", "prop", "hello"} /\ h \in request.left
        /\ \/ /\ connect(PoolOf(op), h)
              /\ \E d \in After(op, disk[h]) : disk' = [disk EXCEPT ![h] = d]
              /\ process' = Killed(op, h)
              /\ request' = Result(h, TRUE)
              /\ UNCHANGED faults
           \/ /\ cannotConnect(PoolOf(op), h)
              /\ request' = Result(h, FALSE)
              /\ UNCHANGED <<disk, process>>
           \/ /\ cannotExecute(PoolOf(op), h)
              /\ \E d \in Halfway(op, disk[h]) : disk' = [disk EXCEPT ![h] = d]
              /\ request' = Result(h, op \in {"backup", "restore"})
              /\ UNCHANGED process
        /\ UNCHANGED <<config, localId, nodesList, starts, steps, requests>>

\* Dispatcher::hello: a session in the pool is taken for an answer
hello(h) == connect("default", h) /\ UNCHANGED faults
noHello(h) == h \notin pool.default /\ (cannotConnect("default", h) \/ cannotExecute("default", h))

\* ServiceBackend::hello goes round the hosts again when it has not reached one
HelloHosts ==
    /\ request.op = "hello"
    /\ \E h \in request.left :
         \/ hello(h) /\ request' = [request EXCEPT !.left = @ \ {h}]
         \/ /\ noHello(h)
            /\ request' = IF request.tries + 1 = HelloTries
                          THEN [request EXCEPT !.left = {}, !.ok = FALSE]
                          ELSE [request EXCEPT !.left = Listed, !.tries = @ + 1]
    /\ UNCHANGED <<config, localId, nodesList, disk, starts, process, steps, requests>>

\* updateProperties: the next host's id becomes the local one of the properties
SetLocalId ==
    /\ request.op = "prop" /\ request.at = {}
    /\ \E h \in request.left :
         /\ localId' = nodesList[h].id
         /\ request' = [request EXCEPT !.at = {h}, !.left = @ \ {h}, !.tries = 0]
    /\ UNCHANGED <<config, nodesList, pool, disk, starts, process, steps, requests, faults>>

\* ... and the properties are saved and uploaded, tried again, given up
transmitPropertiesToRemote ==
    /\ request.op = "prop"
    /\ \E h \in request.at :
         \/ /\ disk[h].pack /\ connect("default", h)
            /\ disk' = [disk EXCEPT ![h].yaml = [id |-> localId, nodes |-> config]]
            /\ request' = [request EXCEPT !.at = {}]
            /\ UNCHANGED faults
         \/ /\ \/ cannotConnect("default", h) \/ cannotExecute("default", h)
               \/ ~disk[h].pack /\ connect("default", h) /\ UNCHANGED faults
            /\ request' = [request EXCEPT !.tries = @ + 1,
                                          !.at = IF request.tries + 1 = Tries THEN {} ELSE @]
            /\ UNCHANGED disk
    /\ UNCHANGED <<config, localId, nodesList, starts, process, steps, requests>>

\* main: what a process starts with, its configuration and the logs it finds
LoadProperties(d) == [yaml |-> d.yaml, data |-> d.data]

\* startPeer, startUser and generateDatabase: the process reads its configuration
\* and, a peer, the logs it finds, or it ends at once
start(op, h) ==
    LET k == KindOf(op)
        d == IF op = "generate" THEN generateDatabase(disk[h]) ELSE disk[h]
    IN  /\ <<op, h>> \in starts
        /\ starts' = starts \ {<<op, h>>}
        /\ \/ /\ connect("default", h) /\ Runnable(d)
              /\ process' = [process EXCEPT ![k][h] = LoadProperties(d)]
              /\ disk' = [disk EXCEPT ![h] = IF k = "peer" THEN [d EXCEPT !.data = "new"] ELSE d]
              /\ UNCHANGED faults
           \/ /\ connect("default", h) /\ ~Runnable(d)
              /\ disk' = [disk EXCEPT ![h] = d]
              /\ UNCHANGED <<process, faults>>
           \/ /\ cannotConnect("default", h) \/ cannotExecute("default", h)
              /\ UNCHANGED <<disk, process>>
        /\ UNCHANGED <<config, localId, nodesList, request, steps, requests>>

-----------------------------------------------------------------------------
Work ==
    \/ Answer \/ (\E h \in Host : Task(h)) \/ HelloHosts \/ SetLocalId \/ transmitPropertiesToRemote
    \/ \E op \in Starting, h \in Host : start(op, h)
Next == initNodes \/ addNode \/ Accepts \/ AcceptsStart \/ Work

\* DeployedTruly: whatever failed on the way, unnoticed or not, a process started
\* in the order of the guide has the identity its host is listed under, the nodes
\* of this deployment, and not the logs of an earlier one.
DeployedTruly ==
    \A k \in Process, h \in Host : process[k][h] # NotRunning =>
        /\ process[k][h].yaml = [id |-> nodesList[h].id, nodes |-> config]
        /\ process[k][h].data # "old"
=============================================================================
