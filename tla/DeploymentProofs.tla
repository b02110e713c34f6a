-------------------------- MODULE DeploymentProofs --------------------------
(***************************************************************************)
(* What makes the nodes of a deployment work together.                     *)
(*                                                                         *)
(* Two nodes that merge the same vote logs deliver the same blocks in the  *)
(* same order, for every number of groups and every set of well-formed     *)
(* logs, as long as no group is reported to be down.                       *)
(*                                                                         *)
(* The argument: up to the first difference the nodes have delivered the   *)
(* same blocks.  If a then delivers x and b has y there, then a knew that  *)
(* no vote still to come could put y before x, and b knew the same of x    *)
(* and y (SurelyOrdered in InterChainOrderProofs); the two contradict each *)
(* other, although a and b knew different parts of the logs.               *)
(*                                                                         *)
(* Then the certificate authority, the set-up of the Raft groups and the   *)
(* ports.                                                                  *)
(***************************************************************************)
EXTENDS MCDeployment, SequenceTheorems, TLAPS

PA == INSTANCE InterChainOrderProofs WITH
        pos <- posA, chains <- chainsA, heads <- headsA, height <- heightA,
        invalid <- invalidA, popping <- poppingA, delivered <- deliveredA,
        aborted <- abortedA

PB == INSTANCE InterChainOrderProofs WITH
        pos <- posB, chains <- chainsB, heads <- headsB, height <- heightB,
        invalid <- invalidB, popping <- poppingB, delivered <- deliveredB,
        aborted <- abortedB

\* The definitions of node a are those that the proofs are about.
LEMMA SameA ==
    /\ A!Init <=> PA!Init
    /\ A!Next <=> PA!Next
    /\ A!vars = PA!vars
    /\ A!Group = PA!Group
    /\ \A l : A!WellFormed(l) <=> PA!WellFormed(l)
<1>1. A!Group = PA!Group /\ A!INVALID_WATERMARK = PA!INVALID_WATERMARK
    BY DEF A!Group, PA!Group,
           A!INVALID_WATERMARK, PA!INVALID_WATERMARK
<1>2. \A g, b : A!NewCell(g, b) = PA!NewCell(g, b)
    BY <1>1 DEF A!NewCell, PA!NewCell
<1>3. ASSUME NEW ch, NEW g, NEW b
      PROVE  A!createBlockIfNotExist(ch, g, b) = PA!createBlockIfNotExist(ch, g, b)
    BY <1>2 DEF A!createBlockIfNotExist, PA!createBlockIfNotExist
<1>4. ASSUME NEW ch, NEW g, NEW b, NEW v, NEW w
      PROVE  /\ A!RecordVote(ch, g, b, v, w) = PA!RecordVote(ch, g, b, v, w)
             /\ A!VoteChecks(ch, g, b, v, w) <=> PA!VoteChecks(ch, g, b, v, w)
    BY <1>1 DEF A!RecordVote, PA!RecordVote, A!VoteChecks, PA!VoteChecks
<1>5. ASSUME NEW g, NEW b, NEW v, NEW w
      PROVE  A!pushDecision(g, b, v, w) <=> PA!pushDecision(g, b, v, w)
    BY <1>1, <1>3, <1>4
       DEF A!pushDecision, PA!pushDecision,
           A!pushDecisionSingle, PA!pushDecisionSingle,
           A!pushDecisionOwn, PA!pushDecisionOwn,
           A!pushDecisionVote, PA!pushDecisionVote
<1>6. ASSUME NEW v
      PROVE  (A!Apply(v) <=> PA!Apply(v)) /\ (A!Duplicate(v) <=> PA!Duplicate(v))
    BY <1>5 DEF A!Apply, PA!Apply, A!Duplicate, PA!Duplicate
<1>7. ASSUME NEW c, NEW d
      PROVE  /\ A!ExchangedCell(c, d) = PA!ExchangedCell(c, d)
             /\ A!ExchangeChecks(c, d) <=> PA!ExchangeChecks(c, d)
    BY <1>1 DEF A!ExchangedCell, PA!ExchangedCell,
                A!ExchangeChecks, PA!ExchangeChecks
<1>8. A!globalMinimum = PA!globalMinimum /\ \A g : A!HeadCell(g) = PA!HeadCell(g)
    BY <1>1 DEF A!globalMinimum, PA!globalMinimum, A!HeadCell, PA!HeadCell,
                A!mustLessThan, PA!mustLessThan
<1>9. ASSUME NEW g PROVE A!Pop(g) <=> PA!Pop(g)
    BY <1>3, <1>7, <1>8 DEF A!Pop, PA!Pop
<1>10. A!PopDone <=> PA!PopDone BY <1>8 DEF A!PopDone, PA!PopDone
<1>11. A!Next <=> PA!Next BY <1>1, <1>6, <1>9, <1>10 DEF A!Next, PA!Next
<1>12. A!Init <=> PA!Init BY <1>1, <1>2 DEF A!Init, PA!Init
<1>13. A!vars = PA!vars BY DEF A!vars, PA!vars
<1>14. ASSUME NEW l PROVE A!WellFormed(l) <=> PA!WellFormed(l)
    BY <1>1 DEF A!WellFormed, PA!WellFormed, A!VotesInOrder, PA!VotesInOrder,
                A!VotesOnce, PA!VotesOnce, A!ClockMonotone, PA!ClockMonotone,
                A!Entry, PA!Entry, A!Mark, PA!Mark
<1> QED BY <1>1, <1>11, <1>12, <1>13, <1>14

\* The definitions of node b are those that the proofs are about.
LEMMA SameB ==
    /\ B!Init <=> PB!Init
    /\ B!Next <=> PB!Next
    /\ B!vars = PB!vars
    /\ B!Group = PB!Group
    /\ \A l : B!WellFormed(l) <=> PB!WellFormed(l)
<1>1. B!Group = PB!Group /\ B!INVALID_WATERMARK = PB!INVALID_WATERMARK
    BY DEF B!Group, PB!Group,
           B!INVALID_WATERMARK, PB!INVALID_WATERMARK
<1>2. \A g, b : B!NewCell(g, b) = PB!NewCell(g, b)
    BY <1>1 DEF B!NewCell, PB!NewCell
<1>3. ASSUME NEW ch, NEW g, NEW b
      PROVE  B!createBlockIfNotExist(ch, g, b) = PB!createBlockIfNotExist(ch, g, b)
    BY <1>2 DEF B!createBlockIfNotExist, PB!createBlockIfNotExist
<1>4. ASSUME NEW ch, NEW g, NEW b, NEW v, NEW w
      PROVE  /\ B!RecordVote(ch, g, b, v, w) = PB!RecordVote(ch, g, b, v, w)
             /\ B!VoteChecks(ch, g, b, v, w) <=> PB!VoteChecks(ch, g, b, v, w)
    BY <1>1 DEF B!RecordVote, PB!RecordVote, B!VoteChecks, PB!VoteChecks
<1>5. ASSUME NEW g, NEW b, NEW v, NEW w
      PROVE  B!pushDecision(g, b, v, w) <=> PB!pushDecision(g, b, v, w)
    BY <1>1, <1>3, <1>4
       DEF B!pushDecision, PB!pushDecision,
           B!pushDecisionSingle, PB!pushDecisionSingle,
           B!pushDecisionOwn, PB!pushDecisionOwn,
           B!pushDecisionVote, PB!pushDecisionVote
<1>6. ASSUME NEW v
      PROVE  (B!Apply(v) <=> PB!Apply(v)) /\ (B!Duplicate(v) <=> PB!Duplicate(v))
    BY <1>5 DEF B!Apply, PB!Apply, B!Duplicate, PB!Duplicate
<1>7. ASSUME NEW c, NEW d
      PROVE  /\ B!ExchangedCell(c, d) = PB!ExchangedCell(c, d)
             /\ B!ExchangeChecks(c, d) <=> PB!ExchangeChecks(c, d)
    BY <1>1 DEF B!ExchangedCell, PB!ExchangedCell,
                B!ExchangeChecks, PB!ExchangeChecks
<1>8. B!globalMinimum = PB!globalMinimum /\ \A g : B!HeadCell(g) = PB!HeadCell(g)
    BY <1>1 DEF B!globalMinimum, PB!globalMinimum, B!HeadCell, PB!HeadCell,
                B!mustLessThan, PB!mustLessThan
<1>9. ASSUME NEW g PROVE B!Pop(g) <=> PB!Pop(g)
    BY <1>3, <1>7, <1>8 DEF B!Pop, PB!Pop
<1>10. B!PopDone <=> PB!PopDone BY <1>8 DEF B!PopDone, PB!PopDone
<1>11. B!Next <=> PB!Next BY <1>1, <1>6, <1>9, <1>10 DEF B!Next, PB!Next
<1>12. B!Init <=> PB!Init BY <1>1, <1>2 DEF B!Init, PB!Init
<1>13. B!vars = PB!vars BY DEF B!vars, PB!vars
<1>14. ASSUME NEW l PROVE B!WellFormed(l) <=> PB!WellFormed(l)
    BY <1>1 DEF B!WellFormed, PB!WellFormed, B!VotesInOrder, PB!VotesInOrder,
                B!VotesOnce, PB!VotesOnce, B!ClockMonotone, PB!ClockMonotone,
                B!Entry, PB!Entry, B!Mark, PB!Mark
<1> QED BY <1>1, <1>11, <1>12, <1>13, <1>14

\* A step of the two nodes is a step of node a or leaves it alone.
LEMMA StepA == [Next]_vars => [PA!Next]_PA!vars
<1> SUFFICES ASSUME [Next]_vars PROVE [PA!Next]_PA!vars OBVIOUS
<1>1. CASE A!Next BY <1>1, SameA
<1>2. CASE B!Next /\ UNCHANGED varsA
    <2>1. log' = log
        BY <1>2 DEF B!Next, B!Apply, B!Duplicate, B!Pop, B!PopDone
    <2> QED BY <1>2, <2>1 DEF PA!vars, varsA
<1>3. CASE UNCHANGED vars BY <1>3 DEF vars, varsA, PA!vars
<1> QED BY <1>1, <1>2, <1>3 DEF Next

\* A step of the two nodes is a step of node b or leaves it alone.
LEMMA StepB == [Next]_vars => [PB!Next]_PB!vars
<1> SUFFICES ASSUME [Next]_vars PROVE [PB!Next]_PB!vars OBVIOUS
<1>1. CASE B!Next BY <1>1, SameB
<1>2. CASE A!Next /\ UNCHANGED varsB
    <2>1. log' = log
        BY <1>2 DEF A!Next, A!Apply, A!Duplicate, A!Pop, A!PopDone
    <2> QED BY <1>2, <2>1 DEF PB!vars, varsB
<1>3. CASE UNCHANGED vars BY <1>3 DEF vars, varsB, PB!vars
<1> QED BY <1>1, <1>2, <1>3 DEF Next

-----------------------------------------------------------------------------
(* The invariant: what each node guarantees alone.                         *)

Orderly ==
    /\ PA!IInv /\ PA!SurelyOrdered /\ PA!NoGapNoRepeat
    /\ PB!IInv /\ PB!SurelyOrdered /\ PB!NoGapNoRepeat

\* the assumptions of the proofs about one node hold here
LEMMA NodeAssumptions ==
    /\ GroupCount \in Nat \ {0} /\ MaxDelivered \in Nat
    /\ Faulty \subseteq PA!Group /\ \A l \in Logs : PA!WellFormed(l)
    /\ Faulty \subseteq PB!Group /\ \A l \in Logs : PB!WellFormed(l)
<1>1. A!Group = B!Group BY DEF A!Group, B!Group
<1>2. \A l : A!WellFormed(l) <=> B!WellFormed(l)
    BY DEF A!WellFormed, B!WellFormed, A!Group, B!Group, A!Entry, B!Entry, A!Mark, B!Mark,
           A!INVALID_WATERMARK, B!INVALID_WATERMARK, A!VotesInOrder, B!VotesInOrder,
           A!VotesOnce, B!VotesOnce, A!ClockMonotone, B!ClockMonotone
<1> QED BY <1>1, <1>2, SameA, SameB, AgreementAssumption

\* Both nodes keep their invariants when they run side by side.
THEOREM BothOrderly == ASSUME GroupCount > 1 PROVE Spec => []Orderly
<1>1. Spec => PA!Spec /\ PB!Spec
    <2>1. Init => PA!Init /\ PB!Init BY SameA, SameB DEF Init
    <2>2. [Next]_vars => [PA!Next]_PA!vars BY StepA
    <2>3. [Next]_vars => [PB!Next]_PB!vars BY StepB
    <2> QED BY <2>1, <2>2, <2>3, PTL DEF Spec, PA!Spec, PB!Spec
<1>2. PA!Spec => []PA!IInv BY NodeAssumptions, PA!Invariance
<1>3. PA!Spec => []PA!SurelyOrdered BY NodeAssumptions, PA!DeliveredSurely
<1>4. PA!Spec => []PA!NoGapNoRepeat BY NodeAssumptions, PA!DeliveredOnceInOrder
<1>5. PB!Spec => []PB!IInv BY NodeAssumptions, PB!Invariance
<1>6. PB!Spec => []PB!SurelyOrdered BY NodeAssumptions, PB!DeliveredSurely
<1>7. PB!Spec => []PB!NoGapNoRepeat BY NodeAssumptions, PB!DeliveredOnceInOrder
<1> QED BY <1>1, <1>2, <1>3, <1>4, <1>5, <1>6, <1>7, PTL DEF Orderly
-----------------------------------------------------------------------------
(* Two orderly nodes agree.                                                *)

\* both nodes mean the same by "surely before"
LEMMA SameOrder == \A x, y : PA!SurelyBefore(log, x, y) <=> PB!SurelyBefore(log, x, y)
BY DEF PA!SurelyBefore, PB!SurelyBefore, PA!Before, PB!Before, PA!NotAfter, PB!NotAfter,
       PA!VoteOn, PB!VoteOn, PA!Group, PB!Group

\* what the nodes have delivered before position n decides what they deliver
\* there
LEMMA NextAgrees ==
    ASSUME Orderly, NEW n \in DOMAIN deliveredA \cap DOMAIN deliveredB,
           \A i \in 1 .. (n - 1) : deliveredA[i] = deliveredB[i]
    PROVE  deliveredA[n] = deliveredB[n]
<1> DEFINE x == deliveredA[n]
           y == deliveredB[n]
<1>1. /\ deliveredA \in Seq(PA!Group \X Nat) /\ deliveredB \in Seq(PA!Group \X Nat)
      /\ PA!Group = PB!Group /\ log \in Logs
    BY DEF Orderly, PA!IInv, PB!IInv, PA!TypeOK, PB!TypeOK, PA!Group, PB!Group
<1>2. n \in Nat /\ n >= 1 /\ x \in PA!Group \X Nat /\ y \in PA!Group \X Nat
    BY <1>1
<1>3. PICK g \in PA!Group, k \in Nat : x = <<g, k>> BY <1>2
<1>4. PICK h \in PA!Group, m \in Nat : y = <<h, m>> BY <1>2
<1> SUFFICES ASSUME x # y PROVE FALSE OBVIOUS
<1>5. /\ \A j \in 1 .. (n - 1) : deliveredA[j] # x
      /\ \A b \in 0 .. (k - 1) : \E j \in 1 .. (n - 1) : deliveredA[j] = <<g, b>>
    <2>1. x[1] = g /\ x[2] = k BY <1>3
    <2>2. /\ \A j \in 1 .. (n - 1) : deliveredA[j] # x
          /\ \A b \in 0 .. (x[2] - 1) : \E j \in 1 .. (n - 1) : deliveredA[j] = <<x[1], b>>
        BY DEF Orderly, PA!NoGapNoRepeat
    <2> HIDE DEF x
    <2> QED BY <2>1, <2>2
<1>6. /\ \A j \in 1 .. (n - 1) : deliveredB[j] # y
      /\ \A b \in 0 .. (m - 1) : \E j \in 1 .. (n - 1) : deliveredB[j] = <<h, b>>
    <2>1. y[1] = h /\ y[2] = m BY <1>4
    <2>2. /\ \A j \in 1 .. (n - 1) : deliveredB[j] # y
          /\ \A b \in 0 .. (y[2] - 1) : \E j \in 1 .. (n - 1) : deliveredB[j] = <<y[1], b>>
        BY DEF Orderly, PB!NoGapNoRepeat
    <2> HIDE DEF y
    <2> QED BY <2>1, <2>2
<1>7. \A j \in 1 .. n : j = n \/ j \in 1 .. (n - 1) BY <1>2
<1>8. CASE g = h
    <2>1. k < m \/ m < k BY <1>3, <1>4, <1>8
    <2>2. k < m => k \in 0 .. (m - 1) OBVIOUS
    <2>3. m < k => m \in 0 .. (k - 1) OBVIOUS
    <2> QED BY <1>3, <1>4, <1>5, <1>6, <1>8, <2>1, <2>2, <2>3
<1>9. CASE g # h
    <2>1. \A j \in 1 .. n : deliveredA[j] # y BY <1>6, <1>7
    <2>2. \A j \in 1 .. n : deliveredB[j] # x BY <1>5, <1>7
    <2>3. h \in PA!Group \ {deliveredA[n][1]} /\ g \in PB!Group \ {deliveredB[n][1]}
        BY <1>1, <1>3, <1>4, <1>9
    <2>4. PA!SurelyBefore(log, x, y)
        <3>1. PA!SurelyBefore(log, deliveredA[n], <<h, m>>)
            BY <1>4, <2>1, <2>3 DEF Orderly, PA!SurelyOrdered
        <3> QED BY <1>4, <3>1
    <2>5. PA!SurelyBefore(log, y, x)
        <3>1. PB!SurelyBefore(log, deliveredB[n], <<g, k>>)
            BY <1>3, <2>2, <2>3 DEF Orderly, PB!SurelyOrdered
        <3> QED BY <1>3, <3>1, SameOrder
    <2> HIDE DEF x, y
    <2> QED BY <1>1, <1>2, <2>4, <2>5, NodeAssumptions, PA!SurelyAsymmetric
<1> QED BY <1>8, <1>9

\* All nodes run the blocks in the same order: what one node has passed to
\* deliverCallback is always a prefix of what another one has, however
\* differently the logs reached them.
THEOREM ReplicasAgree == ASSUME GroupCount > 1 PROVE Spec => []Agreement
<1>1. Orderly => Agreement
    <2> SUFFICES ASSUME Orderly, ~ Agreement PROVE FALSE OBVIOUS
    <2> DEFINE D == {i \in DOMAIN deliveredA \cap DOMAIN deliveredB :
                        deliveredA[i] # deliveredB[i]}
    <2>1. deliveredA \in Seq(PA!Group \X Nat) /\ deliveredB \in Seq(PB!Group \X Nat)
        BY DEF Orderly, PA!IInv, PB!IInv, PA!TypeOK, PB!TypeOK
    <2>2. D \subseteq Nat /\ D # {} BY <2>1 DEF Agreement
    <2>3. PICK n \in D : \A i \in D : n <= i
        <3> HIDE DEF D
        <3> QED BY <2>2, NodeAssumptions, PA!LeastNatural
    <2>4. ASSUME NEW i \in 1 .. (n - 1) PROVE deliveredA[i] = deliveredB[i]
        <3>1. n \in DOMAIN deliveredA /\ n \in DOMAIN deliveredB BY <2>3
        <3>2. i \in DOMAIN deliveredA /\ i \in DOMAIN deliveredB /\ ~ (n <= i)
            <4>1. /\ DOMAIN deliveredA = 1 .. Len(deliveredA) /\ Len(deliveredA) \in Nat
                  /\ DOMAIN deliveredB = 1 .. Len(deliveredB) /\ Len(deliveredB) \in Nat
                BY <2>1, SMTT(30)
            <4> QED BY <3>1, <4>1
        <3> QED BY <2>3, <3>2
    <2> QED BY <2>3, <2>4, NextAgrees
<1> QED BY <1>1, BothOrderly, PTL
-----------------------------------------------------------------------------
(* The certificate authority.                                              *)

CaYaml == [id : Int, nodes : Seq(Host \cup {"default", "elsewhere"})]
CaDisk == [code : BOOLEAN, pack : BOOLEAN, build : BOOLEAN, yaml : CaYaml,
           data : {"none", "new", "old"}]
CaRequest ==
    [op : {"none", "all", "compile", "prop", "code", "pbft", "backup", "restore",
           "stopPeer", "stopUser", "hello"},
     left : SUBSET Host, at : SUBSET Host, tries : Nat, ok : BOOLEAN]

CaTypes ==
    /\ config \in Seq(Host \cup {"default", "elsewhere"})
    /\ localId \in Int /\ steps \in Nat
    /\ nodesList \in [Host -> [id : Int, isClient : BOOLEAN]]
    /\ disk \in [Host -> CaDisk]
    /\ request \in CaRequest
    /\ process \in [CA!Process -> [Host -> [yaml : CaYaml, data : {"none", "new", "old"}]]]
    /\ starts \in SUBSET (CA!Starting \X Host)

\* what is on the disk of h belongs to this deployment
Current(h) ==
    /\ disk[h].yaml \in {CA!NoYaml, [id |-> nodesList[h].id, nodes |-> config]}
    /\ disk[h].data # "old"

\* The listed hosts are clean when the files have been sent to all of them, and
\* those that a request to send them has visited.
Installed ==
    \A h \in CA!Listed :
        \/ steps >= 3
        \/ request.op = "all" /\ request.ok /\ h \notin request.left
        => Current(h)

\* the local id of the properties is that of the host they are sent to
Addressed == request.op = "prop" => \A h \in request.at : localId = nodesList[h].id

\* what is started is listed, and is started after the guide
StartsLate == starts # {} => steps >= 5 /\ \A t \in starts : t[2] \in CA!Listed

CaInv == CaTypes /\ Installed /\ Addressed /\ StartsLate /\ CA!DeployedTruly

LEMMA CaConstants ==
    /\ CA!NoYaml \in CaYaml /\ CA!Blank \in CaDisk /\ CA!Earlier \in CaDisk
    /\ CA!NotRunning \in [yaml : CaYaml, data : {"none", "new", "old"}]
    /\ CA!Unlisted \in [id : Int, isClient : BOOLEAN]
    /\ CA!NoRequest \in CaRequest
    /\ CA!Blank.yaml = CA!NoYaml /\ CA!Blank.data = "none"
    /\ CA!NoRequest.op = "none" /\ CA!NoRequest.at = {}
<1>1. CA!NoYaml \in CaYaml BY DEF CA!NoYaml, CaYaml
<1>2. [id |-> 1, nodes |-> <<"elsewhere">>] \in CaYaml BY DEF CaYaml
<1>3. CA!Blank \in CaDisk /\ CA!Earlier \in CaDisk BY <1>1, <1>2 DEF CA!Blank, CA!Earlier, CaDisk
<1>4. CA!NotRunning \in [yaml : CaYaml, data : {"none", "new", "old"}] BY <1>1 DEF CA!NotRunning
<1>5. CA!Unlisted \in [id : Int, isClient : BOOLEAN] BY DEF CA!Unlisted
<1>6. CA!NoRequest \in CaRequest BY DEF CA!NoRequest, CaRequest
<1> QED BY <1>1, <1>3, <1>4, <1>5, <1>6 DEF CA!Blank, CA!NoRequest

\* what one field of a disk becomes leaves the others alone
LEMMA DiskFields ==
    ASSUME NEW d \in CaDisk
    PROVE  /\ [d EXCEPT !.code = TRUE] \in CaDisk
           /\ [d EXCEPT !.code = TRUE].yaml = d.yaml
           /\ [d EXCEPT !.code = TRUE].data = d.data
           /\ [d EXCEPT !.pack = TRUE] \in CaDisk
           /\ [d EXCEPT !.pack = TRUE].yaml = d.yaml
           /\ [d EXCEPT !.pack = TRUE].data = d.data
           /\ \A b \in BOOLEAN : /\ [d EXCEPT !.build = b] \in CaDisk
                                 /\ [d EXCEPT !.build = b].yaml = d.yaml
                                 /\ [d EXCEPT !.build = b].data = d.data
           /\ \A y \in CaYaml : /\ [d EXCEPT !.yaml = y] \in CaDisk
                                /\ [d EXCEPT !.yaml = y].yaml = y
                                /\ [d EXCEPT !.yaml = y].data = d.data
           /\ \A x \in {"none", "new", "old"} : /\ [d EXCEPT !.data = x] \in CaDisk
                                                /\ [d EXCEPT !.data = x].yaml = d.yaml
                                                /\ [d EXCEPT !.data = x].data = x
BY DEF CaDisk

\* no operation on a host puts an old file there, and sending all files clears it
LEMMA DiskAfter ==
    ASSUME NEW d \in CaDisk, NEW op, NEW e \in CA!After(op, d) \cup CA!Halfway(op, d)
    PROVE  /\ e \in CaDisk /\ e.yaml \in {CA!NoYaml, d.yaml} /\ e.data \in {"none", d.data}
           /\ op = "all" /\ e \in CA!After(op, d) => e.yaml = CA!NoYaml /\ e.data = "none"
<1>1. /\ CA!CleanOldFiles(d) = CA!Blank /\ CA!Blank \in CaDisk
      /\ CA!Blank.yaml = CA!NoYaml /\ CA!Blank.data = "none"
    BY CaConstants DEF CA!CleanOldFiles
<1>2. /\ CA!updateRemoteSourcecode(CA!Blank) \in CaDisk
      /\ CA!updateRemoteSourcecode(CA!Blank).yaml = CA!NoYaml
      /\ CA!updateRemoteSourcecode(CA!Blank).data = "none"
    BY <1>1, DiskFields DEF CA!updateRemoteSourcecode
<1>3. /\ CA!transmitFileToRemote(d) \in CaDisk
      /\ CA!transmitFileToRemote(d).yaml = CA!NoYaml
      /\ CA!transmitFileToRemote(d).data = "none"
    <2>1. PICK x : x = CA!updateRemoteSourcecode(CA!Blank) OBVIOUS
    <2>2. CA!transmitFileToRemote(d) = [x EXCEPT !.pack = TRUE]
        BY <1>1, <2>1, Zenon DEF CA!transmitFileToRemote, CA!updateRemoteBFTPack
    <2>3. x \in CaDisk /\ x.yaml = CA!NoYaml /\ x.data = "none" BY <1>2, <2>1
    <2>4. /\ [x EXCEPT !.pack = TRUE] \in CaDisk
          /\ [x EXCEPT !.pack = TRUE].yaml = CA!NoYaml
          /\ [x EXCEPT !.pack = TRUE].data = "none"
        BY <2>3, DiskFields
    <2> QED BY <2>2, <2>4
<1>4. CASE op = "all" /\ e \in CA!Halfway(op, d)
    BY <1>1, <1>2, <1>4, <1>3 DEF CA!Halfway, CA!After
<1>5. CASE op # "all" /\ e \in CA!Halfway(op, d)
    BY <1>5 DEF CA!Halfway
<1>6. CASE e \in CA!After(op, d)
    <2>1. CASE op = "all" BY <1>3, <1>6, <2>1 DEF CA!After
    <2>2. CASE op = "code"
        <3>1. e = [d EXCEPT !.code = TRUE] BY <1>6, <2>2 DEF CA!After, CA!updateRemoteSourcecode
        <3> QED BY <2>2, <3>1, DiskFields
    <2>3. CASE op = "pbft"
        <3>1. e = [d EXCEPT !.pack = TRUE] BY <1>6, <2>3 DEF CA!After, CA!updateRemoteBFTPack
        <3> QED BY <2>3, <3>1, DiskFields
    <2>4. CASE op = "compile"
        <3>1. e \in {[d EXCEPT !.build = d.build \/ d.code], d}
            BY <1>6, <2>4 DEF CA!After, CA!compileRemoteSourcecode
        <3>2. CASE e = d BY <2>4, <3>2
        <3>3. CASE e = [d EXCEPT !.build = d.build \/ d.code]
            <4>1. (d.build \/ d.code) \in BOOLEAN OBVIOUS
            <4>2. e \in CaDisk /\ e.yaml = d.yaml /\ e.data = d.data
                BY <3>3, <4>1, DiskFields, Zenon
            <4> QED BY <2>4, <4>2
        <3> QED BY <3>1, <3>2, <3>3
    <2>5. CASE op = "backup" BY <1>6, <2>5 DEF CA!After, CA!backupRemoteDatabase
    <2>6. CASE op = "restore"
        <3>1. e = [d EXCEPT !.data = "none"] BY <1>6, <2>6 DEF CA!After, CA!restoreRemoteDatabase
        <3> QED BY <2>6, <3>1, DiskFields
    <2>7. CASE op \notin {"all", "code", "pbft", "compile", "backup", "restore"}
        BY <1>6, <2>7 DEF CA!After
    <2> QED BY <2>1, <2>2, <2>3, <2>4, <2>5, <2>6, <2>7
<1> QED BY <1>4, <1>5, <1>6

LEMMA CaInit == CA!Init => CaInv
<1> SUFFICES ASSUME CA!Init PROVE CaInv OBVIOUS
<1>1. CaTypes
    <2>1. config \in Seq(Host \cup {"default", "elsewhere"}) /\ localId \in Int /\ steps \in Nat
        BY DEF CA!Init
    <2>2. nodesList \in [Host -> [id : Int, isClient : BOOLEAN]] BY CaConstants DEF CA!Init
    <2>3. disk \in [Host -> CaDisk] BY CaConstants DEF CA!Init
    <2>4. process \in [CA!Process -> [Host -> [yaml : CaYaml, data : {"none", "new", "old"}]]]
        BY CaConstants DEF CA!Init
    <2>5. request \in CaRequest /\ starts \in SUBSET (CA!Starting \X Host)
        BY CaConstants DEF CA!Init
    <2> QED BY <2>1, <2>2, <2>3, <2>4, <2>5 DEF CaTypes
<1>2. CA!Listed = {} BY DEF CA!Init, CA!Listed
<1>3. Addressed /\ StartsLate BY CaConstants DEF CA!Init, Addressed, StartsLate
<1>4. CA!DeployedTruly BY DEF CA!Init, CA!DeployedTruly
<1> QED BY <1>1, <1>2, <1>3, <1>4 DEF CaInv, Installed

\* A new configuration finds nothing running, and starts the guide again.
LEMMA CaConfigured ==
    ASSUME CaInv, CA!initNodes \/ CA!addNode
    PROVE  CaInv'
<1>1. /\ starts = {} /\ \A k \in CA!Process, h \in Host : process[k][h] = CA!NotRunning
      /\ starts' = starts /\ process' = process /\ request' = CA!NoRequest
    <2>1. /\ CA!Follows("init") \/ CA!Follows("nodes")
          /\ CA!Sends("none", {}) /\ process' = process
        BY DEF CA!initNodes, CA!addNode
    <2>2. starts = {} /\ \A k \in CA!Process, h \in Host : process[k][h] = CA!NotRunning
        <3>1. PICK i \in DOMAIN CA!Guide : CA!Guide[i] \in {"init", "nodes"} /\
                 (i <= 2 => starts = {} /\ \A k \in CA!Process, h \in Host : process[k][h] = CA!NotRunning)
            BY <2>1 DEF CA!Follows
        <3>2. i <= 2 BY <3>1 DEF CA!Guide
        <3> QED BY <3>1, <3>2
    <2>3. starts' = starts /\ request' = CA!NoRequest
        BY <2>1 DEF CA!Sends, CA!NoRequest
    <2> QED BY <2>1, <2>2, <2>3
<1>2. steps' \in {1, 2} /\ disk' = CA!Aged /\ localId' \in Int
    BY DEF CA!initNodes, CA!addNode, CaInv, CaTypes
<1>3. disk' \in [Host -> CaDisk]
    <2>1. ASSUME NEW h \in Host
          PROVE  [disk[h] EXCEPT !.data = IF disk[h].data = "new" THEN "old" ELSE disk[h].data] \in CaDisk
        <3>1. disk[h] \in CaDisk BY DEF CaInv, CaTypes
        <3>2. (IF disk[h].data = "new" THEN "old" ELSE disk[h].data) \in {"none", "new", "old"}
            BY <3>1 DEF CaDisk
        <3> QED BY <3>1, <3>2, DiskFields, Zenon
    <2> QED BY <1>2, <2>1, Zenon DEF CA!Aged
<1>4. config' \in Seq(Host \cup {"default", "elsewhere"})
    <2>1. CASE CA!initNodes
        <3>1. PICK n \in 1 .. MaxNodes : config' = [i \in 1 .. n |-> "default"]
            BY <2>1 DEF CA!initNodes, CA!initDefaultConfig
        <3>2. n \in Nat BY <3>1, DeploymentAssumption
        <3>3. config' \in [1 .. n -> Host \cup {"default", "elsewhere"}] BY <3>1
        <3> QED BY <3>2, <3>3, SeqDef
    <2>2. CASE CA!addNode
        <3>1. PICK S \in SUBSET Host \ {{}} :
                 \E list \in [S -> [id : 1 .. MaxNodes, isClient : BOOLEAN]] : CA!SetNodeIp(list)
            BY <2>2 DEF CA!addNode
        <3>2. PICK list \in [S -> [id : 1 .. MaxNodes, isClient : BOOLEAN]] : CA!SetNodeIp(list)
            BY <3>1
        <3> DEFINE At(i) == IF \E h \in DOMAIN list : list[h] = [id |-> i, isClient |-> FALSE]
                            THEN CHOOSE h \in DOMAIN list : list[h] = [id |-> i, isClient |-> FALSE]
                            ELSE config[i]
        <3>3. config' = [i \in DOMAIN config |-> At(i)] BY <3>2 DEF CA!SetNodeIp
        <3>4. /\ DOMAIN config = 1 .. Len(config) /\ Len(config) \in Nat
              /\ \A i \in 1 .. Len(config) : config[i] \in Host \cup {"default", "elsewhere"}
            BY DEF CaInv, CaTypes
        <3>5. \A i \in 1 .. Len(config) : At(i) \in Host \cup {"default", "elsewhere"}
            BY <3>2, <3>4
        <3> HIDE DEF At
        <3>6. config' \in [1 .. Len(config) -> Host \cup {"default", "elsewhere"}]
            BY <3>3, <3>4, <3>5
        <3> QED BY <3>4, <3>6, SeqDef
    <2> QED BY <2>1, <2>2
<1>5. nodesList' \in [Host -> [id : Int, isClient : BOOLEAN]]
    <2>1. CASE CA!initNodes BY <2>1 DEF CA!initNodes, CaInv, CaTypes
    <2>2. CASE CA!addNode
        <3>1. PICK S \in SUBSET Host \ {{}} :
                 \E list \in [S -> [id : 1 .. MaxNodes, isClient : BOOLEAN]] :
                    nodesList' = [h \in Host |-> IF h \in S THEN list[h] ELSE nodesList[h]]
            BY <2>2 DEF CA!addNode
        <3>2. PICK list \in [S -> [id : 1 .. MaxNodes, isClient : BOOLEAN]] :
                    nodesList' = [h \in Host |-> IF h \in S THEN list[h] ELSE nodesList[h]]
            BY <3>1
        <3>3. \A h \in S : list[h] \in [id : Int, isClient : BOOLEAN] BY <3>2, DeploymentAssumption
        <3>4. \A h \in Host : nodesList[h] \in [id : Int, isClient : BOOLEAN] BY DEF CaInv, CaTypes
        <3> QED BY <3>2, <3>3, <3>4
    <2> QED BY <2>1, <2>2
<1>6. CaTypes'
    <2>1. /\ process \in [CA!Process -> [Host -> [yaml : CaYaml, data : {"none", "new", "old"}]]]
          /\ starts \in SUBSET (CA!Starting \X Host)
        BY DEF CaInv, CaTypes
    <2>2. steps' \in Nat BY <1>2
    <2> QED BY <1>1, <1>2, <1>3, <1>4, <1>5, <2>1, <2>2, CaConstants DEF CaTypes
<1>7. Installed' /\ Addressed' /\ StartsLate'
    <2>1. request'.op = "none" /\ ~ (steps' >= 3) BY <1>1, <1>2, CaConstants
    <2> QED BY <1>1, <2>1 DEF Installed, Addressed, StartsLate
<1>8. CA!DeployedTruly' BY <1>1 DEF CA!DeployedTruly, CA!Process
<1> QED BY <1>6, <1>7, <1>8 DEF CaInv

\* A request begins with nothing done.
LEMMA CaAccepts ==
    ASSUME CaInv, CA!Accepts
    PROVE  CaInv'
<1>1. /\ config' = config /\ localId' = localId /\ nodesList' = nodesList
      /\ disk' = disk /\ process' = process /\ steps' = steps
    BY DEF CA!Accepts
<1>2. CA!Listed \subseteq Host /\ CA!Peers \subseteq CA!Listed /\ CA!Clients \subseteq CA!Listed
    BY DEF CA!Listed, CA!Peers, CA!Clients
<1>3. PICK op \in {"all", "compile", "code", "pbft", "backup", "restore", "stopPeer",
                   "stopUser", "prop", "hello"}, hosts \in SUBSET Host :
         CA!Sends(op, hosts) /\ (op = "all" => hosts = CA!Listed)
    BY <1>2 DEF CA!Accepts, CA!Parallel, CA!Serial
<1>4. /\ request' \in CaRequest /\ starts' = starts
      /\ request'.op = op /\ request'.left = hosts /\ request'.at = {}
    <2>1. request' = [op |-> op, left |-> hosts, at |-> {}, tries |-> 0, ok |-> TRUE]
        BY <1>3 DEF CA!Sends, CA!NoRequest
    <2>2. request' \in CaRequest BY <1>3, <2>1 DEF CaRequest
    <2>3. starts' = starts BY <1>3 DEF CA!Sends
    <2> QED BY <2>1, <2>2, <2>3
<1>5. CaTypes' BY <1>1, <1>4 DEF CaInv, CaTypes
<1>6. Installed'
    <2>1. CA!Listed' = CA!Listed BY <1>1 DEF CA!Listed
    <2> SUFFICES ASSUME NEW h \in CA!Listed,
                        steps >= 3 \/ (request'.op = "all" /\ h \notin request'.left)
                 PROVE  Current(h)'
        BY <1>1, <2>1 DEF Installed
    <2>2. steps >= 3 BY <1>3, <1>4
    <2>3. Current(h) BY <2>2 DEF CaInv, Installed
    <2> QED BY <1>1, <2>3 DEF Current
<1>7. Addressed' BY <1>4 DEF Addressed
<1>8. StartsLate' /\ CA!DeployedTruly'
    BY <1>1, <1>4 DEF CaInv, StartsLate, CA!DeployedTruly, CA!Listed
<1> QED BY <1>5, <1>6, <1>7, <1>8 DEF CaInv

LEMMA CaAcceptsStart ==
    ASSUME CaInv, CA!AcceptsStart
    PROVE  CaInv'
<1>1. /\ config' = config /\ localId' = localId /\ nodesList' = nodesList /\ request' = request
      /\ disk' = disk /\ process' = process /\ steps' = steps /\ steps >= 5
    BY DEF CA!AcceptsStart
<1>2. CA!Listed \subseteq Host /\ CA!Peers \subseteq CA!Listed /\ CA!Clients \subseteq CA!Listed
    BY DEF CA!Listed, CA!Peers, CA!Clients
<1>3. PICK op \in CA!Starting, hosts \in SUBSET CA!Listed : starts' = starts \cup ({op} \X hosts)
    BY <1>2 DEF CA!AcceptsStart
<1>4. starts \in SUBSET (CA!Starting \X Host) /\ \A t \in starts : t[2] \in CA!Listed
    BY DEF CaInv, CaTypes, StartsLate
<1>5. starts' \in SUBSET (CA!Starting \X Host) /\ \A t \in starts' : t[2] \in CA!Listed
    BY <1>2, <1>3, <1>4
<1>6. CaTypes' BY <1>1, <1>5 DEF CaInv, CaTypes
<1>7. Installed' /\ Addressed' /\ CA!DeployedTruly'
    BY <1>1 DEF CaInv, Installed, Addressed, Current, CA!DeployedTruly, CA!Listed
<1>8. StartsLate' BY <1>1, <1>5 DEF StartsLate, CA!Listed
<1> QED BY <1>6, <1>7, <1>8 DEF CaInv

\* The step that sends all files counts as done when every host has them.
LEMMA CaAnswer ==
    ASSUME CaInv, CA!Answer
    PROVE  CaInv'
<1>1. /\ config' = config /\ localId' = localId /\ nodesList' = nodesList /\ starts' = starts
      /\ disk' = disk /\ process' = process /\ request' = CA!NoRequest /\ request.left = {}
    BY DEF CA!Answer
<1>2. /\ steps' \in Nat /\ steps' >= steps
      /\ steps' >= 3 => steps >= 3 \/ (request.op = "all" /\ request.ok)
    <2>1. steps \in Nat BY DEF CaInv, CaTypes
    <2>2. CASE request.ok /\ \E i \in DOMAIN CA!Guide : CA!Guide[i] = request.op /\ i = steps + 1
        <3>1. steps' = steps + 1 BY <2>2 DEF CA!Answer
        <3>2. PICK i \in DOMAIN CA!Guide : CA!Guide[i] = request.op /\ i = steps + 1 BY <2>2
        <3>3. i = 3 => request.op = "all" BY <3>2 DEF CA!Guide
        <3> QED BY <2>1, <2>2, <3>1, <3>2, <3>3
    <2>3. CASE ~ (request.ok /\ \E i \in DOMAIN CA!Guide : CA!Guide[i] = request.op /\ i = steps + 1)
        BY <2>1, <2>3 DEF CA!Answer
    <2> QED BY <2>2, <2>3
<1>3. CaTypes' BY <1>1, <1>2, CaConstants DEF CaInv, CaTypes
<1>4. Installed'
    <2>1. CA!Listed' = CA!Listed BY <1>1 DEF CA!Listed
    <2> SUFFICES ASSUME NEW h \in CA!Listed, steps' >= 3
                 PROVE  Current(h)'
        BY <1>1, <2>1, CaConstants DEF Installed
    <2>2. Current(h) BY <1>1, <1>2 DEF CaInv, Installed
    <2> QED BY <1>1, <2>2 DEF Current
<1>5. Addressed' BY <1>1, CaConstants DEF Addressed
<1>6. StartsLate' /\ CA!DeployedTruly'
    <2>1. starts' # {} => steps' >= 5
        BY <1>1, <1>2 DEF CaInv, CaTypes, StartsLate
    <2> QED BY <1>1, <2>1 DEF CaInv, StartsLate, CA!DeployedTruly, CA!Listed
<1> QED BY <1>3, <1>4, <1>5, <1>6 DEF CaInv

\* A host that has been visited in vain makes the answer an error.
LEMMA CaTask ==
    ASSUME CaInv, NEW h \in Host, CA!Task(h)
    PROVE  CaInv'
<1>1. /\ config' = config /\ localId' = localId /\ nodesList' = nodesList
      /\ starts' = starts /\ steps' = steps
      /\ request.op \notin {"none", "prop", "hello"} /\ h \in request.left
    BY DEF CA!Task
<1>2. /\ request \in CaRequest /\ disk \in [Host -> CaDisk]
      /\ process \in [CA!Process -> [Host -> [yaml : CaYaml, data : {"none", "new", "old"}]]]
    BY DEF CaInv, CaTypes
<1>3. PICK d \in CaDisk, ok \in BOOLEAN :
        /\ disk' = [disk EXCEPT ![h] = d]
        /\ d.yaml \in {CA!NoYaml, disk[h].yaml} /\ d.data \in {"none", disk[h].data}
        /\ request' = CA!Result(h, ok)
        /\ request.op = "all" /\ ok => d.yaml = CA!NoYaml /\ d.data = "none"
    <2>0. disk[h] \in CaDisk /\ disk = [disk EXCEPT ![h] = disk[h]] BY <1>2
    <2>1. CASE /\ \E d \in CA!After(request.op, disk[h]) : disk' = [disk EXCEPT ![h] = d]
               /\ request' = CA!Result(h, TRUE)
        <3>1. PICK d \in CA!After(request.op, disk[h]) : disk' = [disk EXCEPT ![h] = d] BY <2>1
        <3>2. /\ d \in CaDisk /\ d.yaml \in {CA!NoYaml, disk[h].yaml} /\ d.data \in {"none", disk[h].data}
              /\ request.op = "all" => d.yaml = CA!NoYaml /\ d.data = "none"
            BY <2>0, <3>1, DiskAfter
        <3> QED BY <2>1, <3>1, <3>2
    <2>2. CASE request' = CA!Result(h, FALSE) /\ UNCHANGED disk BY <2>0, <2>2
    <2>3. CASE /\ \E d \in CA!Halfway(request.op, disk[h]) : disk' = [disk EXCEPT ![h] = d]
               /\ request' = CA!Result(h, request.op \in {"backup", "restore"})
        <3>1. PICK d \in CA!Halfway(request.op, disk[h]) : disk' = [disk EXCEPT ![h] = d] BY <2>3
        <3>2. d \in CaDisk /\ d.yaml \in {CA!NoYaml, disk[h].yaml} /\ d.data \in {"none", disk[h].data}
            BY <2>0, <3>1, DiskAfter
        <3>3. CASE request.op \in {"backup", "restore"}
            <4>1. request' = CA!Result(h, TRUE) BY <2>3, <3>3 DEF CA!Result
            <4> QED BY <3>1, <3>2, <3>3, <4>1
        <3>4. CASE request.op \notin {"backup", "restore"}
            <4>1. request' = CA!Result(h, FALSE) BY <2>3, <3>4 DEF CA!Result
            <4> QED BY <3>1, <3>2, <4>1
        <3> QED BY <3>3, <3>4
    <2> QED BY <2>1, <2>2, <2>3, Zenon DEF CA!Task
<1>4. /\ request' \in CaRequest /\ request'.op = request.op /\ request'.at = request.at
      /\ request'.left = request.left \ {h} /\ (request'.ok <=> request.ok /\ ok)
    BY <1>2, <1>3 DEF CA!Result, CaRequest
<1>5. \/ process' = process
      \/ \E k \in CA!Process : process' = [process EXCEPT ![k][h] = CA!NotRunning]
    <2>1. CA!KindOf(request.op) \in CA!Process BY DEF CA!KindOf, CA!Process
    <2> QED BY <2>1 DEF CA!Task, CA!Killed
<1>6. /\ process' \in [CA!Process -> [Host -> [yaml : CaYaml, data : {"none", "new", "old"}]]]
      /\ \A k \in CA!Process, g \in Host : process'[k][g] \in {process[k][g], CA!NotRunning}
    <2>1. CASE process' = process BY <1>2, <2>1
    <2>2. CASE process' # process
        <3>1. PICK k \in CA!Process : process' = [process EXCEPT ![k][h] = CA!NotRunning]
            BY <1>5, <2>2
        <3>2. process' = [process EXCEPT ![k] = [process[k] EXCEPT ![h] = CA!NotRunning]]
            BY <3>1
        <3>3. /\ [process[k] EXCEPT ![h] = CA!NotRunning]
                    \in [Host -> [yaml : CaYaml, data : {"none", "new", "old"}]]
              /\ \A g \in Host : [process[k] EXCEPT ![h] = CA!NotRunning][g]
                                    \in {process[k][g], CA!NotRunning}
            BY <1>2, CaConstants
        <3> QED BY <1>2, <3>2, <3>3
    <2> QED BY <2>1, <2>2
<1>7. CaTypes'
    <2>1. disk' \in [Host -> CaDisk] BY <1>2, <1>3
    <2> QED BY <1>1, <1>4, <1>6, <2>1 DEF CaInv, CaTypes
<1>8. Installed'
    <2>1. CA!Listed' = CA!Listed BY <1>1 DEF CA!Listed
    <2> SUFFICES ASSUME NEW g \in CA!Listed,
                        steps >= 3 \/ (request'.op = "all" /\ request'.ok /\ g \notin request'.left)
                 PROVE  Current(g)'
        BY <1>1, <2>1 DEF Installed
    <2>2. g \in Host BY DEF CA!Listed
    <2>3. CASE g # h
        <3>1. steps >= 3 \/ (request.op = "all" /\ request.ok /\ g \notin request.left)
            BY <1>4, <2>3
        <3>2. Current(g) BY <3>1 DEF CaInv, Installed
        <3>3. disk'[g] = disk[g] BY <1>2, <1>3, <2>2, <2>3
        <3> QED BY <1>1, <3>2, <3>3 DEF Current
    <2>4. CASE g = h
        <3>1. disk'[g] = d BY <1>2, <1>3, <2>2, <2>4
        <3>2. CASE steps >= 3
            <4>1. Current(g) BY <3>2 DEF CaInv, Installed
            <4> QED BY <1>1, <1>3, <2>4, <3>1, <4>1 DEF Current
        <3>3. CASE ~ (steps >= 3)
            <4>1. d.yaml = CA!NoYaml /\ d.data = "none" BY <1>3, <1>4, <3>3
            <4> QED BY <1>1, <3>1, <4>1 DEF Current
        <3> QED BY <3>2, <3>3
    <2> QED BY <2>3, <2>4
<1>9. Addressed' /\ StartsLate' BY <1>1, <1>4 DEF CaInv, Addressed, StartsLate, CA!Listed
<1>10. CA!DeployedTruly' BY <1>1, <1>6 DEF CaInv, CA!DeployedTruly, CA!Process
<1> QED BY <1>7, <1>8, <1>9, <1>10 DEF CaInv

\* Of a request only the hosts still to visit, and its success, matter here.
LEMMA CaHello ==
    ASSUME CaInv, CA!HelloHosts
    PROVE  CaInv'
<1>1. /\ config' = config /\ localId' = localId /\ nodesList' = nodesList /\ disk' = disk
      /\ starts' = starts /\ process' = process /\ steps' = steps /\ request.op = "hello"
    BY DEF CA!HelloHosts
<1>2. request \in CaRequest /\ CA!Listed \subseteq Host BY DEF CaInv, CaTypes, CA!Listed
<1>3. request' \in CaRequest /\ request'.op = "hello"
    <2>1. PICK h \in request.left :
            \/ request' = [request EXCEPT !.left = @ \ {h}]
            \/ request' = [request EXCEPT !.left = {}, !.ok = FALSE]
            \/ request' = [request EXCEPT !.left = CA!Listed, !.tries = @ + 1]
        BY DEF CA!HelloHosts
    <2>2. CASE request' = [request EXCEPT !.left = @ \ {h}] BY <1>1, <1>2, <2>2 DEF CaRequest
    <2>3. CASE request' = [request EXCEPT !.left = {}, !.ok = FALSE]
        <3>1. request' = [op |-> request.op, left |-> {}, at |-> request.at,
                          tries |-> request.tries, ok |-> FALSE]
            BY <1>2, <2>3 DEF CaRequest
        <3> QED BY <1>1, <1>2, <3>1 DEF CaRequest
    <2>4. CASE request' = [request EXCEPT !.left = CA!Listed, !.tries = @ + 1]
        <3>1. request.tries + 1 \in Nat BY <1>2 DEF CaRequest
        <3>2. PICK t \in Nat : request' = [request EXCEPT !.left = CA!Listed, !.tries = t]
            BY <2>4, <3>1
        <3> QED BY <1>1, <1>2, <3>2 DEF CaRequest
    <2> QED BY <2>1, <2>2, <2>3, <2>4
<1>4. CaTypes' BY <1>1, <1>3 DEF CaInv, CaTypes
<1>5. Installed' /\ Addressed' /\ StartsLate' /\ CA!DeployedTruly'
    BY <1>1, <1>3 DEF CaInv, Installed, Addressed, StartsLate, Current, CA!DeployedTruly, CA!Listed
<1> QED BY <1>4, <1>5 DEF CaInv

LEMMA CaLocalId ==
    ASSUME CaInv, CA!SetLocalId
    PROVE  CaInv'
<1>1. /\ config' = config /\ nodesList' = nodesList /\ disk' = disk
      /\ starts' = starts /\ process' = process /\ steps' = steps /\ request.op = "prop"
    BY DEF CA!SetLocalId
<1>2. PICK h \in request.left :
        /\ localId' = nodesList[h].id
        /\ request' = [request EXCEPT !.at = {h}, !.left = @ \ {h}, !.tries = 0]
    BY DEF CA!SetLocalId
<1>3. request \in CaRequest /\ h \in Host /\ nodesList[h] \in [id : Int, isClient : BOOLEAN]
    BY <1>2 DEF CaInv, CaTypes, CaRequest
<1>4. request' \in CaRequest /\ request'.op = "prop" /\ request'.at = {h} /\ localId' \in Int
    BY <1>1, <1>2, <1>3 DEF CaRequest
<1>5. CaTypes' BY <1>1, <1>4 DEF CaInv, CaTypes
<1>6. Addressed' BY <1>1, <1>2, <1>4 DEF Addressed
<1>7. Installed' /\ StartsLate' /\ CA!DeployedTruly'
    BY <1>1, <1>4 DEF CaInv, Installed, StartsLate, Current, CA!DeployedTruly, CA!Listed
<1> QED BY <1>5, <1>6, <1>7 DEF CaInv

\* The configuration that is uploaded is the one of the host that gets it.
LEMMA CaTransmit ==
    ASSUME CaInv, CA!transmitPropertiesToRemote
    PROVE  CaInv'
<1>1. /\ config' = config /\ localId' = localId /\ nodesList' = nodesList
      /\ starts' = starts /\ process' = process /\ steps' = steps /\ request.op = "prop"
    BY DEF CA!transmitPropertiesToRemote
<1>2. PICK h \in request.at :
        \/ /\ disk' = [disk EXCEPT ![h].yaml = [id |-> localId, nodes |-> config]]
           /\ request' = [request EXCEPT !.at = {}]
        \/ /\ request' = [request EXCEPT !.tries = @ + 1,
                                         !.at = IF request.tries + 1 = Tries THEN {} ELSE @]
           /\ UNCHANGED disk
    BY DEF CA!transmitPropertiesToRemote
<1>3. /\ request \in CaRequest /\ h \in Host /\ disk \in [Host -> CaDisk] /\ localId \in Int
      /\ config \in Seq(Host \cup {"default", "elsewhere"})
    BY <1>2 DEF CaInv, CaTypes, CaRequest
<1>4. localId = nodesList[h].id BY <1>1, <1>2 DEF CaInv, Addressed
<1>5. request' \in CaRequest /\ request'.op = "prop" /\ request'.at \subseteq request.at
    <2>1. CASE request' = [request EXCEPT !.at = {}] BY <1>1, <1>3, <2>1 DEF CaRequest
    <2>2. CASE request' = [request EXCEPT !.tries = @ + 1,
                                          !.at = IF request.tries + 1 = Tries THEN {} ELSE @]
        <3>1. PICK s \in SUBSET request.at : request' = [request EXCEPT !.tries = @ + 1, !.at = s]
            <4>1. CASE request.tries + 1 = Tries BY <2>2, <4>1
            <4>2. CASE request.tries + 1 # Tries BY <2>2, <4>2
            <4> QED BY <4>1, <4>2
        <3>2. request.tries + 1 \in Nat BY <1>3 DEF CaRequest
        <3>3. PICK t \in Nat : request' = [request EXCEPT !.tries = t, !.at = s] BY <3>1, <3>2
        <3> QED BY <1>1, <1>3, <3>3 DEF CaRequest
    <2> QED BY <1>2, <2>1, <2>2
<1>6. disk' \in [Host -> CaDisk] /\ \A g \in CA!Listed : Current(g) => Current(g)'
    <2>1. CASE disk' = disk BY <1>1, <1>3, <2>1 DEF Current
    <2>2. CASE disk' # disk
        <3> DEFINE y == [id |-> localId, nodes |-> config]
        <3>1. disk' = [disk EXCEPT ![h] = [disk[h] EXCEPT !.yaml = y]] BY <1>2, <2>2
        <3>2. y \in CaYaml BY <1>3 DEF CaYaml
        <3>3. y = [id |-> nodesList[h].id, nodes |-> config] BY <1>4
        <3> HIDE DEF y
        <3>4. PICK d \in CaDisk : d = [disk[h] EXCEPT !.yaml = y] /\ d.yaml = y /\ d.data = disk[h].data
            <4>1. PICK x \in CaDisk : x = disk[h] BY <1>3
            <4>2. /\ [x EXCEPT !.yaml = y] \in CaDisk /\ [x EXCEPT !.yaml = y].yaml = y
                  /\ [x EXCEPT !.yaml = y].data = x.data
                BY <3>2 DEF CaDisk
            <4> QED BY <4>1, <4>2
        <3>5. disk' = [disk EXCEPT ![h] = d] BY <3>1, <3>4
        <3>6. disk' \in [Host -> CaDisk] BY <1>3, <3>5
        <3>7. ASSUME NEW g \in CA!Listed, Current(g) PROVE Current(g)'
            <4>1. g \in Host BY DEF CA!Listed
            <4>2. CASE g = h
                <5>1. disk'[g] = d BY <1>3, <3>5, <4>1, <4>2
                <5> QED BY <1>1, <3>3, <3>4, <3>7, <4>2, <5>1 DEF Current
            <4>3. CASE g # h
                <5>1. disk'[g] = disk[g] BY <1>3, <3>5, <4>1, <4>3
                <5> QED BY <1>1, <3>7, <5>1 DEF Current
            <4> QED BY <4>2, <4>3
        <3> QED BY <3>6, <3>7
    <2> QED BY <2>1, <2>2
<1>7. CaTypes' BY <1>1, <1>5, <1>6 DEF CaInv, CaTypes
<1>8. Installed'
    <2>1. CA!Listed' = CA!Listed BY <1>1 DEF CA!Listed
    <2>2. ASSUME NEW g \in CA!Listed, steps >= 3 PROVE Current(g)'
        BY <1>6, <2>2 DEF CaInv, Installed
    <2> QED BY <1>1, <1>5, <2>1, <2>2 DEF Installed
<1>9. Addressed' BY <1>1, <1>5 DEF CaInv, Addressed
<1>10. StartsLate' /\ CA!DeployedTruly'
    BY <1>1 DEF CaInv, StartsLate, CA!DeployedTruly, CA!Listed
<1> QED BY <1>7, <1>8, <1>9, <1>10 DEF CaInv

\* A process loads what belongs to this deployment.
LEMMA CaStart ==
    ASSUME CaInv, NEW op \in CA!Starting, NEW h \in Host, CA!start(op, h)
    PROVE  CaInv'
<1> DEFINE k == CA!KindOf(op)
           d == IF op = "generate" THEN CA!generateDatabase(disk[h]) ELSE disk[h]
           loaded == [d EXCEPT !.data = "new"]
<1>1. /\ config' = config /\ localId' = localId /\ nodesList' = nodesList
      /\ request' = request /\ steps' = steps
      /\ <<op, h>> \in starts /\ starts' = starts \ {<<op, h>>}
    BY DEF CA!start
<1>2. /\ disk \in [Host -> CaDisk] /\ disk[h] \in CaDisk /\ k \in CA!Process
      /\ process \in [CA!Process -> [Host -> [yaml : CaYaml, data : {"none", "new", "old"}]]]
    BY DEF CaInv, CaTypes, CA!KindOf, CA!Process
<1>3. h \in CA!Listed /\ Current(h)
    <2>1. steps >= 5 /\ steps \in Nat /\ \A t \in starts : t[2] \in CA!Listed
        BY <1>1 DEF CaInv, CaTypes, StartsLate
    <2>2. h \in CA!Listed BY <1>1, <2>1
    <2> QED BY <2>1, <2>2 DEF CaInv, Installed
<1>4. d \in CaDisk /\ d.yaml = disk[h].yaml /\ d.data # "old"
    <2>1. CASE d = disk[h] BY <1>2, <1>3, <2>1 DEF Current
    <2>2. CASE d # disk[h]
        <3>1. d = [disk[h] EXCEPT !.data = "none"]
            <4>1. /\ d = [disk[h] EXCEPT !.data = IF disk[h].pack THEN "none" ELSE disk[h].data]
                  /\ disk[h] = [disk[h] EXCEPT !.data = disk[h].data]
                BY <1>2, <2>2 DEF CA!generateDatabase, CaDisk
            <4>2. CASE disk[h].pack BY <4>1, <4>2
            <4>3. CASE ~ disk[h].pack BY <2>2, <4>1, <4>3
            <4> QED BY <4>2, <4>3
        <3> HIDE DEF d
        <3> QED BY <1>2, <3>1, DiskFields
    <2> QED BY <2>1, <2>2
<1> HIDE DEF d
<1>5. loaded \in CaDisk /\ loaded.yaml = disk[h].yaml /\ loaded.data # "old"
    BY <1>4, DiskFields
<1> HIDE DEF loaded
<1>6. PICK e \in CaDisk : /\ disk' = [disk EXCEPT ![h] = e]
                          /\ e.yaml = disk[h].yaml /\ e.data # "old"
    <2>1. disk = [disk EXCEPT ![h] = disk[h]] /\ disk[h].data # "old" BY <1>2, <1>3 DEF Current
    <2>2. disk' \in {disk, [disk EXCEPT ![h] = d], [disk EXCEPT ![h] = loaded]}
        BY DEF CA!start, d, loaded
    <2> QED BY <1>2, <1>4, <1>5, <2>1, <2>2
<1>7. \/ process' = process
      \/ /\ CA!Runnable(d)
         /\ process' = [process EXCEPT ![k][h] = CA!LoadProperties(d)]
    BY DEF CA!start, d
<1>8. /\ CA!LoadProperties(d) \in [yaml : CaYaml, data : {"none", "new", "old"}]
      /\ CA!LoadProperties(d).data # "old"
      /\ CA!Runnable(d) => CA!LoadProperties(d).yaml = [id |-> nodesList[h].id, nodes |-> config]
    <2>1. CA!LoadProperties(d) = [yaml |-> d.yaml, data |-> d.data] BY DEF CA!LoadProperties
    <2>2. CA!Runnable(d) => d.yaml = [id |-> nodesList[h].id, nodes |-> config]
        BY <1>3, <1>4 DEF CA!Runnable, Current
    <2> QED BY <1>4, <2>1, <2>2 DEF CaDisk
<1>9. /\ process' \in [CA!Process -> [Host -> [yaml : CaYaml, data : {"none", "new", "old"}]]]
      /\ \A j \in CA!Process, g \in Host :
            \/ process'[j][g] = process[j][g]
            \/ /\ g = h /\ process'[j][g].data # "old"
               /\ process'[j][g].yaml = [id |-> nodesList[h].id, nodes |-> config]
    <2>1. CASE process' = process BY <1>2, <2>1
    <2>2. CASE process' # process
        <3> DEFINE row == [process[k] EXCEPT ![h] = CA!LoadProperties(d)]
        <3>1. process' = [process EXCEPT ![k] = row] /\ CA!Runnable(d) BY <1>7, <2>2
        <3>2. /\ row \in [Host -> [yaml : CaYaml, data : {"none", "new", "old"}]]
              /\ row[h] = CA!LoadProperties(d) /\ \A g \in Host \ {h} : row[g] = process[k][g]
            BY <1>2, <1>8
        <3> HIDE DEF row, k
        <3> QED BY <1>2, <1>8, <3>1, <3>2
    <2> QED BY <2>1, <2>2
<1>10. CaTypes'
    <2>1. disk' \in [Host -> CaDisk] BY <1>2, <1>6
    <2>2. starts' \in SUBSET (CA!Starting \X Host) BY <1>1 DEF CaInv, CaTypes
    <2> QED BY <1>1, <1>9, <2>1, <2>2 DEF CaInv, CaTypes
<1>11. Installed'
    <2>1. CA!Listed' = CA!Listed BY <1>1 DEF CA!Listed
    <2>2. ASSUME NEW g \in CA!Listed, Current(g) PROVE Current(g)'
        <3>1. g \in Host BY DEF CA!Listed
        <3>2. CASE g = h
            <4>1. disk'[g] = e BY <1>2, <1>6, <3>1, <3>2
            <4> QED BY <1>1, <1>6, <2>2, <3>2, <4>1 DEF Current
        <3>3. CASE g # h
            <4>1. disk'[g] = disk[g] BY <1>2, <1>6, <3>1, <3>3
            <4> QED BY <1>1, <2>2, <4>1 DEF Current
        <3> QED BY <3>2, <3>3
    <2> QED BY <1>1, <2>1, <2>2 DEF CaInv, Installed
<1>12. Addressed' /\ StartsLate' BY <1>1 DEF CaInv, Addressed, StartsLate, CA!Listed
<1>13. CA!DeployedTruly' BY <1>1, <1>9 DEF CaInv, CA!DeployedTruly
<1> QED BY <1>10, <1>11, <1>12, <1>13 DEF CaInv

LEMMA CaStep == CaInv /\ [CA!Next]_caVars => CaInv'
<1> SUFFICES ASSUME CaInv, [CA!Next]_caVars PROVE CaInv' OBVIOUS
<1>1. CASE UNCHANGED caVars
    BY <1>1 DEF caVars, CaInv, CaTypes, Installed, Addressed, StartsLate, Current,
                CA!DeployedTruly, CA!Listed
<1>2. CASE CA!Next
    BY <1>2, CaConfigured, CaAccepts, CaAcceptsStart, CaAnswer, CaTask, CaHello, CaLocalId,
       CaTransmit, CaStart DEF CA!Next, CA!Work
<1> QED BY <1>1, <1>2

\* The invariant of the certificate authority, for any number of hosts, nodes,
\* requests and faults.
THEOREM CaInvariance == MCSpec => []CaInv
<1>1. MCInit => CaInv BY CaInit DEF MCInit
<1>2. CaInv /\ [MCNext]_all => CaInv'
    BY CaStep DEF MCNext, all
<1> QED BY <1>1, <1>2, PTL DEF MCSpec

\* Whatever failed on the way (executeCommand does not look at exit codes, and
\* some operations report success although they failed), a process that
\* startPeer, startUser or generateDatabase has started has the identity its host
\* is listed under, the nodes of this deployment, and not the logs of an earlier
\* one; for any number of hosts, nodes, requests and faults.
THEOREM ProcessesDeployedTruly == MCSpec => []DeployedTruly
<1>1. CaInv => DeployedTruly BY DEF CaInv, DeployedTruly
<1> QED BY <1>1, CaInvariance, PTL

\* ReplicasAgree, of the nodes of the deployment.
THEOREM DeploymentAgrees == ASSUME GroupCount > 1 PROVE MCSpec => []Agreement
<1>1. MCInit => Init BY DEF MCInit
<1>2. [MCNext]_all => [Next]_vars BY DEF MCNext, all
<1>3. MCSpec => Spec BY <1>1, <1>2, PTL DEF MCSpec, Spec
<1> QED BY <1>3, ReplicasAgree, PTL
-----------------------------------------------------------------------------
(* The set-up of the ordering, for any layout of groups.                    *)

\* every group has a node
ProperLayout ==
    /\ deployment.nodes \in Seq(Nat \ {0}) /\ Len(deployment.nodes) > 0

\* the groups whose logs are kept in Raft
RaftLogs(o) == CASE o = "massbft" -> O!Groups [] o = "steward" -> {0} [] OTHER -> {}

\* f + 1 nodes of every group, the leader among them
LEMMA ParticipantsSound ==
    ASSUME ProperLayout
    PROVE  /\ O!Participants \subseteq O!AllNodes
           /\ \A g \in O!Groups : /\ O!Leader(g) \in O!Participants
                                  /\ O!Leader(g) \in O!Nodes(g)
           /\ 0 \in O!Groups
<1>1. \A g \in O!Groups : deployment.nodes[g + 1] \in Nat \ {0}
    BY DEF ProperLayout, O!Groups
<1>2. ASSUME NEW g \in O!Groups PROVE O!Leader(g) \in O!Nodes(g) /\ O!Leader(g) \in O!Participants
    <2>1. PICK k \in Nat \ {0} : k = deployment.nodes[g + 1] BY <1>1
    <2>2. 0 \in 0 .. k - 1 /\ 0 <= (k - 1) \div 3 BY <2>1
    <2>3. O!Leader(g) \in O!Nodes(g) /\ O!Leader(g)[2] = 0
        BY <2>1, <2>2 DEF O!Leader, O!Nodes
    <2>4. O!Leader(g) \in {m \in O!Nodes(g) : m[2] <= (deployment.nodes[g + 1] - 1) \div 3}
        BY <2>1, <2>2, <2>3
    <2> QED BY <2>3, <2>4 DEF O!Participants
<1>3. O!Participants \subseteq O!AllNodes BY DEF O!Participants, O!AllNodes
<1>4. 0 \in O!Groups BY DEF ProperLayout, O!Groups
<1> QED BY <1>2, <1>3, <1>4

\* The Raft nodes that are started: one per participant and log.
LEMMA StartedRaft ==
    ASSUME ProperLayout, NEW o \in O!Ordering, NEW m \in O!AllNodes
    PROVE  O!Setup(o, m).raft =
             IF m \in O!Participants THEN {O!startCluster(m, g) : g \in RaftLogs(o)} ELSE {}
<1> DEFINE all1 == IF m \in O!Participants THEN {O!startCluster(m, g) : g \in O!Groups} ELSE {}
<1>1. O!NewBlockOrder(m).raft = all1 BY DEF O!NewBlockOrder
<1>2. CASE o = "massbft" BY <1>1, <1>2 DEF O!Setup, RaftLogs
<1>3. CASE o = "geobft" BY <1>3 DEF O!Setup, O!NewGeoBFTBlockOrder, RaftLogs
<1>4. CASE o = "steward"
    <2>1. O!Setup(o, m) = [O!NewBlockOrder(m) EXCEPT !.raft = {r \in O!NewBlockOrder(m).raft : r.id[2] = 0}]
        BY <1>4 DEF O!Setup, O!NewStewardBlockOrder
    <2>2. O!Setup(o, m).raft = {r \in all1 : r.id[2] = 0}
        BY <1>1, <2>1 DEF O!NewBlockOrder
    <2>3. \A g : O!startCluster(m, g).id[2] = g BY DEF O!startCluster
    <2>4. RaftLogs(o) = {0} /\ 0 \in O!Groups BY <1>4, ParticipantsSound DEF RaftLogs
    <2> QED BY <2>2, <2>3, <2>4
<1> QED BY <1>2, <1>3, <1>4 DEF O!Ordering

\* The nodes agree on the Raft groups for every layout of groups with a node
\* each, although each works them out alone (newGlobalBlockOrdering and
\* NewBlockOrder): peers, leader, and that every node hears all logs.
THEOREM SetupAlwaysAgrees == ASSUME ProperLayout PROVE O!SetupAgrees
<1> SUFFICES ASSUME NEW o \in O!Ordering
             PROVE  LET S == [m \in O!AllNodes |-> O!Setup(o, m)]
                        started == UNION {S[m].raft : m \in O!AllNodes}
                    IN  /\ \A r \in started :
                             /\ r.peers = {k.id : k \in {q \in started : q.id[2] = r.id[2]}}
                             /\ \A q \in started : q.id[2] = r.id[2] => q.leader = r.leader
                        /\ o # "geobft" => \A g \in O!Producers(o) :
                             /\ S[O!Leader(g)].isRaftLeader
                             /\ \E r \in S[O!Leader(g)].raft :
                                    r.id = <<O!Leader(g), g>> /\ r.leader = r.id
                             /\ \A m \in O!AllNodes : \E k \in S[m].hears :
                                    \E r \in S[k].raft : r.id[2] = g
    BY DEF O!SetupAgrees
<1> DEFINE S == [m \in O!AllNodes |-> O!Setup(o, m)]
           started == UNION {S[m].raft : m \in O!AllNodes}
<1>1. \A m \in O!AllNodes : S[m].raft =
        IF m \in O!Participants THEN {O!startCluster(m, g) : g \in RaftLogs(o)} ELSE {}
    BY StartedRaft
<1>2. \A r : r \in started <=> \E m \in O!Participants, g \in RaftLogs(o) : r = O!startCluster(m, g)
    <2> SUFFICES ASSUME NEW r
                 PROVE  r \in started <=> \E m \in O!Participants, g \in RaftLogs(o) : r = O!startCluster(m, g)
        OBVIOUS
    <2>1. r \in started <=> \E m \in O!AllNodes : r \in S[m].raft OBVIOUS
    <2> HIDE DEF S, started
    <2>2. ASSUME NEW m \in O!AllNodes, r \in S[m].raft
          PROVE  \E k \in O!Participants, g \in RaftLogs(o) : r = O!startCluster(k, g)
        <3>1. m \in O!Participants BY <1>1, <2>2
        <3>2. r \in {O!startCluster(m, g) : g \in RaftLogs(o)} BY <1>1, <2>2, <3>1
        <3> QED BY <3>1, <3>2
    <2>3. ASSUME NEW m \in O!Participants, NEW g \in RaftLogs(o), r = O!startCluster(m, g)
          PROVE  m \in O!AllNodes /\ r \in S[m].raft
        <3>1. m \in O!AllNodes BY ParticipantsSound
        <3>2. S[m].raft = {O!startCluster(m, h) : h \in RaftLogs(o)} BY <1>1, <3>1
        <3> QED BY <2>3, <3>1, <3>2
    <2> QED BY <2>1, <2>2, <2>3
<1>3. \A m, g : /\ O!startCluster(m, g).id = <<m, g>> /\ O!startCluster(m, g).id[2] = g
                /\ O!startCluster(m, g).peers = {<<k, g>> : k \in O!Participants}
                /\ O!startCluster(m, g).leader = <<O!Leader(g), g>>
    BY DEF O!startCluster
<1> HIDE DEF started
<1>4. ASSUME NEW r \in started
      PROVE  /\ r.peers = {k.id : k \in {q \in started : q.id[2] = r.id[2]}}
             /\ \A q \in started : q.id[2] = r.id[2] => q.leader = r.leader
    <2>1. PICK m \in O!Participants, g \in RaftLogs(o) : r = O!startCluster(m, g) BY <1>2
    <2>2. r.id[2] = g /\ r.leader = <<O!Leader(g), g>> /\ r.peers = {<<k, g>> : k \in O!Participants}
        BY <1>3, <2>1
    <2>3. \A q : q \in started /\ q.id[2] = g <=> \E k \in O!Participants : q = O!startCluster(k, g)
        BY <1>2, <1>3, <2>1
    <2>4. {k.id : k \in {q \in started : q.id[2] = g}} = {<<k, g>> : k \in O!Participants}
        <3> DEFINE Q == {q \in started : q.id[2] = g}
        <3>1. \A q : q \in Q <=> \E k \in O!Participants : q = O!startCluster(k, g) BY <2>3
        <3> HIDE DEF Q
        <3>2. ASSUME NEW x \in {q.id : q \in Q} PROVE x \in {<<k, g>> : k \in O!Participants}
            <4>1. PICK q \in Q : x = q.id OBVIOUS
            <4>2. PICK k \in O!Participants : q = O!startCluster(k, g) BY <3>1
            <4>3. x = <<k, g>> BY <1>3, <4>1, <4>2
            <4> QED BY <4>3
        <3>3. ASSUME NEW k \in O!Participants PROVE <<k, g>> \in {q.id : q \in Q}
            <4>1. O!startCluster(k, g) \in Q BY <3>1
            <4>2. O!startCluster(k, g).id = <<k, g>> BY <1>3
            <4> QED BY <4>1, <4>2
        <3>4. {q.id : q \in Q} = {<<k, g>> : k \in O!Participants} BY <3>2, <3>3
        <3> QED BY <3>4 DEF Q
    <2>5. \A q \in started : q.id[2] = g => q.leader = <<O!Leader(g), g>>
        BY <1>3, <2>3
    <2> QED BY <2>2, <2>4, <2>5
<1>5. ASSUME o # "geobft", NEW g \in O!Producers(o)
      PROVE  /\ S[O!Leader(g)].isRaftLeader
             /\ \E r \in S[O!Leader(g)].raft : r.id = <<O!Leader(g), g>> /\ r.leader = r.id
             /\ \A m \in O!AllNodes : \E k \in S[m].hears : \E r \in S[k].raft : r.id[2] = g
    <2>1. g \in RaftLogs(o) /\ g \in O!Groups
        BY <1>5, ParticipantsSound DEF O!Producers, RaftLogs, O!Ordering
    <2>2. O!Leader(g) \in O!AllNodes /\ O!Leader(g) \in O!Participants
        BY <2>1, ParticipantsSound
    <2>3. \A m \in O!AllNodes : O!Setup(o, m).isRaftLeader = (\E h \in O!Groups : m = O!Leader(h))
                             /\ O!Setup(o, m).hears = O!NewLocalDistributor(m)
        BY <1>5 DEF O!Setup, O!NewBlockOrder, O!NewStewardBlockOrder, O!Ordering
    <2>4. S[O!Leader(g)].isRaftLeader BY <2>1, <2>2, <2>3
    <2>5. \E r \in S[O!Leader(g)].raft : r.id = <<O!Leader(g), g>> /\ r.leader = r.id
        <3>1. O!startCluster(O!Leader(g), g) \in S[O!Leader(g)].raft
            <4> HIDE DEF S
            <4>1. S[O!Leader(g)].raft = {O!startCluster(O!Leader(g), h) : h \in RaftLogs(o)}
                BY <1>1, <2>2
            <4> QED BY <2>1, <4>1
        <3>2. /\ O!startCluster(O!Leader(g), g).id = <<O!Leader(g), g>>
              /\ O!startCluster(O!Leader(g), g).leader = <<O!Leader(g), g>>
            BY <1>3
        <3> QED BY <3>1, <3>2, Zenon
    <2>6. ASSUME NEW m \in O!AllNodes
          PROVE  \E k \in S[m].hears : \E r \in S[k].raft : r.id[2] = g
        <3>1. PICK h \in O!Groups : m \in O!Nodes(h) BY DEF O!AllNodes
        <3>2. m[1] = h BY <3>1 DEF O!Nodes
        <3>3. O!Leader(h) \in S[m].hears BY <2>3, <3>1, <3>2, ParticipantsSound DEF O!NewLocalDistributor
        <3>4. O!Leader(h) \in O!AllNodes /\ O!Leader(h) \in O!Participants
            BY <3>1, ParticipantsSound
        <3>5. O!startCluster(O!Leader(h), g) \in S[O!Leader(h)].raft BY <1>1, <2>1, <3>4
        <3> QED BY <1>3, <3>3, <3>5
    <2> QED BY <2>4, <2>5, <2>6
<1> QED BY <1>4, <1>5, Zenon DEF started
-----------------------------------------------------------------------------
(* The ports, for any layout of groups.                                      *)

\* t holds the sums of the first numbers of s, up to the n-th
IsSums(t, s, n) == t = [k \in 0 .. n |-> IF k = 0 THEN 0 ELSE t[k - 1] + s[k]]

LEMMA SumsExist ==
    ASSUME NEW s, NEW n \in Nat
    PROVE  \E t : IsSums(t, s, n)
<1> DEFINE Missing == {m \in Nat : ~ \E t : IsSums(t, s, m)}
<1> SUFFICES ASSUME Missing # {} PROVE FALSE OBVIOUS
<1>1. PICK m \in Missing : \A l \in Missing : m <= l
    <2> HIDE DEF Missing
    <2>1. Missing \subseteq Nat BY DEF Missing
    <2> QED BY <2>1, NodeAssumptions, PA!LeastNatural
<1>2. m # 0
    <2>1. IsSums([k \in 0 .. 0 |-> 0], s, 0) BY DEF IsSums
    <2> QED BY <2>1
<1>3. m - 1 \in Nat /\ m - 1 \notin Missing BY <1>1, <1>2
<1>4. PICK t : IsSums(t, s, m - 1) BY <1>3
<1> DEFINE last == t[m - 1] + s[m]
           u == [k \in 0 .. m |-> IF k = m THEN last ELSE t[k]]
<1>5. IsSums(u, s, m)
    <2>1. \A k \in 0 .. m - 1 : u[k] = t[k] BY <1>3
    <2>2. u[m] = last BY <1>3
    <2> HIDE DEF last
    <2>3. ASSUME NEW k \in 0 .. m PROVE u[k] = IF k = 0 THEN 0 ELSE u[k - 1] + s[k]
        <3>1. CASE k = m
            <4>1. u[m - 1] = t[m - 1] BY <1>3, <2>1
            <4> HIDE DEF u
            <4> QED BY <1>2, <2>2, <3>1, <4>1 DEF last
        <3>2. CASE k # m /\ k # 0
            <4>1. k \in 0 .. m - 1 /\ k - 1 \in 0 .. m - 1 BY <1>3, <3>2
            <4>2. t[k] = t[k - 1] + s[k] BY <1>4, <3>2, <4>1 DEF IsSums
            <4>3. u[k] = t[k] /\ u[k - 1] = t[k - 1] BY <2>1, <4>1
            <4> HIDE DEF u
            <4> QED BY <3>2, <4>2, <4>3
        <3>3. CASE k = 0
            <4>1. t[0] = 0 BY <1>3, <1>4 DEF IsSums
            <4> QED BY <1>2, <1>3, <2>1, <3>3, <4>1
        <3> QED BY <3>1, <3>2, <3>3
    <2>4. u = [k \in 0 .. m |-> u[k]] OBVIOUS
    <2> HIDE DEF u
    <2> QED BY <2>3, <2>4 DEF IsSums
<1> HIDE DEF u
<1> QED BY <1>5

\* a deployment: groups with a node each, and a first port
IsDeployment(d) == d.nodes \in Seq(Nat \ {0}) /\ Len(d.nodes) > 0 /\ d.offset \in Nat

\* what Before adds up
LEMMA BeforeSums ==
    ASSUME NEW d, IsDeployment(d)
    PROVE  /\ P!Before(d, 0) = 0
           /\ \A g \in 1 .. Len(d.nodes) : P!Before(d, g) = P!Before(d, g - 1) + d.nodes[g]
           /\ \A g \in 0 .. Len(d.nodes) : P!Before(d, g) \in Nat
<1> DEFINE L == Len(d.nodes)
           t == CHOOSE x : IsSums(x, d.nodes, L)
<1>1. L \in Nat /\ \A g \in 1 .. L : d.nodes[g] \in Nat \ {0} BY DEF IsDeployment
<1>2. IsSums(t, d.nodes, L) BY <1>1, SumsExist
<1>3. \A g : P!Before(d, g) = t[g] BY Zenon DEF P!Before, IsSums
<1> HIDE DEF t
<1>4. t[0] = 0 /\ \A g \in 1 .. L : t[g] = t[g - 1] + d.nodes[g]
    <2>1. \A k \in 0 .. L : t[k] = IF k = 0 THEN 0 ELSE t[k - 1] + d.nodes[k] BY <1>2 DEF IsSums
    <2> HIDE DEF L
    <2> QED BY <1>1, <2>1
<1> DEFINE Wrong == {g \in 0 .. L : t[g] \notin Nat}
<1>5. Wrong = {}
    <2> SUFFICES ASSUME Wrong # {} PROVE FALSE OBVIOUS
    <2>1. PICK g \in Wrong : \A h \in Wrong : g <= h
        <3>1. Wrong \subseteq Nat BY <1>1
        <3> HIDE DEF Wrong
        <3> QED BY <3>1, NodeAssumptions, PA!LeastNatural
    <2>2. g # 0 BY <1>4
    <2>3. g \in 1 .. L /\ g - 1 \in 0 .. L /\ g - 1 \notin Wrong BY <1>1, <2>1, <2>2
    <2>4. t[g - 1] \in Nat /\ t[g] = t[g - 1] + d.nodes[g] /\ d.nodes[g] \in Nat BY <1>1, <1>4, <2>3
    <2> QED BY <2>1, <2>4
<1> QED BY <1>3, <1>4, <1>5

\* the nodes of a group come before those of the next ones
LEMMA BeforeGrows ==
    ASSUME NEW d, IsDeployment(d), NEW g \in P!Groups(d), NEW h \in 0 .. Len(d.nodes), g < h
    PROVE  P!Before(d, g) + d.nodes[g + 1] <= P!Before(d, h)
<1> DEFINE L == Len(d.nodes)
           Sum(k) == P!Before(d, k)
           Wrong == {k \in 0 .. L : g < k /\ ~ (Sum(g) + d.nodes[g + 1] <= Sum(k))}
<1>1. /\ L \in Nat /\ g \in 0 .. L - 1
      /\ \A k \in 1 .. L : d.nodes[k] \in Nat \ {0} /\ Sum(k) = Sum(k - 1) + d.nodes[k]
      /\ \A k \in 0 .. L : Sum(k) \in Nat
    BY BeforeSums DEF IsDeployment, P!Groups
<1> HIDE DEF Sum
<1> SUFFICES ASSUME Wrong # {} PROVE FALSE BY DEF Sum
<1>2. PICK k \in Wrong : \A l \in Wrong : k <= l
    <2>1. Wrong \subseteq Nat BY <1>1
    <2> HIDE DEF Wrong
    <2> QED BY <2>1, NodeAssumptions, PA!LeastNatural
<1>3. CASE k = g + 1 BY <1>1, <1>2, <1>3
<1>4. CASE k # g + 1
    <2>1. k - 1 \in 0 .. L /\ g < k - 1 /\ k - 1 \notin Wrong BY <1>1, <1>2, <1>4
    <2>2. Sum(g) + d.nodes[g + 1] <= Sum(k - 1) BY <2>1
    <2>3. k \in 1 .. L /\ g \in 0 .. L /\ g + 1 \in 1 .. L BY <1>1, <1>2, <1>4
    <2>4. /\ Sum(k) = Sum(k - 1) + d.nodes[k] /\ d.nodes[k] \in Nat /\ d.nodes[g + 1] \in Nat
          /\ Sum(k) \in Nat /\ Sum(k - 1) \in Nat /\ Sum(g) \in Nat
        BY <1>1, <2>1, <2>3
    <2>5. ~ (Sum(g) + d.nodes[g + 1] <= Sum(k)) BY <1>2
    <2> QED BY <2>2, <2>4, <2>5
<1> QED BY <1>3, <1>4

\* how many nodes come before node m
Index(d, m) == P!Before(d, m[1]) + m[2]

LEMMA IndexDistinct ==
    ASSUME NEW d, IsDeployment(d), NEW m \in P!AllNodes(d)
    PROVE  /\ m = <<m[1], m[2]>> /\ m[1] \in P!Groups(d) /\ m[2] \in P!Nodes(d, m[1])
           /\ Index(d, m) \in 0 .. P!Before(d, Len(d.nodes)) - 1
           /\ \A k \in P!AllNodes(d) : k # m => Index(d, k) # Index(d, m)
<1>1. ASSUME NEW k \in P!AllNodes(d)
      PROVE  /\ k = <<k[1], k[2]>> /\ k[1] \in P!Groups(d) /\ k[2] \in P!Nodes(d, k[1])
             /\ k[2] \in Nat /\ k[2] < d.nodes[k[1] + 1] /\ d.nodes[k[1] + 1] \in Nat
             /\ P!Before(d, k[1]) \in Nat /\ k[1] \in 0 .. Len(d.nodes) /\ k[1] < Len(d.nodes)
    <2>1. PICK g \in P!Groups(d) : k \in {g} \X P!Nodes(d, g) BY DEF P!AllNodes
    <2>2. k = <<k[1], k[2]>> /\ k[1] = g /\ k[2] \in P!Nodes(d, g) BY <2>1
    <2>3. g \in 0 .. Len(d.nodes) /\ g < Len(d.nodes) /\ d.nodes[g + 1] \in Nat BY DEF P!Groups, IsDeployment
    <2> QED BY <2>2, <2>3, BeforeSums DEF P!Nodes
<1>2. Len(d.nodes) \in Nat /\ P!Before(d, Len(d.nodes)) \in Nat BY BeforeSums DEF IsDeployment
<1>3. Index(d, m) \in 0 .. P!Before(d, Len(d.nodes)) - 1
    <2>1. P!Before(d, m[1]) + d.nodes[m[1] + 1] <= P!Before(d, Len(d.nodes))
        BY <1>1, <1>2, BeforeGrows
    <2> QED BY <1>1, <1>2, <2>1 DEF Index
<1>4. ASSUME NEW k \in P!AllNodes(d), k # m PROVE Index(d, k) # Index(d, m)
    <2>1. CASE k[1] = m[1]
        <3>1. k[2] # m[2] BY <1>1, <1>4, <2>1, Zenon
        <3>2. P!Before(d, k[1]) = P!Before(d, m[1]) BY <2>1
        <3> QED BY <1>1, <3>1, <3>2 DEF Index
    <2>2. CASE k[1] < m[1]
        <3>1. P!Before(d, k[1]) + d.nodes[k[1] + 1] <= P!Before(d, m[1]) BY <1>1, <2>2, BeforeGrows
        <3> QED BY <1>1, <3>1 DEF Index
    <2>3. CASE m[1] < k[1]
        <3>1. P!Before(d, m[1]) + d.nodes[m[1] + 1] <= P!Before(d, k[1]) BY <1>1, <2>3, BeforeGrows
        <3> QED BY <1>1, <3>1 DEF Index
    <2> QED BY <1>1, <2>1, <2>2, <2>3
<1> QED BY <1>1, <1>3, <1>4

\* what NewZMQPortUtil has computed after the first n services
AfterService(d, g, n, s, before) ==
    CASE s = 0 -> [offset |-> d.offset, ports |-> P!NoPorts]
      [] s > 0 /\ d.distributed -> P!initWithDistributedDeployment(d, g, n, s, before.offset)
      [] OTHER -> P!initWithLocalDeployment(d, g, n, s, before.offset)

IsTables(t, d, g, n, last) == t = [s \in 0 .. last |-> AfterService(d, g, n, s, t[s - 1])]

LEMMA TablesExist ==
    ASSUME NEW d, NEW g, NEW n, NEW last \in Nat
    PROVE  \E t : IsTables(t, d, g, n, last)
<1> DEFINE Missing == {m \in Nat : ~ \E t : IsTables(t, d, g, n, m)}
<1> SUFFICES ASSUME Missing # {} PROVE FALSE OBVIOUS
<1>1. PICK m \in Missing : \A l \in Missing : m <= l
    <2> HIDE DEF Missing
    <2>1. Missing \subseteq Nat BY DEF Missing
    <2> QED BY <2>1, NodeAssumptions, PA!LeastNatural
<1>2. \A b, c : AfterService(d, g, n, 0, b) = AfterService(d, g, n, 0, c) BY DEF AfterService
<1>3. m # 0
    <2> DEFINE u == [s \in 0 .. 0 |-> AfterService(d, g, n, 0, 0)]
    <2>1. IsTables(u, d, g, n, 0)
        <3>1. \A s \in 0 .. 0 : AfterService(d, g, n, s, u[s - 1]) = AfterService(d, g, n, 0, 0)
            BY <1>2
        <3> QED BY <3>1 DEF IsTables
    <2> QED BY <2>1
<1>4. m - 1 \in Nat /\ m - 1 \notin Missing BY <1>1, <1>3
<1>5. PICK t : IsTables(t, d, g, n, m - 1) BY <1>4
<1> DEFINE u == [s \in 0 .. m |-> IF s = m THEN AfterService(d, g, n, m, t[m - 1]) ELSE t[s]]
<1>6. IsTables(u, d, g, n, m)
    <2>1. \A s \in 0 .. m - 1 : u[s] = t[s] BY <1>4
    <2>2. u[m] = AfterService(d, g, n, m, t[m - 1]) BY <1>4
    <2>3. ASSUME NEW s \in 0 .. m PROVE u[s] = AfterService(d, g, n, s, u[s - 1])
        <3>1. CASE s = m
            <4>1. u[m - 1] = t[m - 1] BY <1>4, <2>1
            <4> HIDE DEF u
            <4> QED BY <2>2, <3>1, <4>1
        <3>2. CASE s # m /\ s # 0
            <4>1. s \in 0 .. m - 1 /\ s - 1 \in 0 .. m - 1 BY <1>4, <3>2
            <4>2. t[s] = AfterService(d, g, n, s, t[s - 1]) BY <1>5, <4>1 DEF IsTables
            <4>3. u[s] = t[s] /\ u[s - 1] = t[s - 1] BY <2>1, <4>1
            <4> HIDE DEF u
            <4> QED BY <4>2, <4>3
        <3>3. CASE s = 0
            <4>1. 0 \in 0 .. m - 1 BY <1>4
            <4>2. t[0] = AfterService(d, g, n, 0, t[0 - 1]) BY <1>5, <4>1 DEF IsTables
            <4>3. u[0] = t[0] BY <2>1, <4>1
            <4> HIDE DEF u
            <4> QED BY <1>2, <3>3, <4>2, <4>3
        <3> QED BY <3>1, <3>2, <3>3
    <2>4. u = [s \in 0 .. m |-> u[s]] OBVIOUS
    <2> HIDE DEF u
    <2> QED BY <2>3, <2>4 DEF IsTables
<1> HIDE DEF u
<1> QED BY <1>6

\* how NewZMQPortUtil gives the services their ports one after the other
LEMMA TablesStep ==
    ASSUME NEW d, NEW g, NEW n
    PROVE  \E t : /\ \A s \in 1 .. 9 : P!NewZMQPortUtil(d, g, n)[s] = t[s].ports
                  /\ t[0].offset = d.offset
                  /\ \A s \in 1 .. 9 :
                        t[s] = IF d.distributed
                               THEN P!initWithDistributedDeployment(d, g, n, s, t[s - 1].offset)
                               ELSE P!initWithLocalDeployment(d, g, n, s, t[s - 1].offset)
<1> DEFINE t == CHOOSE x : IsTables(x, d, g, n, 9)
<1>1. IsTables(t, d, g, n, 9) BY TablesExist
<1>2. P!NewZMQPortUtil(d, g, n) = [s \in P!LocalService \cup P!RemoteService |-> t[s].ports]
    BY Zenon DEF P!NewZMQPortUtil, IsTables, AfterService
<1> HIDE DEF t
<1>3. \A s \in 1 .. 9 : P!NewZMQPortUtil(d, g, n)[s] = t[s].ports
    BY <1>2 DEF P!LocalService, P!RemoteService
<1>4. \A s \in 0 .. 9 : t[s] = AfterService(d, g, n, s, t[s - 1]) BY <1>1 DEF IsTables
<1>5. t[0].offset = d.offset BY <1>4 DEF AfterService
<1>6. ASSUME NEW s \in 1 .. 9
      PROVE  t[s] = IF d.distributed
                    THEN P!initWithDistributedDeployment(d, g, n, s, t[s - 1].offset)
                    ELSE P!initWithLocalDeployment(d, g, n, s, t[s - 1].offset)
    <2>1. t[s] = AfterService(d, g, n, s, t[s - 1]) /\ s # 0 /\ s > 0 BY <1>4
    <2> QED BY <2>1 DEF AfterService
<1> QED BY <1>3, <1>5, <1>6

\* Where the ports of service s begin, how many they are, and the place of node m
\* among the nodes that share a host.
Unit(d) == IF d.distributed THEN 1 ELSE P!Before(d, Len(d.nodes))
Base(d, s) == IF s < 9 THEN d.offset + (s - 1) * Unit(d)
              ELSE d.offset + 7 * Unit(d) + Len(d.nodes) * Unit(d)
Width(d, s) == IF s < 8 THEN Unit(d) ELSE Len(d.nodes) * Unit(d)
Place(d, m) == IF d.distributed THEN 0 ELSE Index(d, m)
LocalTable(d, s, g) == [k \in P!Nodes(d, g) |-> Base(d, s) + Place(d, <<g, k>>)]
RemoteTable(d, s, g, n) ==
    [r \in P!Groups(d) |-> Base(d, s) + Len(d.nodes) * Place(d, <<g, n>>) + r]

LEMMA BaseChain ==
    ASSUME NEW d, IsDeployment(d)
    PROVE  /\ Unit(d) \in Nat /\ Len(d.nodes) * Unit(d) \in Nat
           /\ Base(d, 1) = d.offset
           /\ \A s \in 1 .. 7 : Base(d, s + 1) = Base(d, s) + Unit(d)
           /\ Base(d, 9) = Base(d, 8) + Len(d.nodes) * Unit(d)
           /\ \A s \in 1 .. 9 : Base(d, s) \in Nat
<1>1. d.offset \in Nat /\ Len(d.nodes) \in Nat /\ Unit(d) \in Nat
    BY BeforeSums DEF IsDeployment, Unit
<1>2. PICK o \in Nat, u \in Nat, w \in Nat : o = d.offset /\ u = Unit(d) /\ w = Len(d.nodes) * Unit(d)
    BY <1>1
<1>3. \A s : Base(d, s) = IF s < 9 THEN o + (s - 1) * u ELSE o + 7 * u + w BY <1>2 DEF Base
<1>4. Base(d, 1) = o /\ Base(d, 2) = o + u /\ Base(d, 3) = o + 2 * u /\ Base(d, 4) = o + 3 * u
    BY <1>2, <1>3
<1>5. Base(d, 5) = o + 4 * u /\ Base(d, 6) = o + 5 * u /\ Base(d, 7) = o + 6 * u
    BY <1>2, <1>3
<1>6. Base(d, 8) = o + 7 * u /\ Base(d, 9) = o + 7 * u + w BY <1>2, <1>3
<1>7. \A s \in 1 .. 7 : Base(d, s + 1) = Base(d, s) + u
    <2> SUFFICES ASSUME NEW s \in 1 .. 7 PROVE Base(d, s + 1) = Base(d, s) + u OBVIOUS
    <2>1. s = 1 \/ s = 2 \/ s = 3 \/ s = 4 \/ s = 5 \/ s = 6 \/ s = 7 OBVIOUS
    <2>2. CASE s = 1
        <3>1. s + 1 = 2 /\ o + u = (o) + u BY <1>2, <2>2
        <3> QED BY <1>4, <1>5, <1>6, <2>2, <3>1, Zenon
    <2>3. CASE s = 2
        <3>1. s + 1 = 3 /\ o + 2 * u = (o + u) + u BY <1>2, <2>3
        <3> QED BY <1>4, <1>5, <1>6, <2>3, <3>1, Zenon
    <2>4. CASE s = 3
        <3>1. s + 1 = 4 /\ o + 3 * u = (o + 2 * u) + u BY <1>2, <2>4
        <3> QED BY <1>4, <1>5, <1>6, <2>4, <3>1, Zenon
    <2>5. CASE s = 4
        <3>1. s + 1 = 5 /\ o + 4 * u = (o + 3 * u) + u BY <1>2, <2>5
        <3> QED BY <1>4, <1>5, <1>6, <2>5, <3>1, Zenon
    <2>6. CASE s = 5
        <3>1. s + 1 = 6 /\ o + 5 * u = (o + 4 * u) + u BY <1>2, <2>6
        <3> QED BY <1>4, <1>5, <1>6, <2>6, <3>1, Zenon
    <2>7. CASE s = 6
        <3>1. s + 1 = 7 /\ o + 6 * u = (o + 5 * u) + u BY <1>2, <2>7
        <3> QED BY <1>4, <1>5, <1>6, <2>7, <3>1, Zenon
    <2>8. CASE s = 7
        <3>1. s + 1 = 8 /\ o + 7 * u = (o + 6 * u) + u BY <1>2, <2>8
        <3> QED BY <1>4, <1>5, <1>6, <2>8, <3>1, Zenon
    <2> QED BY <2>1, <2>2, <2>3, <2>4, <2>5, <2>6, <2>7, <2>8
<1>8. \A s \in 1 .. 9 : Base(d, s) \in Nat
    <2> SUFFICES ASSUME NEW s \in 1 .. 9 PROVE Base(d, s) \in Nat OBVIOUS
    <2>1. s = 1 \/ s = 2 \/ s = 3 \/ s = 4 \/ s = 5 \/ s = 6 \/ s = 7 \/ s = 8 \/ s = 9 OBVIOUS
    <2>2. \A x, y \in Nat : x + y \in Nat OBVIOUS
    <2>3. 2 * u \in Nat /\ 3 * u \in Nat /\ 4 * u \in Nat BY <1>2
    <2>4. 5 * u \in Nat /\ 6 * u \in Nat /\ 7 * u \in Nat BY <1>2
    <2>5. o \in Nat /\ u \in Nat /\ w \in Nat BY <1>2
    <2>6. CASE s = 1 BY <2>2, <2>3, <2>4, <2>5, <2>6, <1>4
    <2>7. CASE s = 2 BY <2>2, <2>3, <2>4, <2>5, <2>7, <1>4
    <2>8. CASE s = 3 BY <2>2, <2>3, <2>4, <2>5, <2>8, <1>4
    <2>9. CASE s = 4 BY <2>2, <2>3, <2>4, <2>5, <2>9, <1>4
    <2>10. CASE s = 5 BY <2>2, <2>3, <2>4, <2>5, <2>10, <1>5
    <2>11. CASE s = 6 BY <2>2, <2>3, <2>4, <2>5, <2>11, <1>5
    <2>12. CASE s = 7 BY <2>2, <2>3, <2>4, <2>5, <2>12, <1>5
    <2>13. CASE s = 8 BY <2>2, <2>3, <2>4, <2>5, <2>13, <1>6
    <2>14. CASE s = 9 BY <2>2, <2>3, <2>4, <2>5, <2>14, <1>6
    <2> QED BY <2>1, <2>6, <2>7, <2>8, <2>9, <2>10, <2>11, <2>12, <2>13, <2>14
<1> QED BY <1>1, <1>2, <1>4, <1>6, <1>7, <1>8

\* offsets that grow in the same steps are the same
LEMMA OffsetsAreBases ==
    ASSUME NEW d, IsDeployment(d), NEW t,
           t[0].offset = d.offset,
           \A s \in 1 .. 7 : t[s].offset = t[s - 1].offset + Unit(d),
           t[8].offset = t[7].offset + Len(d.nodes) * Unit(d)
    PROVE  \A s \in 1 .. 9 : t[s - 1].offset = Base(d, s)
<1>1. PICK u \in Nat : u = Unit(d) BY BaseChain
<1>2. t[0].offset = Base(d, 1) BY BaseChain
<1>3. \A s \in 1 .. 7 : t[s].offset = t[s - 1].offset + u /\ Base(d, s + 1) = Base(d, s) + u
    BY <1>1, BaseChain
<1>4. t[1].offset = Base(d, 2) BY <1>2, <1>3
<1>5. t[2].offset = Base(d, 3) BY <1>4, <1>3
<1>6. t[3].offset = Base(d, 4) BY <1>5, <1>3
<1>7. t[4].offset = Base(d, 5) BY <1>6, <1>3
<1>8. t[5].offset = Base(d, 6) BY <1>7, <1>3
<1>9. t[6].offset = Base(d, 7) BY <1>8, <1>3
<1>10. t[7].offset = Base(d, 8) BY <1>9, <1>3
<1>11. t[8].offset = Base(d, 9) BY <1>10, BaseChain
<1> SUFFICES ASSUME NEW s \in 1 .. 9 PROVE t[s - 1].offset = Base(d, s) OBVIOUS
<1>12. s = 1 \/ s = 2 \/ s = 3 \/ s = 4 \/ s = 5 \/ s = 6 \/ s = 7 \/ s = 8 \/ s = 9 OBVIOUS
<1>13. 1 - 1 = 0 /\ 2 - 1 = 1 /\ 3 - 1 = 2 /\ 4 - 1 = 3 /\ 5 - 1 = 4 /\ 6 - 1 = 5 /\ 7 - 1 = 6
       /\ 8 - 1 = 7 /\ 9 - 1 = 8
    OBVIOUS
<1> QED BY <1>2, <1>4, <1>5, <1>6, <1>7, <1>8, <1>9, <1>10, <1>11, <1>12, <1>13

\* the ports of a node that has not run out of them
LEMMA TablesOf ==
    ASSUME NEW d, IsDeployment(d), NEW g \in P!Groups(d), NEW n \in P!Nodes(d, g),
           \A s \in 1 .. 9 : P!NewZMQPortUtil(d, g, n)[s] # P!NoPorts
    PROVE  /\ \A s \in 1 .. 7 : P!NewZMQPortUtil(d, g, n)[s] = LocalTable(d, s, g)
           /\ \A s \in 8 .. 9 : P!NewZMQPortUtil(d, g, n)[s] = RemoteTable(d, s, g, n)
<1> DEFINE T == P!Before(d, Len(d.nodes))
           G == Len(d.nodes)
           X(s) == P!NewZMQPortUtil(d, g, n)[s]
<1>0. /\ T \in Nat /\ G \in Nat /\ d.offset \in Nat /\ P!Before(d, g) \in Nat /\ G * T \in Nat
      /\ P!Nodes(d, g) \subseteq Nat /\ P!Groups(d) \subseteq Nat /\ n \in Nat
    <2>1. T \in Nat /\ G \in Nat /\ d.offset \in Nat BY BeforeSums DEF IsDeployment
    <2>2. P!Before(d, g) \in Nat BY <2>1, BeforeSums DEF P!Groups
    <2>3. P!Nodes(d, g) \subseteq Nat /\ P!Groups(d) \subseteq Nat BY DEF P!Nodes, P!Groups
    <2> QED BY <2>1, <2>2, <2>3
<1>1. PICK t : /\ \A s \in 1 .. 9 : X(s) = t[s].ports
               /\ t[0].offset = d.offset
               /\ \A s \in 1 .. 9 :
                     t[s] = IF d.distributed
                            THEN P!initWithDistributedDeployment(d, g, n, s, t[s - 1].offset)
                            ELSE P!initWithLocalDeployment(d, g, n, s, t[s - 1].offset)
    BY TablesStep
<1>2. CASE d.distributed
    <2>1. ASSUME NEW s \in 1 .. 7
          PROVE  /\ t[s].offset = t[s - 1].offset + 1
                 /\ X(s) = [k \in P!Nodes(d, g) |-> t[s - 1].offset]
        <3>1. s \in P!LocalService /\ s \in 1 .. 9 BY DEF P!LocalService
        <3>2. t[s] = P!newHomogeneousLocalServicePorts(d, g, t[s - 1].offset)
            BY <1>1, <1>2, <3>1 DEF P!initWithDistributedDeployment
        <3>3. X(s) = t[s].ports /\ X(s) # P!NoPorts BY <1>1, <3>1
        <3> HIDE DEF X
        <3> QED BY <3>2, <3>3 DEF P!newHomogeneousLocalServicePorts, P!Result
    <2>2. ASSUME NEW s \in 8 .. 9
          PROVE  /\ t[s].offset = t[s - 1].offset + G
                 /\ X(s) = [r \in P!Groups(d) |-> t[s - 1].offset + r]
        <3>1. s \notin P!LocalService /\ s \in 1 .. 9 BY DEF P!LocalService
        <3>2. t[s] = P!newHomogeneousRemoteServicePorts(d, t[s - 1].offset)
            BY <1>1, <1>2, <3>1 DEF P!initWithDistributedDeployment
        <3>3. X(s) = t[s].ports /\ X(s) # P!NoPorts BY <1>1, <3>1
        <3> HIDE DEF X
        <3> QED BY <3>2, <3>3 DEF P!newHomogeneousRemoteServicePorts, P!Result
    <2>5. \A s \in 1 .. 9 : t[s - 1].offset = Base(d, s)
        <3>1. Unit(d) = 1 /\ G * Unit(d) = G BY <1>0, <1>2 DEF Unit
        <3>2. \A s \in 1 .. 7 : t[s].offset = t[s - 1].offset + Unit(d) BY <2>1, <3>1
        <3>3. t[8].offset = t[7].offset + G * Unit(d)
            <4>1. 8 \in 8 .. 9 /\ 8 - 1 = 7 OBVIOUS
            <4> QED BY <2>2, <3>1, <4>1
        <3> QED BY <1>1, <3>2, <3>3, OffsetsAreBases
    <2>6. \A m : Place(d, m) = 0 BY <1>2 DEF Place
    <2>7. \A s \in 1 .. 9 : Base(d, s) \in Nat BY BaseChain
    <2>8. ASSUME NEW s \in 1 .. 7 PROVE X(s) = [k \in P!Nodes(d, g) |-> Base(d, s) + Place(d, <<g, k>>)]
        <3>1. s \in 1 .. 9 /\ X(s) = [k \in P!Nodes(d, g) |-> Base(d, s)] BY <2>1, <2>5
        <3>2. \A k \in P!Nodes(d, g) : Base(d, s) + Place(d, <<g, k>>) = Base(d, s) BY <2>6, <2>7, <3>1
        <3> HIDE DEF X
        <3> QED BY <3>1, <3>2
    <2>9. ASSUME NEW s \in 8 .. 9
          PROVE  X(s) = [r \in P!Groups(d) |-> Base(d, s) + G * Place(d, <<g, n>>) + r]
        <3>1. s \in 1 .. 9 /\ X(s) = [r \in P!Groups(d) |-> Base(d, s) + r] BY <2>2, <2>5
        <3>2. \A r \in P!Groups(d) : Base(d, s) + G * Place(d, <<g, n>>) + r = Base(d, s) + r
            <4>1. G * Place(d, <<g, n>>) = 0 BY <1>0, <2>6
            <4>2. Base(d, s) \in Nat BY <2>7
            <4> HIDE DEF G
            <4> QED BY <1>0, <4>1, <4>2
        <3> HIDE DEF X, G
        <3> QED BY <3>1, <3>2
    <2> QED BY <2>8, <2>9 DEF LocalTable, RemoteTable
<1>3. CASE ~ d.distributed
    <2>0. \A k \in P!Nodes(d, g) : Place(d, <<g, k>>) = P!Before(d, g) + k
        BY <1>3 DEF Place, Index
    <2>1. ASSUME NEW s \in 1 .. 7
          PROVE  /\ t[s].offset = t[s - 1].offset + T
                 /\ X(s) = [k \in P!Nodes(d, g) |-> t[s - 1].offset + P!Before(d, g) + k]
        <3>1. s \in P!LocalService /\ s \in 1 .. 9 BY DEF P!LocalService
        <3>2. t[s] = P!newHeterogeneousLocalServicePorts(d, g, t[s - 1].offset)
            BY <1>1, <1>3, <3>1 DEF P!initWithLocalDeployment
        <3>3. X(s) = t[s].ports /\ X(s) # P!NoPorts BY <1>1, <3>1
        <3> HIDE DEF X
        <3> QED BY <3>2, <3>3 DEF P!newHeterogeneousLocalServicePorts, P!Result
    <2>2. ASSUME NEW s \in 8 .. 9
          PROVE  /\ t[s].offset = t[s - 1].offset + G * T
                 /\ X(s) = [r \in P!Groups(d) |-> t[s - 1].offset + G * (P!Before(d, g) + n) + r]
        <3>1. s \notin P!LocalService /\ s \in 1 .. 9 BY DEF P!LocalService
        <3>2. t[s] = P!newHeterogeneousRemoteServicePorts(d, g, n, t[s - 1].offset)
            BY <1>1, <1>3, <3>1 DEF P!initWithLocalDeployment
        <3>3. X(s) = t[s].ports /\ X(s) # P!NoPorts BY <1>1, <3>1
        <3> HIDE DEF X
        <3> QED BY <3>2, <3>3 DEF P!newHeterogeneousRemoteServicePorts, P!Result
    <2>5. \A s \in 1 .. 9 : t[s - 1].offset = Base(d, s)
        <3>1. Unit(d) = T BY <1>3 DEF Unit
        <3>2. \A s \in 1 .. 7 : t[s].offset = t[s - 1].offset + Unit(d) BY <2>1, <3>1
        <3>3. t[8].offset = t[7].offset + G * Unit(d)
            <4>1. 8 \in 8 .. 9 /\ 8 - 1 = 7 OBVIOUS
            <4> QED BY <2>2, <3>1, <4>1
        <3> QED BY <1>1, <3>2, <3>3, OffsetsAreBases
    <2>8. ASSUME NEW s \in 1 .. 7 PROVE X(s) = [k \in P!Nodes(d, g) |-> Base(d, s) + Place(d, <<g, k>>)]
        <3>1. /\ X(s) = [k \in P!Nodes(d, g) |-> Base(d, s) + P!Before(d, g) + k]
              /\ Base(d, s) \in Nat
            <4>1. /\ X(s) = [k \in P!Nodes(d, g) |-> t[s - 1].offset + P!Before(d, g) + k]
                  /\ t[s - 1].offset = Base(d, s)
                BY <2>1, <2>5
            <4>2. Base(d, s) \in Nat
                <5>1. s \in 1 .. 9 OBVIOUS
                <5> QED BY <5>1, BaseChain
            <4> HIDE DEF X
            <4> QED BY <4>1, <4>2
        <3>2. \A k \in P!Nodes(d, g) : Base(d, s) + Place(d, <<g, k>>) = Base(d, s) + P!Before(d, g) + k
            BY <1>0, <2>0, <3>1
        <3> HIDE DEF X
        <3> QED BY <3>1, <3>2
    <2>9. ASSUME NEW s \in 8 .. 9
          PROVE  X(s) = [r \in P!Groups(d) |-> Base(d, s) + G * Place(d, <<g, n>>) + r]
        <3>1. X(s) = [r \in P!Groups(d) |-> Base(d, s) + G * (P!Before(d, g) + n) + r] BY <2>2, <2>5
        <3>2. Place(d, <<g, n>>) = P!Before(d, g) + n BY <2>0
        <3> HIDE DEF X, G
        <3> QED BY <3>1, <3>2
    <2> QED BY <2>8, <2>9 DEF LocalTable, RemoteTable
<1> QED BY <1>2, <1>3

\* the ports of different services do not overlap
LEMMA RangesApart ==
    ASSUME NEW d, IsDeployment(d), NEW s \in 1 .. 9, NEW t \in 1 .. 9, s < t
    PROVE  Base(d, s) + Width(d, s) <= Base(d, t) /\ Width(d, s) \in Nat
<1>1. PICK u \in Nat, w \in Nat : u = Unit(d) /\ w = Len(d.nodes) * Unit(d) BY BaseChain
<1>2. /\ \A x \in 1 .. 7 : Base(d, x + 1) = Base(d, x) + u
      /\ Base(d, 9) = Base(d, 8) + w
      /\ \A x \in 1 .. 9 : Base(d, x) \in Nat
    BY <1>1, BaseChain
<1>3. Width(d, s) = (IF s < 8 THEN u ELSE w) /\ Width(d, s) \in Nat BY <1>1 DEF Width
<1> DEFINE Wrong == {x \in 1 .. 9 : s < x /\ ~ (Base(d, s) + Width(d, s) <= Base(d, x))}
<1> SUFFICES ASSUME Wrong # {} PROVE FALSE BY <1>3
<1>4. PICK x \in Wrong : \A y \in Wrong : x <= y
    <2>1. Wrong \subseteq Nat OBVIOUS
    <2> HIDE DEF Wrong
    <2> QED BY <2>1, NodeAssumptions, PA!LeastNatural
<1>5. /\ x \in 1 .. 9 /\ s < x /\ ~ (Base(d, s) + Width(d, s) <= Base(d, x))
      /\ x - 1 \in 1 .. 9 /\ (s < x - 1 => x - 1 \notin Wrong)
    BY <1>4
<1>6. Base(d, x) = Base(d, x - 1) + (IF x - 1 < 8 THEN u ELSE w)
    <2>1. CASE x - 1 < 8
        <3>1. x - 1 \in 1 .. 7 /\ (x - 1) + 1 = x BY <1>5, <2>1
        <3>2. Base(d, (x - 1) + 1) = Base(d, x - 1) + u BY <1>2, <3>1
        <3> QED BY <2>1, <3>1, <3>2
    <2>2. CASE ~ (x - 1 < 8)
        <3>1. x = 9 /\ x - 1 = 8 BY <1>5, <2>2
        <3> QED BY <1>2, <3>1
    <2> QED BY <2>1, <2>2
<1>7. CASE s = x - 1
    <2>1. Base(d, x) = Base(d, s) + Width(d, s) BY <1>3, <1>6, <1>7
    <2> QED BY <1>2, <1>3, <1>5, <2>1
<1>8. CASE s < x - 1
    <2>1. Base(d, s) + Width(d, s) <= Base(d, x - 1) BY <1>5, <1>8
    <2>2. Base(d, x - 1) \in Nat /\ Base(d, x) \in Nat /\ Base(d, s) \in Nat BY <1>2, <1>5
    <2>3. Base(d, x - 1) <= Base(d, x) BY <1>1, <1>6, <2>2
    <2> QED BY <1>3, <1>5, <2>1, <2>2, <2>3
<1> QED BY <1>5, <1>7, <1>8

\* a number below m * n is one of n blocks of m, in one way
LEMMA Blockwise ==
    ASSUME NEW m \in Nat, NEW n \in Nat, NEW i \in 0 .. n - 1, NEW r \in 0 .. m - 1
    PROVE  /\ m * i + r \in 0 .. m * n - 1
           /\ \A j \in 0 .. n - 1, q \in 0 .. m - 1 : m * i + r = m * j + q => i = j /\ r = q
<1>1. ASSUME NEW a \in Nat, NEW b \in Nat, a < b PROVE m * a + m <= m * b
    <2>1. PICK c \in Nat : b = a + 1 + c
        <3>1. b - a - 1 \in Nat /\ b = a + 1 + (b - a - 1) BY <1>1
        <3> QED BY <3>1
    <2>2. m * b = m * a + m + m * c /\ m * c \in Nat /\ m * a \in Nat BY <2>1
    <2> QED BY <2>2
<1>2. m * i \in Nat /\ m * n \in Nat OBVIOUS
<1>3. m * i + r \in 0 .. m * n - 1
    <2>1. m * i + m <= m * n BY <1>1
    <2> QED BY <1>2, <2>1
<1>4. ASSUME NEW j \in 0 .. n - 1, NEW q \in 0 .. m - 1, m * i + r = m * j + q
      PROVE  i = j /\ r = q
    <2>0. m * j \in Nat OBVIOUS
    <2>1. CASE i < j
        <3>1. m * i + m <= m * j BY <1>1, <2>1
        <3> QED BY <1>2, <1>4, <2>0, <3>1
    <2>2. CASE j < i
        <3>1. m * j + m <= m * i BY <1>1, <2>2
        <3> QED BY <1>2, <1>4, <2>0, <3>1
    <2>3. CASE i = j
        <3>1. m * i = m * j BY <2>3
        <3> QED BY <1>2, <1>4, <2>3, <3>1
    <2> QED BY <2>1, <2>2, <2>3
<1> QED BY <1>3, <1>4

\* the tables of all nodes
LEMMA TablesDistinct ==
    ASSUME NEW d, IsDeployment(d), NEW tables, tables = P!InitPortsConfig(d),
           ~ \E m \in P!AllNodes(d) : \E s \in DOMAIN tables[m] : tables[m][s] = P!NoPorts
    PROVE  /\ \A b, c \in P!AllNodes(d) \X P!Sockets(d) :
                /\ b # c
                /\ d.distributed => b[1] = c[1]
                => P!PortOf(tables, b[1], b[2]) # P!PortOf(tables, c[1], c[2])
           /\ \A m, k \in P!AllNodes(d) : \A s \in P!LocalService :
                m[1] = k[1] => tables[m][s] = tables[k][s]
<1>0. PICK G \in Nat, U \in Nat : G = Len(d.nodes) /\ U = Unit(d) BY BaseChain DEF IsDeployment
<1>1. \A m \in P!AllNodes(d) : tables[m] = P!NewZMQPortUtil(d, m[1], m[2])
    BY DEF P!InitPortsConfig
<1>2. \A g, n : DOMAIN P!NewZMQPortUtil(d, g, n) = 1 .. 9
    BY DEF P!NewZMQPortUtil, P!LocalService, P!RemoteService
<1>3. ASSUME NEW m \in P!AllNodes(d)
      PROVE  /\ m = <<m[1], m[2]>> /\ m[1] \in P!Groups(d) /\ m[2] \in P!Nodes(d, m[1])
             /\ \A s \in 1 .. 7 : tables[m][s] = LocalTable(d, s, m[1])
             /\ \A s \in 8 .. 9 : tables[m][s] = RemoteTable(d, s, m[1], m[2])
    <2>1. m = <<m[1], m[2]>> /\ m[1] \in P!Groups(d) /\ m[2] \in P!Nodes(d, m[1]) BY IndexDistinct
    <2>2. PICK g \in P!Groups(d) : m[1] = g BY <2>1
    <2>3. PICK n \in P!Nodes(d, g) : m[2] = n BY <2>1, <2>2
    <2>4. tables[m] = P!NewZMQPortUtil(d, g, n) BY <1>1, <2>2, <2>3
    <2>5. \A s \in 1 .. 9 : P!NewZMQPortUtil(d, g, n)[s] # P!NoPorts BY <1>2, <2>4
    <2>6. /\ \A s \in 1 .. 7 : P!NewZMQPortUtil(d, g, n)[s] = LocalTable(d, s, g)
          /\ \A s \in 8 .. 9 : P!NewZMQPortUtil(d, g, n)[s] = RemoteTable(d, s, g, n)
        BY <2>5, TablesOf
    <2> QED BY <2>1, <2>2, <2>3, <2>4, <2>6
<1>31. \A s, g : \A k \in P!Nodes(d, g) : LocalTable(d, s, g)[k] = Base(d, s) + Place(d, <<g, k>>)
    BY DEF LocalTable
<1>32. \A s, g, n : \A r \in P!Groups(d) :
         RemoteTable(d, s, g, n)[r] = Base(d, s) + G * Place(d, <<g, n>>) + r
    BY <1>0 DEF RemoteTable
<1>4. ASSUME NEW m \in P!AllNodes(d), NEW k \in P!AllNodes(d), NEW s \in P!LocalService, m[1] = k[1]
      PROVE  tables[m][s] = tables[k][s]
    <2>1. s \in 1 .. 7 BY DEF P!LocalService
    <2> QED BY <1>3, <1>4, <2>1
<1>5. ASSUME NEW m \in P!AllNodes(d)
      PROVE  /\ Place(d, m) \in 0 .. U - 1
             /\ \A k \in P!AllNodes(d) : k # m /\ ~ d.distributed => Place(d, k) # Place(d, m)
    BY <1>0, IndexDistinct DEF Place, Unit
<1>6. \A s \in 1 .. 9 : Base(d, s) \in Nat BY BaseChain
<1>7. P!Groups(d) = 0 .. G - 1 BY <1>0 DEF P!Groups
<1>8. ASSUME NEW m \in P!AllNodes(d), NEW x \in P!Sockets(d)
      PROVE  /\ x = <<x[1], x[2]>> /\ x[1] \in 1 .. 9
             /\ x[1] < 8 => x[2] = 0 /\ P!PortOf(tables, m, x) = Base(d, x[1]) + Place(d, m)
             /\ x[1] >= 8 => /\ x[2] \in 0 .. G - 1
                             /\ P!PortOf(tables, m, x) = Base(d, x[1]) + G * Place(d, m) + x[2]
    <2>1. CASE x \in P!LocalService \X {0}
        <3>1. x = <<x[1], x[2]>> /\ x[1] \in 1 .. 7 /\ x[1] \in P!LocalService /\ x[2] = 0
            BY <2>1 DEF P!LocalService
        <3>2. P!PortOf(tables, m, x) = tables[m][x[1]][m[2]] BY <3>1 DEF P!PortOf
        <3>3. P!PortOf(tables, m, x) = Base(d, x[1]) + Place(d, <<m[1], m[2]>>)
            BY <1>3, <1>31, <3>1, <3>2
        <3>4. P!PortOf(tables, m, x) = Base(d, x[1]) + Place(d, m) BY <1>3, <3>3
        <3> QED BY <3>1, <3>4
    <2>2. CASE x \in P!RemoteService \X P!Groups(d)
        <3>1. x = <<x[1], x[2]>> /\ x[1] \in 8 .. 9 /\ x[1] \notin P!LocalService /\ x[2] \in P!Groups(d)
            BY <2>2 DEF P!LocalService, P!RemoteService
        <3>2. P!PortOf(tables, m, x) = tables[m][x[1]][x[2]] BY <3>1 DEF P!PortOf
        <3>3. P!PortOf(tables, m, x) = Base(d, x[1]) + G * Place(d, <<m[1], m[2]>>) + x[2]
            BY <1>3, <1>32, <3>1, <3>2
        <3>4. P!PortOf(tables, m, x) = Base(d, x[1]) + G * Place(d, m) + x[2] BY <1>3, <3>3
        <3> QED BY <1>7, <3>1, <3>4
    <2> QED BY <2>1, <2>2 DEF P!Sockets
<1>9. ASSUME NEW m \in P!AllNodes(d), NEW x \in P!Sockets(d)
      PROVE  P!PortOf(tables, m, x) \in Base(d, x[1]) .. Base(d, x[1]) + Width(d, x[1]) - 1
    <2>1. PICK q : q = P!PortOf(tables, m, x) OBVIOUS
    <2>2. PICK i \in 0 .. U - 1 : i = Place(d, m) BY <1>5
    <2>3. x[1] \in 1 .. 9 /\ Base(d, x[1]) \in Nat BY <1>6, <1>8
    <2>4. CASE x[1] < 8
        <3>1. q = Base(d, x[1]) + i /\ Width(d, x[1]) = U BY <1>0, <1>8, <2>1, <2>2, <2>4 DEF Width
        <3> QED BY <1>6, <2>1, <2>2, <2>3, <3>1
    <2>5. CASE x[1] >= 8
        <3>1. x[2] \in 0 .. G - 1 /\ q = Base(d, x[1]) + G * i + x[2] BY <1>8, <2>1, <2>2, <2>5
        <3>2. Width(d, x[1]) = G * U BY <1>0, <2>3, <2>5 DEF Width
        <3>3. G * i + x[2] \in 0 .. G * U - 1 BY <1>6, <2>2, <3>1, Blockwise
        <3>4. G * i \in Nat /\ G * U \in Nat BY <1>6, <2>2
        <3> QED BY <2>1, <2>3, <3>1, <3>2, <3>3, <3>4
    <2> QED BY <2>3, <2>4, <2>5
<1>10. ASSUME NEW b \in P!AllNodes(d) \X P!Sockets(d), NEW c \in P!AllNodes(d) \X P!Sockets(d),
              b # c, d.distributed => b[1] = c[1],
              P!PortOf(tables, b[1], b[2]) = P!PortOf(tables, c[1], c[2])
       PROVE  FALSE
    <2>1. PICK m \in P!AllNodes(d), x \in P!Sockets(d) : b = <<m, x>> OBVIOUS
    <2>2. PICK k \in P!AllNodes(d), y \in P!Sockets(d) : c = <<k, y>> OBVIOUS
    <2>3. /\ P!PortOf(tables, m, x) = P!PortOf(tables, k, y)
          /\ d.distributed => m = k
          /\ m # k \/ x # y
        BY <1>10, <2>1, <2>2
    <2>4. PICK q : q = P!PortOf(tables, m, x) /\ q = P!PortOf(tables, k, y) BY <2>3
    <2>5. /\ q \in Base(d, x[1]) .. Base(d, x[1]) + Width(d, x[1]) - 1
          /\ q \in Base(d, y[1]) .. Base(d, y[1]) + Width(d, y[1]) - 1
        BY <1>9, <2>4
    <2>6. x[1] \in 1 .. 9 /\ y[1] \in 1 .. 9 /\ Base(d, x[1]) \in Nat /\ Base(d, y[1]) \in Nat
        BY <1>6, <1>8
    <2>7. ~ (x[1] < y[1])
        <3> SUFFICES ASSUME x[1] < y[1] PROVE FALSE OBVIOUS
        <3>1. Base(d, x[1]) + Width(d, x[1]) <= Base(d, y[1]) /\ Width(d, x[1]) \in Nat
            BY <2>6, RangesApart
        <3> QED BY <2>5, <2>6, <3>1
    <2>8. ~ (y[1] < x[1])
        <3> SUFFICES ASSUME y[1] < x[1] PROVE FALSE OBVIOUS
        <3>1. Base(d, y[1]) + Width(d, y[1]) <= Base(d, x[1]) /\ Width(d, y[1]) \in Nat
            BY <2>6, RangesApart
        <3> QED BY <2>5, <2>6, <3>1
    <2>9. x[1] = y[1] BY <2>6, <2>7, <2>8
    <2>10. PICK i \in 0 .. U - 1, j \in 0 .. U - 1 : i = Place(d, m) /\ j = Place(d, k)
        BY <1>5
    <2>11. m # k => i # j BY <1>5, <2>3, <2>10
    <2>12. CASE x[1] < 8
        <3>1. q = Base(d, x[1]) + i /\ q = Base(d, x[1]) + j /\ x[2] = 0 /\ y[2] = 0
            BY <1>8, <2>4, <2>9, <2>10, <2>12
        <3>2. i = j BY <1>6, <2>6, <3>1
        <3>3. x = y BY <1>8, <2>9, <3>1, Zenon
        <3> QED BY <2>3, <2>11, <3>2, <3>3
    <2>13. CASE x[1] >= 8
        <3>1. /\ q = Base(d, x[1]) + G * i + x[2] /\ q = Base(d, x[1]) + G * j + y[2]
              /\ x[2] \in 0 .. G - 1 /\ y[2] \in 0 .. G - 1
            BY <1>8, <2>4, <2>9, <2>10, <2>13
        <3>2. G * i \in Nat /\ G * j \in Nat BY <1>6, <2>10
        <3>3. PICK e \in Nat, f \in Nat : e = G * i /\ f = G * j BY <3>2
        <3>6. PICK v \in 0 .. G - 1, z \in 0 .. G - 1 : v = x[2] /\ z = y[2] BY <3>1
        <3>7. PICK o \in Nat : o = Base(d, x[1]) BY <2>6
        <3>8. q = o + e + v /\ q = o + f + z BY <3>1, <3>3, <3>6, <3>7
        <3>9. G * i + v = G * j + z
            <4>1. e + v = f + z BY <3>8
            <4> QED BY <3>3, <4>1
        <3>4. i = j /\ x[2] = y[2] BY <3>6, <3>9, Blockwise
        <3>5. x = y BY <1>8, <2>9, <3>4, Zenon
        <3> QED BY <2>3, <2>11, <3>4, <3>5
    <2> QED BY <2>6, <2>12, <2>13
<1> QED BY <1>4, <1>10

\* The ports that ZMQPortUtil works out are distinct on every host, and the same
\* for all nodes of a group, for every layout of groups with a node each and
\* every first port; unless some node has run out of ports.
THEOREM PortsAlwaysDistinct == ASSUME IsDeployment(deployment) PROVE P!PortsDistinct
<1>1. PICK d : d = deployment OBVIOUS
<1>2. PICK tables : tables = P!InitPortsConfig(d) OBVIOUS
<1>3. \/ \E m \in P!AllNodes(d) : \E s \in DOMAIN tables[m] : tables[m][s] = P!NoPorts
      \/ /\ \A b, c \in P!AllNodes(d) \X P!Sockets(d) :
              /\ b # c
              /\ d.distributed => b[1] = c[1]
              => P!PortOf(tables, b[1], b[2]) # P!PortOf(tables, c[1], c[2])
         /\ \A m, k \in P!AllNodes(d) : \A s \in P!LocalService :
              m[1] = k[1] => tables[m][s] = tables[k][s]
    BY <1>1, <1>2, TablesDistinct
<1>4. d = deployment /\ tables = P!InitPortsConfig(deployment) BY <1>1, <1>2
<1> QED BY <1>3, <1>4 DEF P!PortsDistinct

\* What the nodes of a deployment work out alone fits together, for all layouts
\* that the run chooses from.
THEOREM DeploymentSound == MCSpec => []SetupSound
<1> DEFINE Chosen == part = "ports" => deployment \in Deployments
<1>1. MCInit => Chosen BY DEF MCInit, P!Init
<1>2. Chosen /\ [MCNext]_all => Chosen' BY DEF MCNext, all
<1>3. Chosen => SetupSound
    <2> SUFFICES ASSUME deployment \in Deployments PROVE P!PortsDistinct /\ O!SetupAgrees
        BY DEF SetupSound
    <2>1. deployment.nodes \in {<<1, 1>>, <<4, 1>>, <<1, 2, 2>>} BY DEF Deployments
    <2>4. deployment.offset \in Nat BY DEF Deployments
    <2>2. deployment.nodes \in Seq(Nat \ {0}) /\ Len(deployment.nodes) > 0
        <3>1. <<1, 1>> \in Seq(Nat \ {0}) /\ Len(<<1, 1>>) > 0 OBVIOUS
        <3>2. <<4, 1>> \in Seq(Nat \ {0}) /\ Len(<<4, 1>>) > 0 OBVIOUS
        <3>3. <<1, 2, 2>> \in Seq(Nat \ {0}) /\ Len(<<1, 2, 2>>) > 0 OBVIOUS
        <3>4. \A x \in {<<1, 1>>, <<4, 1>>, <<1, 2, 2>>} : x \in Seq(Nat \ {0}) /\ Len(x) > 0
            <4> SUFFICES ASSUME NEW x \in {<<1, 1>>, <<4, 1>>, <<1, 2, 2>>}
                         PROVE  x \in Seq(Nat \ {0}) /\ Len(x) > 0
                OBVIOUS
            <4>1. x = <<1, 1>> \/ x = <<4, 1>> \/ x = <<1, 2, 2>> OBVIOUS
            <4> QED BY <3>1, <3>2, <3>3, <4>1, Zenon
        <3> QED BY <2>1, <3>4
    <2>3. IsDeployment(deployment) /\ ProperLayout BY <2>2, <2>4 DEF IsDeployment, ProperLayout
    <2> QED BY <2>3, SetupAlwaysAgrees, PortsAlwaysDistinct
<1> HIDE DEF Chosen
<1> QED BY <1>1, <1>2, <1>3, PTL DEF MCSpec
=============================================================================
