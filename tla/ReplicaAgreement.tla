-------------------------- MODULE ReplicaAgreement --------------------------
(***************************************************************************)
(* Two nodes, a and b, that merge the same vote logs independently: each   *)
(* has its own InterChainOrderManager, fed by its own Raft threads and its *)
(* own gossip, and they share nothing but the agreed logs.                 *)
(***************************************************************************)
EXTENDS Integers, Sequences, FiniteSets

CONSTANTS GroupCount, Logs, Faulty, MaxDelivered

VARIABLES
    log,
    posA, chainsA, headsA, heightA, invalidA, poppingA, deliveredA, abortedA,
    posB, chainsB, headsB, heightB, invalidB, poppingB, deliveredB, abortedB

varsA == <<posA, chainsA, headsA, heightA, invalidA, poppingA, deliveredA, abortedA>>
varsB == <<posB, chainsB, headsB, heightB, invalidB, poppingB, deliveredB, abortedB>>
vars == <<log, varsA, varsB>>

A == INSTANCE InterChainOrderManager WITH
        pos <- posA, chains <- chainsA, heads <- headsA, height <- heightA,
        invalid <- invalidA, popping <- poppingA, delivered <- deliveredA,
        aborted <- abortedA

B == INSTANCE InterChainOrderManager WITH
        pos <- posB, chains <- chainsB, heads <- headsB, height <- heightB,
        invalid <- invalidB, popping <- poppingB, delivered <- deliveredB,
        aborted <- abortedB

\* what each node assumes of the deployment and of the logs
ASSUME AgreementAssumption ==
    /\ GroupCount \in Nat \ {0}
    /\ MaxDelivered \in Nat
    /\ Faulty \subseteq A!Group
    /\ \A l \in Logs : A!WellFormed(l)

Init == A!Init /\ B!Init

Next ==
    \/ A!Next /\ UNCHANGED varsB
    \/ B!Next /\ UNCHANGED varsA

\* each node learns by itself, from on_stop_following, that a leader is down
NextWithFailures ==
    \/ A!NextWithFailures /\ UNCHANGED varsB
    \/ B!NextWithFailures /\ UNCHANGED varsA

Spec == Init /\ [][Next]_vars
FailureSpec == Init /\ [][NextWithFailures]_vars

\* Agreement: all nodes run the blocks in the same order, so that what one has
\* delivered is always a prefix of what the other has delivered.
Agreement ==
    \A i \in DOMAIN deliveredA \cap DOMAIN deliveredB : deliveredA[i] = deliveredB[i]

=============================================================================
