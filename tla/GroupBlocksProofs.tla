------------------------- MODULE GroupBlocksProofs -------------------------
(***************************************************************************)
(* Proofs about the consensus inside a group, for every number of nodes,   *)
(* requests and leaders, every size of a batch and of the signature cache, *)
(* and quorums any two of which have a node in common; and about how the   *)
(* blocks of a group reach the nodes of another (BlockReplication).        *)
(***************************************************************************)
EXTENDS LocalConsensus, BlockReplication, FiniteSetTheorems, SequenceTheorems, WellFoundedInduction, TLAPS

(***************************************************************************)
(* The inductive invariant.                                                *)
(***************************************************************************)

IsSequence(s) == \E T : s \in Seq(T)

Typed ==
    /\ requests \in Nat
    /\ userQueue \in [Nodes -> Seq(Nat)]
    /\ wire \in [Nodes -> Seq(Seq(Nat))]
    /\ queue \in [Nodes -> Seq(Seq(Nat))]
    /\ follows = [n \in Nodes |-> follows[n]] /\ \A n \in Nodes : follows[n] # n
    /\ cache = [n \in Nodes |-> cache[n]]
    /\ isLeader \in [Nodes -> BOOLEAN]
    /\ proposed = [n \in Nodes |-> proposed[n]]
    /\ delivered = [n \in Nodes |-> delivered[n]]
    /\ \A n \in Nodes : IsSequence(delivered[n])
    /\ IsSequence(decided)
    /\ dead \subseteq Nodes /\ collecting \subseteq Nodes /\ told \subseteq Nodes
    /\ term \in Nat /\ leader \in Nodes
    /\ vote \in [Nodes -> {"none", "yes", "no"}]
    /\ signed = [n \in Nodes |-> signed[n]]
    /\ signatures = [n \in Nodes |-> signatures[n]]

(* The batches.                                                            *)

\* the batches that exist somewhere
IsBatch(b) ==
    \/ \E n \in Nodes : b \in ToSet(wire[n]) \/ b \in ToSet(queue[n]) \/ Cached(n, b)
    \/ \E i \in DOMAIN decided : b = decided[i].data
    \/ proposal # Nil /\ b = proposal.data

NoRepeat(s) == \A i, j \in DOMAIN s : s[i] = s[j] => i = j

\* a request waits at one leader, or is in one batch
Disjoint ==
    \A b, c : IsBatch(b) /\ IsBatch(c) => b = c \/ ToSet(b) \cap ToSet(c) = {}

Fresh ==
    /\ \A b : IsBatch(b) =>
            /\ ToSet(b) # {} /\ ToSet(b) \subseteq 1 .. requests
            /\ \A n \in Nodes : ToSet(b) \cap ToSet(userQueue[n]) = {}
    /\ \A n \in Nodes : NoRepeat(userQueue[n]) /\ ToSet(userQueue[n]) \subseteq 1 .. requests
    /\ \A m, n \in Nodes : m # n => ToSet(userQueue[m]) \cap ToSet(userQueue[n]) = {}

\* a node receives a batch once, and before it delivers the block
ReceivedOnce ==
    \A n \in Nodes :
        /\ NoRepeat(wire[n])
        /\ \A b \in ToSet(wire[n]) : ~ Cached(n, b) /\ b \notin ToSet(queue[n])
        /\ n \notin dead => \A i \in 1 .. Len(delivered[n]) : decided[i].data \notin ToSet(wire[n])

\* the delivered blocks are those decided, except perhaps for the last
Progress ==
    /\ \A n \in Nodes \ dead :
          Len(delivered[n]) <= Len(decided) /\ Len(decided) <= Len(delivered[n]) + 1
    /\ leader \notin told => proposal = Nil
    /\ leader \notin told \/ proposal # Nil => \A n \in Nodes : HasDelivered(n)

\* a leader has not led before, and its queue holds batches nobody has proposed
\* to the end
QueueNew ==
    /\ \A n \in Nodes \ collecting : queue[n] = <<>> /\ ~ isLeader[n]
    /\ leader \in told \ dead =>
        /\ NoRepeat(queue[leader])
        /\ \A b \in ToSet(queue[leader]) : Cached(leader, b)
        /\ \A b : b \in ToSet(queue[leader]) \/ b \in ToSet(wire[leader]) =>
              /\ \A i \in DOMAIN decided : b # decided[i].data
              /\ proposal # Nil => b # proposal.data

DecidedOnce ==
    /\ \A i, j \in DOMAIN decided : decided[i].data = decided[j].data => i = j
    /\ proposal # Nil => \A i \in DOMAIN decided : decided[i].data # proposal.data

BatchInv == Disjoint /\ Fresh /\ ReceivedOnce /\ Progress /\ QueueNew /\ DecidedOnce

(* The chain.                                                              *)

\* the block of the batch is in the cache with its header, and no other
HasHeader(n, h) == <<h.data, h>> \in cache[n]
OneEntry == \A n \in Nodes : \A c, d \in cache[n] : c[1] = d[1] => c = d

\* the last block of the node is the last decided, or will be
UpToDate(n) ==
    IF HasDelivered(n) THEN deliveredBlock(n) = Last(decided) ELSE HasHeader(n, Last(decided))

Numbered ==
    \A i \in DOMAIN decided :
        /\ decided[i] = HeaderAfter(IF i = 1 THEN Nil ELSE decided[i - 1], decided[i].data)
        /\ decided[i].number = i - 1

FollowDecided ==
    \A n \in Nodes \ refused :
        /\ Len(delivered[n]) <= Len(decided)
        /\ \A i \in DOMAIN delivered[n] : delivered[n][i] = decided[i]
        /\ ~ HasDelivered(n) => HasHeader(n, Last(decided))

\* a quorum has the last block, except for those that have ended
QuorumKnows ==
    decided # <<>> =>
        \E Q \in SUBSET Nodes : Cardinality(Q) >= Quorum /\ \A n \in Q \ dead : UpToDate(n)

Votes ==
    /\ proposal = Nil => \A n \in Nodes : vote[n] = "none" /\ signed[n] = Nil
    /\ \A n \in Nodes : vote[n] # "none" => n \in told \ dead
    /\ \A n \in Nodes : signed[n] # Nil => vote[n] = "yes"
    /\ \A n \in Nodes : vote[n] = "yes" => HasHeader(n, proposal)
    /\ \A n \in Nodes \ {leader} : vote[n] = "yes" => isDeliveredBlockHeaderValid(n, proposal)
    /\ \A n \in Nodes \ refused : vote[n] = "no" => ~ isDeliveredBlockHeaderValid(n, proposal)
    /\ proposal # Nil => vote[leader] = "yes"

\* what the leader extends
LeaderExtends ==
    /\ proposal # Nil => /\ leader \in told \ dead
                         /\ proposal = HeaderAfter(deliveredBlock(leader), proposal.data)
                         /\ proposed[leader] = proposal
    /\ leader \in told \ dead /\ proposal = Nil =>
          IF HasDelivered(leader) THEN proposed[leader] = deliveredBlock(leader)
          ELSE proposed[leader] = Last(decided) /\ HasHeader(leader, Last(decided))

ChainInv == OneEntry /\ Numbered /\ FollowDecided /\ QuorumKnows /\ Votes /\ LeaderExtends

(* The signatures and the ends of nodes.                                   *)

SignatureTyped ==
    \A n \in Nodes :
        /\ signatures[n] = [front |-> signatures[n].front, back |-> signatures[n].back,
                            slot |-> signatures[n].slot]
        /\ signatures[n].front \in Nat /\ signatures[n].back \in Nat
        /\ signatures[n].slot = [i \in 0 .. (SignatureSlots - 1) |-> signatures[n].slot[i]]

Signatures ==
    \A n \in Nodes \ refused :
        /\ signed[n] # Nil => signed[n] = proposal
        /\ n \in told =>
             IF vote[n] = "yes" /\ signed[n] = Nil
             THEN signatures[n].back = signatures[n].front + 1 /\ FrontSignature(n) = proposal
             ELSE signatures[n].back = signatures[n].front

\* a leader of one of the first two terms leads for the first time
FirstTerms ==
    /\ leader \in collecting \ told => term > 2
    /\ term >= 1
    /\ term = 1 => leader = 0 /\ collecting \subseteq {0}
    /\ term = 2 => leader # 0 /\ collecting \subseteq {0, leader}
    /\ term = 1 /\ 0 \in collecting => 0 \in told

Ends == \A n \in dead : n \in refused \/ (n \in collecting /\ term > 2)

Inv == Typed /\ BatchInv /\ ChainInv /\ SignatureTyped /\ Signatures /\ FirstTerms /\ Ends

(***************************************************************************)
(* Sequences.                                                              *)
(***************************************************************************)

LEMMA AppendSet ==
    ASSUME NEW T, NEW s \in Seq(T), NEW e
    PROVE  /\ Append(s, e) \in Seq(T \cup {e}) /\ Len(Append(s, e)) = Len(s) + 1
           /\ DOMAIN Append(s, e) = 1 .. (Len(s) + 1) /\ DOMAIN s = 1 .. Len(s) /\ Len(s) \in Nat
           /\ \A i \in DOMAIN s : Append(s, e)[i] = s[i]
           /\ Append(s, e)[Len(s) + 1] = e
           /\ ToSet(Append(s, e)) = ToSet(s) \cup {e}
           /\ NoRepeat(s) /\ e \notin ToSet(s) => NoRepeat(Append(s, e))
<1> DEFINE a == Append(s, e)
<1>1. s \in Seq(T \cup {e}) /\ e \in T \cup {e} BY SeqMonotonic
<1>2. /\ a \in Seq(T \cup {e}) /\ Len(a) = Len(s) + 1 /\ DOMAIN a = 1 .. (Len(s) + 1)
      /\ DOMAIN s = 1 .. Len(s) /\ Len(s) \in Nat
      /\ \A i \in DOMAIN s : a[i] = s[i]
      /\ a[Len(s) + 1] = e
    BY <1>1
<1> HIDE DEF a
<1>3. \A i : i \in DOMAIN a <=> i \in DOMAIN s \/ i = Len(s) + 1 BY <1>2
<1>4. ToSet(a) = ToSet(s) \cup {e} BY <1>2, <1>3 DEF ToSet
<1>5. ASSUME NoRepeat(s), e \notin ToSet(s) PROVE NoRepeat(a)
    <2>1. \A i \in DOMAIN s : s[i] # e BY <1>5 DEF ToSet
    <2> QED BY <1>2, <1>3, <1>5, <2>1 DEF NoRepeat
<1> QED BY <1>2, <1>4, <1>5 DEF a

LEMMA HeadSet ==
    ASSUME NEW T, NEW s \in Seq(T), s # <<>>
    PROVE  /\ Head(s) \in T /\ Tail(s) \in Seq(T)
           /\ Head(s) \in ToSet(s) /\ ToSet(Tail(s)) \subseteq ToSet(s)
           /\ NoRepeat(s) => NoRepeat(Tail(s)) /\ Head(s) \notin ToSet(Tail(s))
<1> DEFINE t == Tail(s)
<1>1. Len(s) \in Nat /\ Len(s) >= 1 /\ DOMAIN s = 1 .. Len(s) OBVIOUS
<1>2. /\ Head(s) = s[1] /\ 1 \in DOMAIN s /\ Head(s) \in T /\ t \in Seq(T)
      /\ DOMAIN t = 1 .. (Len(s) - 1) /\ \A i \in 1 .. (Len(s) - 1) : t[i] = s[i + 1]
    BY <1>1
<1> HIDE DEF t
<1>3. \A i \in DOMAIN t : i + 1 \in DOMAIN s /\ i + 1 # 1 /\ t[i] = s[i + 1] BY <1>1, <1>2
<1>4. Head(s) \in ToSet(s) /\ ToSet(t) \subseteq ToSet(s) BY <1>2, <1>3 DEF ToSet
<1>5. ASSUME NoRepeat(s) PROVE NoRepeat(t) /\ Head(s) \notin ToSet(t)
    <2>1. \A i \in DOMAIN t : t[i] # Head(s) BY <1>2, <1>3, <1>5 DEF NoRepeat
    <2>2. NoRepeat(t)
        <3> SUFFICES ASSUME NEW i \in DOMAIN t, NEW j \in DOMAIN t, t[i] = t[j] PROVE i = j
            BY DEF NoRepeat
        <3>1. i + 1 = j + 1 BY <1>3, <1>5 DEF NoRepeat
        <3>2. i \in Int /\ j \in Int BY <1>1, <1>2
        <3> QED BY <3>1, <3>2
    <2> QED BY <2>1, <2>2 DEF ToSet
<1> QED BY <1>2, <1>4, <1>5 DEF t

\* a batch is cut off the queue of requests
LEMMA CutSet ==
    ASSUME NEW T, NEW q \in Seq(T), NEW cut \in Nat, 1 <= cut, cut <= Len(q), NoRepeat(q)
    PROVE  LET b == SubSeq(q, 1, cut)
               r == SubSeq(q, cut + 1, Len(q))
           IN  /\ b \in Seq(T) /\ r \in Seq(T) /\ NoRepeat(r)
               /\ ToSet(b) # {} /\ ToSet(b) \subseteq ToSet(q) /\ ToSet(r) \subseteq ToSet(q)
               /\ ToSet(b) \cap ToSet(r) = {}
<1> DEFINE n == Len(q)
           b == SubSeq(q, 1, cut)
           m == cut + 1
           r == SubSeq(q, m, n)
<1>1. n \in Nat /\ DOMAIN q = 1 .. n /\ m \in Int /\ cut <= n OBVIOUS
<1>2. \A i \in 1 .. n : q[i] \in T BY <1>1
<1>3. b \in Seq(T) /\ Len(b) = cut /\ \A i \in 1 .. cut : b[i] = q[i]
    <2>1. \A i \in 1 .. cut : q[i] \in T BY <1>1, <1>2
    <2>2. /\ b \in Seq(T) /\ Len(b) = IF 1 <= cut THEN cut - 1 + 1 ELSE 0
          /\ \A i \in 1 .. (cut - 1 + 1) : b[i] = q[1 + i - 1]
        BY <2>1, SubSeqProperties
    <2>3. \A i \in 1 .. cut : i \in 1 .. (cut - 1 + 1) /\ 1 + i - 1 = i OBVIOUS
    <2> HIDE DEF b
    <2> QED BY <2>2, <2>3
<1>4. r \in Seq(T) /\ Len(r) = n - cut /\ \A i \in 1 .. (n - cut) : r[i] = q[cut + i]
    <2>1. \A i \in m .. n : q[i] \in T BY <1>1, <1>2
    <2>2. /\ r \in Seq(T) /\ Len(r) = IF m <= n THEN n - m + 1 ELSE 0
          /\ \A i \in 1 .. (n - m + 1) : r[i] = q[m + i - 1]
        BY <1>1, <2>1, SubSeqProperties
    <2>3. (IF m <= n THEN n - m + 1 ELSE 0) = n - cut /\ n - m + 1 = n - cut
        <3> HIDE DEF n
        <3>1. CASE m <= n BY <1>1, <3>1
        <3>2. CASE ~ (m <= n) BY <1>1, <3>2
        <3> QED BY <3>1, <3>2
    <2>4. \A i \in 1 .. (n - cut) : m + i - 1 = cut + i BY <1>1
    <2> HIDE DEF r, m
    <2> QED BY <2>2, <2>3, <2>4
<1> HIDE DEF b, r, n
<1>5. DOMAIN b = 1 .. cut /\ DOMAIN r = 1 .. (n - cut) BY <1>3, <1>4
<1>6. \A i \in DOMAIN b : i \in DOMAIN q /\ i \in Int /\ i <= cut /\ b[i] = q[i] BY <1>1, <1>3, <1>5
<1>7. \A i \in DOMAIN r : i \in Int /\ cut + i \in DOMAIN q /\ cut + i > cut /\ r[i] = q[cut + i]
    <2> SUFFICES ASSUME NEW i \in DOMAIN r
                 PROVE  i \in Int /\ cut + i \in DOMAIN q /\ cut + i > cut /\ r[i] = q[cut + i]
        OBVIOUS
    <2>1. i \in 1 .. (n - cut) BY <1>5
    <2>2. r[i] = q[cut + i] BY <1>4, <2>1
    <2>3. i \in Int /\ cut + i \in 1 .. n /\ cut + i > cut BY <1>1, <2>1
    <2> QED BY <1>1, <2>2, <2>3
<1>8. NoRepeat(r)
    <2> SUFFICES ASSUME NEW i \in DOMAIN r, NEW j \in DOMAIN r, r[i] = r[j] PROVE i = j
        BY DEF NoRepeat
    <2>1. cut + i = cut + j BY <1>7 DEF NoRepeat
    <2>2. i \in Int /\ j \in Int BY <1>7
    <2> QED BY <2>1, <2>2
<1>9. ToSet(b) # {}
    <2>1. 1 \in DOMAIN b BY <1>5
    <2> QED BY <2>1 DEF ToSet
<1>10. ToSet(b) \subseteq ToSet(q) /\ ToSet(r) \subseteq ToSet(q) BY <1>6, <1>7 DEF ToSet
<1>11. ToSet(b) \cap ToSet(r) = {}
    <2>1. ASSUME NEW i \in DOMAIN b, NEW j \in DOMAIN r PROVE b[i] # r[j]
        <3>1. i # cut + j BY <1>6, <1>7
        <3> QED BY <1>6, <1>7, <3>1 DEF NoRepeat
    <2> QED BY <2>1 DEF ToSet
<1> QED BY <1>3, <1>4, <1>8, <1>9, <1>10, <1>11 DEF b, r, n

LEMMA LastOf ==
    ASSUME NEW s, IsSequence(s), s # <<>>
    PROVE  Last(s) = s[Len(s)] /\ Len(s) \in DOMAIN s /\ Len(s) \in Nat /\ Len(s) >= 1
<1>1. PICK T : s \in Seq(T) BY DEF IsSequence
<1> QED BY <1>1 DEF Last

LEMMA SequenceDomain ==
    ASSUME NEW s, IsSequence(s)
    PROVE  Len(s) \in Nat /\ DOMAIN s = 1 .. Len(s) /\ (s = <<>> <=> Len(s) = 0)
<1>1. PICK T : s \in Seq(T) BY DEF IsSequence
<1> QED BY <1>1

LEMMA AppendLast ==
    ASSUME NEW s, IsSequence(s), NEW e
    PROVE  /\ IsSequence(Append(s, e)) /\ Len(Append(s, e)) = Len(s) + 1
           /\ DOMAIN Append(s, e) = 1 .. (Len(s) + 1)
           /\ \A i \in DOMAIN s : Append(s, e)[i] = s[i]
           /\ Append(s, e)[Len(s) + 1] = e /\ Append(s, e) # <<>>
           /\ Last(Append(s, e)) = e
<1>1. PICK T : s \in Seq(T) BY DEF IsSequence
<1>2. /\ Append(s, e) \in Seq(T \cup {e}) /\ Len(Append(s, e)) = Len(s) + 1 /\ Len(s) \in Nat
      /\ DOMAIN Append(s, e) = 1 .. (Len(s) + 1)
      /\ \A i \in DOMAIN s : Append(s, e)[i] = s[i]
      /\ Append(s, e)[Len(s) + 1] = e
    BY <1>1, AppendSet
<1> DEFINE a == Append(s, e)
<1> HIDE DEF a
<1>3. a # <<>> BY <1>2 DEF a
<1>4. Last(a) = e BY <1>2 DEF Last, a
<1> QED BY <1>2, <1>3, <1>4 DEF IsSequence, a

\* a header is not the absence of one
LEMMA HeaderFields ==
    ASSUME NEW last, NEW b
    PROVE  /\ HeaderAfter(last, b) # Nil /\ HeaderAfter(last, b).data = b
           /\ HeaderAfter(last, b).number = IF last = Nil THEN 0 ELSE last.number + 1
           /\ HeaderAfter(last, b).prev = IF last = Nil THEN Nil ELSE last
<1> DEFINE h == HeaderAfter(last, b)
<1>1. "data" \in DOMAIN h BY DEF HeaderAfter
<1>2. DOMAIN Nil = {} BY DEF Nil
<1>3. h # Nil
    <2> HIDE DEF h
    <2> QED BY <1>1, <1>2
<1> QED BY <1>3 DEF HeaderAfter, CalculatePreviousHash

(***************************************************************************)
(* The block cache, and what a step leaves alone.                          *)
(***************************************************************************)

LEMMA StoreStep ==
    ASSUME Typed, OneEntry, NEW n \in Nodes, NEW b, NEW h, cache' = Store(n, b, h)
    PROVE  /\ cache' = [m \in Nodes |-> cache'[m]] /\ OneEntry'
           /\ \A m \in Nodes : \A x : Cached(m, x)' <=> Cached(m, x) \/ (m = n /\ x = b)
           /\ \A m \in Nodes : \A x, g : <<x, g>> \in cache[m] /\ (m # n \/ x # b) => <<x, g>> \in cache'[m]
           /\ <<b, h>> \in cache'[n]
<1>1. /\ cache' = [m \in Nodes |-> cache'[m]]
      /\ cache'[n] = {c \in cache[n] : c[1] # b} \cup {<<b, h>>}
      /\ \A m \in Nodes : m # n => cache'[m] = cache[m]
    BY DEF Typed, Store
<1>2. <<b, h>>[1] = b OBVIOUS
<1>3. OneEntry'
    <2> SUFFICES ASSUME NEW m \in Nodes, NEW c \in cache'[m], NEW d \in cache'[m], c[1] = d[1]
                 PROVE  c = d
        BY DEF OneEntry
    <2>1. CASE m # n BY <1>1, <2>1 DEF OneEntry
    <2>2. CASE m = n BY <1>1, <1>2, <2>2 DEF OneEntry
    <2> QED BY <2>1, <2>2
<1>4. ASSUME NEW m \in Nodes, NEW x PROVE Cached(m, x)' <=> Cached(m, x) \/ (m = n /\ x = b)
    <2>1. CASE m # n BY <1>1, <2>1 DEF Cached
    <2>2. CASE m = n BY <1>1, <1>2, <2>2 DEF Cached
    <2> QED BY <2>1, <2>2
<1>5. ASSUME NEW m \in Nodes, NEW x, NEW g, <<x, g>> \in cache[m], m # n \/ x # b
      PROVE  <<x, g>> \in cache'[m]
    <2>1. <<x, g>>[1] = x OBVIOUS
    <2>2. CASE m # n BY <1>1, <1>5, <2>2
    <2>3. CASE m = n BY <1>1, <1>5, <2>1, <2>3
    <2> QED BY <2>2, <2>3
<1> QED BY <1>1, <1>3, <1>4, <1>5

LEMMA HeaderCached ==
    ASSUME NEW n, NEW h, HasHeader(n, h) PROVE Cached(n, h.data)
<1>1. <<h.data, h>>[1] = h.data OBVIOUS
<1> QED BY <1>1 DEF HasHeader, Cached

\* the block that is delivered is the one with the header
LEMMA BlockOfHeader ==
    ASSUME OneEntry, NEW n \in Nodes, NEW h, HasHeader(n, h), h # Nil
    PROVE  BlockOf(n, h.data) = h
<1> DEFINE c == CHOOSE x \in cache[n] : x[1] = h.data
<1>1. <<h.data, h>> \in cache[n] /\ <<h.data, h>>[1] = h.data BY DEF HasHeader
<1>2. c \in cache[n] /\ c[1] = h.data BY <1>1
<1> HIDE DEF c
<1>3. c = <<h.data, h>> BY <1>1, <1>2 DEF OneEntry
<1>4. c[2] = h BY <1>3
<1> QED BY <1>4 DEF BlockOf, c

chainVars == <<delivered, decided, dead, refused, proposal, vote, signed, leader, told, proposed>>
endVars == <<signatures, signed, vote, proposal, told, refused, leader, term, collecting, dead>>

LEMMA ChainFrame ==
    ASSUME ChainInv, UNCHANGED chainVars, OneEntry',
           \A n \in Nodes : HasHeader(n, proposal) => HasHeader(n, proposal)',
           \A n \in Nodes : HasHeader(n, Last(decided)) => HasHeader(n, Last(decided))',
           Typed
    PROVE  ChainInv'
<1>1. /\ delivered' = delivered /\ decided' = decided /\ dead' = dead /\ refused' = refused
      /\ proposal' = proposal /\ vote' = vote /\ signed' = signed /\ leader' = leader
      /\ told' = told /\ proposed' = proposed
    BY DEF chainVars
<1>2. \A n : /\ deliveredBlock(n)' = deliveredBlock(n)
             /\ HasDelivered(n)' = HasDelivered(n)
             /\ isDeliveredBlockHeaderValid(n, proposal)' = isDeliveredBlockHeaderValid(n, proposal)
    BY <1>1 DEF deliveredBlock, HasDelivered, isDeliveredBlockHeaderValid
<1>3. \A n \in Nodes : UpToDate(n) => UpToDate(n)' BY <1>1, <1>2 DEF UpToDate
<1>4. Numbered' BY <1>1 DEF ChainInv, Numbered
<1>5. FollowDecided' BY <1>1, <1>2 DEF ChainInv, FollowDecided
<1>6. QuorumKnows' BY <1>1, <1>3 DEF ChainInv, QuorumKnows
<1>7. Votes' BY <1>1, <1>2 DEF ChainInv, Votes
<1>8. LeaderExtends' BY <1>1, <1>2 DEF ChainInv, LeaderExtends, Typed
<1> QED BY <1>4, <1>5, <1>6, <1>7, <1>8 DEF ChainInv

LEMMA EndFrame ==
    ASSUME SignatureTyped, Signatures, FirstTerms, Ends, UNCHANGED endVars
    PROVE  SignatureTyped' /\ Signatures' /\ FirstTerms' /\ Ends'
<1>1. /\ signatures' = signatures /\ signed' = signed /\ vote' = vote /\ proposal' = proposal
      /\ told' = told /\ refused' = refused /\ leader' = leader /\ term' = term
      /\ collecting' = collecting /\ dead' = dead
    BY DEF endVars
<1>2. SignatureTyped' /\ Signatures' BY <1>1 DEF SignatureTyped, Signatures, FrontSignature
<1>3. FirstTerms' /\ Ends' BY <1>1 DEF FirstTerms, Ends
<1> QED BY <1>2, <1>3

(***************************************************************************)
(* The batches.                                                            *)
(***************************************************************************)

LEMMA CollectorStep ==
    ASSUME Inv, NEW n \in Nodes, collectorFunction(n) PROVE Inv'
<1>0. Typed /\ BatchInv /\ ChainInv BY DEF Inv
<1>1. /\ requests' = requests + 1
      /\ userQueue' = [userQueue EXCEPT ![n] = Append(@, requests + 1)]
      /\ UNCHANGED <<collecting, follows, wire, cache, queue, isLeader, proposed, delivered,
                     signatures, dead, refused, bftVars>>
    BY DEF collectorFunction
<1>2. UNCHANGED <<collecting, follows, wire, cache, queue, isLeader, proposed, delivered,
                  signatures, dead, refused, term, leader, told, proposal, vote, signed, decided>>
    BY <1>1 DEF bftVars
<1>3. requests \in Nat /\ userQueue[n] \in Seq(Nat) BY <1>0 DEF Typed
<1> DEFINE r == requests + 1
<1>4. r \in Nat /\ r \notin 1 .. requests /\ r \in 1 .. (requests + 1)
      /\ 1 .. requests \subseteq 1 .. (requests + 1)
    BY <1>3
<1>5. r \notin ToSet(userQueue[n]) /\ NoRepeat(userQueue[n]) BY <1>0, <1>4 DEF BatchInv, Fresh
<1>6. /\ Append(userQueue[n], r) \in Seq(Nat)
      /\ ToSet(Append(userQueue[n], r)) = ToSet(userQueue[n]) \cup {r}
      /\ NoRepeat(Append(userQueue[n], r))
    BY <1>3, <1>4, <1>5, AppendSet
<1>7. /\ userQueue' \in [Nodes -> Seq(Nat)] /\ userQueue'[n] = Append(userQueue[n], r)
      /\ \A m \in Nodes : m # n => userQueue'[m] = userQueue[m]
    BY <1>0, <1>1, <1>6 DEF Typed
<1> HIDE DEF r
<1>8. /\ ToSet(userQueue'[n]) = ToSet(userQueue[n]) \cup {r} /\ NoRepeat(userQueue'[n])
      /\ \A m \in Nodes : ToSet(userQueue'[m]) \subseteq ToSet(userQueue[m]) \cup {r}
      /\ \A m \in Nodes : m # n => ToSet(userQueue'[m]) = ToSet(userQueue[m])
    BY <1>6, <1>7
<1>9. Typed' BY <1>0, <1>1, <1>2, <1>3, <1>4, <1>7 DEF Typed, r
<1>10. \A b : IsBatch(b)' <=> IsBatch(b) BY <1>2 DEF IsBatch, Cached
<1>11. requests' = requests + 1 /\ r \in 1 .. requests' /\ 1 .. requests \subseteq 1 .. requests'
    BY <1>1, <1>4
<1>12. Fresh'
    <2>1. ASSUME NEW b, IsBatch(b)
          PROVE  /\ ToSet(b) # {} /\ ToSet(b) \subseteq 1 .. requests'
                 /\ \A m \in Nodes : ToSet(b) \cap ToSet(userQueue'[m]) = {}
        <3>1. ToSet(b) # {} /\ ToSet(b) \subseteq 1 .. requests
              /\ \A m \in Nodes : ToSet(b) \cap ToSet(userQueue[m]) = {}
            BY <1>0, <2>1 DEF BatchInv, Fresh
        <3> QED BY <1>4, <1>8, <1>11, <3>1
    <2>2. ASSUME NEW m \in Nodes
          PROVE  NoRepeat(userQueue'[m]) /\ ToSet(userQueue'[m]) \subseteq 1 .. requests'
        <3>1. NoRepeat(userQueue[m]) /\ ToSet(userQueue[m]) \subseteq 1 .. requests
            BY <1>0 DEF BatchInv, Fresh
        <3> QED BY <1>7, <1>8, <1>11, <3>1
    <2>3. ASSUME NEW k \in Nodes, NEW m \in Nodes, k # m
          PROVE  ToSet(userQueue'[k]) \cap ToSet(userQueue'[m]) = {}
        <3>1. /\ ToSet(userQueue[k]) \cap ToSet(userQueue[m]) = {}
              /\ r \notin ToSet(userQueue[k]) /\ r \notin ToSet(userQueue[m])
            BY <1>0, <1>4, <2>3 DEF BatchInv, Fresh
        <3>2. CASE k = n BY <1>8, <2>3, <3>1, <3>2
        <3>3. CASE m = n BY <1>8, <2>3, <3>1, <3>3
        <3>4. CASE k # n /\ m # n BY <1>8, <3>1, <3>4
        <3> QED BY <3>2, <3>3, <3>4
    <2> QED BY <1>10, <2>1, <2>2, <2>3 DEF Fresh
<1>13. BatchInv'
    <2>1. Disjoint' BY <1>0, <1>10 DEF BatchInv, Disjoint
    <2>2. ReceivedOnce' BY <1>0, <1>2 DEF BatchInv, ReceivedOnce, Cached
    <2>3. Progress' BY <1>0, <1>2 DEF BatchInv, Progress, HasDelivered
    <2>4. QueueNew' BY <1>0, <1>2 DEF BatchInv, QueueNew, Cached
    <2>5. DecidedOnce' BY <1>0, <1>2 DEF BatchInv, DecidedOnce
    <2> QED BY <1>12, <2>1, <2>2, <2>3, <2>4, <2>5 DEF BatchInv
<1>14. ChainInv'
    <2>1. OneEntry' BY <1>0, <1>2 DEF ChainInv, OneEntry
    <2>2. UNCHANGED chainVars BY <1>2 DEF chainVars
    <2> QED BY <1>0, <1>2, <2>1, <2>2, ChainFrame DEF HasHeader
<1>15. UNCHANGED endVars BY <1>2 DEF endVars
<1> QED BY <1>9, <1>13, <1>14, <1>15, EndFrame DEF Inv

LEMMA PushBatch ==
    ASSUME Typed, OneEntry, QueueNew, NEW n \in Nodes, NEW b \in Seq(Nat),
           pushUnorderedBlock(n, b), b \notin ToSet(queue[n])
    PROVE  /\ queue' \in [Nodes -> Seq(Seq(Nat))]
           /\ \A m \in Nodes : NoRepeat(queue[m]) => NoRepeat(queue'[m])
           /\ \A m \in Nodes : \A x \in ToSet(queue'[m]) : x \in ToSet(queue[m]) \/ (m = n /\ x = b)
           /\ \A m \in Nodes \ collecting : queue'[m] = queue[m]
           /\ cache' = [m \in Nodes |-> cache'[m]] /\ OneEntry'
           /\ \A m \in Nodes : \A x : Cached(m, x)' <=> Cached(m, x) \/ (m = n /\ x = b)
           /\ \A m \in Nodes : \A x, g : <<x, g>> \in cache[m] /\ (m # n \/ x # b) => <<x, g>> \in cache'[m]
<1>1. cache' = Store(n, b, Nil) BY DEF pushUnorderedBlock
<1>2. queue[n] \in Seq(Seq(Nat)) /\ isLeader[n] \in BOOLEAN BY DEF Typed
<1>3. CASE ~ isLeader[n]
    <2>1. queue' = queue BY <1>3 DEF pushUnorderedBlock
    <2> QED BY <1>1, <2>1, StoreStep DEF Typed
<1>4. CASE isLeader[n]
    <2>1. queue' = [queue EXCEPT ![n] = Append(@, b)] BY <1>4 DEF pushUnorderedBlock
    <2>2. /\ Append(queue[n], b) \in Seq(Seq(Nat))
          /\ ToSet(Append(queue[n], b)) = ToSet(queue[n]) \cup {b}
          /\ NoRepeat(queue[n]) => NoRepeat(Append(queue[n], b))
        BY <1>2, AppendSet
    <2>3. /\ queue' \in [Nodes -> Seq(Seq(Nat))] /\ queue'[n] = Append(queue[n], b)
          /\ \A m \in Nodes : m # n => queue'[m] = queue[m]
        BY <2>1, <2>2 DEF Typed
    <2>4. n \in collecting BY <1>4 DEF QueueNew
    <2>5. \A m \in Nodes : \A x \in ToSet(queue'[m]) : x \in ToSet(queue[m]) \/ (m = n /\ x = b)
        BY <2>2, <2>3
    <2>6. \A m \in Nodes : NoRepeat(queue[m]) => NoRepeat(queue'[m]) BY <2>2, <2>3
    <2> QED BY <1>1, <2>3, <2>4, <2>5, <2>6, StoreStep
<1> QED BY <1>2, <1>3, <1>4

LEMMA BatchingStep ==
    ASSUME Inv, NEW n \in Nodes, batchingFunction(n) PROVE Inv'
<1>0. Typed /\ BatchInv /\ ChainInv BY DEF Inv
<1>1. PICK cut \in 1 .. maxBatchSize :
        /\ cut <= Len(userQueue[n])
        /\ pushUnorderedBlock(n, SubSeq(userQueue[n], 1, cut))
        /\ wire' = [f \in Nodes |-> IF follows[f] = n
                                    THEN Append(wire[f], SubSeq(userQueue[n], 1, cut)) ELSE wire[f]]
        /\ userQueue' = [userQueue EXCEPT ![n] = SubSeq(@, cut + 1, Len(@))]
    BY DEF batchingFunction
<1>2. UNCHANGED <<requests, collecting, follows, isLeader, proposed, delivered, signatures, dead,
                  refused, term, leader, told, proposal, vote, signed, decided>>
    BY DEF batchingFunction, bftVars
<1> DEFINE q == userQueue[n]
           b == SubSeq(q, 1, cut)
           r == SubSeq(q, cut + 1, Len(q))
<1>3. q \in Seq(Nat) /\ NoRepeat(q) BY <1>0 DEF Typed, BatchInv, Fresh
<1>4. cut \in Nat /\ 1 <= cut /\ cut <= Len(q) BY <1>1, LocalAssumption
<1>5. /\ b \in Seq(Nat) /\ r \in Seq(Nat) /\ NoRepeat(r)
      /\ ToSet(b) # {} /\ ToSet(b) \subseteq ToSet(q) /\ ToSet(r) \subseteq ToSet(q)
      /\ ToSet(b) \cap ToSet(r) = {}
    BY <1>3, <1>4, CutSet
<1>6. /\ userQueue' \in [Nodes -> Seq(Nat)] /\ userQueue'[n] = r
      /\ \A m \in Nodes : m # n => userQueue'[m] = userQueue[m]
    BY <1>0, <1>1, <1>5 DEF Typed
<1>7. pushUnorderedBlock(n, b) BY <1>1
<1>8. wire' = [f \in Nodes |-> IF follows[f] = n THEN Append(wire[f], b) ELSE wire[f]] BY <1>1
<1> HIDE DEF b, r, q
<1>9. ~ IsBatch(b)
    <2> SUFFICES ASSUME IsBatch(b) PROVE FALSE OBVIOUS
    <2>1. ToSet(b) \cap ToSet(q) = {} BY <1>0 DEF BatchInv, Fresh, q
    <2> QED BY <1>5, <2>1
<1>10. /\ \A m \in Nodes : b \notin ToSet(wire[m]) /\ b \notin ToSet(queue[m]) /\ ~ Cached(m, b)
       /\ \A i \in DOMAIN decided : b # decided[i].data
       /\ proposal # Nil => b # proposal.data
    BY <1>9 DEF IsBatch
<1>11. /\ queue' \in [Nodes -> Seq(Seq(Nat))]
       /\ \A m \in Nodes : NoRepeat(queue[m]) => NoRepeat(queue'[m])
       /\ \A m \in Nodes : \A x \in ToSet(queue'[m]) : x \in ToSet(queue[m]) \/ (m = n /\ x = b)
       /\ \A m \in Nodes \ collecting : queue'[m] = queue[m]
       /\ cache' = [m \in Nodes |-> cache'[m]] /\ OneEntry'
       /\ \A m \in Nodes : \A x : Cached(m, x)' <=> Cached(m, x) \/ (m = n /\ x = b)
       /\ \A m \in Nodes : \A x, g : <<x, g>> \in cache[m] /\ (m # n \/ x # b) => <<x, g>> \in cache'[m]
    BY <1>0, <1>5, <1>7, <1>10, PushBatch DEF BatchInv, ChainInv
<1>12. ASSUME NEW m \in Nodes
       PROVE  /\ wire'[m] \in Seq(Seq(Nat)) /\ (NoRepeat(wire[m]) => NoRepeat(wire'[m]))
              /\ \A x \in ToSet(wire'[m]) : x \in ToSet(wire[m]) \/ (m # n /\ x = b)
    <2>1. wire[m] \in Seq(Seq(Nat)) /\ follows[n] # n BY <1>0 DEF Typed
    <2>2. /\ Append(wire[m], b) \in Seq(Seq(Nat)) /\ ToSet(Append(wire[m], b)) = ToSet(wire[m]) \cup {b}
          /\ NoRepeat(wire[m]) => NoRepeat(Append(wire[m], b))
        BY <1>5, <1>10, <2>1, AppendSet
    <2>3. CASE follows[m] = n
        <3>1. wire'[m] = Append(wire[m], b) /\ m # n BY <1>8, <2>1, <2>3
        <3> QED BY <2>2, <3>1
    <2>4. CASE follows[m] # n
        <3>1. wire'[m] = wire[m] BY <1>8, <2>4
        <3> QED BY <2>1, <3>1
    <2> QED BY <2>3, <2>4
<1>13. wire' \in [Nodes -> Seq(Seq(Nat))] BY <1>8, <1>12
<1>14. Typed' BY <1>0, <1>2, <1>6, <1>11, <1>13 DEF Typed
<1>15. ASSUME NEW x, IsBatch(x)' PROVE IsBatch(x) \/ x = b
    BY <1>2, <1>11, <1>12, <1>15 DEF IsBatch
<1>16. \A m \in Nodes : ToSet(userQueue'[m]) \subseteq ToSet(userQueue[m]) BY <1>5, <1>6 DEF q
<1>17. \A m \in Nodes : ToSet(b) \cap ToSet(userQueue'[m]) = {}
    <2> SUFFICES ASSUME NEW m \in Nodes PROVE ToSet(b) \cap ToSet(userQueue'[m]) = {} OBVIOUS
    <2>1. CASE m = n BY <1>5, <1>6, <2>1
    <2>2. CASE m # n
        <3>1. ToSet(q) \cap ToSet(userQueue[m]) = {} BY <1>0, <2>2 DEF BatchInv, Fresh, q
        <3> QED BY <1>5, <1>16, <3>1
    <2> QED BY <2>1, <2>2
<1>18. Disjoint'
    <2> SUFFICES ASSUME NEW x, NEW y, IsBatch(x)', IsBatch(y)', x # y PROVE ToSet(x) \cap ToSet(y) = {}
        BY DEF Disjoint
    <2>1. CASE IsBatch(x) /\ IsBatch(y) BY <1>0, <2>1 DEF BatchInv, Disjoint
    <2>2. ASSUME NEW z, IsBatch(z) PROVE ToSet(z) \cap ToSet(b) = {}
        <3>1. ToSet(z) \cap ToSet(q) = {} BY <1>0, <2>2 DEF BatchInv, Fresh, q
        <3> QED BY <1>5, <3>1
    <2> QED BY <1>15, <2>1, <2>2
<1>19. Fresh'
    <2>1. ASSUME NEW x, IsBatch(x)'
          PROVE  /\ ToSet(x) # {} /\ ToSet(x) \subseteq 1 .. requests
                 /\ \A m \in Nodes : ToSet(x) \cap ToSet(userQueue'[m]) = {}
        <3>1. CASE IsBatch(x) BY <1>0, <1>16, <3>1 DEF BatchInv, Fresh
        <3>2. CASE x = b
            <4>1. ToSet(q) \subseteq 1 .. requests BY <1>0 DEF BatchInv, Fresh, q
            <4> QED BY <1>5, <1>17, <3>2, <4>1
        <3> QED BY <1>15, <2>1, <3>1, <3>2
    <2>2. ASSUME NEW m \in Nodes
          PROVE  NoRepeat(userQueue'[m]) /\ ToSet(userQueue'[m]) \subseteq 1 .. requests
        <3>1. NoRepeat(userQueue[m]) /\ ToSet(userQueue[m]) \subseteq 1 .. requests
            BY <1>0 DEF BatchInv, Fresh
        <3> QED BY <1>5, <1>6, <1>16, <3>1
    <2>3. ASSUME NEW k \in Nodes, NEW m \in Nodes, k # m
          PROVE  ToSet(userQueue'[k]) \cap ToSet(userQueue'[m]) = {}
        <3>1. ToSet(userQueue[k]) \cap ToSet(userQueue[m]) = {} BY <1>0, <2>3 DEF BatchInv, Fresh
        <3>2. ToSet(userQueue'[k]) \subseteq ToSet(userQueue[k])
              /\ ToSet(userQueue'[m]) \subseteq ToSet(userQueue[m])
            BY <1>16
        <3> QED BY <3>1, <3>2
    <2> QED BY <1>2, <2>1, <2>2, <2>3 DEF Fresh
<1>20. ReceivedOnce'
    <2> SUFFICES ASSUME NEW m \in Nodes
                 PROVE  /\ NoRepeat(wire'[m])
                        /\ \A x \in ToSet(wire'[m]) : ~ Cached(m, x)' /\ x \notin ToSet(queue'[m])
                        /\ m \notin dead => \A i \in 1 .. Len(delivered[m]) :
                                                decided[i].data \notin ToSet(wire'[m])
        BY <1>2 DEF ReceivedOnce
    <2>1. NoRepeat(wire'[m]) BY <1>0, <1>12 DEF BatchInv, ReceivedOnce
    <2>2. ASSUME NEW x \in ToSet(wire'[m]) PROVE ~ Cached(m, x)' /\ x \notin ToSet(queue'[m])
        <3>1. CASE x \in ToSet(wire[m])
            <4>1. x # b /\ ~ Cached(m, x) /\ x \notin ToSet(queue[m])
                BY <1>0, <1>10, <3>1 DEF BatchInv, ReceivedOnce
            <4> QED BY <1>11, <4>1
        <3>2. CASE m # n /\ x = b BY <1>10, <1>11, <3>2
        <3> QED BY <1>12, <3>1, <3>2
    <2>3. ASSUME m \notin dead, NEW i \in 1 .. Len(delivered[m])
          PROVE  decided[i].data \notin ToSet(wire'[m])
        <3>1. i \in DOMAIN decided
            <4>1. Len(delivered[m]) <= Len(decided) BY <1>0, <2>3 DEF BatchInv, Progress
            <4>2. Len(delivered[m]) \in Nat /\ Len(decided) \in Nat /\ DOMAIN decided = 1 .. Len(decided)
                BY <1>0, SequenceDomain DEF Typed
            <4> QED BY <4>1, <4>2
        <3>2. decided[i].data \notin ToSet(wire[m]) BY <1>0, <2>3 DEF BatchInv, ReceivedOnce
        <3> QED BY <1>10, <1>12, <3>1, <3>2
    <2> QED BY <2>1, <2>2, <2>3
<1>21. QueueNew'
    <2>1. \A m \in Nodes \ collecting : queue'[m] = <<>> /\ ~ isLeader[m]
        BY <1>0, <1>11 DEF BatchInv, QueueNew
    <2>2. ASSUME leader \in told \ dead
          PROVE  /\ NoRepeat(queue'[leader])
                 /\ \A x \in ToSet(queue'[leader]) : \E c \in cache'[leader] : c[1] = x
                 /\ \A x : x \in ToSet(queue'[leader]) \/ x \in ToSet(wire'[leader]) =>
                       /\ \A i \in DOMAIN decided : x # decided[i].data
                       /\ proposal # Nil => x # proposal.data
        <3>0. leader \in Nodes BY <1>0 DEF Typed
        <3>1. NoRepeat(queue'[leader]) BY <1>0, <1>11, <2>2, <3>0 DEF BatchInv, QueueNew
        <3>2. ASSUME NEW x \in ToSet(queue'[leader]) PROVE \E c \in cache'[leader] : c[1] = x
            <4>1. \A m \in Nodes : Cached(m, x) \/ (m = n /\ x = b) => \E c \in cache'[m] : c[1] = x
                BY <1>11 DEF Cached
            <4>2. Cached(leader, x) \/ (leader = n /\ x = b)
                BY <1>0, <1>11, <2>2, <3>0 DEF BatchInv, QueueNew
            <4> QED BY <3>0, <4>1, <4>2
        <3>3. \A x : x \in ToSet(queue'[leader]) \/ x \in ToSet(wire'[leader]) =>
                        x \in ToSet(queue[leader]) \/ x \in ToSet(wire[leader]) \/ x = b
            BY <1>11, <1>12, <3>0
        <3> QED BY <1>0, <1>10, <2>2, <3>1, <3>2, <3>3 DEF BatchInv, QueueNew
    <2> QED BY <1>2, <2>1, <2>2 DEF QueueNew, Cached
<1>22. BatchInv'
    <2>1. Progress' BY <1>0, <1>2 DEF BatchInv, Progress, HasDelivered
    <2>2. DecidedOnce' BY <1>0, <1>2 DEF BatchInv, DecidedOnce
    <2> QED BY <1>18, <1>19, <1>20, <1>21, <2>1, <2>2 DEF BatchInv
<1>23. ChainInv'
    <2>1. UNCHANGED chainVars BY <1>2 DEF chainVars
    <2>2. ASSUME NEW m \in Nodes, NEW h, HasHeader(m, h) PROVE <<h.data, h>> \in cache'[m]
        <3>1. h.data # b BY <1>10, <2>2, HeaderCached
        <3> QED BY <1>11, <2>2, <3>1 DEF HasHeader
    <2> QED BY <1>0, <1>2, <1>11, <2>1, <2>2, ChainFrame DEF HasHeader
<1>24. UNCHANGED endVars BY <1>2 DEF endVars
<1> QED BY <1>14, <1>22, <1>23, <1>24, EndFrame DEF Inv

LEMMA FreshFrame ==
    ASSUME Disjoint, Fresh, requests' = requests,
           \A n \in Nodes : /\ ToSet(userQueue'[n]) \subseteq ToSet(userQueue[n])
                            /\ NoRepeat(userQueue'[n]),
           \A b : IsBatch(b)' => IsBatch(b)
    PROVE  Disjoint' /\ Fresh'
<1>1. Disjoint' BY DEF Disjoint
<1>2. ASSUME NEW b, IsBatch(b)'
      PROVE  /\ ToSet(b) # {} /\ ToSet(b) \subseteq 1 .. requests
             /\ \A n \in Nodes : ToSet(b) \cap ToSet(userQueue'[n]) = {}
    BY <1>2 DEF Fresh
<1>3. \A n \in Nodes : ToSet(userQueue'[n]) \subseteq 1 .. requests BY DEF Fresh
<1>4. ASSUME NEW m \in Nodes, NEW n \in Nodes, m # n
      PROVE  ToSet(userQueue'[m]) \cap ToSet(userQueue'[n]) = {}
    <2>1. ToSet(userQueue[m]) \cap ToSet(userQueue[n]) = {} BY <1>4 DEF Fresh
    <2>2. ToSet(userQueue'[m]) \subseteq ToSet(userQueue[m])
          /\ ToSet(userQueue'[n]) \subseteq ToSet(userQueue[n])
        OBVIOUS
    <2> QED BY <2>1, <2>2
<1>5. Fresh' BY <1>2, <1>3, <1>4 DEF Fresh
<1> QED BY <1>1, <1>5

LEMMA FollowerStep ==
    ASSUME Inv, NEW n \in Nodes, followerFunction(n) PROVE Inv'
<1>0. Typed /\ BatchInv /\ ChainInv BY DEF Inv
<1> DEFINE b == Head(wire[n])
<1>1. /\ wire[n] # <<>> /\ pushUnorderedBlock(n, b)
      /\ wire' = [wire EXCEPT ![n] = Tail(@)]
    BY DEF followerFunction
<1>2. UNCHANGED <<requests, userQueue, collecting, follows, isLeader, proposed, delivered, signatures,
                  dead, refused, term, leader, told, proposal, vote, signed, decided>>
    BY DEF followerFunction, bftVars
<1>3. wire[n] \in Seq(Seq(Nat)) /\ NoRepeat(wire[n]) BY <1>0 DEF Typed, BatchInv, ReceivedOnce
<1>4. /\ b \in Seq(Nat) /\ Tail(wire[n]) \in Seq(Seq(Nat)) /\ b \in ToSet(wire[n])
      /\ ToSet(Tail(wire[n])) \subseteq ToSet(wire[n])
      /\ NoRepeat(Tail(wire[n])) /\ b \notin ToSet(Tail(wire[n]))
    BY <1>1, <1>3, HeadSet
<1>5. /\ wire' \in [Nodes -> Seq(Seq(Nat))] /\ wire'[n] = Tail(wire[n])
      /\ \A m \in Nodes : m # n => wire'[m] = wire[m]
    BY <1>0, <1>1, <1>4 DEF Typed
<1> HIDE DEF b
<1>6. /\ \A m \in Nodes : NoRepeat(wire'[m]) /\ ToSet(wire'[m]) \subseteq ToSet(wire[m])
      /\ b \notin ToSet(wire'[n])
    BY <1>0, <1>4, <1>5 DEF BatchInv, ReceivedOnce
<1>7. b \notin ToSet(queue[n]) /\ ~ Cached(n, b) BY <1>0, <1>4 DEF BatchInv, ReceivedOnce
<1>8. /\ queue' \in [Nodes -> Seq(Seq(Nat))]
      /\ \A m \in Nodes : NoRepeat(queue[m]) => NoRepeat(queue'[m])
      /\ \A m \in Nodes : \A x \in ToSet(queue'[m]) : x \in ToSet(queue[m]) \/ (m = n /\ x = b)
      /\ \A m \in Nodes \ collecting : queue'[m] = queue[m]
      /\ cache' = [m \in Nodes |-> cache'[m]] /\ OneEntry'
      /\ \A m \in Nodes : \A x : Cached(m, x)' <=> Cached(m, x) \/ (m = n /\ x = b)
      /\ \A m \in Nodes : \A x, g : <<x, g>> \in cache[m] /\ (m # n \/ x # b) => <<x, g>> \in cache'[m]
    BY <1>0, <1>1, <1>4, <1>7, PushBatch DEF BatchInv, ChainInv
<1>9. Typed' BY <1>0, <1>2, <1>5, <1>8 DEF Typed
<1>10. ASSUME NEW x, IsBatch(x)' PROVE IsBatch(x)
    BY <1>2, <1>4, <1>6, <1>8, <1>10 DEF IsBatch
<1>11. Disjoint' /\ Fresh'
    <2>1. \A m \in Nodes : /\ ToSet(userQueue'[m]) \subseteq ToSet(userQueue[m])
                           /\ NoRepeat(userQueue'[m])
        BY <1>0, <1>2 DEF BatchInv, Fresh
    <2> QED BY <1>0, <1>2, <1>10, <2>1, FreshFrame DEF BatchInv
<1>12. ReceivedOnce'
    <2> SUFFICES ASSUME NEW m \in Nodes
                 PROVE  /\ NoRepeat(wire'[m])
                        /\ \A x \in ToSet(wire'[m]) : ~ Cached(m, x)' /\ x \notin ToSet(queue'[m])
                        /\ m \notin dead => \A i \in 1 .. Len(delivered[m]) :
                                                decided[i].data \notin ToSet(wire'[m])
        BY <1>2 DEF ReceivedOnce
    <2>1. ASSUME NEW x \in ToSet(wire'[m]) PROVE ~ Cached(m, x)' /\ x \notin ToSet(queue'[m])
        <3>1. ~ Cached(m, x) /\ x \notin ToSet(queue[m]) /\ ~ (m = n /\ x = b)
            BY <1>0, <1>6 DEF BatchInv, ReceivedOnce
        <3> QED BY <1>8, <3>1
    <2>2. ASSUME m \notin dead, NEW i \in 1 .. Len(delivered[m])
          PROVE  decided[i].data \notin ToSet(wire'[m])
        BY <1>0, <1>6, <2>2 DEF BatchInv, ReceivedOnce
    <2> QED BY <1>6, <2>1, <2>2
<1>13. QueueNew'
    <2>1. \A m \in Nodes \ collecting : queue'[m] = <<>> /\ ~ isLeader[m]
        BY <1>0, <1>8 DEF BatchInv, QueueNew
    <2>2. ASSUME leader \in told \ dead
          PROVE  /\ NoRepeat(queue'[leader])
                 /\ \A x \in ToSet(queue'[leader]) : \E c \in cache'[leader] : c[1] = x
                 /\ \A x : x \in ToSet(queue'[leader]) \/ x \in ToSet(wire'[leader]) =>
                       /\ \A i \in DOMAIN decided : x # decided[i].data
                       /\ proposal # Nil => x # proposal.data
        <3>0. leader \in Nodes BY <1>0 DEF Typed
        <3>1. NoRepeat(queue'[leader]) BY <1>0, <1>8, <2>2, <3>0 DEF BatchInv, QueueNew
        <3>2. ASSUME NEW x \in ToSet(queue'[leader]) PROVE \E c \in cache'[leader] : c[1] = x
            <4>1. \A m \in Nodes : Cached(m, x) \/ (m = n /\ x = b) => \E c \in cache'[m] : c[1] = x
                BY <1>8 DEF Cached
            <4>2. Cached(leader, x) \/ (leader = n /\ x = b)
                BY <1>0, <1>8, <2>2, <3>0 DEF BatchInv, QueueNew
            <4> QED BY <3>0, <4>1, <4>2
        <3>3. \A x : x \in ToSet(queue'[leader]) \/ x \in ToSet(wire'[leader]) =>
                        x \in ToSet(queue[leader]) \/ x \in ToSet(wire[leader])
            BY <1>4, <1>6, <1>8, <3>0
        <3> QED BY <1>0, <2>2, <3>1, <3>2, <3>3 DEF BatchInv, QueueNew
    <2> QED BY <1>2, <2>1, <2>2 DEF QueueNew, Cached
<1>14. BatchInv'
    <2>1. Progress' BY <1>0, <1>2 DEF BatchInv, Progress, HasDelivered
    <2>2. DecidedOnce' BY <1>0, <1>2 DEF BatchInv, DecidedOnce
    <2> QED BY <1>11, <1>12, <1>13, <2>1, <2>2 DEF BatchInv
<1>15. ChainInv'
    <2>1. UNCHANGED chainVars BY <1>2 DEF chainVars
    <2>2. ASSUME NEW m \in Nodes, NEW h, HasHeader(m, h) PROVE <<h.data, h>> \in cache'[m]
        <3>1. Cached(m, h.data) BY <2>2, HeaderCached
        <3>2. m # n \/ h.data # b BY <1>7, <3>1
        <3> QED BY <1>8, <2>2, <3>2 DEF HasHeader
    <2> QED BY <1>0, <1>2, <1>8, <2>1, <2>2, ChainFrame DEF HasHeader
<1>16. UNCHANGED endVars BY <1>2 DEF endVars
<1> QED BY <1>9, <1>14, <1>15, <1>16, EndFrame DEF Inv

(***************************************************************************)
(* The leaders.                                                            *)
(***************************************************************************)

LEMMA NextLeaderStep == ASSUME Inv, NextLeader PROVE Inv'
<1>0. Typed /\ BatchInv /\ ChainInv /\ SignatureTyped /\ Signatures /\ FirstTerms /\ Ends BY DEF Inv
<1>1. /\ \A n \in Nodes : HasDelivered(n)
      /\ told = Nodes /\ term' = term + 1 /\ told' = {} /\ leader' \in Live \ {leader}
      /\ proposal' = Nil /\ vote' = [n \in Nodes |-> "none"] /\ signed' = [n \in Nodes |-> Nil]
    BY DEF NextLeader
<1>2. UNCHANGED <<requests, userQueue, collecting, follows, wire, cache, queue, isLeader, proposed,
                  delivered, signatures, dead, refused, decided>>
    BY DEF NextLeader, peerVars
<1>3. leader' \in Nodes /\ leader' \notin dead /\ leader' # leader BY <1>1 DEF Live
<1>4. Typed' BY <1>0, <1>1, <1>2, <1>3 DEF Typed
<1>5. ASSUME NEW x, IsBatch(x)' PROVE IsBatch(x) BY <1>1, <1>2, <1>5 DEF IsBatch, Cached
<1>6. Disjoint' /\ Fresh'
    <2>1. \A m \in Nodes : /\ ToSet(userQueue'[m]) \subseteq ToSet(userQueue[m])
                           /\ NoRepeat(userQueue'[m])
        BY <1>0, <1>2 DEF BatchInv, Fresh
    <2> QED BY <1>0, <1>2, <1>5, <2>1, FreshFrame DEF BatchInv
<1>7. \A n : HasDelivered(n)' = HasDelivered(n) BY <1>2 DEF HasDelivered
<1>8. BatchInv'
    <2>1. ReceivedOnce' BY <1>0, <1>2 DEF BatchInv, ReceivedOnce, Cached
    <2>2. Progress' BY <1>0, <1>1, <1>2, <1>7 DEF BatchInv, Progress
    <2>3. QueueNew' BY <1>0, <1>1, <1>2 DEF BatchInv, QueueNew, Cached
    <2>4. DecidedOnce' BY <1>0, <1>1, <1>2 DEF BatchInv, DecidedOnce
    <2> QED BY <1>6, <2>1, <2>2, <2>3, <2>4 DEF BatchInv
<1>9. ChainInv'
    <2>1. OneEntry' /\ Numbered' BY <1>0, <1>2 DEF ChainInv, OneEntry, Numbered
    <2>2. FollowDecided' BY <1>0, <1>2, <1>7 DEF ChainInv, FollowDecided, HasHeader
    <2>3. QuorumKnows'
        <3>1. \A n : UpToDate(n)' = UpToDate(n) BY <1>2, <1>7 DEF UpToDate, HasHeader, deliveredBlock
        <3> QED BY <1>0, <1>2, <3>1 DEF ChainInv, QuorumKnows
    <2>4. Votes' BY <1>1 DEF Votes
    <2>5. LeaderExtends' BY <1>1 DEF LeaderExtends
    <2> QED BY <2>1, <2>2, <2>3, <2>4, <2>5 DEF ChainInv
<1>10. SignatureTyped' /\ Signatures' BY <1>0, <1>1, <1>2 DEF SignatureTyped, Signatures
<1>11. FirstTerms'
    <2>1. term \in Nat BY <1>0 DEF Typed
    <2>2. CASE term >= 2
        <3>1. term' > 2 /\ term' # 1 /\ term' # 2 /\ term' >= 1 BY <1>1, <2>1, <2>2
        <3> QED BY <3>1 DEF FirstTerms
    <2>3. CASE term = 1
        <3>1. leader = 0 /\ collecting \subseteq {0} /\ leader' # 0 BY <1>0, <1>3, <2>3 DEF FirstTerms
        <3>2. term' = 2 BY <1>1, <2>3
        <3>3. leader' \notin collecting' /\ collecting' \subseteq {0, leader'} BY <1>2, <3>1
        <3> QED BY <3>1, <3>2, <3>3 DEF FirstTerms
    <2>4. term >= 1 BY <1>0 DEF FirstTerms
    <2> QED BY <2>1, <2>2, <2>3, <2>4
<1>12. Ends'
    <2>1. term \in Nat BY <1>0 DEF Typed
    <2> QED BY <1>0, <1>1, <1>2, <2>1 DEF Ends
<1> QED BY <1>4, <1>8, <1>9, <1>10, <1>11, <1>12 DEF Inv

LEMMA EmptyCache ==
    ASSUME SignatureTyped, Typed, NEW n \in Nodes,
           signatures = [m \in Nodes |-> signatures[m]],
           signatures' = [signatures EXCEPT ![n] = EmptySignatures]
    PROVE  /\ SignatureTyped' /\ signatures' = [m \in Nodes |-> signatures'[m]]
           /\ signatures'[n].front = 0 /\ signatures'[n].back = 0
           /\ \A m \in Nodes : m # n => signatures'[m] = signatures[m]
<1>1. /\ signatures'[n] = EmptySignatures /\ signatures' = [m \in Nodes |-> signatures'[m]]
      /\ \A m \in Nodes : m # n => signatures'[m] = signatures[m]
    OBVIOUS
<1>2. /\ EmptySignatures = [front |-> EmptySignatures.front, back |-> EmptySignatures.back,
                            slot |-> EmptySignatures.slot]
      /\ EmptySignatures.front = 0 /\ EmptySignatures.back = 0
      /\ EmptySignatures.slot = [i \in 0 .. (SignatureSlots - 1) |-> EmptySignatures.slot[i]]
    BY DEF EmptySignatures
<1>3. ASSUME NEW m \in Nodes
      PROVE  /\ signatures'[m] = [front |-> signatures'[m].front, back |-> signatures'[m].back,
                                  slot |-> signatures'[m].slot]
             /\ signatures'[m].front \in Nat /\ signatures'[m].back \in Nat
             /\ signatures'[m].slot = [i \in 0 .. (SignatureSlots - 1) |-> signatures'[m].slot[i]]
    <2>1. CASE m = n BY <1>1, <1>2, <2>1
    <2>2. CASE m # n BY <1>1, <2>2 DEF SignatureTyped
    <2> QED BY <2>1, <2>2
<1>4. SignatureTyped' BY <1>1, <1>3 DEF SignatureTyped
<1> QED BY <1>1, <1>2, <1>4

LEMMA LeaderStartStep == ASSUME Inv, NEW n \in Nodes, leaderStart(n) PROVE Inv'
<1>0. Typed /\ BatchInv /\ ChainInv /\ SignatureTyped /\ Signatures /\ FirstTerms /\ Ends BY DEF Inv
<1>1. /\ n \notin told /\ n = leader
      /\ proposed' = [proposed EXCEPT ![n] = deliveredBlock(n)]
      /\ signatures' = [signatures EXCEPT ![n] = EmptySignatures]
      /\ isLeader' = [isLeader EXCEPT ![n] = TRUE]
      /\ dead' = IF n \in collecting THEN dead \cup {n} ELSE dead
      /\ collecting' = collecting \cup {n}
      /\ userQueue' = [userQueue EXCEPT ![n] = <<>>]
      /\ told' = told \cup {n}
    BY DEF leaderStart, OnLeaderStart, startLeader, Tell
<1>2. UNCHANGED <<requests, follows, wire, cache, queue, delivered, refused,
                  term, leader, proposal, vote, signed, decided>>
    BY DEF leaderStart, OnLeaderStart, Tell
<1>3. proposal = Nil /\ \A m \in Nodes : HasDelivered(m) /\ vote[m] = "none" /\ signed[m] = Nil
    BY <1>0, <1>1 DEF BatchInv, Progress, ChainInv, Votes
<1>4. \A m \in Nodes : HasDelivered(m)' BY <1>1, <1>2, <1>3 DEF HasDelivered
<1>5. /\ userQueue' \in [Nodes -> Seq(Nat)] /\ userQueue'[n] = <<>>
      /\ \A m \in Nodes : m # n => userQueue'[m] = userQueue[m]
    BY <1>0, <1>1 DEF Typed
<1>6. /\ proposed' = [m \in Nodes |-> proposed'[m]] /\ proposed'[n] = deliveredBlock(n)
      /\ isLeader' \in [Nodes -> BOOLEAN]
      /\ \A m \in Nodes : m # n => isLeader'[m] = isLeader[m]
    BY <1>0, <1>1 DEF Typed
<1>7. Typed'
    <2>1. signatures' = [m \in Nodes |-> signatures'[m]] BY <1>0, <1>1, EmptyCache DEF Typed
    <2> QED BY <2>1, <1>0, <1>1, <1>2, <1>5, <1>6 DEF Typed
<1>8. \A b : IsBatch(b)' => IsBatch(b) BY <1>2 DEF IsBatch, Cached
<1>9. Disjoint' /\ Fresh'
    <2>1. ToSet(<<>>) = {} /\ NoRepeat(<<>>) BY DEF ToSet, NoRepeat
    <2>2. \A m \in Nodes : /\ ToSet(userQueue'[m]) \subseteq ToSet(userQueue[m])
                           /\ NoRepeat(userQueue'[m])
        BY <1>0, <1>5, <2>1 DEF BatchInv, Fresh
    <2> QED BY <1>0, <1>2, <1>8, <2>2, FreshFrame DEF BatchInv
<1>10. dead \subseteq dead' BY <1>1
<1>11. ReceivedOnce' BY <1>0, <1>2, <1>10 DEF BatchInv, ReceivedOnce, Cached
<1>12. Progress' BY <1>0, <1>2, <1>3, <1>4, <1>10 DEF BatchInv, Progress
<1>13. QueueNew'
    <2>1. \A m \in Nodes \ collecting' : queue'[m] = <<>> /\ ~ isLeader'[m]
        BY <1>0, <1>1, <1>2, <1>6 DEF BatchInv, QueueNew
    <2>2. ASSUME leader \notin dead'
          PROVE  /\ queue[leader] = <<>>
                 /\ \A x \in ToSet(wire[leader]) : \A i \in DOMAIN decided : x # decided[i].data
        <3>1. n \notin collecting /\ n \notin dead BY <1>1, <2>2
        <3>2. queue[n] = <<>> BY <1>0, <3>1 DEF BatchInv, QueueNew
        <3>3. Len(delivered[n]) = Len(decided) BY <1>3, <3>1 DEF HasDelivered
        <3>4. DOMAIN decided = 1 .. Len(delivered[n]) BY <1>0, <3>3, SequenceDomain DEF Typed
        <3> QED BY <1>0, <1>1, <3>1, <3>2, <3>4 DEF BatchInv, ReceivedOnce
    <2>3. ToSet(<<>>) = {} /\ NoRepeat(<<>>) BY DEF ToSet, NoRepeat
    <2> QED BY <1>1, <1>2, <1>3, <2>1, <2>2, <2>3 DEF QueueNew
<1>14. DecidedOnce' BY <1>0, <1>2 DEF BatchInv, DecidedOnce
<1>15. BatchInv' BY <1>9, <1>11, <1>12, <1>13, <1>14 DEF BatchInv
<1>16. ChainInv'
    <2>1. OneEntry' /\ Numbered' BY <1>0, <1>2 DEF ChainInv, OneEntry, Numbered
    <2>2. FollowDecided' BY <1>0, <1>2, <1>4 DEF ChainInv, FollowDecided
    <2>3. QuorumKnows'
        <3>1. \A m \in Nodes : UpToDate(m) => UpToDate(m)'
            BY <1>2, <1>3, <1>4 DEF UpToDate, deliveredBlock
        <3> QED BY <1>0, <1>2, <1>10, <3>1 DEF ChainInv, QuorumKnows
    <2>4. Votes' BY <1>2, <1>3 DEF Votes
    <2>5. LeaderExtends'
        <3>1. proposal' = Nil /\ HasDelivered(leader)' BY <1>0, <1>1, <1>2, <1>3, <1>4 DEF HasDelivered
        <3>2. proposed'[leader'] = deliveredBlock(leader)'
            BY <1>1, <1>2, <1>6 DEF deliveredBlock
        <3> QED BY <3>1, <3>2 DEF LeaderExtends
    <2> QED BY <2>1, <2>2, <2>3, <2>4, <2>5 DEF ChainInv
<1>17. /\ SignatureTyped' /\ signatures'[n].front = 0 /\ signatures'[n].back = 0
       /\ \A m \in Nodes : m # n => signatures'[m] = signatures[m]
    BY <1>0, <1>1, EmptyCache DEF Typed
<1>18. Signatures'
    <2> SUFFICES ASSUME NEW m \in Nodes \ refused, m \in told'
                 PROVE  signatures'[m].back = signatures'[m].front
        BY <1>2, <1>3 DEF Signatures
    <2>1. CASE m = n BY <1>17, <2>1
    <2>2. CASE m # n BY <1>0, <1>1, <1>3, <1>17, <2>2 DEF Signatures
    <2> QED BY <2>1, <2>2
<1>19. FirstTerms' BY <1>0, <1>1, <1>2 DEF FirstTerms
<1>20. Ends'
    <2>1. n \in collecting => term > 2 BY <1>0, <1>1 DEF FirstTerms
    <2> QED BY <1>0, <1>1, <1>2, <2>1 DEF Ends
<1> QED BY <1>7, <1>15, <1>16, <1>17, <1>18, <1>19, <1>20 DEF Inv

LEMMA LeaderChangeStep == ASSUME Inv, NEW n \in Nodes, leaderChange(n) PROVE Inv'
<1>0. Typed /\ BatchInv /\ ChainInv /\ SignatureTyped /\ Signatures /\ FirstTerms /\ Ends BY DEF Inv
<1>1. /\ n \notin told /\ n # leader
      /\ isLeader' = [isLeader EXCEPT ![n] = FALSE]
      /\ proposed' = [proposed EXCEPT ![n] = Nil]
      /\ signatures' = [signatures EXCEPT ![n] = EmptySignatures]
      /\ follows' = [follows EXCEPT ![n] = leader]
      /\ wire' = [wire EXCEPT ![n] = <<>>]
      /\ told' = told \cup {n}
    BY DEF leaderChange, OnLeaderChange, startFollower, Tell
<1>2. UNCHANGED <<requests, userQueue, collecting, cache, queue, delivered, dead, refused,
                  term, leader, proposal, vote, signed, decided>>
    BY DEF leaderChange, OnLeaderChange, Tell
<1>3. vote[n] = "none" /\ signed[n] = Nil
    <2>1. vote[n] = "none" BY <1>0, <1>1 DEF ChainInv, Votes
    <2> QED BY <1>0, <2>1 DEF ChainInv, Votes
<1>4. /\ wire' \in [Nodes -> Seq(Seq(Nat))] /\ wire'[n] = <<>>
      /\ \A m \in Nodes : m # n => wire'[m] = wire[m]
    BY <1>0, <1>1 DEF Typed
<1>5. /\ proposed' = [m \in Nodes |-> proposed'[m]] /\ proposed'[leader] = proposed[leader]
      /\ isLeader' \in [Nodes -> BOOLEAN] /\ ~ isLeader'[n]
      /\ \A m \in Nodes : m # n => isLeader'[m] = isLeader[m]
    BY <1>0, <1>1 DEF Typed
<1>6. follows' = [m \in Nodes |-> follows'[m]] /\ \A m \in Nodes : follows'[m] # m
    <2>1. DOMAIN follows = Nodes /\ \A m \in Nodes : follows[m] # m BY <1>0 DEF Typed
    <2> QED BY <1>1, <2>1
<1>7. Typed'
    <2>1. signatures' = [m \in Nodes |-> signatures'[m]] BY <1>0, <1>1, EmptyCache DEF Typed
    <2> QED BY <2>1, <1>0, <1>1, <1>2, <1>4, <1>5, <1>6 DEF Typed
<1>8. ToSet(<<>>) = {} /\ NoRepeat(<<>>) BY DEF ToSet, NoRepeat
<1>9. \A m \in Nodes : /\ ToSet(wire'[m]) \subseteq ToSet(wire[m])
                       /\ NoRepeat(wire[m]) => NoRepeat(wire'[m])
    BY <1>4, <1>8
<1>10. \A b : IsBatch(b)' => IsBatch(b) BY <1>2, <1>9 DEF IsBatch, Cached
<1>11. Disjoint' /\ Fresh'
    <2>1. \A m \in Nodes : /\ ToSet(userQueue'[m]) \subseteq ToSet(userQueue[m])
                           /\ NoRepeat(userQueue'[m])
        BY <1>0, <1>2 DEF BatchInv, Fresh
    <2> QED BY <1>0, <1>2, <1>10, <2>1, FreshFrame DEF BatchInv
<1>12. ReceivedOnce' BY <1>0, <1>2, <1>9 DEF BatchInv, ReceivedOnce, Cached
<1>13. leader \in told' <=> leader \in told BY <1>1
<1>14. Progress' BY <1>0, <1>2, <1>13 DEF BatchInv, Progress, HasDelivered
<1>15. QueueNew'
    <2>1. \A m \in Nodes \ collecting : ~ isLeader'[m] BY <1>0, <1>5 DEF BatchInv, QueueNew
    <2>2. wire'[leader] = wire[leader] BY <1>0, <1>1, <1>4 DEF Typed
    <2> QED BY <1>0, <1>2, <1>13, <2>1, <2>2 DEF BatchInv, QueueNew, Cached
<1>16. DecidedOnce' BY <1>0, <1>2 DEF BatchInv, DecidedOnce
<1>17. BatchInv' BY <1>11, <1>12, <1>14, <1>15, <1>16 DEF BatchInv
<1>18. ChainInv'
    <2>0. \A m : /\ HasDelivered(m)' = HasDelivered(m) /\ deliveredBlock(m)' = deliveredBlock(m)
                 /\ isDeliveredBlockHeaderValid(m, proposal)' = isDeliveredBlockHeaderValid(m, proposal)
        BY <1>2 DEF HasDelivered, deliveredBlock, isDeliveredBlockHeaderValid
    <2>1. OneEntry' /\ Numbered' BY <1>0, <1>2 DEF ChainInv, OneEntry, Numbered
    <2>2. FollowDecided' BY <1>0, <1>2, <2>0 DEF ChainInv, FollowDecided, HasHeader
    <2>3. QuorumKnows'
        <3>1. \A m : UpToDate(m)' = UpToDate(m) BY <1>2, <2>0 DEF UpToDate, HasHeader
        <3> QED BY <1>0, <1>2, <3>1 DEF ChainInv, QuorumKnows
    <2>4. Votes' BY <1>0, <1>1, <1>2, <2>0 DEF ChainInv, Votes, HasHeader
    <2>5. LeaderExtends'
        <3>1. HasDelivered(leader)' = HasDelivered(leader) /\ deliveredBlock(leader)' = deliveredBlock(leader)
            BY <1>2 DEF HasDelivered, deliveredBlock
        <3>2. HasHeader(leader, Last(decided))' = HasHeader(leader, Last(decided))
            BY <1>2 DEF HasHeader
        <3>3. HeaderAfter(deliveredBlock(leader), proposal.data)' = HeaderAfter(deliveredBlock(leader), proposal.data)
            BY <1>2, <3>1 DEF HeaderAfter
        <3> QED BY <1>0, <1>2, <1>5, <1>13, <3>1, <3>2, <3>3 DEF ChainInv, LeaderExtends
    <2> QED BY <2>1, <2>2, <2>3, <2>4, <2>5 DEF ChainInv
<1>19. /\ SignatureTyped' /\ signatures'[n].front = 0 /\ signatures'[n].back = 0
       /\ \A m \in Nodes : m # n => signatures'[m] = signatures[m]
    BY <1>0, <1>1, EmptyCache DEF Typed
<1>20. Signatures'
    <2> SUFFICES ASSUME NEW m \in Nodes \ refused
                 PROVE  /\ signed[m] # Nil => signed[m] = proposal
                        /\ m \in told' =>
                             IF vote[m] = "yes" /\ signed[m] = Nil
                             THEN /\ signatures'[m].back = signatures'[m].front + 1
                                  /\ FrontSignature(m)' = proposal
                             ELSE signatures'[m].back = signatures'[m].front
        BY <1>2 DEF Signatures
    <2>1. CASE m = n BY <1>3, <1>19, <2>1
    <2>2. CASE m # n
        <3>1. signatures'[m] = signatures[m] /\ FrontSignature(m)' = FrontSignature(m)
            BY <1>19, <2>2 DEF FrontSignature
        <3> QED BY <1>0, <1>1, <2>2, <3>1 DEF Signatures
    <2> QED BY <2>1, <2>2
<1>21. FirstTerms' BY <1>0, <1>1, <1>2 DEF FirstTerms
<1>22. Ends' BY <1>0, <1>2 DEF Ends
<1> QED BY <1>7, <1>17, <1>18, <1>19, <1>20, <1>21, <1>22 DEF Inv

(***************************************************************************)
(* The proposals.                                                          *)
(***************************************************************************)

LEMMA PushedSignature ==
    ASSUME SignatureTyped, Typed, NEW n \in Nodes, NEW h, PushSignature(n, h)
    PROVE  /\ SignatureTyped' /\ signatures' = [m \in Nodes |-> signatures'[m]]
           /\ signatures'[n].front = signatures[n].front
           /\ signatures'[n].back = signatures[n].back + 1
           /\ signatures[n].back = signatures[n].front => FrontSignature(n)' = h
           /\ \A m \in Nodes : m # n => signatures'[m] = signatures[m]
<1> DEFINE s == signatures[n]
           k == s.back % SignatureSlots
<1>1. /\ s = [front |-> s.front, back |-> s.back, slot |-> s.slot]
      /\ s.front \in Nat /\ s.back \in Nat
      /\ s.slot = [i \in 0 .. (SignatureSlots - 1) |-> s.slot[i]]
    BY DEF SignatureTyped
<1>2. k \in 0 .. (SignatureSlots - 1) BY <1>1, LocalAssumption
<1>3. signatures' = [signatures EXCEPT ![n].slot[k] = h, ![n].back = @ + 1] BY DEF PushSignature
<1>4. DOMAIN signatures = Nodes BY DEF Typed
<1> DEFINE u == [s.slot EXCEPT ![k] = h]
           t == [front |-> s.front, back |-> s.back + 1, slot |-> u]
<1> HIDE DEF k
<1>5. /\ signatures'[n] = t /\ signatures' = [m \in Nodes |-> signatures'[m]]
      /\ \A m \in Nodes : m # n => signatures'[m] = signatures[m]
    BY <1>1, <1>3, <1>4
<1>6. /\ t.slot = [i \in 0 .. (SignatureSlots - 1) |-> t.slot[i]] /\ t.slot[k] = h
      /\ t.front = s.front /\ t.back = s.back + 1 /\ t.back \in Nat
      /\ t = [front |-> t.front, back |-> t.back, slot |-> t.slot]
    <2>1. DOMAIN s.slot = 0 .. (SignatureSlots - 1)
        <3> HIDE DEF s
        <3> QED BY <1>1
    <2>2. u = [i \in 0 .. (SignatureSlots - 1) |-> u[i]] /\ u[k] = h BY <1>2, <2>1
    <2>3. s.back + 1 \in Nat BY <1>1
    <2> HIDE DEF u, s
    <2>4. t.front = s.front /\ t.back = s.back + 1 /\ t.slot = u OBVIOUS
    <2> QED BY <2>2, <2>3, <2>4
<1> HIDE DEF t
<1>7. SignatureTyped'
    <2> SUFFICES ASSUME NEW m \in Nodes
                 PROVE  /\ signatures'[m] = [front |-> signatures'[m].front, back |-> signatures'[m].back,
                                             slot |-> signatures'[m].slot]
                        /\ signatures'[m].front \in Nat /\ signatures'[m].back \in Nat
                        /\ signatures'[m].slot =
                                [i \in 0 .. (SignatureSlots - 1) |-> signatures'[m].slot[i]]
        BY DEF SignatureTyped
    <2>1. CASE m = n BY <1>1, <1>5, <1>6, <2>1
    <2>2. CASE m # n BY <1>5, <2>2 DEF SignatureTyped
    <2> QED BY <2>1, <2>2
<1>8. ASSUME s.back = s.front PROVE FrontSignature(n)' = h
    <2>1. FrontSignature(n)' = signatures'[n].slot[signatures'[n].front % SignatureSlots]
        BY DEF FrontSignature
    <2> QED BY <1>5, <1>6, <1>8, <2>1 DEF k
<1> QED BY <1>5, <1>6, <1>7, <1>8

LEMMA RequestStep == ASSUME Inv, requestProposal PROVE Inv'
<1>0. Typed /\ BatchInv /\ ChainInv /\ SignatureTyped /\ Signatures /\ FirstTerms /\ Ends BY DEF Inv
<1> DEFINE n == leader
           b == Head(queue[n])
           h == HeaderAfter(proposed[n], b)
<1>1. /\ leader \in Live /\ leader \in told /\ proposal = Nil /\ \A m \in Nodes : HasDelivered(m)
      /\ queue[n] # <<>>
      /\ proposed' = [proposed EXCEPT ![n] = h]
      /\ cache' = IF Cached(n, h.data) THEN Store(n, h.data, h) ELSE cache
      /\ queue' = [queue EXCEPT ![n] = Tail(@)]
      /\ PushSignature(n, h)
      /\ proposal' = h
      /\ vote' = [vote EXCEPT ![n] = "yes"]
    BY DEF requestProposal, OnRequestProposal
<1>2. UNCHANGED <<requests, userQueue, collecting, follows, wire, isLeader, delivered, dead, refused,
                  term, leader, told, signed, decided>>
    BY DEF requestProposal, OnRequestProposal
<1>3. n \in Nodes /\ n \notin dead /\ n \in told BY <1>0, <1>1 DEF Typed, Live
<1>4. queue[n] \in Seq(Seq(Nat)) /\ NoRepeat(queue[n])
    BY <1>0, <1>1, <1>3 DEF Typed, BatchInv, QueueNew
<1>5. /\ Tail(queue[n]) \in Seq(Seq(Nat)) /\ b \in ToSet(queue[n])
      /\ ToSet(Tail(queue[n])) \subseteq ToSet(queue[n])
      /\ NoRepeat(Tail(queue[n])) /\ b \notin ToSet(Tail(queue[n]))
    BY <1>1, <1>4, HeadSet
<1>6. /\ queue' \in [Nodes -> Seq(Seq(Nat))] /\ queue'[n] = Tail(queue[n])
      /\ \A m \in Nodes : m # n => queue'[m] = queue[m]
    BY <1>0, <1>1, <1>3, <1>5 DEF Typed
<1>7. h # Nil /\ h.data = b BY HeaderFields
<1>8. Cached(n, b) /\ b \notin ToSet(wire[n]) /\ \A i \in DOMAIN decided : b # decided[i].data
    BY <1>0, <1>1, <1>3, <1>5 DEF BatchInv, QueueNew, ReceivedOnce
<1>9. cache' = Store(n, b, h) BY <1>1, <1>7, <1>8
<1> HIDE DEF h, b
<1>10. /\ cache' = [m \in Nodes |-> cache'[m]] /\ OneEntry'
       /\ \A m \in Nodes : \A x : Cached(m, x)' <=> Cached(m, x) \/ (m = n /\ x = b)
       /\ <<b, h>> \in cache'[n]
    BY <1>0, <1>3, <1>9, StoreStep DEF ChainInv
<1>11. /\ SignatureTyped' /\ signatures' = [m \in Nodes |-> signatures'[m]]
       /\ signatures'[n].front = signatures[n].front
       /\ signatures'[n].back = signatures[n].back + 1
       /\ \A m \in Nodes : m # n => signatures'[m] = signatures[m]
    BY <1>0, <1>1, <1>3, PushedSignature
<1>12. /\ vote' \in [Nodes -> {"none", "yes", "no"}] /\ vote'[n] = "yes"
       /\ \A m \in Nodes : m # n => vote'[m] = "none"
       /\ \A m \in Nodes : vote[m] = "none" /\ signed[m] = Nil
    BY <1>0, <1>1, <1>3 DEF Typed, ChainInv, Votes
<1>13. proposed' = [m \in Nodes |-> proposed'[m]] /\ proposed'[n] = h BY <1>0, <1>1, <1>3 DEF Typed
<1>14. Typed' BY <1>0, <1>2, <1>6, <1>10, <1>11, <1>12, <1>13 DEF Typed
<1>15. \A m \in Nodes : ToSet(queue'[m]) \subseteq ToSet(queue[m]) BY <1>5, <1>6
<1>16. ASSUME NEW x, IsBatch(x)' PROVE IsBatch(x)
    <2>1. IsBatch(b) BY <1>3, <1>5 DEF IsBatch
    <2> QED BY <1>1, <1>2, <1>7, <1>10, <1>15, <1>16, <2>1 DEF IsBatch
<1>17. Disjoint' /\ Fresh'
    <2>1. \A m \in Nodes : /\ ToSet(userQueue'[m]) \subseteq ToSet(userQueue[m])
                           /\ NoRepeat(userQueue'[m])
        BY <1>0, <1>2 DEF BatchInv, Fresh
    <2> QED BY <1>0, <1>2, <1>16, <2>1, FreshFrame DEF BatchInv
<1>18. ReceivedOnce'
    <2> SUFFICES ASSUME NEW m \in Nodes, NEW x \in ToSet(wire[m])
                 PROVE  ~ Cached(m, x)' /\ x \notin ToSet(queue'[m])
        BY <1>0, <1>2 DEF BatchInv, ReceivedOnce
    <2>1. ~ Cached(m, x) /\ x \notin ToSet(queue[m]) BY <1>0 DEF BatchInv, ReceivedOnce
    <2> QED BY <1>8, <1>10, <1>15, <2>1
<1>19. \A m \in Nodes : HasDelivered(m)' BY <1>1, <1>2 DEF HasDelivered
<1>20. Progress' BY <1>0, <1>2, <1>3, <1>19 DEF BatchInv, Progress
<1>21. QueueNew'
    <2>1. \A m \in Nodes \ collecting : queue'[m] = <<>> /\ ~ isLeader[m]
        <3>1. n \in collecting BY <1>0, <1>1, <1>3 DEF BatchInv, QueueNew
        <3> QED BY <1>0, <1>6, <3>1 DEF BatchInv, QueueNew
    <2>2. \A x \in ToSet(queue'[n]) : \E c \in cache'[n] : c[1] = x
        <3>1. \A m \in Nodes : \A x : Cached(m, x) => \E c \in cache'[m] : c[1] = x
            BY <1>10 DEF Cached
        <3>2. \A x \in ToSet(queue'[n]) : Cached(n, x)
            BY <1>0, <1>3, <1>15 DEF BatchInv, QueueNew
        <3> QED BY <1>3, <3>1, <3>2
    <2>3. ASSUME NEW x, x \in ToSet(queue'[n]) \/ x \in ToSet(wire[n])
          PROVE  x # b /\ \A i \in DOMAIN decided : x # decided[i].data
        BY <1>0, <1>3, <1>5, <1>6, <1>8, <1>15, <2>3 DEF BatchInv, QueueNew
    <2>4. NoRepeat(queue'[n]) BY <1>5, <1>6
    <2> QED BY <1>1, <1>2, <1>7, <2>1, <2>2, <2>3, <2>4 DEF QueueNew, Cached
<1>22. DecidedOnce' BY <1>0, <1>1, <1>2, <1>7, <1>8 DEF BatchInv, DecidedOnce
<1>23. BatchInv' BY <1>17, <1>18, <1>20, <1>21, <1>22 DEF BatchInv
<1>24. \A m : deliveredBlock(m)' = deliveredBlock(m) BY <1>2 DEF deliveredBlock
<1>25. ChainInv'
    <2>1. Numbered' BY <1>0, <1>2 DEF ChainInv, Numbered
    <2>2. FollowDecided' BY <1>0, <1>2, <1>19 DEF ChainInv, FollowDecided
    <2>3. QuorumKnows'
        <3>1. \A m \in Nodes : UpToDate(m) => UpToDate(m)'
            BY <1>1, <1>2, <1>19, <1>24 DEF UpToDate
        <3> QED BY <1>0, <1>2, <3>1 DEF ChainInv, QuorumKnows
    <2>4. Votes'
        <3>1. <<h.data, h>> \in cache'[n] BY <1>7, <1>10
        <3>3. \A m \in Nodes : vote'[m] # "none" => m = n BY <1>12
        <3>4. \A m \in Nodes : vote'[m] = "yes" => HasHeader(m, proposal)'
            BY <1>1, <3>1, <3>3 DEF HasHeader
        <3>5. \A m \in Nodes : signed'[m] = Nil BY <1>2, <1>12
        <3>6. \A m \in Nodes : vote'[m] # "no" BY <1>12
        <3>7. vote'[leader'] = "yes" BY <1>2, <1>12
        <3> QED BY <1>1, <1>2, <1>3, <1>7, <3>3, <3>4, <3>5, <3>6, <3>7 DEF Votes
    <2>5. LeaderExtends'
        <3>1. proposed[n] = deliveredBlock(n) BY <1>0, <1>1, <1>3 DEF ChainInv, LeaderExtends
        <3>2. deliveredBlock(leader)' = deliveredBlock(n) BY <1>2 DEF deliveredBlock
        <3>3. proposal' = HeaderAfter(deliveredBlock(leader)', proposal'.data)
            BY <1>1, <1>7, <3>1, <3>2 DEF h
        <3> QED BY <1>1, <1>2, <1>3, <1>7, <1>13, <3>3 DEF LeaderExtends
    <2> QED BY <1>10, <2>1, <2>2, <2>3, <2>4, <2>5 DEF ChainInv
<1>26. Signatures'
    <2> SUFFICES ASSUME NEW m \in Nodes \ refused, m \in told
                 PROVE  IF vote'[m] = "yes"
                        THEN /\ signatures'[m].back = signatures'[m].front + 1
                             /\ FrontSignature(m)' = h
                        ELSE signatures'[m].back = signatures'[m].front
        BY <1>1, <1>2, <1>12 DEF Signatures
    <2>1. signatures[m].back = signatures[m].front BY <1>0, <1>12 DEF Signatures
    <2>2. CASE m = n
        <3>1. FrontSignature(m)' = h BY <1>0, <1>1, <2>1, <2>2, PushedSignature
        <3> QED BY <1>11, <1>12, <2>1, <2>2, <3>1
    <2>3. CASE m # n BY <1>11, <1>12, <2>1, <2>3
    <2> QED BY <2>2, <2>3
<1>27. FirstTerms' /\ Ends' BY <1>0, <1>2 DEF FirstTerms, Ends
<1> QED BY <1>11, <1>14, <1>23, <1>25, <1>26, <1>27 DEF Inv

\* what a verification does at the node, whatever its answer
LEMMA VerifyEffect ==
    ASSUME Inv, NEW n \in Nodes, verifyProposal(n)
    PROVE  /\ cache' = [m \in Nodes |-> cache'[m]] /\ OneEntry'
           /\ \A m \in Nodes : \A x : Cached(m, x)' <=> Cached(m, x)
           /\ \A m \in Nodes : m # n => cache'[m] = cache[m] /\ signatures'[m] = signatures[m]
           /\ refused \subseteq refused' /\ refused' \subseteq refused \cup {n}
           /\ vote' \in [Nodes -> {"none", "yes", "no"}]
           /\ \A m \in Nodes : m # n => vote'[m] = vote[m]
           /\ vote'[n] = "yes" => <<proposal.data, proposal>> \in cache'[n] /\ isDeliveredBlockHeaderValid(n, proposal)
           /\ vote'[n] = "no" /\ n \notin refused' => ~ isDeliveredBlockHeaderValid(n, proposal)
           /\ vote'[n] # "none"
           /\ SignatureTyped' /\ signatures' = [m \in Nodes |-> signatures'[m]]
           /\ n \notin refused' =>
                IF vote'[n] = "yes"
                THEN /\ signatures'[n].back = signatures'[n].front + 1
                     /\ FrontSignature(n)' = proposal
                ELSE signatures'[n].back = signatures'[n].front
           /\ UNCHANGED <<requests, userQueue, collecting, follows, wire, queue, isLeader, proposed,
                          delivered, dead, term, leader, told, proposal, signed, decided>>
<1>0. Typed /\ BatchInv /\ ChainInv /\ SignatureTyped /\ Signatures /\ FirstTerms /\ Ends BY DEF Inv
<1>1. PICK ok \in BOOLEAN :
        /\ OnVerifyProposal(n, proposal, ok)
        /\ vote' = [vote EXCEPT ![n] = IF ok THEN "yes" ELSE "no"]
    BY DEF verifyProposal
<1>2. n \in told /\ n # leader /\ proposal # Nil /\ vote[n] = "none" /\ n \notin dead
    BY DEF verifyProposal, Live
<1>3. UNCHANGED <<term, leader, told, proposal, signed, decided>> BY DEF verifyProposal
<1>4. /\ vote' \in [Nodes -> {"none", "yes", "no"}] /\ vote'[n] = IF ok THEN "yes" ELSE "no"
      /\ \A m \in Nodes : m # n => vote'[m] = vote[m]
    BY <1>0, <1>1 DEF Typed
<1>5. signed[n] = Nil BY <1>0, <1>2 DEF ChainInv, Votes
<1>6. n \notin refused => signatures[n].back = signatures[n].front BY <1>0, <1>2 DEF Signatures
<1>7. OneEntry /\ cache = [m \in Nodes |-> cache[m]] /\ signatures = [m \in Nodes |-> signatures[m]]
    BY <1>0 DEF Typed, ChainInv
<1>8. CASE ~ isDeliveredBlockHeaderValid(n, proposal) /\ ~ ok /\ UNCHANGED peerVars
    <2>1. UNCHANGED <<requests, userQueue, collecting, follows, wire, cache, queue, isLeader,
                      proposed, delivered, signatures, dead, refused>>
        BY <1>8 DEF peerVars
    <2>2. OneEntry' /\ SignatureTyped' BY <1>0, <1>7, <2>1 DEF OneEntry, SignatureTyped
    <2>3. vote'[n] = "no" BY <1>4, <1>8
    <2>4. \A m \in Nodes : \A x : Cached(m, x)' <=> Cached(m, x) BY <2>1 DEF Cached
    <2> QED BY <1>3, <1>4, <1>6, <1>7, <1>8, <2>1, <2>2, <2>3, <2>4
<1>9. CASE /\ isDeliveredBlockHeaderValid(n, proposal)
           /\ PushSignature(n, proposal)
           /\ ok = Cached(n, proposal.data)
           /\ cache' = IF ok THEN Store(n, proposal.data, proposal) ELSE cache
           /\ refused' = IF ok THEN refused ELSE refused \cup {n}
           /\ UNCHANGED <<requests, userQueue, collecting, follows, wire, queue, isLeader, proposed,
                          delivered, dead>>
    <2>1. /\ SignatureTyped' /\ signatures' = [m \in Nodes |-> signatures'[m]]
          /\ signatures'[n].front = signatures[n].front
          /\ signatures'[n].back = signatures[n].back + 1
          /\ signatures[n].back = signatures[n].front => FrontSignature(n)' = proposal
          /\ \A m \in Nodes : m # n => signatures'[m] = signatures[m]
        BY <1>0, <1>9, PushedSignature
    <2>2. CASE ok
        <3>1. cache' = Store(n, proposal.data, proposal) /\ refused' = refused /\ vote'[n] = "yes"
            BY <1>4, <1>9, <2>2
        <3>2. /\ cache' = [m \in Nodes |-> cache'[m]] /\ OneEntry'
              /\ \A m \in Nodes : \A x : Cached(m, x)' <=> Cached(m, x) \/ (m = n /\ x = proposal.data)
              /\ <<proposal.data, proposal>> \in cache'[n]
            BY <1>0, <1>7, <3>1, StoreStep
        <3>3. \A m \in Nodes : \A x : Cached(m, x)' <=> Cached(m, x) BY <1>9, <2>2, <3>2
        <3>4. \A m \in Nodes : m # n => cache'[m] = cache[m] BY <1>7, <3>1 DEF Store
        <3>5. n \notin refused' => /\ signatures'[n].back = signatures'[n].front + 1
                                   /\ FrontSignature(n)' = proposal
            BY <1>6, <2>1, <3>1
        <3> QED BY <1>3, <1>4, <1>9, <2>1, <3>1, <3>2, <3>3, <3>4, <3>5
    <2>3. CASE ~ ok
        <3>1. cache' = cache /\ refused' = refused \cup {n} /\ vote'[n] = "no" BY <1>4, <1>9, <2>3
        <3>2. OneEntry' BY <1>7, <3>1 DEF OneEntry
        <3>3. \A m \in Nodes : \A x : Cached(m, x)' <=> Cached(m, x) BY <3>1 DEF Cached
        <3> QED BY <1>3, <1>4, <1>7, <1>9, <2>1, <3>1, <3>2, <3>3
    <2> QED BY <2>2, <2>3
<1> QED BY <1>1, <1>8, <1>9 DEF OnVerifyProposal

LEMMA VerifyStep == ASSUME Inv, NEW n \in Nodes, verifyProposal(n) PROVE Inv'
<1>0. Typed /\ BatchInv /\ ChainInv /\ SignatureTyped /\ Signatures /\ FirstTerms /\ Ends BY DEF Inv
<1>1. n \in told /\ n # leader /\ proposal # Nil /\ vote[n] = "none" /\ n \notin dead
    BY DEF verifyProposal, Live
<1>2. /\ cache' = [m \in Nodes |-> cache'[m]] /\ OneEntry'
      /\ \A m \in Nodes : \A x : Cached(m, x)' <=> Cached(m, x)
      /\ \A m \in Nodes : m # n => cache'[m] = cache[m] /\ signatures'[m] = signatures[m]
      /\ refused \subseteq refused' /\ refused' \subseteq refused \cup {n}
    BY VerifyEffect
<1>3. /\ vote' \in [Nodes -> {"none", "yes", "no"}]
      /\ \A m \in Nodes : m # n => vote'[m] = vote[m]
      /\ vote'[n] = "yes" => <<proposal.data, proposal>> \in cache'[n] /\ isDeliveredBlockHeaderValid(n, proposal)
      /\ vote'[n] = "no" /\ n \notin refused' => ~ isDeliveredBlockHeaderValid(n, proposal)
      /\ vote'[n] # "none"
    BY VerifyEffect
<1>4. /\ SignatureTyped' /\ signatures' = [m \in Nodes |-> signatures'[m]]
      /\ n \notin refused' =>
           IF vote'[n] = "yes"
           THEN signatures'[n].back = signatures'[n].front + 1 /\ FrontSignature(n)' = proposal
           ELSE signatures'[n].back = signatures'[n].front
    BY VerifyEffect
<1>5. UNCHANGED <<requests, userQueue, collecting, follows, wire, queue, isLeader, proposed,
                  delivered, dead, term, leader, told, proposal, signed, decided>>
    BY VerifyEffect
<1>6. signed[n] = Nil BY <1>0, <1>1 DEF ChainInv, Votes
<1>7. Typed' BY <1>0, <1>2, <1>3, <1>4, <1>5 DEF Typed
<1>8. \A x : IsBatch(x)' => IsBatch(x) BY <1>2, <1>5 DEF IsBatch
<1>9. Disjoint' /\ Fresh'
    <2>1. \A m \in Nodes : /\ ToSet(userQueue'[m]) \subseteq ToSet(userQueue[m])
                           /\ NoRepeat(userQueue'[m])
        BY <1>0, <1>5 DEF BatchInv, Fresh
    <2> QED BY <1>0, <1>5, <1>8, <2>1, FreshFrame DEF BatchInv
<1>10. ReceivedOnce' BY <1>0, <1>2, <1>5 DEF BatchInv, ReceivedOnce
<1>11. \A m \in Nodes : HasDelivered(m) BY <1>0, <1>1 DEF BatchInv, Progress
<1>12. \A m : /\ HasDelivered(m)' = HasDelivered(m) /\ deliveredBlock(m)' = deliveredBlock(m)
              /\ isDeliveredBlockHeaderValid(m, proposal)' = isDeliveredBlockHeaderValid(m, proposal)
    BY <1>5 DEF HasDelivered, deliveredBlock, isDeliveredBlockHeaderValid
<1>13. Progress' BY <1>0, <1>5, <1>12 DEF BatchInv, Progress
<1>14. leader \in Nodes /\ cache'[leader] = cache[leader] BY <1>0, <1>1, <1>2 DEF Typed
<1>15. QueueNew' BY <1>0, <1>5, <1>14 DEF BatchInv, QueueNew, Cached
<1>16. DecidedOnce' BY <1>0, <1>5 DEF BatchInv, DecidedOnce
<1>17. BatchInv' BY <1>9, <1>10, <1>13, <1>15, <1>16 DEF BatchInv
<1>18. ChainInv'
    <2>1. Numbered' BY <1>0, <1>5 DEF ChainInv, Numbered
    <2>2. FollowDecided' BY <1>0, <1>2, <1>5, <1>11, <1>12 DEF ChainInv, FollowDecided
    <2>3. QuorumKnows'
        <3>1. \A m \in Nodes : UpToDate(m) => UpToDate(m)' BY <1>5, <1>11, <1>12 DEF UpToDate
        <3> QED BY <1>0, <1>5, <3>1 DEF ChainInv, QuorumKnows
    <2>4. Votes'
        <3>1. ASSUME NEW m \in Nodes
              PROVE  /\ vote'[m] # "none" => m \in told \ dead
                     /\ signed[m] # Nil => vote'[m] = "yes"
                     /\ vote'[m] = "yes" => <<proposal.data, proposal>> \in cache'[m]
                     /\ m # leader /\ vote'[m] = "yes" => isDeliveredBlockHeaderValid(m, proposal)
                     /\ m \notin refused' /\ vote'[m] = "no" => ~ isDeliveredBlockHeaderValid(m, proposal)
            <4>1. CASE m = n BY <1>1, <1>3, <1>6, <4>1
            <4>2. CASE m # n BY <1>0, <1>2, <1>3, <4>2 DEF ChainInv, Votes, HasHeader
            <4> QED BY <4>1, <4>2
        <3>2. vote'[leader'] = "yes" BY <1>0, <1>1, <1>3, <1>5, <1>14 DEF ChainInv, Votes
        <3> QED BY <1>1, <1>5, <1>12, <3>1, <3>2 DEF Votes, HasHeader
    <2>5. LeaderExtends'
        <3>1. deliveredBlock(leader)' = deliveredBlock(leader) BY <1>5 DEF deliveredBlock
        <3>2. HeaderAfter(deliveredBlock(leader), proposal.data)' = HeaderAfter(deliveredBlock(leader), proposal.data)
            BY <1>5, <3>1 DEF HeaderAfter
        <3> QED BY <1>0, <1>1, <1>5, <3>2 DEF ChainInv, LeaderExtends
    <2> QED BY <1>2, <2>1, <2>2, <2>3, <2>4, <2>5 DEF ChainInv
<1>19. Signatures'
    <2> SUFFICES ASSUME NEW m \in Nodes \ refused'
                 PROVE  /\ signed[m] # Nil => signed[m] = proposal
                        /\ m \in told =>
                             IF vote'[m] = "yes" /\ signed[m] = Nil
                             THEN /\ signatures'[m].back = signatures'[m].front + 1
                                  /\ FrontSignature(m)' = proposal
                             ELSE signatures'[m].back = signatures'[m].front
        BY <1>5 DEF Signatures
    <2>1. CASE m = n BY <1>4, <1>6, <2>1
    <2>2. CASE m # n
        <3>1. signatures'[m] = signatures[m] /\ FrontSignature(m)' = FrontSignature(m)
            BY <1>2, <2>2 DEF FrontSignature
        <3> QED BY <1>0, <1>2, <1>3, <2>2, <3>1 DEF Signatures
    <2> QED BY <2>1, <2>2
<1>20. FirstTerms' BY <1>0, <1>5 DEF FirstTerms
<1>21. Ends' BY <1>0, <1>2, <1>5 DEF Ends
<1> QED BY <1>4, <1>7, <1>17, <1>18, <1>19, <1>20, <1>21 DEF Inv

LEMMA PoppedSignature ==
    ASSUME SignatureTyped, Typed, NEW n \in Nodes, PopSignature(n)
    PROVE  /\ SignatureTyped' /\ signatures' = [m \in Nodes |-> signatures'[m]]
           /\ FrontSignature(n) # Nil => /\ signatures'[n].front = signatures[n].front + 1
                                         /\ signatures'[n].back = signatures[n].back
           /\ \A m \in Nodes : m # n => signatures'[m] = signatures[m]
<1> DEFINE s == signatures[n]
           k == s.front % SignatureSlots
<1>1. /\ s = [front |-> s.front, back |-> s.back, slot |-> s.slot]
      /\ s.front \in Nat /\ s.back \in Nat
      /\ s.slot = [i \in 0 .. (SignatureSlots - 1) |-> s.slot[i]]
    BY DEF SignatureTyped
<1>2. k \in 0 .. (SignatureSlots - 1) BY <1>1, LocalAssumption
<1>3. DOMAIN signatures = Nodes BY DEF Typed
<1>4. CASE FrontSignature(n) = Nil
    <2>1. signatures' = signatures BY <1>4 DEF PopSignature
    <2> QED BY <1>4, <2>1 DEF SignatureTyped, Typed
<1>5. CASE FrontSignature(n) # Nil
    <2>1. signatures' = [signatures EXCEPT ![n].slot[k] = Nil, ![n].front = @ + 1]
        BY <1>5 DEF PopSignature
    <2> DEFINE u == [s.slot EXCEPT ![k] = Nil]
               t == [front |-> s.front + 1, back |-> s.back, slot |-> u]
    <2> HIDE DEF k
    <2>2. /\ signatures'[n] = t /\ signatures' = [m \in Nodes |-> signatures'[m]]
          /\ \A m \in Nodes : m # n => signatures'[m] = signatures[m]
        BY <1>1, <1>3, <2>1
    <2>3. /\ t.slot = [i \in 0 .. (SignatureSlots - 1) |-> t.slot[i]]
          /\ t.front = s.front + 1 /\ t.back = s.back /\ t.front \in Nat
          /\ t = [front |-> t.front, back |-> t.back, slot |-> t.slot]
        <3>1. DOMAIN s.slot = 0 .. (SignatureSlots - 1)
            <4> HIDE DEF s
            <4> QED BY <1>1
        <3>2. u = [i \in 0 .. (SignatureSlots - 1) |-> u[i]] BY <1>2, <3>1
        <3>3. s.front + 1 \in Nat BY <1>1
        <3> HIDE DEF u, s
        <3>4. t.front = s.front + 1 /\ t.back = s.back /\ t.slot = u OBVIOUS
        <3> QED BY <3>2, <3>3, <3>4
    <2> HIDE DEF t
    <2>4. SignatureTyped'
        <3> SUFFICES ASSUME NEW m \in Nodes
                     PROVE  /\ signatures'[m] = [front |-> signatures'[m].front, back |-> signatures'[m].back,
                                                 slot |-> signatures'[m].slot]
                            /\ signatures'[m].front \in Nat /\ signatures'[m].back \in Nat
                            /\ signatures'[m].slot =
                                    [i \in 0 .. (SignatureSlots - 1) |-> signatures'[m].slot[i]]
            BY DEF SignatureTyped
        <3>1. CASE m = n BY <1>1, <2>2, <2>3, <3>1
        <3>2. CASE m # n BY <2>2, <3>2 DEF SignatureTyped
        <3> QED BY <3>1, <3>2
    <2> QED BY <2>2, <2>3, <2>4
<1> QED BY <1>4, <1>5

LEMMA SignStep == ASSUME Inv, NEW n \in Nodes, signProposal(n) PROVE Inv'
<1>0. Typed /\ BatchInv /\ ChainInv /\ SignatureTyped /\ Signatures /\ FirstTerms /\ Ends BY DEF Inv
<1>1. /\ proposal # Nil /\ vote[n] = "yes" /\ signed[n] = Nil /\ PopSignature(n)
      /\ signed' = [signed EXCEPT ![n] = FrontSignature(n)]
    BY DEF signProposal, OnSignProposal
<1>2. UNCHANGED <<requests, userQueue, collecting, follows, wire, cache, queue, isLeader, proposed,
                  delivered, dead, refused, term, leader, told, proposal, vote, decided>>
    BY DEF signProposal, OnSignProposal
<1>3. /\ signed' = [m \in Nodes |-> signed'[m]] /\ signed'[n] = FrontSignature(n)
      /\ \A m \in Nodes : m # n => signed'[m] = signed[m]
    BY <1>0, <1>1 DEF Typed
<1>4. /\ SignatureTyped' /\ signatures' = [m \in Nodes |-> signatures'[m]]
      /\ FrontSignature(n) # Nil => /\ signatures'[n].front = signatures[n].front + 1
                                    /\ signatures'[n].back = signatures[n].back
      /\ \A m \in Nodes : m # n => signatures'[m] = signatures[m]
    BY <1>0, <1>1, PoppedSignature
<1>5. Typed' BY <1>0, <1>2, <1>3, <1>4 DEF Typed
<1>6. \A x : IsBatch(x)' <=> IsBatch(x) BY <1>2 DEF IsBatch, Cached
<1>7. BatchInv'
    <2>1. Disjoint' BY <1>0, <1>6 DEF BatchInv, Disjoint
    <2>2. Fresh' BY <1>0, <1>2, <1>6 DEF BatchInv, Fresh
    <2>3. ReceivedOnce' BY <1>0, <1>2 DEF BatchInv, ReceivedOnce, Cached
    <2>4. Progress' BY <1>0, <1>2 DEF BatchInv, Progress, HasDelivered
    <2>5. QueueNew' BY <1>0, <1>2 DEF BatchInv, QueueNew, Cached
    <2>6. DecidedOnce' BY <1>0, <1>2 DEF BatchInv, DecidedOnce
    <2> QED BY <2>1, <2>2, <2>3, <2>4, <2>5, <2>6 DEF BatchInv
<1>8. \A m : /\ HasDelivered(m)' = HasDelivered(m) /\ deliveredBlock(m)' = deliveredBlock(m)
             /\ isDeliveredBlockHeaderValid(m, proposal)' = isDeliveredBlockHeaderValid(m, proposal)
    BY <1>2 DEF HasDelivered, deliveredBlock, isDeliveredBlockHeaderValid
<1>9. ChainInv'
    <2>1. OneEntry' /\ Numbered' BY <1>0, <1>2 DEF ChainInv, OneEntry, Numbered
    <2>2. FollowDecided' BY <1>0, <1>2, <1>8 DEF ChainInv, FollowDecided, HasHeader
    <2>3. QuorumKnows'
        <3>1. \A m : UpToDate(m)' = UpToDate(m) BY <1>2, <1>8 DEF UpToDate, HasHeader
        <3> QED BY <1>0, <1>2, <3>1 DEF ChainInv, QuorumKnows
    <2>4. Votes'
        <3>1. \A m \in Nodes : signed'[m] # Nil => vote[m] = "yes"
            BY <1>0, <1>1, <1>3 DEF ChainInv, Votes
        <3> QED BY <1>0, <1>1, <1>2, <1>8, <3>1 DEF ChainInv, Votes, HasHeader
    <2>5. LeaderExtends'
        <3>1. deliveredBlock(leader)' = deliveredBlock(leader) BY <1>2 DEF deliveredBlock
        <3>2. HeaderAfter(deliveredBlock(leader), proposal.data)' = HeaderAfter(deliveredBlock(leader), proposal.data)
            BY <1>2, <3>1 DEF HeaderAfter
        <3> QED BY <1>0, <1>1, <1>2, <3>2 DEF ChainInv, LeaderExtends
    <2> QED BY <2>1, <2>2, <2>3, <2>4, <2>5 DEF ChainInv
<1>10. Signatures'
    <2> SUFFICES ASSUME NEW m \in Nodes \ refused
                 PROVE  /\ signed'[m] # Nil => signed'[m] = proposal
                        /\ m \in told =>
                             IF vote[m] = "yes" /\ signed'[m] = Nil
                             THEN /\ signatures'[m].back = signatures'[m].front + 1
                                  /\ FrontSignature(m)' = proposal
                             ELSE signatures'[m].back = signatures'[m].front
        BY <1>2 DEF Signatures
    <2>1. CASE m = n
        <3>1. n \in told BY <1>0, <1>1 DEF ChainInv, Votes
        <3>2. signatures[n].back = signatures[n].front + 1 /\ FrontSignature(n) = proposal
            BY <1>0, <1>1, <2>1, <3>1 DEF Signatures
        <3> QED BY <1>1, <1>3, <1>4, <2>1, <3>2
    <2>2. CASE m # n
        <3>1. signatures'[m] = signatures[m] /\ FrontSignature(m)' = FrontSignature(m)
            BY <1>4, <2>2 DEF FrontSignature
        <3> QED BY <1>0, <1>3, <2>2, <3>1 DEF Signatures
    <2> QED BY <2>1, <2>2
<1>11. FirstTerms' BY <1>0, <1>2 DEF FirstTerms
<1>12. Ends' BY <1>0, <1>2 DEF Ends
<1> QED BY <1>4, <1>5, <1>7, <1>9, <1>10, <1>11, <1>12 DEF Inv

(***************************************************************************)
(* The decision.                                                           *)
(***************************************************************************)

LEMMA QuorumsMeet ==
    ASSUME NEW S \in SUBSET Nodes, NEW Q \in SUBSET Nodes,
           Cardinality(S) >= Quorum, Cardinality(Q) >= Quorum
    PROVE  \E m \in Nodes : m \in S /\ m \in Q
<1>1. IsFiniteSet(Nodes) /\ Cardinality(Nodes) = NodeCount
    <2>1. NodeCount \in Nat /\ NodeCount >= 1 BY LocalAssumption
    <2>2. IsFiniteSet(Nodes) /\ Cardinality(Nodes) = IF 0 > NodeCount - 1 THEN 0 ELSE NodeCount - 1 - 0 + 1
        BY <2>1, FS_Interval DEF Nodes
    <2> QED BY <2>1, <2>2
<1>2. IsFiniteSet(S) /\ IsFiniteSet(Q) BY <1>1, FS_Subset
<1>3. S \cup Q \in SUBSET Nodes OBVIOUS
<1>4. IsFiniteSet(S \cup Q) /\ Cardinality(S \cup Q) <= NodeCount BY <1>1, <1>3, FS_Subset
<1>5. Cardinality(S \cup Q) = Cardinality(S) + Cardinality(Q) - Cardinality(S \cap Q) BY <1>2, FS_Union
<1>6. Cardinality(S) \in Nat /\ Cardinality(Q) \in Nat /\ Cardinality(S \cup Q) \in Nat
    BY <1>2, <1>4, FS_CardinalityType
<1>7. ASSUME S \cap Q = {} PROVE FALSE
    <2>1. Cardinality(S \cap Q) = 0 BY <1>7, FS_EmptySet
    <2>2. NodeCount \in Nat /\ Quorum \in Nat /\ 2 * Quorum > NodeCount BY LocalAssumption
    <2> QED BY <1>4, <1>5, <1>6, <2>1, <2>2
<1> QED BY <1>7

\* the proposal that a quorum has signed extends the last decided header
LEMMA SignedExtends ==
    ASSUME Inv, Decide, decided # <<>>
    PROVE  /\ deliveredBlock(leader) = Last(decided) /\ Last(decided) # Nil
           /\ proposal = HeaderAfter(Last(decided), proposal.data)
<1>0. Typed /\ BatchInv /\ ChainInv BY DEF Inv
<1> DEFINE S == {n \in Nodes : signed[n] # Nil}
<1>1. proposal # Nil /\ Cardinality(S) >= Quorum BY DEF Decide
<1>2. PICK Q \in SUBSET Nodes : Cardinality(Q) >= Quorum /\ \A n \in Q \ dead : UpToDate(n)
    BY <1>0 DEF ChainInv, QuorumKnows
<1>3. PICK m \in Nodes : m \in S /\ m \in Q BY <1>1, <1>2, QuorumsMeet
<1>4. m \notin dead /\ vote[m] = "yes" BY <1>0, <1>3 DEF ChainInv, Votes
<1>5. HasDelivered(m) BY <1>0, <1>1 DEF BatchInv, Progress
<1>6. deliveredBlock(m) = Last(decided) BY <1>2, <1>3, <1>4, <1>5 DEF UpToDate
<1>7. Last(decided) # Nil
    <2>1. Last(decided) = decided[Len(decided)] /\ Len(decided) \in DOMAIN decided
        BY <1>0, LastOf DEF Typed
    <2>2. PICK l : decided[Len(decided)] = HeaderAfter(l, decided[Len(decided)].data)
        BY <1>0, <2>1 DEF ChainInv, Numbered
    <2> QED BY <2>1, <2>2, HeaderFields
<1>8. proposal = HeaderAfter(deliveredBlock(leader), proposal.data)
    BY <1>0, <1>1 DEF ChainInv, LeaderExtends
<1>9. CASE m = leader BY <1>6, <1>7, <1>8, <1>9
<1>10. CASE m # leader
    <2>1. isDeliveredBlockHeaderValid(m, proposal) BY <1>0, <1>4, <1>10 DEF ChainInv, Votes
    <2>2. proposal.prev = Last(decided)
        BY <1>6, <1>7, <2>1 DEF isDeliveredBlockHeaderValid, CalculatePreviousHash
    <2>3. proposal.prev = IF deliveredBlock(leader) = Nil THEN Nil ELSE deliveredBlock(leader)
        BY <1>8, HeaderFields
    <2> QED BY <1>7, <1>8, <2>2, <2>3
<1> QED BY <1>9, <1>10

LEMMA DecideStep == ASSUME Inv, Decide PROVE Inv'
<1>0. Typed /\ BatchInv /\ ChainInv /\ SignatureTyped /\ Signatures /\ FirstTerms /\ Ends BY DEF Inv
<1> DEFINE S == {n \in Nodes : signed[n] # Nil}
           k == Len(decided)
<1>1. /\ proposal # Nil /\ \A n \in Live : vote[n] # "none"
      /\ Cardinality(S) >= Quorum
      /\ \A n \in Live : vote[n] = "yes" => signed[n] # Nil
      /\ decided' = Append(decided, proposal) /\ proposal' = Nil
      /\ vote' = [n \in Nodes |-> "none"] /\ signed' = [n \in Nodes |-> Nil]
    BY DEF Decide
<1>2. UNCHANGED <<requests, userQueue, collecting, follows, wire, cache, queue, isLeader, proposed,
                  delivered, signatures, dead, refused, term, leader, told>>
    BY DEF Decide, peerVars
<1>3. /\ IsSequence(decided') /\ Len(decided') = k + 1 /\ DOMAIN decided' = 1 .. (k + 1)
      /\ \A i \in DOMAIN decided : decided'[i] = decided[i]
      /\ decided'[k + 1] = proposal /\ decided' # <<>> /\ Last(decided') = proposal
    BY <1>0, <1>1, AppendLast DEF Typed
<1>4. k \in Nat /\ DOMAIN decided = 1 .. k /\ (decided = <<>> <=> k = 0)
    BY <1>0, SequenceDomain DEF Typed
<1>5. \A i : i \in DOMAIN decided' <=> i \in DOMAIN decided \/ i = k + 1 BY <1>3, <1>4
<1>6. leader \in Nodes /\ leader \in told /\ leader \notin dead
    BY <1>0, <1>1 DEF Typed, ChainInv, LeaderExtends
<1>7. \A n \in Nodes : HasDelivered(n) BY <1>0, <1>1 DEF BatchInv, Progress
<1>8. \A n \in Nodes \ dead : Len(delivered[n]) = k BY <1>7 DEF HasDelivered
<1>9. ASSUME NEW n \in Nodes \ dead PROVE ~ HasDelivered(n)'
    BY <1>2, <1>3, <1>4, <1>8 DEF HasDelivered
<1>10. \A n \in Nodes : vote[n] = "yes" => <<proposal.data, proposal>> \in cache[n]
    BY <1>0 DEF ChainInv, Votes, HasHeader
<1>11. ASSUME NEW n \in Nodes, <<proposal.data, proposal>> \in cache[n] PROVE HasHeader(n, Last(decided))'
    BY <1>2, <1>3, <1>11 DEF HasHeader
<1>12. Typed' BY <1>0, <1>1, <1>2, <1>3 DEF Typed
<1>13. ASSUME NEW x, IsBatch(x)' PROVE IsBatch(x)
    <2>1. IsBatch(proposal.data) BY <1>1 DEF IsBatch
    <2> QED BY <1>1, <1>2, <1>3, <1>5, <1>13, <2>1 DEF IsBatch, Cached
<1>14. Disjoint' /\ Fresh'
    <2>1. \A m \in Nodes : /\ ToSet(userQueue'[m]) \subseteq ToSet(userQueue[m])
                           /\ NoRepeat(userQueue'[m])
        BY <1>0, <1>2 DEF BatchInv, Fresh
    <2> QED BY <1>0, <1>2, <1>13, <2>1, FreshFrame DEF BatchInv
<1>15. ReceivedOnce'
    <2>1. \A n \in Nodes \ dead : \A i \in 1 .. Len(delivered[n]) : decided'[i].data \notin ToSet(wire[n])
        BY <1>0, <1>3, <1>4, <1>8 DEF BatchInv, ReceivedOnce
    <2> QED BY <1>0, <1>2, <2>1 DEF BatchInv, ReceivedOnce, Cached
<1>16. Progress' BY <1>1, <1>2, <1>3, <1>4, <1>6, <1>8 DEF Progress
<1>17. QueueNew'
    <2>1. \A b : b \in ToSet(queue[leader]) \/ b \in ToSet(wire[leader]) =>
              \A i \in DOMAIN decided' : b # decided'[i].data
        BY <1>0, <1>1, <1>3, <1>5, <1>6 DEF BatchInv, QueueNew
    <2> QED BY <1>0, <1>1, <1>2, <2>1 DEF BatchInv, QueueNew, Cached
<1>18. DecidedOnce'
    <2> SUFFICES ASSUME NEW i \in DOMAIN decided', NEW j \in DOMAIN decided',
                        decided'[i].data = decided'[j].data
                 PROVE  i = j
        BY <1>1 DEF DecidedOnce
    <2>1. \A l \in DOMAIN decided : decided[l].data # proposal.data
        BY <1>0, <1>1 DEF BatchInv, DecidedOnce
    <2> QED BY <1>0, <1>3, <1>5, <2>1 DEF BatchInv, DecidedOnce
<1>19. BatchInv' BY <1>14, <1>15, <1>16, <1>17, <1>18 DEF BatchInv
<1>20. proposal = HeaderAfter(IF k = 0 THEN Nil ELSE Last(decided), proposal.data)
    <2>1. CASE k = 0
        <3>1. Len(delivered[leader]) = 0 BY <1>6, <1>8, <2>1
        <3>2. IsSequence(delivered[leader]) BY <1>0, <1>6 DEF Typed
        <3>3. deliveredBlock(leader) = Nil BY <3>1, <3>2, SequenceDomain DEF deliveredBlock
        <3> QED BY <1>0, <1>1, <2>1, <3>3 DEF ChainInv, LeaderExtends
    <2>2. CASE k # 0 BY <1>0, <1>4, <2>2, SignedExtends
    <2> QED BY <2>1, <2>2
<1>21. k # 0 => Last(decided) = decided[k] /\ k \in DOMAIN decided /\ Last(decided) # Nil
    <2> SUFFICES ASSUME k # 0 PROVE Last(decided) = decided[k] /\ k \in DOMAIN decided /\ Last(decided) # Nil
        OBVIOUS
    <2>1. decided # <<>> BY <1>4
    <2> QED BY <1>0, <2>1, LastOf, SignedExtends DEF Typed
<1>22. Numbered'
    <2> SUFFICES ASSUME NEW i \in DOMAIN decided'
                 PROVE  /\ decided'[i] = HeaderAfter(IF i = 1 THEN Nil ELSE decided'[i - 1], decided'[i].data)
                        /\ decided'[i].number = i - 1
        BY DEF Numbered, HeaderAfter
    <2>1. CASE i \in DOMAIN decided
        <3>1. i # 1 => i - 1 \in DOMAIN decided BY <1>4, <2>1
        <3>2. /\ decided[i] = HeaderAfter(IF i = 1 THEN Nil ELSE decided[i - 1], decided[i].data)
              /\ decided[i].number = i - 1
            BY <1>0, <2>1 DEF ChainInv, Numbered
        <3> QED BY <1>3, <2>1, <3>1, <3>2
    <2>2. CASE i = k + 1
        <3>1. i = 1 <=> k = 0 BY <1>4, <2>2
        <3>2. i - 1 = k BY <1>4, <2>2
        <3>3. decided'[i] = proposal BY <1>3, <2>2
        <3>4. k # 0 => decided'[k] = Last(decided) /\ Last(decided).number = k - 1
            BY <1>0, <1>3, <1>21 DEF ChainInv, Numbered
        <3>5. proposal.number = IF k = 0 THEN 0 ELSE Last(decided).number + 1
            BY <1>20, <1>21, HeaderFields
        <3>6. proposal.number = k BY <1>4, <3>4, <3>5
        <3>7. (IF i = 1 THEN Nil ELSE decided'[i - 1]) = IF k = 0 THEN Nil ELSE Last(decided)
            BY <3>1, <3>2, <3>4
        <3> QED BY <1>20, <3>2, <3>3, <3>6, <3>7
    <2> QED BY <1>5, <2>1, <2>2
<1>23. FollowDecided'
    <2> SUFFICES ASSUME NEW n \in Nodes \ refused
                 PROVE  /\ Len(delivered[n]) <= k + 1
                        /\ \A i \in DOMAIN delivered[n] : delivered[n][i] = decided'[i]
                        /\ ~ HasDelivered(n)' => HasHeader(n, Last(decided))'
        BY <1>2, <1>3 DEF FollowDecided
    <2>0. Len(delivered[n]) \in Nat /\ DOMAIN delivered[n] = 1 .. Len(delivered[n])
          /\ (delivered[n] = <<>> <=> Len(delivered[n]) = 0)
        BY <1>0, SequenceDomain DEF Typed
    <2>1. Len(delivered[n]) <= k /\ \A i \in DOMAIN delivered[n] : delivered[n][i] = decided[i]
        BY <1>0 DEF ChainInv, FollowDecided
    <2>2. \A i \in DOMAIN delivered[n] : i \in DOMAIN decided BY <1>4, <2>0, <2>1
    <2>3. ASSUME ~ HasDelivered(n)' PROVE HasHeader(n, Last(decided))'
        <3>1. n \in Live BY <1>2, <2>3 DEF HasDelivered, Live
        <3>2. Len(delivered[n]) = k BY <1>8, <3>1 DEF Live
        <3>3. isDeliveredBlockHeaderValid(n, proposal)
            <4>1. CASE k = 0
                BY <2>0, <3>2, <4>1 DEF isDeliveredBlockHeaderValid, deliveredBlock
            <4>2. CASE k # 0
                <5>1. delivered[n] # <<>> /\ k \in DOMAIN delivered[n] BY <1>4, <2>0, <3>2, <4>2
                <5>2. Last(delivered[n]) = delivered[n][k] BY <3>2 DEF Last
                <5>3. deliveredBlock(n) = Last(decided) BY <1>21, <2>1, <4>2, <5>1, <5>2 DEF deliveredBlock
                <5>4. /\ proposal.prev = Last(decided) /\ proposal.number = Last(decided).number + 1
                    BY <1>20, <1>21, <4>2, HeaderFields
                <5> QED BY <5>3, <5>4 DEF isDeliveredBlockHeaderValid, CalculatePreviousHash
            <4> QED BY <4>1, <4>2
        <3>4. vote[n] # "no" BY <1>0, <3>3 DEF ChainInv, Votes
        <3>5. vote[n] # "none" BY <1>1, <3>1
        <3>6. vote[n] \in {"none", "yes", "no"} BY <1>0 DEF Typed
        <3>7. vote[n] = "yes" BY <3>4, <3>5, <3>6
        <3> QED BY <1>10, <1>11, <3>7
    <2> QED BY <1>3, <1>4, <2>0, <2>1, <2>2, <2>3
<1>24. QuorumKnows'
    <2>1. ASSUME NEW n \in S, n \notin dead PROVE UpToDate(n)'
        <3>1. n \in Nodes /\ vote[n] = "yes" BY <1>0 DEF ChainInv, Votes
        <3> QED BY <1>9, <1>10, <1>11, <2>1, <3>1 DEF UpToDate
    <2>2. S \in SUBSET Nodes OBVIOUS
    <2> HIDE DEF S
    <2> QED BY <1>1, <1>2, <2>1, <2>2 DEF QuorumKnows
<1>25. Votes' BY <1>1 DEF Votes
<1>26. LeaderExtends'
    <2>1. proposed[leader] = proposal /\ vote[leader] = "yes"
        BY <1>0, <1>1 DEF ChainInv, LeaderExtends, Votes
    <2>2. ~ (leader \in dead' \/ Len(delivered'[leader]) = Len(decided'))
        BY <1>2, <1>3, <1>4, <1>6, <1>8
    <2>3. <<proposal.data, proposal>> \in cache'[leader] BY <1>2, <1>6, <1>10, <2>1
    <2> QED BY <1>1, <1>2, <1>3, <2>1, <2>2, <2>3 DEF LeaderExtends, HasDelivered, HasHeader
<1>27. ChainInv'
    <2>1. OneEntry' BY <1>0, <1>2 DEF ChainInv, OneEntry
    <2> QED BY <1>22, <1>23, <1>24, <1>25, <1>26, <2>1 DEF ChainInv
<1>28. Signatures'
    <2> SUFFICES ASSUME NEW n \in Nodes \ refused, n \in told
                 PROVE  signatures[n].back = signatures[n].front
        BY <1>1, <1>2 DEF Signatures
    <2>1. ~ (vote[n] = "yes" /\ signed[n] = Nil)
        <3>1. CASE n \in dead BY <1>0, <3>1 DEF ChainInv, Votes
        <3>2. CASE n \notin dead BY <1>1, <3>2 DEF Live
        <3> QED BY <3>1, <3>2
    <2> QED BY <1>0, <2>1 DEF Signatures
<1>29. SignatureTyped' BY <1>0, <1>2 DEF SignatureTyped
<1>30. FirstTerms' BY <1>0, <1>2 DEF FirstTerms
<1>31. Ends' BY <1>0, <1>2 DEF Ends
<1> QED BY <1>12, <1>19, <1>27, <1>28, <1>29, <1>30, <1>31 DEF Inv

(***************************************************************************)
(* The delivery.                                                           *)
(***************************************************************************)

\* the decided header is still to be delivered at the node
LEMMA ToDeliver ==
    ASSUME Inv, NEW n \in Nodes, deliver(n)
    PROVE  /\ n \notin dead /\ decided # <<>> /\ Len(decided) = Len(delivered[n]) + 1
           /\ proposal = Nil /\ leader \in told
           /\ Last(decided) = decided[Len(decided)] /\ Len(decided) \in DOMAIN decided
           /\ Last(decided) # Nil
           /\ \A m \in Nodes : vote[m] = "none" /\ signed[m] = Nil
           /\ n \notin refused => HasHeader(n, Last(decided))
<1>0. Typed /\ BatchInv /\ ChainInv BY DEF Inv
<1>1. n \notin dead /\ Len(delivered[n]) # Len(decided) /\ ~ HasDelivered(n) BY DEF deliver, HasDelivered
<1>2. Len(delivered[n]) \in Nat /\ Len(decided) \in Nat /\ (decided = <<>> <=> Len(decided) = 0)
    BY <1>0, SequenceDomain DEF Typed
<1>3. Len(delivered[n]) <= Len(decided) /\ Len(decided) <= Len(delivered[n]) + 1
    BY <1>0, <1>1 DEF BatchInv, Progress
<1>4. Len(decided) = Len(delivered[n]) + 1 /\ decided # <<>> BY <1>1, <1>2, <1>3
<1>5. proposal = Nil /\ leader \in told BY <1>0, <1>1 DEF BatchInv, Progress
<1>6. Last(decided) = decided[Len(decided)] /\ Len(decided) \in DOMAIN decided
    BY <1>0, <1>4, LastOf DEF Typed
<1>7. PICK l : decided[Len(decided)] = HeaderAfter(l, decided[Len(decided)].data)
    BY <1>0, <1>6 DEF ChainInv, Numbered
<1>8. Last(decided) # Nil BY <1>6, <1>7, HeaderFields
<1>9. \A m \in Nodes : vote[m] = "none" /\ signed[m] = Nil BY <1>0, <1>5 DEF ChainInv, Votes
<1>10. n \notin refused => HasHeader(n, Last(decided)) BY <1>0, <1>1 DEF ChainInv, FollowDecided
<1> QED BY <1>1, <1>4, <1>5, <1>6, <1>8, <1>9, <1>10

LEMMA StoredStep ==
    ASSUME Inv, NEW n \in Nodes, deliver(n), Cached(n, Last(decided).data)
    PROVE  Inv'
<1>0. Typed /\ BatchInv /\ ChainInv /\ SignatureTyped /\ Signatures /\ FirstTerms /\ Ends BY DEF Inv
<1> DEFINE h == Last(decided)
           k == Len(decided)
           B == BlockOf(n, h.data)
<1>1. /\ delivered' = [delivered EXCEPT ![n] = Append(@, B)]
      /\ cache' = [cache EXCEPT ![n] = {c \in @ : c[1] # h.data}]
    BY DEF deliver, OnDeliver
<1>2. UNCHANGED <<requests, userQueue, collecting, follows, wire, queue, isLeader, proposed, signatures,
                  refused, dead, term, leader, told, proposal, vote, signed, decided>>
    BY DEF deliver, OnDeliver, bftVars
<1>3. /\ n \notin dead /\ decided # <<>> /\ k = Len(delivered[n]) + 1
      /\ proposal = Nil /\ leader \in told
      /\ h = decided[k] /\ k \in DOMAIN decided /\ h # Nil
      /\ \A m \in Nodes : vote[m] = "none" /\ signed[m] = Nil
      /\ n \notin refused => HasHeader(n, h)
    BY ToDeliver
<1>4. HasHeader(n, h) => B = h BY <1>0, <1>3, BlockOfHeader DEF ChainInv
<1>5. k \in Nat /\ DOMAIN decided = 1 .. k BY <1>0, SequenceDomain DEF Typed
<1> DEFINE d == delivered[n]
<1>6. /\ IsSequence(d) /\ Len(d) \in Nat /\ DOMAIN d = 1 .. Len(d)
    BY <1>0, SequenceDomain DEF Typed
<1>7. cache'[n] = {c \in cache[n] : c[1] # h.data} /\ cache' = [m \in Nodes |-> cache'[m]]
      /\ \A m \in Nodes : m # n => cache'[m] = cache[m]
    BY <1>0, <1>1 DEF Typed
<1> HIDE DEF B, h
<1>8. /\ delivered' = [m \in Nodes |-> delivered'[m]] /\ delivered'[n] = Append(d, B)
      /\ \A m \in Nodes : m # n => delivered'[m] = delivered[m]
    BY <1>0, <1>1 DEF Typed
<1>9. /\ IsSequence(delivered'[n]) /\ Len(delivered'[n]) = k
      /\ DOMAIN delivered'[n] = 1 .. k
      /\ \A i \in DOMAIN d : delivered'[n][i] = d[i]
      /\ delivered'[n][k] = B /\ delivered'[n] # <<>> /\ Last(delivered'[n]) = B
    BY <1>3, <1>6, <1>8, AppendLast
<1>10. HasDelivered(n)' BY <1>2, <1>9 DEF HasDelivered
<1>11. deliveredBlock(n)' = B BY <1>9 DEF deliveredBlock
<1>12. \A m \in Nodes : m # n =>
           HasDelivered(m)' = HasDelivered(m) /\ deliveredBlock(m)' = deliveredBlock(m)
    BY <1>2, <1>8 DEF HasDelivered, deliveredBlock
<1>13. Typed'
    <2>1. \A m \in Nodes : IsSequence(delivered'[m]) BY <1>0, <1>8, <1>9 DEF Typed
    <2> QED BY <1>0, <1>2, <1>7, <1>8, <2>1 DEF Typed
<1>14. \A m \in Nodes : \A x : (\E c \in cache'[m] : c[1] = x) => Cached(m, x) BY <1>7 DEF Cached
<1>15. \A x : IsBatch(x)' => IsBatch(x) BY <1>2, <1>14 DEF IsBatch, Cached
<1>16. Disjoint' /\ Fresh'
    <2>1. \A m \in Nodes : /\ ToSet(userQueue'[m]) \subseteq ToSet(userQueue[m])
                           /\ NoRepeat(userQueue'[m])
        BY <1>0, <1>2 DEF BatchInv, Fresh
    <2> QED BY <1>0, <1>2, <1>15, <2>1, FreshFrame DEF BatchInv
<1>17. ReceivedOnce'
    <2> SUFFICES ASSUME NEW m \in Nodes
                 PROVE  /\ NoRepeat(wire[m])
                        /\ \A b \in ToSet(wire[m]) : ~ Cached(m, b)' /\ b \notin ToSet(queue[m])
                        /\ m \notin dead => \A i \in 1 .. Len(delivered'[m]) : decided[i].data \notin ToSet(wire[m])
        BY <1>2 DEF ReceivedOnce
    <2>1. /\ NoRepeat(wire[m])
          /\ \A b \in ToSet(wire[m]) : ~ Cached(m, b) /\ b \notin ToSet(queue[m])
          /\ m \notin dead => \A i \in 1 .. Len(delivered[m]) : decided[i].data \notin ToSet(wire[m])
        BY <1>0 DEF BatchInv, ReceivedOnce
    <2>2. CASE m # n BY <1>8, <1>14, <2>1, <2>2 DEF Cached
    <2>3. CASE m = n
        <3>1. decided[k].data \notin ToSet(wire[n]) BY <1>3, <2>1, <2>3 DEF h
        <3>2. \A i \in 1 .. k : i = k \/ i \in 1 .. Len(d) BY <1>3, <1>5, <1>6
        <3>3. \A i \in 1 .. k : decided[i].data \notin ToSet(wire[n]) BY <1>3, <2>1, <2>3, <3>1, <3>2
        <3> QED BY <1>9, <1>14, <2>1, <2>3, <3>3 DEF Cached
    <2> QED BY <2>2, <2>3
<1>18. Progress'
    <2>1. \A m \in Nodes \ dead : Len(delivered'[m]) <= k /\ k <= Len(delivered'[m]) + 1
        <3> SUFFICES ASSUME NEW m \in Nodes \ dead
                     PROVE  Len(delivered'[m]) <= k /\ k <= Len(delivered'[m]) + 1
            OBVIOUS
        <3>1. CASE m = n BY <1>5, <1>9, <3>1
        <3>2. CASE m # n BY <1>0, <1>8, <3>2 DEF BatchInv, Progress
        <3> QED BY <3>1, <3>2
    <2> QED BY <1>2, <1>3, <2>1 DEF Progress
<1>19. QueueNew'
    <2>1. leader \in Nodes BY <1>0 DEF Typed
    <2>2. ASSUME leader \notin dead, NEW b \in ToSet(queue[leader]) PROVE \E c \in cache'[leader] : c[1] = b
        <3>1. Cached(leader, b) /\ b # decided[k].data BY <1>0, <1>3, <2>2 DEF BatchInv, QueueNew
        <3>2. CASE leader = n BY <1>3, <1>7, <3>1, <3>2 DEF Cached
        <3>3. CASE leader # n BY <1>7, <2>1, <3>1, <3>3 DEF Cached
        <3> QED BY <3>2, <3>3
    <2> QED BY <1>0, <1>2, <2>2 DEF BatchInv, QueueNew, Cached
<1>20. DecidedOnce' BY <1>0, <1>2 DEF BatchInv, DecidedOnce
<1>21. BatchInv' BY <1>16, <1>17, <1>18, <1>19, <1>20 DEF BatchInv
<1>22. OneEntry'
    <2>1. \A m \in Nodes : cache'[m] \subseteq cache[m] BY <1>7
    <2> QED BY <1>0, <2>1 DEF ChainInv, OneEntry
<1>23. Numbered' BY <1>0, <1>2 DEF ChainInv, Numbered
<1>24. FollowDecided'
    <2> SUFFICES ASSUME NEW m \in Nodes \ refused
                 PROVE  /\ Len(delivered'[m]) <= k
                        /\ \A i \in DOMAIN delivered'[m] : delivered'[m][i] = decided[i]
                        /\ ~ HasDelivered(m)' => HasHeader(m, Last(decided))'
        BY <1>2 DEF FollowDecided
    <2>1. /\ Len(delivered[m]) <= k
          /\ \A i \in DOMAIN delivered[m] : delivered[m][i] = decided[i]
          /\ ~ HasDelivered(m) => HasHeader(m, Last(decided))
        BY <1>0 DEF ChainInv, FollowDecided
    <2>2. CASE m # n
        <3>1. HasHeader(m, Last(decided))' = HasHeader(m, Last(decided)) BY <1>2, <1>7, <2>2 DEF HasHeader
        <3> QED BY <1>8, <1>12, <2>1, <2>2, <3>1
    <2>3. CASE m = n
        <3>1. B = decided[k] BY <1>3, <1>4, <2>3
        <3>2. \A i \in 1 .. k : i = k \/ i \in DOMAIN d BY <1>3, <1>5, <1>6
        <3>3. \A i \in 1 .. k : delivered'[n][i] = decided[i] BY <1>9, <2>1, <2>3, <3>1, <3>2
        <3> QED BY <1>5, <1>9, <1>10, <2>3, <3>3
    <2> QED BY <2>2, <2>3
<1>25. QuorumKnows'
    <2>1. ASSUME NEW m \in Nodes, m \notin dead, UpToDate(m) PROVE UpToDate(m)'
        <3>1. CASE m # n
            <4>1. HasHeader(m, Last(decided))' = HasHeader(m, Last(decided)) BY <1>2, <1>7, <3>1 DEF HasHeader
            <4> QED BY <1>2, <1>12, <2>1, <3>1, <4>1 DEF UpToDate
        <3>2. CASE m = n
            <4>1. ~ HasDelivered(n) BY DEF deliver
            <4>2. HasHeader(n, h) BY <2>1, <3>2, <4>1 DEF UpToDate, h
            <4>3. deliveredBlock(m)' = Last(decided') BY <1>2, <1>4, <1>11, <3>2, <4>2 DEF h
            <4> QED BY <1>10, <3>2, <4>3 DEF UpToDate
        <3> QED BY <3>1, <3>2
    <2> QED BY <1>0, <1>2, <2>1 DEF ChainInv, QuorumKnows
<1>26. Votes' BY <1>2, <1>3 DEF Votes
<1>27. LeaderExtends'
    <2> SUFFICES ASSUME leader \notin dead
                 PROVE  IF HasDelivered(leader)' THEN proposed[leader] = deliveredBlock(leader)'
                        ELSE proposed[leader] = h /\ <<h.data, h>> \in cache'[leader]
        BY <1>2, <1>3 DEF LeaderExtends, HasHeader, h
    <2>1. leader \in Nodes BY <1>0 DEF Typed
    <2>2. IF HasDelivered(leader) THEN proposed[leader] = deliveredBlock(leader)
          ELSE proposed[leader] = h /\ HasHeader(leader, h)
        BY <1>0, <1>3 DEF ChainInv, LeaderExtends, h
    <2>3. CASE leader = n
        <3>1. ~ HasDelivered(n) BY DEF deliver
        <3>2. proposed[leader] = B BY <1>4, <2>2, <2>3, <3>1
        <3>3. leader' \in dead' \/ Len(delivered'[leader']) = Len(decided') BY <1>2, <1>9, <2>3
        <3>4. delivered'[leader'] # <<>> /\ Last(delivered'[leader']) = B BY <1>2, <1>9, <2>3
        <3> QED BY <3>2, <3>3, <3>4 DEF HasDelivered, deliveredBlock
    <2>4. CASE leader # n
        <3>1. delivered'[leader'] = delivered[leader] /\ cache'[leader] = cache[leader]
            BY <1>2, <1>7, <1>8, <2>1, <2>4
        <3> QED BY <1>2, <2>2, <3>1 DEF HasDelivered, deliveredBlock, HasHeader
    <2> QED BY <2>3, <2>4
<1>28. ChainInv' BY <1>22, <1>23, <1>24, <1>25, <1>26, <1>27 DEF ChainInv
<1>29. UNCHANGED endVars BY <1>2 DEF endVars
<1> QED BY <1>0, <1>13, <1>21, <1>28, <1>29, EndFrame DEF Inv

LEMMA EndedStep ==
    ASSUME Inv, NEW n \in Nodes, deliver(n), ~ Cached(n, Last(decided).data)
    PROVE  Inv'
<1>0. Typed /\ BatchInv /\ ChainInv /\ SignatureTyped /\ Signatures /\ FirstTerms /\ Ends BY DEF Inv
<1>1. dead' = dead \cup {n} BY DEF deliver, OnDeliver
<1>2. UNCHANGED <<requests, userQueue, collecting, follows, wire, queue, isLeader, proposed, signatures,
                  refused, cache, delivered, term, leader, told, proposal, vote, signed, decided>>
    BY DEF deliver, OnDeliver, bftVars
<1>3. /\ proposal = Nil /\ leader \in told
      /\ \A m \in Nodes : vote[m] = "none" /\ signed[m] = Nil
      /\ n \in refused
    BY ToDeliver, HeaderCached
<1>4. Typed' BY <1>0, <1>1, <1>2 DEF Typed
<1>5. \A x : IsBatch(x)' <=> IsBatch(x) BY <1>2 DEF IsBatch, Cached
<1>6. BatchInv'
    <2>1. Disjoint' BY <1>0, <1>5 DEF BatchInv, Disjoint
    <2>2. Fresh' BY <1>0, <1>2, <1>5 DEF BatchInv, Fresh
    <2>3. ReceivedOnce' BY <1>0, <1>1, <1>2 DEF BatchInv, ReceivedOnce, Cached
    <2>4. Progress' BY <1>0, <1>1, <1>2, <1>3 DEF BatchInv, Progress
    <2>5. QueueNew' BY <1>0, <1>1, <1>2 DEF BatchInv, QueueNew, Cached
    <2>6. DecidedOnce' BY <1>0, <1>2 DEF BatchInv, DecidedOnce
    <2> QED BY <2>1, <2>2, <2>3, <2>4, <2>5, <2>6 DEF BatchInv
<1>7. \A m : /\ deliveredBlock(m)' = deliveredBlock(m)
             /\ m # n => HasDelivered(m)' = HasDelivered(m)
             /\ HasHeader(m, Last(decided))' = HasHeader(m, Last(decided))
    BY <1>1, <1>2 DEF HasDelivered, deliveredBlock, HasHeader
<1>8. ChainInv'
    <2>1. OneEntry' /\ Numbered' BY <1>0, <1>2 DEF ChainInv, OneEntry, Numbered
    <2>2. FollowDecided' BY <1>0, <1>2, <1>3, <1>7 DEF ChainInv, FollowDecided
    <2>3. QuorumKnows'
        <3>1. \A m : m # n => UpToDate(m)' = UpToDate(m) BY <1>2, <1>7 DEF UpToDate
        <3> QED BY <1>0, <1>1, <1>2, <3>1 DEF ChainInv, QuorumKnows
    <2>4. Votes' BY <1>2, <1>3 DEF Votes
    <2>5. LeaderExtends'
        <3> SUFFICES ASSUME leader \notin dead'
                     PROVE  IF HasDelivered(leader)' THEN proposed[leader] = deliveredBlock(leader)'
                            ELSE proposed[leader] = Last(decided) /\ HasHeader(leader, Last(decided))'
            BY <1>2, <1>3 DEF LeaderExtends
        <3>1. leader \notin dead BY <1>1
        <3>2. HasDelivered(leader)' = HasDelivered(leader)
              /\ deliveredBlock(leader)' = deliveredBlock(leader)
              /\ HasHeader(leader, Last(decided))' = HasHeader(leader, Last(decided))
            BY <1>2, <3>1 DEF HasDelivered, deliveredBlock, HasHeader
        <3> QED BY <1>0, <1>3, <3>1, <3>2 DEF ChainInv, LeaderExtends
    <2> QED BY <2>1, <2>2, <2>3, <2>4, <2>5 DEF ChainInv
<1>9. SignatureTyped' /\ Signatures'
    BY <1>0, <1>2 DEF SignatureTyped, Signatures, FrontSignature
<1>10. FirstTerms' BY <1>0, <1>2 DEF FirstTerms
<1>11. Ends' BY <1>0, <1>1, <1>2, <1>3 DEF Ends
<1> QED BY <1>4, <1>6, <1>8, <1>9, <1>10, <1>11 DEF Inv

(***************************************************************************)
(* The theorems.                                                           *)
(***************************************************************************)

LEMMA InitHolds == ASSUME Init PROVE Inv
<1>0. /\ requests = 0 /\ userQueue = [n \in Nodes |-> <<>>] /\ collecting = {}
      /\ follows = [n \in Nodes |-> IF n = 0 THEN -1 ELSE 0]
      /\ wire = [n \in Nodes |-> <<>>] /\ cache = [n \in Nodes |-> {}] /\ queue = [n \in Nodes |-> <<>>]
      /\ isLeader = [n \in Nodes |-> FALSE] /\ proposed = [n \in Nodes |-> Nil]
      /\ delivered = [n \in Nodes |-> <<>>] /\ signatures = [n \in Nodes |-> EmptySignatures]
      /\ dead = {} /\ refused = {} /\ term = 1 /\ leader = 0 /\ told = Nodes \ {0}
      /\ proposal = Nil /\ vote = [n \in Nodes |-> "none"] /\ signed = [n \in Nodes |-> Nil]
      /\ decided = <<>>
    BY DEF Init
<1>1. 0 \in Nodes BY LocalAssumption DEF Nodes
<1>2. IsSequence(<<>>)
    <2>1. <<>> \in Seq({}) OBVIOUS
    <2> QED BY <2>1 DEF IsSequence
<1>3. Len(<<>>) = 0 /\ DOMAIN <<>> = {} /\ ToSet(<<>>) = {} /\ NoRepeat(<<>>)
    BY DEF ToSet, NoRepeat
<1>4. Typed
    <2>1. <<>> \in Seq(Nat) /\ <<>> \in Seq(Seq(Nat)) OBVIOUS
    <2>2. \A n \in Nodes : follows[n] # n
        <3>1. \A n \in Nodes : n = 0 => follows[n] = -1 BY <1>0
        <3>2. \A n \in Nodes : n # 0 => follows[n] = 0 BY <1>0
        <3>3. -1 # 0 OBVIOUS
        <3> QED BY <3>1, <3>2, <3>3
    <2>3. follows = [n \in Nodes |-> follows[n]] BY <1>0
    <2> QED BY <1>0, <1>1, <1>2, <2>1, <2>2, <2>3 DEF Typed
<1>5. \A b : ~ IsBatch(b)
    <2>1. \A b : \A n \in Nodes : ~ Cached(n, b) BY <1>0 DEF Cached
    <2>2. \A n \in Nodes : ToSet(wire[n]) = {} /\ ToSet(queue[n]) = {} BY <1>0, <1>3
    <2>3. DOMAIN decided = {} /\ proposal = Nil BY <1>0, <1>3
    <2> QED BY <2>1, <2>2, <2>3 DEF IsBatch
<1>6. BatchInv
    <2>1. Disjoint BY <1>5 DEF Disjoint
    <2>2. Fresh BY <1>0, <1>3, <1>5 DEF Fresh
    <2>3. ReceivedOnce BY <1>0, <1>3 DEF ReceivedOnce
    <2>4. \A n \in Nodes : HasDelivered(n) BY <1>0 DEF HasDelivered
    <2>5. Progress BY <1>0, <1>3, <2>4 DEF Progress
    <2>6. QueueNew BY <1>0 DEF QueueNew
    <2>7. DecidedOnce BY <1>0, <1>3 DEF DecidedOnce
    <2> QED BY <2>1, <2>2, <2>3, <2>5, <2>6, <2>7 DEF BatchInv
<1>7. ChainInv
    <2>1. OneEntry BY <1>0 DEF OneEntry
    <2>2. Numbered BY <1>0, <1>3 DEF Numbered
    <2>3. \A n \in Nodes : HasDelivered(n) BY <1>0 DEF HasDelivered
    <2>4. FollowDecided BY <1>0, <1>3, <2>3 DEF FollowDecided
    <2>5. QuorumKnows BY <1>0 DEF QuorumKnows
    <2>6. Votes BY <1>0 DEF Votes
    <2>7. LeaderExtends BY <1>0 DEF LeaderExtends
    <2> QED BY <2>1, <2>2, <2>4, <2>5, <2>6, <2>7 DEF ChainInv
<1>8. SignatureTyped /\ Signatures
    <2>1. \A n \in Nodes : signatures[n] = EmptySignatures BY <1>0
    <2> DEFINE e == EmptySignatures
    <2>2. /\ e = [front |-> e.front, back |-> e.back, slot |-> e.slot]
          /\ e.front \in Nat /\ e.back \in Nat
          /\ e.slot = [i \in 0 .. (SignatureSlots - 1) |-> e.slot[i]]
        BY DEF EmptySignatures
    <2>4. SignatureTyped
        <3> HIDE DEF e
        <3>1. \A n \in Nodes : signatures[n] = e BY <2>1 DEF e
        <3> QED BY <2>2, <3>1 DEF SignatureTyped
    <2>3. \A n \in Nodes : signatures[n].back = signatures[n].front BY <2>1 DEF EmptySignatures
    <2> QED BY <1>0, <2>3, <2>4 DEF Signatures
<1>9. FirstTerms /\ Ends BY <1>0 DEF FirstTerms, Ends
<1> QED BY <1>4, <1>6, <1>7, <1>8, <1>9 DEF Inv

LEMMA StutterHolds == ASSUME Inv, UNCHANGED vars PROVE Inv'
<1>1. UNCHANGED <<requests, userQueue, collecting, follows, wire, cache, queue, isLeader, proposed,
                  delivered, signatures, dead, refused, term, leader, told, proposal, vote, signed,
                  decided>>
    BY DEF vars, peerVars, bftVars
<1>2. Typed /\ BatchInv /\ ChainInv BY DEF Inv
<1>3. Typed' BY <1>1, <1>2 DEF Typed
<1>4. \A x : IsBatch(x)' <=> IsBatch(x) BY <1>1 DEF IsBatch, Cached
<1>5. BatchInv'
    <2>1. Disjoint' BY <1>2, <1>4 DEF BatchInv, Disjoint
    <2>2. Fresh' BY <1>1, <1>2, <1>4 DEF BatchInv, Fresh
    <2>3. ReceivedOnce' BY <1>1, <1>2 DEF BatchInv, ReceivedOnce, Cached
    <2>4. Progress' BY <1>1, <1>2 DEF BatchInv, Progress, HasDelivered
    <2>5. QueueNew' BY <1>1, <1>2 DEF BatchInv, QueueNew, Cached
    <2>6. DecidedOnce' BY <1>1, <1>2 DEF BatchInv, DecidedOnce
    <2> QED BY <2>1, <2>2, <2>3, <2>4, <2>5, <2>6 DEF BatchInv
<1>6. ChainInv'
    <2>1. OneEntry' BY <1>1, <1>2 DEF ChainInv, OneEntry
    <2>2. UNCHANGED chainVars BY <1>1 DEF chainVars
    <2> QED BY <1>1, <1>2, <2>1, <2>2, ChainFrame DEF HasHeader
<1>7. UNCHANGED endVars BY <1>1 DEF endVars
<1> QED BY <1>3, <1>5, <1>6, <1>7, EndFrame DEF Inv

LEMMA NextHolds == ASSUME Inv, Next PROVE Inv'
<1>1. ASSUME NEW n \in Nodes, collectorFunction(n) PROVE Inv' BY <1>1, CollectorStep
<1>2. ASSUME NEW n \in Nodes, batchingFunction(n) PROVE Inv' BY <1>2, BatchingStep
<1>3. ASSUME NEW n \in Nodes, followerFunction(n) PROVE Inv' BY <1>3, FollowerStep
<1>4. ASSUME requestProposal PROVE Inv' BY <1>4, RequestStep
<1>5. ASSUME NEW n \in Nodes, verifyProposal(n) PROVE Inv' BY <1>5, VerifyStep
<1>6. ASSUME NEW n \in Nodes, signProposal(n) PROVE Inv' BY <1>6, SignStep
<1>7. ASSUME NEW n \in Nodes, deliver(n) PROVE Inv' BY <1>7, StoredStep, EndedStep
<1>8. ASSUME NEW n \in Nodes, leaderStart(n) PROVE Inv' BY <1>8, LeaderStartStep
<1>9. ASSUME NEW n \in Nodes, leaderChange(n) PROVE Inv' BY <1>9, LeaderChangeStep
<1>10. ASSUME Decide PROVE Inv' BY <1>10, DecideStep
<1>11. ASSUME NextLeader PROVE Inv' BY <1>11, NextLeaderStep
<1> QED BY <1>1, <1>2, <1>3, <1>4, <1>5, <1>6, <1>7, <1>8, <1>9, <1>10, <1>11 DEF Next, Steps

\* The invariant of the batches, the chain, the votes and the signatures holds in every
\* reachable state of the peers and of the consensus that calls them.
THEOREM Invariance == Spec => []Inv
<1>1. Init => Inv BY InitHolds
<1>2. Inv /\ [Next]_vars => Inv' BY NextHolds, StutterHolds
<1> QED BY <1>1, <1>2, PTL DEF Spec

\* isDeliveredBlockHeaderValid, OnLeaderStart: over any number of leaders the decided
\* headers are numbered without a gap and each has the hash of the one before, and a
\* node that has got all batches in time delivers exactly them, in that order.
THEOREM ChainIsOne == Spec => []OneChain
<1>1. ASSUME Inv PROVE OneChain
    <2>0. Typed /\ ChainInv BY <1>1 DEF Inv
    <2>1. \A n \in Nodes \ refused :
              /\ Len(delivered[n]) <= Len(decided)
              /\ \A i \in DOMAIN delivered[n] : delivered[n][i] = decided[i]
        BY <2>0 DEF ChainInv, FollowDecided
    <2>2. ASSUME NEW i \in DOMAIN decided
          PROVE  /\ decided[i].number = i - 1
                 /\ decided[i].prev = IF i = 1 THEN Nil ELSE CalculatePreviousHash(decided[i - 1])
        <3> DEFINE last == IF i = 1 THEN Nil ELSE decided[i - 1]
        <3>1. decided[i] = HeaderAfter(last, decided[i].data) /\ decided[i].number = i - 1
            BY <2>0 DEF ChainInv, Numbered
        <3>2. decided[i].prev = IF last = Nil THEN Nil ELSE last
            <4> HIDE DEF last
            <4> QED BY <3>1, HeaderFields
        <3> QED BY <3>1, <3>2 DEF CalculatePreviousHash
    <2> QED BY <2>1, <2>2 DEF OneChain
<1> QED BY <1>1, Invariance, PTL

\* collectorFunction, batchingFunction, pushUnorderedBlock: no user request is in two
\* decided blocks, whatever batches wait in the queues and caches of earlier leaders.
THEOREM EachRequestOnce == Spec => []RequestsOnce
<1>1. ASSUME Inv PROVE RequestsOnce
    <2>0. Disjoint /\ DecidedOnce BY <1>1 DEF Inv, BatchInv
    <2> SUFFICES ASSUME NEW i \in DOMAIN decided, NEW j \in DOMAIN decided, NEW r \in 1 .. requests,
                        r \in ToSet(decided[i].data), r \in ToSet(decided[j].data)
                 PROVE  i = j
        BY DEF RequestsOnce
    <2>1. IsBatch(decided[i].data) /\ IsBatch(decided[j].data) BY DEF IsBatch
    <2>2. decided[i].data = decided[j].data BY <2>0, <2>1 DEF Disjoint
    <2> QED BY <2>0, <2>2 DEF DecidedOnce
<1> QED BY <1>1, Invariance, PTL

\* OnSignProposal, OnDeliver, startLeader: a signature is that of the proposal in
\* question at every node that has refused none, and a node ends only after it has
\* refused a proposal or when it leads a second time.
THEOREM NodesAreSound == Spec => []NodesSound
<1>1. ASSUME Inv PROVE NodesSound BY <1>1 DEF Inv, Signatures, Ends, NodesSound
<1> QED BY <1>1, Invariance, PTL
-----------------------------------------------------------------------------
(* The blocks on their way to another group: BlockReplication.             *)

\* how far an insertion is; what the futex says
InsertSteps ==
    \/ /\ inserting = <<>>
       /\ newest = Len(subscriber) - 1
    \/ /\ Len(subscriber) > 0
       /\ \/ inserting = <<Len(subscriber) - 1, "emplace">> /\ newest = Len(subscriber) - 2
          \/ inserting = <<Len(subscriber) - 1, "store">> /\ newest = Len(subscriber) - 2
          \/ inserting = <<Len(subscriber) - 1, "prune">> /\ newest = Len(subscriber) - 1

\* the thread that inserts, of which there is one
OneInserter ==
    /\ mode = "v2" => low = IF inserting = <<>> THEN Len(subscriber) ELSE Len(subscriber) - 1
    /\ mode # "v2" => (lock <=> inserting # <<>>)

\* A relay's thread has no block, and all it got have been inserted, or the last
\* it got, and those before it have been.
ThreadsBehind ==
    mode # "v2" =>
        /\ got \in [Relays -> Nat] /\ holding \in [Relays -> Int]
        /\ \A c \in Relays :
              \/ holding[c] = None /\ got[c] <= Len(subscriber)
              \/ holding[c] = got[c] - 1 /\ got[c] - 1 <= Len(subscriber) /\ got[c] > 0

\* the block that is being inserted is there before the futex says so
StoredFirst ==
    inserting # <<>> /\ inserting[2] = "store" => Len(subscriber) - 1 \in stored

RetainInv ==
    /\ subscriber \in Seq(Int)
    /\ InsertSteps /\ OneInserter /\ ThreadsBehind /\ StoredFirst /\ Retained

\* the next block is handed to the subscribers
LEMMA BeginsNext ==
    ASSUME subscriber \in Seq(Int), InsertSteps, Retained, BeginInsert(Len(subscriber))
    PROVE  /\ inserting = <<>> /\ inserting' = <<Len(subscriber), "emplace">>
           /\ subscriber' \in Seq(Int) /\ Len(subscriber') = Len(subscriber) + 1
           /\ InsertSteps' /\ StoredFirst' /\ Retained'
<1>1. /\ inserting = <<>> /\ inserting' = <<Len(subscriber), "emplace">>
      /\ subscriber' = Append(subscriber, Len(subscriber))
      /\ stored' = stored /\ newest' = newest
    BY DEF BeginInsert, Idle
<1>2. subscriber' \in Seq(Int) /\ Len(subscriber') = Len(subscriber) + 1 /\ Len(subscriber) \in Nat
    BY <1>1
<1>3. newest = Len(subscriber) - 1 BY <1>1 DEF InsertSteps
<1>4. InsertSteps'
    <2>1. Len(subscriber') - 1 = Len(subscriber) /\ Len(subscriber') - 2 = newest /\ Len(subscriber') > 0
        BY <1>2, <1>3
    <2> QED BY <1>1, <2>1 DEF InsertSteps
<1>5. StoredFirst' BY <1>1 DEF StoredFirst
<1>6. Retained'
    <2>1. ASSUME NEW i \in DOMAIN subscriber' PROVE subscriber'[i] = i - 1
        <3>1. CASE i = Len(subscriber) + 1 BY <1>1, <1>2, <3>1
        <3>2. CASE i # Len(subscriber) + 1
            <4>1. i \in DOMAIN subscriber /\ subscriber'[i] = subscriber[i] BY <1>1, <1>2, <3>2
            <4> QED BY <4>1 DEF Retained
        <3> QED BY <3>1, <3>2
    <2> QED BY <1>1, <2>1 DEF Retained
<1> QED BY <1>1, <1>2, <1>4, <1>5, <1>6

\* the three steps after that
LEMMA InsertsOn ==
    ASSUME subscriber \in Seq(Int), MaxSize \in Nat \ {0}, InsertSteps, StoredFirst, Retained,
           insertBlockAndNotify
    PROVE  /\ inserting # <<>> /\ subscriber' = subscriber
           /\ InsertSteps' /\ StoredFirst' /\ Retained'
<1>1. inserting # <<>> /\ subscriber' = subscriber /\ Len(subscriber) \in Nat
    BY DEF insertBlockAndNotify, tryEmplaceBlock, StoreFutex, pruneWithMaxBlockId, Idle
<1>2. CASE tryEmplaceBlock
    <2>1. /\ inserting = <<Len(subscriber) - 1, "emplace">> /\ newest = Len(subscriber) - 2
          /\ Len(subscriber) > 0
        BY <1>2 DEF tryEmplaceBlock, Idle, InsertSteps
    <2>2. /\ inserting' = <<Len(subscriber) - 1, "store">> /\ newest' = newest
          /\ stored' = stored \cup {Len(subscriber) - 1}
        BY <1>2, <2>1 DEF tryEmplaceBlock
    <2> QED BY <1>1, <2>1, <2>2 DEF InsertSteps, StoredFirst, Retained
<1>3. CASE StoreFutex
    <2>1. /\ inserting = <<Len(subscriber) - 1, "store">> /\ newest = Len(subscriber) - 2
          /\ Len(subscriber) > 0 /\ Len(subscriber) - 1 \in stored
        BY <1>3 DEF StoreFutex, Idle, InsertSteps, StoredFirst
    <2>2. /\ inserting' = <<Len(subscriber) - 1, "prune">> /\ newest' = Len(subscriber) - 1
          /\ stored' = stored
        BY <1>3, <2>1 DEF StoreFutex
    <2>3. ASSUME NEW b \in 0 .. newest', b > newest' - MaxSize PROVE b \in stored
        <3>1. CASE b = Len(subscriber) - 1 BY <2>1, <3>1
        <3>2. CASE b # Len(subscriber) - 1
            <4>1. b \in 0 .. newest /\ b > newest - MaxSize BY <1>1, <2>1, <2>2, <2>3, <3>2
            <4> QED BY <4>1 DEF Retained
        <3> QED BY <3>1, <3>2
    <2>4. Retained' BY <1>1, <2>2, <2>3 DEF Retained
    <2> QED BY <1>1, <2>1, <2>2, <2>4 DEF InsertSteps, StoredFirst
<1>4. CASE pruneWithMaxBlockId
    <2>1. /\ inserting = <<Len(subscriber) - 1, "prune">> /\ newest = Len(subscriber) - 1
          /\ Len(subscriber) > 0
        BY <1>4 DEF pruneWithMaxBlockId, Idle, InsertSteps
    <2>2. /\ inserting' = <<>> /\ newest' = newest
          /\ stored' = stored \ {newest - MaxSize}
        BY <1>4, <2>1 DEF pruneWithMaxBlockId
    <2>3. Retained' BY <1>1, <2>1, <2>2 DEF Retained
    <2> QED BY <1>1, <2>1, <2>2, <2>3 DEF InsertSteps, StoredFirst
<1> QED BY <1>2, <1>3, <1>4, <1>1 DEF insertBlockAndNotify

LEMMA RetainInit == ReplicationInit => RetainInv
<1> SUFFICES ASSUME ReplicationInit PROVE RetainInv OBVIOUS
<1>1. /\ subscriber = <<>> /\ newest = -1 /\ inserting = <<>> /\ stored = {}
      /\ low = 0 /\ lock = FALSE /\ got = [c \in Channels |-> 0]
      /\ holding = [c \in Relays |-> None]
    BY DEF ReplicationInit, StorageInit
<1>2. InsertSteps /\ OneInserter /\ StoredFirst BY <1>1 DEF InsertSteps, OneInserter, StoredFirst
<1>3. ThreadsBehind
    <2>1. mode # "v2" => Channels = Relays BY DEF Channels
    <2> QED BY <1>1, <2>1 DEF ThreadsBehind, None
<1>4. Retained BY <1>1 DEF Retained
<1> QED BY <1>1, <1>2, <1>3, <1>4 DEF RetainInv

LEMMA RetainStep ==
    ASSUME RetainInv, [ReplicationNext]_replicationVars, MaxSize \in Nat \ {0}
    PROVE  RetainInv'
<1>0. subscriber \in Seq(Int) /\ Len(subscriber) \in Nat BY DEF RetainInv
<1>1. ASSUME mode' = mode, size' = size PROVE Relays' = Relays
    BY <1>1 DEF Relays, DirectRelays, MultiwayRelays, Senders
\* neither the storage nor the threads are concerned
<1>2. ASSUME UNCHANGED <<mode, size, low, holding, lock, subscriber, newest, stored, inserting>>,
             mode # "v2" => got' = got
      PROVE  RetainInv'
    <2>1. Relays' = Relays BY <1>1, <1>2
    <2>2. ThreadsBehind' BY <1>2, <2>1 DEF RetainInv, ThreadsBehind
    <2> QED BY <1>2, <2>2 DEF RetainInv, InsertSteps, OneInserter, StoredFirst, Retained
<1>3. CASE UNCHANGED replicationVars
    BY <1>2, <1>3 DEF replicationVars, pathVars, storageVars
<1>4. ASSUME NEW s \in Senders, MRBlockSenderRun(s) PROVE RetainInv'
    BY <1>2, <1>4 DEF MRBlockSenderRun, encodeAndSendBlock, runDirect, runMultiway,
                      SendNext, storageVars
<1>5. ASSUME NEW p \in Channels, NEW d \in BOOLEAN, addMessageToCache(p, d) PROVE RetainInv'
    BY <1>2, <1>5 DEF addMessageToCache, storageVars
<1>6. CASE genBlockFromQueue
    <2>1. /\ mode = "v2" /\ inserting = <<>> /\ UNCHANGED <<mode, size, low, holding, lock>>
          /\ UNCHANGED storageVars \/ BeginInsert(low)
        BY <1>6 DEF genBlockFromQueue, Idle
    <2>2. CASE UNCHANGED storageVars BY <1>2, <2>1, <2>2 DEF storageVars
    <2>3. CASE BeginInsert(low)
        <3>1. low = Len(subscriber) BY <2>1 DEF RetainInv, OneInserter
        <3>2. /\ inserting' = <<Len(subscriber), "emplace">>
              /\ subscriber' \in Seq(Int) /\ Len(subscriber') = Len(subscriber) + 1
              /\ InsertSteps' /\ StoredFirst' /\ Retained'
            BY <2>3, <3>1, BeginsNext DEF RetainInv
        <3>3. OneInserter' BY <1>0, <2>1, <3>1, <3>2 DEF OneInserter
        <3>4. ThreadsBehind' BY <2>1 DEF ThreadsBehind
        <3> QED BY <3>2, <3>3, <3>4 DEF RetainInv
    <2> QED BY <2>1, <2>2, <2>3
<1>7. ASSUME NEW c \in Channels, getBlockFromRawString(c) PROVE RetainInv'
    <2>1. /\ c \in Relays /\ holding[c] = None
          /\ got' = [got EXCEPT ![c] = @ + 1] /\ holding' = [holding EXCEPT ![c] = got[c]]
          /\ UNCHANGED <<mode, size, low, lock, subscriber, newest, stored, inserting>>
        BY <1>7 DEF getBlockFromRawString, storageVars
    <2>2. mode # "v2" BY <2>1 DEF Relays
    <2>3. Relays' = Relays BY <1>1, <2>1
    <2>4. /\ got \in [Relays -> Nat] /\ holding \in [Relays -> Int] /\ None = -1
          /\ \A x \in Relays :
                \/ holding[x] = None /\ got[x] <= Len(subscriber)
                \/ holding[x] = got[x] - 1 /\ got[x] - 1 <= Len(subscriber) /\ got[x] > 0
        BY <2>2 DEF RetainInv, ThreadsBehind, None
    <2>5. got' \in [Relays -> Nat] /\ holding' \in [Relays -> Int] BY <2>1, <2>4
    <2>6. ASSUME NEW x \in Relays
          PROVE  \/ holding'[x] = None /\ got'[x] <= Len(subscriber)
                 \/ holding'[x] = got'[x] - 1 /\ got'[x] - 1 <= Len(subscriber) /\ got'[x] > 0
        <3>1. CASE x = c
            <4>1. got'[x] = got[x] + 1 /\ holding'[x] = got[x] /\ got[x] \in Nat /\ got[x] <= Len(subscriber)
                BY <2>1, <2>4, <3>1
            <4> QED BY <1>0, <4>1
        <3>2. CASE x # c
            <4>1. got'[x] = got[x] /\ holding'[x] = holding[x] BY <2>1, <2>4, <3>2
            <4> QED BY <2>4, <4>1
        <3> QED BY <3>1, <3>2
    <2>7. ThreadsBehind' BY <2>1, <2>3, <2>5, <2>6 DEF ThreadsBehind, None
    <2> QED BY <2>1, <2>7 DEF RetainInv, InsertSteps, OneInserter, StoredFirst, Retained
<1>8. ASSUME NEW c \in Channels, validateFunc(c) PROVE RetainInv'
    <2>1. /\ c \in Relays /\ holding[c] # None /\ ~lock
          /\ got' = got /\ holding' = [holding EXCEPT ![c] = None]
          /\ UNCHANGED <<mode, size, low>>
        BY <1>8 DEF validateFunc
    <2>2. mode # "v2" BY <2>1 DEF Relays
    <2>3. Relays' = Relays BY <1>1, <2>1
    <2>4. /\ got \in [Relays -> Nat] /\ holding \in [Relays -> Int] /\ None = -1
          /\ \A x \in Relays :
                \/ holding[x] = None /\ got[x] <= Len(subscriber)
                \/ holding[x] = got[x] - 1 /\ got[x] - 1 <= Len(subscriber) /\ got[x] > 0
        BY <2>2 DEF RetainInv, ThreadsBehind, None
    <2>5. inserting = <<>> /\ newest = Len(subscriber) - 1
        <3>1. inserting = <<>> BY <2>1, <2>2, Zenon DEF RetainInv, OneInserter
        <3> QED BY <1>0, <3>1 DEF RetainInv, InsertSteps
    <2>6. got[c] \in Nat /\ holding[c] = got[c] - 1 /\ holding[c] <= Len(subscriber)
        BY <2>1, <2>4
    <2>7. holding' \in [Relays -> Int] BY <2>1, <2>4
    <2>8. \A x \in Relays : (x = c => holding'[x] = None) /\ (x # c => holding'[x] = holding[x])
        BY <2>1, <2>4
    <2>9. CASE holding[c] <= newest
        <3>1. UNCHANGED <<subscriber, newest, stored, inserting, lock>>
            BY <1>8, <2>5, <2>6, <2>9, <1>0 DEF validateFunc, storageVars
        <3>2. got[c] <= Len(subscriber) BY <1>0, <2>5, <2>6, <2>9
        <3>3. ThreadsBehind' BY <2>1, <2>3, <2>4, <2>7, <2>8, <3>1, <3>2 DEF ThreadsBehind, None
        <3> QED BY <2>1, <3>1, <3>3 DEF RetainInv, InsertSteps, OneInserter, StoredFirst, Retained
    <2>10. CASE holding[c] > newest
        <3>1. holding[c] = Len(subscriber) BY <1>0, <2>5, <2>6, <2>10
        <3>2. BeginInsert(Len(subscriber)) /\ lock' = TRUE
            BY <1>0, <1>8, <2>5, <2>6, <2>10, <3>1 DEF validateFunc
        <3>3. /\ inserting' = <<Len(subscriber), "emplace">>
              /\ subscriber' \in Seq(Int) /\ Len(subscriber') = Len(subscriber) + 1
              /\ InsertSteps' /\ StoredFirst' /\ Retained'
            BY <3>2, BeginsNext DEF RetainInv
        <3>4. OneInserter' BY <2>1, <2>2, <3>2, <3>3 DEF OneInserter
        <3>5. ASSUME NEW x \in Relays
              PROVE  \/ holding'[x] = None /\ got'[x] <= Len(subscriber')
                     \/ holding'[x] = got'[x] - 1 /\ got'[x] - 1 <= Len(subscriber') /\ got'[x] > 0
            BY <1>0, <2>1, <2>4, <2>6, <2>8, <3>1, <3>3
        <3>6. ThreadsBehind' BY <2>1, <2>3, <2>4, <2>7, <3>5 DEF ThreadsBehind, None
        <3> QED BY <3>3, <3>4, <3>6 DEF RetainInv
    <2> QED BY <1>0, <2>5, <2>6, <2>9, <2>10
<1>9. CASE Insert
    <2>1. /\ insertBlockAndNotify /\ lock' = (lock /\ inserting' # <<>>)
          /\ low' = IF mode = "v2" /\ inserting' = <<>> THEN low + 1 ELSE low
          /\ UNCHANGED <<mode, size, got, holding>>
        BY <1>9 DEF Insert
    <2>2. /\ inserting # <<>> /\ subscriber' = subscriber
          /\ InsertSteps' /\ StoredFirst' /\ Retained'
        BY <2>1, InsertsOn DEF RetainInv
    <2>3. Relays' = Relays BY <1>1, <2>1
    <2>4. ThreadsBehind' BY <2>1, <2>2, <2>3 DEF RetainInv, ThreadsBehind, None
    <2>5. OneInserter'
        <3>1. mode' = mode BY <2>1
        <3>2. mode = "v2" => low' = IF inserting' = <<>> THEN Len(subscriber) ELSE Len(subscriber) - 1
            BY <1>0, <2>1, <2>2 DEF RetainInv, OneInserter
        <3>3. mode # "v2" => (lock' <=> inserting' # <<>>)
            BY <2>1, <2>2, Zenon DEF RetainInv, OneInserter
        <3> QED BY <2>2, <3>1, <3>2, <3>3, Zenon DEF OneInserter
    <2> QED BY <1>0, <2>2, <2>4, <2>5 DEF RetainInv
<1>10. CASE Read
    BY <1>2, <1>10 DEF Read, waitForBlock, getBlock, pathVars
<1> QED BY <1>3, <1>4, <1>5, <1>6, <1>7, <1>8, <1>9, <1>10 DEF ReplicationNext

\* insertBlockAndNotify gets the blocks of a group one after the other, none twice
\* and none left out, although several threads of the relays receive the same
\* blocks; and of the last MaxSize blocks that the futex has announced none is
\* missing.  For any sizes of the groups, faulty nodes, size of the ring and
\* number of blocks.
THEOREM BlocksRetained == ReplicationSpec => []Retained
<1>1. ReplicationInit => RetainInv BY RetainInit
<1>2. RetainInv /\ [ReplicationNext]_replicationVars => RetainInv' BY RetainStep, MaxSizeAssumption
<1>3. RetainInv => Retained BY DEF RetainInv
<1> QED BY <1>1, <1>2, <1>3, PTL DEF ReplicationSpec

(***************************************************************************)
(* How the fragments of a block are shared out (FragmentUtil), for groups  *)
(* of any size.  LCM's loop finds a divisor of both sizes, so the total is *)
(* a multiple of both; the pieces cut it at the multiples of both shares;  *)
(* and what faulty nodes carry is at most their shares.                    *)
(***************************************************************************)

\* a set of naturals has a least one
LEMMA LeastNatural ==
    ASSUME NEW T, T \subseteq Nat, T # {}
    PROVE  \E n \in T : \A m \in T : n <= m
<1> DEFINE Smaller == OpToRel(<, Nat)
<1>1. IsWellFoundedOn(Smaller, Nat) BY NatLessThanWellFounded
<1>2. \A n, m \in Nat : <<n, m>> \in Smaller <=> n < m BY DEF OpToRel
<1> HIDE DEF Smaller
<1>3. PICK n \in T : \A m \in T : ~ (<<m, n>> \in Smaller) BY <1>1, WFMin
<1>4. ASSUME NEW m \in T PROVE n <= m
    <2>1. n \in Nat /\ m \in Nat /\ ~ (<<m, n>> \in Smaller) BY <1>3
    <2> QED BY <1>2, <2>1
<1> QED BY <1>4

SizesUpTo == (1 .. MaxNodes) \X (1 .. MaxNodes)

HcfStep(f, s) ==
    IF s[1] = s[2] THEN s[1]
    ELSE IF s[1] > s[2] THEN f[<<s[1] - s[2], s[2]>>] ELSE f[<<s[1], s[2] - s[1]>>]

IsHcf(f) == f = [s \in SizesUpTo |-> HcfStep(f, s)]

\* the recursive function as the value its definition chooses
LEMMA HcfRead == Hcf = CHOOSE f : IsHcf(f)
BY Zenon DEF Hcf, IsHcf, SizesUpTo, HcfStep

\* the pairs that the subtraction reaches from a pair are smaller
LEMMA HcfSmaller ==
    ASSUME MaxNodes \in Nat, NEW s \in SizesUpTo
    PROVE  /\ s[1] > s[2] => /\ <<s[1] - s[2], s[2]>> \in SizesUpTo
                             /\ (s[1] - s[2]) + s[2] < s[1] + s[2]
           /\ s[1] < s[2] => /\ <<s[1], s[2] - s[1]>> \in SizesUpTo
                             /\ s[1] + (s[2] - s[1]) < s[1] + s[2]
           /\ s[1] \in Nat \ {0} /\ s[2] \in Nat \ {0}
BY DEF SizesUpTo

\* pairs with smaller sums, as sums of naturals
LEMMA PairSums ==
    ASSUME MaxNodes \in Nat, NEW s \in SizesUpTo
    PROVE  /\ s[1] \in Nat \ {0} /\ s[2] \in Nat \ {0}
           /\ s[1] + s[2] \in Nat \ {0}
           /\ s[1] + s[2] <= MaxNodes + MaxNodes
BY DEF SizesUpTo

Within(k) == {s \in SizesUpTo : s[1] + s[2] <= k}
IsHcfWithin(f, k) == f = [s \in Within(k) |-> HcfStep(f, s)]

\* there is such a function: on ever larger sums, by a least counterexample
LEMMA HcfExists == ASSUME MaxNodes \in Nat PROVE \E f : IsHcf(f)
<1> DEFINE Missing == {k \in Nat : ~ \E f : IsHcfWithin(f, k)}
<1>1. Missing = {}
    <2> SUFFICES ASSUME Missing # {} PROVE FALSE OBVIOUS
    <2>1. PICK k \in Missing : \A l \in Missing : k <= l
        <3>1. Missing \subseteq Nat OBVIOUS
        <3> HIDE DEF Missing
        <3> QED BY <3>1, LeastNatural
    <2>2. CASE k = 0
        <3>1. Within(0) = {} BY PairSums DEF Within
        <3>2. IsHcfWithin([s \in Within(0) |-> 0], 0) BY <3>1 DEF IsHcfWithin
        <3> QED BY <2>1, <2>2, <3>2
    <2>3. CASE k # 0
        <3>1. k - 1 \in Nat /\ k - 1 \notin Missing BY <2>1, <2>3
        <3>2. PICK f : IsHcfWithin(f, k - 1) BY <3>1
        <3> DEFINE g == [s \in Within(k) |-> HcfStep(f, s)]
        <3>3. ASSUME NEW s \in Within(k - 1) PROVE s \in Within(k) /\ g[s] = f[s]
            <4>1. s \in Within(k) BY <2>1, <3>1, PairSums DEF Within
            <4> QED BY <3>2, <4>1 DEF IsHcfWithin
        <3>4. ASSUME NEW s \in Within(k) PROVE g[s] = HcfStep(g, s)
            <4>1. s \in SizesUpTo /\ s[1] + s[2] <= k BY DEF Within
            <4>2. g[s] = HcfStep(f, s) OBVIOUS
            <4> HIDE DEF g
            <4>3. CASE s[1] = s[2] BY <4>2, <4>3 DEF HcfStep
            <4>4. CASE s[1] > s[2]
                <5>1. PICK p : p = <<s[1] - s[2], s[2]>> OBVIOUS
                <5>2. p \in SizesUpTo /\ p[1] + p[2] < s[1] + s[2]
                    BY <4>1, <4>4, <5>1, HcfSmaller
                <5>a. p[1] + p[2] <= k - 1 BY <2>1, <4>1, <5>2, PairSums
                <5>b. p \in Within(k - 1) BY <5>2, <5>a DEF Within
                <5>3. f[p] = g[p] BY <3>3, <5>b
                <5>4. s[1] # s[2] BY <4>1, <4>4, PairSums
                <5> QED BY <4>2, <4>4, <5>1, <5>3, <5>4 DEF HcfStep
            <4>5. CASE s[1] < s[2]
                <5>1. PICK p : p = <<s[1], s[2] - s[1]>> OBVIOUS
                <5>2. p \in SizesUpTo /\ p[1] + p[2] < s[1] + s[2]
                    BY <4>1, <4>5, <5>1, HcfSmaller
                <5>a. p[1] + p[2] <= k - 1 BY <2>1, <4>1, <5>2, PairSums
                <5>b. p \in Within(k - 1) BY <5>2, <5>a DEF Within
                <5>3. f[p] = g[p] BY <3>3, <5>b
                <5>4. s[1] # s[2] /\ ~ (s[1] > s[2]) BY <4>1, <4>5, PairSums
                <5> QED BY <4>2, <5>1, <5>3, <5>4 DEF HcfStep
            <4>6. s[1] \in Nat /\ s[2] \in Nat BY <4>1, PairSums
            <4> QED BY <4>3, <4>4, <4>5, <4>6
        <3>5. g = [s \in Within(k) |-> g[s]] OBVIOUS
        <3> HIDE DEF g
        <3>6. IsHcfWithin(g, k) BY <3>4, <3>5 DEF IsHcfWithin
        <3> QED BY <2>1, <3>6
    <2> QED BY <2>2, <2>3
<1>2. MaxNodes + MaxNodes \in Nat OBVIOUS
<1>a. PICK f : IsHcfWithin(f, MaxNodes + MaxNodes) BY <1>1, <1>2
<1>3. Within(MaxNodes + MaxNodes) = SizesUpTo BY PairSums DEF Within
<1> QED BY <1>a, <1>3 DEF IsHcfWithin, IsHcf

\* so the chosen one meets the equation that defines it
LEMMA HcfEquation ==
    ASSUME MaxNodes \in Nat
    PROVE  \A s \in SizesUpTo : Hcf[s] = HcfStep(Hcf, s)
<1> DEFINE f == CHOOSE g : IsHcf(g)
<1>1. IsHcf(f) BY HcfExists
<1>2. Hcf = f BY HcfRead
<1> HIDE DEF f
<1>3. \A s \in SizesUpTo : f[s] = HcfStep(f, s) BY <1>1 DEF IsHcf
<1> QED BY <1>2, <1>3

\* it divides both sizes
Divides(s) ==
    /\ Hcf[s] \in Nat \ {0}
    /\ \E a, b \in Nat \ {0} : s[1] = a * Hcf[s] /\ s[2] = b * Hcf[s]

LEMMA Adds == ASSUME NEW a \in Nat, NEW b \in Nat, NEW c \in Nat PROVE a * c + b * c = (a + b) * c
OBVIOUS

\* what the loop ends with divides both sizes
LEMMA HcfDivides == ASSUME MaxNodes \in Nat PROVE \A s \in SizesUpTo : Divides(s)
<1> DEFINE Wrong == {s \in SizesUpTo : ~ Divides(s)}
           Sums == {s[1] + s[2] : s \in Wrong}
<1> SUFFICES ASSUME Wrong # {} PROVE FALSE OBVIOUS
<1>1. PICK k \in Sums : \A l \in Sums : k <= l
    <2>1. Sums \subseteq Nat /\ Sums # {} BY PairSums
    <2> HIDE DEF Sums
    <2> QED BY <2>1, LeastNatural
<1>2. PICK s \in Wrong : k = s[1] + s[2] BY <1>1
<1>3. PICK m, n \in Nat \ {0} : s = <<m, n>> BY HcfSmaller DEF SizesUpTo
<1>4. ASSUME NEW p \in SizesUpTo, p[1] + p[2] < m + n PROVE Divides(p)
    <2>1. PICK l : l = p[1] + p[2] OBVIOUS
    <2>2. l \in Nat /\ l < k BY <1>2, <1>3, <1>4, <2>1, PairSums
    <2>3. l \notin Sums
        <3>1. k \in Nat BY <1>2, <1>3
        <3>2. l \in Sums => k <= l
            <4> HIDE DEF Sums
            <4> QED BY <1>1
        <3> QED BY <2>2, <3>1, <3>2
    <2> QED BY <2>1, <2>3
<1>5. PICK h : h = Hcf[s] OBVIOUS
<1>6. h = HcfStep(Hcf, s) BY <1>2, <1>5, HcfEquation
<1>7. CASE m = n
    <2>1. h = m BY <1>3, <1>6, <1>7 DEF HcfStep
    <2>2. m = 1 * h /\ n = 1 * h /\ 1 \in Nat \ {0} BY <1>7, <2>1
    <2>3. Divides(s) BY <1>3, <1>5, <2>1, <2>2 DEF Divides
    <2> QED BY <1>2, <2>3
<1>8. CASE m > n
    <2>1. PICK p : p = <<m - n, n>> OBVIOUS
    <2>2. p \in SizesUpTo /\ p[1] + p[2] < m + n BY <1>2, <1>3, <1>8, <2>1, HcfSmaller
    <2>3. h = Hcf[p] BY <1>3, <1>6, <1>8, <2>1 DEF HcfStep
    <2>4. Divides(p) BY <1>4, <2>2
    <2>5. h \in Nat \ {0} BY <2>3, <2>4 DEF Divides
    <2>6. PICK a, b \in Nat \ {0} : m - n = a * h /\ n = b * h BY <2>1, <2>3, <2>4 DEF Divides
    <2>7. m = (a + b) * h BY <2>5, <2>6, Adds
    <2>8. a + b \in Nat \ {0} OBVIOUS
    <2> QED BY <1>2, <1>3, <1>5, <2>5, <2>6, <2>7, <2>8 DEF Divides
<1>9. CASE m < n
    <2>1. PICK p : p = <<m, n - m>> OBVIOUS
    <2>2. p \in SizesUpTo /\ p[1] + p[2] < m + n BY <1>2, <1>3, <1>9, <2>1, HcfSmaller
    <2>3. h = Hcf[p] BY <1>3, <1>6, <1>9, <2>1 DEF HcfStep
    <2>4. Divides(p) BY <1>4, <2>2
    <2>5. h \in Nat \ {0} BY <2>3, <2>4 DEF Divides
    <2>6. PICK a, b \in Nat \ {0} : m = a * h /\ n - m = b * h BY <2>1, <2>3, <2>4 DEF Divides
    <2>7. n = (a + b) * h BY <2>5, <2>6, Adds
    <2>8. a + b \in Nat \ {0} OBVIOUS
    <2> QED BY <1>2, <1>3, <1>5, <2>5, <2>6, <2>7, <2>8 DEF Divides
<1> QED BY <1>7, <1>8, <1>9

\* The total, and the shares that a sender and a receiver have of it.
Shares(m, n, total, loc, rem) ==
    /\ total \in Nat \ {0} /\ loc \in Nat \ {0} /\ rem \in Nat \ {0}
    /\ total = loc * m /\ total = rem * n
    /\ LCM(m, n) = total /\ localFPS(m, n) = loc /\ remoteFPS(m, n) = rem

\* facts about products and quotients
LEMMA DivExact == ASSUME NEW k \in Nat, NEW c \in Nat \ {0} PROVE (k * c) \div c = k
OBVIOUS
LEMMA Positive == ASSUME NEW a \in Nat \ {0}, NEW b \in Nat \ {0} PROVE a * b \in Nat \ {0}
OBVIOUS

\* the total is a multiple of both sizes, and both shares are positive
LEMMA SharesExist ==
    ASSUME MaxNodes \in Nat, NEW m \in 1 .. MaxNodes, NEW n \in 1 .. MaxNodes
    PROVE  \E total, loc, rem : Shares(m, n, total, loc, rem)
<1>1. PICK s : s = <<m, n>> OBVIOUS
<1>2. s \in SizesUpTo BY <1>1 DEF SizesUpTo
<1>3. Divides(s) BY <1>2, HcfDivides
<1>4. PICK h \in Nat \ {0} : h = Hcf[<<m, n>>] BY <1>1, <1>3 DEF Divides
<1>5. PICK a, b \in Nat \ {0} : m = a * h /\ n = b * h BY <1>1, <1>3, <1>4 DEF Divides
<1>6. PICK total : total = b * m OBVIOUS
<1>7. total \in Nat \ {0} /\ m \in Nat \ {0} /\ n \in Nat \ {0} BY <1>6, Positive
<1>8. total = a * n
    <2>1. b * (a * h) = a * (b * h) OBVIOUS
    <2> QED BY <1>5, <1>6, <2>1
<1>9. m * n = total * h
    <2>1. m * (b * h) = (b * m) * h OBVIOUS
    <2> QED BY <1>5, <1>6, <2>1
<1>10. LCM(m, n) = total BY <1>4, <1>7, <1>9, DivExact DEF LCM
<1>11. localFPS(m, n) = b BY <1>6, <1>7, <1>10, DivExact DEF localFPS
<1>12. remoteFPS(m, n) = a BY <1>7, <1>8, <1>10, DivExact DEF remoteFPS
<1> QED BY <1>6, <1>7, <1>8, <1>10, <1>11, <1>12 DEF Shares

\* where the share of sender i is cut, and the piece that ends at a cut
Cuts(i, loc, rem) ==
    {k + 1 : k \in {j \in (loc * i) .. (loc * (i + 1) - 1) : j % rem = rem - 1}}
        \cup {loc * (i + 1)}
CutsBefore(e, i, loc, rem) == {c \in Cuts(i, loc, rem) \cup {loc * i} : c < e}
CutBefore(e, i, loc, rem) ==
    CHOOSE c \in CutsBefore(e, i, loc, rem) : \A d \in CutsBefore(e, i, loc, rem) : d <= c
PieceTo(e, i, loc, rem) ==
    [start |-> CutBefore(e, i, loc, rem), end |-> e, localId |-> i,
     remoteId |-> (e - 1) \div rem]

\* the pieces of one sender
LEMMA SenderPieces ==
    ASSUME NEW m, NEW n, NEW i, NEW total, NEW loc, NEW rem, Shares(m, n, total, loc, rem)
    PROVE  getSenderConfig(m, n, i) = {PieceTo(e, i, loc, rem) : e \in Cuts(i, loc, rem)}
<1>1. localFPS(m, n) = loc /\ remoteFPS(m, n) = rem BY DEF Shares
<1> QED BY <1>1 DEF getSenderConfig, PieceTo, Cuts, CutBefore, CutsBefore

LEMMA Multiples ==
    ASSUME NEW i \in Nat, NEW loc \in Nat \ {0}
    PROVE  loc * i \in Nat /\ loc * (i + 1) = loc * i + loc
OBVIOUS

\* the cuts of a sender are in its share
LEMMA CutsInShare ==
    ASSUME NEW i \in Nat, NEW loc \in Nat \ {0}, NEW rem \in Nat \ {0}, NEW c \in Cuts(i, loc, rem)
    PROVE  c \in Nat /\ loc * i < c /\ c <= loc * (i + 1)
<1>1. PICK first \in Nat : first = loc * i BY Multiples
<1>2. PICK stop \in Nat : stop = loc * (i + 1) /\ stop = first + loc BY <1>1, Multiples
<1>3. Cuts(i, loc, rem) = {k + 1 : k \in {j \in first .. (stop - 1) : j % rem = rem - 1}} \cup {stop}
    BY <1>1, <1>2 DEF Cuts
<1> QED BY <1>1, <1>2, <1>3

\* a piece of sender i: a part of its share without a cut inside
IsPiece(p, i, loc, rem) ==
    /\ p.localId = i
    /\ p.start \in Nat /\ p.end \in Nat
    /\ loc * i <= p.start /\ p.start < p.end /\ p.end <= loc * (i + 1)
    /\ p.end \in Cuts(i, loc, rem) /\ p.start \in Cuts(i, loc, rem) \cup {loc * i}
    /\ p.remoteId = (p.end - 1) \div rem
    /\ \A c \in Cuts(i, loc, rem) : ~ (p.start < c /\ c < p.end)

\* a piece is not empty and ends at the first cut after its start
LEMMA PieceShape ==
    ASSUME NEW i \in Nat, NEW loc \in Nat \ {0}, NEW rem \in Nat \ {0}, NEW e \in Cuts(i, loc, rem)
    PROVE  IsPiece(PieceTo(e, i, loc, rem), i, loc, rem) /\ PieceTo(e, i, loc, rem).end = e
<1>1. PICK first \in Nat : first = loc * i BY Multiples
<1>2. e \in Nat /\ first < e /\ e <= loc * (i + 1) BY <1>1, CutsInShare
<1> DEFINE B == CutsBefore(e, i, loc, rem)
<1>3. first \in B /\ \A c \in B : c \in Nat /\ first <= c /\ c < e
    <2>1. first \in B BY <1>1, <1>2 DEF CutsBefore
    <2>2. ASSUME NEW c \in B PROVE c \in Nat /\ first <= c /\ c < e
        <3>1. c < e /\ (c = first \/ c \in Cuts(i, loc, rem)) BY <1>1 DEF CutsBefore
        <3> QED BY <1>1, <3>1, CutsInShare
    <2> QED BY <2>1, <2>2
<1> HIDE DEF B
<1> DEFINE T == {e - c : c \in B}
<1>4. PICK t \in T : \A u \in T : t <= u
    <2>1. \A c \in B : e - c \in Nat BY <1>2, <1>3
    <2>2. T \subseteq Nat /\ T # {} BY <1>3, <2>1
    <2> HIDE DEF T
    <2> QED BY <2>2, LeastNatural
<1>5. PICK c \in B : t = e - c BY <1>4
<1>6. ASSUME NEW d \in B PROVE d <= c
    <2>1. t <= e - d BY <1>4
    <2> QED BY <1>2, <1>3, <1>5, <2>1
<1>7. PICK b : b = CutBefore(e, i, loc, rem) OBVIOUS
<1>8. b \in B /\ \A d \in B : d <= b BY <1>6, <1>7 DEF CutBefore, B
<1>9. PICK p : p = PieceTo(e, i, loc, rem) OBVIOUS
<1>10. p.start = b /\ p.end = e /\ p.localId = i /\ p.remoteId = (e - 1) \div rem
    BY <1>7, <1>9 DEF PieceTo
<1>11. ASSUME NEW d \in Cuts(i, loc, rem), b < d, d < e PROVE FALSE
    <2>1. d \in B BY <1>11 DEF B, CutsBefore
    <2> QED BY <1>3, <1>8, <1>11, <2>1
<1>12. b \in Nat /\ first <= b /\ b < e BY <1>3, <1>8
<1>13. b \in Cuts(i, loc, rem) \cup {loc * i} BY <1>8 DEF B, CutsBefore
<1> QED BY <1>1, <1>2, <1>9, <1>10, <1>11, <1>12, <1>13 DEF IsPiece

\* facts about division that the provers need spelled out
LEMMA DivRange ==
    ASSUME NEW k \in Nat, NEW c \in Nat \ {0}
    PROVE  k \div c \in Nat /\ c * (k \div c) <= k /\ k < c * (k \div c) + c
OBVIOUS
LEMMA DivUnique ==
    ASSUME NEW k \in Nat, NEW c \in Nat \ {0}, NEW q \in Nat, c * q <= k, k < c * q + c
    PROVE  k \div c = q
OBVIOUS
LEMMA LastOfShare ==
    ASSUME NEW c \in Nat \ {0}, NEW q \in Nat \ {0}
    PROVE  (c * q - 1) % c = c - 1 /\ c * q - 1 \in Nat
OBVIOUS

\* the fragments of a piece are of one sender and for one receiver
LEMMA FragmentOwners ==
    ASSUME NEW i \in Nat, NEW loc \in Nat \ {0}, NEW rem \in Nat \ {0}, NEW p, IsPiece(p, i, loc, rem),
           NEW x \in Fragments(p)
    PROVE  x \in Nat /\ x \div loc = i /\ x \div rem = p.remoteId
<1>1. PICK s, e \in Nat : s = p.start /\ e = p.end BY DEF IsPiece
<1>2. /\ loc * i <= s /\ s < e /\ e <= loc * (i + 1) /\ p.remoteId = (e - 1) \div rem
      /\ \A c \in Cuts(i, loc, rem) : ~ (s < c /\ c < e)
    BY <1>1 DEF IsPiece
<1>3. x \in s .. (e - 1) BY <1>1 DEF Fragments
<1>4. x \in Nat /\ s <= x /\ x < e BY <1>3
<1>5. x \div loc = i
    <2>1. PICK first \in Nat : first = loc * i /\ loc * (i + 1) = first + loc BY Multiples
    <2>2. loc * i <= x /\ x < loc * i + loc BY <1>2, <1>4, <2>1
    <2> QED BY <1>4, <2>2, DivUnique
<1>6. PICK q \in Nat : q = (e - 1) \div rem /\ rem * q <= e - 1 /\ e - 1 < rem * q + rem
    <2>1. e - 1 \in Nat BY <1>4
    <2> QED BY <2>1, DivRange
<1>7. PICK a \in Nat : a = rem * q BY Multiples
<1>8. a <= x
    <2> SUFFICES ASSUME x < a PROVE FALSE BY <1>4, <1>7
    <2>1. q # 0 BY <1>4, <1>7
    <2>2. (a - 1) % rem = rem - 1 BY <1>7, <2>1, LastOfShare
    <2>3. PICK first, stop \in Nat : first = loc * i /\ stop = loc * (i + 1) BY Multiples
    <2>4. a - 1 \in first .. (stop - 1) BY <1>2, <1>4, <1>6, <1>7, <2>3
    <2>5. (a - 1) + 1 \in Cuts(i, loc, rem) BY <2>2, <2>3, <2>4 DEF Cuts
    <2>6. a \in Cuts(i, loc, rem) BY <2>5
    <2> QED BY <1>2, <1>4, <1>6, <1>7, <2>6
<1>9. x \div rem = q
    <2>1. rem * q <= x /\ x < rem * q + rem BY <1>4, <1>6, <1>7, <1>8
    <2> QED BY <1>4, <2>1, DivUnique
<1> QED BY <1>2, <1>4, <1>5, <1>6, <1>9

\* every fragment of a sender's share is in a piece
LEMMA FragmentInPiece ==
    ASSUME NEW i \in Nat, NEW loc \in Nat \ {0}, NEW rem \in Nat \ {0}, NEW x \in Nat, x \div loc = i
    PROVE  \E e \in Cuts(i, loc, rem) : x \in Fragments(PieceTo(e, i, loc, rem))
<1>1. PICK first, stop \in Nat : first = loc * i /\ stop = loc * (i + 1) /\ stop = first + loc
    BY Multiples
<1>2. first <= x /\ x < stop BY <1>1, DivRange
<1> DEFINE T == {c \in Cuts(i, loc, rem) : c > x}
<1>3. PICK e \in T : \A u \in T : e <= u
    <2>1. stop \in Cuts(i, loc, rem) BY <1>1 DEF Cuts
    <2>2. T \subseteq Nat /\ T # {} BY <1>2, <2>1, CutsInShare
    <2> HIDE DEF T
    <2> QED BY <2>2, LeastNatural
<1>4. e \in Cuts(i, loc, rem) /\ e > x /\ e \in Nat BY <1>3, CutsInShare
<1>5. PICK p : p = PieceTo(e, i, loc, rem) OBVIOUS
<1>6. IsPiece(p, i, loc, rem) /\ p.end = e BY <1>4, <1>5, PieceShape
<1>7. PICK s \in Nat : s = p.start /\ s < e /\ s \in Cuts(i, loc, rem) \cup {first}
    BY <1>1, <1>6 DEF IsPiece
<1>8. s <= x
    <2> SUFFICES ASSUME s > x PROVE FALSE BY <1>7
    <2>1. s \in T BY <1>1, <1>2, <1>7
    <2>2. e <= s
        <3> HIDE DEF T
        <3> QED BY <1>3, <2>1
    <2> QED BY <1>4, <1>7, <2>2
<1>9. x \in s .. (e - 1) BY <1>4, <1>7, <1>8
<1>10. x \in Fragments(p) BY <1>6, <1>7, <1>9 DEF Fragments
<1> QED BY <1>4, <1>5, <1>10

\* and in one only
LEMMA FragmentOnce ==
    ASSUME NEW i \in Nat, NEW loc \in Nat \ {0}, NEW rem \in Nat \ {0}, NEW x,
           NEW e \in Cuts(i, loc, rem), x \in Fragments(PieceTo(e, i, loc, rem)),
           NEW f \in Cuts(i, loc, rem), x \in Fragments(PieceTo(f, i, loc, rem))
    PROVE  e = f
<1>1. PICK p, q : p = PieceTo(e, i, loc, rem) /\ q = PieceTo(f, i, loc, rem) OBVIOUS
<1>2. IsPiece(p, i, loc, rem) /\ p.end = e /\ IsPiece(q, i, loc, rem) /\ q.end = f
    BY <1>1, PieceShape
<1>3. PICK s, t \in Nat : s = p.start /\ t = q.start BY <1>2 DEF IsPiece
<1>4. e \in Nat /\ f \in Nat BY CutsInShare
<1>5. x \in s .. (e - 1) /\ x \in t .. (f - 1) BY <1>1, <1>2, <1>3 DEF Fragments
<1>6. ~ (s < f /\ f < e) /\ ~ (t < e /\ e < f) BY <1>2, <1>3 DEF IsPiece
<1> QED BY <1>3, <1>4, <1>5, <1>6

\* all of it, for groups of m senders and n receivers
LEMMA Sharing ==
    ASSUME NEW m \in Nat \ {0}, NEW n \in Nat \ {0}, NEW total, NEW loc, NEW rem,
           Shares(m, n, total, loc, rem), NEW pieces, pieces = GenerateAllConfig(m, n)
    PROVE  /\ \A p \in pieces :
                /\ p.localId \in 0 .. (m - 1) /\ p.remoteId \in 0 .. (n - 1)
                /\ \A x \in Fragments(p) :
                      x \in 0 .. (total - 1) /\ x \div loc = p.localId /\ x \div rem = p.remoteId
           /\ \A x \in 0 .. (total - 1) : \E p \in pieces : x \in Fragments(p)
           /\ \A p, q \in pieces : \A x : x \in Fragments(p) /\ x \in Fragments(q) => p = q
<1>1. total \in Nat \ {0} /\ loc \in Nat \ {0} /\ rem \in Nat \ {0} /\ total = loc * m /\ total = rem * n
    BY DEF Shares
<1>2. ASSUME NEW p \in pieces
      PROVE  \E i \in 0 .. (m - 1) : \E e \in Cuts(i, loc, rem) : p = PieceTo(e, i, loc, rem)
    BY SenderPieces DEF GenerateAllConfig
<1>3. ASSUME NEW i \in 0 .. (m - 1), NEW e \in Cuts(i, loc, rem) PROVE PieceTo(e, i, loc, rem) \in pieces
    BY SenderPieces DEF GenerateAllConfig
<1>4. ASSUME NEW x \in Nat, x < total PROVE x \div loc \in 0 .. (m - 1) /\ x \div rem \in 0 .. (n - 1)
    <2>1. ASSUME NEW c \in Nat \ {0}, NEW k \in Nat, total = c * k PROVE x \div c \in 0 .. (k - 1)
        <3>1. PICK q \in Nat : q = x \div c /\ c * q <= x BY DivRange
        <3>2. q < k
            <4> SUFFICES ASSUME k <= q PROVE FALSE BY <3>1
            <4>1. c * k <= c * q BY <3>1
            <4>2. c * k \in Nat /\ c * q \in Nat BY <3>1
            <4> QED BY <1>1, <1>4, <2>1, <3>1, <4>1, <4>2
        <3> QED BY <3>1, <3>2
    <2> QED BY <1>1, <2>1
<1>5. ASSUME NEW p \in pieces, NEW x \in Fragments(p)
      PROVE  x \in 0 .. (total - 1) /\ x \div loc = p.localId /\ x \div rem = p.remoteId
    <2>1. PICK i \in 0 .. (m - 1) : \E e \in Cuts(i, loc, rem) : p = PieceTo(e, i, loc, rem) BY <1>2
    <2>2. PICK e \in Cuts(i, loc, rem) : p = PieceTo(e, i, loc, rem) BY <2>1
    <2>3. IsPiece(p, i, loc, rem) BY <1>1, <2>2, PieceShape
    <2>4. x \in Nat /\ x \div loc = i /\ x \div rem = p.remoteId BY <1>1, <2>3, FragmentOwners
    <2>5. x < total
        <3>1. PICK stop \in Nat : stop = loc * (i + 1) BY <1>1, Multiples
        <3>2. x < stop
            <4>1. PICK s, f \in Nat : s = p.start /\ f = p.end /\ f <= stop BY <2>3, <3>1 DEF IsPiece
            <4>2. x \in s .. (f - 1) BY <4>1 DEF Fragments
            <4> QED BY <3>1, <4>1, <4>2
        <3>3. stop <= total
            <4>1. i + 1 <= m /\ i + 1 \in Nat OBVIOUS
            <4>2. loc * (i + 1) <= loc * m BY <1>1, <4>1
            <4> QED BY <1>1, <3>1, <4>2
        <3> QED BY <1>1, <2>4, <3>1, <3>2, <3>3
    <2>6. p.localId = i BY <2>3 DEF IsPiece
    <2> QED BY <1>1, <2>4, <2>5, <2>6
<1>6. ASSUME NEW p \in pieces PROVE p.localId \in 0 .. (m - 1) /\ p.remoteId \in 0 .. (n - 1)
    <2>1. PICK i \in 0 .. (m - 1) : \E e \in Cuts(i, loc, rem) : p = PieceTo(e, i, loc, rem) BY <1>2
    <2>2. PICK e \in Cuts(i, loc, rem) : p = PieceTo(e, i, loc, rem) BY <2>1
    <2>3. IsPiece(p, i, loc, rem) BY <1>1, <2>2, PieceShape
    <2>4. p.start \in Nat /\ p.end \in Nat /\ p.start < p.end BY <2>3 DEF IsPiece
    <2>5. p.start \in Fragments(p) BY <2>4 DEF Fragments
    <2>6. PICK x : x = p.start OBVIOUS
    <2>7. x \in 0 .. (total - 1) /\ x \div loc = p.localId /\ x \div rem = p.remoteId
        BY <1>5, <2>5, <2>6
    <2>8. x \in Nat /\ x < total BY <1>1, <2>7
    <2> QED BY <1>4, <2>7, <2>8
<1>7. ASSUME NEW x \in 0 .. (total - 1) PROVE \E p \in pieces : x \in Fragments(p)
    <2>1. x \in Nat /\ x < total BY <1>1
    <2>2. PICK i \in 0 .. (m - 1) : i = x \div loc BY <1>4, <2>1
    <2>3. PICK e \in Cuts(i, loc, rem) : x \in Fragments(PieceTo(e, i, loc, rem))
        BY <1>1, <2>1, <2>2, FragmentInPiece
    <2> QED BY <1>3, <2>3
<1>8. ASSUME NEW p \in pieces, NEW q \in pieces, NEW x, x \in Fragments(p), x \in Fragments(q)
      PROVE  p = q
    <2>1. PICK i \in 0 .. (m - 1) : \E e \in Cuts(i, loc, rem) : p = PieceTo(e, i, loc, rem) BY <1>2
    <2>2. PICK e \in Cuts(i, loc, rem) : p = PieceTo(e, i, loc, rem) BY <2>1
    <2>3. PICK j \in 0 .. (m - 1) : \E f \in Cuts(j, loc, rem) : q = PieceTo(f, j, loc, rem) BY <1>2
    <2>4. PICK f \in Cuts(j, loc, rem) : q = PieceTo(f, j, loc, rem) BY <2>3
    <2>5. p.localId = i /\ q.localId = j BY <2>2, <2>4 DEF PieceTo
    <2>6. i = j BY <1>5, <1>8, <2>5
    <2>7. e = f BY <1>1, <1>8, <2>2, <2>4, <2>6, FragmentOnce
    <2> QED BY <2>2, <2>4, <2>6, <2>7
<1> QED BY <1>5, <1>6, <1>7, <1>8

\* as many fragments at most are of a set of nodes as the shares of its nodes hold
LEMMA FewCarried ==
    ASSUME NEW c \in Nat \ {0}, NEW t \in Nat, NEW S, IsFiniteSet(S),
           NEW X, X = {x \in 0 .. (t - 1) : x \div c \in S}
    PROVE  IsFiniteSet(X) /\ Cardinality(X) <= Cardinality(S) * c
<1>1. PICK Y : Y = S \X (0 .. (c - 1)) OBVIOUS
<1>2. PICK f : f = [x \in X |-> <<x \div c, x % c>>] OBVIOUS
<1>3. ASSUME NEW x \in X PROVE x \in Nat /\ x \div c \in S /\ x % c \in 0 .. (c - 1) /\ f[x] = <<x \div c, x % c>>
    <2>1. x \in Nat /\ x \div c \in S OBVIOUS
    <2>2. x % c \in 0 .. (c - 1) BY <2>1
    <2>3. f[x] = <<x \div c, x % c>> BY <1>2
    <2> QED BY <2>1, <2>2, <2>3
<1>4. f \in [X -> Y] BY <1>1, <1>2, <1>3
<1>5. ASSUME NEW x \in X, NEW y \in X, f[x] = f[y] PROVE x = y
    <2>1. x \div c = y \div c /\ x % c = y % c BY <1>3, <1>5
    <2>2. ASSUME NEW k \in Nat PROVE k = c * (k \div c) + (k % c) OBVIOUS
    <2>3. x \in Nat /\ y \in Nat BY <1>3
    <2>4. x = c * (x \div c) + (x % c) BY <2>2, <2>3
    <2>5. y = c * (y \div c) + (y % c) BY <2>2, <2>3
    <2> QED BY <2>1, <2>4, <2>5
<1>6. f \in Injection(X, Y) BY <1>4, <1>5 DEF Injection, IsInjective
<1>7. IsFiniteSet(0 .. (c - 1)) /\ Cardinality(0 .. (c - 1)) = c
    <2>1. c - 1 \in Int /\ ~(0 > c - 1) /\ (c - 1) - 0 + 1 = c OBVIOUS
    <2> QED BY <2>1, FS_Interval
<1>8. IsFiniteSet(Y) /\ Cardinality(Y) = Cardinality(S) * c BY <1>1, <1>7, FS_Product
<1> QED BY <1>6, <1>8, FS_Injection

\* the shares of the receiver r
LEMMA ShareOfReceiver ==
    ASSUME NEW m \in Nat \ {0}, NEW n \in Nat \ {0}, NEW total, NEW loc, NEW rem,
           Shares(m, n, total, loc, rem), NEW pieces, pieces = GenerateAllConfig(m, n),
           NEW r \in 0 .. (n - 1)
    PROVE  Cardinality(UNION {Fragments(p) : p \in {q \in pieces : q.remoteId = r}}) = rem
<1> DEFINE U == UNION {Fragments(p) : p \in {q \in pieces : q.remoteId = r}}
<1>1. total \in Nat \ {0} /\ loc \in Nat \ {0} /\ rem \in Nat \ {0} /\ total = rem * n /\ r \in Nat
    BY DEF Shares
<1>2. PICK a \in Nat : a = rem * r BY <1>1, Multiples
<1>3. a + rem <= total
    <2>1. r + 1 <= n /\ r + 1 \in Nat OBVIOUS
    <2>2. rem * (r + 1) <= rem * n BY <1>1, <2>1
    <2>3. rem * (r + 1) = rem * r + rem BY <1>1
    <2> QED BY <1>1, <1>2, <2>2, <2>3
<1>4. ASSUME NEW x \in U PROVE x \in a .. (a + rem - 1)
    <2>1. PICK p \in pieces : p.remoteId = r /\ x \in Fragments(p) OBVIOUS
    <2>2. x \in 0 .. (total - 1) /\ x \div rem = r BY <2>1, Sharing
    <2>3. rem * (x \div rem) <= x /\ x < rem * (x \div rem) + rem BY <1>1, <2>2, DivRange
    <2>4. a <= x /\ x < a + rem BY <1>2, <2>2, <2>3
    <2> QED BY <1>1, <1>2, <2>2, <2>4
<1>5. ASSUME NEW x \in a .. (a + rem - 1) PROVE x \in U
    <2>1. x \in Nat /\ x < total /\ rem * r <= x /\ x < rem * r + rem BY <1>1, <1>2, <1>3
    <2>2. x \div rem = r BY <1>1, <2>1, DivUnique
    <2>3. x \in 0 .. (total - 1) BY <1>1, <2>1
    <2>4. PICK p \in pieces : x \in Fragments(p) BY <2>3, Sharing
    <2>5. p.remoteId = r BY <2>2, <2>4, Sharing
    <2> QED BY <2>4, <2>5
<1>6. U = a .. (a + rem - 1) BY <1>4, <1>5
<1>7. a \in Int /\ a + rem - 1 \in Int /\ ~(a > a + rem - 1) /\ (a + rem - 1) - a + 1 = rem BY <1>1, <1>2
<1>8. Cardinality(a .. (a + rem - 1)) = rem BY <1>7, FS_Interval
<1> QED BY <1>6, <1>8

\* what does not pass through the nodes of S or T
LEMMA EnoughThrough ==
    ASSUME NEW m \in Nat \ {0}, NEW n \in Nat \ {0}, NEW total, NEW loc, NEW rem,
           Shares(m, n, total, loc, rem), NEW pieces, pieces = GenerateAllConfig(m, n),
           NEW S \in SUBSET (0 .. (m - 1)), NEW T \in SUBSET (0 .. (n - 1)),
           NEW fs \in Nat, NEW ft \in Nat, Cardinality(S) = fs, Cardinality(T) = ft
    PROVE  Cardinality(UNION {Fragments(p) : p \in {q \in pieces : q.localId \notin S /\ q.remoteId \notin T}})
                >= total - (ft * rem + fs * loc)
<1> DEFINE Th == UNION {Fragments(p) : p \in {q \in pieces : q.localId \notin S /\ q.remoteId \notin T}}
<1>1. total \in Nat \ {0} /\ loc \in Nat \ {0} /\ rem \in Nat \ {0} BY DEF Shares
<1>2. PICK A : A = 0 .. (total - 1) OBVIOUS
<1>3. PICK X : X = {x \in 0 .. (total - 1) : x \div loc \in S} OBVIOUS
<1>4. PICK Y : Y = {x \in 0 .. (total - 1) : x \div rem \in T} OBVIOUS
<1>5. IsFiniteSet(S) /\ IsFiniteSet(T)
    <2>1. IsFiniteSet(0 .. (m - 1)) /\ IsFiniteSet(0 .. (n - 1)) BY FS_Interval
    <2> QED BY <2>1, FS_Subset
<1>6. IsFiniteSet(X) /\ Cardinality(X) <= fs * loc BY <1>1, <1>3, <1>5, FewCarried
<1>7. IsFiniteSet(Y) /\ Cardinality(Y) <= ft * rem BY <1>1, <1>4, <1>5, FewCarried
<1>8. IsFiniteSet(A) /\ Cardinality(A) = total
    <2>1. total - 1 \in Int /\ ~(0 > total - 1) /\ (total - 1) - 0 + 1 = total BY <1>1
    <2> QED BY <1>2, <2>1, FS_Interval
<1>9. Th \subseteq A BY <1>2, Sharing
<1>10. A \subseteq Th \cup (X \cup Y)
    <2> SUFFICES ASSUME NEW x \in A, x \notin X, x \notin Y PROVE x \in Th OBVIOUS
    <2>1. x \in 0 .. (total - 1) BY <1>2
    <2>2. PICK p \in pieces : x \in Fragments(p) BY <2>1, Sharing
    <2>3. x \div loc = p.localId /\ x \div rem = p.remoteId BY <2>2, Sharing
    <2>4. x \div loc \notin S /\ x \div rem \notin T BY <1>3, <1>4, <2>1
    <2> QED BY <2>2, <2>3, <2>4
<1>11. IsFiniteSet(Th) BY <1>8, <1>9, FS_Subset
<1>12. PICK D : D = Th OBVIOUS
<1>13. IsFiniteSet(X \cup Y) /\ Cardinality(X \cup Y) <= Cardinality(X) + Cardinality(Y)
    <2>1. IsFiniteSet(X \cup Y) /\ Cardinality(X \cup Y) = Cardinality(X) + Cardinality(Y) - Cardinality(X \cap Y)
        BY <1>6, <1>7, FS_Union
    <2>2. IsFiniteSet(X \cap Y) BY <1>6, FS_Intersection
    <2>3. Cardinality(X) \in Nat /\ Cardinality(Y) \in Nat /\ Cardinality(X \cap Y) \in Nat
        BY <1>6, <1>7, <2>2, FS_CardinalityType
    <2> QED BY <2>1, <2>3
<1>14. IsFiniteSet(D \cup (X \cup Y)) /\ Cardinality(D \cup (X \cup Y)) <= Cardinality(D) + Cardinality(X \cup Y)
    <2>0. IsFiniteSet(D) BY <1>11, <1>12
    <2>1. IsFiniteSet(D \cup (X \cup Y)) /\ Cardinality(D \cup (X \cup Y))
                = Cardinality(D) + Cardinality(X \cup Y) - Cardinality(D \cap (X \cup Y))
        BY <1>13, <2>0, FS_Union
    <2>2. IsFiniteSet(D \cap (X \cup Y)) BY <2>0, FS_Intersection
    <2>3. Cardinality(D) \in Nat /\ Cardinality(X \cup Y) \in Nat /\ Cardinality(D \cap (X \cup Y)) \in Nat
        BY <1>13, <2>0, <2>2, FS_CardinalityType
    <2> QED BY <2>1, <2>3
<1>15. total <= Cardinality(D \cup (X \cup Y))
    <2>1. A \in SUBSET (D \cup (X \cup Y)) BY <1>10, <1>12
    <2> QED BY <1>8, <1>14, <2>1, FS_Subset
<1>16. Cardinality(D) \in Nat /\ Cardinality(X) \in Nat /\ Cardinality(Y) \in Nat
       /\ Cardinality(X \cup Y) \in Nat /\ Cardinality(D \cup (X \cup Y)) \in Nat
    BY <1>6, <1>7, <1>11, <1>12, <1>13, <1>14, FS_CardinalityType
<1>17. fs * loc \in Nat /\ ft * rem \in Nat BY <1>1
<1>18. Cardinality(D) >= total - (ft * rem + fs * loc)
    BY <1>1, <1>6, <1>7, <1>13, <1>14, <1>15, <1>16, <1>17
<1> QED BY <1>12, <1>18

-----------------------------------------------------------------------------
\* the fragments, for one pair of sizes
LEMMA SizeSuffices ==
    ASSUME MaxNodes \in Nat, size \in SizesUpTo
    PROVE  FragmentsSuffice
<1>1. PICK m \in 1 .. MaxNodes, n \in 1 .. MaxNodes : size = <<m, n>> BY DEF SizesUpTo
<1>2. m \in Nat \ {0} /\ n \in Nat \ {0} /\ size[1] = m /\ size[2] = n BY <1>1
<1>3. PICK total, loc, rem : Shares(m, n, total, loc, rem) BY SharesExist
<1>4. PICK pieces : pieces = GenerateAllConfig(m, n) OBVIOUS
<1>5. Pieces = pieces
    <2>1. AllPieces[m] = [k \in 1 .. MaxNodes |-> GenerateAllConfig(m, k)] BY DEF AllPieces
    <2>2. AllPieces[m][n] = GenerateAllConfig(m, n) BY <2>1
    <2> QED BY <1>2, <1>4, <2>2 DEF Pieces
<1>6. Total = total /\ remoteFPS(m, n) = rem /\ localFPS(m, n) = loc /\ LCM(m, n) = total
    BY <1>2, <1>3 DEF Shares, Total
<1>7. ASSUME NEW k \in Nat \ {0} PROVE Byzantine(k) \in Nat
    BY <1>7 DEF Byzantine
<1>8. PICK fs \in Nat, ft \in Nat : fs = Byzantine(m) /\ ft = Byzantine(n) BY <1>2, <1>7
<1>9. Data = total - (ft * rem + fs * loc)
    BY <1>2, <1>6, <1>8 DEF Data, dataShardCnt, parityShardCnt
<1>10. ASSUME NEW x \in 0 .. (total - 1) PROVE Cardinality({p \in pieces : x \in Fragments(p)}) = 1
    <2>1. PICK p \in pieces : x \in Fragments(p) BY <1>2, <1>3, <1>4, Sharing
    <2>2. ASSUME NEW q \in pieces, x \in Fragments(q) PROVE q = p BY <1>2, <1>3, <1>4, <2>1, <2>2, Sharing
    <2>3. {q \in pieces : x \in Fragments(q)} = {p} BY <2>1, <2>2
    <2> QED BY <2>3, FS_Singleton
<1>11. ASSUME NEW p \in pieces PROVE p.remoteId \in 0 .. (n - 1) BY <1>2, <1>3, <1>4, Sharing
<1>12. ASSUME NEW r \in 0 .. (n - 1)
       PROVE  Cardinality(UNION {Fragments(p) : p \in {q \in pieces : q.remoteId = r}}) = rem
    BY <1>2, <1>3, <1>4, ShareOfReceiver
<1>13. ASSUME NEW S \in {Z \in SUBSET (0 .. (m - 1)) : Cardinality(Z) = Byzantine(m)},
              NEW T \in {Z \in SUBSET (0 .. (n - 1)) : Cardinality(Z) = Byzantine(n)}
       PROVE  Cardinality(UNION {Fragments(p) : p \in {q \in pieces : q.localId \notin S /\ q.remoteId \notin T}})
                >= Data
    <2>1. S \in SUBSET (0 .. (m - 1)) /\ T \in SUBSET (0 .. (n - 1)) /\ Cardinality(S) = fs /\ Cardinality(T) = ft
        BY <1>8
    <2>2. Cardinality(UNION {Fragments(p) : p \in {q \in pieces : q.localId \notin S /\ q.remoteId \notin T}})
                >= total - (ft * rem + fs * loc)
        BY <1>2, <1>3, <1>4, <1>8, <2>1, EnoughThrough
    <2> QED BY <1>9, <2>2
<1>14. \A x \in 0 .. (Total - 1) : Cardinality({p \in Pieces : x \in Fragments(p)}) = 1
    BY <1>5, <1>6, <1>10
<1>15. \A p \in Pieces : p.remoteId \in 0 .. (size[2] - 1) BY <1>2, <1>5, <1>11
<1>16. \A r \in 0 .. (size[2] - 1) :
          Cardinality(UNION {Fragments(p) : p \in {q \in Pieces : q.remoteId = r}}) = remoteFPS(size[1], size[2])
    BY <1>2, <1>5, <1>6, <1>12
<1>17. \A S \in {Z \in SUBSET (0 .. (size[1] - 1)) : Cardinality(Z) = Byzantine(size[1])},
          T \in {Z \in SUBSET (0 .. (size[2] - 1)) : Cardinality(Z) = Byzantine(size[2])} :
          Cardinality(UNION {Fragments(p) : p \in {q \in Pieces : q.localId \notin S /\ q.remoteId \notin T}})
                >= Data
    BY <1>2, <1>5, <1>13
<1> QED BY <1>14, <1>15, <1>16, <1>17 DEF FragmentsSuffice

ConfigSizes == mode = "config" => size \in SizesUpTo

\* the sizes of the groups never change
LEMMA SizesKept == ConfigSizes /\ [ReplicationNext]_replicationVars => ConfigSizes'
<1> SUFFICES ASSUME ConfigSizes, [ReplicationNext]_replicationVars PROVE mode' = mode /\ size' = size BY DEF ConfigSizes
<1>1. CASE UNCHANGED replicationVars BY <1>1 DEF replicationVars, pathVars
<1>2. ASSUME NEW s \in Senders, MRBlockSenderRun(s) PROVE mode' = mode /\ size' = size
    BY <1>2 DEF MRBlockSenderRun, encodeAndSendBlock, runDirect, runMultiway, SendNext
<1>3. ASSUME NEW p, NEW d, addMessageToCache(p, d) PROVE mode' = mode /\ size' = size
    BY <1>3 DEF addMessageToCache
<1>4. CASE genBlockFromQueue BY <1>4 DEF genBlockFromQueue
<1>5. ASSUME NEW c, getBlockFromRawString(c) \/ validateFunc(c) PROVE mode' = mode /\ size' = size
    BY <1>5 DEF getBlockFromRawString, validateFunc
<1>6. CASE Insert BY <1>6 DEF Insert
<1>7. CASE Read BY <1>7 DEF Read, pathVars
<1> QED BY <1>1, <1>2, <1>3, <1>4, <1>5, <1>6, <1>7 DEF ReplicationNext

\* FragmentUtil shares the fragments out well for groups of any size: each is sent
\* once, to a node that exists, in equal shares, and whatever third of both groups
\* is faulty, dataShardCnt of them pass through the other nodes.
THEOREM FragmentsAlwaysSuffice == ReplicationSpec => []FragmentsSuffice
<1>1. ReplicationInit => ConfigSizes BY DEF ReplicationInit, ConfigSizes, SizesUpTo
<1>2. ConfigSizes /\ [ReplicationNext]_replicationVars => ConfigSizes' BY SizesKept
<1>3. ConfigSizes => FragmentsSuffice
    <2>1. CASE mode = "config" BY <2>1, SizeSuffices, MaxNodesAssumption DEF ConfigSizes
    <2>2. CASE mode # "config" BY <2>2 DEF FragmentsSuffice
    <2> QED BY <2>1, <2>2
<1> QED BY <1>1, <1>2, <1>3, PTL DEF ReplicationSpec

-----------------------------------------------------------------------------
(* The Merkle tree over the fragments of a block, of any number.            *)

\* the logarithms up to last
IsLog(t, last) == t = [m \in 1 .. last |-> IF m = 1 THEN 0 ELSE t[(m + 1) \div 2] + 1]

LEMMA LogRead == \A n : calTreeDepth(n) = (CHOOSE t : IsLog(t, n))[n]
BY Zenon DEF calTreeDepth, IsLog

LEMMA HalfSmaller == \A m \in Nat \ {0, 1} : (m + 1) \div 2 \in Nat /\ (m + 1) \div 2 >= 1 /\ (m + 1) \div 2 < m
OBVIOUS

LEMMA LogExists == ASSUME NEW last \in Nat PROVE \E t : IsLog(t, last)
<1> DEFINE Missing == {m \in Nat : ~ \E t : IsLog(t, m)}
<1>1. Missing = {}
    <2> SUFFICES ASSUME Missing # {} PROVE FALSE OBVIOUS
    <2>1. PICK m \in Missing : \A l \in Missing : m <= l BY LeastNatural
    <2>2. m # 0
        <3>1. 1 .. 0 = {} OBVIOUS
        <3>2. IsLog([k \in 1 .. 0 |-> 0], 0) BY <3>1 DEF IsLog
        <3> QED BY <3>2
    <2>3. m \in Nat /\ m - 1 \in Nat /\ m - 1 \notin Missing BY <2>1, <2>2
    <2>4. PICK t : IsLog(t, m - 1) BY <2>3
    <2> DEFINE u == [k \in 1 .. m |-> IF k = 1 THEN 0 ELSE t[(k + 1) \div 2] + 1]
    <2>5. \A k \in 1 .. m - 1 : u[k] = t[k]
        <3> SUFFICES ASSUME NEW k \in 1 .. m - 1 PROVE u[k] = t[k] OBVIOUS
        <3>1. k \in 1 .. m BY <2>3
        <3>2. t[k] = IF k = 1 THEN 0 ELSE t[(k + 1) \div 2] + 1 BY <2>4 DEF IsLog
        <3> QED BY <3>1, <3>2
    <2>6. ASSUME NEW k \in 1 .. m PROVE u[k] = IF k = 1 THEN 0 ELSE u[(k + 1) \div 2] + 1
        <3>1. u[k] = IF k = 1 THEN 0 ELSE t[(k + 1) \div 2] + 1 OBVIOUS
        <3>2. CASE k # 1
            <4>1. (k + 1) \div 2 \in 1 .. m - 1 BY <2>3, <3>2, HalfSmaller
            <4>2. u[(k + 1) \div 2] = t[(k + 1) \div 2] BY <2>5, <4>1
            <4> HIDE DEF u
            <4> QED BY <3>1, <3>2, <4>2
        <3> HIDE DEF u
        <3> QED BY <3>1, <3>2
    <2>7. u = [k \in 1 .. m |-> u[k]] OBVIOUS
    <2> HIDE DEF u
    <2>8. IsLog(u, m) BY <2>6, <2>7 DEF IsLog
    <2> QED BY <2>8
<1> QED BY <1>1

\* calTreeDepth is a look-up in such a table
LEMMA DepthFound ==
    ASSUME NEW n \in Nat
    PROVE  \E t : calTreeDepth(n) = t[n]
                  /\ \A m \in 1 .. n : t[m] \in Nat /\ t[m] = IF m = 1 THEN 0 ELSE t[(m + 1) \div 2] + 1
<1>1. PICK t : t = CHOOSE u : IsLog(u, n) OBVIOUS
<1>2. IsLog(t, n) BY <1>1, LogExists
<1>3. calTreeDepth(n) = t[n] BY <1>1, LogRead
<1>4. \A m \in 1 .. n : t[m] = IF m = 1 THEN 0 ELSE t[(m + 1) \div 2] + 1 BY <1>2 DEF IsLog
<1> DEFINE Wrong == {m \in Nat : m \in 1 .. n /\ t[m] \notin Nat}
<1>5. Wrong = {}
    <2> SUFFICES ASSUME Wrong # {} PROVE FALSE OBVIOUS
    <2>1. PICK m \in Wrong : \A l \in Wrong : m <= l BY LeastNatural
    <2>2. m \in 1 .. n /\ t[m] \notin Nat BY <2>1
    <2>3. m # 1 BY <1>4, <2>2
    <2>4. (m + 1) \div 2 \in 1 .. n /\ ~ (m <= (m + 1) \div 2) BY <2>2, <2>3, HalfSmaller
    <2>5. t[(m + 1) \div 2] \in Nat BY <2>1, <2>4
    <2>6. t[m] = t[(m + 1) \div 2] + 1 BY <1>4, <2>2, <2>3
    <2> QED BY <2>2, <2>5, <2>6
<1> QED BY <1>3, <1>4, <1>5

\* the shifts of a number
IsShift(t, last, i) == t = [k \in 0 .. last |-> IF k = 0 THEN i ELSE t[k - 1] \div 2]

LEMMA ShiftRead == \A i, d : shifted(i, d) = CHOOSE t : IsShift(t, d, i)
BY Zenon DEF shifted, IsShift

\* a number can be shifted that often
LEMMA ShiftExists == ASSUME NEW i, NEW last \in Nat PROVE \E t : IsShift(t, last, i)
<1> DEFINE Missing == {m \in Nat : ~ \E t : IsShift(t, m, i)}
<1>1. Missing = {}
    <2> SUFFICES ASSUME Missing # {} PROVE FALSE OBVIOUS
    <2>1. PICK m \in Missing : \A l \in Missing : m <= l BY LeastNatural
    <2>2. m # 0
        <3>1. IsShift([k \in 0 .. 0 |-> i], 0, i) BY DEF IsShift
        <3> QED BY <3>1
    <2>3. m \in Nat /\ m - 1 \in Nat /\ m - 1 \notin Missing BY <2>1, <2>2
    <2>4. PICK t : IsShift(t, m - 1, i) BY <2>3
    <2> DEFINE u == [k \in 0 .. m |-> IF k = m THEN t[m - 1] \div 2 ELSE t[k]]
    <2>5. ASSUME NEW k \in 0 .. m PROVE u[k] = IF k = 0 THEN i ELSE u[k - 1] \div 2
        <3>1. u[k] = IF k = m THEN t[m - 1] \div 2 ELSE t[k] OBVIOUS
        <3>2. k # 0 => k - 1 \in 0 .. m /\ k - 1 # m BY <2>3
        <3>3. k # 0 => u[k - 1] = t[k - 1] BY <3>2
        <3>4. CASE k = m BY <2>2, <3>1, <3>3, <3>4
        <3>5. CASE k # m
            <4>1. k \in 0 .. m - 1 BY <2>3, <3>5
            <4>2. t[k] = IF k = 0 THEN i ELSE t[k - 1] \div 2 BY <2>4, <4>1 DEF IsShift
            <4> HIDE DEF u
            <4> QED BY <3>1, <3>3, <3>5, <4>2
        <3> QED BY <3>4, <3>5
    <2>6. u = [k \in 0 .. m |-> u[k]] OBVIOUS
    <2> HIDE DEF u
    <2>7. IsShift(u, m, i) BY <2>5, <2>6 DEF IsShift
    <2> QED BY <2>7
<1> QED BY <1>1

LEMMA Halved == \A m \in Nat : m \div 2 \in Nat /\ m \div 2 <= m
OBVIOUS

LEMMA Shifts ==
    ASSUME NEW i \in Nat, NEW d \in Nat
    PROVE  /\ shifted(i, d)[0] = i
           /\ \A k \in 1 .. d : shifted(i, d)[k] = shifted(i, d)[k - 1] \div 2
           /\ \A k \in 0 .. d : shifted(i, d)[k] \in Nat
<1>1. PICK t : t = shifted(i, d) OBVIOUS
<1>2. IsShift(t, d, i) BY <1>1, ShiftRead, ShiftExists
<1>3. \A k \in 0 .. d : t[k] = IF k = 0 THEN i ELSE t[k - 1] \div 2 BY <1>2 DEF IsShift
<1> DEFINE Wrong == {k \in Nat : k \in 0 .. d /\ t[k] \notin Nat}
<1>4. Wrong = {}
    <2> SUFFICES ASSUME Wrong # {} PROVE FALSE OBVIOUS
    <2>1. PICK k \in Wrong : \A l \in Wrong : k <= l BY LeastNatural
    <2>2. k \in 0 .. d /\ t[k] \notin Nat BY <2>1
    <2>3. k # 0 BY <1>3, <2>2
    <2>4. k - 1 \in 0 .. d /\ ~ (k <= k - 1) BY <2>2, <2>3
    <2>5. t[k - 1] \in Nat BY <2>1, <2>4
    <2>6. t[k] = t[k - 1] \div 2 BY <1>3, <2>2, <2>3
    <2> QED BY <2>2, <2>5, <2>6, Halved
<1>5. t[0] = i BY <1>3
<1>6. ASSUME NEW k \in 1 .. d PROVE t[k] = t[k - 1] \div 2 BY <1>3
<1> HIDE DEF Wrong
<1>7. \A k \in 0 .. d : t[k] \in Nat BY <1>4 DEF Wrong
<1> QED BY <1>1, <1>5, <1>6, <1>7

\* the shifts of a smaller number are not larger
LEMMA ShiftsOrdered ==
    ASSUME NEW i \in Nat, NEW j \in Nat, i <= j, NEW d \in Nat
    PROVE  \A k \in 0 .. d : shifted(i, d)[k] <= shifted(j, d)[k]
<1>1. PICK s : s = shifted(i, d) OBVIOUS
<1>2. PICK t : t = shifted(j, d) OBVIOUS
<1>3. s[0] = i /\ t[0] = j /\ (\A k \in 0 .. d : s[k] \in Nat /\ t[k] \in Nat) BY <1>1, <1>2, Shifts
<1>4. \A k \in 1 .. d : s[k] = s[k - 1] \div 2 /\ t[k] = t[k - 1] \div 2 BY <1>1, <1>2, Shifts
<1> DEFINE Wrong == {k \in Nat : k \in 0 .. d /\ ~ (s[k] <= t[k])}
<1>5. Wrong = {}
    <2> SUFFICES ASSUME Wrong # {} PROVE FALSE OBVIOUS
    <2>1. PICK k \in Wrong : \A l \in Wrong : k <= l BY LeastNatural
    <2>2. k \in 0 .. d /\ ~ (s[k] <= t[k]) BY <2>1
    <2>3. k # 0 BY <1>3, <2>2
    <2>4. k - 1 \in 0 .. d /\ ~ (k <= k - 1) /\ k \in 1 .. d BY <2>2, <2>3
    <2>5. s[k - 1] <= t[k - 1] BY <2>1, <2>4
    <2>6. s[k] = s[k - 1] \div 2 /\ t[k] = t[k - 1] \div 2 /\ s[k - 1] \in Nat /\ t[k - 1] \in Nat
        BY <1>3, <1>4, <2>4
    <2>7. \A a, b \in Nat : a <= b => a \div 2 <= b \div 2 OBVIOUS
    <2> QED BY <2>2, <2>5, <2>6, <2>7
<1> HIDE DEF Wrong
<1>6. \A k \in 0 .. d : s[k] <= t[k] BY <1>5 DEF Wrong
<1> QED BY <1>1, <1>2, <1>6

\* calTreeDepth shifts take the last of n numbers, and so each of them, to 0.
LEMMA DepthShifts ==
    ASSUME NEW n \in Nat, n >= 2
    PROVE  /\ calTreeDepth(n) \in Nat \ {0}
           /\ shifted(n - 1, calTreeDepth(n))[calTreeDepth(n)] = 0
<1>1. PICK t : /\ calTreeDepth(n) = t[n]
               /\ \A m \in 1 .. n : t[m] \in Nat /\ t[m] = IF m = 1 THEN 0 ELSE t[(m + 1) \div 2] + 1
    BY DepthFound
<1>2. PICK d : d = calTreeDepth(n) OBVIOUS
<1>3. d = t[n] /\ d \in Nat \ {0}
    <2>1. n \in 1 .. n /\ n # 1 /\ (n + 1) \div 2 \in 1 .. n BY HalfSmaller
    <2>2. t[n] = t[(n + 1) \div 2] + 1 /\ t[(n + 1) \div 2] \in Nat BY <1>1, <2>1
    <2> QED BY <1>1, <1>2, <2>2
<1>4. PICK x : x = shifted(n - 1, d) OBVIOUS
<1>5. n - 1 \in Nat OBVIOUS
<1>6. x[0] = n - 1 /\ (\A k \in 1 .. d : x[k] = x[k - 1] \div 2) /\ (\A k \in 0 .. d : x[k] \in Nat)
    BY <1>3, <1>4, <1>5, Shifts, SMTT(30)
<1> DEFINE Wrong == {k \in Nat : k \in 0 .. d /\ ~ (x[k] + 1 <= n /\ t[x[k] + 1] = d - k)}
<1>7. Wrong = {}
    <2> SUFFICES ASSUME Wrong # {} PROVE FALSE OBVIOUS
    <2>1. PICK k \in Wrong : \A l \in Wrong : k <= l BY LeastNatural
    <2>2. k \in 0 .. d /\ ~ (x[k] + 1 <= n /\ t[x[k] + 1] = d - k) BY <2>1
    <2>3. k # 0
        <3>1. x[0] + 1 = n BY <1>6
        <3> QED BY <1>3, <2>2, <3>1
    <2>4. k - 1 \in 0 .. d /\ ~ (k <= k - 1) /\ k \in 1 .. d BY <1>3, <2>2, <2>3
    <2>5. x[k - 1] + 1 <= n /\ t[x[k - 1] + 1] = d - (k - 1) BY <2>1, <2>4
    <2>6. x[k] = x[k - 1] \div 2 /\ x[k - 1] \in Nat BY <1>6, <2>4
    <2>7. PICK m : m = x[k - 1] + 1 OBVIOUS
    <2>8. m \in 1 .. n /\ (m + 1) \div 2 = x[k] + 1 BY <2>5, <2>6, <2>7
    <2>9. t[m] # 0 BY <1>3, <2>4, <2>5, <2>7
    <2>10. m # 1 /\ t[m] = t[(m + 1) \div 2] + 1 BY <1>1, <2>8, <2>9
    <2>11. (m + 1) \div 2 \in 1 .. n BY <2>8, <2>10, HalfSmaller
    <2>12. t[(m + 1) \div 2] \in Nat BY <1>1, <2>11
    <2>13. t[x[k] + 1] = d - k BY <1>3, <2>4, <2>5, <2>7, <2>8, <2>10, <2>12
    <2> QED BY <2>2, <2>8, <2>11, <2>13
<1>8. x[d] + 1 <= n /\ t[x[d] + 1] = 0 /\ x[d] \in Nat
    <2>1. d \in 0 .. d BY <1>3
    <2>2. x[d] + 1 <= n /\ t[x[d] + 1] = d - d BY <1>7, <2>1
    <2> QED BY <1>3, <1>6, <2>1, <2>2
<1>9. x[d] = 0
    <2>1. PICK m : m = x[d] + 1 OBVIOUS
    <2>2. m \in 1 .. n /\ t[m] = 0 BY <1>8, <2>1
    <2>3. ASSUME m # 1 PROVE FALSE
        <3>1. t[m] = t[(m + 1) \div 2] + 1 BY <1>1, <2>2, <2>3
        <3>2. (m + 1) \div 2 \in 1 .. n BY <2>2, <2>3, HalfSmaller
        <3> QED BY <1>1, <2>2, <3>1, <3>2
    <2> QED BY <1>8, <2>1, <2>3
<1> QED BY <1>2, <1>3, <1>4, <1>9

\* A level that is not empty, with its last node repeated if it is odd.
LEMMA EvenLevel ==
    ASSUME NEW s, NEW m \in Nat \ {0}, s = [j \in 1 .. m |-> s[j]]
    PROVE  /\ Len(fixOdd(s)) = IF m % 2 = 0 THEN m ELSE m + 1
           /\ \A j \in 1 .. m : fixOdd(s)[j] = s[j]
<1> DEFINE S == {s[j] : j \in 1 .. m}
<1>1. s \in [1 .. m -> S] OBVIOUS
<1> HIDE DEF S
<1>2. s \in Seq(S) /\ Len(s) = m BY <1>1
<1>3. Last(s) \in S
    <2>1. Last(s) = s[m] BY <1>2 DEF Last
    <2> QED BY <1>1, <2>1
<1>4. CASE m % 2 = 0 BY <1>2, <1>4 DEF fixOdd
<1>5. CASE m % 2 # 0
    <2>1. fixOdd(s) = Append(s, Last(s)) BY <1>2, <1>5 DEF fixOdd
    <2>2. Len(Append(s, Last(s))) = m + 1 /\ \A j \in 1 .. m : Append(s, Last(s))[j] = s[j]
        BY <1>2, <1>3
    <2> QED BY <1>5, <2>1, <2>2
<1> QED BY <1>4, <1>5

IsTree(t, last, n) == t = [k \in 0 .. last |-> IF k = 0 THEN leaves(n) ELSE parents(t[k - 1])]

LEMMA TreeRead == \A n : tree(n) = CHOOSE t : IsTree(t, calTreeDepth(n) - 1, n)
BY Zenon DEF tree, IsTree

\* the levels exist
LEMMA TreeExists == ASSUME NEW n, NEW last \in Nat PROVE \E t : IsTree(t, last, n)
<1> DEFINE Missing == {m \in Nat : ~ \E t : IsTree(t, m, n)}
<1>1. Missing = {}
    <2> SUFFICES ASSUME Missing # {} PROVE FALSE OBVIOUS
    <2>1. PICK m \in Missing : \A l \in Missing : m <= l BY LeastNatural
    <2>2. m # 0
        <3>1. IsTree([k \in 0 .. 0 |-> leaves(n)], 0, n) BY DEF IsTree
        <3> QED BY <3>1
    <2>3. m \in Nat /\ m - 1 \in Nat /\ m - 1 \notin Missing BY <2>1, <2>2
    <2>4. PICK t : IsTree(t, m - 1, n) BY <2>3
    <2> DEFINE u == [k \in 0 .. m |-> IF k = m THEN parents(t[m - 1]) ELSE t[k]]
    <2>5. ASSUME NEW k \in 0 .. m PROVE u[k] = IF k = 0 THEN leaves(n) ELSE parents(u[k - 1])
        <3>1. u[k] = IF k = m THEN parents(t[m - 1]) ELSE t[k] OBVIOUS
        <3>2. k # 0 => k - 1 \in 0 .. m /\ k - 1 # m BY <2>3
        <3>3. k # 0 => u[k - 1] = t[k - 1] BY <3>2
        <3>4. CASE k = m BY <2>2, <3>1, <3>3, <3>4
        <3>5. CASE k # m
            <4>1. k \in 0 .. m - 1 BY <2>3, <3>5
            <4>2. t[k] = IF k = 0 THEN leaves(n) ELSE parents(t[k - 1]) BY <2>4, <4>1 DEF IsTree
            <4> HIDE DEF u
            <4> QED BY <3>1, <3>3, <3>5, <4>2
        <3> QED BY <3>4, <3>5
    <2>6. u = [k \in 0 .. m |-> u[k]] OBVIOUS
    <2> HIDE DEF u
    <2>7. IsTree(u, m, n) BY <2>5, <2>6 DEF IsTree
    <2> QED BY <2>7
<1> QED BY <1>1

LEMMA TreeLevels ==
    ASSUME NEW n \in 2 .. MaxFragments
    PROVE  /\ Trees[n][0] = leaves(n)
           /\ \A k \in 1 .. calTreeDepth(n) - 1 : Trees[n][k] = parents(Trees[n][k - 1])
<1>1. PICK d : d = calTreeDepth(n) OBVIOUS
<1>2. d \in Nat \ {0} BY <1>1, DepthShifts, MaxFragmentsAssumption
<1>3. PICK t : t = tree(n) OBVIOUS
<1>4. IsTree(t, d - 1, n)
    <2>1. \E u : IsTree(u, d - 1, n) BY <1>2, TreeExists
    <2> QED BY <1>1, <1>3, <2>1, TreeRead
<1>5. Trees[n] = t BY <1>3 DEF Trees
<1>6. \A k \in 0 .. d - 1 : t[k] = IF k = 0 THEN leaves(n) ELSE parents(t[k - 1]) BY <1>4 DEF IsTree
<1>7. t[0] = leaves(n) BY <1>2, <1>6
<1>8. ASSUME NEW k \in 1 .. d - 1 PROVE t[k] = parents(t[k - 1]) BY <1>2, <1>6
<1> QED BY <1>1, <1>5, <1>7, <1>8

\* how long a level is, for the shifts x of n - 1
LEMMA LevelSizes ==
    ASSUME NEW n \in 2 .. MaxFragments, NEW d, d = calTreeDepth(n), NEW x, x = shifted(n - 1, d)
    PROVE  \A k \in 0 .. d - 1 : Len(Trees[n][k]) = 2 * (x[k] \div 2 + 1)
<1>1. n \in Nat /\ n >= 2 /\ n - 1 \in Nat BY MaxFragmentsAssumption
<1>2. d \in Nat \ {0} BY <1>1, DepthShifts
<1>3. x[0] = n - 1 /\ (\A k \in 1 .. d : x[k] = x[k - 1] \div 2) /\ (\A k \in 0 .. d : x[k] \in Nat)
    BY <1>1, <1>2, Shifts
<1>4. PICK t : t = Trees[n] OBVIOUS
<1>5. t[0] = leaves(n) /\ \A k \in 1 .. d - 1 : t[k] = parents(t[k - 1]) BY <1>4, TreeLevels
<1>6. \A m \in Nat \ {0} : (IF m % 2 = 0 THEN m ELSE m + 1) = 2 * ((m - 1) \div 2 + 1) OBVIOUS
<1> DEFINE Wrong == {k \in Nat : k \in 0 .. d - 1 /\ ~ (Len(t[k]) = 2 * (x[k] \div 2 + 1))}
<1>7. Wrong = {}
    <2> SUFFICES ASSUME Wrong # {} PROVE FALSE OBVIOUS
    <2>1. PICK k \in Wrong : \A l \in Wrong : k <= l BY LeastNatural
    <2>2. k \in 0 .. d - 1 /\ ~ (Len(t[k]) = 2 * (x[k] \div 2 + 1)) BY <2>1
    <2>3. CASE k = 0
        <3>1. PICK s : s = [i \in 1 .. n |-> Digest(encode(n)[i])] OBVIOUS
        <3>2. s = [i \in 1 .. n |-> s[i]] BY <3>1
        <3>3. t[0] = fixOdd(s) BY <1>5, <3>1 DEF leaves
        <3>4. Len(t[0]) = IF n % 2 = 0 THEN n ELSE n + 1 BY <1>1, <3>2, <3>3, EvenLevel, SMTT(30)
        <3>5. Len(t[0]) = 2 * ((n - 1) \div 2 + 1) BY <1>1, <1>6, <3>4
        <3> QED BY <1>3, <2>2, <2>3, <3>5
    <2>4. CASE k # 0
        <3>1. k - 1 \in 0 .. d - 1 /\ ~ (k <= k - 1) /\ k \in 1 .. d - 1 /\ k \in 1 .. d BY <1>2, <2>2, <2>4
        <3>2. Len(t[k - 1]) = 2 * (x[k - 1] \div 2 + 1) BY <2>1, <3>1
        <3>3. x[k] = x[k - 1] \div 2 /\ x[k] \in Nat BY <1>3, <3>1
        <3>4. PICK m : m = x[k] + 1 OBVIOUS
        <3>5. m \in Nat \ {0} /\ Len(t[k - 1]) \div 2 = m BY <3>2, <3>3, <3>4, SMTT(30)
        <3>6. PICK s : s = [j \in 1 .. m |-> HashFunc(t[k - 1][2 * j - 1], t[k - 1][2 * j])] OBVIOUS
        <3>7. s = [j \in 1 .. m |-> s[j]] BY <3>6
        <3>8. t[k] = fixOdd(s) BY <1>5, <3>1, <3>5, <3>6 DEF parents
        <3>9. Len(t[k]) = IF m % 2 = 0 THEN m ELSE m + 1 BY <3>5, <3>7, <3>8, EvenLevel
        <3>10. Len(t[k]) = 2 * ((m - 1) \div 2 + 1) BY <1>6, <3>5, <3>9
        <3>11. m - 1 = x[k] BY <3>3, <3>4
        <3> QED BY <2>2, <3>10, <3>11
    <2> QED BY <2>3, <2>4
<1> HIDE DEF Wrong
<1>8. ASSUME NEW k \in 0 .. d - 1 PROVE Len(t[k]) = 2 * (x[k] \div 2 + 1) BY <1>2, <1>7 DEF Wrong
<1> QED BY <1>4, <1>8

\* the nodes of the tree: the leaves, and each node over its two children
LEMMA LevelNodes ==
    ASSUME NEW n \in 2 .. MaxFragments, NEW d, d = calTreeDepth(n), NEW x, x = shifted(n - 1, d)
    PROVE  /\ \A i \in 0 .. n - 1 : Trees[n][0][i + 1] = Digest(i)
           /\ \A k \in 1 .. d - 1 : \A j \in 0 .. x[k] :
                Trees[n][k][j + 1] = HashFunc(Trees[n][k - 1][2 * j + 1], Trees[n][k - 1][2 * j + 2])
<1>1. n \in Nat /\ n >= 2 /\ n - 1 \in Nat BY MaxFragmentsAssumption
<1>2. d \in Nat \ {0} BY <1>1, DepthShifts
<1>3. x[0] = n - 1 /\ (\A k \in 1 .. d : x[k] = x[k - 1] \div 2) /\ (\A k \in 0 .. d : x[k] \in Nat)
    BY <1>1, <1>2, Shifts
<1>4. PICK t : t = Trees[n] OBVIOUS
<1>5. t[0] = leaves(n) /\ \A k \in 1 .. d - 1 : t[k] = parents(t[k - 1]) BY <1>4, TreeLevels
<1>6. ASSUME NEW i \in 0 .. n - 1 PROVE t[0][i + 1] = Digest(i)
    <2>1. PICK s : s = [j \in 1 .. n |-> Digest(encode(n)[j])] OBVIOUS
    <2>2. s = [j \in 1 .. n |-> s[j]] BY <2>1
    <2>3. t[0] = fixOdd(s) BY <1>5, <2>1 DEF leaves
    <2>4. i + 1 \in 1 .. n /\ (i + 1) - 1 = i BY <1>1
    <2>5. n \in Nat \ {0} BY <1>1
    <2>6. \A j \in 1 .. n : fixOdd(s)[j] = s[j] BY <2>2, <2>5, EvenLevel
    <2>7. t[0][i + 1] = s[i + 1] BY <2>3, <2>4, <2>6
    <2>8. encode(n)[i + 1] = i BY <2>4 DEF encode
    <2> QED BY <2>1, <2>4, <2>7, <2>8
<1>7. ASSUME NEW k \in 1 .. d - 1, NEW j \in 0 .. x[k]
      PROVE  t[k][j + 1] = HashFunc(t[k - 1][2 * j + 1], t[k - 1][2 * j + 2])
    <2>1. k \in 1 .. d /\ k - 1 \in 0 .. d - 1 /\ k \in 0 .. d BY <1>2
    <2>2. Len(t[k - 1]) = 2 * (x[k - 1] \div 2 + 1)
        <3>1. \A l \in 0 .. d - 1 : Len(Trees[n][l]) = 2 * (x[l] \div 2 + 1) BY LevelSizes, ZenonT(30)
        <3>2. Len(Trees[n][k - 1]) = 2 * (x[k - 1] \div 2 + 1) BY <2>1, <3>1, Zenon
        <3> QED BY <1>4, <3>2, Zenon
    <2>3. x[k] = x[k - 1] \div 2 /\ x[k] \in Nat BY <1>3, <2>1
    <2>4. PICK m : m = x[k] + 1 OBVIOUS
    <2>5. m \in Nat \ {0} /\ Len(t[k - 1]) \div 2 = m BY <2>2, <2>3, <2>4
    <2>6. PICK s : s = [i \in 1 .. m |-> HashFunc(t[k - 1][2 * i - 1], t[k - 1][2 * i])] OBVIOUS
    <2>7. s = [i \in 1 .. m |-> s[i]] BY <2>6
    <2>8. t[k] = fixOdd(s) BY <1>5, <2>5, <2>6 DEF parents
    <2>9. j + 1 \in 1 .. m /\ 2 * (j + 1) - 1 = 2 * j + 1 /\ 2 * (j + 1) = 2 * j + 2 BY <2>3, <2>4
    <2>10. \A i \in 1 .. m : fixOdd(s)[i] = s[i] BY <2>5, <2>7, EvenLevel
    <2>11. t[k][j + 1] = s[j + 1] BY <2>8, <2>9, <2>10
    <2> QED BY <2>6, <2>9, <2>11
<1> QED BY <1>4, <1>6, <1>7

-----------------------------------------------------------------------------
(* Proofs, and how they are verified.                                        *)

LEMMA ProofShape ==
    ASSUME NEW n \in 2 .. MaxFragments, NEW i \in 0 .. n - 1,
           NEW d, d = calTreeDepth(n), NEW a, a = shifted(i, d)
    PROVE  /\ Proofs[n][i].path = [k \in 1 .. d |-> a[k - 1] % 2 = 0]
           /\ Proofs[n][i].siblings = [k \in 1 .. d |-> updatePairProof(Trees[n][k - 1], a[k - 1])]
<1>1. Proofs[n][i] = GenerateProof(n, i) BY DEF Proofs
<1>2. GenerateProof(n, i) = [path |-> [k \in 1 .. d |-> a[k - 1] % 2 = 0],
                             siblings |-> [k \in 1 .. d |-> updatePairProof(Trees[n][k - 1], a[k - 1])]]
    BY Zenon DEF GenerateProof
<1> QED BY <1>1, <1>2

HashStep(path, siblings, k, v) == IF path[k] THEN HashFunc(v, siblings[k]) ELSE HashFunc(siblings[k], v)

\* the hashes on the way up
IsHash(t, last, leaf, path, siblings) ==
    t = [k \in 0 .. last |-> IF k = 0 THEN leaf ELSE HashStep(path, siblings, k, t[k - 1])]

LEMMA VerifyRead ==
    \A leaf, proof, root :
        Verify(leaf, proof, root) <=>
            (CHOOSE t : IsHash(t, Len(proof.siblings), leaf, proof.path, proof.siblings))[Len(proof.siblings)] = root
BY Zenon DEF Verify, IsHash, HashStep

\* the hashes exist
LEMMA HashExists ==
    ASSUME NEW leaf, NEW path, NEW siblings, NEW last \in Nat
    PROVE  \E t : IsHash(t, last, leaf, path, siblings)
<1> DEFINE Missing == {m \in Nat : ~ \E t : IsHash(t, m, leaf, path, siblings)}
<1>1. Missing = {}
    <2> SUFFICES ASSUME Missing # {} PROVE FALSE OBVIOUS
    <2>1. PICK m \in Missing : \A l \in Missing : m <= l BY LeastNatural
    <2>2. m # 0
        <3>1. IsHash([k \in 0 .. 0 |-> leaf], 0, leaf, path, siblings) BY DEF IsHash
        <3> QED BY <3>1
    <2>3. m \in Nat /\ m - 1 \in Nat /\ m - 1 \notin Missing BY <2>1, <2>2
    <2>4. PICK t : IsHash(t, m - 1, leaf, path, siblings) BY <2>3
    <2> DEFINE u == [k \in 0 .. m |-> IF k = m THEN HashStep(path, siblings, m, t[m - 1]) ELSE t[k]]
    <2>5. ASSUME NEW k \in 0 .. m PROVE u[k] = IF k = 0 THEN leaf ELSE HashStep(path, siblings, k, u[k - 1])
        <3>1. u[k] = IF k = m THEN HashStep(path, siblings, m, t[m - 1]) ELSE t[k] OBVIOUS
        <3>2. k # 0 => k - 1 \in 0 .. m /\ k - 1 # m BY <2>3
        <3>3. k # 0 => u[k - 1] = t[k - 1] BY <3>2
        <3>4. CASE k = m BY <2>2, <3>1, <3>3, <3>4
        <3>5. CASE k # m
            <4>1. k \in 0 .. m - 1 BY <2>3, <3>5
            <4>2. t[k] = IF k = 0 THEN leaf ELSE HashStep(path, siblings, k, t[k - 1]) BY <2>4, <4>1 DEF IsHash
            <4> HIDE DEF u
            <4> QED BY <3>1, <3>3, <3>5, <4>2
        <3> QED BY <3>4, <3>5
    <2>6. u = [k \in 0 .. m |-> u[k]] OBVIOUS
    <2> HIDE DEF u
    <2>7. IsHash(u, m, leaf, path, siblings) BY <2>5, <2>6 DEF IsHash
    <2> QED BY <2>7
<1> QED BY <1>1

\* A leaf is verified by its hashes.
LEMMA Verified ==
    ASSUME NEW leaf, NEW path, NEW siblings, NEW root, NEW d \in Nat, Len(siblings) = d
    PROVE  \E h : /\ h[0] = leaf /\ \A k \in 1 .. d : h[k] = HashStep(path, siblings, k, h[k - 1])
                  /\ Verify(leaf, [path |-> path, siblings |-> siblings], root) <=> h[d] = root
<1>1. PICK h : h = CHOOSE t : IsHash(t, d, leaf, path, siblings) OBVIOUS
<1>2. IsHash(h, d, leaf, path, siblings) BY <1>1, HashExists
<1>3. h[0] = leaf BY <1>2 DEF IsHash
<1>4. ASSUME NEW k \in 1 .. d PROVE h[k] = HashStep(path, siblings, k, h[k - 1])
    <2>1. k \in 0 .. d /\ k # 0 OBVIOUS
    <2> QED BY <1>2, <2>1 DEF IsHash
<1>5. PICK p : p = [path |-> path, siblings |-> siblings] OBVIOUS
<1>6. p.path = path /\ p.siblings = siblings /\ Len(p.siblings) = d BY <1>5
<1>7. Verify(leaf, p, root) <=> h[d] = root BY <1>1, <1>6, VerifyRead
<1> QED BY <1>3, <1>4, <1>5, <1>7

\* Going up from leaf i along its proof leads through the nodes above it.
LEMMA HashesUp ==
    ASSUME NEW n \in 2 .. MaxFragments, NEW i \in 0 .. n - 1,
           NEW d, d = calTreeDepth(n), NEW h, h[0] = Digest(i),
           \A k \in 1 .. d : h[k] = HashStep(Proofs[n][i].path, Proofs[n][i].siblings, k, h[k - 1])
    PROVE  h[d] = Root(n)
<1>1. n \in Nat /\ n >= 2 /\ n - 1 \in Nat /\ i \in Nat /\ i <= n - 1 BY MaxFragmentsAssumption
<1>2. d \in Nat \ {0} BY <1>1, DepthShifts
<1>3. PICK x : x = shifted(n - 1, d) OBVIOUS
<1>4. PICK a : a = shifted(i, d) OBVIOUS
<1>5. /\ a[0] = i /\ (\A k \in 1 .. d : a[k] = a[k - 1] \div 2) /\ (\A k \in 0 .. d : a[k] \in Nat)
    BY <1>1, <1>2, <1>4, Shifts
<1>6. \A k \in 0 .. d : x[k] \in Nat /\ a[k] <= x[k] BY <1>1, <1>2, <1>3, <1>4, Shifts, ShiftsOrdered
<1>7. x[d] = 0 BY <1>1, <1>3, DepthShifts
<1>8. PICK t : t = Trees[n] OBVIOUS
<1>9. PICK p : p = Proofs[n][i].path OBVIOUS
<1>10. PICK s : s = Proofs[n][i].siblings OBVIOUS
<1>11. p = [k \in 1 .. d |-> a[k - 1] % 2 = 0] /\ s = [k \in 1 .. d |-> updatePairProof(t[k - 1], a[k - 1])]
    BY <1>4, <1>8, <1>9, <1>10, ProofShape, SMTT(30)
<1>12. /\ \A l \in 0 .. n - 1 : t[0][l + 1] = Digest(l)
       /\ \A k \in 1 .. d - 1 : \A j \in 0 .. x[k] :
            t[k][j + 1] = HashFunc(t[k - 1][2 * j + 1], t[k - 1][2 * j + 2])
    BY <1>3, <1>8, LevelNodes
<1>13. ASSUME NEW k \in 1 .. d, h[k - 1] = t[k - 1][a[k - 1] + 1]
       PROVE  h[k] = HashFunc(t[k - 1][2 * a[k] + 1], t[k - 1][2 * a[k] + 2])
    <2>1. PICK b : b = a[k - 1] OBVIOUS
    <2>2. b \in Nat /\ a[k] = b \div 2
        <3>1. k - 1 \in 0 .. d BY <1>2
        <3> QED BY <1>5, <2>1, <3>1
    <2>3. h[k] = HashStep(p, s, k, h[k - 1]) BY <1>9, <1>10
    <2>4. (p[k] <=> b % 2 = 0) /\ s[k] = updatePairProof(t[k - 1], b) BY <1>11, <2>1
    <2>5. CASE b % 2 = 0
        <3>1. 2 * a[k] + 1 = b + 1 /\ 2 * a[k] + 2 = b + 2 BY <2>2, <2>5
        <3>2. h[k] = HashFunc(h[k - 1], t[k - 1][b + 2]) BY <2>3, <2>4, <2>5 DEF HashStep, updatePairProof
        <3> QED BY <1>13, <2>1, <3>1, <3>2
    <2>6. CASE b % 2 # 0
        <3>1. 2 * a[k] + 1 = b /\ 2 * a[k] + 2 = b + 1 BY <2>2, <2>6
        <3>2. h[k] = HashFunc(t[k - 1][b], h[k - 1]) BY <2>3, <2>4, <2>6 DEF HashStep, updatePairProof
        <3> QED BY <1>13, <2>1, <3>1, <3>2
    <2> QED BY <2>5, <2>6
<1> DEFINE Wrong == {k \in Nat : k \in 0 .. d - 1 /\ ~ (h[k] = t[k][a[k] + 1])}
<1>14. Wrong = {}
    <2> SUFFICES ASSUME Wrong # {} PROVE FALSE OBVIOUS
    <2>1. PICK k \in Wrong : \A l \in Wrong : k <= l BY LeastNatural
    <2>2. k \in 0 .. d - 1 /\ h[k] # t[k][a[k] + 1] BY <2>1
    <2>3. k # 0 BY <1>5, <1>12, <2>2
    <2>4. k - 1 \in 0 .. d - 1 /\ ~ (k <= k - 1) /\ k \in 1 .. d - 1 /\ k \in 1 .. d BY <1>2, <2>2, <2>3
    <2>5. h[k - 1] = t[k - 1][a[k - 1] + 1] BY <2>1, <2>4
    <2>6. h[k] = HashFunc(t[k - 1][2 * a[k] + 1], t[k - 1][2 * a[k] + 2]) BY <1>13, <2>4, <2>5
    <2>7. a[k] \in 0 .. x[k] BY <1>5, <1>6, <2>4
    <2> QED BY <1>12, <2>2, <2>4, <2>6, <2>7
<1>15. h[d - 1] = t[d - 1][a[d - 1] + 1]
    <2>1. d - 1 \in Nat /\ d - 1 \in 0 .. d - 1 BY <1>2
    <2>2. d - 1 \notin Wrong BY <1>14
    <2> QED BY <2>1, <2>2
<1>16. a[d] = 0
    <2>1. d \in 0 .. d BY <1>2
    <2> QED BY <1>5, <1>6, <1>7, <2>1
<1>17. h[d] = HashFunc(t[d - 1][1], t[d - 1][2])
    <2>1. d \in 1 .. d BY <1>2
    <2>2. h[d] = HashFunc(t[d - 1][2 * a[d] + 1], t[d - 1][2 * a[d] + 2]) BY <1>13, <1>15, <2>1
    <2> QED BY <1>16, <2>2
<1> QED BY <1>8, <1>17 DEF Root

\* The proof of a fragment verifies that fragment and no other bytes.
LEMMA ProofVerifies ==
    ASSUME NEW n \in 2 .. MaxFragments, NEW i \in 0 .. n - 1, NEW leaf
    PROVE  Verify(leaf, [path |-> Proofs[n][i].path, siblings |-> Proofs[n][i].siblings], Root(n))
             <=> leaf = Digest(i)
<1>1. PICK d : d = calTreeDepth(n) OBVIOUS
<1>2. d \in Nat \ {0} BY <1>1, DepthShifts, MaxFragmentsAssumption
<1>3. PICK p : p = Proofs[n][i].path OBVIOUS
<1>4. PICK s : s = Proofs[n][i].siblings OBVIOUS
<1>5. Len(s) = d
    <2>1. PICK a : a = shifted(i, d) OBVIOUS
    <2>2. PICK t : t = Trees[n] OBVIOUS
    <2>3. /\ p = [k \in 1 .. d |-> a[k - 1] % 2 = 0]
          /\ s = [k \in 1 .. d |-> updatePairProof(t[k - 1], a[k - 1])]
        BY <1>1, <1>3, <1>4, <2>1, <2>2, ProofShape
    <2> QED BY <1>2, <2>3
<1>6. PICK h : /\ h[0] = Digest(i) /\ \A k \in 1 .. d : h[k] = HashStep(p, s, k, h[k - 1])
               /\ Verify(Digest(i), [path |-> p, siblings |-> s], Root(n)) <=> h[d] = Root(n)
    <2>1. PICK own : own = Digest(i) OBVIOUS
    <2>2. \E h : /\ h[0] = own /\ \A k \in 1 .. d : h[k] = HashStep(p, s, k, h[k - 1])
                 /\ Verify(own, [path |-> p, siblings |-> s], Root(n)) <=> h[d] = Root(n)
        BY <1>2, <1>5, Verified
    <2> QED BY <2>1, <2>2
<1>7. h[d] = Root(n) BY <1>1, <1>3, <1>4, <1>6, HashesUp
<1>8. PICK g : /\ g[0] = leaf /\ \A k \in 1 .. d : g[k] = HashStep(p, s, k, g[k - 1])
               /\ Verify(leaf, [path |-> p, siblings |-> s], Root(n)) <=> g[d] = Root(n)
    BY <1>2, <1>5, Verified
<1>9. ASSUME leaf # Digest(i) PROVE g[d] # h[d]
    <2> DEFINE Same == {k \in Nat : k \in 0 .. d /\ g[k] = h[k]}
    <2>1. Same = {}
        <3> SUFFICES ASSUME Same # {} PROVE FALSE OBVIOUS
        <3>1. PICK k \in Same : \A l \in Same : k <= l BY LeastNatural
        <3>2. k \in 0 .. d /\ g[k] = h[k] BY <3>1
        <3>3. k # 0 BY <1>6, <1>8, <1>9, <3>2
        <3>4. k - 1 \in 0 .. d /\ ~ (k <= k - 1) /\ k \in 1 .. d BY <1>2, <3>2, <3>3
        <3>5. g[k - 1] # h[k - 1] BY <3>1, <3>4
        <3>6. g[k] = HashStep(p, s, k, g[k - 1]) /\ h[k] = HashStep(p, s, k, h[k - 1]) BY <1>6, <1>8, <3>4
        <3>7. HashStep(p, s, k, g[k - 1]) # HashStep(p, s, k, h[k - 1]) BY <3>5 DEF HashStep, HashFunc
        <3> QED BY <3>2, <3>6, <3>7
    <2>2. d \in Nat /\ d \in 0 .. d /\ d \notin Same BY <1>2, <2>1
    <2> QED BY <2>2
<1>10. Verify(Digest(i), [path |-> p, siblings |-> s], Root(n)) BY <1>6, <1>7
<1>11. leaf # Digest(i) => ~ Verify(leaf, [path |-> p, siblings |-> s], Root(n)) BY <1>7, <1>8, <1>9
<1> QED BY <1>3, <1>4, <1>10, <1>11

-----------------------------------------------------------------------------
(* The message of one piece: proofs shortened and put together again.        *)

LEMMA PartOf ==
    ASSUME NEW S, NEW s \in Seq(S), NEW a \in Nat, NEW b \in Nat, 1 <= a, b <= Len(s), a <= b + 1
    PROVE  /\ SubSeq(s, a, b) \in Seq(S) /\ Len(SubSeq(s, a, b)) = b - a + 1
           /\ \A k \in 1 .. b - a + 1 : SubSeq(s, a, b)[k] = s[a + k - 1]
<1>1. a \in Int /\ b \in Int /\ \A k \in a .. b : s[k] \in S OBVIOUS
<1>2. /\ SubSeq(s, a, b) \in Seq(S)
      /\ Len(SubSeq(s, a, b)) = IF a <= b THEN b - a + 1 ELSE 0
      /\ \A k \in 1 .. b - a + 1 : SubSeq(s, a, b)[k] = s[a + k - 1]
    BY <1>1, SubSeqProperties
<1> QED BY <1>2

\* a proof without its last siblings is completed by a proof that has the same
LEMMA Completed ==
    ASSUME NEW d \in Nat, NEW s, s = [k \in 1 .. d |-> s[k]], NEW o, o = [k \in 1 .. d |-> o[k]],
           NEW w \in 0 .. d, \A k \in w + 1 .. d : o[k] = s[k]
    PROVE  complete(SubSeq(s, 1, w), o) = s
<1> DEFINE S == {s[k] : k \in 1 .. d} \cup {o[k] : k \in 1 .. d}
<1>1. s \in [1 .. d -> S] /\ o \in [1 .. d -> S] OBVIOUS
<1> HIDE DEF S
<1>2. s \in Seq(S) /\ Len(s) = d /\ o \in Seq(S) /\ Len(o) = d BY <1>1
<1>3. PICK p : p = SubSeq(s, 1, w) OBVIOUS
<1>4. p \in Seq(S) /\ Len(p) = w /\ \A k \in 1 .. w : p[k] = s[k]
    <2>1. PICK f \in Nat : f = 1 OBVIOUS
    <2>2. f \in Nat /\ 1 <= f /\ w \in Nat /\ w <= Len(s) /\ f <= w + 1 BY <1>2, <2>1
    <2>3. /\ SubSeq(s, f, w) \in Seq(S) /\ Len(SubSeq(s, f, w)) = w - f + 1
          /\ \A k \in 1 .. w - f + 1 : SubSeq(s, f, w)[k] = s[f + k - 1]
        BY <1>2, <2>2, PartOf
    <2>4. w - f + 1 = w /\ \A k \in 1 .. w : f + k - 1 = k BY <2>1
    <2> QED BY <1>3, <2>1, <2>3, <2>4
<1>5. PICK q : q = SubSeq(o, w + 1, d) OBVIOUS
<1>6. q \in Seq(S) /\ Len(q) = d - w /\ \A k \in 1 .. d - w : q[k] = o[k + w]
    <2>1. PICK f \in Nat : f = w + 1 OBVIOUS
    <2>2. o \in Seq(S) /\ f \in Nat /\ 1 <= f /\ d \in Nat /\ d <= Len(o) /\ f <= d + 1 BY <1>2, <2>1
    <2>3. /\ SubSeq(o, f, d) \in Seq(S) /\ Len(SubSeq(o, f, d)) = d - f + 1
          /\ \A k \in 1 .. d - f + 1 : SubSeq(o, f, d)[k] = o[f + k - 1]
        BY <2>2, PartOf, SMTT(30)
    <2>4. d - f + 1 = d - w /\ \A k \in 1 .. d - w : f + k - 1 = k + w BY <2>1
    <2> QED BY <1>5, <2>1, <2>3, <2>4
<1>7. complete(p, o) = p \o q BY <1>2, <1>4, <1>5 DEF complete
<1>8. PICK z : z = p \o q OBVIOUS
<1>9. z \in Seq(S) /\ Len(z) = d /\ \A k \in 1 .. d : z[k] = IF k <= w THEN p[k] ELSE q[k - w]
    <2>1. /\ p \o q \in Seq(S) /\ Len(p \o q) = Len(p) + Len(q)
          /\ \A k \in 1 .. Len(p) + Len(q) : (p \o q)[k] = IF k <= Len(p) THEN p[k] ELSE q[k - Len(p)]
        BY <1>4, <1>6, ConcatProperties
    <2>2. Len(p) = w /\ Len(p) + Len(q) = d BY <1>4, <1>6
    <2> QED BY <1>8, <2>1, <2>2
<1>10. ASSUME NEW k \in 1 .. d PROVE z[k] = s[k]
    <2>1. CASE k <= w
        <3>1. k \in 1 .. w BY <2>1
        <3>2. z[k] = p[k] BY <1>9, <2>1
        <3> QED BY <1>4, <3>1, <3>2
    <2>2. CASE k > w
        <3>1. k - w \in 1 .. d - w /\ k - w + w = k /\ k \in w + 1 .. d BY <2>2
        <3>2. q[k - w] = o[k] BY <1>6, <3>1
        <3>3. o[k] = s[k] BY <3>1
        <3>4. z[k] = q[k - w] BY <1>9, <2>2
        <3> QED BY <3>2, <3>3, <3>4
    <2> QED BY <2>1, <2>2
<1>11. z = s BY <1>2, <1>9, <1>10, SeqEqual
<1> QED BY <1>3, <1>7, <1>8, <1>11

\* a whole proof needs no other
LEMMA CompletedAlone ==
    ASSUME NEW d \in Nat, NEW s, s = [k \in 1 .. d |-> s[k]]
    PROVE  complete(SubSeq(s, 1, d), <<>>) = s
<1> DEFINE S == {s[k] : k \in 1 .. d}
<1>1. s \in [1 .. d -> S] OBVIOUS
<1> HIDE DEF S
<1>2. s \in Seq(S) /\ Len(s) = d BY <1>1
<1>3. SubSeq(s, 1, d) = s BY <1>2, SubSeqFull
<1>4. SubSeq(<<>>, d + 1, 0) = <<>>
    <2>1. d + 1 \in Int /\ 0 \in Int /\ 0 < d + 1 OBVIOUS
    <2> QED BY <2>1, SubSeqEmpty
<1>5. complete(s, <<>>) = s \o <<>>
    <2>1. Len(<<>>) = 0 OBVIOUS
    <2> QED BY <1>2, <1>4, <2>1 DEF complete
<1>6. s \o <<>> = s BY <1>2, ConcatEmptySeq
<1> QED BY <1>3, <1>5, <1>6

LEMMA SiblingsShape ==
    ASSUME NEW n \in 2 .. MaxFragments, NEW i \in 0 .. n - 1, NEW d, d = calTreeDepth(n),
           NEW s, s = Proofs[n][i].siblings
    PROVE  d \in Nat \ {0} /\ s = [k \in 1 .. d |-> s[k]] /\ Len(s) = d /\ s # <<>>
<1>1. d \in Nat \ {0} BY DepthShifts, MaxFragmentsAssumption
<1>2. PICK p : p = Proofs[n][i].path OBVIOUS
<1>3. PICK a : a = shifted(i, d) OBVIOUS
<1>4. PICK t : t = Trees[n] OBVIOUS
<1>5. /\ p = [k \in 1 .. d |-> a[k - 1] % 2 = 0]
      /\ s = [k \in 1 .. d |-> updatePairProof(t[k - 1], a[k - 1])]
    BY <1>2, <1>3, <1>4, ProofShape
<1>6. s = [k \in 1 .. d |-> s[k]] BY <1>5
<1>7. Len(s) = d BY <1>1, <1>5
<1>8. s # <<>>
    <2>1. Len(<<>>) = 0 OBVIOUS
    <2> QED BY <1>1, <1>7, <2>1
<1> QED BY <1>1, <1>6, <1>7, <1>8

\* What is not written of a proof is the same in the proof before.
LEMMA WrittenEnough ==
    ASSUME NEW n \in 2 .. MaxFragments, NEW start \in Nat, NEW i \in 0 .. n - 1, start < i,
           NEW d, d = calTreeDepth(n), NEW w, w = Written(n, start, i)
    PROVE  /\ w \in 0 .. d
           /\ \A k \in w + 1 .. d : Proofs[n][i - 1].siblings[k] = Proofs[n][i].siblings[k]
<1>1. d \in Nat \ {0} BY DepthShifts, MaxFragmentsAssumption
<1>2. PICK o : o = Proofs[n][i - 1].siblings OBVIOUS
<1>3. PICK s : s = Proofs[n][i].siblings OBVIOUS
<1>4. PICK D : D = {k \in 1 .. d : o[k] # s[k]} OBVIOUS
<1>5. w = IF D = {} THEN 0 ELSE CHOOSE k \in D : \A j \in D : j <= k
    <2>1. i # start OBVIOUS
    <2> QED BY <1>2, <1>3, <1>4, <2>1 DEF Written
<1>6. CASE D = {}
    <2>1. w = 0 BY <1>5, <1>6
    <2>2. \A k \in 1 .. d : o[k] = s[k] BY <1>4, <1>6
    <2> QED BY <1>1, <1>2, <1>3, <2>1, <2>2
<1>7. CASE D # {}
    <2> DEFINE Rest == {m \in Nat : \E k \in D : m = d - k}
    <2>1. Rest # {}
        <3>1. PICK k \in D : TRUE BY <1>7
        <3>2. k \in 1 .. d BY <1>4, <3>1
        <3>3. d - k \in Nat BY <1>1, <3>2
        <3> QED BY <3>1, <3>3
    <2>2. PICK m \in Rest : \A l \in Rest : m <= l BY <2>1, LeastNatural
    <2>3. PICK k \in D : m = d - k BY <2>2
    <2>4. ASSUME NEW j \in D PROVE j <= k
        <3>1. j \in 1 .. d /\ k \in 1 .. d BY <1>4, <2>3
        <3>2. d - j \in Nat BY <1>1, <3>1
        <3>3. d - j \in Rest BY <3>2
        <3>4. m <= d - j BY <2>2, <3>3
        <3> QED BY <1>1, <2>3, <3>1, <3>4
    <2>5. w \in D /\ \A j \in D : j <= w BY <1>5, <1>7, <2>3, <2>4
    <2>6. w \in 1 .. d BY <1>4, <2>5
    <2>7. ASSUME NEW j \in w + 1 .. d PROVE o[j] = s[j]
        <3>1. j \in 1 .. d /\ ~ (j <= w) BY <1>1, <2>6
        <3>2. j \notin D BY <2>5, <3>1
        <3> QED BY <1>4, <3>1, <3>2
    <2> QED BY <1>1, <1>2, <1>3, <2>6, <2>7
<1> QED BY <1>6, <1>7

\* the siblings that the reader of a message has before it reads fragment i
Before(n, start, i) == IF i = start THEN <<>> ELSE Proofs[n][i - 1].siblings

\* Reading the shortened proof of i after it gives the proof back.
LEMMA Shortened ==
    ASSUME NEW n \in 2 .. MaxFragments, NEW start \in Nat, NEW i \in 0 .. n - 1, start <= i
    PROVE  complete(SubSeq(Proofs[n][i].siblings, 1, Written(n, start, i)), Before(n, start, i))
             = Proofs[n][i].siblings
<1>1. PICK d : d = calTreeDepth(n) OBVIOUS
<1>2. PICK s : s = Proofs[n][i].siblings OBVIOUS
<1>3. PICK w : w = Written(n, start, i) OBVIOUS
<1>4. d \in Nat /\ s = [k \in 1 .. d |-> s[k]] BY <1>1, <1>2, SiblingsShape
<1>5. CASE i = start
    <2>1. w = d BY <1>1, <1>3, <1>5 DEF Written
    <2>2. Before(n, start, i) = <<>> BY <1>5 DEF Before
    <2>3. complete(SubSeq(s, 1, d), <<>>) = s BY <1>4, CompletedAlone
    <2> QED BY <1>2, <1>3, <2>1, <2>2, <2>3
<1>6. CASE i # start
    <2>1. start < i /\ i - 1 \in 0 .. n - 1 BY <1>6
    <2>2. PICK o : o = Proofs[n][i - 1].siblings OBVIOUS
    <2>3. o = [k \in 1 .. d |-> o[k]] BY <1>1, <2>1, <2>2, SiblingsShape
    <2>4. w \in 0 .. d /\ \A k \in w + 1 .. d : o[k] = s[k] BY <1>1, <1>2, <1>3, <2>1, <2>2, WrittenEnough
    <2>5. Before(n, start, i) = o BY <1>6, <2>2 DEF Before
    <2>6. complete(SubSeq(s, 1, w), o) = s BY <1>4, <2>3, <2>4, Completed
    <2> QED BY <1>2, <1>3, <2>5, <2>6
<1> QED BY <1>5, <1>6

\* the fragments of a message
LEMMA MessageLength ==
    ASSUME NEW n, NEW start \in Nat, NEW end \in Nat, start < end, NEW damaged
    PROVE  Len(serializeFragments(n, start, end, damaged)) = end - start
<1>1. PICK msg : msg = serializeFragments(n, start, end, damaged) OBVIOUS
<1>2. msg = [x \in 1 .. (end - start) |->
                [idx |-> start + x - 1, path |-> Proofs[n][start + x - 1].path,
                 data |-> IF damaged THEN Corrupted ELSE Digest(start + x - 1),
                 siblings |-> SubSeq(Proofs[n][start + x - 1].siblings, 1, Written(n, start, start + x - 1))]]
    BY <1>1, Zenon DEF serializeFragments
<1>3. end - start \in Nat OBVIOUS
<1>4. Len(msg) = end - start BY <1>2, <1>3
<1> QED BY <1>1, <1>4

LEMMA MessageItem ==
    ASSUME NEW n, NEW start \in Nat, NEW end \in Nat, NEW damaged, NEW i \in start .. end - 1
    PROVE  serializeFragments(n, start, end, damaged)[i - start + 1] =
                [idx |-> i, path |-> Proofs[n][i].path, data |-> IF damaged THEN Corrupted ELSE Digest(i),
                 siblings |-> SubSeq(Proofs[n][i].siblings, 1, Written(n, start, i))]
<1>1. PICK x : x = i - start + 1 OBVIOUS
<1>2. x \in 1 .. (end - start) /\ start + x - 1 = i BY <1>1
<1>3. serializeFragments(n, start, end, damaged)[x] =
                [idx |-> start + x - 1, path |-> Proofs[n][start + x - 1].path,
                 data |-> IF damaged THEN Corrupted ELSE Digest(start + x - 1),
                 siblings |-> SubSeq(Proofs[n][start + x - 1].siblings, 1, Written(n, start, start + x - 1))]
    BY <1>2, Zenon DEF serializeFragments
<1> QED BY <1>1, <1>2, <1>3, Zenon

-----------------------------------------------------------------------------
(* A message is read into a context.                                         *)

ReadStart(c) ==
    [ok |-> TRUE, prev |-> <<>>, kept |-> <<>>, useKept |-> FALSE, guarded |-> c.guarded, loaded |-> c.loaded]

\* the states of the loop
IsRead(t, last, c, n, root, msg) ==
    t = [x \in 0 .. last |-> IF x = 0 THEN ReadStart(c) ELSE readFragment(t[x - 1], msg[x], n, root)]

LEMMA ReadRead ==
    \A c, n, root, msg :
        validateAndDeserializeFragments(c, n, root, msg) =
            [ok |-> (CHOOSE t : IsRead(t, Len(msg), c, n, root, msg))[Len(msg)].ok,
             ctx |-> [guarded |-> (CHOOSE t : IsRead(t, Len(msg), c, n, root, msg))[Len(msg)].guarded,
                      loaded |-> (CHOOSE t : IsRead(t, Len(msg), c, n, root, msg))[Len(msg)].loaded]]
BY ZenonT(60) DEF validateAndDeserializeFragments, IsRead, ReadStart

\* the states exist
LEMMA ReadExists == ASSUME NEW c, NEW n, NEW root, NEW msg, NEW last \in Nat PROVE \E t : IsRead(t, last, c, n, root, msg)
<1> DEFINE Missing == {m \in Nat : ~ \E t : IsRead(t, m, c, n, root, msg)}
<1>1. Missing = {}
    <2> SUFFICES ASSUME Missing # {} PROVE FALSE OBVIOUS
    <2>1. PICK m \in Missing : \A l \in Missing : m <= l BY LeastNatural
    <2>2. m # 0
        <3>1. IsRead([k \in 0 .. 0 |-> ReadStart(c)], 0, c, n, root, msg) BY DEF IsRead
        <3> QED BY <3>1
    <2>3. m \in Nat /\ m - 1 \in Nat /\ m - 1 \notin Missing BY <2>1, <2>2
    <2>4. PICK t : IsRead(t, m - 1, c, n, root, msg) BY <2>3
    <2> DEFINE u == [k \in 0 .. m |-> IF k = m THEN readFragment(t[m - 1], msg[m], n, root) ELSE t[k]]
    <2>5. ASSUME NEW k \in 0 .. m PROVE u[k] = IF k = 0 THEN ReadStart(c) ELSE readFragment(u[k - 1], msg[k], n, root)
        <3>1. u[k] = IF k = m THEN readFragment(t[m - 1], msg[m], n, root) ELSE t[k] OBVIOUS
        <3>2. k # 0 => k - 1 \in 0 .. m /\ k - 1 # m BY <2>3
        <3>3. k # 0 => u[k - 1] = t[k - 1] BY <3>2
        <3>4. CASE k = m BY <2>2, <3>1, <3>3, <3>4
        <3>5. CASE k # m
            <4>1. k \in 0 .. m - 1 BY <2>3, <3>5
            <4>2. t[k] = IF k = 0 THEN ReadStart(c) ELSE readFragment(t[k - 1], msg[k], n, root) BY <2>4, <4>1 DEF IsRead
            <4> HIDE DEF u
            <4> QED BY <3>1, <3>3, <3>5, <4>2
        <3> QED BY <3>4, <3>5
    <2>6. u = [k \in 0 .. m |-> u[k]] OBVIOUS
    <2> HIDE DEF u
    <2>7. IsRead(u, m, c, n, root, msg) BY <2>5, <2>6 DEF IsRead
    <2> QED BY <2>7
<1> QED BY <1>1

\* the run of the loop over a message, and what is returned after its last state
IsRun(t, c, n, root, msg) ==
    /\ t[0] = ReadStart(c)
    /\ \A x \in 1 .. Len(msg) : t[x] = readFragment(t[x - 1], msg[x], n, root)

Outcome(z) == [ok |-> z.ok, ctx |-> [guarded |-> z.guarded, loaded |-> z.loaded]]

\* The outcome is that of the loop.
LEMMA ReadLoop ==
    ASSUME NEW c, NEW n, NEW root, NEW msg, Len(msg) \in Nat
    PROVE  \E t : /\ IsRun(t, c, n, root, msg)
                  /\ validateAndDeserializeFragments(c, n, root, msg) = Outcome(t[Len(msg)])
<1>1. PICK last : last = Len(msg) OBVIOUS
<1>2. PICK t : t = CHOOSE u : IsRead(u, last, c, n, root, msg) OBVIOUS
<1>3. IsRead(t, last, c, n, root, msg) BY <1>1, <1>2, ReadExists
<1>4. t[0] = ReadStart(c) BY <1>1, <1>3 DEF IsRead
<1>5. ASSUME NEW x \in 1 .. last PROVE t[x] = readFragment(t[x - 1], msg[x], n, root)
    <2>1. x \in 0 .. last /\ x # 0 BY <1>1
    <2> QED BY <1>3, <2>1 DEF IsRead
<1>6. validateAndDeserializeFragments(c, n, root, msg) = Outcome(t[last])
    BY <1>1, <1>2, ReadRead, Zenon DEF Outcome
<1>7. IsRun(t, c, n, root, msg) BY <1>1, <1>4, <1>5 DEF IsRun
<1> QED BY <1>1, <1>6, <1>7, Zenon

IsReader(st) ==
    /\ st = [ok |-> st.ok, prev |-> st.prev, kept |-> st.kept, useKept |-> st.useKept,
             guarded |-> st.guarded, loaded |-> st.loaded]
    /\ st.ok \in BOOLEAN /\ st.useKept \in BOOLEAN

\* the last proof that has been read
LastProof(st) == IF st.useKept THEN st.kept ELSE st.prev

\* the states after a guarded fragment, and after another one
AfterSkip(st, kept) ==
    [ok |-> TRUE, prev |-> <<>>, kept |-> kept, useKept |-> TRUE, guarded |-> st.guarded, loaded |-> st.loaded]
AfterLoad(st, i, full) ==
    [ok |-> TRUE, prev |-> full, kept |-> st.kept, useKept |-> FALSE,
     guarded |-> st.guarded \cup {i}, loaded |-> st.loaded \cup {i}]
AfterFailure(st, i, full) ==
    [ok |-> FALSE, prev |-> full, kept |-> st.kept, useKept |-> FALSE,
     guarded |-> st.guarded \cup {i}, loaded |-> st.loaded]

LEMMA Skipped ==
    ASSUME NEW st, IsReader(st), st.ok, st.prev = <<>>, NEW f, f.idx \in st.guarded, NEW n, NEW root
    PROVE  readFragment(st, f, n, root) = AfterSkip(st, complete(f.siblings, st.kept))
<1>1. readFragment(st, f, n, root) = skipFragment(st, f) BY DEF readFragment
<1>2. PICK k : k = complete(f.siblings, st.kept) OBVIOUS
<1>3. skipFragment(st, f) = [st EXCEPT !.kept = k, !.useKept = TRUE] BY <1>2 DEF skipFragment
<1>4. skipFragment(st, f) = AfterSkip(st, k) BY <1>3 DEF IsReader, AfterSkip
<1> QED BY <1>1, <1>2, <1>4, Zenon

LEMMA Loaded ==
    ASSUME NEW st, IsReader(st), st.ok, NEW f, f.idx \notin st.guarded, NEW n, NEW root,
           NEW full, full = complete(f.siblings, LastProof(st)), Len(full) = calTreeDepth(n),
           Verify(f.data, [path |-> f.path, siblings |-> full], root)
    PROVE  readFragment(st, f, n, root) = AfterLoad(st, f.idx, full)
<1>1. readFragment(st, f, n, root) = loadFragment(st, f, n, root) BY DEF readFragment
<1>2. loadFragment(st, f, n, root) =
        [st EXCEPT !.guarded = st.guarded \cup {f.idx}, !.prev = full, !.useKept = FALSE,
                   !.loaded = st.loaded \cup {f.idx}, !.ok = TRUE]
    BY DEF loadFragment, LastProof
<1> QED BY <1>1, <1>2 DEF IsReader, AfterLoad

LEMMA NotLoaded ==
    ASSUME NEW st, IsReader(st), st.ok, NEW f, f.idx \notin st.guarded, NEW n, NEW root,
           NEW full, full = complete(f.siblings, LastProof(st)),
           ~ Verify(f.data, [path |-> f.path, siblings |-> full], root)
    PROVE  readFragment(st, f, n, root) = AfterFailure(st, f.idx, full)
<1>1. readFragment(st, f, n, root) = loadFragment(st, f, n, root) BY DEF readFragment
<1>2. loadFragment(st, f, n, root) =
        [st EXCEPT !.guarded = st.guarded \cup {f.idx}, !.prev = full, !.useKept = FALSE,
                   !.loaded = st.loaded, !.ok = FALSE]
    BY DEF loadFragment, LastProof
<1> QED BY <1>1, <1>2 DEF IsReader, AfterFailure

\* the bytes of fragment i are its own exactly if they have not been changed
Intact(f, n, i) == Verify(f.data, [path |-> f.path, siblings |-> Proofs[n][i].siblings], Root(n))

Changed(damaged) == damaged

\* Fragment i of a message, intact or damaged, as the reader meets it when it has
\* the proof before: it gets the whole proof, and finds out about the bytes.
LEMMA FragmentRead ==
    ASSUME NEW n \in 2 .. MaxFragments, NEW start \in Nat, NEW end \in Nat, start < end, end <= n,
           NEW damaged \in BOOLEAN, NEW i \in start .. end - 1,
           NEW f, f = serializeFragments(n, start, end, damaged)[i - start + 1]
    PROVE  /\ f.idx = i /\ complete(f.siblings, Before(n, start, i)) = Proofs[n][i].siblings
           /\ Len(Proofs[n][i].siblings) = calTreeDepth(n)
           /\ Changed(damaged) => ~ Intact(f, n, i)
           /\ ~ Changed(damaged) => Intact(f, n, i)
<1>1. i \in 0 .. n - 1 /\ start <= i BY MaxFragmentsAssumption
<1>2. f = [idx |-> i, path |-> Proofs[n][i].path, data |-> IF damaged THEN Corrupted ELSE Digest(i),
           siblings |-> SubSeq(Proofs[n][i].siblings, 1, Written(n, start, i))]
    BY MessageItem, ZenonT(60)
<1>3. /\ f.idx = i /\ f.path = Proofs[n][i].path /\ f.data = (IF damaged THEN Corrupted ELSE Digest(i))
      /\ f.siblings = SubSeq(Proofs[n][i].siblings, 1, Written(n, start, i))
    <2>1. PICK dt : dt = IF damaged THEN Corrupted ELSE Digest(i) OBVIOUS
    <2>2. PICK pt : pt = Proofs[n][i].path OBVIOUS
    <2>3. PICK sb : sb = SubSeq(Proofs[n][i].siblings, 1, Written(n, start, i)) OBVIOUS
    <2>4. f = [idx |-> i, path |-> pt, data |-> dt, siblings |-> sb] BY <1>2, <2>1, <2>2, <2>3, Zenon
    <2>5. f.idx = i /\ f.path = pt /\ f.data = dt /\ f.siblings = sb BY <2>4
    <2> QED BY <2>1, <2>2, <2>3, <2>5, Zenon
<1>4. complete(f.siblings, Before(n, start, i)) = Proofs[n][i].siblings BY <1>1, <1>3, Shortened
<1>5. PICK s : s = Proofs[n][i].siblings OBVIOUS
<1>6. Len(s) = calTreeDepth(n) /\ s # <<>> BY <1>1, <1>5, SiblingsShape
<1>7. Corrupted # Digest(i)
    <2>1. Corrupted[1] = -1 /\ Digest(i)[1] = i BY DEF Corrupted, Digest
    <2> QED BY <1>1, <2>1
<1>8. f.data = Digest(i) <=> ~ damaged BY <1>3, <1>7
<1>9. Verify(f.data, [path |-> Proofs[n][i].path, siblings |-> Proofs[n][i].siblings], Root(n)) <=> f.data = Digest(i)
    BY <1>1, ProofVerifies
<1>10. Intact(f, n, i) <=> ~ Changed(damaged) BY <1>3, <1>8, <1>9 DEF Intact, Changed
<1> QED BY <1>1, <1>3, <1>4, <1>5, <1>6, <1>10

\* The guarded fragments of a piece are its first ones.
FirstGuarded(guarded, start, end) ==
    \A i, j \in start .. end - 1 : i \in guarded /\ j < i => j \in guarded

GoodAt(st, c, n, start, i) ==
    /\ IsReader(st) /\ st.ok
    /\ st.guarded = c.guarded \cup (start .. i - 1)
    /\ st.loaded = c.loaded \cup ((start .. i - 1) \ c.guarded)
    /\ LastProof(st) = Before(n, start, i)
    /\ \/ st.prev = <<>> /\ st.kept = Before(n, start, i)
       \/ i > start /\ i - 1 \notin c.guarded

LEMMA GoodStart == ASSUME NEW c, NEW n, NEW start \in Nat PROVE GoodAt(ReadStart(c), c, n, start, start)
<1>1. start .. start - 1 = {} OBVIOUS
<1>2. Before(n, start, start) = <<>> BY DEF Before
<1> QED BY <1>1, <1>2 DEF GoodAt, ReadStart, IsReader, LastProof

LEMMA BeforeNext ==
    ASSUME NEW n, NEW start \in Nat, NEW i \in Nat, start <= i
    PROVE  Before(n, start, i + 1) = Proofs[n][i].siblings
<1>1. i + 1 # start /\ i + 1 - 1 = i OBVIOUS
<1> QED BY <1>1 DEF Before

\* a guarded fragment, intact or damaged, while the loop goes well
LEMMA GoodSkip ==
    ASSUME NEW n \in 2 .. MaxFragments, NEW start \in Nat, NEW end \in Nat, start < end, end <= n,
           NEW c, FirstGuarded(c.guarded, start, end), NEW root,
           NEW i \in start .. end - 1, NEW st, GoodAt(st, c, n, start, i), i \in c.guarded,
           NEW f, f.idx = i, complete(f.siblings, Before(n, start, i)) = Proofs[n][i].siblings
    PROVE  GoodAt(readFragment(st, f, n, root), c, n, start, i + 1)
<1>1. PICK s : s = Proofs[n][i].siblings OBVIOUS
<1>2. Before(n, start, i + 1) = s /\ start .. i + 1 - 1 = (start .. i - 1) \cup {i} /\ i \notin start .. i - 1
    <2>1. i \in Nat /\ start <= i OBVIOUS
    <2>2. Before(n, start, i + 1) = Proofs[n][i].siblings BY <2>1, BeforeNext, Zenon
    <2>3. start .. i + 1 - 1 = (start .. i - 1) \cup {i} /\ i \notin start .. i - 1 BY <2>1
    <2> QED BY <1>1, <2>2, <2>3, Zenon
<1>3. IsReader(st) /\ st.ok /\ st.guarded = c.guarded \cup (start .. i - 1)
      /\ st.loaded = c.loaded \cup ((start .. i - 1) \ c.guarded)
    BY Zenon DEF GoodAt
<1>4. ~ (i > start /\ i - 1 \notin c.guarded)
    <2>1. ASSUME i > start PROVE i - 1 \in c.guarded
        <3>1. i - 1 \in start .. end - 1 /\ i - 1 < i BY <2>1
        <3> QED BY <3>1 DEF FirstGuarded
    <2> QED BY <2>1
<1>5. st.prev = <<>> /\ st.kept = Before(n, start, i) BY <1>4, Zenon DEF GoodAt
<1>6. f.idx \in st.guarded BY <1>3
<1>7. readFragment(st, f, n, root) = AfterSkip(st, complete(f.siblings, st.kept)) BY <1>3, <1>5, <1>6, Skipped, Zenon
<1>8. readFragment(st, f, n, root) = AfterSkip(st, s) BY <1>1, <1>5, <1>7, Zenon
<1>9. PICK z : z = AfterSkip(st, s) OBVIOUS
<1>10. z.ok = TRUE /\ z.prev = <<>> /\ z.kept = s /\ z.useKept = TRUE /\ z.guarded = st.guarded /\ z.loaded = st.loaded
       /\ IsReader(z)
    BY <1>9 DEF AfterSkip, IsReader
<1>11. z.guarded = c.guarded \cup (start .. i + 1 - 1) BY <1>2, <1>3, <1>10
<1>12. z.loaded = c.loaded \cup ((start .. i + 1 - 1) \ c.guarded) BY <1>2, <1>3, <1>10
<1>13. GoodAt(z, c, n, start, i + 1) BY <1>2, <1>10, <1>11, <1>12 DEF GoodAt, LastProof
<1> QED BY <1>8, <1>9, <1>13, Zenon

\* a fragment that verifies
LEMMA GoodLoad ==
    ASSUME NEW n \in 2 .. MaxFragments, NEW start \in Nat, NEW end \in Nat, start < end, end <= n,
           NEW c, NEW i \in start .. end - 1, NEW st, GoodAt(st, c, n, start, i), i \notin c.guarded,
           NEW f, f.idx = i, complete(f.siblings, Before(n, start, i)) = Proofs[n][i].siblings,
           Len(Proofs[n][i].siblings) = calTreeDepth(n), Intact(f, n, i)
    PROVE  GoodAt(readFragment(st, f, n, Root(n)), c, n, start, i + 1)
<1>1. PICK s : s = Proofs[n][i].siblings OBVIOUS
<1>2. Before(n, start, i + 1) = s /\ start .. i + 1 - 1 = (start .. i - 1) \cup {i} /\ i \notin start .. i - 1
    <2>1. i \in Nat /\ start <= i OBVIOUS
    <2>2. Before(n, start, i + 1) = Proofs[n][i].siblings BY <2>1, BeforeNext, Zenon
    <2>3. start .. i + 1 - 1 = (start .. i - 1) \cup {i} /\ i \notin start .. i - 1 BY <2>1
    <2> QED BY <1>1, <2>2, <2>3, Zenon
<1>3. IsReader(st) /\ st.ok /\ st.guarded = c.guarded \cup (start .. i - 1)
      /\ st.loaded = c.loaded \cup ((start .. i - 1) \ c.guarded) /\ LastProof(st) = Before(n, start, i)
    BY Zenon DEF GoodAt
<1>4. f.idx \notin st.guarded BY <1>2, <1>3
<1>5. s = complete(f.siblings, LastProof(st)) /\ Len(s) = calTreeDepth(n) BY <1>1, <1>3, Zenon
<1>6. Verify(f.data, [path |-> f.path, siblings |-> s], Root(n)) BY <1>1, Zenon DEF Intact
<1>7. readFragment(st, f, n, Root(n)) = AfterLoad(st, f.idx, s) 
    <2>1. IsReader(st) /\ st.ok BY <1>3, Zenon
    <2> QED BY <2>1, <1>4, <1>5, <1>6, Loaded, Zenon
<1>8. readFragment(st, f, n, Root(n)) = AfterLoad(st, i, s) BY <1>7, Zenon
<1>9. PICK z : z = AfterLoad(st, i, s) OBVIOUS
<1>10. z.ok = TRUE /\ z.prev = s /\ z.useKept = FALSE /\ z.guarded = st.guarded \cup {i} /\ z.loaded = st.loaded \cup {i}
       /\ IsReader(z)
    BY <1>9 DEF AfterLoad, IsReader
<1>11. z.guarded = c.guarded \cup (start .. i + 1 - 1) BY <1>2, <1>3, <1>10
<1>12. z.loaded = c.loaded \cup ((start .. i + 1 - 1) \ c.guarded) BY <1>2, <1>3, <1>10
<1>13. i + 1 > start /\ i + 1 - 1 = i OBVIOUS
<1>14. GoodAt(z, c, n, start, i + 1) BY <1>2, <1>10, <1>11, <1>12, <1>13 DEF GoodAt, LastProof
<1> QED BY <1>8, <1>9, <1>14, Zenon

LEMMA GoodNext ==
    ASSUME NEW n \in 2 .. MaxFragments, NEW start \in Nat, NEW end \in Nat, start < end, end <= n,
           NEW damaged \in BOOLEAN, ~ Changed(damaged), NEW i \in start .. end - 1,
           NEW c, FirstGuarded(c.guarded, start, end), NEW st, GoodAt(st, c, n, start, i),
           NEW f, f = serializeFragments(n, start, end, damaged)[i - start + 1]
    PROVE  GoodAt(readFragment(st, f, n, Root(n)), c, n, start, i + 1)
<1>1. /\ f.idx = i /\ complete(f.siblings, Before(n, start, i)) = Proofs[n][i].siblings
      /\ Len(Proofs[n][i].siblings) = calTreeDepth(n)
      /\ Changed(damaged) => ~ Intact(f, n, i)
      /\ ~ Changed(damaged) => Intact(f, n, i)
    BY FragmentRead
<1>2. CASE i \in c.guarded BY <1>1, <1>2, GoodSkip, Zenon
<1>3. CASE i \notin c.guarded BY <1>1, <1>3, GoodLoad, Zenon
<1> QED BY <1>2, <1>3

\* An intact message is accepted.
LEMMA IntactAccepted ==
    ASSUME NEW n \in 2 .. MaxFragments, NEW start \in Nat, NEW end \in Nat, start < end, end <= n,
           NEW c, FirstGuarded(c.guarded, start, end), NEW damaged \in BOOLEAN, ~ Changed(damaged),
           NEW res, res = validateAndDeserializeFragments(c, n, Root(n), serializeFragments(n, start, end, damaged))
    PROVE  /\ res.ok
           /\ res.ctx.guarded = c.guarded \cup (start .. end - 1)
           /\ res.ctx.loaded = c.loaded \cup ((start .. end - 1) \ c.guarded)
<1>1. PICK msg : msg = serializeFragments(n, start, end, damaged) OBVIOUS
<1>2. Len(serializeFragments(n, start, end, damaged)) = end - start BY MessageLength, Zenon
<1>3. Len(msg) = end - start /\ Len(msg) \in Nat BY <1>1, <1>2
<1>4. PICK t : IsRun(t, c, n, Root(n), msg)
               /\ validateAndDeserializeFragments(c, n, Root(n), msg) = Outcome(t[Len(msg)])
    BY <1>3, ReadLoop, Zenon
<1>5. res = Outcome(t[end - start]) BY <1>1, <1>3, <1>4, Zenon
<1>6. t[0] = ReadStart(c) BY <1>4 DEF IsRun
<1>7. \A x \in 1 .. end - start : t[x] = readFragment(t[x - 1], msg[x], n, Root(n)) BY <1>3, <1>4, Zenon DEF IsRun
<1>8. ASSUME NEW i \in start .. end - 1, NEW st, GoodAt(st, c, n, start, i)
      PROVE  GoodAt(readFragment(st, msg[i - start + 1], n, Root(n)), c, n, start, i + 1)
    <2>1. PICK f : f = msg[i - start + 1] OBVIOUS
    <2>2. f = serializeFragments(n, start, end, damaged)[i - start + 1] BY <1>1, <2>1, Zenon
    <2> QED BY <1>8, <2>1, <2>2, GoodNext, Zenon
<1> DEFINE Wrong == {x \in Nat : x \in 0 .. end - start /\ ~ GoodAt(t[x], c, n, start, start + x)}
<1>9. Wrong = {}
    <2> SUFFICES ASSUME Wrong # {} PROVE FALSE OBVIOUS
    <2>1. PICK x \in Wrong : \A l \in Wrong : x <= l BY LeastNatural
    <2>2. x \in 0 .. end - start /\ ~ GoodAt(t[x], c, n, start, start + x) BY <2>1
    <2>3. x # 0
        <3>1. start + 0 = start OBVIOUS
        <3>2. GoodAt(t[0], c, n, start, start) BY <1>6, GoodStart, Zenon
        <3> QED BY <2>2, <3>1, <3>2
    <2>4. x - 1 \in 0 .. end - start /\ ~ (x <= x - 1) /\ x \in 1 .. end - start BY <2>2, <2>3
    <2>5. GoodAt(t[x - 1], c, n, start, start + (x - 1)) BY <2>1, <2>4
    <2>6. PICK i : i = start + (x - 1) OBVIOUS
    <2>7. i \in start .. end - 1 /\ i - start + 1 = x /\ i + 1 = start + x BY <2>4, <2>6
    <2>8. t[x] = readFragment(t[x - 1], msg[i - start + 1], n, Root(n)) BY <1>7, <2>4, <2>7, Zenon
    <2>9. GoodAt(t[x], c, n, start, i + 1) BY <1>8, <2>5, <2>6, <2>7, <2>8, Zenon
    <2> QED BY <2>2, <2>7, <2>9, Zenon
<1>10. GoodAt(t[end - start], c, n, start, end)
    <2>1. end - start \in 0 .. end - start /\ end - start \in Nat /\ start + (end - start) = end OBVIOUS
    <2>2. end - start \notin Wrong BY <1>9
    <2>3. GoodAt(t[end - start], c, n, start, start + (end - start)) BY <2>1, <2>2
    <2> QED BY <2>1, <2>3, Zenon
<1>11. PICK z : z = t[end - start] OBVIOUS
<1>12. res.ok = z.ok /\ res.ctx.guarded = z.guarded /\ res.ctx.loaded = z.loaded BY <1>5, <1>11 DEF Outcome
<1>13. z.ok /\ z.guarded = c.guarded \cup (start .. end - 1)
       /\ z.loaded = c.loaded \cup ((start .. end - 1) \ c.guarded)
    BY <1>10, <1>11, Zenon DEF GoodAt
<1> QED BY <1>12, <1>13

-----------------------------------------------------------------------------
(* A damaged message: its guarded fragments are skipped, and it is refused   *)
(* at the first other one.                                                   *)

Failed(st, c, start, end) ==
    /\ ~ st.ok /\ st.loaded = c.loaded
    /\ \E j \in start .. end - 1 : st.guarded = c.guarded \cup {j} /\ start .. j - 1 \subseteq c.guarded

Skipping(st, c, n, start, i) == GoodAt(st, c, n, start, i) /\ start .. i - 1 \subseteq c.guarded

LEMMA BadSkip ==
    ASSUME NEW n \in 2 .. MaxFragments, NEW start \in Nat, NEW end \in Nat, start < end, end <= n,
           NEW c, FirstGuarded(c.guarded, start, end), NEW root,
           NEW i \in start .. end - 1, NEW st, Skipping(st, c, n, start, i), i \in c.guarded,
           NEW f, f.idx = i, complete(f.siblings, Before(n, start, i)) = Proofs[n][i].siblings
    PROVE  Skipping(readFragment(st, f, n, root), c, n, start, i + 1)
<1>1. GoodAt(st, c, n, start, i) /\ start .. i - 1 \subseteq c.guarded BY Zenon DEF Skipping
<1>2. GoodAt(readFragment(st, f, n, root), c, n, start, i + 1) BY <1>1, GoodSkip, Zenon
<1>3. start .. i + 1 - 1 = (start .. i - 1) \cup {i} OBVIOUS
<1>4. start .. i + 1 - 1 \subseteq c.guarded BY <1>1, <1>3
<1> QED BY <1>2, <1>4 DEF Skipping

LEMMA BadLoad ==
    ASSUME NEW n \in 2 .. MaxFragments, NEW start \in Nat, NEW end \in Nat, start < end, end <= n,
           NEW c, NEW i \in start .. end - 1, NEW st, Skipping(st, c, n, start, i), i \notin c.guarded,
           NEW f, f.idx = i, complete(f.siblings, Before(n, start, i)) = Proofs[n][i].siblings,
           ~ Intact(f, n, i)
    PROVE  Failed(readFragment(st, f, n, Root(n)), c, start, end)
<1>1. PICK s : s = Proofs[n][i].siblings OBVIOUS
<1>2. start .. i - 1 \subseteq c.guarded BY Zenon DEF Skipping
<1>3. IsReader(st) /\ st.ok /\ st.guarded = c.guarded \cup (start .. i - 1)
      /\ st.loaded = c.loaded \cup ((start .. i - 1) \ c.guarded) /\ LastProof(st) = Before(n, start, i)
    BY Zenon DEF GoodAt, Skipping
<1>4. st.guarded = c.guarded /\ st.loaded = c.loaded /\ f.idx \notin st.guarded BY <1>2, <1>3
<1>5. s = complete(f.siblings, LastProof(st)) BY <1>1, <1>3, Zenon
<1>6. ~ Verify(f.data, [path |-> f.path, siblings |-> s], Root(n)) BY <1>1, Zenon DEF Intact
<1>7. readFragment(st, f, n, Root(n)) = AfterFailure(st, f.idx, s) 
    <2>1. IsReader(st) /\ st.ok BY <1>3, Zenon
    <2>2. f.idx \notin st.guarded BY <1>4, Zenon
    <2> QED BY <2>1, <2>2, <1>5, <1>6, NotLoaded, Zenon
<1>8. readFragment(st, f, n, Root(n)) = AfterFailure(st, i, s) BY <1>7, Zenon
<1>9. PICK z : z = AfterFailure(st, i, s) OBVIOUS
<1>10. z.ok = FALSE /\ z.guarded = st.guarded \cup {i} /\ z.loaded = st.loaded BY <1>9 DEF AfterFailure
<1>11. Failed(z, c, start, end) BY <1>2, <1>4, <1>10 DEF Failed
<1> QED BY <1>8, <1>9, <1>11, Zenon

BadAt(st, c, n, start, end, i) == Skipping(st, c, n, start, i) \/ Failed(st, c, start, end)

LEMMA BadNext ==
    ASSUME NEW n \in 2 .. MaxFragments, NEW start \in Nat, NEW end \in Nat, start < end, end <= n,
           NEW damaged \in BOOLEAN, Changed(damaged), NEW i \in start .. end - 1,
           NEW c, FirstGuarded(c.guarded, start, end), NEW st, BadAt(st, c, n, start, end, i),
           NEW f, f = serializeFragments(n, start, end, damaged)[i - start + 1]
    PROVE  BadAt(readFragment(st, f, n, Root(n)), c, n, start, end, i + 1)
<1>1. /\ f.idx = i /\ complete(f.siblings, Before(n, start, i)) = Proofs[n][i].siblings
      /\ Len(Proofs[n][i].siblings) = calTreeDepth(n)
      /\ Changed(damaged) => ~ Intact(f, n, i)
      /\ ~ Changed(damaged) => Intact(f, n, i)
    BY FragmentRead
<1>2. CASE Skipping(st, c, n, start, i) /\ i \in c.guarded
    <2>1. Skipping(readFragment(st, f, n, Root(n)), c, n, start, i + 1) BY <1>1, <1>2, BadSkip, Zenon
    <2> QED BY <2>1, Zenon DEF BadAt
<1>3. CASE Skipping(st, c, n, start, i) /\ i \notin c.guarded
    <2>1. Failed(readFragment(st, f, n, Root(n)), c, start, end) BY <1>1, <1>3, BadLoad, Zenon
    <2> QED BY <2>1, Zenon DEF BadAt
<1>4. CASE Failed(st, c, start, end)
    <2>1. ~ st.ok BY <1>4 DEF Failed
    <2>2. readFragment(st, f, n, Root(n)) = st BY <2>1 DEF readFragment
    <2> QED BY <1>4, <2>2, Zenon DEF BadAt
<1> QED BY <1>2, <1>3, <1>4, Zenon DEF BadAt

\* Nothing of a damaged message is loaded, and the guarded fragments of its piece
\* are still the first ones.
LEMMA DamagedDropped ==
    ASSUME NEW n \in 2 .. MaxFragments, NEW start \in Nat, NEW end \in Nat, start < end, end <= n,
           NEW c, FirstGuarded(c.guarded, start, end), NEW damaged \in BOOLEAN, Changed(damaged),
           NEW res, res = validateAndDeserializeFragments(c, n, Root(n), serializeFragments(n, start, end, damaged))
    PROVE  /\ res.ctx.loaded = c.loaded
           /\ \/ res.ctx.guarded = c.guarded
              \/ \E j \in start .. end - 1 : res.ctx.guarded = c.guarded \cup {j} /\ start .. j - 1 \subseteq c.guarded
<1>1. PICK msg : msg = serializeFragments(n, start, end, damaged) OBVIOUS
<1>2. Len(serializeFragments(n, start, end, damaged)) = end - start BY MessageLength, Zenon
<1>3. Len(msg) = end - start /\ Len(msg) \in Nat BY <1>1, <1>2
<1>4. PICK t : IsRun(t, c, n, Root(n), msg)
               /\ validateAndDeserializeFragments(c, n, Root(n), msg) = Outcome(t[Len(msg)])
    BY <1>3, ReadLoop, Zenon
<1>5. res = Outcome(t[end - start]) BY <1>1, <1>3, <1>4, Zenon
<1>6. t[0] = ReadStart(c) BY <1>4 DEF IsRun
<1>7. \A x \in 1 .. end - start : t[x] = readFragment(t[x - 1], msg[x], n, Root(n)) BY <1>3, <1>4, Zenon DEF IsRun
<1>8. ASSUME NEW i \in start .. end - 1, NEW st, BadAt(st, c, n, start, end, i)
      PROVE  BadAt(readFragment(st, msg[i - start + 1], n, Root(n)), c, n, start, end, i + 1)
    <2>1. PICK f : f = msg[i - start + 1] OBVIOUS
    <2>2. f = serializeFragments(n, start, end, damaged)[i - start + 1] BY <1>1, <2>1, Zenon
    <2> QED BY <1>8, <2>1, <2>2, BadNext, Zenon
<1> DEFINE Wrong == {x \in Nat : x \in 0 .. end - start /\ ~ BadAt(t[x], c, n, start, end, start + x)}
<1>9. Wrong = {}
    <2> SUFFICES ASSUME Wrong # {} PROVE FALSE OBVIOUS
    <2>1. PICK x \in Wrong : \A l \in Wrong : x <= l BY LeastNatural
    <2>2. x \in 0 .. end - start /\ ~ BadAt(t[x], c, n, start, end, start + x) BY <2>1
    <2>3. x # 0
        <3>1. start + 0 = start /\ start .. start - 1 = {} OBVIOUS
        <3>2. GoodAt(t[0], c, n, start, start) BY <1>6, GoodStart, Zenon
        <3>3. BadAt(t[0], c, n, start, end, start) BY <3>1, <3>2 DEF BadAt, Skipping
        <3> QED BY <2>2, <3>1, <3>3
    <2>4. x - 1 \in 0 .. end - start /\ ~ (x <= x - 1) /\ x \in 1 .. end - start BY <2>2, <2>3
    <2>5. BadAt(t[x - 1], c, n, start, end, start + (x - 1)) BY <2>1, <2>4
    <2>6. PICK i : i = start + (x - 1) OBVIOUS
    <2>7. i \in start .. end - 1 /\ i - start + 1 = x /\ i + 1 = start + x BY <2>4, <2>6
    <2>8. t[x] = readFragment(t[x - 1], msg[i - start + 1], n, Root(n)) BY <1>7, <2>4, <2>7, Zenon
    <2>9. BadAt(t[x], c, n, start, end, i + 1) BY <1>8, <2>5, <2>6, <2>7, <2>8, Zenon
    <2> QED BY <2>2, <2>7, <2>9, Zenon
<1>10. BadAt(t[end - start], c, n, start, end, end)
    <2>1. end - start \in 0 .. end - start /\ end - start \in Nat /\ start + (end - start) = end OBVIOUS
    <2>2. end - start \notin Wrong BY <1>9
    <2>3. BadAt(t[end - start], c, n, start, end, start + (end - start)) BY <2>1, <2>2
    <2> QED BY <2>1, <2>3, Zenon
<1>11. PICK z : z = t[end - start] OBVIOUS
<1>12. res.ctx.guarded = z.guarded /\ res.ctx.loaded = z.loaded BY <1>5, <1>11 DEF Outcome
<1>13. CASE Skipping(z, c, n, start, end)
    <2>1. z.guarded = c.guarded \cup (start .. end - 1) /\ z.loaded = c.loaded \cup ((start .. end - 1) \ c.guarded)
          /\ start .. end - 1 \subseteq c.guarded
        BY <1>13, Zenon DEF Skipping, GoodAt
    <2>2. z.guarded = c.guarded /\ z.loaded = c.loaded BY <2>1
    <2> QED BY <1>12, <2>2, Zenon
<1>14. CASE Failed(z, c, start, end) BY <1>12, <1>14, Zenon DEF Failed
<1> QED BY <1>10, <1>11, <1>13, <1>14, Zenon DEF BadAt

-----------------------------------------------------------------------------
(* The pieces of the block that is being rebuilt.                            *)

\* A piece is a part of the block, and what is sent for it.
PieceFits(p, n, messages) ==
    /\ p.start \in Nat /\ p.end \in Nat /\ p.start < p.end /\ p.end <= n
    /\ \A d \in BOOLEAN : messages[p][d] = serializeFragments(n, p.start, p.end, d)

\* two fragments at least, unless there is one node on either side
LEMMA TwoFragments ==
    ASSUME NEW m \in Nat \ {0}, NEW n \in Nat \ {0}, NEW total, NEW loc, NEW rem, Shares(m, n, total, loc, rem),
           m # 1 \/ n # 1
    PROVE  total > 1
<1>1. total \in Nat \ {0} /\ loc \in Nat \ {0} /\ rem \in Nat \ {0} /\ total = loc * m /\ total = rem * n
    BY DEF Shares
<1>2. ASSUME NEW a \in Nat \ {0}, NEW b \in Nat \ {0}, b # 1 PROVE a * b > 1 BY <1>2
<1> QED BY <1>1, <1>2

LEMMA PiecesFit ==
    ASSUME size \in SizesUpTo, Total > 1, NEW p \in Pieces
    PROVE  Total \in Nat /\ PieceFits(p, Total, Messages)
<1>1. PICK m \in 1 .. MaxNodes, n \in 1 .. MaxNodes : size = <<m, n>> BY DEF SizesUpTo
<1>2. m \in Nat \ {0} /\ n \in Nat \ {0} /\ size[1] = m /\ size[2] = n BY <1>1, MaxNodesAssumption
<1>3. PICK total, loc, rem : Shares(m, n, total, loc, rem) BY SharesExist, MaxNodesAssumption
<1>4. total \in Nat \ {0} /\ loc \in Nat \ {0} /\ rem \in Nat \ {0} /\ total = loc * m BY <1>3 DEF Shares
<1>5. LCM(m, n) = total BY <1>3 DEF Shares
<1>6. Total = total BY <1>2, <1>5 DEF Total
<1>7. Pieces = GenerateAllConfig(m, n) /\ AllPieces[m][n] = Pieces
    <2>1. AllPieces[m] = [k \in 1 .. MaxNodes |-> GenerateAllConfig(m, k)] BY DEF AllPieces
    <2>2. AllPieces[m][n] = GenerateAllConfig(m, n) BY <2>1
    <2> QED BY <1>2, <2>2 DEF Pieces
<1>8. PICK i \in 0 .. (m - 1) : p \in getSenderConfig(m, n, i) BY <1>7 DEF GenerateAllConfig
<1>9. PICK e \in Cuts(i, loc, rem) : p = PieceTo(e, i, loc, rem) BY <1>3, <1>8, SenderPieces
<1>10. IsPiece(p, i, loc, rem) BY <1>4, <1>9, PieceShape
<1>11. p.start \in Nat /\ p.end \in Nat /\ p.start < p.end /\ p.end <= loc * (i + 1) BY <1>10 DEF IsPiece
<1>12. p.end <= total
    <2>1. PICK k \in Nat : i + 1 + k = m BY <1>2
    <2>2. loc * (i + 1 + k) = loc * (i + 1) + loc * k BY <1>4
    <2>3. loc * k >= 0 /\ loc * (i + 1) \in Nat /\ loc * k \in Nat BY <1>4
    <2>4. loc * (i + 1) <= total BY <1>4, <2>1, <2>2, <2>3
    <2> QED BY <1>4, <1>11, <2>3, <2>4
<1>13. ASSUME NEW d \in BOOLEAN
       PROVE  Messages[p][d] = serializeFragments(total, p.start, p.end, d)
    <2>1. AllMessages[m] =
            [k \in 1 .. MaxNodes |-> [q \in {r \in AllPieces[m][k] : LCM(m, k) > 1} |->
                [b \in BOOLEAN |-> serializeFragments(LCM(m, k), q.start, q.end, b)]]]
        BY DEF AllMessages
    <2>2. AllMessages[m][n] =
            [q \in {r \in AllPieces[m][n] : LCM(m, n) > 1} |->
                [b \in BOOLEAN |-> serializeFragments(LCM(m, n), q.start, q.end, b)]]
        BY <2>1
    <2>3. p \in {r \in AllPieces[m][n] : LCM(m, n) > 1} BY <1>5, <1>6, <1>7
    <2>4. Messages[p] = [b \in BOOLEAN |-> serializeFragments(LCM(m, n), p.start, p.end, b)]
        BY <1>2, <2>2, <2>3 DEF Messages
    <2> QED BY <1>5, <2>4
<1> QED BY <1>4, <1>6, <1>11, <1>12, <1>13 DEF PieceFits

LEMMA PiecesApart ==
    ASSUME size \in SizesUpTo, NEW p \in Pieces, NEW q \in Pieces, p # q
    PROVE  \A x \in p.start .. p.end - 1 : x \notin q.start .. q.end - 1
<1>1. PICK m \in 1 .. MaxNodes, n \in 1 .. MaxNodes : size = <<m, n>> BY DEF SizesUpTo
<1>2. m \in Nat \ {0} /\ n \in Nat \ {0} /\ size[1] = m /\ size[2] = n BY <1>1, MaxNodesAssumption
<1>3. PICK total, loc, rem : Shares(m, n, total, loc, rem) BY SharesExist, MaxNodesAssumption
<1>4. PICK pieces : pieces = GenerateAllConfig(m, n) OBVIOUS
<1>5. Pieces = pieces
    <2>1. AllPieces[m] = [k \in 1 .. MaxNodes |-> GenerateAllConfig(m, k)] BY DEF AllPieces
    <2>2. AllPieces[m][n] = GenerateAllConfig(m, n) BY <2>1
    <2> QED BY <1>2, <1>4, <2>2 DEF Pieces
<1>6. \A x : x \in Fragments(p) /\ x \in Fragments(q) => p = q BY <1>2, <1>3, <1>4, <1>5, Sharing
<1> QED BY <1>6 DEF Fragments

\* of every piece, the first fragments are guarded
Orderly(guarded) == \A p \in Pieces : FirstGuarded(guarded, p.start, p.end)

LEMMA OthersOrderly ==
    ASSUME size \in SizesUpTo, NEW p \in Pieces, NEW q \in Pieces, p # q, NEW old, NEW new,
           new \subseteq old \cup (p.start .. p.end - 1), old \subseteq new, FirstGuarded(old, q.start, q.end)
    PROVE  FirstGuarded(new, q.start, q.end)
<1>1. \A x \in p.start .. p.end - 1 : x \notin q.start .. q.end - 1 BY PiecesApart
<1>2. ASSUME NEW i \in q.start .. q.end - 1, NEW j \in q.start .. q.end - 1, i \in new, j < i PROVE j \in new
    <2>1. i \in old BY <1>1, <1>2
    <2>2. j \in old BY <1>2, <2>1 DEF FirstGuarded
    <2> QED BY <2>2
<1> QED BY <1>2 DEF FirstGuarded

\* Reading any message of a piece keeps that; an intact one is accepted.
LEMMA MessageRead ==
    ASSUME size \in SizesUpTo, Total > 1, Total <= MaxFragments, NEW p \in Pieces, NEW d \in BOOLEAN,
           NEW c, Orderly(c.guarded),
           NEW res, res = validateAndDeserializeFragments(c, Total, Root(Total), Messages[p][d])
    PROVE  /\ Orderly(res.ctx.guarded)
           /\ ~ Changed(d) => res.ok /\ res.ctx.loaded = c.loaded \cup (Fragments(p) \ c.guarded)
           /\ Changed(d) => res.ctx.loaded = c.loaded
<1>1. PICK n : n = Total OBVIOUS
<1>2. n \in Nat /\ PieceFits(p, n, Messages) BY <1>1, PiecesFit
<1>3. n \in 2 .. MaxFragments BY <1>1, <1>2, MaxFragmentsAssumption
<1>4. PICK start, end : start = p.start /\ end = p.end OBVIOUS
<1>5. start \in Nat /\ end \in Nat /\ start < end /\ end <= n BY <1>2, <1>4 DEF PieceFits
<1>6. Messages[p][d] = serializeFragments(n, start, end, d) BY <1>2, <1>4, Zenon DEF PieceFits
<1>7. res = validateAndDeserializeFragments(c, n, Root(n), serializeFragments(n, start, end, d)) BY <1>1, <1>6, Zenon
<1>8. FirstGuarded(c.guarded, start, end) BY <1>4, Zenon DEF Orderly
<1>9. CASE ~ Changed(d)
    <2>1. /\ res.ok
          /\ res.ctx.guarded = c.guarded \cup (start .. end - 1)
          /\ res.ctx.loaded = c.loaded \cup ((start .. end - 1) \ c.guarded)
        BY <1>3, <1>5, <1>7, <1>8, <1>9, IntactAccepted
    <2>2. FirstGuarded(res.ctx.guarded, start, end) BY <2>1 DEF FirstGuarded
    <2>3. ASSUME NEW q \in Pieces PROVE FirstGuarded(res.ctx.guarded, q.start, q.end)
        <3>1. CASE q = p BY <1>4, <2>2, <3>1
        <3>2. CASE q # p
            <4>1. res.ctx.guarded \subseteq c.guarded \cup (p.start .. p.end - 1) /\ c.guarded \subseteq res.ctx.guarded
                BY <1>4, <2>1
            <4>2. FirstGuarded(c.guarded, q.start, q.end) BY DEF Orderly
            <4> QED BY <3>2, <4>1, <4>2, OthersOrderly
        <3> QED BY <3>1, <3>2
    <2>4. Orderly(res.ctx.guarded) BY <2>3 DEF Orderly
    <2>5. Fragments(p) = start .. end - 1 BY <1>4, Zenon DEF Fragments
    <2> QED BY <1>9, <2>1, <2>4, <2>5, Zenon
<1>10. CASE Changed(d)
    <2>1. /\ res.ctx.loaded = c.loaded
          /\ \/ res.ctx.guarded = c.guarded
             \/ \E j \in start .. end - 1 : res.ctx.guarded = c.guarded \cup {j} /\ start .. j - 1 \subseteq c.guarded
        BY <1>3, <1>5, <1>7, <1>8, <1>10, DamagedDropped
    <2>2. FirstGuarded(res.ctx.guarded, start, end)
        <3>1. CASE res.ctx.guarded = c.guarded BY <1>8, <3>1
        <3>2. ASSUME NEW j \in start .. end - 1, res.ctx.guarded = c.guarded \cup {j}, start .. j - 1 \subseteq c.guarded
              PROVE  FirstGuarded(res.ctx.guarded, start, end)
            <4>1. ASSUME NEW x \in start .. end - 1, NEW y \in start .. end - 1, x \in res.ctx.guarded, y < x
                  PROVE  y \in res.ctx.guarded
                <5>1. CASE x \in c.guarded BY <1>8, <3>2, <4>1, <5>1 DEF FirstGuarded
                <5>2. CASE x = j
                    <6>1. y \in start .. j - 1 BY <3>2, <1>5, <4>1, <5>2
                    <6> QED BY <3>2, <6>1
                <5> QED BY <3>2, <4>1, <5>1, <5>2
            <4> QED BY <4>1 DEF FirstGuarded
        <3> QED BY <2>1, <3>1, <3>2
    <2>3. ASSUME NEW q \in Pieces PROVE FirstGuarded(res.ctx.guarded, q.start, q.end)
        <3>1. CASE q = p BY <1>4, <2>2, <3>1
        <3>2. CASE q # p
            <4>1. res.ctx.guarded \subseteq c.guarded \cup (p.start .. p.end - 1) /\ c.guarded \subseteq res.ctx.guarded
                BY <1>4, <2>1
            <4>2. FirstGuarded(c.guarded, q.start, q.end) BY DEF Orderly
            <4> QED BY <3>2, <4>1, <4>2, OthersOrderly
        <3> QED BY <3>1, <3>2
    <2>4. Orderly(res.ctx.guarded) BY <2>3 DEF Orderly
    <2> QED BY <1>10, <2>1, <2>4, Zenon
<1> QED BY <1>9, <1>10

LEMMA EmptyOrderly == Orderly(EmptyContext.guarded) /\ EmptyContext.loaded = {} /\ EmptyContext.guarded = {}
BY DEF Orderly, FirstGuarded, EmptyContext

\* v2: fragments of pieces are in the ring, and the context has guarded the first
\* fragments of every piece
Rebuilding ==
    mode = "v2" =>
        /\ size \in V2Groups /\ low \in Nat
        /\ ring = [x \in 0 .. Cap - 1 |-> ring[x]]
        /\ \A x \in 0 .. Cap - 1 : \A f \in ring[x] : f[1] \in Pieces /\ f[3] \in BOOLEAN
        /\ Orderly(ctx.guarded)

CodecInv == ConfigSizes /\ ~ rejected /\ Rebuilding

\* the sizes that v2 is used with
LEMMA GroupSizes ==
    ASSUME size \in V2Groups
    PROVE  size \in SizesUpTo /\ Total > 1 /\ Total <= MaxFragments
<1>1. size \in SizesUpTo /\ size # <<1, 1>> /\ LCM(size[1], size[2]) <= MaxFragments
    BY ReplicationAssumption DEF SizesUpTo
<1>2. PICK m \in 1 .. MaxNodes, n \in 1 .. MaxNodes : size = <<m, n>> BY <1>1 DEF SizesUpTo
<1>3. m \in Nat \ {0} /\ n \in Nat \ {0} /\ size[1] = m /\ size[2] = n BY <1>2, MaxNodesAssumption
<1>4. PICK total, loc, rem : Shares(m, n, total, loc, rem) BY SharesExist, MaxNodesAssumption
<1>5. Total = total BY <1>3, <1>4 DEF Shares, Total
<1>6. m # 1 \/ n # 1 BY <1>1, <1>2
<1>7. total > 1 BY <1>3, <1>4, <1>6, TwoFragments
<1> QED BY <1>1, <1>5, <1>7 DEF Total

\* Buffer::push
LEMMA AddKeeps ==
    ASSUME CodecInv, NEW p \in Channels, NEW d \in BOOLEAN, addMessageToCache(p, d)
    PROVE  CodecInv'
<1>1. mode = "v2" /\ mode' = mode /\ size' = size /\ low' = low /\ ctx' = ctx /\ rejected' = rejected
    BY DEF addMessageToCache
<1>2. p \in Pieces /\ Pieces' = Pieces BY <1>1 DEF Channels, Pieces
<1>3. PICK f : f = <<p, got[p], d>> OBVIOUS
<1>4. f[1] = p /\ f[3] = d BY <1>3
<1>5. ring' = ring \/ ring' = [ring EXCEPT ![f[2] % Cap] = @ \cup {f}] BY <1>3 DEF addMessageToCache, push
<1>6. DOMAIN ring = 0 .. Cap - 1 BY <1>1 DEF CodecInv, Rebuilding
<1>7. ring' = [x \in 0 .. Cap - 1 |-> ring'[x]]
    <2>1. ring = [x \in 0 .. Cap - 1 |-> ring[x]] BY <1>1 DEF CodecInv, Rebuilding
    <2> QED BY <1>5, <2>1
<1>8. ASSUME NEW x \in 0 .. Cap - 1, NEW g \in ring'[x] PROVE g \in ring[x] \/ g = f BY <1>5, <1>6
<1>9. \A x \in 0 .. Cap - 1 : \A g \in ring[x] : g[1] \in Pieces /\ g[3] \in BOOLEAN BY <1>1 DEF CodecInv, Rebuilding
<1>10. \A x \in 0 .. Cap - 1 : \A g \in ring'[x] : g[1] \in Pieces /\ g[3] \in BOOLEAN BY <1>2, <1>4, <1>8, <1>9
<1>11. Orderly(ctx.guarded) /\ Orderly(ctx.guarded)' = Orderly(ctx.guarded)
    BY <1>1, <1>2 DEF CodecInv, Rebuilding, Orderly
<1>12. Rebuilding'
    BY <1>1, <1>2, <1>10, <1>11, <1>7 DEF CodecInv, Rebuilding
<1> QED BY <1>1, <1>12 DEF CodecInv, ConfigSizes

LEMMA RebuildKeeps == ASSUME CodecInv, genBlockFromQueue PROVE CodecInv'
<1>1. mode = "v2" /\ mode' = mode /\ size' = size /\ low' = low BY DEF genBlockFromQueue
<1>2. Pieces' = Pieces BY <1>1 DEF Pieces
<1>3. size \in V2Groups /\ low \in Nat /\ Orderly(ctx.guarded) /\ ~ rejected
      /\ \A x \in 0 .. Cap - 1 : \A g \in ring[x] : g[1] \in Pieces /\ g[3] \in BOOLEAN
    BY <1>1 DEF CodecInv, Rebuilding
<1>4. size \in SizesUpTo /\ Total > 1 /\ Total <= MaxFragments BY <1>3, GroupSizes
<1>5. PICK use : use = IF counted = {} THEN EmptyContext ELSE ctx OBVIOUS
<1>6. PICK f \in ring[low % Cap] :
        /\ ring' = [ring EXCEPT ![low % Cap] = @ \ {f}]
        /\ LET res == validateAndDeserializeFragments(use, Total, Root(Total), Messages[f[1]][f[3]])
           IN  \/ ctx' = ctx /\ rejected' = rejected
               \/ ~ res.ok /\ ctx' = res.ctx /\ rejected' = (rejected \/ ~ f[3])
               \/ ctx' = res.ctx /\ rejected' = rejected
               \/ ctx' = EmptyContext /\ rejected' = rejected
    BY <1>5, Zenon DEF genBlockFromQueue
<1>7. low % Cap \in 0 .. Cap - 1 BY <1>3, ReplicationAssumption
<1>8. f[1] \in Pieces /\ f[3] \in BOOLEAN BY <1>3, <1>6, <1>7
<1>9. PICK p \in Pieces, d \in BOOLEAN : p = f[1] /\ d = f[3] BY <1>8
<1>10. PICK res : res = validateAndDeserializeFragments(use, Total, Root(Total), Messages[p][d]) OBVIOUS
<1>11. Orderly(use.guarded) BY <1>3, <1>5, EmptyOrderly
<1>12. Orderly(res.ctx.guarded) /\ (~ Changed(d) => res.ok) BY <1>4, <1>10, <1>11, MessageRead
<1>13. \/ ctx' = ctx /\ rejected' = rejected
       \/ ~ res.ok /\ ctx' = res.ctx /\ rejected' = (rejected \/ ~ d)
       \/ ctx' = res.ctx /\ rejected' = rejected
       \/ ctx' = EmptyContext /\ rejected' = rejected
    BY <1>6, <1>9, <1>10, Zenon
<1>14. ~ rejected' BY <1>3, <1>12, <1>13 DEF Changed
<1>15. Orderly(ctx'.guarded) BY <1>3, <1>12, <1>13, EmptyOrderly
<1>16. ring = [x \in 0 .. Cap - 1 |-> ring[x]] BY <1>1 DEF CodecInv, Rebuilding
<1>17. ring' = [x \in 0 .. Cap - 1 |-> ring'[x]] BY <1>6, <1>16
<1>18. ASSUME NEW x \in 0 .. Cap - 1, NEW g \in ring'[x] PROVE g \in ring[x] BY <1>6, <1>16
<1>19. \A x \in 0 .. Cap - 1 : \A g \in ring'[x] : g[1] \in Pieces /\ g[3] \in BOOLEAN BY <1>3, <1>18
<1>20. Orderly(ctx.guarded)' BY <1>2, <1>15 DEF Orderly
<1>21. Rebuilding' BY <1>1, <1>2, <1>3, <1>19, <1>20, <1>17 DEF Rebuilding
<1> QED BY <1>1, <1>14, <1>21 DEF CodecInv, ConfigSizes

\* a step that leaves the ring and the context alone
LEMMA CodecFrame ==
    ASSUME CodecInv, mode' = mode, size' = size, ring' = ring, ctx' = ctx, rejected' = rejected,
           low' = low \/ low' = low + 1
    PROVE  CodecInv'
<1>1. Pieces' = Pieces BY DEF Pieces
<1>2. Orderly(ctx.guarded)' = Orderly(ctx.guarded) BY <1>1 DEF Orderly
<1>3. Rebuilding' BY <1>1, <1>2 DEF CodecInv, Rebuilding
<1> QED BY <1>3 DEF CodecInv, ConfigSizes

LEMMA CodecStep == ASSUME CodecInv, [ReplicationNext]_replicationVars PROVE CodecInv'
<1>1. CASE UNCHANGED replicationVars BY <1>1, CodecFrame DEF replicationVars, pathVars
<1>2. ASSUME NEW s \in Senders, MRBlockSenderRun(s) PROVE CodecInv'
    BY <1>2, CodecFrame DEF MRBlockSenderRun, encodeAndSendBlock, runDirect, runMultiway, SendNext
<1>3. ASSUME NEW p \in Channels, NEW d \in BOOLEAN, addMessageToCache(p, d) PROVE CodecInv' BY <1>3, AddKeeps
<1>4. CASE genBlockFromQueue BY <1>4, RebuildKeeps
<1>5. ASSUME NEW c, getBlockFromRawString(c) \/ validateFunc(c) PROVE CodecInv'
    BY <1>5, CodecFrame DEF getBlockFromRawString, validateFunc
<1>6. CASE Insert BY <1>6, CodecFrame DEF Insert
<1>7. CASE Read BY <1>7, CodecFrame DEF Read, pathVars
<1> QED BY <1>1, <1>2, <1>3, <1>4, <1>5, <1>6, <1>7 DEF ReplicationNext

LEMMA CodecInit == ReplicationInit => CodecInv
<1> SUFFICES ASSUME ReplicationInit PROVE CodecInv OBVIOUS
<1>1. ConfigSizes /\ ~ rejected BY DEF ReplicationInit, ConfigSizes, SizesUpTo
<1>2. Orderly(ctx.guarded) BY EmptyOrderly DEF ReplicationInit
<1>3. ring = [x \in 0 .. Cap - 1 |-> ring[x]] /\ \A x \in 0 .. Cap - 1 : ring[x] = {} BY DEF ReplicationInit
<1>4. mode = "v2" => size \in V2Groups /\ low \in Nat BY DEF ReplicationInit
<1> QED BY <1>1, <1>2, <1>3, <1>4 DEF CodecInv, Rebuilding

\* a message of its own, for any sizes of the groups
LEMMA AnySizes ==
    ASSUME size \in SizesUpTo, Total > 1, Total <= MaxFragments, NEW p \in Pieces
    PROVE  LET Res(d) == validateAndDeserializeFragments(EmptyContext, Total, Root(Total), Messages[p][d])
           IN  Res(FALSE).ok /\ Res(FALSE).ctx.loaded = Fragments(p) /\ Res(TRUE).ctx.loaded = {}
<1> DEFINE Res(d) == validateAndDeserializeFragments(EmptyContext, Total, Root(Total), Messages[p][d])
<1>1. ASSUME NEW d \in BOOLEAN, ~ Changed(d) PROVE Res(d).ok /\ Res(d).ctx.loaded = Fragments(p)
    <2>1. PICK res : res = Res(d) OBVIOUS
    <2>2. res.ok /\ res.ctx.loaded = EmptyContext.loaded \cup (Fragments(p) \ EmptyContext.guarded)
        <3>1. PICK c : c = EmptyContext OBVIOUS
        <3>2. Orderly(c.guarded) BY <3>1, EmptyOrderly
        <3>3. res = validateAndDeserializeFragments(c, Total, Root(Total), Messages[p][d]) BY <2>1, <3>1
        <3>4. res.ok /\ res.ctx.loaded = c.loaded \cup (Fragments(p) \ c.guarded)
            BY <1>1, <3>2, <3>3, MessageRead
        <3> QED BY <3>1, <3>4, Zenon
    <2> QED BY <2>1, <2>2, EmptyOrderly
<1>2. ASSUME NEW d \in BOOLEAN, Changed(d) PROVE Res(d).ctx.loaded = {}
    <2>1. PICK res : res = Res(d) OBVIOUS
    <2>2. res.ctx.loaded = EmptyContext.loaded
        <3>1. PICK c : c = EmptyContext OBVIOUS
        <3>2. Orderly(c.guarded) BY <3>1, EmptyOrderly
        <3>3. res = validateAndDeserializeFragments(c, Total, Root(Total), Messages[p][d]) BY <2>1, <3>1
        <3>4. res.ctx.loaded = c.loaded BY <1>2, <3>2, <3>3, MessageRead
        <3> QED BY <3>1, <3>4, Zenon
    <2> QED BY <2>1, <2>2, EmptyOrderly
<1>3. ~ Changed(FALSE) /\ Changed(TRUE) BY DEF Changed
<1> HIDE DEF Res
<1>4. Res(FALSE).ok /\ Res(FALSE).ctx.loaded = Fragments(p) BY <1>1, <1>3
<1>5. Res(TRUE).ctx.loaded = {} BY <1>2, <1>3
<1> QED BY <1>4, <1>5, Zenon DEF Res

\* validateAndDeserializeFragments refuses nothing but damaged fragments and keeps
\* none of them, for groups of any size, fragments in any order and damaged copies
\* at any time: the shortened proofs of serializeFragments can be completed, the
\* completed ones verify exactly the bytes they were made for, and a context in
\* which other fragments are guarded does not get in the way.
THEOREM OnlyDamagedAlwaysRefused == ReplicationSpec => []OnlyDamagedRefused
<1>1. ReplicationInit => CodecInv BY CodecInit
<1>2. CodecInv /\ [ReplicationNext]_replicationVars => CodecInv' BY CodecStep
<1>3. CodecInv => OnlyDamagedRefused
    <2> SUFFICES ASSUME CodecInv PROVE OnlyDamagedRefused OBVIOUS
    <2>1. ~ rejected BY DEF CodecInv
    <2>2. ASSUME mode = "config", Total > 1, Total <= MaxFragments, NEW p \in Pieces
          PROVE  LET Res(d) == validateAndDeserializeFragments(EmptyContext, Total, Root(Total), Messages[p][d])
                 IN  Res(FALSE).ok /\ Res(FALSE).ctx.loaded = Fragments(p) /\ Res(TRUE).ctx.loaded = {}
        <3>1. size \in SizesUpTo BY <2>2 DEF CodecInv, ConfigSizes
        <3> QED BY <2>2, <3>1, AnySizes, Zenon
    <2> QED BY <2>1, <2>2, Zenon DEF OnlyDamagedRefused
<1> QED BY <1>1, <1>2, <1>3, PTL DEF ReplicationSpec

=============================================================================
