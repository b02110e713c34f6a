-------------------------- MODULE BlockVotingProofs --------------------------
(***************************************************************************)
(* Proofs about the votes of the leaders, for every number of groups and   *)
(* of blocks and every size of the ring of BlockVotes.                     *)
(***************************************************************************)
EXTENDS MCBlockVoting, FiniteSetTheorems, SequenceTheorems, TLAPS

(***************************************************************************)
(* The ring.  getRef asserts (a DCHECK) that the slot of the block does    *)
(* not hold a newer one.                                                   *)
(***************************************************************************)

SlotOf(u, c, b) == slot[u][c][b % QueueSize]

\* the block that a thread of u looks up next is not older than its slot
RingFresh ==
    \A u \in Group :
        /\ \A x \in Dequeueable(u) : SlotOf(u, x[1], x[2]).blockId <= x[2]
        /\ \A v \in Group \ {u} :
              accepted[u][v] < Len(log[v]) /\ Pending(u, v).chain # u =>
                  SlotOf(u, Pending(u, v).chain, Pending(u, v).block).blockId <= Pending(u, v).block

(***************************************************************************)
(* The inductive invariant of the votes.                                   *)
(***************************************************************************)

VotedFor(l, c, b) == \E p \in DOMAIN l : l[p].chain = c /\ l[p].block = b

\* u has taken the vote for the block, or the slot has gone on to a newer one
Marked(u, c, b) ==
    \/ SlotOf(u, c, b).blockId > b
    \/ SlotOf(u, c, b).blockId = b /\ SlotOf(u, c, b).finished

Voters(l, u, c, b) == {w \in Group \ {u} : VotedFor(l[w], c, b)}
Supported(l, u, c, b) == Cardinality(Voters(l, u, c, b)) >= Threshold

Typed ==
    /\ TypeOK
    /\ \A u, v \in Group : stage[u][v] # "idle" => u # v /\ accepted[u][v] < Len(log[v])
    /\ \A u \in Group : Len(taken[u]) <= 1
    /\ \A u, v \in Group : Len(forced[u][v]) <= 1
    /\ \A u \in Group : \A x \in queue[u] : x[2] < received[u][x[1]]

\* a vote is in the log, or with one of the threads that will append it
OncePerBlock ==
    /\ OneVote
    /\ \A u \in Group : \A c, b : VotedFor(taken[u], c, b) => ~ VotedFor(log[u], c, b)
    /\ \A u, v \in Group : \A c, b :
          VotedFor(forced[u][v], c, b) => ~ VotedFor(log[u], c, b) /\ ~ VotedFor(taken[u], c, b)
    /\ \A u, v, w \in Group : \A c, b :
          VotedFor(forced[u][v], c, b) /\ VotedFor(forced[u][w], c, b) => v = w

AllMarked ==
    \A u, c \in Group : \A b \in Nat :
        \/ VotedFor(log[u], c, b) \/ VotedFor(taken[u], c, b)
        \/ \E v \in Group : VotedFor(forced[u][v], c, b)
        => Marked(u, c, b)

AllBacked ==
    /\ Backed
    /\ \A u \in Group : \A p \in DOMAIN taken[u] :
          taken[u][p].block < received[u][taken[u][p].chain]
    /\ \A u, v \in Group : \A p \in DOMAIN forced[u][v] :
          Supported(log, u, forced[u][v][p].chain, forced[u][v][p].block)
    /\ \A u, v \in Group : stage[u][v] = "force" =>
          Pending(u, v).chain # u /\ Supported(log, u, Pending(u, v).chain, Pending(u, v).block)

\* the votes that are counted are in the logs
SlotVotes ==
    \A u, c \in Group : \A k \in 0 .. (QueueSize - 1) : \A w \in slot[u][c][k].votes :
        w \in Group \ {u} /\ VotedFor(log[w], c, slot[u][c][k].blockId)

Inv == Typed /\ OncePerBlock /\ AllMarked /\ AllBacked /\ SlotVotes

(***************************************************************************)
(* The ring.                                                               *)
(***************************************************************************)

LEMMA InRing == ASSUME NEW b \in Nat PROVE b % QueueSize \in 0 .. (QueueSize - 1)
BY QueueSizeAssumption

LEMMA SlotTyped ==
    ASSUME TypeOK, NEW u \in Group, NEW c \in Group, NEW b \in Nat
    PROVE  /\ SlotOf(u, c, b) \in Slot /\ SlotOf(u, c, b).blockId \in Nat
           /\ SlotOf(u, c, b).votes \subseteq Group /\ SlotOf(u, c, b).finished \in BOOLEAN
<1>1. b % QueueSize \in 0 .. (QueueSize - 1) BY InRing
<1>2. SlotOf(u, c, b) \in Slot
    <2> DEFINE k == b % QueueSize
               K == 0 .. (QueueSize - 1)
    <2>1. k \in K BY <1>1
    <2>2. slot \in [Group -> [Group -> [K -> Slot]]] BY DEF TypeOK
    <2>3. SlotOf(u, c, b) = slot[u][c][k] BY DEF SlotOf
    <2> HIDE DEF k, K
    <2> QED BY <2>1, <2>2, <2>3
<1> QED BY <1>2 DEF Slot

\* what getRef finds of a block that is not older than its slot
LEMMA Found ==
    ASSUME TypeOK, NEW u \in Group, NEW c \in Group, NEW b \in Nat, SlotOf(u, c, b).blockId <= b
    PROVE  /\ getRef(u, c, b) \in Slot /\ getRef(u, c, b).blockId = b
           /\ getRef(u, c, b).finished <=> Marked(u, c, b)
           /\ \A w \in getRef(u, c, b).votes : w \in SlotOf(u, c, b).votes /\ SlotOf(u, c, b).blockId = b
<1> DEFINE s == SlotOf(u, c, b)
<1>1. s \in Slot /\ s.blockId \in Nat /\ s.finished \in BOOLEAN BY SlotTyped
<1>2. getRef(u, c, b) = IF s.blockId < b THEN EmptySlot(b) ELSE s BY DEF getRef, SlotOf
<1>3. /\ EmptySlot(b) \in Slot /\ EmptySlot(b).blockId = b /\ EmptySlot(b).finished = FALSE
      /\ EmptySlot(b).votes = {}
    BY DEF EmptySlot, Slot
<1> HIDE DEF s
<1>4. s.blockId <= b BY DEF s
<1>5. Marked(u, c, b) <=> s.blockId > b \/ (s.blockId = b /\ s.finished) BY DEF Marked, s
<1>6. CASE s.blockId < b
    <2>1. getRef(u, c, b) = EmptySlot(b) BY <1>2, <1>6
    <2>2. ~ Marked(u, c, b) BY <1>1, <1>5, <1>6
    <2> QED BY <1>3, <2>1, <2>2
<1>7. CASE ~ (s.blockId < b)
    <2>1. s.blockId = b BY <1>1, <1>4, <1>7
    <2>2. getRef(u, c, b) = s BY <1>2, <1>7
    <2>3. Marked(u, c, b) <=> s.finished BY <1>1, <1>5, <2>1
    <2> QED BY <1>1, <2>1, <2>2, <2>3 DEF s
<1> QED BY <1>6, <1>7

Written(u, c, b, t) == [slot EXCEPT ![u][c][b % QueueSize] = t]

\* a step that writes the slot of the block back
LEMMA SlotWritten ==
    ASSUME TypeOK, NEW u \in Group, NEW c \in Group, NEW b \in Nat, SlotOf(u, c, b).blockId <= b,
           NEW t \in Slot, t.blockId = b, getRef(u, c, b).finished => t.finished,
           slot' = Written(u, c, b, t)
    PROVE  /\ slot' \in [Group -> [Group -> [0 .. (QueueSize - 1) -> Slot]]]
           /\ slot'[u][c][b % QueueSize] = t
           /\ \A v, d \in Group : \A k \in 0 .. (QueueSize - 1) :
                 v # u \/ d # c \/ k # b % QueueSize => slot'[v][d][k] = slot[v][d][k]
           /\ \A v, d \in Group : \A a \in Nat : Marked(v, d, a) => Marked(v, d, a)'
<1> DEFINE k == b % QueueSize
           K == 0 .. (QueueSize - 1)
<1>1. k \in K BY InRing
<1>2. slot \in [Group -> [Group -> [K -> Slot]]] BY DEF TypeOK
<1> HIDE DEF k, K
<1>3. slot' = [slot EXCEPT ![u][c][k] = t] BY DEF k, Written
<1>4. /\ slot' \in [Group -> [Group -> [K -> Slot]]] /\ slot'[u][c][k] = t
      /\ \A v, d \in Group : \A j \in K : v # u \/ d # c \/ j # k => slot'[v][d][j] = slot[v][d][j]
    <2> DEFINE r == [slot[u][c] EXCEPT ![k] = t]
               q == [slot[u] EXCEPT ![c] = r]
    <2>1. slot' = [slot EXCEPT ![u] = q] BY <1>3
    <2>2. /\ r \in [K -> Slot] /\ r[k] = t
          /\ \A j \in K : j # k => r[j] = slot[u][c][j]
        BY <1>1, <1>2
    <2> HIDE DEF r
    <2>3. /\ q \in [Group -> [K -> Slot]] /\ q[c] = r
          /\ \A d \in Group : d # c => q[d] = slot[u][d]
        BY <1>2, <2>2
    <2> HIDE DEF q
    <2>4. /\ slot' \in [Group -> [Group -> [K -> Slot]]] /\ slot'[u] = q
          /\ \A v \in Group : v # u => slot'[v] = slot[v]
        BY <1>2, <2>1, <2>3
    <2> QED BY <2>2, <2>3, <2>4
<1>5. ASSUME NEW v \in Group, NEW d \in Group, NEW a \in Nat, Marked(v, d, a) PROVE Marked(v, d, a)'
    <2> DEFINE j == a % QueueSize
    <2>1. j \in K BY InRing DEF K
    <2>2. CASE v # u \/ d # c \/ j # k
        <3>1. slot'[v][d][j] = slot[v][d][j] BY <1>4, <2>1, <2>2
        <3> QED BY <1>5, <3>1 DEF Marked, SlotOf
    <2>3. CASE v = u /\ d = c /\ j = k
        <3>1. slot'[v][d][j] = t /\ slot[v][d][j] = SlotOf(u, c, b) BY <1>4, <2>3 DEF SlotOf, k
        <3> DEFINE s == SlotOf(u, c, b)
        <3>2. s.blockId > a \/ (s.blockId = a /\ s.finished) BY <1>5, <3>1 DEF Marked, SlotOf
        <3>3. s.blockId \in Nat /\ s.blockId <= b BY SlotTyped
        <3>4. Marked(u, c, b) <=> s.blockId > b \/ (s.blockId = b /\ s.finished) BY DEF Marked
        <3>5. getRef(u, c, b).finished <=> Marked(u, c, b) BY Found
        <3> HIDE DEF s
        <3>6. t.blockId > a \/ (t.blockId = a /\ t.finished)
            <4>1. CASE s.blockId > a BY <3>3, <4>1
            <4>2. CASE s.blockId = a /\ s.finished
                <5>1. CASE b > a BY <5>1
                <5>2. CASE b = a BY <3>4, <3>5, <4>2, <5>2
                <5> QED BY <3>3, <4>2, <5>1, <5>2
            <4> QED BY <3>2, <4>1, <4>2
        <3> QED BY <3>1, <3>6 DEF Marked, SlotOf
    <2> QED BY <2>2, <2>3
<1> QED BY <1>4, <1>5 DEF k, K

(***************************************************************************)
(* The logs.                                                               *)
(***************************************************************************)

LEMMA SupportGrows ==
    ASSUME NEW l, NEW m, NEW u \in Group, NEW c, NEW b, Supported(l, u, c, b),
           \A w \in Group : VotedFor(l[w], c, b) => VotedFor(m[w], c, b)
    PROVE  Supported(m, u, c, b)
<1> DEFINE V == Voters(l, u, c, b)
           W == Voters(m, u, c, b)
<1>1. IsFiniteSet(Group) BY GroupCountAssumption, FS_Interval DEF Group
<1>2. V \in SUBSET W /\ W \in SUBSET Group BY DEF Voters
<1>3. IsFiniteSet(W) BY <1>1, <1>2, FS_Subset
<1>4. IsFiniteSet(V) /\ Cardinality(V) <= Cardinality(W) BY <1>2, <1>3, FS_Subset
<1>5. Cardinality(V) \in Nat /\ Cardinality(W) \in Nat BY <1>3, <1>4, FS_CardinalityType
<1>6. Cardinality(V) >= Threshold BY DEF Supported
<1>7. Threshold \in Nat BY GroupCountAssumption DEF Threshold
<1> HIDE DEF V, W
<1>8. Cardinality(W) >= Threshold BY <1>4, <1>5, <1>6, <1>7
<1> QED BY <1>8 DEF Supported, W

LEMMA BackedIs ==
    /\ Backed <=> \A v \in Group : \A p \in DOMAIN log[v] :
                     \/ log[v][p].block < received[v][log[v][p].chain]
                     \/ Supported(log, v, log[v][p].chain, log[v][p].block)
    /\ Backed' <=> \A v \in Group : \A p \in DOMAIN log'[v] :
                     \/ log'[v][p].block < received'[v][log'[v][p].chain]
                     \/ Supported(log', v, log'[v][p].chain, log'[v][p].block)
<1>1. Backed <=> \A v \in Group : \A p \in DOMAIN log[v] :
                     \/ log[v][p].block < received[v][log[v][p].chain]
                     \/ Supported(log, v, log[v][p].chain, log[v][p].block)
    BY DEF Backed, Supported, Voters, VotedFor
<1>2. Backed' <=> \A v \in Group : \A p \in DOMAIN log'[v] :
                     \/ log'[v][p].block < received'[v][log'[v][p].chain]
                     \/ Supported(log', v, log'[v][p].chain, log'[v][p].block)
    BY DEF Backed, Supported, Voters, VotedFor
<1> QED BY <1>1, <1>2

\* at most one vote is appended at a time
LEMMA Proposed ==
    ASSUME TypeOK, NEW u \in Group, NEW s \in Seq(Entry), Len(s) <= 1, Propose(u, s)
    PROVE  /\ log' \in [Group -> Seq(Entry)] /\ accepted' \in [Group -> [Group -> Nat]]
           /\ \A w \in Group : /\ Len(log[w]) \in Nat /\ Len(log'[w]) \in Nat
                               /\ Len(log[w]) <= Len(log'[w])
                               /\ DOMAIN log[w] = 1 .. Len(log[w])
                               /\ \A p \in DOMAIN log[w] : p \in DOMAIN log'[w] /\ log'[w][p] = log[w][p]
           /\ \A w \in Group : w # u => log'[w] = log[w]
           /\ Len(log'[u]) = Len(log[u]) + Len(s) /\ Len(s) \in {0, 1}
           /\ accepted'[u][u] = accepted[u][u] + Len(s)
           /\ \A v, w \in Group : v # u \/ w # u => accepted'[v][w] = accepted[v][w]
           /\ \A p \in DOMAIN log'[u] :
                 \/ p \in DOMAIN log[u]
                 \/ p = Len(log[u]) + 1 /\ 1 \in DOMAIN s /\ log'[u][p] = s[1]
<1> DEFINE l == log[u]
<1>1. /\ log \in [Group -> Seq(Entry)] /\ accepted \in [Group -> [Group -> Nat]]
      /\ \A w \in Group : log[w] \in Seq(Entry)
    BY DEF TypeOK
<1>2. log' = [log EXCEPT ![u] = l \o s] /\ accepted' = [accepted EXCEPT ![u][u] = @ + Len(s)]
    BY DEF Propose
<1>3. Len(s) \in Nat /\ Len(s) \in {0, 1} /\ DOMAIN s = 1 .. Len(s)
    <2>1. Len(s) \in Nat /\ DOMAIN s = 1 .. Len(s) OBVIOUS
    <2>2. \A i \in Nat : i <= 1 => i \in {0, 1} OBVIOUS
    <2> QED BY <2>1, <2>2
<1>4. l \in Seq(Entry) /\ Len(l) \in Nat /\ DOMAIN l = 1 .. Len(l) BY <1>1
<1>5. /\ l \o s \in Seq(Entry) /\ Len(l \o s) = Len(l) + Len(s)
      /\ \A i \in 1 .. (Len(l) + Len(s)) : (l \o s)[i] = IF i <= Len(l) THEN l[i] ELSE s[i - Len(l)]
    BY <1>4, ConcatProperties
<1> DEFINE m == l \o s
<1> HIDE DEF l, m
<1>6. DOMAIN m = 1 .. (Len(l) + Len(s)) BY <1>5 DEF m
<1>7. \A p \in DOMAIN l : p \in DOMAIN m /\ m[p] = l[p] BY <1>3, <1>4, <1>5, <1>6 DEF m
<1>8. ASSUME NEW p \in DOMAIN m PROVE p \in DOMAIN l \/ (p = Len(l) + 1 /\ 1 \in DOMAIN s /\ m[p] = s[1])
    <2>1. CASE p <= Len(l) BY <1>4, <1>6, <2>1
    <2>2. CASE ~ (p <= Len(l))
        <3>1. p = Len(l) + 1 /\ Len(s) = 1 BY <1>3, <1>4, <1>6, <2>2
        <3>2. p - Len(l) = 1 /\ 1 \in DOMAIN s BY <1>3, <1>4, <3>1
        <3>3. m[p] = s[p - Len(l)] BY <1>5, <1>6, <2>2 DEF m
        <3> QED BY <3>1, <3>2, <3>3
    <2> QED BY <2>1, <2>2
<1>9. /\ log' \in [Group -> Seq(Entry)] /\ log'[u] = m
      /\ \A w \in Group : w # u => log'[w] = log[w]
    BY <1>1, <1>2, <1>5 DEF m
<1>10. /\ accepted' \in [Group -> [Group -> Nat]] /\ accepted'[u][u] = accepted[u][u] + Len(s)
       /\ \A v, w \in Group : v # u \/ w # u => accepted'[v][w] = accepted[v][w]
    <2> DEFINE r == [accepted[u] EXCEPT ![u] = @ + Len(s)]
    <2>1. accepted' = [accepted EXCEPT ![u] = r] BY <1>2
    <2>2. accepted[u][u] + Len(s) \in Nat BY <1>1, <1>3
    <2>3. /\ r \in [Group -> Nat] /\ r[u] = accepted[u][u] + Len(s)
          /\ \A w \in Group : w # u => r[w] = accepted[u][w]
        BY <1>1, <2>2
    <2> HIDE DEF r
    <2>4. /\ accepted' \in [Group -> [Group -> Nat]] /\ accepted'[u] = r
          /\ \A v \in Group : v # u => accepted'[v] = accepted[v]
        BY <1>1, <2>1, <2>3
    <2> QED BY <2>3, <2>4
<1>11. ASSUME NEW w \in Group
       PROVE  /\ Len(log[w]) \in Nat /\ Len(log'[w]) \in Nat /\ Len(log[w]) <= Len(log'[w])
              /\ DOMAIN log[w] = 1 .. Len(log[w])
              /\ \A p \in DOMAIN log[w] : p \in DOMAIN log'[w] /\ log'[w][p] = log[w][p]
    <2>1. CASE w = u BY <1>3, <1>4, <1>5, <1>7, <1>9, <2>1 DEF l, m
    <2>2. CASE w # u
        <3>1. log'[w] = log[w] /\ log[w] \in Seq(Entry) BY <1>1, <1>9, <2>2
        <3> QED BY <3>1
    <2> QED BY <2>1, <2>2
<1> QED BY <1>3, <1>5, <1>8, <1>9, <1>10, <1>11 DEF l, m

LEMMA ProposedVotes ==
    ASSUME TypeOK, NEW u \in Group, NEW s \in Seq(Entry), Len(s) <= 1, Propose(u, s)
    PROVE  /\ \A w \in Group : \A c, b : VotedFor(log[w], c, b) => VotedFor(log'[w], c, b)
           /\ \A c, b : VotedFor(log'[u], c, b) => VotedFor(log[u], c, b) \/ VotedFor(s, c, b)
<1>1. \A w \in Group : \A p \in DOMAIN log[w] : p \in DOMAIN log'[w] /\ log'[w][p] = log[w][p]
    BY Proposed
<1>2. \A p \in DOMAIN log'[u] :
        p \in DOMAIN log[u] \/ (1 \in DOMAIN s /\ log'[u][p] = s[1])
    BY Proposed
<1> QED BY <1>1, <1>2 DEF VotedFor

(***************************************************************************)
(* The steps.                                                              *)
(***************************************************************************)

LEMMA PendingTyped ==
    ASSUME TypeOK, NEW u \in Group, NEW v \in Group, accepted[u][v] < Len(log[v])
    PROVE  /\ Pending(u, v) \in Entry /\ Pending(u, v).chain \in Group /\ Pending(u, v).block \in Nat
           /\ accepted[u][v] + 1 \in DOMAIN log[v]
<1>1. accepted[u][v] \in Nat /\ log[v] \in Seq(Entry) BY DEF TypeOK
<1>2. accepted[u][v] + 1 \in DOMAIN log[v] BY <1>1
<1>3. Pending(u, v) \in Entry BY <1>1, <1>2 DEF Pending
<1> QED BY <1>2, <1>3 DEF Entry

LEMMA InsertStep ==
    ASSUME Inv, NEW u \in Group, NEW c \in Group, Insert(u, c), produced' \in [Group -> Nat],
           UNCHANGED <<slot, clock, taken, stage, forced, log, accepted, applied, aborted>>
    PROVE  Inv'
<1>0. Typed /\ OncePerBlock /\ AllMarked /\ AllBacked /\ SlotVotes BY DEF Inv
<1>1. received \in [Group -> [Group -> Nat]] /\ queue \in [Group -> SUBSET (Group \X Nat)]
    BY <1>0 DEF Typed, TypeOK
<1> DEFINE x == <<c, received[u][c]>>
           r == [received[u] EXCEPT ![c] = @ + 1]
<1>2. received' = [received EXCEPT ![u] = r] /\ queue' = [queue EXCEPT ![u] = @ \cup {x}]
    BY DEF Insert
<1>3. /\ r \in [Group -> Nat] /\ r[c] = received[u][c] + 1
      /\ \A d \in Group : d # c => r[d] = received[u][d]
    <2>1. received[u][c] + 1 \in Nat BY <1>1
    <2> QED BY <1>1, <2>1
<1>4. x \in Group \X Nat /\ x[1] = c /\ x[2] = received[u][c] BY <1>1
<1> HIDE DEF r, x
<1>5. /\ received' \in [Group -> [Group -> Nat]] /\ received'[u] = r
      /\ \A v \in Group : v # u => received'[v] = received[v]
    BY <1>1, <1>2, <1>3
<1>6. \A v, d \in Group : received[v][d] \in Nat /\ received'[v][d] \in Nat /\ received[v][d] <= received'[v][d]
    <2> SUFFICES ASSUME NEW v \in Group, NEW d \in Group
                 PROVE  received[v][d] \in Nat /\ received'[v][d] \in Nat /\ received[v][d] <= received'[v][d]
        OBVIOUS
    <2>1. received[v][d] \in Nat /\ received'[v][d] \in Nat BY <1>1, <1>5
    <2>2. CASE v = u /\ d = c BY <1>3, <1>5, <2>1, <2>2
    <2>3. CASE ~ (v = u /\ d = c) BY <1>3, <1>5, <2>1, <2>3
    <2> QED BY <2>1, <2>2, <2>3
<1>7. /\ queue' \in [Group -> SUBSET (Group \X Nat)]
      /\ \A v \in Group : \A y \in queue'[v] : y \in queue[v] \/ (v = u /\ y = x)
    BY <1>1, <1>2, <1>4
<1>8. Typed'
    <2>1. TypeOK' BY <1>0, <1>5, <1>7 DEF Typed, TypeOK
    <2>2. ASSUME NEW v \in Group, NEW y \in queue'[v] PROVE y[2] < received'[v][y[1]]
        <3>1. CASE y \in queue[v]
            <4>1. y[2] < received[v][y[1]] /\ y \in Group \X Nat BY <1>0, <1>1, <3>1 DEF Typed
            <4>2. y[1] \in Group /\ y[2] \in Nat BY <4>1
            <4> QED BY <1>6, <4>1, <4>2
        <3>2. CASE v = u /\ y = x
            <4>1. received'[u][c] = received[u][c] + 1 BY <1>3, <1>5
            <4> QED BY <1>4, <1>6, <3>2, <4>1
        <3> QED BY <1>7, <3>1, <3>2
    <2> QED BY <1>0, <2>1, <2>2 DEF Typed
<1>9. OncePerBlock' BY <1>0 DEF OncePerBlock, OneVote, VotesOnce
<1>10. AllMarked' BY <1>0 DEF AllMarked, Marked, SlotOf
<1>11. AllBacked'
    <2>0. \A v \in Group : /\ \A p \in DOMAIN log[v] : log[v][p].chain \in Group /\ log[v][p].block \in Nat
                           /\ \A p \in DOMAIN taken[v] : taken[v][p].chain \in Group /\ taken[v][p].block \in Nat
        <3>1. \A v \in Group : log[v] \in Seq(Entry) /\ taken[v] \in Seq(Entry)
            BY <1>0 DEF Typed, TypeOK
        <3>2. ASSUME NEW v \in Group
              PROVE  /\ \A p \in DOMAIN log[v] : log[v][p] \in Entry
                     /\ \A p \in DOMAIN taken[v] : taken[v][p] \in Entry
            BY <3>1
        <3> QED BY <3>2 DEF Entry
    <2>1. \A v \in Group : \A p \in DOMAIN log[v] :
                  \/ log[v][p].block < received[v][log[v][p].chain]
                  \/ Supported(log, v, log[v][p].chain, log[v][p].block)
        BY <1>0, BackedIs DEF AllBacked
    <2>2. ASSUME NEW v \in Group, NEW d \in Group, NEW b \in Nat, b < received[v][d] PROVE b < received'[v][d]
        BY <1>6, <2>2
    <2>3. Backed'
        <3>1. \A v \in Group : \A p \in DOMAIN log[v] :
                  \/ log[v][p].block < received'[v][log[v][p].chain]
                  \/ Supported(log, v, log[v][p].chain, log[v][p].block)
            BY <2>0, <2>1, <2>2
        <3> QED BY <3>1, BackedIs
    <2>4. \A v \in Group : \A p \in DOMAIN taken[v] :
              taken[v][p].block < received'[v][taken[v][p].chain]
        BY <1>0, <2>0, <2>2 DEF AllBacked
    <2> QED BY <1>0, <2>3, <2>4 DEF AllBacked, Pending
<1>12. SlotVotes' BY <1>0 DEF SlotVotes
<1> QED BY <1>8, <1>9, <1>10, <1>11, <1>12 DEF Inv

\* a vote is for the block, and only if it has not been taken
LEMMA OrderTaken ==
    ASSUME TypeOK, NEW u \in Group, NEW c \in Group, NEW b \in Nat, SlotOf(u, c, b).blockId <= b
    PROVE  /\ BlockOrder(u, c, b) \in Seq(Entry) /\ Len(BlockOrder(u, c, b)) <= 1
           /\ \A p \in DOMAIN BlockOrder(u, c, b) :
                 /\ BlockOrder(u, c, b)[p].chain = c /\ BlockOrder(u, c, b)[p].block = b
                 /\ c # u => BlockOrder(u, c, b)[p].mark = clock[u]
                 /\ ~ Marked(u, c, b)
           /\ ~ Marked(u, c, b) => VotedFor(BlockOrder(u, c, b), c, b)
<1> DEFINE e == [chain |-> c, block |-> b, mark |-> IF c = u THEN b ELSE clock[u]]
<1>1. getRef(u, c, b).finished <=> Marked(u, c, b) BY Found
<1>2. BlockOrder(u, c, b) = IF Marked(u, c, b) THEN <<>> ELSE <<e>> BY <1>1 DEF BlockOrder
<1>3. e \in Entry
    <2>1. clock[u] \in Mark /\ b \in Mark BY DEF TypeOK, Mark
    <2>2. (IF c = u THEN b ELSE clock[u]) \in Mark BY <2>1
    <2> HIDE DEF Mark
    <2> QED BY <2>2 DEF Entry
<1>4. e.chain = c /\ e.block = b /\ (c # u => e.mark = clock[u]) OBVIOUS
<1> HIDE DEF e
<1>5. CASE Marked(u, c, b) BY <1>2, <1>5
<1>6. CASE ~ Marked(u, c, b)
    <2>1. BlockOrder(u, c, b) = <<e>> BY <1>2, <1>6
    <2>2. <<e>> \in Seq(Entry) /\ Len(<<e>>) = 1 /\ DOMAIN <<e>> = {1} /\ <<e>>[1] = e BY <1>3
    <2>3. VotedFor(<<e>>, c, b) BY <1>4, <2>2 DEF VotedFor
    <2> QED BY <1>4, <1>6, <2>1, <2>2, <2>3
<1> QED BY <1>5, <1>6

LEMMA SlotVotesKept ==
    ASSUME TypeOK, SlotVotes, NEW u \in Group, NEW c \in Group, NEW b \in Nat,
           NEW t \in Slot, t.blockId = b, log' = log,
           slot'[u][c][b % QueueSize] = t,
           \A v, d \in Group : \A k \in 0 .. (QueueSize - 1) :
               v # u \/ d # c \/ k # b % QueueSize => slot'[v][d][k] = slot[v][d][k],
           \A w \in t.votes : w \in Group \ {u} /\ VotedFor(log[w], c, b)
    PROVE  SlotVotes'
<1> SUFFICES ASSUME NEW v \in Group, NEW d \in Group, NEW k \in 0 .. (QueueSize - 1),
                    NEW w \in slot'[v][d][k].votes
             PROVE  w \in Group \ {v} /\ VotedFor(log[w], d, slot'[v][d][k].blockId)
    BY DEF SlotVotes
<1>1. CASE v = u /\ d = c /\ k = b % QueueSize BY <1>1
<1>2. CASE v # u \/ d # c \/ k # b % QueueSize
    <2>1. slot'[v][d][k] = slot[v][d][k] BY <1>2
    <2> QED BY <2>1 DEF SlotVotes
<1> QED BY <1>1, <1>2

\* the votes that getRef finds are in the logs
LEMMA FoundVotes ==
    ASSUME TypeOK, SlotVotes, NEW u \in Group, NEW c \in Group, NEW b \in Nat, SlotOf(u, c, b).blockId <= b
    PROVE  \A w \in getRef(u, c, b).votes : w \in Group \ {u} /\ VotedFor(log[w], c, b)
<1> SUFFICES ASSUME NEW w \in getRef(u, c, b).votes PROVE w \in Group \ {u} /\ VotedFor(log[w], c, b)
    OBVIOUS
<1>1. w \in SlotOf(u, c, b).votes /\ SlotOf(u, c, b).blockId = b BY Found
<1>2. b % QueueSize \in 0 .. (QueueSize - 1) BY InRing
<1> QED BY <1>1, <1>2 DEF SlotVotes, SlotOf

\* the vote is taken, under the mutex
LEMMA TakenStep ==
    ASSUME TypeOK, SlotVotes, NEW u \in Group, NEW c \in Group, NEW b \in Nat,
           SlotOf(u, c, b).blockId <= b, getBlockOrder(u, c, b), log' = log
    PROVE  /\ slot' \in [Group -> [Group -> [0 .. (QueueSize - 1) -> Slot]]]
           /\ \A v, d \in Group : \A a \in Nat : Marked(v, d, a) => Marked(v, d, a)'
           /\ Marked(u, c, b)' /\ SlotVotes'
           /\ slot'[u][c][b % QueueSize].blockId = b
           /\ \A v, d \in Group : \A k \in 0 .. (QueueSize - 1) :
                 v # u \/ d # c \/ k # b % QueueSize => slot'[v][d][k] = slot[v][d][k]
<1> DEFINE g == getRef(u, c, b)
           t == [g EXCEPT !.finished = TRUE]
<1>1. g \in Slot /\ g.blockId = b BY Found
<1>2. \A w \in g.votes : w \in Group \ {u} /\ VotedFor(log[w], c, b) BY FoundVotes
<1>3. slot' = Written(u, c, b, t) BY DEF getBlockOrder, Written
<1> HIDE DEF g
<1>4. t \in Slot /\ t.blockId = b /\ t.finished = TRUE /\ t.votes = g.votes BY <1>1 DEF Slot
<1> HIDE DEF t
<1>5. /\ slot' \in [Group -> [Group -> [0 .. (QueueSize - 1) -> Slot]]]
      /\ slot'[u][c][b % QueueSize] = t
      /\ \A v, d \in Group : \A k \in 0 .. (QueueSize - 1) :
            v # u \/ d # c \/ k # b % QueueSize => slot'[v][d][k] = slot[v][d][k]
      /\ \A v, d \in Group : \A a \in Nat : Marked(v, d, a) => Marked(v, d, a)'
    <2>1. ASSUME NEW z \in Slot, z.blockId = b, z.finished, slot' = Written(u, c, b, z)
          PROVE  /\ slot' \in [Group -> [Group -> [0 .. (QueueSize - 1) -> Slot]]]
                 /\ slot'[u][c][b % QueueSize] = z
                 /\ \A v, d \in Group : \A k \in 0 .. (QueueSize - 1) :
                       v # u \/ d # c \/ k # b % QueueSize => slot'[v][d][k] = slot[v][d][k]
                 /\ \A v, d \in Group : \A a \in Nat : Marked(v, d, a) => Marked(v, d, a)'
        BY <2>1, SlotWritten
    <2>2. t \in Slot /\ t.blockId = b /\ t.finished BY <1>4
    <2> QED BY <1>3, <2>1, <2>2, Zenon
<1>6. Marked(u, c, b)' BY <1>4, <1>5 DEF Marked, SlotOf
<1>7. SlotVotes'
    <2>1. \A w \in t.votes : w \in Group \ {u} /\ VotedFor(log[w], c, b) BY <1>2, <1>4
    <2> QED BY <1>4, <1>5, <2>1, SlotVotesKept, Zenon
<1> QED BY <1>4, <1>5, <1>6, <1>7

LEMMA SubscriberVoteStep ==
    ASSUME Inv, RingFresh, NEW u \in Group, SubscriberVote(u) PROVE Inv'
<1>0. Typed /\ TypeOK /\ OncePerBlock /\ AllMarked /\ AllBacked /\ SlotVotes BY DEF Inv, Typed
<1>1. PICK x \in Dequeueable(u) :
         /\ taken' = [taken EXCEPT ![u] = BlockOrder(u, x[1], x[2])]
         /\ getBlockOrder(u, x[1], x[2])
         /\ queue' = [queue EXCEPT ![u] = @ \ {x}]
    BY DEF SubscriberVote
<1>2. UNCHANGED <<produced, received, clock, stage, forced, log, accepted, applied, aborted>>
    BY DEF SubscriberVote
<1> DEFINE c == x[1]
           b == x[2]
           s == BlockOrder(u, c, b)
<1>3. x \in queue[u] /\ x \in Group \X Nat BY <1>0 DEF Dequeueable, TypeOK
<1>4. c \in Group /\ b \in Nat /\ b < received[u][c] BY <1>0, <1>3 DEF Typed
<1>5. SlotOf(u, c, b).blockId <= b BY DEF RingFresh
<1>6. /\ s \in Seq(Entry) /\ Len(s) <= 1
      /\ \A p \in DOMAIN s : s[p].chain = c /\ s[p].block = b /\ ~ Marked(u, c, b)
    BY <1>0, <1>4, <1>5, OrderTaken
<1>7. /\ slot' \in [Group -> [Group -> [0 .. (QueueSize - 1) -> Slot]]]
      /\ \A v, d \in Group : \A a \in Nat : Marked(v, d, a) => Marked(v, d, a)'
      /\ Marked(u, c, b)' /\ SlotVotes'
    BY <1>0, <1>1, <1>2, <1>4, <1>5, TakenStep
<1> HIDE DEF s, b, c
<1>8. taken' = [taken EXCEPT ![u] = s] BY <1>1 DEF s, b, c
<1>9. /\ taken' \in [Group -> Seq(Entry)] /\ taken'[u] = s
      /\ \A v \in Group : v # u => taken'[v] = taken[v]
    BY <1>0, <1>6, <1>8 DEF TypeOK
<1>10. /\ queue' \in [Group -> SUBSET (Group \X Nat)]
       /\ \A v \in Group : queue'[v] \subseteq queue[v]
    BY <1>0, <1>1 DEF TypeOK
<1>11. Typed'
    <2>1. TypeOK' BY <1>0, <1>2, <1>7, <1>9, <1>10 DEF TypeOK
    <2>2. \A v \in Group : Len(taken'[v]) <= 1 BY <1>0, <1>6, <1>9 DEF Typed
    <2> QED BY <1>0, <1>2, <1>10, <2>1, <2>2 DEF Typed
<1>12. ASSUME NEW d, NEW a, VotedFor(s, d, a)
       PROVE  /\ d = c /\ a = b /\ ~ VotedFor(log[u], d, a)
              /\ \A v \in Group : ~ VotedFor(forced[u][v], d, a)
    <2>1. d = c /\ a = b /\ ~ Marked(u, c, b) BY <1>6, <1>12 DEF VotedFor
    <2> QED BY <1>0, <1>4, <2>1 DEF AllMarked
<1>13. OncePerBlock'
    <2>1. OneVote' BY <1>0, <1>2 DEF OncePerBlock, OneVote, VotesOnce
    <2>2. ASSUME NEW v \in Group, NEW d, NEW a, VotedFor(taken'[v], d, a)
          PROVE  ~ VotedFor(log[v], d, a) /\ \A w \in Group : ~ VotedFor(forced[v][w], d, a)
        <3>1. CASE v = u BY <1>9, <1>12, <2>2, <3>1
        <3>2. CASE v # u BY <1>0, <1>9, <2>2, <3>2 DEF OncePerBlock
        <3> QED BY <3>1, <3>2
    <2> QED BY <1>0, <1>2, <2>1, <2>2 DEF OncePerBlock
<1>14. AllMarked'
    <2> SUFFICES ASSUME NEW v \in Group, NEW d \in Group, NEW a \in Nat,
                        \/ VotedFor(log[v], d, a) \/ VotedFor(taken'[v], d, a)
                        \/ \E w \in Group : VotedFor(forced[v][w], d, a)
                 PROVE  Marked(v, d, a)'
        BY <1>2 DEF AllMarked
    <2>1. CASE v = u /\ VotedFor(s, d, a)
        <3>1. d = c /\ a = b BY <1>12, <2>1
        <3> QED BY <1>7, <2>1, <3>1
    <2>2. CASE ~ (v = u /\ VotedFor(s, d, a))
        <3>1. Marked(v, d, a) BY <1>0, <1>9, <2>2 DEF AllMarked
        <3> QED BY <1>7, <3>1
    <2> QED BY <2>1, <2>2
<1>15. AllBacked'
    <2>1. Backed' BY <1>0, <1>2, BackedIs DEF AllBacked
    <2>2. ASSUME NEW v \in Group, NEW p \in DOMAIN taken'[v]
          PROVE  taken'[v][p].block < received[v][taken'[v][p].chain]
        <3>1. CASE v = u BY <1>4, <1>6, <1>9, <3>1
        <3>2. CASE v # u BY <1>0, <1>9, <3>2 DEF AllBacked
        <3> QED BY <3>1, <3>2
    <2> QED BY <1>0, <1>2, <2>1, <2>2 DEF AllBacked, Pending
<1> QED BY <1>7, <1>11, <1>13, <1>14, <1>15 DEF Inv

\* the thread that has taken the vote in s appends it to the log
Appends(u, s) ==
    /\ Len(s) <= 1 /\ Propose(u, s)
    /\ UNCHANGED <<produced, received, queue, slot, clock, applied, aborted>>
    /\ taken' \in [Group -> Seq(Entry)] /\ forced' \in [Group -> [Group -> Seq(Entry)]]
    /\ stage' \in [Group -> [Group -> {"idle", "force", "propose", "check"}]]
    /\ \A v \in Group : taken'[v] = taken[v] \/ taken'[v] = <<>>
    /\ \A v, w \in Group : forced'[v][w] = forced[v][w] \/ forced'[v][w] = <<>>
    /\ \A v, w \in Group : stage'[v][w] = stage[v][w] \/ (stage'[v][w] = "check" /\ stage[v][w] = "propose")
    /\ \A c, b : VotedFor(s, c, b) =>
           /\ ~ VotedFor(log[u], c, b) /\ ~ VotedFor(taken'[u], c, b)
           /\ \A v \in Group : ~ VotedFor(forced'[u][v], c, b)
    /\ \A c \in Group : \A b \in Nat : VotedFor(s, c, b) => Marked(u, c, b)
    /\ \A p \in DOMAIN s : \/ s[p].block < received[u][s[p].chain]
                           \/ Supported(log, u, s[p].chain, s[p].block)

LEMMA ProposeStep ==
    ASSUME Inv, NEW u \in Group, NEW s \in Seq(Entry), Appends(u, s) PROVE Inv'
<1>0. Typed /\ TypeOK /\ OncePerBlock /\ AllMarked /\ AllBacked /\ SlotVotes BY DEF Inv, Typed
<1>u. UNCHANGED <<produced, received, queue, slot, clock, applied, aborted>> BY DEF Appends
<1>p. Len(s) <= 1 /\ Propose(u, s) BY DEF Appends
<1>t. /\ taken' \in [Group -> Seq(Entry)] /\ forced' \in [Group -> [Group -> Seq(Entry)]]
      /\ stage' \in [Group -> [Group -> {"idle", "force", "propose", "check"}]]
    BY DEF Appends
<1>k. \A v \in Group : taken'[v] = taken[v] \/ taken'[v] = <<>> BY DEF Appends
<1>f. \A v, w \in Group : forced'[v][w] = forced[v][w] \/ forced'[v][w] = <<>> BY DEF Appends
<1>s. \A v, w \in Group : stage'[v][w] = stage[v][w] \/ (stage'[v][w] = "check" /\ stage[v][w] = "propose")
    BY DEF Appends
<1>v. \A c, b : VotedFor(s, c, b) =>
         /\ ~ VotedFor(log[u], c, b) /\ ~ VotedFor(taken'[u], c, b)
         /\ \A v \in Group : ~ VotedFor(forced'[u][v], c, b)
    BY DEF Appends
<1>m. \A c \in Group : \A b \in Nat : VotedFor(s, c, b) => Marked(u, c, b) BY DEF Appends
<1>b. \A p \in DOMAIN s : \/ s[p].block < received[u][s[p].chain]
                         \/ Supported(log, u, s[p].chain, s[p].block)
    BY DEF Appends
<1>1. /\ log' \in [Group -> Seq(Entry)] /\ accepted' \in [Group -> [Group -> Nat]]
      /\ \A w \in Group : /\ Len(log[w]) \in Nat /\ Len(log'[w]) \in Nat
                          /\ Len(log[w]) <= Len(log'[w])
                          /\ DOMAIN log[w] = 1 .. Len(log[w])
                          /\ \A p \in DOMAIN log[w] : p \in DOMAIN log'[w] /\ log'[w][p] = log[w][p]
      /\ \A w \in Group : w # u => log'[w] = log[w]
      /\ Len(log'[u]) = Len(log[u]) + Len(s) /\ Len(s) \in {0, 1}
      /\ accepted'[u][u] = accepted[u][u] + Len(s)
      /\ \A v, w \in Group : v # u \/ w # u => accepted'[v][w] = accepted[v][w]
      /\ \A p \in DOMAIN log'[u] :
            \/ p \in DOMAIN log[u]
            \/ p = Len(log[u]) + 1 /\ 1 \in DOMAIN s /\ log'[u][p] = s[1]
    BY <1>0, <1>p, Proposed
<1>2. /\ \A w \in Group : \A c, b : VotedFor(log[w], c, b) => VotedFor(log'[w], c, b)
      /\ \A c, b : VotedFor(log'[u], c, b) => VotedFor(log[u], c, b) \/ VotedFor(s, c, b)
    BY <1>0, <1>p, ProposedVotes
<1>3. Len(<<>>) = 0 /\ DOMAIN <<>> = {} /\ \A c, b : ~ VotedFor(<<>>, c, b) BY DEF VotedFor
<1>4. /\ \A v \in Group : \A c, b : VotedFor(taken'[v], c, b) => VotedFor(taken[v], c, b)
      /\ \A v, w \in Group : \A c, b : VotedFor(forced'[v][w], c, b) => VotedFor(forced[v][w], c, b)
    <2>1. ASSUME NEW v \in Group, NEW c, NEW b, VotedFor(taken'[v], c, b) PROVE VotedFor(taken[v], c, b)
        BY <1>3, <1>k, <2>1
    <2>2. ASSUME NEW v \in Group, NEW w \in Group, NEW c, NEW b, VotedFor(forced'[v][w], c, b)
          PROVE  VotedFor(forced[v][w], c, b)
        BY <1>3, <1>f, <2>2
    <2> QED BY <2>1, <2>2
<1>5. \A v, w \in Group : accepted[v][w] \in Nat /\ applied[v][w] \in Nat
                          /\ applied[v][w] <= accepted[v][w] /\ accepted[v][w] <= Len(log[w])
    BY <1>0 DEF TypeOK
<1>6. Typed'
    <2>1. ASSUME NEW v \in Group, NEW w \in Group
          PROVE  applied[v][w] <= accepted'[v][w] /\ accepted'[v][w] <= Len(log'[w])
        <3>1. CASE v = u /\ w = u
            <4>1. /\ accepted'[u][u] = accepted[u][u] + Len(s) /\ Len(log'[u]) = Len(log[u]) + Len(s)
                  /\ Len(s) \in Nat /\ Len(log[u]) \in Nat
                BY <1>1
            <4>2. /\ accepted[u][u] \in Nat /\ applied[u][u] \in Nat
                  /\ applied[u][u] <= accepted[u][u] /\ accepted[u][u] <= Len(log[u])
                BY <1>5
            <4>3. applied[u][u] <= accepted[u][u] + Len(s) /\ accepted[u][u] + Len(s) <= Len(log[u]) + Len(s)
                BY <4>1, <4>2
            <4> QED BY <3>1, <4>1, <4>3
        <3>2. CASE v # u \/ w # u
            <4>1. accepted'[v][w] = accepted[v][w] BY <1>1, <3>2
            <4>2. Len(log[w]) \in Nat /\ Len(log'[w]) \in Nat /\ Len(log[w]) <= Len(log'[w]) BY <1>1
            <4>3. /\ accepted[v][w] \in Nat /\ applied[v][w] <= accepted[v][w]
                  /\ accepted[v][w] <= Len(log[w])
                BY <1>5
            <4> QED BY <4>1, <4>2, <4>3
        <3> QED BY <3>1, <3>2
    <2>2. TypeOK' BY <1>0, <1>1, <1>t, <1>u, <2>1 DEF TypeOK
    <2>3. ASSUME NEW v \in Group, NEW w \in Group, stage'[v][w] # "idle"
          PROVE  v # w /\ accepted'[v][w] < Len(log'[w])
        <3>1. v # w /\ accepted[v][w] < Len(log[w]) BY <1>0, <1>s, <2>3 DEF Typed
        <3>2. accepted'[v][w] = accepted[v][w] BY <1>1, <3>1
        <3> QED BY <1>1, <1>5, <3>1, <3>2, SMTT(30)
    <2>4. \A v \in Group : Len(taken'[v]) <= 1
        <3> SUFFICES ASSUME NEW v \in Group PROVE Len(taken'[v]) <= 1 OBVIOUS
        <3>1. CASE taken'[v] = taken[v] BY <1>0, <3>1 DEF Typed
        <3>2. CASE taken'[v] = <<>> BY <1>3, <3>2
        <3> QED BY <1>k, <3>1, <3>2
    <2>5. \A v, w \in Group : Len(forced'[v][w]) <= 1
        <3> SUFFICES ASSUME NEW v \in Group, NEW w \in Group PROVE Len(forced'[v][w]) <= 1 OBVIOUS
        <3>1. CASE forced'[v][w] = forced[v][w] BY <1>0, <3>1 DEF Typed
        <3>2. CASE forced'[v][w] = <<>> BY <1>3, <3>2
        <3> QED BY <1>f, <3>1, <3>2
    <2> QED BY <1>0, <1>u, <2>2, <2>3, <2>4, <2>5 DEF Typed
<1>7. OncePerBlock'
    <2>1. OneVote'
        <3> SUFFICES ASSUME NEW v \in Group, NEW p \in DOMAIN log'[v], NEW q \in 1 .. (p - 1),
                            log'[v][q].chain = log'[v][p].chain, log'[v][q].block = log'[v][p].block
                     PROVE  FALSE
            BY DEF OneVote, VotesOnce
        <3>0. DOMAIN log'[v] = 1 .. Len(log'[v]) /\ p \in Int /\ q \in Int
            BY <1>1
        <3>1. CASE p \in DOMAIN log[v]
            <4>1. q \in DOMAIN log[v] BY <1>1, <3>1
            <4>2. log'[v][p] = log[v][p] /\ log'[v][q] = log[v][q] BY <1>1, <3>1, <4>1
            <4> QED BY <1>0, <3>1, <4>2 DEF OncePerBlock, OneVote, VotesOnce
        <3>2. CASE p \notin DOMAIN log[v]
            <4>1. v = u /\ p = Len(log[u]) + 1 /\ 1 \in DOMAIN s /\ log'[u][p] = s[1] BY <1>1, <3>2
            <4>2. q \in DOMAIN log[u]
                <5>1. Len(log[u]) \in Nat /\ DOMAIN log[u] = 1 .. Len(log[u]) BY <1>1
                <5>2. p - 1 = Len(log[u]) BY <4>1, <5>1
                <5> QED BY <5>1, <5>2
            <4>3. log'[u][q] = log[u][q] BY <1>1, <4>2
            <4>4. VotedFor(s, s[1].chain, s[1].block) /\ VotedFor(log[u], s[1].chain, s[1].block)
                BY <4>1, <4>2, <4>3 DEF VotedFor
            <4> QED BY <1>v, <4>4
        <3> QED BY <3>1, <3>2
    <2>2. ASSUME NEW v \in Group, NEW c, NEW b, VotedFor(taken'[v], c, b) PROVE ~ VotedFor(log'[v], c, b)
        <3>1. ~ VotedFor(log[v], c, b) BY <1>0, <1>4, <2>2 DEF OncePerBlock
        <3>2. CASE v = u BY <1>2, <1>v, <2>2, <3>1, <3>2
        <3>3. CASE v # u BY <1>1, <3>1, <3>3
        <3> QED BY <3>2, <3>3
    <2>3. ASSUME NEW v \in Group, NEW w \in Group, NEW c, NEW b, VotedFor(forced'[v][w], c, b)
          PROVE  ~ VotedFor(log'[v], c, b) /\ ~ VotedFor(taken'[v], c, b)
        <3>1. ~ VotedFor(log[v], c, b) /\ ~ VotedFor(taken[v], c, b) BY <1>0, <1>4, <2>3 DEF OncePerBlock
        <3>2. CASE v = u BY <1>2, <1>4, <1>v, <2>3, <3>1, <3>2
        <3>3. CASE v # u BY <1>1, <1>4, <3>1, <3>3
        <3> QED BY <3>2, <3>3
    <2>4. \A v, w, x \in Group : \A c, b :
             VotedFor(forced'[v][w], c, b) /\ VotedFor(forced'[v][x], c, b) => w = x
        BY <1>0, <1>4 DEF OncePerBlock
    <2> QED BY <2>1, <2>2, <2>3, <2>4 DEF OncePerBlock
<1>8. AllMarked'
    <2> SUFFICES ASSUME NEW v \in Group, NEW d \in Group, NEW a \in Nat,
                        \/ VotedFor(log'[v], d, a) \/ VotedFor(taken'[v], d, a)
                        \/ \E w \in Group : VotedFor(forced'[v][w], d, a)
                 PROVE  Marked(v, d, a)
        BY <1>u DEF AllMarked, Marked, SlotOf
    <2>1. CASE v = u /\ VotedFor(s, d, a) BY <1>m, <2>1
    <2>2. CASE ~ (v = u /\ VotedFor(s, d, a))
        <3>1. VotedFor(log'[v], d, a) => VotedFor(log[v], d, a) BY <1>1, <1>2, <2>2
        <3> QED BY <1>0, <1>4, <3>1 DEF AllMarked
    <2> QED BY <2>1, <2>2
<1>9. ASSUME NEW v \in Group, NEW c, NEW b, Supported(log, v, c, b) PROVE Supported(log', v, c, b)
    BY <1>2, <1>9, SupportGrows
<1>10. AllBacked'
    <2>1. Backed'
        <3>0. \A v \in Group : \A p \in DOMAIN log[v] :
                  \/ log[v][p].block < received[v][log[v][p].chain]
                  \/ Supported(log, v, log[v][p].chain, log[v][p].block)
            BY <1>0, BackedIs DEF AllBacked
        <3>1. ASSUME NEW v \in Group, NEW p \in DOMAIN log'[v]
              PROVE  \/ log'[v][p].block < received[v][log'[v][p].chain]
                     \/ Supported(log', v, log'[v][p].chain, log'[v][p].block)
            <4>1. CASE p \in DOMAIN log[v]
                <5>1. log'[v][p] = log[v][p] BY <1>1, <4>1
                <5> QED BY <1>9, <3>0, <4>1, <5>1
            <4>2. CASE p \notin DOMAIN log[v]
                <5>1. v = u /\ 1 \in DOMAIN s /\ log'[u][p] = s[1] BY <1>1, <4>2
                <5>2. s[1].block < received[u][s[1].chain] \/ Supported(log, u, s[1].chain, s[1].block)
                    BY <1>b, <5>1
                <5> QED BY <1>9, <5>1, <5>2
            <4> QED BY <4>1, <4>2
        <3> QED BY <1>u, <3>1, BackedIs
    <2>2. ASSUME NEW v \in Group, NEW p \in DOMAIN taken'[v]
          PROVE  taken'[v][p].block < received[v][taken'[v][p].chain]
        <3>1. taken'[v] = taken[v] BY <1>3, <1>k, <2>2
        <3> QED BY <1>0, <3>1 DEF AllBacked
    <2>3. ASSUME NEW v \in Group, NEW w \in Group, NEW p \in DOMAIN forced'[v][w]
          PROVE  Supported(log', v, forced'[v][w][p].chain, forced'[v][w][p].block)
        <3>1. forced'[v][w] = forced[v][w] BY <1>3, <1>f, <2>3
        <3> QED BY <1>0, <1>9, <3>1 DEF AllBacked
    <2>4. ASSUME NEW v \in Group, NEW w \in Group, stage'[v][w] = "force"
          PROVE  /\ Pending(v, w)'.chain # v
                 /\ Supported(log', v, Pending(v, w)'.chain, Pending(v, w)'.block)
        <3>1. stage[v][w] = "force" BY <1>s, <2>4
        <3>2. v # w /\ accepted[v][w] < Len(log[w]) BY <1>0, <3>1 DEF Typed
        <3>3. accepted'[v][w] = accepted[v][w] BY <1>1, <3>2
        <3>4. accepted[v][w] + 1 \in DOMAIN log[w] BY <1>1, <1>5, <3>2, SMTT(30)
        <3>5. Pending(v, w)' = Pending(v, w) BY <1>1, <3>3, <3>4, SMTT(30) DEF Pending
        <3> QED BY <1>0, <1>9, <3>1, <3>5 DEF AllBacked
    <2> QED BY <1>u, <2>1, <2>2, <2>3, <2>4 DEF AllBacked
<1>11. SlotVotes' BY <1>0, <1>2, <1>u DEF SlotVotes
<1> QED BY <1>6, <1>7, <1>8, <1>10, <1>11 DEF Inv

LEMMA SubscriberProposeStep ==
    ASSUME Inv, NEW u \in Group, SubscriberPropose(u) PROVE Inv'
<1>0. Typed /\ TypeOK /\ OncePerBlock /\ AllMarked /\ AllBacked BY DEF Inv, Typed
<1> DEFINE s == taken[u]
<1>1. Propose(u, s) /\ taken' = [taken EXCEPT ![u] = <<>>] BY DEF SubscriberPropose
<1>2. UNCHANGED <<produced, received, queue, slot, clock, stage, forced, applied, aborted>>
    BY DEF SubscriberPropose
<1>3. s \in Seq(Entry) /\ Len(s) <= 1 BY <1>0 DEF Typed, TypeOK
<1>4. /\ taken' \in [Group -> Seq(Entry)] /\ taken'[u] = <<>>
      /\ \A v \in Group : taken'[v] = taken[v] \/ taken'[v] = <<>>
    BY <1>0, <1>1 DEF TypeOK
<1>5. \A c, b : ~ VotedFor(<<>>, c, b) BY DEF VotedFor
<1>6. \A c, b : VotedFor(s, c, b) =>
         /\ ~ VotedFor(log[u], c, b) /\ ~ VotedFor(taken'[u], c, b)
         /\ \A v \in Group : ~ VotedFor(forced'[u][v], c, b)
    BY <1>0, <1>2, <1>4, <1>5 DEF OncePerBlock
<1>7. \A c \in Group : \A b \in Nat : VotedFor(s, c, b) => Marked(u, c, b) BY <1>0 DEF AllMarked
<1>8. \A p \in DOMAIN s : s[p].block < received[u][s[p].chain] BY <1>0 DEF AllBacked
<1>9. /\ forced' \in [Group -> [Group -> Seq(Entry)]] /\ forced' = forced /\ stage' = stage
      /\ stage' \in [Group -> [Group -> {"idle", "force", "propose", "check"}]]
    BY <1>0, <1>2 DEF TypeOK
<1> HIDE DEF s
<1>10. \A p \in DOMAIN s : \/ s[p].block < received[u][s[p].chain]
                          \/ Supported(log, u, s[p].chain, s[p].block)
    BY <1>8
<1>11. \A v, w \in Group : forced'[v][w] = forced[v][w] \/ forced'[v][w] = <<>> BY <1>9
<1>12. \A v, w \in Group : stage'[v][w] = stage[v][w] \/ (stage'[v][w] = "check" /\ stage[v][w] = "propose")
    BY <1>9
<1>13. Appends(u, s)
    BY <1>1, <1>2, <1>3, <1>4, <1>6, <1>7, <1>9, <1>10, <1>11, <1>12, Zenon DEF Appends
<1> QED BY <1>3, <1>13, ProposeStep

LEMMA ForcedProposeStep ==
    ASSUME Inv, NEW u \in Group, NEW v \in Group, ForcedPropose(u, v) PROVE Inv'
<1>0. Typed /\ TypeOK /\ OncePerBlock /\ AllMarked /\ AllBacked BY DEF Inv, Typed
<1> DEFINE s == forced[u][v]
<1>1. /\ stage[u][v] = "propose" /\ Propose(u, s)
      /\ forced' = [forced EXCEPT ![u][v] = <<>>] /\ stage' = [stage EXCEPT ![u][v] = "check"]
    BY DEF ForcedPropose
<1>2. UNCHANGED <<produced, received, queue, slot, clock, taken, applied, aborted>> BY DEF ForcedPropose
<1>3. s \in Seq(Entry) /\ Len(s) <= 1 BY <1>0 DEF Typed, TypeOK
<1>4. /\ forced \in [Group -> [Group -> Seq(Entry)]]
      /\ stage \in [Group -> [Group -> {"idle", "force", "propose", "check"}]]
    BY <1>0 DEF TypeOK
<1>5. /\ forced' \in [Group -> [Group -> Seq(Entry)]] /\ forced'[u][v] = <<>>
      /\ \A w, x \in Group : w # u \/ x # v => forced'[w][x] = forced[w][x]
    BY <1>1, <1>4
<1>6. /\ stage' \in [Group -> [Group -> {"idle", "force", "propose", "check"}]]
      /\ \A w, x \in Group : stage'[w][x] = stage[w][x]
                               \/ (stage'[w][x] = "check" /\ stage[w][x] = "propose")
    BY <1>1, <1>4
<1>7. \A c, b : ~ VotedFor(<<>>, c, b) BY DEF VotedFor
<1>8. \A c, b : VotedFor(s, c, b) =>
         /\ ~ VotedFor(log[u], c, b) /\ ~ VotedFor(taken'[u], c, b)
         /\ \A w \in Group : ~ VotedFor(forced'[u][w], c, b)
    <2> SUFFICES ASSUME NEW c, NEW b, VotedFor(s, c, b)
                 PROVE  /\ ~ VotedFor(log[u], c, b) /\ ~ VotedFor(taken'[u], c, b)
                        /\ \A w \in Group : ~ VotedFor(forced'[u][w], c, b)
        OBVIOUS
    <2>1. ~ VotedFor(log[u], c, b) /\ ~ VotedFor(taken'[u], c, b) BY <1>0, <1>2 DEF OncePerBlock
    <2>2. ASSUME NEW w \in Group PROVE ~ VotedFor(forced'[u][w], c, b)
        <3>1. CASE w = v BY <1>5, <1>7, <3>1
        <3>2. CASE w # v
            <4>1. forced'[u][w] = forced[u][w] BY <1>5, <3>2
            <4> QED BY <1>0, <3>2, <4>1 DEF OncePerBlock
        <3> QED BY <3>1, <3>2
    <2> QED BY <2>1, <2>2
<1>9. \A c \in Group : \A b \in Nat : VotedFor(s, c, b) => Marked(u, c, b) BY <1>0 DEF AllMarked
<1>10. \A p \in DOMAIN s : Supported(log, u, s[p].chain, s[p].block) BY <1>0 DEF AllBacked
<1>11. taken' \in [Group -> Seq(Entry)] /\ taken' = taken BY <1>0, <1>2 DEF TypeOK
<1>12. \A w, x \in Group : forced'[w][x] = forced[w][x] \/ forced'[w][x] = <<>> BY <1>5
<1> HIDE DEF s
<1>13. \A p \in DOMAIN s : \/ s[p].block < received[u][s[p].chain]
                          \/ Supported(log, u, s[p].chain, s[p].block)
    BY <1>10
<1>14. \A w \in Group : taken'[w] = taken[w] \/ taken'[w] = <<>> BY <1>11
<1>15. Appends(u, s)
    BY <1>1, <1>2, <1>3, <1>5, <1>6, <1>8, <1>9, <1>11, <1>12, <1>13, <1>14, Zenon DEF Appends
<1> QED BY <1>3, <1>15, ProposeStep

\* what the validation of an entry may change, apart from a forced vote
Validates ==
    /\ UNCHANGED <<produced, received, queue, clock, taken, forced, log, applied, aborted>>
    /\ slot' \in [Group -> [Group -> [0 .. (QueueSize - 1) -> Slot]]]
    /\ accepted' \in [Group -> [Group -> Nat]]
    /\ stage' \in [Group -> [Group -> {"idle", "force", "propose", "check"}]]
    /\ \A w, d \in Group : \A a \in Nat : Marked(w, d, a) => Marked(w, d, a)'
    /\ SlotVotes'
    /\ \A w, x \in Group : stage'[w][x] # "idle" =>
          w # x /\ accepted'[w][x] = accepted[w][x] /\ accepted[w][x] < Len(log[x])
    /\ \A w, x \in Group : accepted[w][x] <= accepted'[w][x] /\ accepted'[w][x] <= Len(log[x])
    /\ \A w, x \in Group : stage'[w][x] = "force" =>
          Pending(w, x).chain # w /\ Supported(log, w, Pending(w, x).chain, Pending(w, x).block)

LEMMA ValidateStep == ASSUME Inv, Validates PROVE Inv'
<1>0. Typed /\ TypeOK /\ OncePerBlock /\ AllMarked /\ AllBacked BY DEF Inv, Typed
<1>1. UNCHANGED <<produced, received, queue, clock, taken, forced, log, applied, aborted>> BY DEF Validates
<1>2. /\ slot' \in [Group -> [Group -> [0 .. (QueueSize - 1) -> Slot]]]
      /\ accepted' \in [Group -> [Group -> Nat]]
      /\ stage' \in [Group -> [Group -> {"idle", "force", "propose", "check"}]]
    BY DEF Validates
<1>3. \A w, d \in Group : \A a \in Nat : Marked(w, d, a) => Marked(w, d, a)' BY DEF Validates
<1>4. \A w, x \in Group : stage'[w][x] # "idle" =>
          w # x /\ accepted'[w][x] = accepted[w][x] /\ accepted[w][x] < Len(log[x])
    BY DEF Validates
<1>5. \A w, x \in Group : accepted[w][x] <= accepted'[w][x] /\ accepted'[w][x] <= Len(log[x])
    BY DEF Validates
<1>6. \A w, x \in Group : stage'[w][x] = "force" =>
          Pending(w, x).chain # w /\ Supported(log, w, Pending(w, x).chain, Pending(w, x).block)
    BY DEF Validates
<1>7. Typed'
    <2>1. ASSUME NEW w \in Group, NEW x \in Group PROVE applied[w][x] <= accepted'[w][x]
        <3>1. /\ applied[w][x] \in Nat /\ accepted[w][x] \in Nat /\ accepted'[w][x] \in Nat
              /\ applied[w][x] <= accepted[w][x]
            BY <1>0, <1>2 DEF TypeOK
        <3> QED BY <1>5, <3>1
    <2>2. TypeOK' BY <1>0, <1>1, <1>2, <1>5, <2>1 DEF TypeOK
    <2> QED BY <1>0, <1>1, <1>4, <2>2 DEF Typed
<1>8. OncePerBlock' BY <1>0, <1>1 DEF OncePerBlock, OneVote, VotesOnce
<1>9. AllMarked'
    <2> SUFFICES ASSUME NEW v \in Group, NEW d \in Group, NEW a \in Nat,
                        \/ VotedFor(log[v], d, a) \/ VotedFor(taken[v], d, a)
                        \/ \E w \in Group : VotedFor(forced[v][w], d, a)
                 PROVE  Marked(v, d, a)'
        BY <1>1 DEF AllMarked
    <2>1. Marked(v, d, a) BY <1>0 DEF AllMarked
    <2> QED BY <1>3, <2>1
<1>10. AllBacked'
    <2>1. Backed' BY <1>0, <1>1, BackedIs DEF AllBacked
    <2>2. ASSUME NEW w \in Group, NEW x \in Group, stage'[w][x] = "force"
          PROVE  Pending(w, x)' = Pending(w, x)
        <3>1. accepted'[w][x] = accepted[w][x] BY <1>4, <2>2
        <3> QED BY <1>1, <3>1 DEF Pending
    <2>3. ASSUME NEW w \in Group, NEW x \in Group, stage'[w][x] = "force"
          PROVE  /\ Pending(w, x)'.chain # w
                 /\ Supported(log', w, Pending(w, x)'.chain, Pending(w, x)'.block)
        BY <1>1, <1>6, <2>2, <2>3
    <2> QED BY <1>0, <1>1, <2>1, <2>3 DEF AllBacked
<1> QED BY <1>7, <1>8, <1>9, <1>10 DEF Inv, Validates

\* the vote counted for a block is in the log that is validated
LEMMA Counted ==
    ASSUME Inv, RingFresh, NEW u \in Group, NEW v \in Group, u # v, accepted[u][v] < Len(log[v]),
           Pending(u, v).chain # u
    PROVE  LET c == Pending(u, v).chain
               b == Pending(u, v).block
           IN  /\ c \in Group /\ b \in Nat /\ SlotOf(u, c, b).blockId <= b
               /\ getRef(u, c, b) \in Slot /\ getRef(u, c, b).blockId = b
               /\ \A w \in getRef(u, c, b).votes \cup {v} : w \in Group \ {u} /\ VotedFor(log[w], c, b)
<1>0. TypeOK /\ SlotVotes BY DEF Inv, Typed
<1> DEFINE c == Pending(u, v).chain
           b == Pending(u, v).block
<1>1. c \in Group /\ b \in Nat /\ accepted[u][v] + 1 \in DOMAIN log[v] BY <1>0, PendingTyped
<1>2. SlotOf(u, c, b).blockId <= b BY DEF RingFresh
<1>3. getRef(u, c, b) \in Slot /\ getRef(u, c, b).blockId = b BY <1>0, <1>1, <1>2, Found
<1>4. \A w \in getRef(u, c, b).votes : w \in Group \ {u} /\ VotedFor(log[w], c, b)
    BY <1>0, <1>1, <1>2, FoundVotes
<1>5. VotedFor(log[v], c, b) BY <1>1 DEF VotedFor, Pending
<1> HIDE DEF c, b
<1>6. \A w \in getRef(u, c, b).votes \cup {v} : w \in Group \ {u} /\ VotedFor(log[w], c, b)
    BY <1>4, <1>5
<1> QED BY <1>1, <1>2, <1>3, <1>6 DEF c, b

\* a slot is written back, with no vote that is not in the logs
LEMMA WrittenBack ==
    ASSUME Inv, NEW u \in Group, NEW c \in Group, NEW b \in Nat, SlotOf(u, c, b).blockId <= b,
           NEW t \in Slot, t.blockId = b, t.finished = getRef(u, c, b).finished,
           \A w \in t.votes : w \in Group \ {u} /\ VotedFor(log[w], c, b),
           slot' = Written(u, c, b, t), log' = log
    PROVE  /\ slot' \in [Group -> [Group -> [0 .. (QueueSize - 1) -> Slot]]]
           /\ \A w, d \in Group : \A a \in Nat : Marked(w, d, a) => Marked(w, d, a)'
           /\ SlotVotes'
<1>0. TypeOK /\ SlotVotes BY DEF Inv, Typed
<1>1. getRef(u, c, b).finished => t.finished OBVIOUS
<1>2. /\ slot' \in [Group -> [Group -> [0 .. (QueueSize - 1) -> Slot]]]
      /\ slot'[u][c][b % QueueSize] = t
      /\ \A v, d \in Group : \A k \in 0 .. (QueueSize - 1) :
            v # u \/ d # c \/ k # b % QueueSize => slot'[v][d][k] = slot[v][d][k]
      /\ \A v, d \in Group : \A a \in Nat : Marked(v, d, a) => Marked(v, d, a)'
    BY <1>0, <1>1, SlotWritten
<1>3. SlotVotes' BY <1>0, <1>2, SlotVotesKept, ZenonT(30)
<1> QED BY <1>2, <1>3

LEMMA AddVoteStep ==
    ASSUME Inv, RingFresh, NEW u \in Group, NEW v \in Group, AddVote(u, v) PROVE Inv'
<1>0. Typed /\ TypeOK /\ AllBacked /\ SlotVotes BY DEF Inv, Typed
<1> DEFINE c == Pending(u, v).chain
           b == Pending(u, v).block
           g == getRef(u, c, b)
           votes == g.votes \cup {v}
           t == [g EXCEPT !.votes = votes]
<1>1. u # v /\ stage[u][v] = "idle" /\ accepted[u][v] < Len(log[v]) BY DEF AddVote
<1>2. UNCHANGED <<produced, received, queue, clock, taken, forced, log, accepted, applied, aborted>>
    BY DEF AddVote
<1>3. \/ c = u /\ stage' = [stage EXCEPT ![u][v] = "check"] /\ UNCHANGED slot
      \/ c # u /\ stage' = [stage EXCEPT ![u][v] = "check"] /\ slot' = Written(u, c, b, g)
      \/ /\ c # u /\ slot' = Written(u, c, b, t)
         /\ stage' = [stage EXCEPT ![u][v] = IF Reached(votes) THEN "force" ELSE "check"]
    BY DEF AddVote, Written
<1>4. c # u => /\ c \in Group /\ b \in Nat /\ SlotOf(u, c, b).blockId <= b
               /\ g \in Slot /\ g.blockId = b
               /\ \A w \in votes : w \in Group \ {u} /\ VotedFor(log[w], c, b)
    BY <1>1, Counted
<1>5. c # u => t \in Slot /\ t.blockId = b /\ t.votes = votes /\ t.finished = g.finished
    <2> SUFFICES ASSUME c # u PROVE t \in Slot /\ t.blockId = b /\ t.votes = votes /\ t.finished = g.finished
        OBVIOUS
    <2>1. g \in [blockId : Nat, votes : SUBSET Group, finished : BOOLEAN] /\ votes \subseteq Group /\ g.blockId = b
        BY <1>4 DEF Slot
    <2> HIDE DEF g, votes
    <2> QED BY <2>1 DEF Slot
<1>6. c # u /\ Reached(votes) => Supported(log, u, c, b)
    <2> SUFFICES ASSUME c # u, Reached(votes) PROVE Supported(log, u, c, b) OBVIOUS
    <2> DEFINE V == Voters(log, u, c, b)
    <2> HIDE DEF votes
    <2>1. votes \in SUBSET V /\ V \in SUBSET Group BY <1>4 DEF Voters
    <2>2. IsFiniteSet(Group) BY GroupCountAssumption, FS_Interval DEF Group
    <2>3. IsFiniteSet(V) BY <2>1, <2>2, FS_Subset
    <2>4. IsFiniteSet(votes) /\ Cardinality(votes) <= Cardinality(V) BY <2>1, <2>3, FS_Subset
    <2>5. Cardinality(votes) \in Nat /\ Cardinality(V) \in Nat BY <2>3, <2>4, FS_CardinalityType
    <2>6. Cardinality(votes) = Threshold BY DEF Reached
    <2> HIDE DEF V
    <2>7. Cardinality(V) >= Threshold BY <2>4, <2>5, <2>6
    <2> QED BY <2>7 DEF Supported, V
<1>7. /\ slot' \in [Group -> [Group -> [0 .. (QueueSize - 1) -> Slot]]]
      /\ \A w, d \in Group : \A a \in Nat : Marked(w, d, a) => Marked(w, d, a)'
      /\ SlotVotes'
    <2>1. CASE UNCHANGED slot BY <1>0, <1>2, <2>1 DEF TypeOK, Marked, SlotOf, SlotVotes
    <2>2. CASE c # u /\ slot' = Written(u, c, b, g)
        <3>1. \A w \in g.votes : w \in Group \ {u} /\ VotedFor(log[w], c, b) BY <1>4, <2>2
        <3>2. c \in Group /\ b \in Nat /\ SlotOf(u, c, b).blockId <= b /\ g \in Slot /\ g.blockId = b
            BY <1>4, <2>2
        <3>3. ASSUME NEW z \in Slot, z = g
              PROVE  /\ slot' \in [Group -> [Group -> [0 .. (QueueSize - 1) -> Slot]]]
                     /\ \A w, d \in Group : \A a \in Nat : Marked(w, d, a) => Marked(w, d, a)'
                     /\ SlotVotes'
            <4>1. z.blockId = b /\ z.finished = getRef(u, c, b).finished /\ slot' = Written(u, c, b, z)
                BY <2>2, <3>2, <3>3
            <4>2. \A w \in z.votes : w \in Group \ {u} /\ VotedFor(log[w], c, b) BY <3>1, <3>3
            <4> HIDE DEF c, b, g
            <4> QED BY <1>2, <3>2, <4>1, <4>2, WrittenBack
        <3> QED BY <3>2, <3>3
    <2>3. CASE c # u /\ slot' = Written(u, c, b, t)
        <3>1. c \in Group /\ b \in Nat /\ SlotOf(u, c, b).blockId <= b BY <1>4, <2>3
        <3>2. t \in Slot /\ t.blockId = b /\ t.votes = votes /\ t.finished = getRef(u, c, b).finished
            BY <1>5, <2>3
        <3>3. ASSUME NEW z \in Slot, z = t
              PROVE  /\ slot' \in [Group -> [Group -> [0 .. (QueueSize - 1) -> Slot]]]
                     /\ \A w, d \in Group : \A a \in Nat : Marked(w, d, a) => Marked(w, d, a)'
                     /\ SlotVotes'
            <4> HIDE DEF t
            <4>1. z.blockId = b /\ z.finished = getRef(u, c, b).finished /\ slot' = Written(u, c, b, z)
                BY <2>3, <3>2, <3>3
            <4>2. \A w \in z.votes : w \in Group \ {u} /\ VotedFor(log[w], c, b) BY <1>4, <2>3, <3>2, <3>3
            <4> HIDE DEF c, b, g
            <4> QED BY <1>2, <3>1, <4>1, <4>2, WrittenBack
        <3> HIDE DEF t
        <3> QED BY <3>2, <3>3
    <2> QED BY <1>3, <2>1, <2>2, <2>3
<1>8. PICK y \in {"force", "check"} :
        /\ stage' = [stage EXCEPT ![u][v] = y]
        /\ y = "force" => c # u /\ Reached(votes)
    BY <1>3
<1>9. /\ stage' \in [Group -> [Group -> {"idle", "force", "propose", "check"}]] /\ stage'[u][v] = y
      /\ \A w, x \in Group : w # u \/ x # v => stage'[w][x] = stage[w][x]
    <2>1. stage \in [Group -> [Group -> {"idle", "force", "propose", "check"}]] BY <1>0 DEF TypeOK
    <2>2. stage' = [stage EXCEPT ![u][v] = y] BY <1>8
    <2> QED BY <2>1, <2>2
<1>10. ASSUME NEW w \in Group, NEW x \in Group, stage'[w][x] # "idle"
       PROVE  w # x /\ accepted[w][x] < Len(log[x])
    <2>1. CASE w = u /\ x = v BY <1>1, <2>1
    <2>2. CASE w # u \/ x # v BY <1>0, <1>9, <1>10, <2>2 DEF Typed
    <2> QED BY <2>1, <2>2
<1>11. ASSUME NEW w \in Group, NEW x \in Group, stage'[w][x] = "force"
       PROVE  Pending(w, x).chain # w /\ Supported(log, w, Pending(w, x).chain, Pending(w, x).block)
    <2>1. CASE w = u /\ x = v BY <1>6, <1>8, <1>9, <1>11, <2>1
    <2>2. CASE w # u \/ x # v BY <1>0, <1>9, <1>11, <2>2 DEF AllBacked
    <2> QED BY <2>1, <2>2
<1>12. /\ accepted' \in [Group -> [Group -> Nat]] /\ accepted' = accepted
       /\ \A w, x \in Group : accepted[w][x] <= accepted'[w][x] /\ accepted'[w][x] <= Len(log[x])
    <2>1. /\ accepted \in [Group -> [Group -> Nat]]
          /\ \A w, x \in Group : accepted[w][x] <= Len(log[x]) BY <1>0 DEF TypeOK
    <2>2. \A w, x \in Group : accepted[w][x] \in Nat BY <2>1
    <2> QED BY <1>2, <2>1, <2>2, SMTT(30)
<1>13. Validates BY <1>2, <1>7, <1>9, <1>10, <1>11, <1>12 DEF Validates
<1> QED BY <1>13, ValidateStep

LEMMA CheckVoteStep ==
    ASSUME Inv, RingFresh, NEW u \in Group, NEW v \in Group, CheckVote(u, v) PROVE Inv'
<1>0. Typed /\ TypeOK /\ AllBacked /\ SlotVotes BY DEF Inv, Typed
<1> DEFINE c == Pending(u, v).chain
           b == Pending(u, v).block
           g == getRef(u, c, b)
<1>1. /\ stage[u][v] = "check" /\ stage' = [stage EXCEPT ![u][v] = "idle"]
      /\ slot' = IF c = u THEN slot ELSE Written(u, c, b, g)
      /\ accepted' = IF Valid(u, Pending(u, v)) THEN [accepted EXCEPT ![u][v] = @ + 1] ELSE accepted
    BY DEF CheckVote, Written
<1>2. UNCHANGED <<produced, received, queue, clock, taken, forced, log, applied, aborted>>
    BY DEF CheckVote
<1>3. u # v /\ accepted[u][v] < Len(log[v]) BY <1>0, <1>1 DEF Typed
<1>4. c # u => /\ c \in Group /\ b \in Nat /\ SlotOf(u, c, b).blockId <= b
               /\ g \in Slot /\ g.blockId = b
               /\ \A w \in g.votes \cup {v} : w \in Group \ {u} /\ VotedFor(log[w], c, b)
    BY <1>3, Counted
<1>5. /\ slot' \in [Group -> [Group -> [0 .. (QueueSize - 1) -> Slot]]]
      /\ \A w, d \in Group : \A a \in Nat : Marked(w, d, a) => Marked(w, d, a)'
      /\ SlotVotes'
    <2>1. CASE c = u
        <3>1. UNCHANGED slot BY <1>1, <2>1
        <3> QED BY <1>0, <1>2, <3>1 DEF TypeOK, Marked, SlotOf, SlotVotes
    <2>2. CASE c # u
        <3>1. \A w \in g.votes : w \in Group \ {u} /\ VotedFor(log[w], c, b) BY <1>4, <2>2
        <3>2. c \in Group /\ b \in Nat /\ SlotOf(u, c, b).blockId <= b /\ g \in Slot /\ g.blockId = b
            BY <1>4, <2>2
        <3>3. slot' = Written(u, c, b, g) BY <1>1, <2>2
        <3>4. ASSUME NEW z \in Slot, z = g
              PROVE  /\ slot' \in [Group -> [Group -> [0 .. (QueueSize - 1) -> Slot]]]
                     /\ \A w, d \in Group : \A a \in Nat : Marked(w, d, a) => Marked(w, d, a)'
                     /\ SlotVotes'
            <4>1. z.blockId = b /\ z.finished = getRef(u, c, b).finished /\ slot' = Written(u, c, b, z)
                BY <3>2, <3>3, <3>4
            <4>2. \A w \in z.votes : w \in Group \ {u} /\ VotedFor(log[w], c, b) BY <3>1, <3>4
            <4> HIDE DEF c, b, g
            <4> QED BY <1>2, <3>2, <4>1, <4>2, WrittenBack
        <3> QED BY <3>2, <3>4
    <2> QED BY <2>1, <2>2
<1>6. /\ stage' \in [Group -> [Group -> {"idle", "force", "propose", "check"}]] /\ stage'[u][v] = "idle"
      /\ \A w, x \in Group : w # u \/ x # v => stage'[w][x] = stage[w][x]
    <2>1. stage \in [Group -> [Group -> {"idle", "force", "propose", "check"}]] BY <1>0 DEF TypeOK
    <2> QED BY <1>1, <2>1
<1>7. /\ accepted \in [Group -> [Group -> Nat]]
      /\ \A w, x \in Group : accepted[w][x] \in Nat /\ Len(log[x]) \in Nat /\ accepted[w][x] <= Len(log[x])
    <2>1. \A x \in Group : log[x] \in Seq(Entry) BY <1>0 DEF TypeOK
    <2>2. \A x \in Group : Len(log[x]) \in Nat BY <2>1
    <2>3. accepted \in [Group -> [Group -> Nat]] BY <1>0 DEF TypeOK
    <2>4. \A w, x \in Group : accepted[w][x] <= Len(log[x]) BY <1>0 DEF TypeOK
    <2>5. \A w, x \in Group : accepted[w][x] \in Nat BY <2>3
    <2> QED BY <2>2, <2>3, <2>4, <2>5
<1>8. /\ accepted' \in [Group -> [Group -> Nat]]
      /\ accepted'[u][v] = accepted[u][v] \/ accepted'[u][v] = accepted[u][v] + 1
      /\ \A w, x \in Group : w # u \/ x # v => accepted'[w][x] = accepted[w][x]
    <2>1. CASE accepted' = accepted BY <1>7, <2>1
    <2>2. CASE accepted' = [accepted EXCEPT ![u][v] = @ + 1]
        <3> DEFINE r == [accepted[u] EXCEPT ![v] = @ + 1]
        <3>1. accepted' = [accepted EXCEPT ![u] = r] BY <2>2
        <3>2. accepted[u][v] + 1 \in Nat BY <1>7
        <3>3. /\ r \in [Group -> Nat] /\ r[v] = accepted[u][v] + 1
              /\ \A x \in Group : x # v => r[x] = accepted[u][x]
            BY <1>7, <3>2
        <3> HIDE DEF r
        <3>4. /\ accepted' \in [Group -> [Group -> Nat]] /\ accepted'[u] = r
              /\ \A w \in Group : w # u => accepted'[w] = accepted[w]
            BY <1>7, <3>1, <3>3
        <3> QED BY <3>3, <3>4
    <2> QED BY <1>1, <2>1, <2>2
<1>9. ASSUME NEW w \in Group, NEW x \in Group
      PROVE  accepted[w][x] <= accepted'[w][x] /\ accepted'[w][x] <= Len(log[x])
    <2>0. accepted[w][x] \in Nat /\ Len(log[x]) \in Nat /\ accepted[w][x] <= Len(log[x]) BY <1>7
    <2>1. CASE w = u /\ x = v BY <1>3, <1>8, <2>0, <2>1
    <2>2. CASE w # u \/ x # v BY <1>8, <2>0, <2>2, SMTT(30)
    <2> QED BY <2>1, <2>2
<1>10. ASSUME NEW w \in Group, NEW x \in Group, stage'[w][x] # "idle"
       PROVE  w # x /\ accepted'[w][x] = accepted[w][x] /\ accepted[w][x] < Len(log[x])
    BY <1>0, <1>6, <1>8, <1>10 DEF Typed
<1>11. ASSUME NEW w \in Group, NEW x \in Group, stage'[w][x] = "force"
       PROVE  Pending(w, x).chain # w /\ Supported(log, w, Pending(w, x).chain, Pending(w, x).block)
    BY <1>0, <1>6, <1>11 DEF AllBacked
<1>12. Validates BY <1>2, <1>5, <1>6, <1>8, <1>9, <1>10, <1>11 DEF Validates
<1> QED BY <1>12, ValidateStep

LEMMA ForcedVoteStep ==
    ASSUME Inv, RingFresh, NEW u \in Group, NEW v \in Group, ForcedVote(u, v) PROVE Inv'
<1>0. Typed /\ TypeOK /\ OncePerBlock /\ AllMarked /\ AllBacked /\ SlotVotes BY DEF Inv, Typed
<1>a. stage[u][v] = "force" BY DEF ForcedVote
<1>b. u # v /\ accepted[u][v] < Len(log[v]) BY <1>0, <1>a DEF Typed
<1>c. PICK c \in Group, b \in Nat : c = Pending(u, v).chain /\ b = Pending(u, v).block
    BY <1>0, <1>b, PendingTyped
<1> DEFINE s == BlockOrder(u, c, b)
<1>1. /\ stage[u][v] = "force" /\ forced' = [forced EXCEPT ![u][v] = s]
      /\ getBlockOrder(u, c, b) /\ stage' = [stage EXCEPT ![u][v] = "propose"]
    BY <1>c DEF ForcedVote
<1>2. UNCHANGED <<produced, received, queue, clock, taken, log, accepted, applied, aborted>>
    BY DEF ForcedVote
<1>3. u # v /\ accepted[u][v] < Len(log[v]) BY <1>b
<1>4. c \in Group /\ b \in Nat OBVIOUS
<1>5. c # u /\ Supported(log, u, c, b) BY <1>0, <1>1, <1>c DEF AllBacked
<1>6. SlotOf(u, c, b).blockId <= b BY <1>3, <1>5, <1>c DEF RingFresh
<1>7. /\ s \in Seq(Entry) /\ Len(s) <= 1
      /\ \A p \in DOMAIN s : s[p].chain = c /\ s[p].block = b /\ ~ Marked(u, c, b)
    BY <1>0, <1>4, <1>6, OrderTaken
<1>8. /\ slot' \in [Group -> [Group -> [0 .. (QueueSize - 1) -> Slot]]]
      /\ \A w, d \in Group : \A a \in Nat : Marked(w, d, a) => Marked(w, d, a)'
      /\ Marked(u, c, b)' /\ SlotVotes'
    BY <1>0, <1>1, <1>2, <1>4, <1>6, TakenStep
<1> HIDE DEF s
<1>9. /\ forced' \in [Group -> [Group -> Seq(Entry)]] /\ forced'[u][v] = s
      /\ \A w, x \in Group : w # u \/ x # v => forced'[w][x] = forced[w][x]
    <2>1. forced \in [Group -> [Group -> Seq(Entry)]] BY <1>0 DEF TypeOK
    <2> QED BY <1>1, <1>7, <2>1
<1>10. /\ stage' \in [Group -> [Group -> {"idle", "force", "propose", "check"}]]
       /\ stage'[u][v] = "propose"
       /\ \A w, x \in Group : w # u \/ x # v => stage'[w][x] = stage[w][x]
    <2>1. stage \in [Group -> [Group -> {"idle", "force", "propose", "check"}]] BY <1>0 DEF TypeOK
    <2> QED BY <1>1, <2>1
<1>11. Typed'
    <2>1. TypeOK' BY <1>0, <1>2, <1>8, <1>9, <1>10 DEF TypeOK
    <2>2. ASSUME NEW w \in Group, NEW x \in Group PROVE Len(forced'[w][x]) <= 1
        <3>1. CASE w = u /\ x = v BY <1>7, <1>9, <3>1
        <3>2. CASE w # u \/ x # v BY <1>0, <1>9, <3>2 DEF Typed
        <3> QED BY <3>1, <3>2
    <2>3. ASSUME NEW w \in Group, NEW x \in Group, stage'[w][x] # "idle"
          PROVE  w # x /\ accepted[w][x] < Len(log[x])
        <3>1. CASE w = u /\ x = v BY <1>3, <3>1
        <3>2. CASE w # u \/ x # v BY <1>0, <1>10, <2>3, <3>2 DEF Typed
        <3> QED BY <3>1, <3>2
    <2> QED BY <1>0, <1>2, <2>1, <2>2, <2>3 DEF Typed
<1>12. ASSUME NEW d, NEW a, VotedFor(s, d, a)
       PROVE  /\ d = c /\ a = b /\ ~ VotedFor(log[u], d, a) /\ ~ VotedFor(taken[u], d, a)
              /\ \A w \in Group : ~ VotedFor(forced[u][w], d, a)
    <2>1. d = c /\ a = b /\ ~ Marked(u, c, b) BY <1>7, <1>12 DEF VotedFor
    <2> QED BY <1>0, <1>4, <2>1 DEF AllMarked
<1>13. OncePerBlock'
    <2>1. OneVote' BY <1>0, <1>2 DEF OncePerBlock, OneVote, VotesOnce
    <2>2. ASSUME NEW w \in Group, NEW x \in Group, NEW d, NEW a, VotedFor(forced'[w][x], d, a)
          PROVE  ~ VotedFor(log[w], d, a) /\ ~ VotedFor(taken[w], d, a)
        <3>1. CASE w = u /\ x = v BY <1>9, <1>12, <2>2, <3>1
        <3>2. CASE w # u \/ x # v
            <4>1. forced'[w][x] = forced[w][x] BY <1>9, <3>2
            <4> QED BY <1>0, <2>2, <4>1 DEF OncePerBlock
        <3> QED BY <3>1, <3>2
    <2>3. ASSUME NEW w \in Group, NEW x \in Group, NEW y \in Group, NEW d, NEW a,
                 VotedFor(forced'[w][x], d, a), VotedFor(forced'[w][y], d, a)
          PROVE  x = y
        <3>1. CASE w # u
            <4>1. forced'[w][x] = forced[w][x] /\ forced'[w][y] = forced[w][y] BY <1>9, <3>1
            <4> QED BY <1>0, <2>3, <4>1 DEF OncePerBlock
        <3>2. CASE w = u /\ x # v /\ y # v
            <4>1. forced'[w][x] = forced[w][x] /\ forced'[w][y] = forced[w][y] BY <1>9, <3>2
            <4> QED BY <1>0, <2>3, <4>1 DEF OncePerBlock
        <3>3. CASE w = u /\ x = v /\ y # v BY <1>9, <1>12, <2>3, <3>3
        <3>4. CASE w = u /\ x # v /\ y = v BY <1>9, <1>12, <2>3, <3>4
        <3> QED BY <3>1, <3>2, <3>3, <3>4
    <2>4. \A w \in Group : \A d, a : VotedFor(taken[w], d, a) => ~ VotedFor(log[w], d, a)
        BY <1>0 DEF OncePerBlock
    <2> QED BY <1>2, <2>1, <2>2, <2>3, <2>4 DEF OncePerBlock
<1>14. AllMarked'
    <2> SUFFICES ASSUME NEW w \in Group, NEW d \in Group, NEW a \in Nat,
                        \/ VotedFor(log[w], d, a) \/ VotedFor(taken[w], d, a)
                        \/ \E x \in Group : VotedFor(forced'[w][x], d, a)
                 PROVE  Marked(w, d, a)'
        BY <1>2 DEF AllMarked
    <2>1. CASE w = u /\ VotedFor(s, d, a)
        <3>1. d = c /\ a = b BY <1>12, <2>1
        <3> QED BY <1>8, <2>1, <3>1
    <2>2. CASE ~ (w = u /\ VotedFor(s, d, a))
        <3>1. Marked(w, d, a) BY <1>0, <1>9, <2>2 DEF AllMarked
        <3> QED BY <1>8, <3>1
    <2> QED BY <2>1, <2>2
<1>15. AllBacked'
    <2>1. Backed' BY <1>0, <1>2, BackedIs DEF AllBacked
    <2>2. ASSUME NEW w \in Group, NEW x \in Group, NEW p \in DOMAIN forced'[w][x]
          PROVE  Supported(log, w, forced'[w][x][p].chain, forced'[w][x][p].block)
        <3>1. CASE w = u /\ x = v BY <1>5, <1>7, <1>9, <3>1
        <3>2. CASE w # u \/ x # v BY <1>0, <1>9, <3>2 DEF AllBacked
        <3> QED BY <3>1, <3>2
    <2>3. ASSUME NEW w \in Group, NEW x \in Group, stage'[w][x] = "force"
          PROVE  /\ Pending(w, x)'.chain # w
                 /\ Supported(log', w, Pending(w, x)'.chain, Pending(w, x)'.block)
        <3>1. stage[w][x] = "force" BY <1>10, <2>3
        <3>2. Pending(w, x)' = Pending(w, x) BY <1>2 DEF Pending
        <3> QED BY <1>0, <1>2, <3>1, <3>2 DEF AllBacked
    <2> QED BY <1>0, <1>2, <2>1, <2>2, <2>3 DEF AllBacked
<1> QED BY <1>8, <1>11, <1>13, <1>14, <1>15 DEF Inv

LEMMA ApplyStep == ASSUME Inv, NEW u \in Group, NEW v \in Group, Apply(u, v) PROVE Inv'
<1>0. Typed /\ TypeOK /\ OncePerBlock /\ AllMarked /\ AllBacked /\ SlotVotes BY DEF Inv, Typed
<1> DEFINE e == log[v][applied[u][v] + 1]
<1>1. /\ applied[u][v] < accepted[u][v] /\ applied' = [applied EXCEPT ![u][v] = @ + 1]
      /\ clock' = clock \/ clock' = [clock EXCEPT ![u] = e.block]
      /\ aborted' \subseteq aborted \cup {u}
    BY DEF Apply
<1>2. UNCHANGED <<produced, received, queue, slot, taken, stage, forced, log, accepted>> BY DEF Apply
<1>3. /\ applied \in [Group -> [Group -> Nat]] /\ accepted \in [Group -> [Group -> Nat]]
      /\ log[v] \in Seq(Entry) /\ clock \in [Group -> Mark] /\ aborted \subseteq Group
    BY <1>0 DEF TypeOK
<1>4. \A w, x \in Group : applied[w][x] <= accepted[w][x] /\ accepted[w][x] <= Len(log[x])
    BY <1>0 DEF TypeOK
<1>5. /\ applied[u][v] \in Nat /\ accepted[u][v] \in Nat /\ Len(log[v]) \in Nat
      /\ accepted[u][v] <= Len(log[v])
    BY <1>3, <1>4
<1>6. applied[u][v] + 1 \in DOMAIN log[v] BY <1>1, <1>3, <1>5
<1>7. e \in Entry BY <1>3, <1>6
<1>8. e.block \in Mark BY <1>7 DEF Entry, Mark
<1> HIDE DEF e
<1>9. clock' \in [Group -> Mark] BY <1>1, <1>3, <1>8
<1>10. /\ applied' \in [Group -> [Group -> Nat]]
       /\ \A w, x \in Group : applied'[w][x] <= accepted[w][x]
    <2> DEFINE r == [applied[u] EXCEPT ![v] = @ + 1]
    <2>1. applied' = [applied EXCEPT ![u] = r] BY <1>1
    <2>2. applied[u][v] + 1 \in Nat /\ applied[u][v] + 1 <= accepted[u][v] BY <1>1, <1>5
    <2>3. /\ r \in [Group -> Nat] /\ r[v] = applied[u][v] + 1
          /\ \A x \in Group : x # v => r[x] = applied[u][x]
        BY <1>3, <2>2
    <2> HIDE DEF r
    <2>4. /\ applied' \in [Group -> [Group -> Nat]] /\ applied'[u] = r
          /\ \A w \in Group : w # u => applied'[w] = applied[w]
        BY <1>3, <2>1, <2>3
    <2>5. ASSUME NEW w \in Group, NEW x \in Group PROVE applied'[w][x] <= accepted[w][x]
        <3>1. CASE w = u /\ x = v BY <2>2, <2>3, <2>4, <3>1
        <3>2. CASE w # u \/ x # v
            <4>1. applied'[w][x] = applied[w][x] BY <2>3, <2>4, <3>2
            <4> QED BY <1>4, <4>1
        <3> QED BY <3>1, <3>2
    <2> QED BY <2>4, <2>5
<1>11. aborted' \subseteq Group BY <1>1, <1>3
<1>12. TypeOK' BY <1>0, <1>2, <1>9, <1>10, <1>11 DEF TypeOK
<1>13. Typed' BY <1>0, <1>2, <1>12 DEF Typed
<1>14. OncePerBlock' BY <1>0, <1>2 DEF OncePerBlock, OneVote, VotesOnce
<1>15. AllMarked' BY <1>0, <1>2 DEF AllMarked, Marked, SlotOf
<1>16. AllBacked'
    <2>1. Backed' BY <1>0, <1>2, BackedIs DEF AllBacked
    <2> QED BY <1>0, <1>2, <2>1 DEF AllBacked, Pending
<1>17. SlotVotes' BY <1>0, <1>2 DEF SlotVotes
<1> QED BY <1>13, <1>14, <1>15, <1>16, <1>17 DEF Inv

LEMMA ReceivedStep ==
    ASSUME Inv, NEW u \in Group, NEW c \in Group, Produce(c) \/ Replicate(u, c) PROVE Inv'
<1>0. produced \in [Group -> Nat] BY DEF Inv, Typed, TypeOK
<1>1. CASE Produce(c)
    <2>1. produced' \in [Group -> Nat] BY <1>0, <1>1 DEF Produce
    <2>2. /\ Insert(c, c)
          /\ UNCHANGED <<slot, clock, taken, stage, forced, log, accepted, applied, aborted>>
        BY <1>1 DEF Produce
    <2> QED BY <2>1, <2>2, InsertStep
<1>2. CASE Replicate(u, c)
    <2>1. produced' \in [Group -> Nat] BY <1>0, <1>2 DEF Replicate
    <2>2. /\ Insert(u, c)
          /\ UNCHANGED <<slot, clock, taken, stage, forced, log, accepted, applied, aborted>>
        BY <1>2 DEF Replicate
    <2> QED BY <2>1, <2>2, InsertStep
<1> QED BY <1>1, <1>2

LEMMA InitInv == ASSUME Init PROVE Inv
<1>1. /\ <<>> \in Seq(Entry) /\ Len(<<>>) = 0 /\ DOMAIN <<>> = {}
      /\ \A c, b : ~ VotedFor(<<>>, c, b)
    BY DEF VotedFor
<1>2. EmptySlot(0) \in Slot /\ EmptySlot(0).votes = {} BY DEF EmptySlot, Slot
<1>3. INVALID_WATERMARK \in Mark BY DEF Mark
<1>4. /\ slot \in [Group -> [Group -> [0 .. (QueueSize - 1) -> Slot]]]
      /\ \A u, c \in Group : \A k \in 0 .. (QueueSize - 1) : slot[u][c][k].votes = {}
    <2> DEFINE K == 0 .. (QueueSize - 1)
    <2>1. slot = [u \in Group |-> [c \in Group |-> [k \in K |-> EmptySlot(0)]]] BY DEF Init
    <2> HIDE DEF K
    <2>2. slot \in [Group -> [Group -> [K -> Slot]]] BY <1>2, <2>1
    <2>3. \A u, c \in Group : \A k \in K : slot[u][c][k].votes = {} BY <1>2, <2>1
    <2> QED BY <2>2, <2>3 DEF K
<1>5. /\ taken = [u \in Group |-> <<>>] /\ forced = [u \in Group |-> [v \in Group |-> <<>>]]
      /\ log = [v \in Group |-> <<>>]
    BY DEF Init
<1>6. /\ taken \in [Group -> Seq(Entry)] /\ forced \in [Group -> [Group -> Seq(Entry)]]
      /\ log \in [Group -> Seq(Entry)]
      /\ \A u \in Group : taken[u] = <<>> /\ log[u] = <<>>
      /\ \A u, v \in Group : forced[u][v] = <<>>
    BY <1>1, <1>5
<1>7. /\ stage \in [Group -> [Group -> {"idle", "force", "propose", "check"}]]
      /\ \A u, v \in Group : stage[u][v] = "idle"
    BY DEF Init
<1>8. /\ accepted \in [Group -> [Group -> Nat]] /\ applied \in [Group -> [Group -> Nat]]
      /\ \A u, v \in Group : accepted[u][v] = 0 /\ applied[u][v] = 0
    BY DEF Init
<1>9. produced \in [Group -> Nat] /\ received \in [Group -> [Group -> Nat]] BY DEF Init
<1>10. /\ queue \in [Group -> SUBSET (Group \X Nat)] /\ aborted \subseteq Group
       /\ \A u \in Group : queue[u] = {}
    BY DEF Init
<1>11. clock \in [Group -> Mark] BY <1>3 DEF Init
<1>12. \A u, v \in Group : applied[u][v] <= accepted[u][v] /\ accepted[u][v] <= Len(log[v])
    BY <1>1, <1>6, <1>8
<1>13. TypeOK BY <1>4, <1>6, <1>7, <1>8, <1>9, <1>10, <1>11, <1>12 DEF TypeOK
<1>14. Typed BY <1>1, <1>6, <1>7, <1>10, <1>13 DEF Typed
<1>15. OncePerBlock
    <2>1. OneVote BY <1>1, <1>6 DEF OneVote, VotesOnce
    <2> QED BY <1>1, <1>6, <2>1 DEF OncePerBlock
<1>16. AllMarked BY <1>1, <1>6 DEF AllMarked
<1>17. AllBacked
    <2>1. Backed BY <1>1, <1>6 DEF Backed
    <2> QED BY <1>1, <1>6, <1>7, <2>1 DEF AllBacked
<1>18. SlotVotes BY <1>4 DEF SlotVotes
<1> QED BY <1>14, <1>15, <1>16, <1>17, <1>18 DEF Inv

LEMMA InvStep == ASSUME Inv, RingFresh, [Next]_vars PROVE Inv'
<1>1. ASSUME NEW c \in Group, Produce(c) PROVE Inv' BY <1>1, ReceivedStep
<1>2. ASSUME NEW u \in Group, NEW c \in Group, Replicate(u, c) PROVE Inv' BY <1>2, ReceivedStep
<1>3. ASSUME NEW u \in Group, SubscriberVote(u) PROVE Inv' BY <1>3, SubscriberVoteStep
<1>4. ASSUME NEW u \in Group, SubscriberPropose(u) PROVE Inv' BY <1>4, SubscriberProposeStep
<1>5. ASSUME NEW u \in Group, NEW v \in Group, AddVote(u, v) PROVE Inv' BY <1>5, AddVoteStep
<1>6. ASSUME NEW u \in Group, NEW v \in Group, ForcedVote(u, v) PROVE Inv' BY <1>6, ForcedVoteStep
<1>7. ASSUME NEW u \in Group, NEW v \in Group, ForcedPropose(u, v) PROVE Inv'
    BY <1>7, ForcedProposeStep
<1>8. ASSUME NEW u \in Group, NEW v \in Group, CheckVote(u, v) PROVE Inv' BY <1>8, CheckVoteStep
<1>9. ASSUME NEW u \in Group, NEW v \in Group, Apply(u, v) PROVE Inv' BY <1>9, ApplyStep
<1>10. CASE UNCHANGED vars
    <2>0. Typed /\ TypeOK /\ OncePerBlock /\ AllMarked /\ AllBacked /\ SlotVotes BY DEF Inv, Typed
    <2>1. UNCHANGED <<produced, received, queue, slot, clock, taken, stage, forced,
                      log, accepted, applied, aborted>>
        BY <1>10 DEF vars
    <2>2. TypeOK' BY <2>0, <2>1 DEF TypeOK
    <2>3. Typed' BY <2>0, <2>1, <2>2 DEF Typed
    <2>4. OncePerBlock' BY <2>0, <2>1 DEF OncePerBlock, OneVote, VotesOnce
    <2>5. AllMarked' BY <2>0, <2>1 DEF AllMarked, Marked, SlotOf
    <2>6. AllBacked'
        <3>1. Backed' BY <2>0, <2>1, BackedIs DEF AllBacked
        <3> QED BY <2>0, <2>1, <3>1 DEF AllBacked, Pending
    <2>7. SlotVotes' BY <2>0, <2>1 DEF SlotVotes
    <2> QED BY <2>3, <2>4, <2>5, <2>6, <2>7 DEF Inv
<1>11. CASE Next BY <1>1, <1>2, <1>3, <1>4, <1>5, <1>6, <1>7, <1>8, <1>9, <1>11 DEF Next
<1> QED BY <1>10, <1>11

\* As long as no thread looks up a block that is older than its slot (what the
\* DCHECK in BlockVotes::getRef says), the two threads that vote put one vote for
\* a block in a log, and only for a block that is stored or that a majority has
\* voted for.
THEOREM VotesAreSound == Spec /\ []RingFresh => []VotesSound
<1>1. Inv => VotesSound BY DEF Inv, OncePerBlock, AllBacked, VotesSound
<1>2. Init => Inv BY InitInv
<1>3. Inv /\ RingFresh /\ [Next]_vars => Inv' BY InvStep
<1> QED BY <1>1, <1>2, <1>3, PTL DEF Spec

(***************************************************************************)
(* The ring holds every block that is produced.                            *)
(***************************************************************************)

WithinRing == \A c \in Group : Blocks[c] <= QueueSize

InRange(s) == \A p \in DOMAIN s : s[p].block < Blocks[s[p].chain]

\* every block is one that is produced, and each has a slot of its own
Bounded ==
    /\ \A c \in Group : produced[c] <= Blocks[c] /\ received[c][c] = produced[c]
    /\ \A u, c \in Group : received[u][c] <= produced[c]
    /\ \A u \in Group : InRange(log[u]) /\ InRange(taken[u])
    /\ \A u, v \in Group : InRange(forced[u][v])
    /\ \A u, c \in Group : \A k \in 0 .. (QueueSize - 1) : slot[u][c][k].blockId \in {0, k}

LEMMA OwnSlot == ASSUME NEW b \in Nat, b < QueueSize PROVE b % QueueSize = b
BY QueueSizeAssumption

LEMMA BoundedFresh ==
    ASSUME WithinRing, Typed, Bounded PROVE RingFresh
<1>0. TypeOK BY DEF Typed
<1>1. ASSUME NEW u \in Group, NEW c \in Group, NEW b \in Nat, b < Blocks[c]
      PROVE  SlotOf(u, c, b).blockId <= b
    <2>1. Blocks[c] \in Nat /\ QueueSize \in Nat /\ Blocks[c] <= QueueSize
        BY BlocksAssumption, QueueSizeAssumption DEF WithinRing
    <2>2. b < QueueSize BY <1>1, <2>1
    <2>3. b % QueueSize = b BY <2>2, OwnSlot
    <2>4. b \in 0 .. (QueueSize - 1) BY <2>1, <2>2
    <2>5. slot[u][c][b].blockId \in {0, b} BY <2>4 DEF Bounded
    <2>6. SlotOf(u, c, b).blockId = 0 \/ SlotOf(u, c, b).blockId = b BY <2>3, <2>5 DEF SlotOf
    <2> QED BY <2>6
<1>2. ASSUME NEW u \in Group, NEW x \in Dequeueable(u) PROVE SlotOf(u, x[1], x[2]).blockId <= x[2]
    <2>1. x \in queue[u] /\ queue[u] \subseteq Group \X Nat BY <1>0 DEF Dequeueable, TypeOK
    <2>2. x[1] \in Group /\ x[2] \in Nat /\ x[2] < received[u][x[1]] BY <2>1 DEF Typed
    <2>3. received[u][x[1]] <= produced[x[1]] /\ produced[x[1]] <= Blocks[x[1]] BY <2>2 DEF Bounded
    <2>4. received[u][x[1]] \in Nat /\ produced[x[1]] \in Nat /\ Blocks[x[1]] \in Nat
        <3>1. received \in [Group -> [Group -> Nat]] /\ produced \in [Group -> Nat] BY <1>0 DEF TypeOK
        <3> QED BY <2>2, <3>1, BlocksAssumption
    <2>5. x[2] < Blocks[x[1]] BY <2>2, <2>3, <2>4
    <2> QED BY <1>1, <2>2, <2>5
<1>3. ASSUME NEW u \in Group, NEW v \in Group \ {u}, accepted[u][v] < Len(log[v])
      PROVE  SlotOf(u, Pending(u, v).chain, Pending(u, v).block).blockId <= Pending(u, v).block
    <2>1. /\ Pending(u, v).chain \in Group /\ Pending(u, v).block \in Nat
          /\ accepted[u][v] + 1 \in DOMAIN log[v]
        BY <1>0, <1>3, PendingTyped
    <2>2. Pending(u, v).block < Blocks[Pending(u, v).chain] BY <2>1 DEF Bounded, InRange, Pending
    <2> QED BY <1>1, <2>1, <2>2
<1> QED BY <1>2, <1>3 DEF RingFresh

\* a slot gets the block whose slot it is
LEMMA OwnBlock ==
    ASSUME WithinRing, Bounded, NEW u \in Group, NEW c \in Group, NEW b \in Nat, b < Blocks[c],
           slot'[u][c][b % QueueSize].blockId = b,
           \A v, d \in Group : \A k \in 0 .. (QueueSize - 1) :
               v # u \/ d # c \/ k # b % QueueSize => slot'[v][d][k] = slot[v][d][k]
    PROVE  \A v, d \in Group : \A k \in 0 .. (QueueSize - 1) : slot'[v][d][k].blockId \in {0, k}
<1>1. Blocks[c] \in Nat /\ QueueSize \in Nat /\ Blocks[c] <= QueueSize
    BY BlocksAssumption, QueueSizeAssumption DEF WithinRing
<1>2. b < QueueSize BY <1>1
<1>3. b % QueueSize = b BY <1>2, OwnSlot
<1>4. ASSUME NEW v \in Group, NEW d \in Group, NEW k \in 0 .. (QueueSize - 1)
      PROVE  slot'[v][d][k].blockId \in {0, k}
    <2>1. CASE v = u /\ d = c /\ k = b BY <1>3, <2>1
    <2>2. CASE v # u \/ d # c \/ k # b
        <3>1. slot'[v][d][k] = slot[v][d][k] BY <1>3, <2>2
        <3> QED BY <3>1 DEF Bounded
    <2> QED BY <2>1, <2>2
<1> QED BY <1>4

LEMMA BoundedInsert ==
    ASSUME TypeOK, Bounded, NEW u \in Group, NEW c \in Group, Produce(c) \/ Replicate(u, c)
    PROVE  Bounded'
<1>0. UNCHANGED <<slot, taken, forced, log>> BY DEF Produce, Replicate
<1>1. produced \in [Group -> Nat] /\ received \in [Group -> [Group -> Nat]] BY DEF TypeOK
<1>2. /\ \A d \in Group : produced[d] <= Blocks[d] /\ received[d][d] = produced[d]
      /\ \A v, d \in Group : received[v][d] <= produced[d]
    BY DEF Bounded
<1>3. ASSUME NEW w \in Group, received' = [received EXCEPT ![w][c] = @ + 1]
      PROVE  /\ received'[w][c] = received[w][c] + 1
             /\ \A v, d \in Group : v # w \/ d # c => received'[v][d] = received[v][d]
    <2> DEFINE r == [received[w] EXCEPT ![c] = @ + 1]
    <2>1. received' = [received EXCEPT ![w] = r] BY <1>3
    <2>2. r[c] = received[w][c] + 1 /\ \A d \in Group : d # c => r[d] = received[w][d] BY <1>1
    <2> HIDE DEF r
    <2>3. received'[w] = r /\ \A v \in Group : v # w => received'[v] = received[v] BY <1>1, <2>1
    <2> QED BY <2>2, <2>3
<1>4. /\ \A d \in Group : produced'[d] <= Blocks[d] /\ received'[d][d] = produced'[d]
      /\ \A v, d \in Group : received'[v][d] <= produced'[d]
    <2>1. CASE Produce(c)
        <3>1. produced[c] < Blocks[c] /\ produced' = [produced EXCEPT ![c] = @ + 1]
            BY <2>1 DEF Produce
        <3>2. /\ received'[c][c] = received[c][c] + 1
              /\ \A v, d \in Group : v # c \/ d # c => received'[v][d] = received[v][d]
            BY <1>3, <2>1 DEF Produce, Insert
        <3>3. produced'[c] = produced[c] + 1 /\ \A d \in Group : d # c => produced'[d] = produced[d]
            BY <1>1, <3>1
        <3>4. produced[c] + 1 <= Blocks[c]
            <4>1. produced[c] \in Nat /\ Blocks[c] \in Nat BY <1>1, BlocksAssumption
            <4> QED BY <3>1, <4>1
        <3>5. ASSUME NEW d \in Group PROVE produced'[d] <= Blocks[d] /\ received'[d][d] = produced'[d]
            <4>1. CASE d = c BY <1>2, <3>2, <3>3, <3>4, <4>1
            <4>2. CASE d # c BY <1>2, <3>2, <3>3, <4>2
            <4> QED BY <4>1, <4>2
        <3>6. ASSUME NEW v \in Group, NEW d \in Group PROVE received'[v][d] <= produced'[d]
            <4>0. received[v][d] \in Nat /\ produced[d] \in Nat /\ received[v][d] <= produced[d] BY <1>1, <1>2
            <4>1. CASE d = c /\ v = c BY <3>2, <3>3, <4>0, <4>1
            <4>2. CASE d = c /\ v # c BY <3>2, <3>3, <4>0, <4>2
            <4>3. CASE d # c BY <3>2, <3>3, <4>0, <4>3
            <4> QED BY <4>1, <4>2, <4>3
        <3> QED BY <3>5, <3>6
    <2>2. CASE Replicate(u, c)
        <3>1. u # c /\ received[u][c] < produced[c] /\ produced' = produced BY <2>2 DEF Replicate
        <3>2. /\ received'[u][c] = received[u][c] + 1
              /\ \A v, d \in Group : v # u \/ d # c => received'[v][d] = received[v][d]
            BY <1>3, <2>2 DEF Replicate, Insert
        <3>3. received[u][c] + 1 <= produced[c] BY <1>1, <3>1
        <3> QED BY <1>2, <3>1, <3>2, <3>3
    <2> QED BY <2>1, <2>2
<1> QED BY <1>0, <1>4 DEF Bounded, InRange

LEMMA BoundedPropose ==
    ASSUME TypeOK, Bounded, NEW u \in Group, NEW s \in Seq(Entry), Len(s) <= 1, InRange(s), Propose(u, s),
           UNCHANGED <<produced, received, slot>>,
           \A v \in Group : taken'[v] = taken[v] \/ taken'[v] = <<>>,
           \A v, w \in Group : forced'[v][w] = forced[v][w] \/ forced'[v][w] = <<>>
    PROVE  Bounded'
<1>1. /\ \A w \in Group : w # u => log'[w] = log[w]
      /\ \A p \in DOMAIN log[u] : log'[u][p] = log[u][p]
      /\ \A p \in DOMAIN log'[u] :
            \/ p \in DOMAIN log[u]
            \/ 1 \in DOMAIN s /\ log'[u][p] = s[1]
    BY Proposed
<1>2. InRange(<<>>) BY DEF InRange
<1>3. ASSUME NEW w \in Group PROVE InRange(log'[w])
    <2>0. InRange(log[w]) BY DEF Bounded
    <2>1. CASE w # u BY <1>1, <2>0, <2>1
    <2>2. CASE w = u BY <1>1, <2>0, <2>2 DEF InRange
    <2> QED BY <2>1, <2>2
<1>4. ASSUME NEW w \in Group PROVE InRange(taken'[w])
    BY <1>2 DEF Bounded
<1>5. ASSUME NEW v \in Group, NEW w \in Group PROVE InRange(forced'[v][w])
    <2>1. InRange(forced[v][w]) BY DEF Bounded
    <2> QED BY <1>2, <2>1
<1> QED BY <1>3, <1>4, <1>5 DEF Bounded

\* the slot that getRef returns is written back
LEMMA BoundedWritten ==
    ASSUME TypeOK, WithinRing, Bounded, NEW u \in Group, NEW c \in Group, NEW b \in Nat, b < Blocks[c],
           SlotOf(u, c, b).blockId <= b, NEW t \in Slot, t.blockId = b,
           t.finished = getRef(u, c, b).finished,
           slot' = Written(u, c, b, t)
    PROVE  \A v, d \in Group : \A k \in 0 .. (QueueSize - 1) : slot'[v][d][k].blockId \in {0, k}
<1>1. getRef(u, c, b).finished => t.finished OBVIOUS
<1>2. /\ slot'[u][c][b % QueueSize] = t
      /\ \A v, d \in Group : \A k \in 0 .. (QueueSize - 1) :
            v # u \/ d # c \/ k # b % QueueSize => slot'[v][d][k] = slot[v][d][k]
    BY <1>1, SlotWritten
<1> QED BY <1>2, OwnBlock, SMTT(30)

LEMMA BoundedVote ==
    ASSUME Inv, WithinRing, Bounded, NEW u \in Group, SubscriberVote(u) PROVE Bounded'
<1>0. Typed /\ TypeOK /\ SlotVotes BY DEF Inv, Typed
<1>1. PICK x \in Dequeueable(u) :
         /\ taken' = [taken EXCEPT ![u] = BlockOrder(u, x[1], x[2])]
         /\ getBlockOrder(u, x[1], x[2])
    BY DEF SubscriberVote
<1>2. UNCHANGED <<produced, received, forced, log>> BY DEF SubscriberVote
<1>3. x \in queue[u] /\ x \in Group \X Nat BY <1>0 DEF Dequeueable, TypeOK
<1>4. PICK c \in Group, b \in Nat : c = x[1] /\ b = x[2] BY <1>3
<1>5. b < received[u][c] BY <1>0, <1>3, <1>4 DEF Typed
<1>6. b < Blocks[c]
    <2>1. received[u][c] <= produced[c] /\ produced[c] <= Blocks[c] BY DEF Bounded
    <2>2. received[u][c] \in Nat /\ produced[c] \in Nat /\ Blocks[c] \in Nat
        BY <1>0, BlocksAssumption DEF TypeOK
    <2> QED BY <1>5, <2>1, <2>2
<1>7. SlotOf(u, c, b).blockId <= b
    <2>1. RingFresh BY <1>0, BoundedFresh
    <2> QED BY <1>4, <2>1 DEF RingFresh
<1> DEFINE s == BlockOrder(u, c, b)
<1>8. \A p \in DOMAIN s : s[p].chain = c /\ s[p].block = b BY <1>0, <1>7, OrderTaken
<1>9. /\ slot'[u][c][b % QueueSize].blockId = b
      /\ \A v, d \in Group : \A k \in 0 .. (QueueSize - 1) :
            v # u \/ d # c \/ k # b % QueueSize => slot'[v][d][k] = slot[v][d][k]
    <2>1. getBlockOrder(u, c, b) /\ log' = log BY <1>1, <1>2, <1>4
    <2> QED BY <1>0, <1>7, <2>1, TakenStep
<1>10. \A v, d \in Group : \A k \in 0 .. (QueueSize - 1) : slot'[v][d][k].blockId \in {0, k}
    BY <1>6, <1>9, OwnBlock, SMTT(30)
<1> HIDE DEF s
<1>11. InRange(s) BY <1>6, <1>8 DEF InRange
<1>12. taken' = [taken EXCEPT ![u] = s] BY <1>1, <1>4 DEF s
<1>13. ASSUME NEW v \in Group PROVE InRange(taken'[v])
    <2>0. taken'[u] = s /\ (v # u => taken'[v] = taken[v]) BY <1>0, <1>12 DEF TypeOK
    <2>1. CASE v = u BY <1>11, <2>0, <2>1
    <2>2. CASE v # u BY <2>0, <2>2 DEF Bounded
    <2> QED BY <2>1, <2>2
<1> QED BY <1>2, <1>10, <1>13 DEF Bounded

\* the block whose vote u validates is one that is produced
LEMMA PendingBounded ==
    ASSUME Inv, WithinRing, Bounded, NEW u \in Group, NEW v \in Group, u # v,
           accepted[u][v] < Len(log[v]),
           NEW c, NEW b, c = Pending(u, v).chain, b = Pending(u, v).block
    PROVE  /\ c \in Group /\ b \in Nat /\ b < Blocks[c]
           /\ c # u => SlotOf(u, c, b).blockId <= b
<1>0. Typed /\ TypeOK BY DEF Inv, Typed
<1>1. RingFresh BY <1>0, BoundedFresh
<1>2. c \in Group /\ b \in Nat /\ accepted[u][v] + 1 \in DOMAIN log[v] BY <1>0, PendingTyped
<1>3. b < Blocks[c] BY <1>2 DEF Bounded, InRange, Pending
<1>4. c # u => SlotOf(u, c, b).blockId <= b BY <1>1 DEF RingFresh
<1> QED BY <1>2, <1>3, <1>4

LEMMA BoundedForced ==
    ASSUME Inv, WithinRing, Bounded, NEW u \in Group, NEW v \in Group, ForcedVote(u, v) PROVE Bounded'
<1>0. Typed /\ TypeOK /\ SlotVotes /\ AllBacked BY DEF Inv, Typed
<1>1. stage[u][v] = "force" BY DEF ForcedVote
<1>2. u # v /\ accepted[u][v] < Len(log[v]) BY <1>0, <1>1 DEF Typed
<1>3. PICK c \in Group, b \in Nat : c = Pending(u, v).chain /\ b = Pending(u, v).block
    BY <1>0, <1>2, PendingTyped
<1>4. c \in Group /\ b \in Nat /\ b < Blocks[c] /\ (c # u => SlotOf(u, c, b).blockId <= b)
    BY <1>2, <1>3, PendingBounded
<1>5. c # u BY <1>0, <1>1, <1>3 DEF AllBacked
<1> DEFINE s == BlockOrder(u, c, b)
<1>6. forced' = [forced EXCEPT ![u][v] = s] /\ getBlockOrder(u, c, b) /\ log' = log
      /\ UNCHANGED <<produced, received, taken>>
    BY <1>3 DEF ForcedVote
<1>7. s \in Seq(Entry) /\ \A p \in DOMAIN s : s[p].chain = c /\ s[p].block = b
    BY <1>0, <1>4, <1>5, OrderTaken
<1>8. /\ slot'[u][c][b % QueueSize].blockId = b
      /\ \A w, d \in Group : \A k \in 0 .. (QueueSize - 1) :
            w # u \/ d # c \/ k # b % QueueSize => slot'[w][d][k] = slot[w][d][k]
    BY <1>0, <1>4, <1>5, <1>6, TakenStep
<1>9. \A w, d \in Group : \A k \in 0 .. (QueueSize - 1) : slot'[w][d][k].blockId \in {0, k}
    BY <1>4, <1>8, OwnBlock, SMTT(30)
<1> HIDE DEF s
<1>10. InRange(s) BY <1>4, <1>7 DEF InRange
<1>11. ASSUME NEW w \in Group, NEW x \in Group PROVE InRange(forced'[w][x])
    <2>0. forced \in [Group -> [Group -> Seq(Entry)]] BY <1>0 DEF TypeOK
    <2>1. /\ forced'[u][v] = s
          /\ w # u \/ x # v => forced'[w][x] = forced[w][x]
        BY <1>6, <1>7, <2>0
    <2>2. CASE w = u /\ x = v BY <1>10, <2>1, <2>2
    <2>3. CASE w # u \/ x # v BY <2>1, <2>3 DEF Bounded
    <2> QED BY <2>2, <2>3
<1> QED BY <1>6, <1>9, <1>11 DEF Bounded

LEMMA BoundedValidate ==
    ASSUME Inv, WithinRing, Bounded, NEW u \in Group, NEW v \in Group, AddVote(u, v) \/ CheckVote(u, v)
    PROVE  Bounded'
<1>0. Typed /\ TypeOK BY DEF Inv, Typed
<1>1. u # v /\ accepted[u][v] < Len(log[v])
    <2>1. CASE AddVote(u, v) BY <2>1 DEF AddVote
    <2>2. CASE CheckVote(u, v) BY <1>0, <2>2 DEF Typed, CheckVote
    <2> QED BY <2>1, <2>2
<1>2. UNCHANGED <<produced, received, taken, forced, log>> BY DEF AddVote, CheckVote
<1>3. PICK c \in Group, b \in Nat : c = Pending(u, v).chain /\ b = Pending(u, v).block
    BY <1>0, <1>1, PendingTyped
<1>4. b < Blocks[c] /\ (c # u => SlotOf(u, c, b).blockId <= b) BY <1>1, <1>3, PendingBounded
<1> DEFINE g == getRef(u, c, b)
           votes == g.votes \cup {v}
           t == [g EXCEPT !.votes = votes]
<1>5. \/ UNCHANGED slot
      \/ c # u /\ slot' = Written(u, c, b, g)
      \/ c # u /\ slot' = Written(u, c, b, t)
    <2>1. CASE AddVote(u, v) BY <1>3, <2>1 DEF AddVote, Written
    <2>2. CASE CheckVote(u, v) BY <1>3, <2>2 DEF CheckVote, Written
    <2> QED BY <2>1, <2>2
<1>6. c # u => g \in Slot /\ g.blockId = b BY <1>0, <1>4, Found
<1>7. c # u => t \in Slot /\ t.blockId = b /\ t.finished = g.finished
    <2> SUFFICES ASSUME c # u PROVE t \in Slot /\ t.blockId = b /\ t.finished = g.finished OBVIOUS
    <2>1. g \in [blockId : Nat, votes : SUBSET Group, finished : BOOLEAN] /\ votes \subseteq Group /\ g.blockId = b
        BY <1>6 DEF Slot
    <2> HIDE DEF g, votes
    <2> QED BY <2>1 DEF Slot
<1>8. PICK z : z = (IF slot' = Written(u, c, b, g) THEN g ELSE t) OBVIOUS
<1>9. \A w, d \in Group : \A k \in 0 .. (QueueSize - 1) : slot'[w][d][k].blockId \in {0, k}
    <2>1. CASE UNCHANGED slot BY <2>1 DEF Bounded
    <2>2. CASE ~ UNCHANGED slot
        <3>1. c # u /\ slot' = Written(u, c, b, z) /\ (z = g \/ z = t) BY <1>5, <1>8, <2>2
        <3>2. z \in Slot /\ z.blockId = b /\ z.finished = g.finished BY <1>6, <1>7, <3>1
        <3> HIDE DEF t, votes
        <3>3. SlotOf(u, c, b).blockId <= b /\ b < Blocks[c] BY <1>4, <3>1
        <3>4. z \in Slot /\ z.blockId = b /\ z.finished = getRef(u, c, b).finished BY <3>2
        <3> HIDE DEF g
        <3> QED BY <1>0, <3>1, <3>3, <3>4, BoundedWritten
    <2> QED BY <2>1, <2>2
<1> QED BY <1>2, <1>9 DEF Bounded

LEMMA BoundedStep == ASSUME Inv, WithinRing, Bounded, [Next]_vars PROVE Bounded'
<1>0. Typed /\ TypeOK BY DEF Inv, Typed
<1>1. ASSUME NEW c \in Group, Produce(c) PROVE Bounded' BY <1>0, <1>1, BoundedInsert
<1>2. ASSUME NEW u \in Group, NEW c \in Group, Replicate(u, c) PROVE Bounded' BY <1>0, <1>2, BoundedInsert
<1>3. ASSUME NEW u \in Group, SubscriberVote(u) PROVE Bounded' BY <1>3, BoundedVote
<1>4. ASSUME NEW u \in Group, SubscriberPropose(u) PROVE Bounded'
    <2>1. /\ Propose(u, taken[u]) /\ taken' = [taken EXCEPT ![u] = <<>>]
          /\ UNCHANGED <<produced, received, slot, forced>>
        BY <1>4 DEF SubscriberPropose
    <2>2. taken[u] \in Seq(Entry) /\ Len(taken[u]) <= 1 /\ InRange(taken[u])
        BY <1>0 DEF Typed, TypeOK, Bounded
    <2>3. \A v \in Group : taken'[v] = taken[v] \/ taken'[v] = <<>> BY <1>0, <2>1 DEF TypeOK
    <2>4. \A v, w \in Group : forced'[v][w] = forced[v][w] \/ forced'[v][w] = <<>> BY <2>1
    <2> QED BY <1>0, <2>1, <2>2, <2>3, <2>4, BoundedPropose
<1>5. ASSUME NEW u \in Group, NEW v \in Group, AddVote(u, v) PROVE Bounded' BY <1>5, BoundedValidate
<1>6. ASSUME NEW u \in Group, NEW v \in Group, ForcedVote(u, v) PROVE Bounded' BY <1>6, BoundedForced
<1>7. ASSUME NEW u \in Group, NEW v \in Group, ForcedPropose(u, v) PROVE Bounded'
    <2>1. /\ Propose(u, forced[u][v]) /\ forced' = [forced EXCEPT ![u][v] = <<>>]
          /\ UNCHANGED <<produced, received, slot, taken>>
        BY <1>7 DEF ForcedPropose
    <2>2. forced[u][v] \in Seq(Entry) /\ Len(forced[u][v]) <= 1 /\ InRange(forced[u][v])
        BY <1>0 DEF Typed, TypeOK, Bounded
    <2>3. \A w, x \in Group : forced'[w][x] = forced[w][x] \/ forced'[w][x] = <<>>
        <3>1. forced \in [Group -> [Group -> Seq(Entry)]] BY <1>0 DEF TypeOK
        <3> QED BY <2>1, <3>1
    <2>4. \A w \in Group : taken'[w] = taken[w] \/ taken'[w] = <<>> BY <2>1
    <2> QED BY <1>0, <2>1, <2>2, <2>3, <2>4, BoundedPropose
<1>8. ASSUME NEW u \in Group, NEW v \in Group, CheckVote(u, v) PROVE Bounded' BY <1>8, BoundedValidate
<1>9. ASSUME NEW u \in Group, NEW v \in Group, Apply(u, v) PROVE Bounded'
    <2>1. UNCHANGED <<produced, received, slot, taken, forced, log>> BY <1>9 DEF Apply
    <2> QED BY <2>1 DEF Bounded, InRange
<1>10. CASE UNCHANGED vars BY <1>10 DEF vars, Bounded, InRange
<1>11. CASE Next BY <1>1, <1>2, <1>3, <1>4, <1>5, <1>6, <1>7, <1>8, <1>9, <1>11 DEF Next
<1> QED BY <1>10, <1>11

LEMMA BoundedInit == ASSUME Init PROVE Bounded
<1>1. InRange(<<>>) BY DEF InRange
<1>2. \A u, c \in Group : \A k \in 0 .. (QueueSize - 1) : slot[u][c][k].blockId = 0
    <2> DEFINE K == 0 .. (QueueSize - 1)
    <2>1. slot = [u \in Group |-> [c \in Group |-> [k \in K |-> EmptySlot(0)]]] BY DEF Init
    <2>2. EmptySlot(0).blockId = 0 BY DEF EmptySlot
    <2> HIDE DEF K
    <2>3. \A u, c \in Group : \A k \in K : slot[u][c][k].blockId = 0 BY <2>1, <2>2
    <2> QED BY <2>3 DEF K
<1>3. /\ taken = [u \in Group |-> <<>>] /\ forced = [u \in Group |-> [v \in Group |-> <<>>]]
      /\ log = [v \in Group |-> <<>>]
    BY DEF Init
<1>4. /\ \A u \in Group : InRange(log[u]) /\ InRange(taken[u])
      /\ \A u, v \in Group : InRange(forced[u][v])
    BY <1>1, <1>3
<1>5. /\ \A c \in Group : produced[c] <= Blocks[c] /\ received[c][c] = produced[c]
      /\ \A u, c \in Group : received[u][c] <= produced[c]
    BY BlocksAssumption DEF Init
<1> QED BY <1>2, <1>4, <1>5 DEF Bounded

\* While the chains are not longer than the ring, no look-up ever finds a newer
\* block in the slot: the DCHECK that the release build drops would hold.
THEOREM RingStaysFresh == ASSUME WithinRing PROVE Spec => []RingFresh
<1>1. Inv /\ Bounded => RingFresh BY BoundedFresh DEF Inv
<1>2. Init => Inv /\ Bounded BY InitInv, BoundedInit
<1>3. Inv /\ Bounded /\ [Next]_vars => (Inv /\ Bounded)' BY <1>1, InvStep, BoundedStep
<1> QED BY <1>1, <1>2, <1>3, PTL DEF Spec

\* While the chains are not longer than the ring, the votes are sound whatever
\* the threads of the leaders do.
THEOREM VotesSoundInRing == ASSUME WithinRing PROVE Spec => []VotesSound
BY RingStaysFresh, VotesAreSound, PTL

(***************************************************************************)
(* The order of the votes.  It needs that the subscriber gets the blocks   *)
(* of its own group in order and that no group is forced to vote; then the *)
(* subscriber is the only thread that votes.                               *)
(***************************************************************************)

\* no count of the votes makes the threshold before the group has voted
NoForce == \A u, v \in Group : stage[u][v] # "force"

Quiet == \A u, v \in Group : forced[u][v] = <<>> /\ stage[u][v] # "propose"

\* a block in the storage is still in the queue, or has been voted for
Covered ==
    \A u, c \in Group : \A b \in Nat : b < received[u][c] =>
        <<c, b>> \in queue[u] \/ VotedFor(taken[u], c, b) \/ VotedFor(log[u], c, b)

InLogOrder ==
    /\ \A u \in Group : VotesInOrder(log, u)
    /\ \A u \in Group : \A r \in DOMAIN taken[u] : \A b \in 0 .. (taken[u][r].block - 1) :
          VotedFor(log[u], taken[u][r].chain, b)

\* a slot is finished only by a vote
FinishedVoted ==
    \A u, c \in Group : \A k \in 0 .. (QueueSize - 1) : slot[u][c][k].finished =>
        \/ VotedFor(taken[u], c, slot[u][c][k].blockId)
        \/ VotedFor(log[u], c, slot[u][c][k].blockId)

\* the marks of a log stay below the vote that is taken, and that below the clock
Clocks ==
    \A u \in Group :
        /\ ClockMonotone(log, u)
        /\ \A p \in DOMAIN log[u] : log[u][p].chain # u => log[u][p].mark <= clock[u]
        /\ \A r \in DOMAIN taken[u] : taken[u][r].chain # u =>
              /\ taken[u][r].mark <= clock[u]
              /\ \A p \in DOMAIN log[u] : log[u][p].chain # u => log[u][p].mark <= taken[u][r].mark

\* the clock has reached the own blocks that are agreed on
AppliedClock ==
    \A u, v \in Group : \A p \in 1 .. applied[u][v] :
        log[v][p].chain = u => log[v][p].block <= clock[u]

LogInv == Quiet /\ Covered /\ InLogOrder /\ FinishedVoted /\ Clocks /\ AppliedClock /\ NoneAborted

LEMMA LogsInit == ASSUME Init PROVE LogInv
<1>1. DOMAIN <<>> = {} /\ \A c, b : ~ VotedFor(<<>>, c, b) BY DEF VotedFor
<1>2. /\ taken = [u \in Group |-> <<>>] /\ forced = [u \in Group |-> [v \in Group |-> <<>>]]
      /\ log = [v \in Group |-> <<>>] /\ stage = [u \in Group |-> [v \in Group |-> "idle"]]
    BY DEF Init
<1>3. /\ \A u \in Group : taken[u] = <<>> /\ log[u] = <<>>
      /\ \A u, v \in Group : forced[u][v] = <<>> /\ stage[u][v] = "idle"
    BY <1>2
<1>4. \A u, c \in Group : received[u][c] = 0 /\ applied[u][c] = 0 BY DEF Init
<1>5. \A u, c \in Group : \A k \in 0 .. (QueueSize - 1) : slot[u][c][k].finished = FALSE
    <2> DEFINE K == 0 .. (QueueSize - 1)
    <2>1. slot = [u \in Group |-> [c \in Group |-> [k \in K |-> EmptySlot(0)]]] BY DEF Init
    <2>2. EmptySlot(0).finished = FALSE BY DEF EmptySlot
    <2> HIDE DEF K
    <2>3. \A u, c \in Group : \A k \in K : slot[u][c][k].finished = FALSE BY <2>1, <2>2
    <2> QED BY <2>3 DEF K
<1>6. Quiet BY <1>3 DEF Quiet
<1>7. Covered BY <1>4 DEF Covered
<1>8. InLogOrder BY <1>1, <1>3 DEF InLogOrder, VotesInOrder
<1>9. FinishedVoted BY <1>5 DEF FinishedVoted
<1>10. Clocks BY <1>1, <1>3 DEF Clocks, ClockMonotone
<1>11. AppliedClock
    <2>1. \A p \in 1 .. 0 : FALSE OBVIOUS
    <2> QED BY <1>4, <2>1 DEF AppliedClock
<1>12. NoneAborted BY DEF Init, NoneAborted
<1> QED BY <1>6, <1>7, <1>8, <1>9, <1>10, <1>11, <1>12 DEF LogInv

LEMMA LogsInsert ==
    ASSUME TypeOK, LogInv, NEW u \in Group, NEW c \in Group, Insert(u, c),
           UNCHANGED <<slot, clock, taken, stage, forced, log, accepted, applied, aborted>>
    PROVE  LogInv'
<1>0. Quiet /\ Covered /\ InLogOrder /\ FinishedVoted /\ Clocks /\ AppliedClock /\ NoneAborted
    BY DEF LogInv
<1>1. received \in [Group -> [Group -> Nat]] /\ queue \in [Group -> SUBSET (Group \X Nat)]
    BY DEF TypeOK
<1> DEFINE x == <<c, received[u][c]>>
           r == [received[u] EXCEPT ![c] = @ + 1]
<1>2. received' = [received EXCEPT ![u] = r] /\ queue' = [queue EXCEPT ![u] = @ \cup {x}]
    BY DEF Insert
<1>3. r[c] = received[u][c] + 1 /\ \A d \in Group : d # c => r[d] = received[u][d] BY <1>1
<1> HIDE DEF r
<1>4. received'[u] = r /\ \A v \in Group : v # u => received'[v] = received[v] BY <1>1, <1>2
<1> HIDE DEF x
<1>5. /\ x \in queue'[u] /\ \A v \in Group : \A y \in queue[v] : y \in queue'[v]
    BY <1>1, <1>2
<1>6. Covered'
    <2> SUFFICES ASSUME NEW v \in Group, NEW d \in Group, NEW b \in Nat, b < received'[v][d]
                 PROVE  <<d, b>> \in queue'[v] \/ VotedFor(taken[v], d, b) \/ VotedFor(log[v], d, b)
        BY DEF Covered
    <2>1. CASE b < received[v][d] BY <1>0, <1>5, <2>1 DEF Covered
    <2>2. CASE ~ (b < received[v][d])
        <3>1. v = u /\ d = c BY <1>3, <1>4, <2>2
        <3>2. received[u][c] \in Nat BY <1>1
        <3>3. b = received[u][c] BY <1>3, <1>4, <2>2, <3>1, <3>2
        <3> QED BY <1>5, <3>1, <3>3 DEF x
    <2> QED BY <2>1, <2>2
<1>7. Quiet' /\ InLogOrder' /\ FinishedVoted' /\ Clocks' /\ AppliedClock' /\ NoneAborted'
    BY <1>0 DEF Quiet, InLogOrder, VotesInOrder, FinishedVoted, Clocks, ClockMonotone,
                AppliedClock, NoneAborted
<1> QED BY <1>6, <1>7 DEF LogInv

\* the subscriber takes the next block of its chain
LEMMA LogsVote ==
    ASSUME FifoQueue = TRUE, Inv, RingFresh, LogInv, NEW u \in Group, SubscriberVote(u) PROVE LogInv'
<1>0. Typed /\ TypeOK /\ SlotVotes BY DEF Inv, Typed
<1>a. Quiet /\ Covered /\ InLogOrder /\ FinishedVoted /\ Clocks /\ AppliedClock /\ NoneAborted
    BY DEF LogInv
<1>1. PICK x \in Dequeueable(u) :
         /\ taken' = [taken EXCEPT ![u] = BlockOrder(u, x[1], x[2])]
         /\ getBlockOrder(u, x[1], x[2])
         /\ queue' = [queue EXCEPT ![u] = @ \ {x}]
    BY DEF SubscriberVote
<1>2. UNCHANGED <<produced, received, clock, stage, forced, log, accepted, applied, aborted>>
    BY DEF SubscriberVote
<1>3. taken[u] = <<>> BY DEF SubscriberVote
<1>4. x \in queue[u] /\ x \in Group \X Nat BY <1>0 DEF Dequeueable, TypeOK
<1>5. PICK c \in Group, b \in Nat : c = x[1] /\ b = x[2] BY <1>4
<1>6. b < received[u][c] BY <1>0, <1>4, <1>5 DEF Typed
<1>7. SlotOf(u, c, b).blockId <= b BY <1>5 DEF RingFresh
<1> DEFINE s == BlockOrder(u, c, b)
<1>8. /\ s \in Seq(Entry) /\ Len(s) <= 1
      /\ \A p \in DOMAIN s : s[p].chain = c /\ s[p].block = b /\ (c # u => s[p].mark = clock[u])
      /\ ~ Marked(u, c, b) => VotedFor(s, c, b)
    BY <1>0, <1>7, OrderTaken
<1>9. /\ slot'[u][c][b % QueueSize].blockId = b
      /\ \A v, d \in Group : \A k \in 0 .. (QueueSize - 1) :
            v # u \/ d # c \/ k # b % QueueSize => slot'[v][d][k] = slot[v][d][k]
    <2>1. getBlockOrder(u, c, b) /\ log' = log BY <1>1, <1>2, <1>5
    <2> QED BY <1>0, <1>7, <2>1, TakenStep
<1> HIDE DEF s
<1>10. \A d, a : ~ VotedFor(taken[u], d, a) BY <1>3 DEF VotedFor
<1>11. /\ taken'[u] = s /\ \A v \in Group : v # u => taken'[v] = taken[v]
    <2>1. taken' = [taken EXCEPT ![u] = s] BY <1>1, <1>5 DEF s
    <2> QED BY <1>0, <2>1 DEF TypeOK
<1>12. /\ \A v \in Group : v # u => queue'[v] = queue[v]
       /\ \A y \in queue[u] : y = x \/ y \in queue'[u]
    BY <1>0, <1>1 DEF TypeOK
<1>13. VotedFor(s, c, b) \/ VotedFor(log[u], c, b)
    <2>1. CASE ~ Marked(u, c, b) BY <1>8, <2>1
    <2>2. CASE Marked(u, c, b)
        <3>1. SlotOf(u, c, b).blockId \in Nat BY <1>0, SlotTyped
        <3>2. SlotOf(u, c, b).blockId = b /\ SlotOf(u, c, b).finished
            BY <1>7, <2>2, <3>1 DEF Marked
        <3>3. b % QueueSize \in 0 .. (QueueSize - 1) BY InRing
        <3> QED BY <1>a, <1>10, <3>2, <3>3 DEF FinishedVoted, SlotOf
    <2> QED BY <2>1, <2>2
<1>14. Covered'
    <2> SUFFICES ASSUME NEW v \in Group, NEW d \in Group, NEW a \in Nat, a < received[v][d]
                 PROVE  <<d, a>> \in queue'[v] \/ VotedFor(taken'[v], d, a) \/ VotedFor(log[v], d, a)
        BY <1>2 DEF Covered
    <2>0. <<d, a>> \in queue[v] \/ VotedFor(taken[v], d, a) \/ VotedFor(log[v], d, a)
        BY <1>a DEF Covered
    <2>1. CASE v # u BY <1>11, <1>12, <2>0, <2>1
    <2>2. CASE v = u /\ <<d, a>> # x BY <1>10, <1>12, <2>0, <2>2
    <2>3. CASE v = u /\ <<d, a>> = x
        <3>1. d = c /\ a = b BY <1>5, <2>3
        <3> QED BY <1>11, <1>13, <2>3, <3>1
    <2> QED BY <2>1, <2>2, <2>3
<1>15. InLogOrder'
    <2>1. \A v \in Group : VotesInOrder(log, v)' BY <1>2, <1>a DEF InLogOrder, VotesInOrder
    <2>2. ASSUME NEW a \in 0 .. (b - 1) PROVE VotedFor(log[u], c, a)
        <3>1. a \in Nat /\ a < b BY <2>2
        <3>2. received[u][c] \in Nat
            <4>1. received \in [Group -> [Group -> Nat]] BY <1>0 DEF TypeOK
            <4> QED BY <4>1
        <3>3. a < received[u][c] BY <1>6, <3>1, <3>2
        <3>4. <<c, a>> \in queue[u] \/ VotedFor(log[u], c, a) BY <1>10, <1>a, <3>1, <3>3 DEF Covered
        <3>5. <<c, a>> \notin queue[u]
            <4> SUFFICES ASSUME <<c, a>> \in queue[u] PROVE FALSE OBVIOUS
            <4>1. \A y \in queue[u] : y[1] = x[1] => x[2] <= y[2] BY DEF Dequeueable
            <4>2. <<c, a>>[1] = c /\ <<c, a>>[2] = a OBVIOUS
            <4>3. b <= a BY <1>5, <4>1, <4>2
            <4> QED BY <3>1, <4>3
        <3> QED BY <3>4, <3>5
    <2>3. ASSUME NEW v \in Group, NEW r \in DOMAIN taken'[v], NEW a \in 0 .. (taken'[v][r].block - 1)
          PROVE  VotedFor(log[v], taken'[v][r].chain, a)
        <3>1. CASE v = u BY <1>8, <1>11, <2>2, <3>1
        <3>2. CASE v # u BY <1>11, <1>a, <3>2 DEF InLogOrder
        <3> QED BY <3>1, <3>2
    <2> QED BY <1>2, <2>1, <2>3 DEF InLogOrder
<1>16. FinishedVoted'
    <2> SUFFICES ASSUME NEW v \in Group, NEW d \in Group, NEW k \in 0 .. (QueueSize - 1),
                        slot'[v][d][k].finished
                 PROVE  \/ VotedFor(taken'[v], d, slot'[v][d][k].blockId)
                        \/ VotedFor(log[v], d, slot'[v][d][k].blockId)
        BY <1>2 DEF FinishedVoted
    <2>1. CASE v = u /\ d = c /\ k = b % QueueSize BY <1>9, <1>11, <1>13, <2>1
    <2>2. CASE v # u \/ d # c \/ k # b % QueueSize
        <3>1. slot'[v][d][k] = slot[v][d][k] BY <1>9, <2>2
        <3>2. \/ VotedFor(taken[v], d, slot[v][d][k].blockId)
              \/ VotedFor(log[v], d, slot[v][d][k].blockId)
            BY <1>a, <3>1 DEF FinishedVoted
        <3> QED BY <1>10, <1>11, <3>1, <3>2
    <2> QED BY <2>1, <2>2
<1>17. Clocks'
    <2>1. \A v \in Group :
            /\ ClockMonotone(log, v)'
            /\ \A p \in DOMAIN log[v] : log[v][p].chain # v => log[v][p].mark <= clock[v]
        BY <1>2, <1>a DEF Clocks, ClockMonotone
    <2>2. ASSUME NEW v \in Group, NEW r \in DOMAIN taken'[v], taken'[v][r].chain # v
          PROVE  /\ taken'[v][r].mark <= clock[v]
                 /\ \A p \in DOMAIN log[v] : log[v][p].chain # v => log[v][p].mark <= taken'[v][r].mark
        <3>1. CASE v = u
            <4>1. taken'[v][r].mark = clock[v] BY <1>8, <1>11, <2>2, <3>1
            <4>2. clock[v] <= clock[v]
                <5>1. clock[v] \in Mark BY <1>0 DEF TypeOK
                <5>2. clock[v] \in Int BY <5>1 DEF Mark, INVALID_WATERMARK
                <5> QED BY <5>2
            <4> QED BY <2>1, <4>1, <4>2
        <3>2. CASE v # u BY <1>11, <1>a, <2>2, <3>2 DEF Clocks
        <3> QED BY <3>1, <3>2
    <2> QED BY <1>2, <2>1, <2>2 DEF Clocks
<1>18. Quiet' /\ AppliedClock' /\ NoneAborted'
    BY <1>2, <1>a DEF Quiet, AppliedClock, NoneAborted
<1> QED BY <1>14, <1>15, <1>16, <1>17, <1>18 DEF LogInv

\* the subscriber appends the vote it has taken
LEMMA LogsPropose ==
    ASSUME Inv, LogInv, NEW u \in Group, SubscriberPropose(u) PROVE LogInv'
<1>0. Typed /\ TypeOK BY DEF Inv, Typed
<1>a. Quiet /\ Covered /\ InLogOrder /\ FinishedVoted /\ Clocks /\ AppliedClock /\ NoneAborted
    BY DEF LogInv
<1> DEFINE s == taken[u]
<1>1. Propose(u, s) /\ taken' = [taken EXCEPT ![u] = <<>>] BY DEF SubscriberPropose
<1>2. UNCHANGED <<produced, received, queue, slot, clock, stage, forced, applied, aborted>>
    BY DEF SubscriberPropose
<1>3. s \in Seq(Entry) /\ Len(s) <= 1 BY <1>0 DEF Typed, TypeOK
<1>4. taken'[u] = <<>> /\ \A v \in Group : v # u => taken'[v] = taken[v] BY <1>0, <1>1 DEF TypeOK
<1>5. /\ \A w \in Group : /\ Len(log[w]) \in Nat /\ DOMAIN log[w] = 1 .. Len(log[w])
                          /\ \A p \in DOMAIN log[w] : p \in DOMAIN log'[w] /\ log'[w][p] = log[w][p]
      /\ \A w \in Group : w # u => log'[w] = log[w]
      /\ \A p \in DOMAIN log'[u] :
            \/ p \in DOMAIN log[u]
            \/ p = Len(log[u]) + 1 /\ 1 \in DOMAIN s /\ log'[u][p] = s[1]
    BY <1>0, <1>1, <1>3, Proposed
<1>6. \A w \in Group : \A c, b : VotedFor(log[w], c, b) => VotedFor(log'[w], c, b)
    BY <1>0, <1>1, <1>3, ProposedVotes
<1>7. \A c, b : VotedFor(s, c, b) => VotedFor(log'[u], c, b)
    <2> SUFFICES ASSUME NEW c, NEW b, VotedFor(s, c, b) PROVE VotedFor(log'[u], c, b) OBVIOUS
    <2>1. PICK r \in DOMAIN s : s[r].chain = c /\ s[r].block = b BY DEF VotedFor
    <2>2. log'[u] = log[u] \o s /\ log[u] \in Seq(Entry) BY <1>0, <1>1 DEF Propose, TypeOK
    <2>3. Len(log[u]) \in Nat /\ Len(s) \in Nat /\ DOMAIN s = 1 .. Len(s) BY <1>3, <2>2
    <2>4. /\ Len(log'[u]) = Len(log[u]) + Len(s) /\ log'[u] \in Seq(Entry)
          /\ \A i \in 1 .. (Len(log[u]) + Len(s)) :
                log'[u][i] = IF i <= Len(log[u]) THEN log[u][i] ELSE s[i - Len(log[u])]
        <3> DEFINE l == log[u]
        <3>1. l \in Seq(Entry) /\ s \in Seq(Entry) BY <1>3, <2>2
        <3>2. log'[u] = l \o s BY <2>2
        <3> HIDE DEF l, s
        <3>3. /\ Len(l \o s) = Len(l) + Len(s) /\ l \o s \in Seq(Entry)
              /\ \A i \in 1 .. (Len(l) + Len(s)) : (l \o s)[i] = IF i <= Len(l) THEN l[i] ELSE s[i - Len(l)]
            BY <3>1, ConcatProperties
        <3> QED BY <3>2, <3>3 DEF l
    <2> HIDE DEF s
    <2>5. DOMAIN log'[u] = 1 .. (Len(log[u]) + Len(s)) BY <2>4
    <2>6. r \in Nat /\ r >= 1 /\ r <= Len(s) BY <2>3
    <2>7. /\ Len(log[u]) + r \in 1 .. (Len(log[u]) + Len(s)) /\ ~ (Len(log[u]) + r <= Len(log[u]))
          /\ (Len(log[u]) + r) - Len(log[u]) = r
        BY <2>3, <2>6
    <2>8. log'[u][Len(log[u]) + r] = s[r] BY <2>4, <2>7
    <2> QED BY <2>1, <2>5, <2>7, <2>8 DEF VotedFor
<1>8. \A v \in Group : \A c, b : VotedFor(taken[v], c, b) => VotedFor(taken'[v], c, b) \/ VotedFor(log'[v], c, b)
    <2> SUFFICES ASSUME NEW v \in Group, NEW c, NEW b, VotedFor(taken[v], c, b)
                 PROVE  VotedFor(taken'[v], c, b) \/ VotedFor(log'[v], c, b)
        OBVIOUS
    <2>1. CASE v = u BY <1>7, <2>1
    <2>2. CASE v # u BY <1>4, <2>2
    <2> QED BY <2>1, <2>2
<1>9. DOMAIN <<>> = {} OBVIOUS
<1>10. \A v \in Group : \A r \in DOMAIN taken'[v] : v # u /\ taken'[v] = taken[v] BY <1>4, <1>9
<1>11. Covered' BY <1>2, <1>6, <1>8, <1>a DEF Covered
<1>12. FinishedVoted' BY <1>2, <1>6, <1>8, <1>a DEF FinishedVoted
<1>13. ASSUME NEW p \in DOMAIN log'[u], p \notin DOMAIN log[u]
       PROVE  /\ p = Len(log[u]) + 1 /\ 1 \in DOMAIN s /\ log'[u][p] = s[1]
              /\ \A q \in 1 .. (p - 1) : q \in DOMAIN log[u] /\ log'[u][q] = log[u][q]
              /\ \A q \in DOMAIN log[u] : q \in 1 .. (p - 1)
    <2>1. p = Len(log[u]) + 1 /\ 1 \in DOMAIN s /\ log'[u][p] = s[1] BY <1>5, <1>13
    <2>2. Len(log[u]) \in Nat /\ DOMAIN log[u] = 1 .. Len(log[u]) BY <1>5
    <2>3. p - 1 = Len(log[u]) BY <2>1, <2>2
    <2> QED BY <1>5, <2>1, <2>2, <2>3
<1>14. ASSUME NEW v \in Group, NEW p \in DOMAIN log[v]
       PROVE  /\ log'[v][p] = log[v][p]
              /\ \A q \in 1 .. (p - 1) : q \in DOMAIN log[v] /\ log'[v][q] = log[v][q]
    <2>1. Len(log[v]) \in Nat /\ DOMAIN log[v] = 1 .. Len(log[v]) BY <1>5
    <2>2. \A q \in 1 .. (p - 1) : q \in DOMAIN log[v] BY <2>1
    <2> QED BY <1>5, <2>2
<1> HIDE DEF s
<1>15. InLogOrder'
    <2>1. ASSUME NEW v \in Group, NEW p \in DOMAIN log'[v], NEW b \in 0 .. (log'[v][p].block - 1)
          PROVE  \E q \in 1 .. (p - 1) : log'[v][q].chain = log'[v][p].chain /\ log'[v][q].block = b
        <3>1. CASE p \in DOMAIN log[v]
            <4>1. log'[v][p] = log[v][p] BY <1>14, <3>1
            <4>2. PICK q \in 1 .. (p - 1) : log[v][q].chain = log[v][p].chain /\ log[v][q].block = b
                BY <1>a, <3>1, <4>1 DEF InLogOrder, VotesInOrder
            <4>3. log'[v][q] = log[v][q] BY <1>14, <3>1
            <4> QED BY <4>1, <4>2, <4>3
        <3>2. CASE p \notin DOMAIN log[v]
            <4>1. v = u BY <1>5, <3>2
            <4>2. 1 \in DOMAIN s /\ log'[u][p] = s[1] BY <1>13, <3>2, <4>1
            <4>3. VotedFor(log[u], s[1].chain, b) BY <1>a, <4>1, <4>2 DEF InLogOrder, s
            <4>4. PICK q \in DOMAIN log[u] : log[u][q].chain = s[1].chain /\ log[u][q].block = b
                BY <4>3 DEF VotedFor
            <4>5. q \in 1 .. (p - 1) /\ log'[u][q] = log[u][q] BY <1>13, <3>2, <4>1
            <4> QED BY <4>1, <4>2, <4>4, <4>5
        <3> QED BY <3>1, <3>2
    <2>2. ASSUME NEW v \in Group, NEW r \in DOMAIN taken'[v], NEW b \in 0 .. (taken'[v][r].block - 1)
          PROVE  VotedFor(log'[v], taken'[v][r].chain, b)
        <3>1. v # u /\ taken'[v] = taken[v] BY <1>10
        <3> QED BY <1>6, <1>a, <3>1 DEF InLogOrder
    <2> QED BY <2>1, <2>2 DEF InLogOrder, VotesInOrder
<1>16. Clocks'
    <2>1. ASSUME NEW v \in Group, NEW p \in DOMAIN log'[v], NEW q \in 1 .. (p - 1),
                 log'[v][q].chain # v, log'[v][p].chain # v
          PROVE  log'[v][q].mark <= log'[v][p].mark
        <3>1. CASE p \in DOMAIN log[v] BY <1>14, <1>a, <2>1, <3>1 DEF Clocks, ClockMonotone
        <3>2. CASE p \notin DOMAIN log[v]
            <4>1. v = u BY <1>5, <3>2
            <4>2. 1 \in DOMAIN s /\ log'[u][p] = s[1] BY <1>13, <3>2, <4>1
            <4>3. q \in DOMAIN log[u] /\ log'[u][q] = log[u][q] BY <1>13, <3>2, <4>1
            <4> QED BY <1>a, <2>1, <4>1, <4>2, <4>3 DEF Clocks, s
        <3> QED BY <3>1, <3>2
    <2>2. ASSUME NEW v \in Group, NEW p \in DOMAIN log'[v], log'[v][p].chain # v
          PROVE  log'[v][p].mark <= clock[v]
        <3>1. CASE p \in DOMAIN log[v] BY <1>14, <1>a, <2>2, <3>1 DEF Clocks
        <3>2. CASE p \notin DOMAIN log[v]
            <4>1. v = u BY <1>5, <3>2
            <4>2. 1 \in DOMAIN s /\ log'[u][p] = s[1] BY <1>13, <3>2, <4>1
            <4> QED BY <1>a, <2>2, <4>1, <4>2 DEF Clocks, s
        <3> QED BY <3>1, <3>2
    <2>3. ASSUME NEW v \in Group, NEW r \in DOMAIN taken'[v], taken'[v][r].chain # v
          PROVE  /\ taken'[v][r].mark <= clock[v]
                 /\ \A p \in DOMAIN log'[v] : log'[v][p].chain # v => log'[v][p].mark <= taken'[v][r].mark
        <3>1. v # u /\ taken'[v] = taken[v] BY <1>10
        <3>2. log'[v] = log[v] BY <1>5, <3>1
        <3> QED BY <1>a, <2>3, <3>1, <3>2 DEF Clocks
    <2> QED BY <1>2, <2>1, <2>2, <2>3 DEF Clocks, ClockMonotone
<1>17. AppliedClock'
    <2> SUFFICES ASSUME NEW v \in Group, NEW w \in Group, NEW p \in 1 .. applied[v][w], log'[w][p].chain = v
                 PROVE  log'[w][p].block <= clock[v]
        BY <1>2 DEF AppliedClock
    <2>1. p \in DOMAIN log[w]
        <3>1. applied \in [Group -> [Group -> Nat]] /\ accepted \in [Group -> [Group -> Nat]] BY <1>0 DEF TypeOK
        <3>2. applied[v][w] <= accepted[v][w] /\ accepted[v][w] <= Len(log[w]) BY <1>0 DEF TypeOK
        <3>3. applied[v][w] \in Nat /\ accepted[v][w] \in Nat BY <3>1
        <3>4. Len(log[w]) \in Nat /\ DOMAIN log[w] = 1 .. Len(log[w]) BY <1>5
        <3> QED BY <3>2, <3>3, <3>4
    <2>2. log'[w][p] = log[w][p] BY <1>14, <2>1
    <2> QED BY <1>a, <2>2 DEF AppliedClock
<1>18. Quiet' /\ NoneAborted' BY <1>2, <1>a DEF Quiet, NoneAborted
<1> QED BY <1>11, <1>12, <1>15, <1>16, <1>17, <1>18 DEF LogInv

\* counting and checking a vote finish no slot
LEMMA LogsValidate ==
    ASSUME Inv, RingFresh, NoForce', LogInv, NEW u \in Group, NEW v \in Group, AddVote(u, v) \/ CheckVote(u, v)
    PROVE  LogInv'
<1>0. Typed /\ TypeOK BY DEF Inv, Typed
<1>a. Quiet /\ Covered /\ InLogOrder /\ FinishedVoted /\ Clocks /\ AppliedClock /\ NoneAborted
    BY DEF LogInv
<1>1. u # v /\ accepted[u][v] < Len(log[v])
    <2>1. CASE AddVote(u, v) BY <2>1 DEF AddVote
    <2>2. CASE CheckVote(u, v) BY <1>0, <2>2 DEF Typed, CheckVote
    <2> QED BY <2>1, <2>2
<1>2. UNCHANGED <<produced, received, queue, clock, taken, forced, log, applied, aborted>>
    BY DEF AddVote, CheckVote
<1>3. PICK c \in Group, b \in Nat : c = Pending(u, v).chain /\ b = Pending(u, v).block
    BY <1>0, <1>1, PendingTyped
<1>4. c # u => SlotOf(u, c, b).blockId <= b BY <1>1, <1>3 DEF RingFresh
<1> DEFINE g == getRef(u, c, b)
           votes == g.votes \cup {v}
           t == [g EXCEPT !.votes = votes]
<1>5. \/ UNCHANGED slot
      \/ c # u /\ slot' = Written(u, c, b, g)
      \/ c # u /\ slot' = Written(u, c, b, t)
    <2>1. CASE AddVote(u, v) BY <1>3, <2>1 DEF AddVote, Written
    <2>2. CASE CheckVote(u, v) BY <1>3, <2>2 DEF CheckVote, Written
    <2> QED BY <2>1, <2>2
<1>6. c # u => g \in Slot /\ g.blockId = b BY <1>0, <1>4, Found
<1>7. c # u => t \in Slot /\ t.blockId = b /\ t.finished = g.finished
    <2> SUFFICES ASSUME c # u PROVE t \in Slot /\ t.blockId = b /\ t.finished = g.finished OBVIOUS
    <2>1. g \in [blockId : Nat, votes : SUBSET Group, finished : BOOLEAN] /\ votes \subseteq Group /\ g.blockId = b
        BY <1>6 DEF Slot
    <2> HIDE DEF g, votes
    <2> QED BY <2>1 DEF Slot
<1>8. PICK z : z = (IF slot' = Written(u, c, b, g) THEN g ELSE t) OBVIOUS
<1>9. FinishedVoted'
    <2>1. CASE UNCHANGED slot BY <1>2, <1>a, <2>1 DEF FinishedVoted
    <2>2. CASE ~ UNCHANGED slot
        <3>1. c # u /\ slot' = Written(u, c, b, z) /\ (z = g \/ z = t) BY <1>5, <1>8, <2>2
        <3>2. z \in Slot /\ z.blockId = b /\ z.finished = g.finished BY <1>6, <1>7, <3>1
        <3> HIDE DEF t, votes
        <3>3. SlotOf(u, c, b).blockId <= b BY <1>4, <3>1
        <3>4. z.finished = getRef(u, c, b).finished BY <3>2
        <3>5. getRef(u, c, b).finished => z.finished BY <3>4
        <3> HIDE DEF g
        <3>6. /\ slot'[u][c][b % QueueSize] = z
              /\ \A w, d \in Group : \A k \in 0 .. (QueueSize - 1) :
                    w # u \/ d # c \/ k # b % QueueSize => slot'[w][d][k] = slot[w][d][k]
            BY <1>0, <3>1, <3>2, <3>3, <3>5, SlotWritten
        <3>7. z.finished => VotedFor(taken[u], c, b) \/ VotedFor(log[u], c, b)
            <4> SUFFICES ASSUME z.finished PROVE VotedFor(taken[u], c, b) \/ VotedFor(log[u], c, b) OBVIOUS
            <4>1. Marked(u, c, b) BY <1>0, <3>3, <3>4, Found
            <4>2. SlotOf(u, c, b).blockId \in Nat BY <1>0, SlotTyped
            <4>3. SlotOf(u, c, b).blockId = b /\ SlotOf(u, c, b).finished
                BY <3>3, <4>1, <4>2 DEF Marked
            <4>4. b % QueueSize \in 0 .. (QueueSize - 1) BY InRing
            <4> QED BY <1>a, <4>3, <4>4 DEF FinishedVoted, SlotOf
        <3>8. ASSUME NEW w \in Group, NEW d \in Group, NEW k \in 0 .. (QueueSize - 1),
                     slot'[w][d][k].finished
              PROVE  \/ VotedFor(taken[w], d, slot'[w][d][k].blockId)
                     \/ VotedFor(log[w], d, slot'[w][d][k].blockId)
            <4>1. CASE w = u /\ d = c /\ k = b % QueueSize BY <3>2, <3>6, <3>7, <3>8, <4>1
            <4>2. CASE w # u \/ d # c \/ k # b % QueueSize
                <5>1. slot'[w][d][k] = slot[w][d][k] BY <3>6, <4>2
                <5> QED BY <1>a, <3>8, <5>1 DEF FinishedVoted
            <4> QED BY <4>1, <4>2
        <3> QED BY <1>2, <3>8 DEF FinishedVoted
    <2> QED BY <2>1, <2>2
<1>10. Quiet'
    <2>1. stage \in [Group -> [Group -> {"idle", "force", "propose", "check"}]] BY <1>0 DEF TypeOK
    <2>2. \E y \in {"force", "check", "idle"} : stage' = [stage EXCEPT ![u][v] = y]
        <3>1. CASE AddVote(u, v) BY <3>1 DEF AddVote
        <3>2. CASE CheckVote(u, v) BY <3>2 DEF CheckVote
        <3> QED BY <3>1, <3>2
    <2>3. ASSUME NEW w \in Group, NEW x \in Group PROVE stage'[w][x] # "propose"
        <3>1. stage[w][x] # "propose" BY <1>a DEF Quiet
        <3> QED BY <2>1, <2>2, <3>1
    <2> QED BY <1>2, <1>a, <2>3 DEF Quiet
<1>11. Covered' /\ InLogOrder' /\ Clocks' /\ AppliedClock' /\ NoneAborted'
    BY <1>2, <1>a DEF Covered, InLogOrder, VotesInOrder, Clocks, ClockMonotone, AppliedClock, NoneAborted
<1> QED BY <1>9, <1>10, <1>11 DEF LogInv

\* applyRawBlockOrder: the own blocks are agreed on in order
LEMMA LogsApply ==
    ASSUME Inv, LogInv, NEW u \in Group, NEW v \in Group, Apply(u, v) PROVE LogInv'
<1>0. Typed /\ TypeOK BY DEF Inv, Typed
<1>a. Quiet /\ Covered /\ InLogOrder /\ FinishedVoted /\ Clocks /\ AppliedClock /\ NoneAborted
    BY DEF LogInv
<1> DEFINE e == log[v][applied[u][v] + 1]
<1>1. /\ applied[u][v] < accepted[u][v] /\ applied' = [applied EXCEPT ![u][v] = @ + 1]
      /\ clock' = IF e.chain = u /\ e.block - 1 = clock[u] THEN [clock EXCEPT ![u] = e.block] ELSE clock
      /\ aborted' = IF e.chain = u /\ e.block - 1 > clock[u] THEN aborted \cup {u} ELSE aborted
    BY DEF Apply
<1>2. UNCHANGED <<produced, received, queue, slot, taken, stage, forced, log, accepted>> BY DEF Apply
<1>3. /\ applied \in [Group -> [Group -> Nat]] /\ accepted \in [Group -> [Group -> Nat]]
      /\ log \in [Group -> Seq(Entry)] /\ clock \in [Group -> Mark]
    BY <1>0 DEF TypeOK
<1>4. accepted[u][v] <= Len(log[v]) BY <1>0 DEF TypeOK
<1>5. applied[u][v] \in Nat /\ accepted[u][v] \in Nat /\ Len(log[v]) \in Nat BY <1>3
<1>6. applied[u][v] + 1 \in DOMAIN log[v] BY <1>1, <1>3, <1>4, <1>5
<1>7. e \in Entry BY <1>3, <1>6
<1>8. e.block \in Nat BY <1>7 DEF Entry
<1>9. \A w \in Group : clock[w] \in Int /\ clock[w] >= -1
    <2>1. \A w \in Group : clock[w] \in Mark BY <1>3
    <2> QED BY <2>1 DEF Mark, INVALID_WATERMARK
<1>10. e.chain = u => e.block - 1 <= clock[u]
    <2> SUFFICES ASSUME e.chain = u PROVE e.block - 1 <= clock[u] OBVIOUS
    <2>1. CASE e.block = 0 BY <1>9, <2>1
    <2>2. CASE e.block # 0
        <3>1. e.block - 1 \in 0 .. (e.block - 1) BY <1>8, <2>2
        <3>2. PICK q \in 1 .. ((applied[u][v] + 1) - 1) :
                 log[v][q].chain = e.chain /\ log[v][q].block = e.block - 1
            BY <1>6, <1>a, <3>1 DEF InLogOrder, VotesInOrder
        <3>3. q \in 1 .. applied[u][v] BY <1>5, <3>2
        <3> QED BY <1>a, <3>2, <3>3 DEF AppliedClock
    <2> QED BY <2>1, <2>2
<1> HIDE DEF e
<1>11. NoneAborted' BY <1>1, <1>8, <1>9, <1>10, <1>a DEF NoneAborted
<1>12. \A w \in Group : clock'[w] \in Int /\ clock[w] <= clock'[w]
    <2> SUFFICES ASSUME NEW w \in Group PROVE clock'[w] \in Int /\ clock[w] <= clock'[w] OBVIOUS
    <2>1. CASE clock' = clock BY <1>9, <2>1
    <2>2. CASE clock' = [clock EXCEPT ![u] = e.block] /\ e.block - 1 = clock[u]
        <3>1. clock'[u] = e.block /\ (w # u => clock'[w] = clock[w]) BY <1>3, <2>2
        <3> QED BY <1>8, <1>9, <2>2, <3>1
    <2> QED BY <1>1, <2>1, <2>2
<1>13. e.chain = u => e.block <= clock'[u]
    <2> SUFFICES ASSUME e.chain = u PROVE e.block <= clock'[u] OBVIOUS
    <2>1. CASE e.block - 1 = clock[u]
        <3>1. clock'[u] = e.block BY <1>1, <1>3, <2>1
        <3> QED BY <1>8, <3>1
    <2>2. CASE e.block - 1 # clock[u]
        <3>1. e.block - 1 <= clock[u] BY <1>10
        <3>2. e.block <= clock[u] BY <1>8, <1>9, <2>2, <3>1
        <3> QED BY <1>8, <1>9, <1>12, <3>2
    <2> QED BY <2>1, <2>2
<1>14. AppliedClock'
    <2>1. /\ applied'[u][v] = applied[u][v] + 1
          /\ \A w, x \in Group : w # u \/ x # v => applied'[w][x] = applied[w][x]
        <3> DEFINE r == [applied[u] EXCEPT ![v] = @ + 1]
        <3>1. applied' = [applied EXCEPT ![u] = r] BY <1>1
        <3>2. r[v] = applied[u][v] + 1 /\ \A x \in Group : x # v => r[x] = applied[u][x] BY <1>3
        <3> HIDE DEF r
        <3>3. applied'[u] = r /\ \A w \in Group : w # u => applied'[w] = applied[w] BY <1>3, <3>1
        <3> QED BY <3>2, <3>3
    <2> SUFFICES ASSUME NEW w \in Group, NEW x \in Group, NEW p \in 1 .. applied'[w][x], log[x][p].chain = w
                 PROVE  log[x][p].block <= clock'[w]
        BY <1>2 DEF AppliedClock
    <2>2. CASE w = u /\ x = v /\ p = applied[u][v] + 1 BY <1>13, <2>2 DEF e
    <2>3. CASE ~ (w = u /\ x = v /\ p = applied[u][v] + 1)
        <3>1. p \in 1 .. applied[w][x]
            <4>1. CASE w = u /\ x = v BY <1>5, <2>1, <2>3, <4>1, SMTT(30)
            <4>2. CASE w # u \/ x # v BY <2>1, <4>2
            <4> QED BY <4>1, <4>2
        <3>2. log[x][p].block <= clock[w] BY <1>a, <3>1 DEF AppliedClock
        <3>3. log[x][p].block \in Nat
            <4>1. applied[w][x] <= accepted[w][x] /\ accepted[w][x] <= Len(log[x]) BY <1>0 DEF TypeOK
            <4>2. /\ applied[w][x] \in Nat /\ accepted[w][x] \in Nat /\ Len(log[x]) \in Nat
                  /\ log[x] \in Seq(Entry)
                BY <1>3
            <4>3. p \in DOMAIN log[x] BY <3>1, <4>1, <4>2
            <4>4. log[x][p] \in Entry BY <4>2, <4>3
            <4> QED BY <4>4 DEF Entry
        <3> QED BY <1>9, <1>12, <3>2, <3>3
    <2> QED BY <2>2, <2>3
<1>15. Clocks'
    <2>0. \A w \in Group : log[w] \in Seq(Entry) /\ taken[w] \in Seq(Entry) BY <1>0 DEF TypeOK
    <2>1. ASSUME NEW w \in Group, NEW m \in Mark, m <= clock[w] PROVE m <= clock'[w]
        <3>1. m \in Int BY DEF Mark, INVALID_WATERMARK
        <3> QED BY <1>9, <1>12, <2>1, <3>1
    <2>2. ASSUME NEW w \in Group, NEW p \in DOMAIN log[w], log[w][p].chain # w PROVE log[w][p].mark <= clock'[w]
        <3>1. log[w][p] \in Entry BY <2>0
        <3>2. log[w][p].mark \in Mark BY <3>1 DEF Entry
        <3>3. log[w][p].mark <= clock[w] BY <1>a, <2>2 DEF Clocks
        <3> QED BY <2>1, <3>2, <3>3
    <2>3. ASSUME NEW w \in Group, NEW r \in DOMAIN taken[w], taken[w][r].chain # w
          PROVE  taken[w][r].mark <= clock'[w]
        <3>1. taken[w][r] \in Entry BY <2>0
        <3>2. taken[w][r].mark \in Mark BY <3>1 DEF Entry
        <3>3. taken[w][r].mark <= clock[w] BY <1>a, <2>3 DEF Clocks
        <3> QED BY <2>1, <3>2, <3>3
    <2>4. ASSUME NEW w \in Group
          PROVE  /\ ClockMonotone(log, w)'
                 /\ \A r \in DOMAIN taken[w] : taken[w][r].chain # w =>
                       \A p \in DOMAIN log[w] : log[w][p].chain # w => log[w][p].mark <= taken[w][r].mark
        BY <1>2, <1>a DEF Clocks, ClockMonotone
    <2> QED BY <1>2, <2>2, <2>3, <2>4 DEF Clocks
<1>16. Quiet' /\ Covered' /\ InLogOrder' /\ FinishedVoted'
    BY <1>2, <1>a DEF Quiet, Covered, InLogOrder, VotesInOrder, FinishedVoted
<1> QED BY <1>11, <1>14, <1>15, <1>16 DEF LogInv

LEMMA LogsStep ==
    ASSUME FifoQueue = TRUE, Inv, RingFresh, NoForce, NoForce', LogInv, [Next]_vars PROVE LogInv'
<1>0. Typed /\ TypeOK BY DEF Inv, Typed
<1>1. ASSUME NEW c \in Group, Produce(c) PROVE LogInv'
    <2>1. /\ Insert(c, c)
          /\ UNCHANGED <<slot, clock, taken, stage, forced, log, accepted, applied, aborted>>
        BY <1>1 DEF Produce
    <2> QED BY <1>0, <2>1, LogsInsert
<1>2. ASSUME NEW u \in Group, NEW c \in Group, Replicate(u, c) PROVE LogInv'
    <2>1. /\ Insert(u, c)
          /\ UNCHANGED <<slot, clock, taken, stage, forced, log, accepted, applied, aborted>>
        BY <1>2 DEF Replicate
    <2> QED BY <1>0, <2>1, LogsInsert
<1>3. ASSUME NEW u \in Group, SubscriberVote(u) PROVE LogInv' BY <1>3, LogsVote
<1>4. ASSUME NEW u \in Group, SubscriberPropose(u) PROVE LogInv' BY <1>4, LogsPropose
<1>5. ASSUME NEW u \in Group, NEW v \in Group, AddVote(u, v) PROVE LogInv' BY <1>5, LogsValidate
<1>6. ASSUME NEW u \in Group, NEW v \in Group, ForcedVote(u, v) PROVE LogInv'
    BY <1>6 DEF ForcedVote, NoForce
<1>7. ASSUME NEW u \in Group, NEW v \in Group, ForcedPropose(u, v) PROVE LogInv'
    BY <1>7 DEF ForcedPropose, LogInv, Quiet
<1>8. ASSUME NEW u \in Group, NEW v \in Group, CheckVote(u, v) PROVE LogInv' BY <1>8, LogsValidate
<1>9. ASSUME NEW u \in Group, NEW v \in Group, Apply(u, v) PROVE LogInv' BY <1>9, LogsApply
<1>10. CASE UNCHANGED vars
    <2>1. Quiet /\ Covered /\ InLogOrder /\ FinishedVoted /\ Clocks /\ AppliedClock /\ NoneAborted
        BY DEF LogInv
    <2>2. UNCHANGED <<received, queue, slot, clock, taken, stage, forced, log, applied, aborted>>
        BY <1>10 DEF vars
    <2>3. Quiet' /\ Covered' /\ InLogOrder' /\ FinishedVoted' /\ Clocks' /\ AppliedClock' /\ NoneAborted'
        BY <2>1, <2>2 DEF Quiet, Covered, InLogOrder, VotesInOrder, FinishedVoted, Clocks,
                          ClockMonotone, AppliedClock, NoneAborted
    <2> QED BY <2>3 DEF LogInv
<1>11. CASE Next BY <1>1, <1>2, <1>3, <1>4, <1>5, <1>6, <1>7, <1>8, <1>9, <1>11 DEF Next
<1> QED BY <1>10, <1>11

\* When the subscriber gets the blocks of its own group in order, no group is forced
\* to vote and no look-up finds a newer block, every log is what the order manager
\* relies on, and increaseLocalClock never meets a gap: for any number of groups.
THEOREM LogsAreSound ==
    ASSUME FifoQueue = TRUE PROVE Spec /\ []RingFresh /\ []NoForce => []LogsSound
<1>1. Inv /\ LogInv => LogsSound
    <2> SUFFICES ASSUME Inv, LogInv PROVE LogsSound OBVIOUS
    <2>1. log \in [Group -> Seq(Entry)] /\ \A v \in Group : VotesOnce(log, v)
        BY DEF Inv, Typed, TypeOK, OncePerBlock, OneVote
    <2>2. \A v \in Group : VotesInOrder(log, v) /\ ClockMonotone(log, v)
        BY DEF LogInv, InLogOrder, Clocks
    <2> QED BY <2>1, <2>2 DEF LogInv, LogsSound, LogsWellFormed, WellFormed
<1>2. Init => Inv /\ LogInv BY InitInv, LogsInit
<1>3. Inv /\ LogInv /\ RingFresh /\ NoForce /\ NoForce' /\ [Next]_vars => (Inv /\ LogInv)'
    BY InvStep, LogsStep
<1> QED BY <1>1, <1>2, <1>3, PTL DEF Spec

\* with two groups the other one alone never makes the threshold
LEMMA NeverForced ==
    ASSUME GroupCount <= 2, Inv, RingFresh, NoForce, [Next]_vars PROVE NoForce'
<1>0. Typed /\ TypeOK BY DEF Inv, Typed
<1>1. ASSUME NEW u \in Group, NEW v \in Group, AddVote(u, v) PROVE NoForce'
    <2>1. u # v /\ accepted[u][v] < Len(log[v]) BY <1>1 DEF AddVote
    <2> DEFINE c == Pending(u, v).chain
               b == Pending(u, v).block
               votes == getRef(u, c, b).votes \cup {v}
    <2>2. c # u => votes \subseteq {v}
        <3> SUFFICES ASSUME c # u PROVE votes \subseteq {v} OBVIOUS
        <3>1. \A w \in votes : w \in Group \ {u} BY <2>1, Counted
        <3> HIDE DEF votes
        <3>2. Group \subseteq {0, 1} BY GroupCountAssumption DEF Group
        <3> QED BY <2>1, <3>1, <3>2
    <2>3. c # u => ~ Reached(votes)
        <3> SUFFICES ASSUME c # u PROVE ~ Reached(votes) OBVIOUS
        <3>1. votes = {v} BY <2>2
        <3>2. Cardinality({v}) = 1 BY FS_Singleton
        <3>3. Threshold # 1
            <4>1. GroupCount = 2
                <5>1. Group # {0} BY <2>1
                <5>2. GroupCount \in {1, 2} BY GroupCountAssumption
                <5> QED BY <5>1, <5>2 DEF Group
            <4> QED BY <4>1 DEF Threshold
        <3> HIDE DEF votes
        <3> QED BY <3>1, <3>2, <3>3 DEF Reached
    <2>4. stage' = [stage EXCEPT ![u][v] = "check"]
        <3>1. \/ stage' = [stage EXCEPT ![u][v] = "check"]
              \/ c # u /\ stage' = [stage EXCEPT ![u][v] = IF Reached(votes) THEN "force" ELSE "check"]
            BY <1>1 DEF AddVote
        <3> QED BY <2>3, <3>1
    <2>5. stage \in [Group -> [Group -> {"idle", "force", "propose", "check"}]] BY <1>0 DEF TypeOK
    <2> QED BY <2>4, <2>5 DEF NoForce
<1>2. ASSUME NEW u \in Group, NEW v \in Group,
             \E y \in {"idle", "propose", "check"} : stage' = [stage EXCEPT ![u][v] = y]
      PROVE  NoForce'
    <2>1. stage \in [Group -> [Group -> {"idle", "force", "propose", "check"}]] BY <1>0 DEF TypeOK
    <2> QED BY <1>2, <2>1 DEF NoForce
<1>3. CASE UNCHANGED stage BY <1>3 DEF NoForce
<1>4. CASE UNCHANGED vars BY <1>3, <1>4 DEF vars
<1>5. CASE Next
    <2>1. ASSUME NEW u \in Group, NEW v \in Group, ForcedVote(u, v) PROVE NoForce'
        BY <1>2, <2>1 DEF ForcedVote
    <2>2. ASSUME NEW u \in Group, NEW v \in Group, ForcedPropose(u, v) PROVE NoForce'
        BY <1>2, <2>2 DEF ForcedPropose
    <2>3. ASSUME NEW u \in Group, NEW v \in Group, CheckVote(u, v) PROVE NoForce'
        BY <1>2, <2>3 DEF CheckVote
    <2>4. ASSUME NEW u \in Group, NEW v \in Group,
                 \/ Produce(u) \/ Replicate(u, v) \/ SubscriberVote(u) \/ SubscriberPropose(u) \/ Apply(u, v)
          PROVE  NoForce'
        BY <1>3, <2>4 DEF Produce, Replicate, SubscriberVote, SubscriberPropose, Apply
    <2> QED BY <1>1, <1>5, <2>1, <2>2, <2>3, <2>4 DEF Next
<1> QED BY <1>4, <1>5

\* Between two groups nobody is ever forced to vote, so their logs are sound as long
\* as the chains are not longer than the ring.
THEOREM LogsSoundForTwo ==
    ASSUME GroupCount <= 2, FifoQueue = TRUE, WithinRing PROVE Spec => []LogsSound
<1>1. Init => NoForce BY DEF Init, NoForce
<1>2. Inv /\ RingFresh /\ NoForce /\ [Next]_vars => NoForce' BY NeverForced
<1>3. Init => Inv BY InitInv
<1>4. Inv /\ RingFresh /\ [Next]_vars => Inv' BY InvStep
<1>5. Spec => []RingFresh BY RingStaysFresh
<1> QED BY <1>1, <1>2, <1>3, <1>4, <1>5, LogsAreSound, PTL DEF Spec
=============================================================================
