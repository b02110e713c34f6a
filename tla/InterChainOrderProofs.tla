----------------------- MODULE InterChainOrderProofs -----------------------
(***************************************************************************)
(* Proofs about InterChainOrderManager, for every number of groups and     *)
(* every set of well-formed logs.                                          *)
(***************************************************************************)
EXTENDS InterChainOrderManager, WellFoundedInduction, TLAPS

(***************************************************************************)
(* The inductive invariant, over a chain table ch and log positions ps.    *)
(***************************************************************************)

\* the cell at position k of chain g is that of block k, and knows its own mark
CellsOK(ch) ==
    /\ DOMAIN ch = Group
    /\ \A g \in Group :
         /\ 0 \in DOMAIN ch[g]
         /\ \A k \in DOMAIN ch[g] :
              /\ k \in Nat
              /\ 0 .. k \subseteq DOMAIN ch[g]
              /\ ch[g][k] \in Cell
              /\ ch[g][k].groupId = g
              /\ ch[g][k].blockId = k
              /\ ch[g][k].real[g]
              /\ ch[g][k].watermarks[g] = k

PositionsOK(ps) == ps \in [Group -> Nat] /\ \A v \in Group : ps[v] <= Len(log[v])

\* a mark is real only if the vote has been applied
RealVoted(ch, ps) ==
    \A g \in Group : \A k \in DOMAIN ch[g] : \A v \in Group \ {g} :
        ch[g][k].real[v] =>
            \E p \in 1 .. ps[v] : /\ log[v][p].chain = g
                                  /\ log[v][p].block = k
                                  /\ log[v][p].mark = ch[g][k].watermarks[v]

\* an applied vote is recorded in its cell
AppliedReal(ch, ps) ==
    \A v \in Group : \A p \in 1 .. ps[v] :
        log[v][p].chain # v =>
            /\ log[v][p].block \in DOMAIN ch[log[v][p].chain]
            /\ ch[log[v][p].chain][log[v][p].block].real[v]
            /\ ch[log[v][p].chain][log[v][p].block].watermarks[v] = log[v][p].mark

\* an estimate is a lower bound of every vote still to come
EstimateLow(ch, ps) ==
    \A g \in Group : \A k \in DOMAIN ch[g] : \A v \in Group \ {g} :
        ~ ch[g][k].real[v] =>
            \A p \in (ps[v] + 1) .. Len(log[v]) :
                log[v][p].chain # v => ch[g][k].watermarks[v] <= log[v][p].mark

ChainInv(ch, ps) ==
    /\ CellsOK(ch)
    /\ PositionsOK(ps)
    /\ RealVoted(ch, ps)
    /\ AppliedReal(ch, ps)
    /\ EstimateLow(ch, ps)

\* delivered holds exactly the blocks below the heads
DeliveredBelowHeads ==
    /\ \A i \in DOMAIN delivered : delivered[i][2] < heads[delivered[i][1]]
    /\ \A g \in Group : \A b \in 0 .. (heads[g] - 1) :
         \E i \in DOMAIN delivered : delivered[i] = <<g, b>>

IInv ==
    /\ TypeOK
    /\ log \in Logs
    /\ invalid = {}
    /\ ~ aborted
    /\ ChainInv(chains, pos)
    /\ DeliveredBelowHeads

(***************************************************************************)
(* What the logs guarantee.                                                *)
(***************************************************************************)

\* the logs are sequences of typed entries
LEMMA LogTyped == log \in Logs => log \in [Group -> Seq(Entry)]
BY LogsAssumption DEF WellFormed

\* the fields of a log entry have their types
LEMMA EntryTyped ==
    ASSUME log \in Logs, NEW v \in Group
    PROVE  /\ Len(log[v]) \in Nat
           /\ DOMAIN log[v] = 1 .. Len(log[v])
           /\ \A p \in DOMAIN log[v] : /\ log[v][p].chain \in Group
                                       /\ log[v][p].block \in Nat
                                       /\ log[v][p].mark \in Int
                                       /\ log[v][p].mark \in Mark
                                       /\ log[v][p].mark >= -1
<1>1. log[v] \in Seq(Entry) BY LogTyped
<1>2. Len(log[v]) \in Nat /\ DOMAIN log[v] = 1 .. Len(log[v]) BY <1>1
<1>3. ASSUME NEW p \in DOMAIN log[v]
      PROVE  log[v][p].chain \in Group /\ log[v][p].block \in Nat /\ log[v][p].mark \in Mark
    <2>1. log[v][p] \in Entry BY <1>1, <1>2
    <2> QED BY <2>1 DEF Entry
<1>4. \A m \in Mark : m \in Int /\ m >= -1 BY DEF Mark, INVALID_WATERMARK
<1> QED BY <1>2, <1>3, <1>4

\* a group votes once for a block
LEMMA LogOnce ==
    ASSUME log \in Logs, NEW v \in Group, NEW p \in DOMAIN log[v], NEW q \in DOMAIN log[v],
           log[v][p].chain = log[v][q].chain, log[v][p].block = log[v][q].block
    PROVE  p = q
<1>1. VotesOnce(log, v) BY LogsAssumption DEF WellFormed
<1>2. p \in Nat /\ q \in Nat /\ DOMAIN log[v] = 1 .. Len(log[v]) /\ Len(log[v]) \in Nat
    BY EntryTyped
<1>3. p < q => FALSE BY <1>1, <1>2 DEF VotesOnce
<1>4. q < p => FALSE BY <1>1, <1>2 DEF VotesOnce
<1> QED BY <1>2, <1>3, <1>4

\* the clock of a group never goes back
LEMMA LogMonotone ==
    ASSUME log \in Logs, NEW v \in Group, NEW p \in DOMAIN log[v], NEW q \in DOMAIN log[v],
           p <= q, log[v][p].chain # v, log[v][q].chain # v
    PROVE  log[v][p].mark <= log[v][q].mark
<1>1. ClockMonotone(log, v) BY LogsAssumption DEF WellFormed
<1>2. /\ p \in Nat /\ q \in Nat /\ DOMAIN log[v] = 1 .. Len(log[v]) /\ Len(log[v]) \in Nat
      /\ log[v][p].mark \in Int
    BY EntryTyped
<1>3. CASE p = q BY <1>2, <1>3
<1>4. CASE p < q BY <1>1, <1>2, <1>4 DEF ClockMonotone
<1> QED BY <1>2, <1>3, <1>4

\* a group votes for the blocks of a chain in order
LEMMA LogPrevious ==
    ASSUME log \in Logs, NEW v \in Group, NEW p \in DOMAIN log[v],
           NEW b \in 0 .. (log[v][p].block - 1)
    PROVE  \E q \in 1 .. (p - 1) : /\ q \in DOMAIN log[v]
                                   /\ log[v][q].chain = log[v][p].chain
                                   /\ log[v][q].block = b
<1>1. VotesInOrder(log, v) BY LogsAssumption DEF WellFormed
<1>2. p \in Nat /\ DOMAIN log[v] = 1 .. Len(log[v]) /\ Len(log[v]) \in Nat
    BY EntryTyped
<1>3. \E q \in 1 .. (p - 1) : log[v][q].chain = log[v][p].chain /\ log[v][q].block = b
    BY <1>1 DEF VotesInOrder
<1> QED BY <1>2, <1>3

(***************************************************************************)
(* createBlockIfNotExist.                                                  *)
(***************************************************************************)

\* a new cell knows nothing but its own mark
LEMMA NewCellFacts ==
    ASSUME NEW g \in Group, NEW b \in Nat
    PROVE  /\ NewCell(g, b) \in Cell
           /\ NewCell(g, b).groupId = g
           /\ NewCell(g, b).blockId = b
           /\ \A v \in Group : NewCell(g, b).real[v] <=> v = g
           /\ NewCell(g, b).watermarks[g] = b
           /\ \A v \in Group \ {g} : NewCell(g, b).watermarks[v] = -1
BY DEF NewCell, Cell, Mark, INVALID_WATERMARK

\* creating the cell next to an existing one keeps the invariant
LEMMA CreateFacts ==
    ASSUME NEW ch, NEW ps, ChainInv(ch, ps), log \in Logs,
           NEW g \in Group, NEW b \in Nat, b > 0 => b - 1 \in DOMAIN ch[g]
    PROVE  LET cr == createBlockIfNotExist(ch, g, b)
           IN  /\ ChainInv(cr, ps)
               /\ b \in DOMAIN cr[g]
               /\ \A h \in Group : \A k \in DOMAIN ch[h] : /\ k \in DOMAIN cr[h]
                                                           /\ cr[h][k] = ch[h][k]
               /\ \A h \in Group : h # g => cr[h] = ch[h]
               /\ b \in DOMAIN ch[g] => \A k \in DOMAIN cr[g] : k \in DOMAIN ch[g]
<1> DEFINE cr == createBlockIfNotExist(ch, g, b)
<1>1. CellsOK(ch) BY DEF ChainInv
<1>2. /\ DOMAIN cr = Group
      /\ \A h \in Group : h # g => cr[h] = ch[h]
      /\ DOMAIN cr[g] = DOMAIN ch[g] \cup 0 .. b
      /\ \A k \in DOMAIN cr[g] :
            cr[g][k] = IF k \in DOMAIN ch[g] THEN ch[g][k] ELSE NewCell(g, b)
    BY <1>1 DEF CellsOK, createBlockIfNotExist
<1>3. \A k \in DOMAIN cr[g] : k \notin DOMAIN ch[g] => k = b /\ cr[g][k] = NewCell(g, b)
    <2> SUFFICES ASSUME NEW k \in DOMAIN cr[g], k \notin DOMAIN ch[g]
                 PROVE  k = b /\ cr[g][k] = NewCell(g, b)
        OBVIOUS
    <2>1. k \in 0 .. b BY <1>2
    <2>2. CASE b = 0 BY <2>1, <2>2, <1>2
    <2>3. CASE b > 0
        <3>1. 0 .. (b - 1) \subseteq DOMAIN ch[g] BY <1>1, <2>3 DEF CellsOK
        <3> QED BY <3>1, <2>1, <2>3, <1>2
    <2> QED BY <2>2, <2>3
<1>4. \A h \in Group : \A k \in DOMAIN ch[h] : k \in DOMAIN cr[h] /\ cr[h][k] = ch[h][k]
    BY <1>2
<1>5. \A h \in Group : \A k \in DOMAIN cr[h] :
        k \notin DOMAIN ch[h] => h = g /\ k = b /\ cr[h][k] = NewCell(g, b)
    BY <1>2, <1>3
<1>6. b \in DOMAIN cr[g] BY <1>2
<1>7. b \in DOMAIN ch[g] => \A k \in DOMAIN cr[g] : k \in DOMAIN ch[g] BY <1>5
<1> HIDE DEF cr
<1>8. CellsOK(cr)
    <2> SUFFICES ASSUME NEW h \in Group
                 PROVE  /\ 0 \in DOMAIN cr[h]
                        /\ \A k \in DOMAIN cr[h] :
                              /\ k \in Nat /\ 0 .. k \subseteq DOMAIN cr[h]
                              /\ cr[h][k] \in Cell /\ cr[h][k].groupId = h
                              /\ cr[h][k].blockId = k /\ cr[h][k].real[h]
                              /\ cr[h][k].watermarks[h] = k
        BY <1>2 DEF CellsOK
    <2>1. 0 \in DOMAIN cr[h] BY <1>1, <1>4 DEF CellsOK
    <2>2. ASSUME NEW k \in DOMAIN cr[h], k \in DOMAIN ch[h]
          PROVE  /\ k \in Nat /\ 0 .. k \subseteq DOMAIN cr[h]
                 /\ cr[h][k] \in Cell /\ cr[h][k].groupId = h
                 /\ cr[h][k].blockId = k /\ cr[h][k].real[h]
                 /\ cr[h][k].watermarks[h] = k
        BY <1>1, <1>4, <2>2 DEF CellsOK
    <2>3. ASSUME NEW k \in DOMAIN cr[h], k \notin DOMAIN ch[h]
          PROVE  /\ k \in Nat /\ 0 .. k \subseteq DOMAIN cr[h]
                 /\ cr[h][k] \in Cell /\ cr[h][k].groupId = h
                 /\ cr[h][k].blockId = k /\ cr[h][k].real[h]
                 /\ cr[h][k].watermarks[h] = k
        <3>1. h = g /\ k = b /\ cr[h][k] = NewCell(g, b) BY <1>5, <2>3
        <3>2. 0 .. k \subseteq DOMAIN cr[h] BY <1>2, <3>1
        <3> QED BY <3>1, <3>2, NewCellFacts
    <2> QED BY <2>1, <2>2, <2>3
<1>9. RealVoted(cr, ps)
    <2> SUFFICES ASSUME NEW h \in Group, NEW k \in DOMAIN cr[h], NEW v \in Group \ {h},
                        cr[h][k].real[v]
                 PROVE  \E p \in 1 .. ps[v] : /\ log[v][p].chain = h
                                              /\ log[v][p].block = k
                                              /\ log[v][p].mark = cr[h][k].watermarks[v]
        BY DEF RealVoted
    <2>1. k \in DOMAIN ch[h] BY <1>5, NewCellFacts
    <2> QED BY <2>1, <1>4 DEF ChainInv, RealVoted
<1>10. AppliedReal(cr, ps)
    <2> SUFFICES ASSUME NEW v \in Group, NEW p \in 1 .. ps[v], log[v][p].chain # v
                 PROVE  /\ log[v][p].block \in DOMAIN cr[log[v][p].chain]
                        /\ cr[log[v][p].chain][log[v][p].block].real[v]
                        /\ cr[log[v][p].chain][log[v][p].block].watermarks[v] = log[v][p].mark
        BY DEF AppliedReal
    <2>1. /\ log[v][p].block \in DOMAIN ch[log[v][p].chain]
          /\ ch[log[v][p].chain][log[v][p].block].real[v]
          /\ ch[log[v][p].chain][log[v][p].block].watermarks[v] = log[v][p].mark
        BY DEF ChainInv, AppliedReal
    <2>2. log[v][p].chain \in Group BY EntryTyped DEF ChainInv, PositionsOK
    <2> QED BY <2>1, <2>2, <1>4
<1>11. EstimateLow(cr, ps)
    <2> SUFFICES ASSUME NEW h \in Group, NEW k \in DOMAIN cr[h], NEW v \in Group \ {h},
                        ~ cr[h][k].real[v], NEW p \in (ps[v] + 1) .. Len(log[v]),
                        log[v][p].chain # v
                 PROVE  cr[h][k].watermarks[v] <= log[v][p].mark
        BY DEF EstimateLow
    <2>1. CASE k \in DOMAIN ch[h] BY <2>1, <1>4 DEF ChainInv, EstimateLow
    <2>2. CASE k \notin DOMAIN ch[h]
        <3>1. cr[h][k].watermarks[v] = -1 BY <1>5, <2>2, NewCellFacts
        <3>2. log[v][p].mark >= -1 /\ log[v][p].mark \in Int
            <4>1. p \in DOMAIN log[v] BY EntryTyped DEF ChainInv, PositionsOK
            <4> QED BY <4>1, EntryTyped
        <3> QED BY <3>1, <3>2
    <2> QED BY <2>1, <2>2
<1> QED BY <1>2, <1>4, <1>6, <1>7, <1>8, <1>9, <1>10, <1>11 DEF ChainInv, cr

(***************************************************************************)
(* setIthWaterMark and updateEstimate.                                     *)
(***************************************************************************)

\* recording a vote of v changes the marks of v only: the mark of the block
\* voted for becomes real, and other cells keep real marks
LEMMA RecordFacts ==
    ASSUME NEW ch, CellsOK(ch), NEW g \in Group, NEW b \in DOMAIN ch[g],
           NEW v \in Group, v # g, NEW w \in Mark
    PROVE  LET r == RecordVote(ch, g, b, v, w)
           IN  /\ DOMAIN r = Group
               /\ \A h \in Group :
                    /\ DOMAIN r[h] = DOMAIN ch[h]
                    /\ \A k \in DOMAIN ch[h] :
                         /\ r[h][k] \in Cell
                         /\ r[h][k].groupId = ch[h][k].groupId
                         /\ r[h][k].blockId = ch[h][k].blockId
                         /\ \A u \in Group : u # v => r[h][k].real[u] = ch[h][k].real[u]
                         /\ \A u \in Group : u # v => r[h][k].watermarks[u] = ch[h][k].watermarks[u]
                         /\ h = g /\ k = b => r[h][k].real[v] /\ r[h][k].watermarks[v] = w
                         /\ ~ (h = g /\ k = b) => r[h][k].real[v] = ch[h][k].real[v]
                         /\ ~ (h = g /\ k = b) /\ ch[h][k].real[v] =>
                                r[h][k].watermarks[v] = ch[h][k].watermarks[v]
                         /\ ~ (h = g /\ k = b) =>
                                r[h][k].watermarks[v] \in {ch[h][k].watermarks[v], w}
<1> DEFINE r == RecordVote(ch, g, b, v, w)
           Marked(c) == [c EXCEPT !.watermarks[v] = w, !.real[v] = TRUE]
           Estimated(c) == [c EXCEPT !.watermarks[v] = w]
<1>1. /\ DOMAIN r = Group
      /\ \A h \in Group : DOMAIN r[h] = DOMAIN ch[h]
    BY DEF RecordVote
<1>2. \A h \in Group : \A k \in DOMAIN ch[h] :
        /\ h = g /\ k = b => r[h][k] = Marked(ch[h][k])
        /\ ~ (h = g /\ k = b) =>
              \/ r[h][k] = ch[h][k]
              \/ ~ ch[h][k].real[v] /\ r[h][k] = Estimated(ch[h][k])
    BY DEF RecordVote
<1>3. ASSUME NEW c \in Cell
      PROVE  /\ Marked(c) \in Cell
             /\ Marked(c).groupId = c.groupId /\ Marked(c).blockId = c.blockId
             /\ Marked(c).real[v] /\ Marked(c).watermarks[v] = w
             /\ \A u \in Group : u # v => /\ Marked(c).real[u] = c.real[u]
                                          /\ Marked(c).watermarks[u] = c.watermarks[u]
    BY DEF Cell
<1>4. ASSUME NEW c \in Cell
      PROVE  /\ Estimated(c) \in Cell
             /\ Estimated(c).groupId = c.groupId /\ Estimated(c).blockId = c.blockId
             /\ Estimated(c).real = c.real /\ Estimated(c).watermarks[v] = w
             /\ \A u \in Group : u # v => Estimated(c).watermarks[u] = c.watermarks[u]
    BY DEF Cell
<1>5. \A h \in Group : \A k \in DOMAIN ch[h] : ch[h][k] \in Cell BY DEF CellsOK
<1> HIDE DEF r, Marked, Estimated
<1> SUFFICES ASSUME NEW h \in Group, NEW k \in DOMAIN ch[h]
             PROVE  /\ r[h][k] \in Cell
                    /\ r[h][k].groupId = ch[h][k].groupId
                    /\ r[h][k].blockId = ch[h][k].blockId
                    /\ \A u \in Group : u # v => r[h][k].real[u] = ch[h][k].real[u]
                    /\ \A u \in Group : u # v => r[h][k].watermarks[u] = ch[h][k].watermarks[u]
                    /\ h = g /\ k = b => r[h][k].real[v] /\ r[h][k].watermarks[v] = w
                    /\ ~ (h = g /\ k = b) => r[h][k].real[v] = ch[h][k].real[v]
                    /\ ~ (h = g /\ k = b) /\ ch[h][k].real[v] =>
                           r[h][k].watermarks[v] = ch[h][k].watermarks[v]
                    /\ ~ (h = g /\ k = b) =>
                           r[h][k].watermarks[v] \in {ch[h][k].watermarks[v], w}
    BY <1>1 DEF r
<1>6. CASE h = g /\ k = b BY <1>6, <1>2, <1>3, <1>5
<1>7. CASE ~ (h = g /\ k = b)
    <2>1. CASE r[h][k] = ch[h][k] BY <2>1, <1>7, <1>5
    <2>2. CASE ~ ch[h][k].real[v] /\ r[h][k] = Estimated(ch[h][k]) BY <2>2, <1>7, <1>4, <1>5
    <2> QED BY <2>1, <2>2, <1>2, <1>7
<1> QED BY <1>6, <1>7

\* applying the next entry of a log passes the CHECKs and keeps the invariant
LEMMA VoteStep ==
    ASSUME NEW ch, ChainInv(ch, pos), log \in Logs,
           \A h \in Group : heads[h] \in DOMAIN ch[h],
           NEW v \in Group, NEW g \in Group \ {v}, NEW b \in DOMAIN ch[g], NEW w \in Mark,
           pos[v] + 1 \in DOMAIN log[v],
           log[v][pos[v] + 1] = [chain |-> g, block |-> b, mark |-> w]
    PROVE  /\ ~ ch[g][b].real[v]
           /\ VoteChecks(ch, g, b, v, w)
           /\ ChainInv(RecordVote(ch, g, b, v, w), [pos EXCEPT ![v] = @ + 1])
<1> DEFINE r == RecordVote(ch, g, b, v, w)
           ps == [pos EXCEPT ![v] = @ + 1]
<1>1. /\ CellsOK(ch) /\ RealVoted(ch, pos) /\ AppliedReal(ch, pos) /\ EstimateLow(ch, pos)
      /\ pos \in [Group -> Nat] /\ \A u \in Group : pos[u] <= Len(log[u])
    BY DEF ChainInv, PositionsOK
<1>2. /\ pos[v] \in Nat /\ Len(log[v]) \in Nat
      /\ pos[v] + 1 \in DOMAIN log[v] /\ DOMAIN log[v] = 1 .. Len(log[v])
    BY <1>1, EntryTyped
<1>3. g \in Group /\ b \in Nat /\ w \in Mark /\ w \in Int BY <1>2, EntryTyped
<1>4. ~ ch[g][b].real[v]
    <2> SUFFICES ASSUME ch[g][b].real[v] PROVE FALSE OBVIOUS
    <2>1. PICK p \in 1 .. pos[v] : log[v][p].chain = g /\ log[v][p].block = b
        BY <1>1, <1>3 DEF RealVoted
    <2>2. p \in DOMAIN log[v] BY <1>2
    <2>3. p = pos[v] + 1 BY <2>1, <2>2, <1>2, LogOnce, SMTT(30)
    <2> QED BY <2>3, <1>2
<1>5. /\ DOMAIN r = Group
      /\ \A h \in Group :
           /\ DOMAIN r[h] = DOMAIN ch[h]
           /\ \A k \in DOMAIN ch[h] :
                /\ r[h][k] \in Cell
                /\ r[h][k].groupId = ch[h][k].groupId
                /\ r[h][k].blockId = ch[h][k].blockId
                /\ \A u \in Group : u # v => r[h][k].real[u] = ch[h][k].real[u]
                /\ \A u \in Group : u # v => r[h][k].watermarks[u] = ch[h][k].watermarks[u]
                /\ h = g /\ k = b => r[h][k].real[v] /\ r[h][k].watermarks[v] = w
                /\ ~ (h = g /\ k = b) => r[h][k].real[v] = ch[h][k].real[v]
                /\ ~ (h = g /\ k = b) /\ ch[h][k].real[v] =>
                       r[h][k].watermarks[v] = ch[h][k].watermarks[v]
                /\ ~ (h = g /\ k = b) =>
                       r[h][k].watermarks[v] \in {ch[h][k].watermarks[v], w}
    BY <1>1, <1>3, RecordFacts, ZenonT(30)
<1>6. VoteChecks(ch, g, b, v, w)
    <2>1. \A h \in Group \ {v} : \A k \in DOMAIN ch[h] :
             ~ ch[h][k].real[v] => ch[h][k].watermarks[v] <= w
        BY <1>1, <1>2 DEF EstimateLow
    <2>2. \A h \in Group : ~ ch[h][heads[h]].real[v] => h # v BY <1>1 DEF CellsOK
    <2> QED BY <2>1, <2>2, <1>3, <1>4 DEF VoteChecks
<1>7. ps \in [Group -> Nat] /\ ps[v] = pos[v] + 1 /\ \A u \in Group : u # v => ps[u] = pos[u]
    BY <1>1
<1>8. DOMAIN r = Group /\ \A h \in Group : DOMAIN r[h] = DOMAIN ch[h] BY <1>5
<1>9. ASSUME NEW h \in Group, NEW k \in DOMAIN ch[h]
      PROVE  /\ r[h][k] \in Cell
             /\ r[h][k].groupId = ch[h][k].groupId
             /\ r[h][k].blockId = ch[h][k].blockId
    BY <1>5
<1>10. ASSUME NEW h \in Group, NEW k \in DOMAIN ch[h], NEW u \in Group, u # v
       PROVE  /\ r[h][k].real[u] = ch[h][k].real[u]
              /\ r[h][k].watermarks[u] = ch[h][k].watermarks[u]
    BY <1>5, <1>10
<1>11. r[g][b].real[v] /\ r[g][b].watermarks[v] = w BY <1>5
<1>12. ASSUME NEW h \in Group, NEW k \in DOMAIN ch[h], ~ (h = g /\ k = b)
       PROVE  /\ r[h][k].real[v] = ch[h][k].real[v]
              /\ ch[h][k].real[v] => r[h][k].watermarks[v] = ch[h][k].watermarks[v]
              /\ r[h][k].watermarks[v] \in {ch[h][k].watermarks[v], w}
    BY <1>5, <1>12
<1> HIDE DEF r, ps
<1>13. CellsOK(r)
    <2>1. ASSUME NEW h \in Group, NEW k \in DOMAIN ch[h]
          PROVE  r[h][k].real[h] /\ r[h][k].watermarks[h] = k
        <3>1. ch[h][k].real[h] /\ ch[h][k].watermarks[h] = k BY <1>1 DEF CellsOK
        <3>2. CASE h # v BY <3>1, <3>2, <1>10
        <3>3. CASE h = v BY <3>1, <3>3, <1>12
        <3> QED BY <3>2, <3>3
    <2>2. ASSUME NEW h \in Group, NEW k \in DOMAIN ch[h]
          PROVE  /\ k \in Nat /\ 0 .. k \subseteq DOMAIN ch[h]
                 /\ r[h][k] \in Cell /\ r[h][k].groupId = h /\ r[h][k].blockId = k
        <3>1. /\ k \in Nat /\ 0 .. k \subseteq DOMAIN ch[h]
              /\ ch[h][k].groupId = h /\ ch[h][k].blockId = k
            BY <1>1 DEF CellsOK
        <3>2. /\ r[h][k] \in Cell
              /\ r[h][k].groupId = ch[h][k].groupId /\ r[h][k].blockId = ch[h][k].blockId
            BY <1>9
        <3> QED BY <3>1, <3>2
    <2>3. \A h \in Group : 0 \in DOMAIN ch[h] BY <1>1 DEF CellsOK
    <2> QED BY <1>8, <2>1, <2>2, <2>3 DEF CellsOK
<1>14. PositionsOK(ps) BY <1>1, <1>2, <1>7 DEF PositionsOK
<1>15. RealVoted(r, ps)
    <2> SUFFICES ASSUME NEW h \in Group, NEW k \in DOMAIN ch[h], NEW u \in Group \ {h},
                        r[h][k].real[u]
                 PROVE  \E p \in 1 .. ps[u] : /\ log[u][p].chain = h
                                              /\ log[u][p].block = k
                                              /\ log[u][p].mark = r[h][k].watermarks[u]
        BY <1>8 DEF RealVoted
    <2>1. CASE u = v /\ h = g /\ k = b
        <3>1. pos[v] + 1 \in 1 .. ps[v] BY <1>2, <1>7
        <3> QED BY <3>1, <2>1, <1>11
    <2>2. CASE ~ (u = v /\ h = g /\ k = b)
        <3>1. ch[h][k].real[u] /\ r[h][k].watermarks[u] = ch[h][k].watermarks[u]
            <4>1. CASE u # v BY <4>1, <1>10
            <4>2. CASE u = v BY <4>2, <2>2, <1>12
            <4> QED BY <4>1, <4>2
        <3>2. PICK p \in 1 .. pos[u] : /\ log[u][p].chain = h
                                       /\ log[u][p].block = k
                                       /\ log[u][p].mark = ch[h][k].watermarks[u]
            BY <3>1, <1>1 DEF RealVoted
        <3>3. p \in 1 .. ps[u]
            <4>1. pos[u] \in Nat /\ ps[u] \in Nat /\ pos[u] <= ps[u] BY <1>1, <1>7
            <4> QED BY <4>1
        <3> QED BY <3>1, <3>2, <3>3
    <2> QED BY <2>1, <2>2
<1>16. AppliedReal(r, ps)
    <2> SUFFICES ASSUME NEW u \in Group, NEW p \in 1 .. ps[u], log[u][p].chain # u
                 PROVE  /\ log[u][p].block \in DOMAIN r[log[u][p].chain]
                        /\ r[log[u][p].chain][log[u][p].block].real[u]
                        /\ r[log[u][p].chain][log[u][p].block].watermarks[u] = log[u][p].mark
        BY DEF AppliedReal
    <2>1. CASE u = v /\ p = pos[v] + 1
        <3>1. log[u][p].chain = g /\ log[u][p].block = b /\ log[u][p].mark = w BY <2>1
        <3>2. b \in DOMAIN r[g] BY <1>8
        <3> QED BY <2>1, <3>1, <3>2, <1>11
    <2>2. CASE ~ (u = v /\ p = pos[v] + 1)
        <3> DEFINE h == log[u][p].chain
                   k == log[u][p].block
        <3>1. p \in 1 .. pos[u] /\ p \in DOMAIN log[u]
            <4>1. pos[u] \in Nat /\ ps[u] \in Nat /\ ps[u] <= pos[u] + 1 /\ (u # v => ps[u] = pos[u])
                BY <1>1, <1>7
            <4>2. p \in 1 .. pos[u] BY <2>2, <4>1
            <4>3. pos[u] <= Len(log[u]) /\ Len(log[u]) \in Nat /\ DOMAIN log[u] = 1 .. Len(log[u])
                BY <1>1, EntryTyped
            <4> QED BY <4>1, <4>2, <4>3
        <3>2. k \in DOMAIN ch[h] /\ ch[h][k].real[u] /\ ch[h][k].watermarks[u] = log[u][p].mark
            BY <3>1, <1>1 DEF AppliedReal
        <3>3. h \in Group BY <3>1, EntryTyped
        <3> HIDE DEF h, k
        <3>4. r[h][k].real[u] /\ r[h][k].watermarks[u] = log[u][p].mark
            <4>1. CASE u # v BY <4>1, <3>2, <3>3, <1>10
            <4>2. CASE u = v
                <5>1. ~ (h = g /\ k = b) BY <4>2, <3>2, <1>4
                <5> QED BY <4>2, <5>1, <3>2, <3>3, <1>12
            <4> QED BY <4>1, <4>2
        <3> QED BY <3>2, <3>3, <3>4, <1>8 DEF h, k
    <2> QED BY <2>1, <2>2
<1>17. EstimateLow(r, ps)
    <2> SUFFICES ASSUME NEW h \in Group, NEW k \in DOMAIN ch[h], NEW u \in Group \ {h},
                        ~ r[h][k].real[u], NEW p \in (ps[u] + 1) .. Len(log[u]),
                        log[u][p].chain # u
                 PROVE  r[h][k].watermarks[u] <= log[u][p].mark
        BY <1>8 DEF EstimateLow
    <2>1. CASE u # v
        <3>1. ~ ch[h][k].real[u] /\ r[h][k].watermarks[u] = ch[h][k].watermarks[u]
            BY <2>1, <1>10
        <3>2. p \in (pos[u] + 1) .. Len(log[u]) BY <2>1, <1>7
        <3>3. ch[h][k].watermarks[u] <= log[u][p].mark BY <3>1, <3>2, <1>1 DEF EstimateLow
        <3> QED BY <3>1, <3>3
    <2>2. CASE u = v
        <3>0. ~ (h = g /\ k = b) BY <2>2, <1>11
        <3>1. ~ ch[h][k].real[v] BY <2>2, <3>0, <1>12
        <3>2. p \in (pos[v] + 1) .. Len(log[v]) /\ p \in DOMAIN log[v] /\ pos[v] + 1 <= p
            BY <2>2, <1>2, <1>7
        <3>3. ch[h][k].watermarks[v] <= log[v][p].mark
            BY <2>2, <3>1, <3>2, <1>1 DEF EstimateLow
        <3>4. w <= log[v][p].mark BY <2>2, <3>2, <1>2, LogMonotone
        <3>5. r[h][k].watermarks[v] \in {ch[h][k].watermarks[v], w} BY <3>0, <1>12
        <3> QED BY <2>2, <3>3, <3>4, <3>5
    <2> QED BY <2>1, <2>2
<1> QED BY <1>4, <1>6, <1>13, <1>14, <1>15, <1>16, <1>17 DEF ChainInv, r, ps

(***************************************************************************)
(* exchange.                                                               *)
(***************************************************************************)

\* moving the head of a chain passes the CHECKs and keeps the invariant
LEMMA ExchangeStep ==
    ASSUME NEW ch, NEW ps, ChainInv(ch, ps), log \in Logs, invalid = {},
           NEW g \in Group, NEW b \in DOMAIN ch[g], b - 1 \in DOMAIN ch[g]
    PROVE  LET x == ExchangedCell(ch[g][b - 1], ch[g][b])
           IN  /\ ExchangeChecks(ch[g][b - 1], ch[g][b])
               /\ ChainInv([ch EXCEPT ![g][b] = x], ps)
<1> DEFINE prev == ch[g][b - 1]
           next == ch[g][b]
           x == ExchangedCell(prev, next)
           r == [ch EXCEPT ![g][b] = x]
<1>1. /\ CellsOK(ch) /\ RealVoted(ch, ps) /\ AppliedReal(ch, ps) /\ EstimateLow(ch, ps)
      /\ ps \in [Group -> Nat] /\ \A u \in Group : ps[u] <= Len(log[u])
    BY DEF ChainInv, PositionsOK
<1>2. /\ b \in Nat /\ b - 1 \in Nat
      /\ prev \in Cell /\ next \in Cell
      /\ prev.blockId = b - 1 /\ next.blockId = b /\ next.groupId = g
      /\ prev.real[g] /\ next.real[g]
      /\ prev.watermarks[g] = b - 1 /\ next.watermarks[g] = b
    BY <1>1 DEF CellsOK
<1>3. ASSUME NEW u \in Group
      PROVE  /\ Len(log[u]) \in Nat /\ ps[u] \in Nat /\ ps[u] <= Len(log[u])
             /\ DOMAIN log[u] = 1 .. Len(log[u]) /\ 1 .. ps[u] \subseteq DOMAIN log[u]
    BY <1>1, EntryTyped
<1>4. /\ x \in Cell /\ x.groupId = next.groupId /\ x.blockId = next.blockId
      /\ \A u \in Group : x.real[u] <=> next.real[u]
      /\ \A u \in Group : next.real[u] => x.watermarks[u] = next.watermarks[u]
      /\ \A u \in Group : ~ next.real[u] => x.watermarks[u] = prev.watermarks[u]
    BY <1>2 DEF ExchangedCell, Cell
<1>5. ASSUME NEW u \in Group \ {g}, next.real[u]
      PROVE  prev.watermarks[u] <= next.watermarks[u]
    <2>1. PICK p \in 1 .. ps[u] : /\ log[u][p].chain = g
                                  /\ log[u][p].block = b
                                  /\ log[u][p].mark = next.watermarks[u]
        BY <1>1, <1>5 DEF RealVoted
    <2>2. p \in DOMAIN log[u] /\ b - 1 \in 0 .. (log[u][p].block - 1) BY <2>1, <1>2, <1>3
    <2>3. PICK q \in 1 .. (p - 1) : /\ q \in DOMAIN log[u]
                                    /\ log[u][q].chain = g
                                    /\ log[u][q].block = b - 1
        BY <2>1, <2>2, LogPrevious
    <2>4. q \in 1 .. ps[u] /\ q <= p BY <1>3
    <2>5. prev.watermarks[u] = log[u][q].mark BY <2>3, <2>4, <1>1, SMTT(30) DEF AppliedReal
    <2>6. log[u][q].mark <= log[u][p].mark BY <2>1, <2>2, <2>3, <2>4, LogMonotone
    <2> QED BY <2>1, <2>5, <2>6
<1>6. ExchangeChecks(prev, next)
    <2>1. \A i \in Group : next.real[i] => prev.watermarks[i] <= next.watermarks[i]
        BY <1>2, <1>5
    <2> QED BY <1>2, <2>1 DEF ExchangeChecks
<1>7. /\ DOMAIN r = Group /\ \A h \in Group : DOMAIN r[h] = DOMAIN ch[h]
      /\ r[g][b] = x
      /\ \A h \in Group : \A k \in DOMAIN ch[h] : ~ (h = g /\ k = b) => r[h][k] = ch[h][k]
    BY <1>1 DEF CellsOK
<1> HIDE DEF r, x, prev, next
<1>8. CellsOK(r)
    <2>1. ASSUME NEW h \in Group, NEW k \in DOMAIN ch[h]
          PROVE  /\ r[h][k] \in Cell /\ r[h][k].groupId = h /\ r[h][k].blockId = k
                 /\ r[h][k].real[h] /\ r[h][k].watermarks[h] = k
        <3>1. CASE h = g /\ k = b BY <3>1, <1>2, <1>4, <1>7
        <3>2. CASE ~ (h = g /\ k = b) BY <3>2, <1>1, <1>7 DEF CellsOK
        <3> QED BY <3>1, <3>2
    <2>2. ASSUME NEW h \in Group, NEW k \in DOMAIN ch[h]
          PROVE  k \in Nat /\ 0 .. k \subseteq DOMAIN ch[h]
        BY <1>1 DEF CellsOK
    <2>3. \A h \in Group : 0 \in DOMAIN ch[h] BY <1>1 DEF CellsOK
    <2> QED BY <1>7, <2>1, <2>2, <2>3 DEF CellsOK
<1>9. RealVoted(r, ps)
    <2> SUFFICES ASSUME NEW h \in Group, NEW k \in DOMAIN ch[h], NEW u \in Group \ {h},
                        r[h][k].real[u]
                 PROVE  \E p \in 1 .. ps[u] : /\ log[u][p].chain = h
                                              /\ log[u][p].block = k
                                              /\ log[u][p].mark = r[h][k].watermarks[u]
        BY <1>7 DEF RealVoted
    <2>1. ch[h][k].real[u] /\ r[h][k].watermarks[u] = ch[h][k].watermarks[u]
        <3>1. CASE h = g /\ k = b BY <3>1, <1>4, <1>7 DEF next
        <3>2. CASE ~ (h = g /\ k = b) BY <3>2, <1>7
        <3> QED BY <3>1, <3>2
    <2> QED BY <2>1, <1>1 DEF RealVoted
<1>10. AppliedReal(r, ps)
    <2> SUFFICES ASSUME NEW u \in Group, NEW p \in 1 .. ps[u], log[u][p].chain # u
                 PROVE  /\ log[u][p].block \in DOMAIN r[log[u][p].chain]
                        /\ r[log[u][p].chain][log[u][p].block].real[u]
                        /\ r[log[u][p].chain][log[u][p].block].watermarks[u] = log[u][p].mark
        BY DEF AppliedReal
    <2> DEFINE h == log[u][p].chain
               k == log[u][p].block
    <2>1. h \in Group BY <1>3, EntryTyped
    <2>2. k \in DOMAIN ch[h] /\ ch[h][k].real[u] /\ ch[h][k].watermarks[u] = log[u][p].mark
        BY <1>1 DEF AppliedReal
    <2> HIDE DEF h, k
    <2>3. r[h][k].real[u] /\ r[h][k].watermarks[u] = ch[h][k].watermarks[u]
        <3>1. CASE h = g /\ k = b BY <3>1, <2>2, <1>4, <1>7 DEF next
        <3>2. CASE ~ (h = g /\ k = b) BY <3>2, <2>1, <2>2, <1>7
        <3> QED BY <3>1, <3>2
    <2> QED BY <2>1, <2>2, <2>3, <1>7 DEF h, k
<1>11. EstimateLow(r, ps)
    <2> SUFFICES ASSUME NEW h \in Group, NEW k \in DOMAIN ch[h], NEW u \in Group \ {h},
                        ~ r[h][k].real[u], NEW p \in (ps[u] + 1) .. Len(log[u]),
                        log[u][p].chain # u
                 PROVE  r[h][k].watermarks[u] <= log[u][p].mark
        BY <1>7 DEF EstimateLow
    <2>1. CASE ~ (h = g /\ k = b)
        <3>1. r[h][k] = ch[h][k] BY <2>1, <1>7
        <3> QED BY <3>1, <1>1 DEF EstimateLow
    <2>2. CASE h = g /\ k = b
        <3>1. r[h][k].watermarks[u] = prev.watermarks[u] BY <2>2, <1>4, <1>7
        <3>2. CASE ~ prev.real[u]
            BY <2>2, <3>1, <3>2, <1>1 DEF EstimateLow, prev
        <3>3. CASE prev.real[u]
            <4>1. PICK q \in 1 .. ps[u] : /\ log[u][q].chain = g
                                          /\ log[u][q].mark = prev.watermarks[u]
                BY <2>2, <3>3, <1>1, SMTT(30) DEF RealVoted, prev
            <4>2. q \in DOMAIN log[u] /\ p \in DOMAIN log[u] /\ q <= p
                <5>1. /\ Len(log[u]) \in Nat /\ ps[u] \in Nat /\ ps[u] <= Len(log[u])
                      /\ DOMAIN log[u] = 1 .. Len(log[u])
                    BY <1>3
                <5> QED BY <5>1
            <4>3. log[u][q].mark <= log[u][p].mark BY <2>2, <4>1, <4>2, LogMonotone
            <4> QED BY <3>1, <4>1, <4>3
        <3> QED BY <3>2, <3>3
    <2> QED BY <2>1, <2>2
<1>12. PositionsOK(ps) BY DEF ChainInv
<1> QED BY <1>6, <1>8, <1>9, <1>10, <1>11, <1>12 DEF ChainInv, r, x, prev, next

(***************************************************************************)
(* The votes of the whole logs, and what the cells know of them.           *)
(***************************************************************************)

\* the final marks of v never decrease along a chain
LEMMA VoteMonotone ==
    ASSUME log \in Logs, NEW v \in Group, NEW h \in Group, NEW k \in Nat, NEW n \in Nat, k <= n,
           NEW c \in VoteOn(log, v, <<h, n>>)
    PROVE  \E a \in VoteOn(log, v, <<h, k>>) : a <= c
<1>1. CASE v = h BY <1>1 DEF VoteOn
<1>2. CASE v # h
    <2>1. PICK p \in DOMAIN log[v] : log[v][p].chain = h /\ log[v][p].block = n /\ c = log[v][p].mark
        BY <1>2 DEF VoteOn
    <2>2. log[v][p].mark \in Int BY EntryTyped
    <2>3. CASE k = n BY <2>1, <2>2, <2>3
    <2>4. CASE k < n
        <3>1. PICK q \in 1 .. (p - 1) : /\ q \in DOMAIN log[v]
                                        /\ log[v][q].chain = h
                                        /\ log[v][q].block = k
            <4>1. k \in 0 .. (log[v][p].block - 1) BY <2>1, <2>4
            <4> QED BY <2>1, <4>1, LogPrevious
        <3>2. q <= p BY EntryTyped
        <3>3. log[v][q].mark <= log[v][p].mark BY <1>2, <2>1, <3>1, <3>2, LogMonotone
        <3>4. log[v][q].mark \in VoteOn(log, v, <<h, k>>) BY <1>2, <3>1 DEF VoteOn
        <3> QED BY <2>1, <3>3, <3>4
    <2> QED BY <2>3, <2>4
<1> QED BY <1>1, <1>2

\* there is one final mark of v for a block
LEMMA VoteUnique ==
    ASSUME log \in Logs, NEW v \in Group, NEW h \in Group, NEW k \in Nat,
           NEW a \in VoteOn(log, v, <<h, k>>), NEW c \in VoteOn(log, v, <<h, k>>)
    PROVE  a = c /\ a \in Int
<1>1. CASE v = h BY <1>1 DEF VoteOn
<1>2. CASE v # h
    <2>1. PICK p \in DOMAIN log[v] : log[v][p].chain = h /\ log[v][p].block = k /\ a = log[v][p].mark
        BY <1>2 DEF VoteOn
    <2>2. PICK q \in DOMAIN log[v] : log[v][q].chain = h /\ log[v][q].block = k /\ c = log[v][q].mark
        BY <1>2 DEF VoteOn
    <2>3. p = q BY <2>1, <2>2, LogOnce
    <2>4. log[v][p].mark \in Int BY EntryTyped
    <2> QED BY <2>1, <2>2, <2>3, <2>4
<1> QED BY <1>1, <1>2

\* a mark in a cell is at most the final mark, and equal to it when it is real
LEMMA CellBound ==
    ASSUME ChainInv(chains, pos), log \in Logs,
           NEW v \in Group, NEW h \in Group, NEW k \in DOMAIN chains[h],
           NEW a \in VoteOn(log, v, <<h, k>>)
    PROVE  /\ a \in Int
           /\ chains[h][k].watermarks[v] \in Int
           /\ chains[h][k].watermarks[v] <= a
           /\ chains[h][k].real[v] => a = chains[h][k].watermarks[v]
<1>1. /\ CellsOK(chains) /\ RealVoted(chains, pos) /\ AppliedReal(chains, pos)
      /\ EstimateLow(chains, pos)
      /\ pos \in [Group -> Nat] /\ \A u \in Group : pos[u] <= Len(log[u])
    BY DEF ChainInv, PositionsOK
<1>2. /\ k \in Nat /\ chains[h][k].watermarks[h] = k /\ chains[h][k].real[h]
      /\ chains[h][k] \in Cell
    BY <1>1 DEF CellsOK
<1>3. chains[h][k].watermarks[v] \in Int
    <2>1. chains[h][k].watermarks[v] \in Mark BY <1>2 DEF Cell
    <2> QED BY <2>1 DEF Mark, INVALID_WATERMARK
<1>4. a \in Int BY <1>2, VoteUnique
<1>5. CASE v = h BY <1>5, <1>2, <1>3 DEF VoteOn
<1>6. CASE v # h
    <2>1. PICK p \in DOMAIN log[v] : log[v][p].chain = h /\ log[v][p].block = k /\ a = log[v][p].mark
        BY <1>6 DEF VoteOn
    <2>2. /\ pos[v] \in Nat /\ Len(log[v]) \in Nat /\ pos[v] <= Len(log[v])
          /\ DOMAIN log[v] = 1 .. Len(log[v])
        BY <1>1, EntryTyped
    <2>3. CASE p <= pos[v]
        <3>1. p \in 1 .. pos[v] BY <2>2, <2>3
        <3>2. chains[h][k].watermarks[v] = a BY <3>1, <2>1, <1>1, <1>6 DEF AppliedReal
        <3> QED BY <3>2, <1>3, <1>4
    <2>4. CASE p > pos[v]
        <3>1. p \in (pos[v] + 1) .. Len(log[v]) BY <2>2, <2>4
        <3>2. ~ chains[h][k].real[v]
            <4> SUFFICES ASSUME chains[h][k].real[v] PROVE FALSE OBVIOUS
            <4>1. PICK q \in 1 .. pos[v] : log[v][q].chain = h /\ log[v][q].block = k
                BY <1>1, <1>6 DEF RealVoted
            <4>2. q \in DOMAIN log[v] /\ q <= pos[v] BY <2>2
            <4>3. q = p BY <2>1, <4>1, <4>2, LogOnce
            <4> QED BY <4>2, <4>3, <2>2, <2>4
        <3>3. chains[h][k].watermarks[v] <= a
            BY <3>1, <3>2, <2>1, <1>1, <1>6 DEF EstimateLow
        <3> QED BY <3>2, <3>3, <1>3, <1>4
    <2> QED BY <2>2, <2>3, <2>4
<1> QED BY <1>3, <1>4, <1>5, <1>6

(***************************************************************************)
(* A head that must be the smallest is before every undelivered block.     *)
(***************************************************************************)

LEMMA MinimumIsFirst ==
    ASSUME ChainInv(chains, pos), log \in Logs,
           NEW g \in Group, NEW h \in Group, NEW n \in Nat,
           heads[g] \in DOMAIN chains[g], heads[h] \in DOMAIN chains[h],
           mustLessThan(HeadCell(g), HeadCell(h)),
           heads[h] <= n, <<h, n>> # <<g, heads[g]>>
    PROVE  ~ FinalLess(log, <<h, n>>, <<g, heads[g]>>)
<1> DEFINE c == HeadCell(g)
           d == HeadCell(h)
           x == <<g, heads[g]>>
           y == <<h, n>>
           Tied(i) == VoteOn(log, i, y) \cap VoteOn(log, i, x) # {}
           CellTied(i) == /\ c.real[i] /\ d.real[i]
                          /\ c.watermarks[i] = d.watermarks[i]
<1>0. /\ heads[g] \in Nat /\ heads[h] \in Nat
      /\ c.groupId = g /\ c.blockId = heads[g] /\ d.groupId = h /\ d.blockId = heads[h]
      /\ \A i \in Group : i \in Int
    BY DEF ChainInv, CellsOK, HeadCell, Group
<1>1. ASSUME NEW i \in Group, NEW b \in VoteOn(log, i, x)
      PROVE  b \in Int /\ c.watermarks[i] \in Int /\ (c.real[i] => b = c.watermarks[i])
    BY CellBound DEF HeadCell
<1>2. ASSUME NEW i \in Group, NEW a \in VoteOn(log, i, y)
      PROVE  a \in Int /\ d.watermarks[i] \in Int /\ d.watermarks[i] <= a
    <2>1. PICK e \in VoteOn(log, i, <<h, heads[h]>>) : e <= a BY <1>0, VoteMonotone
    <2>2. e \in Int /\ d.watermarks[i] \in Int /\ d.watermarks[i] <= e
        BY CellBound DEF HeadCell
    <2>3. a \in Int BY VoteUnique
    <2> QED BY <2>1, <2>2, <2>3
<1>3. ASSUME NEW i \in Group, CellTied(i), NEW a \in VoteOn(log, i, y), NEW b \in VoteOn(log, i, x)
      PROVE  b <= a
    BY <1>1, <1>2, <1>3
<1>4. ASSUME NEW i \in Group, c.real[i], c.watermarks[i] < d.watermarks[i]
      PROVE  /\ ~ Tied(i)
             /\ \A a \in VoteOn(log, i, y) : \A b \in VoteOn(log, i, x) : ~ a < b
    <2>1. ASSUME NEW a \in VoteOn(log, i, y), NEW b \in VoteOn(log, i, x) PROVE b < a
        BY <1>1, <1>2, <1>4
    <2>2. \A a \in VoteOn(log, i, y) : a \in Int BY <1>2
    <2>3. \A b \in VoteOn(log, i, x) : b \in Int BY <1>1
    <2> QED BY <2>1, <2>2, <2>3
<1> SUFFICES ASSUME FinalLess(log, y, x) PROVE FALSE
    OBVIOUS
<1>5. \/ \E i \in Group : /\ \A j \in 0 .. (i - 1) : Tied(j)
                          /\ \E a \in VoteOn(log, i, y) : \E b \in VoteOn(log, i, x) : a < b
      \/ /\ \A i \in Group : Tied(i)
         /\ n < heads[g] \/ (n = heads[g] /\ h < g)
    BY DEF FinalLess
<1>6. \/ g = h
      \/ \E i \in Group : /\ c.real[i] /\ c.watermarks[i] < d.watermarks[i]
                          /\ \A j \in 0 .. (i - 1) : CellTied(j)
      \/ /\ \A i \in Group : CellTied(i)
         /\ heads[g] < heads[h] \/ (heads[g] = heads[h] /\ g < h)
    BY <1>0 DEF mustLessThan
<1> HIDE DEF c, d
<1>7. CASE g = h
    <2>1. heads[g] < n BY <1>0, <1>7
    <2>2. ASSUME NEW i \in Group, NEW a \in VoteOn(log, i, y), NEW b \in VoteOn(log, i, x)
          PROVE  ~ a < b
        <3>1. PICK e \in VoteOn(log, i, x) : e <= a BY <1>0, <1>7, VoteMonotone
        <3>2. e = b /\ e \in Int BY <1>0, VoteUnique
        <3>3. a \in Int BY <1>2
        <3> QED BY <3>1, <3>2, <3>3
    <2> QED BY <1>0, <1>5, <1>7, <2>1, <2>2
<1>8. CASE \E i \in Group : /\ c.real[i] /\ c.watermarks[i] < d.watermarks[i]
                            /\ \A j \in 0 .. (i - 1) : CellTied(j)
    <2>1. PICK m \in Group : /\ c.real[m] /\ c.watermarks[m] < d.watermarks[m]
                             /\ \A j \in 0 .. (m - 1) : CellTied(j)
        BY <1>8
    <2>2. ~ Tied(m) /\ \A a \in VoteOn(log, m, y) : \A b \in VoteOn(log, m, x) : ~ a < b
        BY <1>4, <2>1
    <2>3. PICK i \in Group : /\ \A j \in 0 .. (i - 1) : Tied(j)
                             /\ \E a \in VoteOn(log, i, y) : \E b \in VoteOn(log, i, x) : a < b
        BY <1>5, <2>2
    <2>4. PICK a \in VoteOn(log, i, y), b \in VoteOn(log, i, x) : a < b BY <2>3
    <2>5. a \in Int /\ b \in Int BY <1>1, <1>2
    <2> HIDE DEF Tied, CellTied
    <2>6. i < m
        <3>1. i # m BY <2>2, <2>4
        <3>2. ~ m < i
            <4>1. m \in 0 .. (m) /\ (m < i => m \in 0 .. (i - 1)) BY GroupCountAssumption DEF Group
            <4> QED BY <4>1, <2>2, <2>3
        <3> QED BY <3>1, <3>2, <1>0
    <2>7. CellTied(i)
        <3>1. i \in 0 .. (m - 1) BY <2>6, GroupCountAssumption DEF Group
        <3> QED BY <3>1, <2>1
    <2>8. b <= a BY <1>3, <2>7
    <2> QED BY <2>4, <2>5, <2>8
<1>9. CASE /\ \A i \in Group : CellTied(i)
           /\ heads[g] < heads[h] \/ (heads[g] = heads[h] /\ g < h)
    <2>1. ASSUME NEW i \in Group, NEW a \in VoteOn(log, i, y), NEW b \in VoteOn(log, i, x)
          PROVE  ~ a < b
        <3>1. CellTied(i) BY <1>9
        <3>2. b <= a BY <1>3, <3>1
        <3>3. a \in Int /\ b \in Int BY <1>1, <1>2
        <3> QED BY <3>2, <3>3
    <2>2. n < heads[g] \/ (n = heads[g] /\ h < g) BY <1>5, <2>1
    <2> QED BY <2>2, <1>0, <1>9
<1> QED BY <1>6, <1>7, <1>8, <1>9

(***************************************************************************)
(* The invariant is inductive.                                             *)
(***************************************************************************)

LEMMA InitInv == Init => IInv
<1> SUFFICES ASSUME Init PROVE IInv OBVIOUS
<1>1. log \in Logs /\ log \in [Group -> Seq(Entry)] BY LogTyped DEF Init
<1>2. /\ DOMAIN chains = Group /\ \A g \in Group : DOMAIN chains[g] = {0}
      /\ \A g \in Group : chains[g][0] = NewCell(g, 0)
    BY DEF Init
<1>3. CellsOK(chains)
    <2>1. \A g \in Group : /\ NewCell(g, 0) \in Cell /\ NewCell(g, 0).groupId = g
                           /\ NewCell(g, 0).blockId = 0 /\ NewCell(g, 0).real[g]
                           /\ NewCell(g, 0).watermarks[g] = 0
        BY NewCellFacts
    <2> QED BY <1>2, <2>1 DEF CellsOK
<1>4. PositionsOK(pos)
    <2>1. pos \in [Group -> Nat] /\ \A v \in Group : pos[v] = 0 BY DEF Init
    <2>2. \A v \in Group : Len(log[v]) \in Nat BY <1>1, EntryTyped
    <2> QED BY <2>1, <2>2 DEF PositionsOK
<1>5. RealVoted(chains, pos)
    <2>1. \A g \in Group : \A v \in Group \ {g} : ~ NewCell(g, 0).real[v] BY NewCellFacts
    <2> QED BY <1>2, <2>1 DEF RealVoted
<1>6. AppliedReal(chains, pos)
    <2>1. \A v \in Group : 1 .. pos[v] = {} BY DEF Init
    <2> QED BY <2>1 DEF AppliedReal
<1>7. EstimateLow(chains, pos)
    <2>1. \A g \in Group : \A v \in Group \ {g} : NewCell(g, 0).watermarks[v] = -1
        BY NewCellFacts
    <2>2. ASSUME NEW v \in Group, NEW p \in (pos[v] + 1) .. Len(log[v])
          PROVE  -1 <= log[v][p].mark
        <3>1. pos[v] = 0 BY DEF Init
        <3>2. p \in DOMAIN log[v] BY <1>1, <3>1, EntryTyped
        <3> QED BY <1>1, <3>2, EntryTyped
    <2> QED BY <1>2, <2>1, <2>2 DEF EstimateLow
<1>8. DeliveredBelowHeads BY DEF Init, DeliveredBelowHeads
<1>9. TypeOK
    <2>1. height \in [Group -> Mark] /\ delivered \in Seq(Group \X Nat) /\ heads \in [Group -> Nat]
        BY DEF Init, Mark, INVALID_WATERMARK
    <2>2. \A g \in Group : heads[g] = 0 BY DEF Init
    <2>3. popping \in BOOLEAN /\ aborted \in BOOLEAN /\ invalid \subseteq Group BY DEF Init
    <2> QED BY <1>1, <1>3, <1>4, <2>1, <2>2, <2>3 DEF TypeOK, CellsOK, PositionsOK
<1> QED BY <1>1, <1>3, <1>4, <1>5, <1>6, <1>7, <1>8, <1>9 DEF IInv, ChainInv, Init

\* the type invariant follows from the chain invariant and a few types
LEMMA TypeFromChains ==
    ASSUME log \in Logs, NEW ch, NEW ps, ChainInv(ch, ps)
    PROVE  /\ log \in [Group -> Seq(Entry)]
           /\ ps \in [Group -> Nat]
           /\ \A v \in Group : ps[v] <= Len(log[v])
           /\ DOMAIN ch = Group
           /\ \A g \in Group : \A k \in DOMAIN ch[g] : /\ k \in Nat
                                                      /\ 0 .. k \subseteq DOMAIN ch[g]
                                                      /\ ch[g][k] \in Cell
BY LogTyped DEF ChainInv, CellsOK, PositionsOK

\* an entry of a group for its own block only moves the position
LEMMA OwnStep ==
    ASSUME NEW ch, ChainInv(ch, pos), log \in Logs, NEW v \in Group,
           pos[v] < Len(log[v]), log[v][pos[v] + 1].chain = v
    PROVE  ChainInv(ch, [pos EXCEPT ![v] = @ + 1])
<1> DEFINE ps == [pos EXCEPT ![v] = @ + 1]
<1>1. /\ pos \in [Group -> Nat] /\ ps \in [Group -> Nat]
      /\ ps[v] = pos[v] + 1 /\ \A u \in Group : u # v => ps[u] = pos[u]
      /\ \A u \in Group : pos[u] <= Len(log[u])
    BY DEF ChainInv, PositionsOK
<1>2. \A u \in Group : Len(log[u]) \in Nat BY EntryTyped
<1>3. PositionsOK(ps) BY <1>1, <1>2 DEF PositionsOK
<1>4. \A u \in Group : /\ 1 .. pos[u] \subseteq 1 .. ps[u]
                       /\ (ps[u] + 1) .. Len(log[u]) \subseteq (pos[u] + 1) .. Len(log[u])
                       /\ \A p \in 1 .. ps[u] : p \in 1 .. pos[u] \/ (u = v /\ p = pos[v] + 1)
    <2> SUFFICES ASSUME NEW u \in Group
                 PROVE  /\ 1 .. pos[u] \subseteq 1 .. ps[u]
                        /\ (ps[u] + 1) .. Len(log[u]) \subseteq (pos[u] + 1) .. Len(log[u])
                        /\ \A p \in 1 .. ps[u] : p \in 1 .. pos[u] \/ (u = v /\ p = pos[v] + 1)
        OBVIOUS
    <2>1. pos[u] \in Nat /\ ps[u] \in Nat /\ Len(log[u]) \in Nat BY <1>1, <1>2
    <2>2. CASE u = v BY <2>1, <2>2, <1>1
    <2>3. CASE u # v BY <2>1, <2>3, <1>1
    <2> QED BY <2>2, <2>3
<1> HIDE DEF ps
<1>5. RealVoted(ch, ps) BY <1>4 DEF ChainInv, RealVoted
<1>6. AppliedReal(ch, ps) BY <1>4 DEF ChainInv, AppliedReal
<1>7. EstimateLow(ch, ps) BY <1>4 DEF ChainInv, EstimateLow
<1> QED BY <1>3, <1>5, <1>6, <1>7 DEF ChainInv, ps

\* the invariant of the next state, where the logs are the same
LEMMA ChainInvPrime ==
    ASSUME log' = log, ChainInv(chains', pos')
    PROVE  ChainInv(chains, pos)'
<1>1. CellsOK(chains)' BY DEF ChainInv, CellsOK
<1>2. PositionsOK(pos)' BY DEF ChainInv, PositionsOK
<1>3. RealVoted(chains, pos)'
    <2>1. RealVoted(chains', pos') BY DEF ChainInv
    <2> QED BY <2>1 DEF RealVoted
<1>4. AppliedReal(chains, pos)'
    <2>1. AppliedReal(chains', pos') BY DEF ChainInv
    <2> QED BY <2>1 DEF AppliedReal
<1>5. EstimateLow(chains, pos)'
    <2>1. EstimateLow(chains', pos') BY DEF ChainInv
    <2> QED BY <2>1 DEF EstimateLow
<1> QED BY <1>1, <1>2, <1>3, <1>4, <1>5 DEF ChainInv

\* a vote changes neither the heads nor what is delivered
LEMMA ApplyInv ==
    ASSUME GroupCount > 1, IInv, NEW v \in Group, Apply(v)
    PROVE  IInv' /\ UNCHANGED <<log, heads, delivered>>
<1> DEFINE e == log[v][pos[v] + 1]
           ps == [pos EXCEPT ![v] = @ + 1]
<1>1. /\ log \in Logs /\ ChainInv(chains, pos) /\ pos' = ps
      /\ log' = log /\ invalid' = {} /\ heads' = heads /\ delivered' = delivered
      /\ pushDecisionOwn(e.chain, v) \/ pushDecisionVote(e.chain, e.block, v, e.mark)
      /\ pos[v] < Len(log[v])
    <2>1. /\ pos' = ps /\ log' = log /\ invalid' = invalid /\ pos[v] < Len(log[v])
          /\ pushDecision(e.chain, e.block, v, e.mark)
        BY DEF Apply
    <2>2. ~ pushDecisionSingle(e.chain, e.block)
        BY GroupCountAssumption DEF pushDecisionSingle
    <2>3. pushDecisionOwn(e.chain, v) \/ pushDecisionVote(e.chain, e.block, v, e.mark)
        BY <2>1, <2>2 DEF pushDecision
    <2>4. heads' = heads /\ delivered' = delivered
        BY <2>3 DEF pushDecisionOwn, pushDecisionVote
    <2> QED BY <2>1, <2>3, <2>4 DEF IInv
<1>2. /\ pos[v] + 1 \in DOMAIN log[v] /\ pos[v] \in Nat
      /\ e.chain \in Group /\ e.block \in Nat /\ e.mark \in Mark
      /\ e = [chain |-> e.chain, block |-> e.block, mark |-> e.mark]
    <2>1. /\ pos[v] \in Nat /\ Len(log[v]) \in Nat /\ DOMAIN log[v] = 1 .. Len(log[v])
          /\ log[v] \in Seq(Entry)
        BY <1>1, EntryTyped, LogTyped DEF ChainInv, PositionsOK
    <2>2. pos[v] + 1 \in DOMAIN log[v] BY <2>1, <1>1
    <2>3. e \in Entry BY <2>1, <2>2
    <2> QED BY <2>1, <2>2, <2>3 DEF Entry
<1>3. DeliveredBelowHeads' BY <1>1 DEF IInv, DeliveredBelowHeads
<1>4. SUFFICES /\ ChainInv(chains', pos') /\ ~ aborted'
               /\ height' \in [Group -> Mark] /\ popping' \in BOOLEAN
               /\ \A h \in Group : heads[h] \in DOMAIN chains'[h]
    <2>1. ASSUME ChainInv(chains', pos') PROVE ChainInv(chains, pos)'
        BY <1>1, <2>1, ChainInvPrime
    <2>2. /\ heads \in [Group -> Nat] /\ delivered \in Seq(Group \X Nat)
        BY DEF IInv, TypeOK
    <2>3. aborted' = FALSE => aborted' \in BOOLEAN OBVIOUS
    <2>4. aborted' \in BOOLEAN
        BY <1>1 DEF pushDecisionOwn, pushDecisionVote, IInv, TypeOK
    <2>5. TypeOK' BY <1>1, <1>4, <2>2, <2>4, TypeFromChains DEF TypeOK
    <2> QED BY <1>1, <1>3, <1>4, <2>1, <2>5 DEF IInv
<1>5. CASE pushDecisionOwn(e.chain, v)
    <2>1. /\ chains' = chains /\ height' = height /\ popping' = popping /\ ~ aborted'
          /\ e.chain = v
        BY <1>5 DEF pushDecisionOwn, IInv
    <2>2. ChainInv(chains, ps) BY <1>1, <2>1, OwnStep
    <2> QED BY <1>1, <2>1, <2>2 DEF IInv, TypeOK
<1>6. CASE pushDecisionVote(e.chain, e.block, v, e.mark)
    <2> DEFINE g == e.chain
               b == e.block
               w == e.mark
               ch == createBlockIfNotExist(chains, g, b)
    <2>1. g # v BY <1>6 DEF pushDecisionVote
    <2>2. b > 0 => b - 1 \in DOMAIN chains[g]
        <3> SUFFICES ASSUME b > 0 PROVE b - 1 \in DOMAIN chains[g] OBVIOUS
        <3> DEFINE p == pos[v] + 1
        <3>1. p \in DOMAIN log[v] /\ b - 1 \in 0 .. (log[v][p].block - 1) BY <1>2
        <3>2. \E q \in 1 .. (p - 1) : /\ q \in DOMAIN log[v]
                                      /\ log[v][q].chain = log[v][p].chain
                                      /\ log[v][q].block = b - 1
            <4> HIDE DEF p, b
            <4> QED BY <1>1, <3>1, LogPrevious
        <3>3. PICK q \in 1 .. pos[v] : log[v][q].chain = g /\ log[v][q].block = b - 1
            BY <1>2, <3>2
        <3> QED BY <1>1, <2>1, <3>3 DEF ChainInv, AppliedReal
    <2>3. /\ ChainInv(ch, pos) /\ b \in DOMAIN ch[g]
          /\ \A h \in Group : \A k \in DOMAIN chains[h] : k \in DOMAIN ch[h]
        BY <1>1, <1>2, <2>2, CreateFacts
    <2>4. \A h \in Group : heads[h] \in DOMAIN ch[h] BY <2>3 DEF IInv, TypeOK
    <2> HIDE DEF ch
    <2>5. /\ ~ ch[g][b].real[v] /\ VoteChecks(ch, g, b, v, w)
          /\ ChainInv(RecordVote(ch, g, b, v, w), ps)
        BY <1>1, <1>2, <2>1, <2>3, <2>4, VoteStep
    <2>6. /\ chains' = RecordVote(ch, g, b, v, w) /\ popping' = TRUE
          /\ aborted' = ~ VoteChecks(ch, g, b, v, w)
          /\ height' = [h \in Group |->
                CASE h = v -> IF height[h] < w THEN w ELSE height[h]
                  [] h = g -> IF height[h] < b THEN b ELSE height[h]
                  [] OTHER -> height[h]]
        BY <1>6, <2>5 DEF pushDecisionVote, ch
    <2>7. height' \in [Group -> Mark]
        <3>1. height \in [Group -> Mark] /\ b \in Mark BY <1>2 DEF IInv, TypeOK, Mark
        <3> QED BY <2>6, <3>1, <1>2
    <2>8. \A h \in Group : heads[h] \in DOMAIN chains'[h]
        BY <2>4, <2>6 DEF RecordVote
    <2> QED BY <1>1, <2>5, <2>6, <2>7, <2>8
<1> QED BY <1>1, <1>5, <1>6

\* an entry seen again changes nothing
LEMMA DuplicateInv ==
    ASSUME GroupCount > 1, IInv, NEW v \in Group, Duplicate(v)
    PROVE  IInv' /\ UNCHANGED <<log, heads, delivered>>
<1>1. PICK p \in 1 .. pos[v] :
        \/ pushDecisionOwn(log[v][p].chain, v)
        \/ pushDecisionVote(log[v][p].chain, log[v][p].block, v, log[v][p].mark)
    BY DEF Duplicate, pushDecision, pushDecisionSingle
<1>2. /\ log \in Logs /\ ChainInv(chains, pos) /\ pos' = pos
      /\ log' = log /\ invalid' = {} /\ heads' = heads /\ delivered' = delivered
    BY <1>1 DEF IInv, Duplicate, pushDecisionOwn, pushDecisionVote
<1> DEFINE g == log[v][p].chain
           b == log[v][p].block
           ch == createBlockIfNotExist(chains, g, b)
<1>3. SUFFICES /\ ChainInv(chains', pos) /\ ~ aborted'
               /\ height' = height /\ popping' = popping /\ aborted' = aborted
               /\ \A h \in Group : heads[h] \in DOMAIN chains'[h]
    <2>1. ASSUME ChainInv(chains', pos) PROVE ChainInv(chains, pos)'
        BY <1>2, <2>1, ChainInvPrime
    <2>2. /\ heads \in [Group -> Nat] /\ delivered \in Seq(Group \X Nat)
          /\ height \in [Group -> Mark] /\ popping \in BOOLEAN /\ aborted \in BOOLEAN
        BY DEF IInv, TypeOK
    <2>3. TypeOK' BY <1>2, <1>3, <2>2, TypeFromChains DEF TypeOK
    <2>4. DeliveredBelowHeads' BY <1>2 DEF IInv, DeliveredBelowHeads
    <2> QED BY <1>2, <1>3, <2>1, <2>3, <2>4 DEF IInv
<1>4. CASE pushDecisionOwn(g, v) BY <1>2, <1>4 DEF pushDecisionOwn, IInv, TypeOK
<1>5. CASE pushDecisionVote(g, b, v, log[v][p].mark)
    <2>1. g # v BY <1>5 DEF pushDecisionVote
    <2>2. b \in DOMAIN chains[g] /\ chains[g][b].real[v]
        BY <1>2, <2>1 DEF ChainInv, AppliedReal
    <2>3. g \in Group /\ b \in Nat
        <3>1. p \in DOMAIN log[v] BY <1>2, EntryTyped DEF ChainInv, PositionsOK
        <3> QED BY <1>2, <3>1, EntryTyped
    <2>4. b > 0 => b - 1 \in DOMAIN chains[g]
        BY <1>2, <2>2, <2>3 DEF ChainInv, CellsOK
    <2> HIDE DEF g, b
    <2>5. /\ ChainInv(ch, pos)
          /\ \A h \in Group : \A k \in DOMAIN chains[h] : k \in DOMAIN ch[h] /\ ch[h][k] = chains[h][k]
        BY <1>2, <2>3, <2>4, CreateFacts
    <2> HIDE DEF ch
    <2>6. ch[g][b].real[v] BY <2>2, <2>3, <2>5
    <2>7. chains' = ch /\ UNCHANGED <<height, popping, aborted>>
        BY <1>5, <2>6 DEF pushDecisionVote, ch
    <2>8. \A h \in Group : heads[h] \in DOMAIN ch[h] BY <2>5 DEF IInv, TypeOK
    <2> QED BY <2>5, <2>7, <2>8 DEF IInv
<1> QED BY <1>1, <1>4, <1>5

\* delivering the minimum moves the head of its chain by one, and what is
\* delivered is before everything undelivered
LEMMA PopInv ==
    ASSUME GroupCount > 1, IInv, NEW g \in Group, Pop(g)
    PROVE  /\ IInv'
           /\ log' = log
           /\ delivered' = Append(delivered, <<g, heads[g]>>)
           /\ \A y \in VotedBlock(log) :
                (\A j \in 1 .. (Len(delivered) + 1) : delivered'[j] # y)
                    => ~ FinalLess(log, y, <<g, heads[g]>>)
<1> DEFINE prev == HeadCell(g)
           b == prev.blockId + 1
           ch == createBlockIfNotExist(chains, g, b)
           next == ch[g][b]
<1>1. /\ delivered' = Append(delivered, <<g, prev.blockId>>)
      /\ aborted' = ~ ExchangeChecks(prev, next)
      /\ chains' = [ch EXCEPT ![g][b] = ExchangedCell(prev, next)]
      /\ heads' = [heads EXCEPT ![g] = b]
      /\ log' = log /\ pos' = pos /\ height' = height /\ invalid' = invalid /\ popping' = popping
      /\ g \in globalMinimum
    BY DEF Pop
<1>2. /\ log \in Logs /\ ChainInv(chains, pos) /\ invalid = {}
      /\ heads \in [Group -> Nat] /\ \A h \in Group : heads[h] \in DOMAIN chains[h]
      /\ delivered \in Seq(Group \X Nat)
      /\ height \in [Group -> Mark] /\ popping \in BOOLEAN
    BY DEF IInv, TypeOK
<1>3. prev = chains[g][heads[g]] /\ prev.blockId = heads[g] /\ b = heads[g] + 1 /\ b \in Nat
    BY <1>2 DEF HeadCell, ChainInv, CellsOK
<1>4. b - 1 = heads[g] /\ (b > 0 => b - 1 \in DOMAIN chains[g]) BY <1>2, <1>3
<1> HIDE DEF prev, b
<1>5. /\ ChainInv(ch, pos) /\ b \in DOMAIN ch[g]
      /\ \A h \in Group : \A k \in DOMAIN chains[h] : k \in DOMAIN ch[h] /\ ch[h][k] = chains[h][k]
    BY <1>2, <1>3, <1>4, CreateFacts
<1>6. b - 1 \in DOMAIN ch[g] /\ ch[g][b - 1] = prev BY <1>2, <1>3, <1>4, <1>5
<1> HIDE DEF ch
<1>7. /\ ExchangeChecks(prev, next)
      /\ ChainInv([ch EXCEPT ![g][b] = ExchangedCell(prev, next)], pos)
    <2>1. /\ ExchangeChecks(ch[g][b - 1], ch[g][b])
          /\ ChainInv([ch EXCEPT ![g][b] = ExchangedCell(ch[g][b - 1], ch[g][b])], pos)
        BY <1>2, <1>5, <1>6, ExchangeStep
    <2> QED BY <1>6, <2>1
<1>8. ~ aborted' /\ aborted' \in BOOLEAN BY <1>1, <1>7
<1>9. ChainInv(chains', pos') BY <1>1, <1>7
<1>10. \A h \in Group : DOMAIN chains'[h] = DOMAIN ch[h]
    BY <1>1, <1>5 DEF ChainInv, CellsOK
<1>11. /\ heads' \in [Group -> Nat] /\ heads'[g] = heads[g] + 1
       /\ \A h \in Group : h # g => heads'[h] = heads[h]
    BY <1>1, <1>2, <1>3
<1>12. \A h \in Group : heads'[h] \in DOMAIN chains'[h]
    <2>1. heads'[g] \in DOMAIN ch[g] BY <1>3, <1>5, <1>11
    <2>2. \A h \in Group : h # g => heads'[h] \in DOMAIN ch[h] BY <1>2, <1>5, <1>11
    <2> QED BY <1>10, <2>1, <2>2
<1>13. delivered' = Append(delivered, <<g, heads[g]>>) BY <1>1, <1>3
<1>14. /\ delivered' \in Seq(Group \X Nat)
       /\ Len(delivered) \in Nat /\ DOMAIN delivered = 1 .. Len(delivered)
       /\ DOMAIN delivered' = 1 .. (Len(delivered) + 1)
       /\ delivered'[Len(delivered) + 1] = <<g, heads[g]>>
       /\ \A i \in DOMAIN delivered : delivered'[i] = delivered[i] /\ delivered[i] \in Group \X Nat
    <2>1. <<g, heads[g]>> \in Group \X Nat BY <1>2
    <2> QED BY <1>2, <1>13, <2>1
<1>15. DeliveredBelowHeads'
    <2>1. ASSUME NEW i \in DOMAIN delivered'
          PROVE  delivered'[i][2] < heads'[delivered'[i][1]]
        <3>1. CASE i = Len(delivered) + 1 BY <3>1, <1>2, <1>11, <1>14
        <3>2. CASE i \in DOMAIN delivered
            <4>1. delivered[i][2] < heads[delivered[i][1]] BY <3>2 DEF IInv, DeliveredBelowHeads
            <4>2. delivered'[i] = delivered[i] /\ delivered[i][1] \in Group /\ delivered[i][2] \in Nat
                BY <3>2, <1>14
            <4>3. ASSUME NEW h \in Group PROVE heads[h] <= heads'[h]
                <5>1. heads[h] \in Nat BY <1>2
                <5>2. CASE h = g BY <5>1, <5>2, <1>11
                <5>3. CASE h # g BY <5>1, <5>3, <1>11
                <5> QED BY <5>2, <5>3
            <4>4. heads[delivered[i][1]] \in Nat /\ heads'[delivered[i][1]] \in Nat
                BY <4>2, <1>2, <1>11
            <4> QED BY <4>1, <4>2, <4>3, <4>4
        <3> QED BY <3>1, <3>2, <1>14
    <2>2. ASSUME NEW h \in Group, NEW k \in 0 .. (heads'[h] - 1)
          PROVE  \E i \in DOMAIN delivered' : delivered'[i] = <<h, k>>
        <3>1. CASE h = g /\ k = heads[g] BY <3>1, <1>14
        <3>2. CASE ~ (h = g /\ k = heads[g])
            <4>1. k \in 0 .. (heads[h] - 1) BY <3>2, <1>2, <1>11
            <4>2. \E i \in DOMAIN delivered : delivered[i] = <<h, k>>
                BY <4>1 DEF IInv, DeliveredBelowHeads
            <4> QED BY <4>2, <1>14, SMTT(30)
        <3> QED BY <3>1, <3>2
    <2> QED BY <2>1, <2>2 DEF DeliveredBelowHeads
<1>16. TypeOK'
    <2>1. /\ log \in [Group -> Seq(Entry)] /\ pos' \in [Group -> Nat]
          /\ \A v \in Group : pos'[v] <= Len(log[v])
          /\ DOMAIN chains' = Group
          /\ \A h \in Group : \A k \in DOMAIN chains'[h] : /\ k \in Nat
                                                          /\ 0 .. k \subseteq DOMAIN chains'[h]
                                                          /\ chains'[h][k] \in Cell
        BY <1>2, <1>9, TypeFromChains
    <2>2. height' \in [Group -> Mark] /\ popping' \in BOOLEAN /\ invalid' \subseteq Group
        BY <1>1, <1>2
    <2> QED BY <1>1, <1>8, <1>11, <1>12, <1>14, <2>1, <2>2 DEF TypeOK
<1>17. ChainInv(chains, pos)' BY <1>1, <1>9, ChainInvPrime
<1>18. IInv' BY <1>1, <1>2, <1>8, <1>15, <1>16, <1>17 DEF IInv
<1>19. ASSUME NEW y \in VotedBlock(log),
              \A j \in 1 .. (Len(delivered) + 1) : delivered'[j] # y
       PROVE  ~ FinalLess(log, y, <<g, heads[g]>>)
    <2>1. PICK h \in Group, n \in Nat : y = <<h, n>>
        <3>1. PICK v \in Group : y \in {<<log[v][p].chain, log[v][p].block>> : p \in DOMAIN log[v]}
            BY DEF VotedBlock
        <3>2. PICK p \in DOMAIN log[v] : y = <<log[v][p].chain, log[v][p].block>> BY <3>1
        <3>3. log[v][p].chain \in Group /\ log[v][p].block \in Nat BY <1>2, EntryTyped
        <3> QED BY <3>2, <3>3
    <2>2. y # <<g, heads[g]>> BY <1>14, <1>19
    <2>3. heads[h] <= n
        <3> SUFFICES ASSUME n < heads[h] PROVE FALSE BY <1>2
        <3>1. n \in 0 .. (heads[h] - 1) BY <1>2
        <3>2. PICK i \in DOMAIN delivered : delivered[i] = <<h, n>>
            BY <3>1 DEF IInv, DeliveredBelowHeads
        <3>3. i \in 1 .. (Len(delivered) + 1) /\ delivered'[i] = y BY <2>1, <3>2, <1>14
        <3> QED BY <1>19, <3>3
    <2>4. mustLessThan(HeadCell(g), HeadCell(h)) BY <1>1 DEF globalMinimum
    <2> QED BY <1>2, <2>1, <2>2, <2>3, <2>4, MinimumIsFirst
<1> QED BY <1>1, <1>13, <1>18, <1>19

\* IInv is preserved by every step, and a step keeps OrderSafe
LEMMA StepInv ==
    ASSUME GroupCount > 1, IInv, [Next]_vars
    PROVE  IInv' /\ (OrderSafe => OrderSafe')
<1>1. ASSUME UNCHANGED <<log, delivered>> PROVE OrderSafe => OrderSafe'
    BY <1>1 DEF OrderSafe
<1>2. CASE UNCHANGED vars
    <2>1. IInv'
        BY <1>2, SMTT(30) DEF vars, IInv, TypeOK, ChainInv, CellsOK, PositionsOK, RealVoted, AppliedReal,
                    EstimateLow, DeliveredBelowHeads
    <2> QED BY <1>1, <1>2, <2>1 DEF vars
<1>3. ASSUME NEW v \in Group, Apply(v) PROVE IInv' /\ (OrderSafe => OrderSafe')
    BY <1>1, <1>3, ApplyInv
<1>4. ASSUME NEW v \in Group, Duplicate(v) PROVE IInv' /\ (OrderSafe => OrderSafe')
    BY <1>1, <1>4, DuplicateInv
<1>5. CASE PopDone
    <2>1. IInv'
        <3>1. TypeOK' BY <1>5 DEF PopDone, IInv, TypeOK
        <3>2. log' = log /\ ChainInv(chains', pos') BY <1>5 DEF PopDone, IInv
        <3>3. ChainInv(chains, pos)' BY <3>2, ChainInvPrime
        <3>4. DeliveredBelowHeads' BY <1>5 DEF PopDone, IInv, DeliveredBelowHeads
        <3> QED BY <1>5, <3>1, <3>3, <3>4 DEF PopDone, IInv
    <2> QED BY <1>1, <1>5, <2>1 DEF PopDone
<1>6. ASSUME NEW g \in Group, Pop(g) PROVE IInv' /\ (OrderSafe => OrderSafe')
    <2>1. /\ IInv' /\ log' = log
          /\ delivered' = Append(delivered, <<g, heads[g]>>)
          /\ \A y \in VotedBlock(log) :
                (\A j \in 1 .. (Len(delivered) + 1) : delivered'[j] # y)
                    => ~ FinalLess(log, y, <<g, heads[g]>>)
        BY <1>6, PopInv
    <2>2. ASSUME OrderSafe PROVE OrderSafe'
        <3>3. /\ Len(delivered) \in Nat /\ DOMAIN delivered = 1 .. Len(delivered)
              /\ DOMAIN delivered' = 1 .. (Len(delivered) + 1)
              /\ delivered'[Len(delivered) + 1] = <<g, heads[g]>>
              /\ \A i \in DOMAIN delivered : delivered'[i] = delivered[i]
            <4>1. delivered \in Seq(Group \X Nat) /\ <<g, heads[g]>> \in Group \X Nat
                BY DEF IInv, TypeOK
            <4> QED BY <4>1, <2>1
        <3> SUFFICES ASSUME NEW i \in DOMAIN delivered', NEW y \in VotedBlock(log),
                            \A j \in 1 .. i : delivered'[j] # y
                     PROVE  ~ FinalLess(log, y, delivered'[i])
            BY <2>1 DEF OrderSafe
        <3>4. CASE i = Len(delivered) + 1 BY <3>4, <3>3, <2>1
        <3>5. CASE i \in DOMAIN delivered
            <4>1. \A j \in 1 .. i : delivered[j] # y BY <3>3, <3>5
            <4> QED BY <4>1, <2>2, <3>3, <3>5 DEF OrderSafe
        <3> QED BY <3>3, <3>4, <3>5
    <2> QED BY <2>1, <2>2
<1> QED BY <1>2, <1>3, <1>4, <1>5, <1>6 DEF Next

(***************************************************************************)
(* The theorems, for two groups or more.                                   *)
(***************************************************************************)

\* Every state reached by applying and gossiping the logs in any order
\* satisfies the inductive invariant.
THEOREM Invariance == ASSUME GroupCount > 1 PROVE Spec => []IInv
<1>1. Init => IInv BY InitInv
<1>2. IInv /\ [Next]_vars => IInv' BY StepInv
<1> QED BY <1>1, <1>2, PTL DEF Spec

\* The chain vectors, heads, marks and the delivered sequence keep their types:
\* an index computed by pushDecision or popBlocks is never out of range.
THEOREM TypeCorrect == ASSUME GroupCount > 1 PROVE Spec => []TypeOK
<1>1. IInv => TypeOK BY DEF IInv
<1> QED BY <1>1, Invariance, PTL

\* No CHECK in setIthWaterMark, updateEstimate or exchange ever fails while no
\* group is reported to be down.
THEOREM NeverAborts == ASSUME GroupCount > 1 PROVE Spec => []NotAborted
<1>1. IInv => NotAborted BY DEF IInv, NotAborted
<1> QED BY <1>1, Invariance, PTL

\* Delivery follows the order of the final vote vectors: popBlocks, which only
\* sees the votes applied so far, never overtakes a block that the whole logs
\* put first.
THEOREM OrderSafety == ASSUME GroupCount > 1 PROVE Spec => []OrderSafe
<1>1. Init => OrderSafe BY DEF Init, OrderSafe
<1>2. IInv /\ OrderSafe /\ [Next]_vars => OrderSafe' BY StepInv
<1> QED BY <1>1, <1>2, Invariance, PTL DEF Spec

\* The blocks of a chain are delivered one after the other, each exactly once,
\* although votes are gossiped several times and chains grow in parallel.
THEOREM DeliveredOnceInOrder == ASSUME GroupCount > 1 PROVE Spec => []NoGapNoRepeat
<1>1. Init => NoGapNoRepeat BY DEF Init, NoGapNoRepeat
<1>2. ASSUME IInv, NoGapNoRepeat, [Next]_vars PROVE NoGapNoRepeat'
    <2>1. delivered' = delivered => NoGapNoRepeat'
        BY <1>2 DEF NoGapNoRepeat
    <2>2. ASSUME NEW v \in Group, Apply(v) PROVE NoGapNoRepeat'
        BY <1>2, <2>1, <2>2, ApplyInv
    <2>3. ASSUME NEW v \in Group, Duplicate(v) PROVE NoGapNoRepeat'
        BY <1>2, <2>1, <2>3, DuplicateInv
    <2>4. ASSUME NEW g \in Group, Pop(g) PROVE NoGapNoRepeat'
        <3> DEFINE n == Len(delivered)
        <3>1. delivered' = Append(delivered, <<g, heads[g]>>) BY <1>2, <2>4, PopInv
        <3>2. /\ delivered \in Seq(Group \X Nat) /\ heads \in [Group -> Nat]
              /\ <<g, heads[g]>> \in Group \X Nat
              /\ DeliveredBelowHeads
            BY <1>2 DEF IInv, TypeOK
        <3>3. /\ n \in Nat /\ DOMAIN delivered = 1 .. n /\ DOMAIN delivered' = 1 .. (n + 1)
              /\ delivered'[n + 1] = <<g, heads[g]>>
              /\ \A i \in 1 .. n : delivered'[i] = delivered[i]
            BY <3>1, <3>2
        <3> HIDE DEF n
        <3>4. ASSUME NEW i \in 1 .. n
              PROVE  /\ \A j \in 1 .. (i - 1) : delivered'[j] # delivered'[i]
                     /\ \A b \in 0 .. (delivered'[i][2] - 1) :
                          \E j \in 1 .. (i - 1) : delivered'[j] = <<delivered'[i][1], b>>
            <4>1. \A j \in 1 .. i : j \in 1 .. n /\ delivered'[j] = delivered[j] BY <3>3
            <4>2. /\ \A j \in 1 .. (i - 1) : delivered[j] # delivered[i]
                  /\ \A b \in 0 .. (delivered[i][2] - 1) :
                       \E j \in 1 .. (i - 1) : delivered[j] = <<delivered[i][1], b>>
                BY <1>2, <3>3 DEF NoGapNoRepeat
            <4>3. \A j \in 1 .. (i - 1) : j \in 1 .. i BY <3>3
            <4>4. i \in 1 .. i BY <3>3
            <4> QED BY <4>1, <4>2, <4>3, <4>4
        <3>5. ASSUME NEW j \in 1 .. n PROVE delivered'[j] # <<g, heads[g]>>
            <4> SUFFICES ASSUME delivered[j] = <<g, heads[g]>> PROVE FALSE BY <3>3
            <4>1. delivered[j][2] < heads[delivered[j][1]] BY <3>2, <3>3 DEF DeliveredBelowHeads
            <4>2. delivered[j][1] = g /\ delivered[j][2] = heads[g] /\ heads[g] \in Nat BY <3>2
            <4> QED BY <4>1, <4>2
        <3>6. ASSUME NEW b \in 0 .. (heads[g] - 1)
              PROVE  \E j \in 1 .. n : delivered'[j] = <<g, b>>
            <4>1. PICK j \in DOMAIN delivered : delivered[j] = <<g, b>>
                BY <3>2 DEF DeliveredBelowHeads
            <4> QED BY <4>1, <3>3
        <3>7. ASSUME NEW i \in DOMAIN delivered'
              PROVE  /\ \A j \in 1 .. (i - 1) : delivered'[j] # delivered'[i]
                     /\ \A b \in 0 .. (delivered'[i][2] - 1) :
                          \E j \in 1 .. (i - 1) : delivered'[j] = <<delivered'[i][1], b>>
            <4>1. CASE i \in 1 .. n BY <4>1, <3>4
            <4>2. CASE i = n + 1
                <5>1. i - 1 = n BY <3>3, <4>2
                <5>2. delivered'[i] = <<g, heads[g]>> BY <3>3, <4>2
                <5>3. delivered'[i][1] = g /\ delivered'[i][2] = heads[g] BY <5>2
                <5>4. \A j \in 1 .. (i - 1) : delivered'[j] # delivered'[i]
                    BY <5>1, <5>2, <3>5
                <5>5. ASSUME NEW b \in 0 .. (delivered'[i][2] - 1)
                      PROVE  \E j \in 1 .. (i - 1) : delivered'[j] = <<delivered'[i][1], b>>
                    <6>1. b \in 0 .. (heads[g] - 1) BY <5>3
                    <6>2. PICK j \in 1 .. n : delivered'[j] = <<g, b>> BY <6>1, <3>6
                    <6> QED BY <6>2, <5>1, <5>3
                <5> QED BY <5>4, <5>5
            <4>3. i \in 1 .. n \/ i = n + 1 BY <3>3
            <4> QED BY <4>1, <4>2, <4>3
        <3> QED BY <3>7 DEF NoGapNoRepeat
    <2>5. CASE PopDone \/ UNCHANGED vars BY <2>1, <2>5 DEF PopDone, vars
    <2> QED BY <1>2, <2>2, <2>3, <2>4, <2>5 DEF Next
<1> QED BY <1>1, <1>2, Invariance, PTL DEF Spec


(***************************************************************************)
(* What delivery shows of the final order, without the votes of the block  *)
(* that stays behind: x is before y however the missing votes on y turn    *)
(* out.  Two nodes that know different parts of the logs can compare their *)
(* deliveries with it.                                                     *)
(***************************************************************************)
NotAfter(l, i, x, y) == \E a \in VoteOn(l, i, x) : \A b \in VoteOn(l, i, y) : a <= b
Before(l, i, x, y) == \E a \in VoteOn(l, i, x) : \A b \in VoteOn(l, i, y) : a < b

SurelyBefore(l, x, y) ==
    \/ \E i \in Group : /\ Before(l, i, x, y)
                        /\ \A j \in 0 .. (i - 1) : NotAfter(l, j, x, y)
    \/ /\ \A i \in Group : NotAfter(l, i, x, y)
       /\ \/ x[2] < y[2]
          \/ x[2] = y[2] /\ x[1] < y[1]

SurelyOrdered ==
    \A i \in DOMAIN delivered : \A h \in Group \ {delivered[i][1]} : \A n \in Nat :
        (\A j \in 1 .. i : delivered[j] # <<h, n>>) => SurelyBefore(log, delivered[i], <<h, n>>)

\* the numbers of two blocks compared are integers
LEMMA VoteTyped ==
    ASSUME log \in Logs, NEW v \in Group, NEW x \in Group \X Nat
    PROVE  \A a \in VoteOn(log, v, x) : a \in Int
<1>1. PICK h \in Group, k \in Nat : x = <<h, k>> OBVIOUS
<1> QED BY <1>1, VoteUnique

\* of two blocks at most one is surely before the other
LEMMA SurelyAsymmetric ==
    ASSUME log \in Logs, NEW x \in Group \X Nat, NEW y \in Group \X Nat,
           SurelyBefore(log, x, y), SurelyBefore(log, y, x)
    PROVE  FALSE
<1> DEFINE Less(p, q) == p[2] < q[2] \/ (p[2] = q[2] /\ p[1] < q[1])
<1>1. \A i \in Group : i \in Int /\ \A j \in Group : j < i => j \in 0 .. (i - 1)
    BY GroupCountAssumption DEF Group
<1>2. ASSUME NEW i \in Group, NEW p \in {x, y}, NEW q \in {x, y},
             Before(log, i, p, q), NotAfter(log, i, q, p)
      PROVE  FALSE
    <2>1. PICK a \in VoteOn(log, i, p) : \A b \in VoteOn(log, i, q) : a < b BY <1>2 DEF Before
    <2>2. PICK b \in VoteOn(log, i, q) : \A c \in VoteOn(log, i, p) : b <= c
        BY <1>2 DEF NotAfter
    <2>3. a \in Int /\ b \in Int /\ a < b /\ b <= a BY <2>1, <2>2, VoteTyped
    <2> QED BY <2>3
<1>3. ASSUME NEW i \in Group, NEW p, NEW q, p \in Group \X Nat, q \in Group \X Nat,
             Before(log, i, p, q)
      PROVE  NotAfter(log, i, p, q)
    <2>1. PICK a \in VoteOn(log, i, p) : \A b \in VoteOn(log, i, q) : a < b BY <1>3 DEF Before
    <2>2. \A b \in VoteOn(log, i, q) : b \in Int BY <1>3, VoteTyped
    <2>3. a \in Int BY <1>3, VoteTyped
    <2> QED BY <2>1, <2>2, <2>3 DEF NotAfter
<1>4. ASSUME NEW i \in Group, NEW p \in {x, y}, NEW q \in {x, y}, p # q, Before(log, i, p, q),
             \A j \in 0 .. (i - 1) : NotAfter(log, j, p, q),
             SurelyBefore(log, q, p)
      PROVE  FALSE
    <2>1. CASE \A k \in Group : NotAfter(log, k, q, p) BY <2>1, <1>2, <1>4
    <2>2. CASE \E k \in Group : /\ Before(log, k, q, p)
                                /\ \A j \in 0 .. (k - 1) : NotAfter(log, j, q, p)
        <3>1. PICK k \in Group : /\ Before(log, k, q, p)
                                 /\ \A j \in 0 .. (k - 1) : NotAfter(log, j, q, p)
            BY <2>2
        <3>2. CASE k < i BY <3>1, <3>2, <1>1, <1>2, <1>4
        <3>3. CASE i < k BY <3>1, <3>3, <1>1, <1>2, <1>4
        <3>4. CASE i = k BY <3>1, <3>4, <1>2, <1>3, <1>4
        <3> QED BY <3>2, <3>3, <3>4, <1>1
    <2> QED BY <2>1, <2>2, <1>4 DEF SurelyBefore
<1>5. x # y
    <2> SUFFICES ASSUME x = y PROVE FALSE OBVIOUS
    <2>1. ~ \E i \in Group : Before(log, i, x, x) BY <1>2, <1>3
    <2>2. x[2] \in Nat /\ x[1] \in Int BY <1>1
    <2> QED BY <2>1, <2>2 DEF SurelyBefore
<1>6. \A i \in Group : NotAfter(log, i, x, y) /\ NotAfter(log, i, y, x)
    BY <1>4, <1>5 DEF SurelyBefore
<1>7. Less(x, y) /\ Less(y, x)
    BY <1>2, <1>6 DEF SurelyBefore
<1>8. x[2] \in Nat /\ y[2] \in Nat /\ x[1] \in Int /\ y[1] \in Int BY <1>1
<1> QED BY <1>7, <1>8

\* a head that must be the smallest is surely before what the other chains
\* have not delivered
LEMMA MinimumIsSure ==
    ASSUME ChainInv(chains, pos), log \in Logs,
           NEW g \in Group, NEW h \in Group, NEW n \in Nat, g # h,
           heads[g] \in DOMAIN chains[g], heads[h] \in DOMAIN chains[h],
           mustLessThan(HeadCell(g), HeadCell(h)), heads[h] <= n
    PROVE  SurelyBefore(log, <<g, heads[g]>>, <<h, n>>)
<1> DEFINE c == HeadCell(g)
           d == HeadCell(h)
           x == <<g, heads[g]>>
           y == <<h, n>>
           CellTied(i) == /\ c.real[i] /\ d.real[i]
                          /\ c.watermarks[i] = d.watermarks[i]
<1>0. /\ heads[g] \in Nat /\ heads[h] \in Nat
      /\ c.groupId = g /\ c.blockId = heads[g] /\ d.groupId = h /\ d.blockId = heads[h]
      /\ \A i \in Group : i \in Int /\ \A j \in 0 .. (i - 1) : j \in Group
    BY GroupCountAssumption DEF ChainInv, CellsOK, HeadCell, Group
<1>1. ASSUME NEW i \in Group, c.real[i]
      PROVE  c.watermarks[i] \in VoteOn(log, i, x) /\ c.watermarks[i] \in Int
    <2>1. CASE i = g BY <1>0, <2>1 DEF HeadCell, VoteOn, ChainInv, CellsOK
    <2>2. CASE i # g
        <3>1. PICK p \in 1 .. pos[i] : /\ log[i][p].chain = g /\ log[i][p].block = heads[g]
                                       /\ log[i][p].mark = c.watermarks[i]
            BY <1>1, <2>2 DEF ChainInv, RealVoted, HeadCell
        <3>2. p \in DOMAIN log[i] BY EntryTyped DEF ChainInv, PositionsOK
        <3>3. log[i][p].mark \in Int BY <3>2, EntryTyped
        <3> QED BY <2>2, <3>1, <3>2, <3>3 DEF VoteOn
    <2> QED BY <2>1, <2>2
<1>2. ASSUME NEW i \in Group, NEW a \in VoteOn(log, i, y)
      PROVE  a \in Int /\ d.watermarks[i] \in Int /\ d.watermarks[i] <= a
    <2>1. PICK e \in VoteOn(log, i, <<h, heads[h]>>) : e <= a BY <1>0, VoteMonotone
    <2>2. e \in Int /\ d.watermarks[i] \in Int /\ d.watermarks[i] <= e
        BY CellBound DEF HeadCell
    <2>3. a \in Int BY VoteUnique
    <2> QED BY <2>1, <2>2, <2>3
<1>3. \/ \E i \in Group : /\ c.real[i] /\ c.watermarks[i] < d.watermarks[i]
                          /\ \A j \in 0 .. (i - 1) : CellTied(j)
      \/ /\ \A i \in Group : CellTied(i)
         /\ heads[g] < heads[h] \/ (heads[g] = heads[h] /\ g < h)
    BY <1>0 DEF mustLessThan
<1> HIDE DEF c, d
<1>4. ASSUME NEW i \in Group, CellTied(i) PROVE NotAfter(log, i, x, y)
    <2>1. \A b \in VoteOn(log, i, y) : c.watermarks[i] <= b BY <1>1, <1>2, <1>4
    <2> QED BY <1>1, <1>4, <2>1 DEF NotAfter
<1>5. ASSUME NEW i \in Group, c.real[i], c.watermarks[i] < d.watermarks[i]
      PROVE  Before(log, i, x, y)
    <2>1. \A b \in VoteOn(log, i, y) : c.watermarks[i] < b BY <1>1, <1>2, <1>5
    <2> QED BY <1>1, <1>5, <2>1 DEF Before
<1> HIDE DEF CellTied
<1>6. CASE \E i \in Group : /\ c.real[i] /\ c.watermarks[i] < d.watermarks[i]
                            /\ \A j \in 0 .. (i - 1) : CellTied(j)
    BY <1>0, <1>4, <1>5, <1>6 DEF SurelyBefore
<1>7. CASE /\ \A i \in Group : CellTied(i)
           /\ heads[g] < heads[h] \/ (heads[g] = heads[h] /\ g < h)
    <2>1. heads[g] < n \/ (heads[g] = n /\ g < h) BY <1>0, <1>7
    <2>2. \A i \in Group : NotAfter(log, i, x, y) BY <1>4, <1>7
    <2> QED BY <2>1, <2>2 DEF SurelyBefore
<1> QED BY <1>3, <1>6, <1>7

\* a step keeps the order of what is delivered
LEMMA StepSure ==
    ASSUME GroupCount > 1, IInv, SurelyOrdered, [Next]_vars
    PROVE  SurelyOrdered'
<1>1. ASSUME UNCHANGED <<log, delivered>> PROVE SurelyOrdered'
    BY <1>1 DEF SurelyOrdered
<1>2. CASE (\E v \in Group : Apply(v) \/ Duplicate(v)) \/ PopDone \/ UNCHANGED vars
    BY <1>1, <1>2, ApplyInv, DuplicateInv DEF PopDone, vars
<1>3. ASSUME NEW g \in Group, Pop(g) PROVE SurelyOrdered'
    <2>1. log' = log /\ delivered' = Append(delivered, <<g, heads[g]>>) BY <1>3, PopInv
    <2>2. /\ log \in Logs /\ ChainInv(chains, pos)
          /\ heads \in [Group -> Nat] /\ \A h \in Group : heads[h] \in DOMAIN chains[h]
          /\ delivered \in Seq(Group \X Nat) /\ <<g, heads[g]>> \in Group \X Nat
        BY DEF IInv, TypeOK
    <2>3. /\ Len(delivered) \in Nat /\ DOMAIN delivered = 1 .. Len(delivered)
          /\ DOMAIN delivered' = 1 .. (Len(delivered) + 1)
          /\ delivered'[Len(delivered) + 1] = <<g, heads[g]>>
          /\ \A i \in DOMAIN delivered : delivered'[i] = delivered[i]
        BY <2>1, <2>2
    <2> SUFFICES ASSUME NEW i \in DOMAIN delivered', NEW h \in Group \ {delivered'[i][1]},
                        NEW n \in Nat, \A j \in 1 .. i : delivered'[j] # <<h, n>>
                 PROVE  SurelyBefore(log, delivered'[i], <<h, n>>)
        BY <2>1 DEF SurelyOrdered
    <2>4. CASE i \in DOMAIN delivered
        <3>1. \A j \in 1 .. i : delivered[j] # <<h, n>> BY <2>3, <2>4
        <3> QED BY <3>1, <2>3, <2>4 DEF SurelyOrdered
    <2>5. CASE i = Len(delivered) + 1
        <3>1. g # h BY <2>3, <2>5
        <3>2. heads[h] <= n
            <4> SUFFICES ASSUME n < heads[h] PROVE FALSE BY <2>2
            <4>1. n \in 0 .. (heads[h] - 1) BY <2>2
            <4>2. PICK j \in DOMAIN delivered : delivered[j] = <<h, n>>
                BY <4>1 DEF IInv, DeliveredBelowHeads
            <4>3. j \in 1 .. i /\ delivered'[j] = <<h, n>> BY <4>2, <2>3, <2>5
            <4> QED BY <4>3
        <3>3. mustLessThan(HeadCell(g), HeadCell(h)) BY <1>3 DEF Pop, globalMinimum
        <3>4. SurelyBefore(log, <<g, heads[g]>>, <<h, n>>)
            BY <2>2, <3>1, <3>2, <3>3, MinimumIsSure
        <3> QED BY <3>4, <2>3, <2>5
    <2> QED BY <2>3, <2>4, <2>5
<1> QED BY <1>2, <1>3 DEF Next

\* A node only delivers a block when no vote that it has not seen could put a
\* block of another chain first.
THEOREM DeliveredSurely == ASSUME GroupCount > 1 PROVE Spec => []SurelyOrdered
<1>1. Init => SurelyOrdered BY DEF Init, SurelyOrdered
<1>2. IInv /\ SurelyOrdered /\ [Next]_vars => SurelyOrdered' BY StepSure
<1> QED BY <1>1, <1>2, Invariance, PTL DEF Spec
(***************************************************************************)
(* popBlocks returns only when a head lacks a vote: of heads with all      *)
(* their votes, one has the smallest vector of marks, ties broken by block *)
(* and group number.                                                       *)
(***************************************************************************)

\* a set of natural numbers has a least element
LEMMA LeastNatural ==
    ASSUME NEW T, T \subseteq Nat, T # {}
    PROVE  \E x \in T : \A y \in T : x <= y
<1> DEFINE R == OpToRel(<, Nat)
<1>1. IsWellFoundedOn(R, Nat) BY NatLessThanWellFounded
<1>2. \A x, y \in Nat : <<x, y>> \in R <=> x < y BY DEF OpToRel
<1> HIDE DEF R
<1>3. PICK x \in T : \A y \in T : ~ (<<y, x>> \in R) BY <1>1, WFMin
<1>4. ASSUME NEW y \in T PROVE x <= y
    <2>1. x \in Nat /\ y \in Nat /\ ~ (<<y, x>> \in R) BY <1>3
    <2> QED BY <1>2, <2>1
<1> QED BY <1>4

\* the vector a head is ordered by: its marks, its block and its group
Key(g) == [i \in 1 .. (GroupCount + 2) |->
              IF i <= GroupCount THEN HeadCell(g).watermarks[i - 1] + 1
              ELSE IF i = GroupCount + 1 THEN HeadCell(g).blockId ELSE g]

LEMMA CompleteHeadsOrdered ==
    ASSUME GroupCount > 1, ChainInv(chains, pos),
           \A g \in Group : heads[g] \in DOMAIN chains[g],
           \A g \in Group : \A v \in Group : HeadCell(g).real[v]
    PROVE  globalMinimum # {}
<1> DEFINE N == GroupCount + 2
           L == OpToRel(<, Nat)
           R == LexProductOrdering(L, Nat, N)
           T == {Key(g) : g \in Group}
<1>1. GroupCount \in Nat /\ N \in Nat /\ 0 \in Group BY GroupCountAssumption DEF Group
<1>2. ASSUME NEW g \in Group
      PROVE  /\ HeadCell(g).blockId \in Nat /\ HeadCell(g).groupId = g /\ g \in Nat
             /\ \A v \in Group : /\ HeadCell(g).watermarks[v] \in Int
                                 /\ HeadCell(g).watermarks[v] >= -1
    <2>1. HeadCell(g) \in Cell /\ HeadCell(g).groupId = g
        BY DEF ChainInv, CellsOK, HeadCell
    <2>2. \A v \in Group : HeadCell(g).watermarks[v] \in Mark BY <2>1 DEF Cell
    <2>3. \A m \in Mark : m \in Int /\ m >= -1 BY DEF Mark, INVALID_WATERMARK
    <2>4. HeadCell(g).blockId \in Nat BY <2>1 DEF Cell
    <2>5. g \in Nat BY <1>1 DEF Group
    <2> QED BY <2>1, <2>2, <2>3, <2>4, <2>5
<1>3. ASSUME NEW g \in Group
      PROVE  /\ Key(g) \in [1 .. N -> Nat]
             /\ \A v \in Group : Key(g)[v + 1] = HeadCell(g).watermarks[v] + 1
             /\ Key(g)[GroupCount + 1] = HeadCell(g).blockId
             /\ Key(g)[GroupCount + 2] = g
    <2>1. ASSUME NEW i \in 1 .. N
          PROVE  (IF i <= GroupCount THEN HeadCell(g).watermarks[i - 1] + 1
                  ELSE IF i = GroupCount + 1 THEN HeadCell(g).blockId ELSE g) \in Nat
        <3>1. i <= GroupCount => i - 1 \in Group BY <1>1 DEF Group
        <3> QED BY <1>2, <3>1
    <2>2. \A v \in Group : v + 1 \in 1 .. N /\ v + 1 <= GroupCount /\ (v + 1) - 1 = v
        BY <1>1 DEF Group
    <2>3. GroupCount + 1 \in 1 .. N /\ GroupCount + 2 \in 1 .. N BY <1>1
    <2>4. ~ (GroupCount + 1 <= GroupCount) /\ ~ (GroupCount + 2 <= GroupCount)
          /\ GroupCount + 2 # GroupCount + 1
        BY <1>1
    <2> QED BY <2>1, <2>2, <2>3, <2>4 DEF Key
<1>4. IsWellFoundedOn(R, [1 .. N -> Nat])
    BY <1>1, NatLessThanWellFounded, WFLexProductOrdering
<1>5. \A x, y \in Nat : <<x, y>> \in L <=> x < y BY DEF OpToRel
<1>6. ASSUME NEW e \in [1 .. N -> Nat], NEW f \in [1 .. N -> Nat], NEW j \in 1 .. N,
             \A i \in 1 .. (j - 1) : e[i] = f[i], e[j] < f[j]
      PROVE  <<e, f>> \in R
    <2>1. <<e[j], f[j]>> \in L BY <1>5, <1>6
    <2> HIDE DEF L
    <2> QED BY <1>6, <2>1 DEF LexProductOrdering
<1> HIDE DEF R, L
<1>7. T \subseteq [1 .. N -> Nat] /\ T # {} BY <1>1, <1>3
<1>8. PICK e \in T : \A f \in T : ~ (<<f, e>> \in R)
    <2> HIDE DEF T, N
    <2> QED BY <1>4, <1>7, WFMin
<1>9. PICK g \in Group : e = Key(g) BY <1>8
<1>10. ASSUME NEW h \in Group PROVE mustLessThan(HeadCell(g), HeadCell(h))
    <2>1. CASE g = h BY <2>1 DEF mustLessThan
    <2>2. CASE g # h
        <3> DEFINE D == {i \in 1 .. N : Key(g)[i] # Key(h)[i]}
        <3>1. GroupCount + 2 \in D BY <1>1, <1>3, <2>2
        <3>2. PICK j \in D : \A i \in D : j <= i
            <4>1. D \subseteq Nat /\ D # {} BY <1>1, <3>1
            <4> HIDE DEF D
            <4> QED BY <4>1, LeastNatural
        <3>3. j \in 1 .. N /\ Key(g)[j] # Key(h)[j] BY <3>2
        <3>4. ASSUME NEW i \in 1 .. (j - 1) PROVE i \in 1 .. N /\ Key(g)[i] = Key(h)[i]
            <4>1. i \in 1 .. N /\ ~ (j <= i) BY <1>1, <3>3
            <4> QED BY <4>1, <3>2
        <3>5. Key(g)[j] < Key(h)[j]
            <4>1. ~ (Key(h)[j] < Key(g)[j])
                <5> SUFFICES ASSUME Key(h)[j] < Key(g)[j] PROVE FALSE OBVIOUS
                <5>1. <<Key(h), Key(g)>> \in R BY <1>3, <1>6, <3>3, <3>4
                <5> QED BY <5>1, <1>8, <1>9
            <4>2. Key(g)[j] \in Nat /\ Key(h)[j] \in Nat BY <1>3, <3>3
            <4> QED BY <4>1, <4>2, <3>3
        <3> DEFINE Tied(i) == /\ HeadCell(g).real[i] /\ HeadCell(h).real[i]
                              /\ HeadCell(g).watermarks[i] = HeadCell(h).watermarks[i]
        <3>6. ASSUME NEW i \in Group, i + 1 < j PROVE Tied(i)
            <4>1. i + 1 \in 1 .. (j - 1) BY <3>3, <3>6, <1>1 DEF Group
            <4>2. Key(g)[i + 1] = Key(h)[i + 1] BY <3>4, <4>1
            <4>3. HeadCell(g).watermarks[i] + 1 = HeadCell(h).watermarks[i] + 1
                BY <4>2, <1>3
            <4> QED BY <4>3, <1>2
        <3>7. CASE j <= GroupCount
            <4> DEFINE m == j - 1
            <4>1. m \in Group /\ m + 1 = j BY <1>1, <3>3, <3>7 DEF Group
            <4>2. HeadCell(g).watermarks[m] + 1 < HeadCell(h).watermarks[m] + 1
                <5>1. /\ Key(g)[m + 1] = HeadCell(g).watermarks[m] + 1
                      /\ Key(h)[m + 1] = HeadCell(h).watermarks[m] + 1
                    BY <1>3, <4>1
                <5> QED BY <5>1, <4>1, <3>5
            <4>3. HeadCell(g).watermarks[m] < HeadCell(h).watermarks[m] BY <4>1, <4>2, <1>2
            <4>4. \A i \in 0 .. (m - 1) : i \in Group /\ i + 1 < j
                BY <1>1, <3>3, <3>7 DEF Group
            <4>5. \A i \in 0 .. (m - 1) : Tied(i) BY <3>6, <4>4
            <4> HIDE DEF m
            <4> QED BY <4>1, <4>3, <4>5 DEF mustLessThan
        <3>8. CASE j > GroupCount
            <4>1. \A i \in Group : i + 1 < j BY <1>1, <3>3, <3>8 DEF Group
            <4>2. \A i \in Group : Tied(i) BY <3>6, <4>1
            <4>3. \/ HeadCell(g).blockId < HeadCell(h).blockId
                  \/ HeadCell(g).blockId = HeadCell(h).blockId /\ g < h
                <5>1. CASE j = GroupCount + 1 BY <5>1, <3>5, <1>3
                <5>2. CASE j = GroupCount + 2
                    <6>1. GroupCount + 1 \in 1 .. (j - 1) BY <5>2, <1>1
                    <6>2. Key(g)[GroupCount + 1] = Key(h)[GroupCount + 1] BY <6>1, <3>4
                    <6> QED BY <5>2, <6>2, <3>5, <1>3
                <5> QED BY <5>1, <5>2, <3>3, <3>8, <1>1
            <4>4. HeadCell(g).groupId = g /\ HeadCell(h).groupId = h BY <1>2
            <4> QED BY <4>2, <4>3, <4>4 DEF mustLessThan
        <3> QED BY <3>7, <3>8, <3>3, <1>1
    <2> QED BY <2>1, <2>2
<1> QED BY <1>10 DEF globalMinimum

\* a decision that does not start popBlocks leaves the heads alone
LEMMA PushKeepsHeads ==
    ASSUME GroupCount > 1, IInv, NEW g \in Group, NEW b, NEW v \in Group, NEW w,
           pushDecision(g, b, v, w), ~ popping'
    PROVE  ~ popping /\ \A h \in Group : HeadCell(h)' = HeadCell(h)
<1>1. /\ heads \in [Group -> Nat] /\ DOMAIN chains = Group /\ popping \in BOOLEAN
      /\ \A h \in Group : heads[h] \in DOMAIN chains[h]
    BY DEF IInv, TypeOK
<1>2. CASE pushDecisionOwn(g, v) BY <1>2 DEF pushDecisionOwn, HeadCell
<1>3. CASE pushDecisionVote(g, b, v, w)
    <2>1. chains' = createBlockIfNotExist(chains, g, b) /\ heads' = heads /\ ~ popping
        BY <1>3 DEF pushDecisionVote
    <2>2. \A h \in Group : chains'[h][heads[h]] = chains[h][heads[h]]
        BY <1>1, <2>1 DEF createBlockIfNotExist
    <2> QED BY <2>1, <2>2 DEF HeadCell
<1> QED BY <1>2, <1>3, GroupCountAssumption DEF pushDecision, pushDecisionSingle

\* Blocks never wait for a vote that has already been applied: whenever
\* popBlocks has returned, some head still lacks a vote.
THEOREM NeverStalls == ASSUME GroupCount > 1 PROVE Spec => []NoStall
<1>1. Init => NoStall
    <2> SUFFICES ASSUME Init PROVE \E g \in Group : \E v \in Group : ~ HeadCell(g).real[v]
        BY DEF NoStall
    <2>1. 0 \in Group /\ 1 \in Group BY GroupCountAssumption DEF Group
    <2>2. HeadCell(0) = NewCell(0, 0) BY <2>1 DEF Init, HeadCell
    <2>3. ~ HeadCell(0).real[1] BY <2>1, <2>2, NewCellFacts
    <2> QED BY <2>1, <2>3
<1>2. ASSUME IInv, NoStall, [Next]_vars PROVE NoStall'
    <2> SUFFICES ASSUME ~ popping'
                 PROVE  \E g \in Group : \E v \in Group : ~ HeadCell(g)'.real[v]
        BY DEF NoStall
    <2>0. ~ aborted /\ log \in Logs BY <1>2 DEF IInv
    <2>1. ASSUME ~ popping, \A h \in Group : HeadCell(h)' = HeadCell(h)
          PROVE  \E g \in Group : \E v \in Group : ~ HeadCell(g)'.real[v]
        BY <1>2, <2>0, <2>1 DEF NoStall
    <2>2. ASSUME NEW v \in Group, Apply(v) \/ Duplicate(v)
          PROVE  \E g \in Group : \E u \in Group : ~ HeadCell(g)'.real[u]
        <3>1. PICK p \in DOMAIN log[v] :
                    pushDecision(log[v][p].chain, log[v][p].block, v, log[v][p].mark)
            <4>1. pos[v] \in Nat /\ pos[v] <= Len(log[v]) BY <1>2 DEF IInv, TypeOK
            <4>2. Len(log[v]) \in Nat /\ DOMAIN log[v] = 1 .. Len(log[v]) BY <2>0, EntryTyped
            <4>3. CASE Apply(v)
                <5>1. pos[v] < Len(log[v]) BY <4>3 DEF Apply
                <5>2. pos[v] + 1 \in DOMAIN log[v] BY <5>1, <4>1, <4>2
                <5> QED BY <4>3, <5>2 DEF Apply
            <4>4. CASE Duplicate(v)
                <5>1. \A p \in 1 .. pos[v] : p \in DOMAIN log[v] BY <4>1, <4>2
                <5> QED BY <4>4, <5>1 DEF Duplicate
            <4> QED BY <2>2, <4>3, <4>4
        <3>2. log[v][p].chain \in Group BY <2>0, EntryTyped
        <3>3. ~ popping /\ \A h \in Group : HeadCell(h)' = HeadCell(h)
            BY <1>2, <3>1, <3>2, PushKeepsHeads
        <3> QED BY <2>1, <3>3
    <2>3. CASE \E g \in Group : Pop(g) BY <2>3 DEF Pop
    <2>4. CASE PopDone
        <3>1. globalMinimum = {} BY <2>4 DEF PopDone
        <3>2. \E g \in Group : \E v \in Group : ~ HeadCell(g).real[v]
            BY <1>2, <3>1, CompleteHeadsOrdered DEF IInv, TypeOK
        <3>3. \A h \in Group : HeadCell(h)' = HeadCell(h) BY <2>4 DEF PopDone, HeadCell
        <3> QED BY <3>2, <3>3
    <2>5. CASE UNCHANGED vars
        <3>1. ~ popping /\ \A h \in Group : HeadCell(h)' = HeadCell(h)
            BY <2>5 DEF vars, HeadCell
        <3> QED BY <2>1, <3>1
    <2> QED BY <1>2, <2>2, <2>3, <2>4, <2>5 DEF Next
<1> QED BY <1>1, <1>2, Invariance, PTL DEF Spec

=============================================================================
