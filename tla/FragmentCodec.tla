---------------------------- MODULE FragmentCodec ----------------------------
(***************************************************************************)
(* The contents of a fragment message: the Merkle tree over the encoded    *)
(* fragments, proofs that leave out what the previous proof has already    *)
(* said, and the receiver's side, which puts the proofs together again and *)
(* checks them against the root.  Hashes are terms, so they never collide. *)
(***************************************************************************)
EXTENDS Integers, Sequences, SequencesExt

CONSTANT MaxFragments   \* bound: fragments of a block

ASSUME MaxFragmentsAssumption == MaxFragments \in Nat

\* the erasure code makes n fragments of a block, told apart by their numbers
encode(n) == [i \in 1 .. n |-> i - 1]

\* digest of fragment i, and of a fragment whose bytes have been changed
Digest(i) == <<i>>
Corrupted == <<-1>>

HashFunc(a, b) == <<a, b>>

\* the logarithm of n to the base 2, rounded up
calTreeDepth(n) ==
    LET Log[m \in 1 .. n] == IF m = 1 THEN 0 ELSE Log[(m + 1) \div 2] + 1
    IN  Log[n]

\* an odd level repeats its last node
fixOdd(s) == IF Len(s) % 2 = 0 THEN s ELSE Append(s, Last(s))

leaves(n) == fixOdd([i \in 1 .. n |-> Digest(encode(n)[i])])
parents(below) ==
    fixOdd([j \in 1 .. (Len(below) \div 2) |-> HashFunc(below[2 * j - 1], below[2 * j])])

\* the levels of the tree over n fragments, below the root
tree(n) ==
    LET T[k \in 0 .. (calTreeDepth(n) - 1)] == IF k = 0 THEN leaves(n) ELSE parents(T[k - 1])
    IN  T

\* the trees of all sizes
Trees == [n \in 2 .. MaxFragments |-> tree(n)]

Root(n) == LET top == Trees[n][calTreeDepth(n) - 1] IN HashFunc(top[1], top[2])

\* node a of a level and its neighbour exchange their hashes
updatePairProof(level, a) == level[IF a % 2 = 0 THEN a + 2 ELSE a]

\* i without its last k bits, for k up to d
shifted(i, d) ==
    LET At[k \in 0 .. d] == IF k = 0 THEN i ELSE At[k - 1] \div 2
    IN  At

\* the proof of fragment i: at every level, the sibling and whether it is on the
\* right (a set bit of Path)
GenerateProof(n, i) ==
    LET depth == calTreeDepth(n)
        At == shifted(i, depth)
    IN  [path |-> [k \in 1 .. depth |-> At[k - 1] % 2 = 0],
         siblings |-> [k \in 1 .. depth |-> updatePairProof(Trees[n][k - 1], At[k - 1])]]

Proofs == [n \in 2 .. MaxFragments |-> [i \in 0 .. (n - 1) |-> GenerateProof(n, i)]]

Verify(leaf, proof, root) ==
    LET hash[k \in 0 .. Len(proof.siblings)] ==
            IF k = 0 THEN leaf
            ELSE IF proof.path[k] THEN HashFunc(hash[k - 1], proof.siblings[k])
                                  ELSE HashFunc(proof.siblings[k], hash[k - 1])
    IN  hash[Len(proof.siblings)] = root

\* A plausible slip: only up to the first sibling that differs.
WrittenTooFew(n, start, i) ==
    LET D == {k \in 1 .. calTreeDepth(n) : Proofs[n][i - 1].siblings[k] # Proofs[n][i].siblings[k]}
    IN  IF i = start THEN calTreeDepth(n)
        ELSE IF D = {} THEN 0 ELSE CHOOSE k \in D : \A j \in D : j >= k

\* how many siblings of proof i are written: those up to the last that differs
\* from the previous proof, all for the first of the message
Written(n, start, i) ==
    LET D == {k \in 1 .. calTreeDepth(n) : Proofs[n][i - 1].siblings[k] # Proofs[n][i].siblings[k]}
    IN  IF i = start THEN calTreeDepth(n)
        ELSE IF D = {} THEN 0 ELSE CHOOSE k \in D : \A j \in D : j <= k

\* the message for the fragments start .. end - 1, with their bytes as encoded or
\* changed
serializeFragments(n, start, end, damaged) ==
    [x \in 1 .. (end - start) |->
        LET i == start + x - 1
        IN  [idx |-> i, path |-> Proofs[n][i].path, data |-> IF damaged THEN Corrupted ELSE Digest(i),
             siblings |-> SubSeq(Proofs[n][i].siblings, 1, Written(n, start, i))]]

\* what a receiving context has: guards of the fragments it has begun to load,
\* and the fragments it has loaded
EmptyContext == [guarded |-> {}, loaded |-> {}]

\* Later siblings come from an earlier proof of the message; a fragment that is
\* already guarded is skipped, but its siblings are kept for the next one.
complete(written, old) == written \o SubSeq(old, Len(written) + 1, Len(old))

skipFragment(st, f) ==
    [st EXCEPT !.kept = complete(f.siblings, IF st.prev # <<>> THEN st.prev ELSE @),
               !.useKept = TRUE]

loadFragment(st, f, n, root) ==
    LET full == complete(f.siblings, IF st.useKept THEN st.kept ELSE st.prev)
        good == Len(full) = calTreeDepth(n)
                  /\ Verify(f.data, [path |-> f.path, siblings |-> full], root)
    IN  [st EXCEPT !.guarded = @ \cup {f.idx}, !.prev = full, !.useKept = FALSE,
                   !.loaded = IF good THEN @ \cup {f.idx} ELSE @, !.ok = good]

readFragment(st, f, n, root) ==
    IF ~st.ok THEN st
    ELSE IF f.idx \in st.guarded THEN skipFragment(st, f) ELSE loadFragment(st, f, n, root)

validateAndDeserializeFragments(ctx, n, root, msg) ==
    LET start == [ok |-> TRUE, prev |-> <<>>, kept |-> <<>>, useKept |-> FALSE,
                  guarded |-> ctx.guarded, loaded |-> ctx.loaded]
        After[x \in 0 .. Len(msg)] == IF x = 0 THEN start ELSE readFragment(After[x - 1], msg[x], n, root)
        end == After[Len(msg)]
    IN  [ok |-> end.ok, ctx |-> [guarded |-> end.guarded, loaded |-> end.loaded]]

\* the erasure code gives the block back from any k of its fragments
decode(present, k) == Cardinality(present) >= k

regenerateMessage(ctx, k) == decode(ctx.loaded, k)

=============================================================================
