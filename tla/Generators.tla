------------------------------ MODULE Generators ------------------------------
(***************************************************************************)
(* The data the two programs are run on: a xorshift generator, and what    *)
(* each kind of data makes of its words.  A kind is a sequence of sources, *)
(* ranges of values; a value is drawn from a source that is drawn first,   *)
(* when there are several.                                                 *)
(*                                                                         *)
(* The operations on bits work on the set of the one-bits of a word, so    *)
(* that exclusive or is symmetric difference.                              *)
(***************************************************************************)
EXTENDS BitRouting, Sequences

CONSTANTS Shifts,     \* 13, 7, 17: left, right and left again
          Seeds,      \* the words a generator may be seeded with
          Clusters,   \* first and last value of each cluster
          Mixture,    \* likewise for the mixture of the hardware benchmark
          MissTarget  \* u64::MAX - 13, what the searches for a miss look for

ASSUME GeneratorAssumption ==
    /\ BITS >= 2
    /\ Shifts \in [1 .. 3 -> Nat \ {0}]
    /\ Seeds \subseteq U64
    /\ \A ranges \in {Clusters, Mixture} :
          /\ ranges \in Seq(U64 \X U64) /\ ranges # <<>>
          /\ \A c \in DOMAIN ranges : ranges[c][1] <= ranges[c][2]

\* The value looked for in vain has the highest bit set.
ASSUME MissAssumption == MissTarget \in PowerOfTwo(BITS - 1) .. PowerOfTwo(BITS) - 1

VARIABLES kind,  \* the kind of data
          rng,   \* the word of the generator
          class, \* the source drawn for the next value, 0 when none is
          value  \* the value generated last

vars == <<kind, rng, class, value>>

-------------------------------------------------------------------------------
(* The xorshift generator.                                                 *)

Ones(x) == {k \in 0 .. BITS - 1 : (x \div PowerOfTwo(k)) % 2 = 1}

\* Mutant: `x = x << k` for `x ^= x << k`.
XorForgotten(v, w) == w

Xor(v, w) == (v \ w) \cup (w \ v)
ShiftLeft(word, by) == {k + by : k \in word} \cap 0 .. BITS - 1
ShiftRight(word, by) == {k - by : k \in {j \in word : j >= by}}

\* Xorshift64::new: zero, which the generator would never leave, becomes one.
\* The hardware benchmark has no such guard; its seeds are not zero.
Seeded(seed) == IF seed = 0 THEN 1 ELSE seed

Scrambled(word) ==
    LET first  == Xor(word, ShiftLeft(word, Shifts[1]))
        second == Xor(first, ShiftRight(first, Shifts[2]))
    IN  Xor(second, ShiftLeft(second, Shifts[3]))

\* Xorshift64::next.
Draw == rng' \in U64 /\ Ones(rng') = Scrambled(Ones(rng))

-------------------------------------------------------------------------------
(* The kinds of data.                                                      *)

Source(first, last) == [first |-> first, last |-> last]

\* Ranges of the code as sources.
SourcesOf(ranges) == [c \in DOMAIN ranges |-> Source(ranges[c][1], ranges[c][2])]

AnyWord == Source(0, PowerOfTwo(BITS) - 1)

\* Mutant: `1 << bits` for the least value of a width.
OfWidthAbove(width) ==
    Source(PowerOfTwo(width), IF width < BITS THEN PowerOfTwo(width + 1) - 1
                                              ELSE PowerOfTwo(BITS) - 1)

OfWidth(width) == Source(PowerOfTwo(width - 1), PowerOfTwo(width) - 1)

\* gen_high_entropy: one class for each width; the last is any word at all.
HighEntropy == [c \in 1 .. BITS + 1 |->
    IF c = 1 THEN Source(0, 0) ELSE IF c = BITS + 1 THEN AnyWord ELSE OfWidth(c - 1)]

\* The hardware benchmark's mixture ends with any word.
Sources == [high_entropy |-> HighEntropy,
            uniform      |-> <<OfWidth(BITS \div 2)>>,
            clustered    |-> SourcesOf(Clusters),
            mixture      |-> Append(SourcesOf(Mixture), AnyWord)]

Init ==
    /\ kind \in DOMAIN Sources \cup {"sequential"}
    /\ \E seed \in Seeds : rng = Seeded(seed)
    /\ class = 0 /\ value = 0

\* Which source the next value comes from: drawn if there is a choice.
ChooseClass ==
    /\ kind # "sequential" /\ class = 0
    /\ IF Len(Sources[kind]) = 1
       THEN class' = 1 /\ UNCHANGED rng
       ELSE /\ Draw
            /\ class' = (rng' % Len(Sources[kind])) + 1
    /\ UNCHANGED <<kind, value>>

\* The first class of the high entropy data is zero, without a draw.
DrawZero ==
    /\ kind = "high_entropy" /\ class = 1
    /\ value' = 0 /\ class' = 0
    /\ UNCHANGED <<kind, rng>>

\* Xorshift64::range.
DrawValue ==
    /\ class # 0 /\ ~ (kind = "high_entropy" /\ class = 1)
    /\ Draw
    /\ LET source == Sources[kind][class]
       IN  value' = source.first + (rng' % (source.last - source.first + 1))
    /\ class' = 0
    /\ UNCHANGED kind

\* gen_sequential counts.
CountOn ==
    /\ kind = "sequential" /\ value + 1 \in U64
    /\ value' = value + 1
    /\ UNCHANGED <<kind, rng, class>>

Next == ChooseClass \/ DrawZero \/ DrawValue \/ CountOn

Spec == Init /\ [][Next]_vars

-------------------------------------------------------------------------------
(* Correctness.                                                            *)

\* A value sits in the bucket of a width exactly when it lies in the range of
\* values documented for it: the buckets partition the word, the value zero and
\* every power of two on the right side of their boundary (bit_width).
RangesPartition ==
    \A width \in 0 .. BITS : value \in BucketRange(width) <=> BitWidth(value) = width

\* Every value of a narrower bucket is smaller than every value of a wider one,
\* which lets both sorts order whole buckets by their index alone
\* (snapshot_sort.rs, sarkar_sort.rs Phase A).
BucketsOrdered ==
    \A other \in U64 : BitWidth(value) < BitWidth(other) => value < other

\* The generator never reaches zero, where it would repeat one value for ever,
\* whatever it was seeded with and however many words were drawn.
NeverStuck == rng \in U64 \ {0}

\* What a draw yields is what its kind of data promises.  In the high entropy data
\* every class but the last, which is any word, gives values of exactly its width
\* (gen_high_entropy); the uniform "worst case" fills a single bucket
\* (gen_uniform_width); clusters stay inside their ranges (gen_clustered).  The
\* value the searches of the comparison look for in vain is never in the uniform
\* data, and in the high entropy data only as a word of the last class.
DataAsTitled ==
    [][class # 0 /\ class' = 0 =>
         /\ value' \in U64
         /\ kind = "high_entropy" /\ class <= BITS => BitWidth(value') = class - 1
         /\ kind = "uniform" => BitWidth(value') = BITS \div 2
         /\ kind = "clustered" =>
               \E c \in DOMAIN Clusters : value' \in Clusters[c][1] .. Clusters[c][2]
         /\ kind = "uniform" \/ (kind = "high_entropy" /\ class <= BITS) =>
               value' # MissTarget]_vars
===============================================================================
