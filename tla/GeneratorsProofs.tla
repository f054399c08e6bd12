--------------------------- MODULE GeneratorsProofs ---------------------------
(***************************************************************************)
(* For every word size, all shifts and all seeds: the generator never gets *)
(* stuck at zero, and every value it is asked for is a word, which routing *)
(* puts into the bucket of its range.                                      *)
(***************************************************************************)
EXTENDS Generators, BitRoutingProofs

\* A word has more than one value, and its largest one is one.
LEMMA WordHasTwo == PowerOfTwo(BITS) \in Nat /\ PowerOfTwo(BITS) > 1
<1>1. BITS \in Nat /\ BITS > 1
  BY BITSAssumption, GeneratorAssumption
<1>2. PowerOfTwo(0) \in Nat /\ PowerOfTwo(1) \in Nat /\ PowerOfTwo(BITS) \in Nat
  BY <1>1, PowerType
<1>3. PowerOfTwo(0) < PowerOfTwo(1) /\ PowerOfTwo(1) < PowerOfTwo(BITS)
  BY <1>1, PowerIncreases
<1> QED BY <1>2, <1>3

\* A word that is not zero has a one-bit: the highest power of two in it.
LEMMA SomeOne ==
    ASSUME NEW x \in U64, x # 0
    PROVE  Ones(x) # {}
<1> DEFINE w == BitWidth(x)
<1>1. w \in 0 .. BITS /\ x < PowerOfTwo(w)
      /\ \A k \in 0 .. BITS : k < w => PowerOfTwo(k) <= x
  BY BitWidthLeast
<1>2. w # 0
  <2>1. 0 \in 0 .. BITS
    BY BITSAssumption
  <2> QED BY <2>1, RangeOfBucket DEF BucketRange
<1> HIDE DEF w
<1>3. w - 1 \in 0 .. BITS - 1 /\ w - 1 \in 0 .. BITS /\ w - 1 \in Nat /\ w - 1 < w
  BY <1>1, <1>2, BITSAssumption
<1> DEFINE p == PowerOfTwo(w - 1)
<1>4. p <= x /\ x < p + p /\ p \in Nat /\ x \in Nat
  <2>1. PowerOfTwo(w) = p + p
    <3>1. (w - 1) + 1 = w
      BY <1>1, BITSAssumption
    <3> QED BY <1>3, <3>1, PowerDoubles
  <2> QED BY <1>1, <1>3, <2>1, PowerType DEF U64
<1> HIDE DEF p
<1>5. x \div p = 1
  BY <1>4, Z3
<1>6. w - 1 \in Ones(x)
  BY <1>3, <1>5 DEF Ones, p
<1> QED BY <1>6

\* Zero has none.
LEMMA NoOne == Ones(0) = {}
<1> SUFFICES ASSUME NEW k \in 0 .. BITS - 1
             PROVE  (0 \div PowerOfTwo(k)) % 2 # 1
  BY DEF Ones
<1>1. k \in Nat
  BY BITSAssumption
<1>2. PowerOfTwo(k) \in Nat \ {0}
  <2>1. PowerOfTwo(0) \in Nat /\ PowerOfTwo(k) \in Nat
    BY <1>1, PowerType
  <2>2. CASE k = 0
    BY <2>1, <2>2, PowerDoubles, PowerIncreases, PowerType
  <2>3. CASE k > 0
    BY <1>1, <2>1, <2>3, PowerIncreases
  <2> QED BY <1>1, <2>2, <2>3
<1>3. 0 \div PowerOfTwo(k) = 0
  BY <1>2, Z3
<1> QED BY <1>3

\* The lowest one-bit outlives a shift to the left, the highest one to the right.
LEMMA XorLeftKeeps ==
    ASSUME NEW word \in SUBSET (0 .. BITS - 1), word # {}, NEW by \in Nat \ {0}
    PROVE  /\ Xor(word, ShiftLeft(word, by)) \in SUBSET (0 .. BITS - 1)
           /\ Xor(word, ShiftLeft(word, by)) # {}
<1>1. Xor(word, ShiftLeft(word, by)) \in SUBSET (0 .. BITS - 1)
  BY DEF Xor, ShiftLeft
<1>2. PICK low \in word : \A k \in word : low <= k
  <2>1. word \in SUBSET Nat
    OBVIOUS
  <2> QED BY <2>1, LeastNat
<1>3. low \notin ShiftLeft(word, by)
  <2>1. \A k \in word : k + by # low
    BY <1>2, BITSAssumption
  <2> QED BY <2>1 DEF ShiftLeft
<1> QED BY <1>1, <1>2, <1>3 DEF Xor

LEMMA XorRightKeeps ==
    ASSUME NEW word \in SUBSET (0 .. BITS - 1), word # {}, NEW by \in Nat \ {0}
    PROVE  /\ Xor(word, ShiftRight(word, by)) \in SUBSET (0 .. BITS - 1)
           /\ Xor(word, ShiftRight(word, by)) # {}
<1>1. Xor(word, ShiftRight(word, by)) \in SUBSET (0 .. BITS - 1)
  <2>1. \A k \in word : k >= by => k - by \in 0 .. BITS - 1
    BY BITSAssumption
  <2> QED BY <2>1 DEF Xor, ShiftRight
<1>2. PICK high \in word : \A k \in word : k <= high
  <2> DEFINE gaps == {BITS - k : k \in word}
  <2>1. gaps \in SUBSET Nat /\ gaps # {}
    <3>1. \A k \in word : BITS - k \in Nat
      BY BITSAssumption
    <3>2. PICK k \in word : TRUE
      OBVIOUS
    <3>3. BITS - k \in gaps
      OBVIOUS
    <3> QED BY <3>1, <3>3
  <2> HIDE DEF gaps
  <2>2. PICK gap \in gaps : \A g \in gaps : gap <= g
    BY <2>1, LeastNat
  <2>3. PICK high \in word : gap = BITS - high
    BY DEF gaps
  <2>4. ASSUME NEW k \in word PROVE k <= high
    <3>1. BITS - high <= BITS - k
      BY <2>2, <2>3 DEF gaps
    <3> QED BY <3>1, BITSAssumption
  <2> QED BY <2>4
<1>3. high \notin ShiftRight(word, by)
  <2>1. \A k \in word : k - by # high
    BY <1>2, BITSAssumption
  <2> QED BY <2>1 DEF ShiftRight
<1> QED BY <1>1, <1>2, <1>3 DEF Xor

LEMMA ScrambledKeeps ==
    ASSUME NEW word \in SUBSET (0 .. BITS - 1), word # {}
    PROVE  Scrambled(word) # {}
<1> DEFINE first  == Xor(word, ShiftLeft(word, Shifts[1]))
           second == Xor(first, ShiftRight(first, Shifts[2]))
<1>1. \A j \in 1 .. 3 : Shifts[j] \in Nat \ {0}
  BY GeneratorAssumption
<1>2. first \in SUBSET (0 .. BITS - 1) /\ first # {}
  BY <1>1, XorLeftKeeps
<1> HIDE DEF first
<1>3. second \in SUBSET (0 .. BITS - 1) /\ second # {}
  BY <1>1, <1>2, XorRightKeeps
<1>4. Scrambled(word) = Xor(second, ShiftLeft(second, Shifts[3]))
  BY DEF Scrambled, first
<1> HIDE DEF second
<1> QED BY <1>1, <1>3, <1>4, XorLeftKeeps

\* A draw from a word that is not zero gives one that is not zero.
LEMMA DrawKeeps ==
    ASSUME NeverStuck, Draw
    PROVE  NeverStuck'
<1>1. Ones(rng) \in SUBSET (0 .. BITS - 1) /\ Ones(rng) # {}
  BY SomeOne DEF NeverStuck, Ones
<1>2. Ones(rng') # {} /\ rng' \in U64
  BY <1>1, ScrambledKeeps DEF Draw
<1> QED BY <1>2, NoOne DEF NeverStuck

(***************************************************************************)
(* Xorshift64: from every seed, the word of the generator is never zero,   *)
(* whatever the shifts are, as long as none of them is zero.               *)
(***************************************************************************)
THEOREM GeneratorRunsOn == Spec => []NeverStuck
<1>1. Init => NeverStuck
  <2>1. 1 \in U64
    BY WordHasTwo DEF U64
  <2> QED BY <2>1, GeneratorAssumption DEF Init, Seeded, NeverStuck
<1>2. NeverStuck /\ [Next]_vars => NeverStuck'
  <2> SUFFICES ASSUME NeverStuck, [Next]_vars PROVE NeverStuck'
    OBVIOUS
  <2>1. CASE ChooseClass
    BY <2>1, DrawKeeps DEF ChooseClass, NeverStuck
  <2>2. CASE DrawZero
    BY <2>2 DEF DrawZero, NeverStuck
  <2>3. CASE DrawValue
    BY <2>3, DrawKeeps DEF DrawValue
  <2>4. CASE CountOn
    BY <2>4 DEF CountOn, NeverStuck
  <2>5. CASE UNCHANGED vars
    BY <2>5 DEF vars, NeverStuck
  <2> QED BY <2>1, <2>2, <2>3, <2>4, <2>5 DEF Next
<1> QED BY <1>1, <1>2, PTL DEF Spec

-------------------------------------------------------------------------------
(* What is drawn is a word.                                                *)

IsSource(source) == /\ source.first \in U64 /\ source.last \in U64
                    /\ source.first <= source.last

\* Every source of every kind of data is a range inside the word.
LEMMA RangesAreSources ==
    ASSUME NEW ranges \in {Clusters, Mixture}
    PROVE  /\ SourcesOf(ranges) \in Seq({Source(a, b) : a \in U64, b \in U64})
           /\ Len(SourcesOf(ranges)) = Len(ranges)
           /\ Len(ranges) \in Nat \ {0}
           /\ \A c \in 1 .. Len(ranges) : IsSource(SourcesOf(ranges)[c])
<1>1. /\ ranges \in Seq(U64 \X U64) /\ ranges # <<>>
      /\ \A c \in DOMAIN ranges : ranges[c][1] <= ranges[c][2]
  BY GeneratorAssumption
<1>2. DOMAIN ranges = 1 .. Len(ranges) /\ Len(ranges) \in Nat \ {0}
  BY <1>1
<1>3. \A c \in DOMAIN ranges : ranges[c][1] \in U64 /\ ranges[c][2] \in U64
  BY <1>1
<1>4. SourcesOf(ranges) \in [1 .. Len(ranges) -> {Source(a, b) : a \in U64, b \in U64}]
  BY <1>2, <1>3 DEF SourcesOf
<1>5. \A c \in 1 .. Len(ranges) : IsSource(SourcesOf(ranges)[c])
  BY <1>1, <1>2, <1>3 DEF SourcesOf, Source, IsSource
<1> QED BY <1>2, <1>4, <1>5

LEMMA WidthIsSource ==
    ASSUME NEW width \in 1 .. BITS
    PROVE  IsSource(OfWidth(width))
<1>1. width - 1 \in Nat /\ width \in Nat /\ BITS \in Nat
  BY BITSAssumption
<1>2. /\ PowerOfTwo(width - 1) \in Nat /\ PowerOfTwo(width) \in Nat /\ PowerOfTwo(BITS) \in Nat
      /\ PowerOfTwo(width - 1) < PowerOfTwo(width)
  BY <1>1, PowerType, PowerIncreases
<1>3. PowerOfTwo(width) <= PowerOfTwo(BITS)
  <2>1. CASE width = BITS
    BY <1>2, <2>1
  <2>2. CASE width < BITS
    BY <1>1, <1>2, <2>2, PowerIncreases
  <2> QED BY <1>1, <2>1, <2>2
<1>4. PowerOfTwo(width - 1) \in U64 /\ PowerOfTwo(width) - 1 \in U64
      /\ PowerOfTwo(width - 1) <= PowerOfTwo(width) - 1
  BY <1>2, <1>3 DEF U64
<1> QED BY <1>4 DEF OfWidth, Source, IsSource

LEMMA AnyWordIsSource == IsSource(AnyWord) /\ IsSource(Source(0, 0))
<1>1. 0 \in U64 /\ PowerOfTwo(BITS) - 1 \in U64 /\ 0 <= PowerOfTwo(BITS) - 1
  BY WordHasTwo DEF U64
<1> QED BY <1>1 DEF AnyWord, Source, IsSource

LEMMA SourcesInWord ==
    ASSUME NEW k \in DOMAIN Sources
    PROVE  /\ Len(Sources[k]) \in Nat \ {0}
           /\ \A c \in 1 .. Len(Sources[k]) : IsSource(Sources[k][c])
<1>1. CASE k = "high_entropy"
  <2>1. Sources[k] = HighEntropy
    BY <1>1 DEF Sources
  <2>2. HighEntropy \in [1 .. BITS + 1 -> {HighEntropy[c] : c \in 1 .. BITS + 1}]
    BY DEF HighEntropy
  <2>3. Len(HighEntropy) = BITS + 1
    BY <2>2, BITSAssumption
  <2>4. ASSUME NEW c \in 1 .. BITS + 1 PROVE IsSource(HighEntropy[c])
    <3>1. c # 1 /\ c # BITS + 1 => c - 1 \in 1 .. BITS
      BY BITSAssumption
    <3> QED BY <3>1, WidthIsSource, AnyWordIsSource DEF HighEntropy
  <2> QED BY <2>1, <2>3, <2>4, BITSAssumption
<1>2. CASE k = "uniform"
  <2>1. Sources[k] = <<OfWidth(BITS \div 2)>>
    BY <1>2 DEF Sources
  <2>2. BITS \div 2 \in 1 .. BITS
    BY BITSAssumption, GeneratorAssumption
  <2> QED BY <2>1, <2>2, WidthIsSource
<1>3. CASE k = "clustered"
  <2>1. Sources[k] = SourcesOf(Clusters)
    BY <1>3 DEF Sources
  <2> QED BY <2>1, RangesAreSources
<1>4. CASE k = "mixture"
  <2> DEFINE front == SourcesOf(Mixture)
  <2>1. Sources[k] = Append(front, AnyWord)
    BY <1>4 DEF Sources
  <2>2. /\ front \in Seq({Source(a, b) : a \in U64, b \in U64})
        /\ Len(front) \in Nat /\ \A c \in 1 .. Len(front) : IsSource(front[c])
    BY RangesAreSources
  <2> HIDE DEF front
  <2>3. /\ Len(Append(front, AnyWord)) = Len(front) + 1
        /\ \A c \in 1 .. Len(front) : Append(front, AnyWord)[c] = front[c]
        /\ Append(front, AnyWord)[Len(front) + 1] = AnyWord
    BY <2>2
  <2>4. ASSUME NEW c \in 1 .. Len(front) + 1
        PROVE  IsSource(Append(front, AnyWord)[c])
    <3>1. c \in 1 .. Len(front) \/ c = Len(front) + 1
      BY <2>2
    <3> QED BY <2>2, <2>3, <3>1, AnyWordIsSource
  <2> QED BY <2>1, <2>2, <2>3, <2>4
<1> QED BY <1>1, <1>2, <1>3, <1>4 DEF Sources

LEMMA Remainder == ASSUME NEW n \in Nat, NEW d \in Nat \ {0} PROVE n % d \in 0 .. d - 1
BY Z3

\* What the properties of the values rest on.
DataInv ==
    /\ rng \in U64 /\ value \in U64
    /\ kind \in DOMAIN Sources \cup {"sequential"}
    /\ IF kind = "sequential" THEN class = 0 ELSE class \in 0 .. Len(Sources[kind])

LEMMA DataStays == Spec => []DataInv
<1>0. 0 \in U64 /\ 1 \in U64 /\ "sequential" \notin DOMAIN Sources
  BY WordHasTwo DEF U64, Sources
<1>1. Init => DataInv
  <2> SUFFICES ASSUME Init PROVE DataInv
    OBVIOUS
  <2>1. rng \in U64
    BY <1>0, GeneratorAssumption DEF Init, Seeded
  <2>2. kind # "sequential" => 0 \in 0 .. Len(Sources[kind])
    BY SourcesInWord DEF Init
  <2> QED BY <1>0, <2>1, <2>2 DEF Init, DataInv
<1>2. DataInv /\ [Next]_vars => DataInv'
  <2> SUFFICES ASSUME DataInv, [Next]_vars PROVE DataInv'
    OBVIOUS
  <2>1. CASE ChooseClass
    <3>1. kind \in DOMAIN Sources /\ kind' = kind /\ value' = value
      BY <2>1 DEF DataInv, ChooseClass
    <3>2. Len(Sources[kind]) \in Nat \ {0}
      BY <3>1, SourcesInWord
    <3>3. rng' \in U64
      BY <2>1 DEF DataInv, ChooseClass, Draw
    <3>4. rng' % Len(Sources[kind]) \in 0 .. Len(Sources[kind]) - 1
      BY <3>2, <3>3 DEF U64
    <3>5. class' \in 0 .. Len(Sources[kind])
      BY <2>1, <3>2, <3>4 DEF ChooseClass
    <3> QED BY <1>0, <3>1, <3>3, <3>5 DEF DataInv
  <2>2. CASE DrawZero
    <3>1. 0 \in 0 .. Len(Sources[kind])
      BY <2>2, SourcesInWord DEF DrawZero, Sources
    <3> QED BY <1>0, <2>2, <3>1 DEF DataInv, DrawZero
  <2>3. CASE DrawValue
    <3>1. kind \in DOMAIN Sources /\ class \in 1 .. Len(Sources[kind]) /\ kind' = kind
      BY <2>3, SourcesInWord DEF DataInv, DrawValue
    <3> DEFINE source == Sources[kind][class]
    <3>2. IsSource(source) /\ 0 \in 0 .. Len(Sources[kind])
      BY <3>1, SourcesInWord
    <3>3. rng' \in U64 /\ class' = 0
      BY <2>3 DEF DrawValue, Draw
    <3>4. value' = source.first + (rng' % (source.last - source.first + 1))
      BY <2>3 DEF DrawValue
    <3> HIDE DEF source
    <3>5. value' \in U64
      <4> DEFINE span == source.last - source.first + 1
      <4>1. PowerOfTwo(BITS) \in Nat /\ source.first \in Nat /\ source.last \in Nat
            /\ source.last <= PowerOfTwo(BITS) - 1 /\ span \in Nat \ {0} /\ rng' \in Nat
        BY <3>2, <3>3, WordHasTwo DEF IsSource, U64
      <4> HIDE DEF span
      <4>2. rng' % span \in 0 .. span - 1
        BY <4>1, Remainder
      <4> QED BY <3>4, <4>1, <4>2 DEF U64, span
    <3> QED BY <1>0, <3>1, <3>2, <3>3, <3>5 DEF DataInv
  <2>4. CASE CountOn
    BY <2>4 DEF DataInv, CountOn
  <2>5. CASE UNCHANGED vars
    BY <2>5 DEF DataInv, vars
  <2> QED BY <2>1, <2>2, <2>3, <2>4, <2>5 DEF Next
<1> QED BY <1>1, <1>2, PTL DEF Spec

(***************************************************************************)
(* bit_width on whatever data: every generated value is in the bucket of   *)
(* its documented range and in no other, for every word size.              *)
(***************************************************************************)
THEOREM ValuesPartitioned == Spec => []RangesPartition
<1>1. DataInv => RangesPartition
  BY RangeOfBucket DEF DataInv, RangesPartition
<1> QED BY <1>1, DataStays, PTL

(***************************************************************************)
(* Every generated value is below all values of wider buckets.             *)
(***************************************************************************)
THEOREM ValuesOrdered == Spec => []BucketsOrdered
<1>1. DataInv => BucketsOrdered
  BY WiderIsGreater DEF DataInv, BucketsOrdered
<1> QED BY <1>1, DataStays, PTL

-------------------------------------------------------------------------------
(* What is drawn is of the kind of data.                                   *)

\* A value drawn is in the range of the source drawn for it.
LEMMA DrawnFrom ==
    ASSUME DataInv, DrawValue
    PROVE  /\ kind \in DOMAIN Sources /\ class \in 1 .. Len(Sources[kind]) /\ kind' = kind
           /\ value' \in Sources[kind][class].first .. Sources[kind][class].last
<1>1. kind \in DOMAIN Sources /\ class \in 1 .. Len(Sources[kind]) /\ kind' = kind
  BY SourcesInWord DEF DataInv, DrawValue
<1>2. PICK source : source = Sources[kind][class]
  OBVIOUS
<1>3. source.first \in Nat /\ source.last \in Nat /\ source.first <= source.last
  BY <1>1, <1>2, SourcesInWord DEF IsSource, U64
<1>4. rng' \in Nat /\ value' = source.first + (rng' % (source.last - source.first + 1))
  BY <1>2 DEF DrawValue, Draw, U64
<1>5. PICK span : span = source.last - source.first + 1
  OBVIOUS
<1>6. span \in Nat \ {0} /\ rng' % span \in 0 .. span - 1
  BY <1>3, <1>4, <1>5, Remainder
<1>7. value' \in source.first .. source.last
  BY <1>3, <1>4, <1>5, <1>6
<1> QED BY <1>1, <1>2, <1>7

\* The source of a width is the bucket of that width.
LEMMA WidthIsBucket ==
    ASSUME NEW width \in 1 .. BITS
    PROVE  OfWidth(width).first .. OfWidth(width).last = BucketRange(width)
<1>1. width # 0
  BY BITSAssumption
<1> QED BY <1>1 DEF OfWidth, Source, BucketRange

\* A value with the highest bit set is in no narrower bucket.
LEMMA NarrowerMisses ==
    ASSUME NEW x \in U64, NEW width \in 0 .. BITS - 1, BitWidth(x) = width
    PROVE  x # MissTarget
<1>1. BITS \in Nat /\ BITS > 1 /\ BITS - 1 \in Nat /\ BITS - 1 \in 0 .. BITS
      /\ width \in 0 .. BITS
  BY BITSAssumption, GeneratorAssumption
<1>2. PowerOfTwo(BITS - 1) \in Nat /\ PowerOfTwo(BITS) \in Nat
  BY <1>1, PowerType
<1>3. x < PowerOfTwo(width) /\ PowerOfTwo(width) \in Nat /\ x \in Nat
  BY <1>1, BitWidthLeast, PowerType DEF U64
<1>4. PowerOfTwo(width) <= PowerOfTwo(BITS - 1)
  <2>1. PICK b : b = BITS - 1
    OBVIOUS
  <2>2. b \in Nat /\ width \in Nat /\ width <= b /\ PowerOfTwo(b) \in Nat
    BY <1>1, <1>2, <2>1
  <2>3. CASE width = b
    BY <2>1, <2>2, <2>3
  <2>4. CASE width < b
    BY <1>3, <2>1, <2>2, <2>4, PowerIncreases
  <2> QED BY <2>2, <2>3, <2>4
<1>5. MissTarget \in Nat /\ PowerOfTwo(BITS - 1) <= MissTarget
  BY <1>2, MissAssumption
<1> QED BY <1>2, <1>3, <1>4, <1>5

\* The sources of the uniform data and of the classes of the high entropy data.
LEMMA UniformSource ==
    /\ BITS \div 2 \in 1 .. BITS - 1 /\ BITS \div 2 \in 1 .. BITS
    /\ \A c \in 1 .. Len(Sources["uniform"]) : Sources["uniform"][c] = OfWidth(BITS \div 2)
<1>1. BITS \div 2 \in 1 .. BITS - 1 /\ BITS \div 2 \in 1 .. BITS
  BY BITSAssumption, GeneratorAssumption
<1>2. Sources["uniform"] = <<OfWidth(BITS \div 2)>>
  BY DEF Sources
<1> QED BY <1>1, <1>2

LEMMA EntropySource ==
    ASSUME NEW c \in 2 .. BITS
    PROVE  Sources["high_entropy"][c] = OfWidth(c - 1) /\ c - 1 \in 1 .. BITS
<1>1. c \in 1 .. BITS + 1 /\ c # 1 /\ c # BITS + 1 /\ c - 1 \in 1 .. BITS
  BY BITSAssumption
<1>2. Sources["high_entropy"] = HighEntropy
  BY DEF Sources
<1> QED BY <1>1, <1>2 DEF HighEntropy

\* Zero has no width.
LEMMA ZeroWidth == 0 \in U64 /\ BitWidth(0) = 0
<1>1. 0 \in U64 /\ 0 \in 0 .. BITS
  BY WordHasTwo, BITSAssumption DEF U64
<1> QED BY <1>1, RangeOfBucket DEF BucketRange

\* A class of the high entropy data yields values of its width.
LEMMA EntropyDrawn ==
    ASSUME DataInv, value' \in U64, DrawZero \/ DrawValue,
           kind = "high_entropy", class <= BITS
    PROVE  BitWidth(value') = class - 1 /\ class - 1 \in 0 .. BITS - 1
<1>1. CASE DrawZero
  <2>1. class = 1 /\ value' = 0
    BY <1>1 DEF DrawZero
  <2> QED BY <2>1, ZeroWidth, BITSAssumption
<1>2. CASE DrawValue
  <2>1. /\ class \in 1 .. Len(Sources[kind])
        /\ value' \in Sources[kind][class].first .. Sources[kind][class].last
    BY <1>2, DrawnFrom
  <2>2. class # 1 /\ Len(Sources[kind]) \in Nat
    BY <1>2, SourcesInWord DEF DrawValue, Sources
  <2>3. class \in 2 .. BITS
    BY <2>1, <2>2, BITSAssumption
  <2>4. Sources[kind][class] = OfWidth(class - 1) /\ class - 1 \in 1 .. BITS
    BY <2>3, EntropySource
  <2>5. value' \in BucketRange(class - 1)
    BY <2>1, <2>4, WidthIsBucket
  <2>6. class - 1 \in 0 .. BITS /\ class - 1 \in 0 .. BITS - 1
    BY <2>3, BITSAssumption
  <2> QED BY <2>5, <2>6, RangeOfBucket
<1> QED BY <1>1, <1>2

(***************************************************************************)
(* The generators of both programs, for every word size, seed, shifts and  *)
(* clusters: a class of the high entropy data below the last yields values *)
(* of exactly its width, the uniform data fills one bucket, clustered data *)
(* stays inside the clusters, and neither of the first two yields the      *)
(* value searched for in vain.                                             *)
(***************************************************************************)
THEOREM ValuesAsTitled == Spec => DataAsTitled
<1> DEFINE Step ==
      class # 0 /\ class' = 0 =>
         /\ value' \in U64
         /\ kind = "high_entropy" /\ class <= BITS => BitWidth(value') = class - 1
         /\ kind = "uniform" => BitWidth(value') = BITS \div 2
         /\ kind = "clustered" =>
               \E c \in DOMAIN Clusters : value' \in Clusters[c][1] .. Clusters[c][2]
         /\ kind = "uniform" \/ (kind = "high_entropy" /\ class <= BITS) =>
               value' # MissTarget
<1>1. DataInv /\ DataInv' /\ [Next]_vars => [Step]_vars
  <2> SUFFICES ASSUME DataInv, DataInv', Next, class # 0, class' = 0
               PROVE  Step
    BY DEF vars
  <2>1. value' \in U64
    BY DEF DataInv
  <2>2. DrawZero \/ DrawValue
    <3>1. ~ ChooseClass
      BY DEF ChooseClass
    <3>2. ~ CountOn
      BY DEF CountOn
    <3> QED BY <3>1, <3>2 DEF Next
  <2>3. ASSUME kind = "high_entropy", class <= BITS
        PROVE  BitWidth(value') = class - 1 /\ value' # MissTarget
    <3>1. BitWidth(value') = class - 1 /\ class - 1 \in 0 .. BITS - 1
      BY <2>1, <2>2, <2>3, EntropyDrawn
    <3> QED BY <2>1, <3>1, NarrowerMisses
  <2>4. kind # "high_entropy" =>
            /\ class \in 1 .. Len(Sources[kind])
            /\ value' \in Sources[kind][class].first .. Sources[kind][class].last
    BY <2>2, DrawnFrom DEF DrawZero
  <2>5. ASSUME kind = "uniform"
        PROVE  BitWidth(value') = BITS \div 2 /\ value' # MissTarget
    <3>1. value' \in BucketRange(BITS \div 2)
      BY <2>4, <2>5, UniformSource, WidthIsBucket
    <3>2. PICK w : w = BITS \div 2
      OBVIOUS
    <3>3. w \in 0 .. BITS /\ w \in 0 .. BITS - 1
      BY <3>2, UniformSource, BITSAssumption
    <3>4. BitWidth(value') = w
      BY <2>1, <3>1, <3>2, <3>3, RangeOfBucket
    <3> QED BY <2>1, <3>2, <3>3, <3>4, NarrowerMisses
  <2>6. ASSUME kind = "clustered"
        PROVE  \E c \in DOMAIN Clusters : value' \in Clusters[c][1] .. Clusters[c][2]
    <3>1. Sources["clustered"] = SourcesOf(Clusters)
      BY DEF Sources
    <3>2. class \in 1 .. Len(Clusters) /\ DOMAIN Clusters = 1 .. Len(Clusters)
      BY <2>4, <2>6, <3>1, RangesAreSources, GeneratorAssumption
    <3>3. Sources[kind][class] = Source(Clusters[class][1], Clusters[class][2])
      BY <2>6, <3>1, <3>2 DEF SourcesOf
    <3> QED BY <2>4, <2>6, <3>2, <3>3 DEF Source
  <2> QED BY <2>1, <2>3, <2>5, <2>6
<1>2. Spec => [][Step]_vars
  BY <1>1, DataStays, PTL DEF Spec
<1> QED BY <1>2 DEF DataAsTitled
===============================================================================
