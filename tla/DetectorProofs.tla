----------------------------- MODULE DetectorProofs -----------------------------
(***************************************************************************)
(* Proofs about DetectorScan and LlmHooks: for any texts, the scan finds    *)
(* what a text is worth, and the hooks of both libraries unblock nothing.   *)
(***************************************************************************)
EXTENDS LlmHooks, WellFoundedInduction, TLAPS

(***************************************************************************)
(* Numbers.  A set of naturals has a least element, which stands for       *)
(* induction below: there is no first number for which a fact fails.       *)
(***************************************************************************)
LEMMA LeastNat ==
    ASSUME NEW T \in SUBSET Nat, T # {}
    PROVE  \E n \in T : \A m \in T : n <= m
<1>1. PICK n \in T : \A m \in T : ~(<<m, n>> \in OpToRel(<, Nat))
  BY NatLessThanWellFounded, WFMin
<1>2. ASSUME NEW m \in T PROVE n <= m
  <2>1. <<m, n>> \in Nat \X Nat
    OBVIOUS
  <2>2. ~(m < n)
    BY <1>1, <2>1 DEF OpToRel
  <2> QED
    BY <2>2
<1> QED
  BY <1>2

LEMMA ScoresAreNat == \A w \in Scores : w \in Nat /\ w <= 100
BY DEF Scores

\* The heaviest of several scores.
LEMMA MaxScore ==
    ASSUME NEW S \in SUBSET Scores, S # {}
    PROVE  /\ Max(S) \in S
           /\ \A w \in S : w <= Max(S)
<1> DEFINE T == {100 - w : w \in S}
<1>1. T \in SUBSET Nat /\ T # {}
  <2>1. \A w \in S : 100 - w \in Nat
    BY DEF Scores
  <2> QED
    BY <2>1
<1>2. PICK n \in T : \A m \in T : n <= m
  BY <1>1, LeastNat
<1>3. PICK x \in S : n = 100 - x
  OBVIOUS
<1>4. ASSUME NEW w \in S PROVE x >= w
  <2>1. 100 - w \in T
    OBVIOUS
  <2>2. 100 - x <= 100 - w
    BY <1>2, <1>3, <2>1
  <2>3. x \in Nat /\ w \in Nat
    BY ScoresAreNat
  <2> QED
    BY <2>2, <2>3
<1>5. Max(S) \in S /\ \A w \in S : Max(S) >= w
  BY <1>4 DEF Max
<1> QED
  BY <1>5 DEF Scores

\* Sums over the beginnings of a list of gains exist, whatever its length ...
LEMMA SumsExist ==
    ASSUME NEW N \in Nat, NEW gain
    PROVE  \E f : f = [n \in 0 .. N |-> IF n = 0 THEN 0 ELSE f[n - 1] + gain[n]]
<1> DEFINE Good(n) ==
            \E f : f = [k \in 0 .. n |-> IF k = 0 THEN 0 ELSE f[k - 1] + gain[k]]
           Bad == {n \in Nat : ~Good(n)}
<1>1. Good(0)
  <2>1. [k \in 0 .. 0 |-> 0] = [k \in 0 .. 0 |-> IF k = 0 THEN 0
                                  ELSE [l \in 0 .. 0 |-> 0][k - 1] + gain[k]]
    OBVIOUS
  <2> QED
    BY <2>1
<1>2. ASSUME NEW n \in Nat, Good(n) PROVE Good(n + 1)
  <2>1. PICK f : f = [k \in 0 .. n |-> IF k = 0 THEN 0 ELSE f[k - 1] + gain[k]]
    BY <1>2
  <2> DEFINE g == [k \in 0 .. n + 1 |-> IF k = n + 1 THEN f[n] + gain[k] ELSE f[k]]
  <2>2. ASSUME NEW k \in 0 .. n + 1
        PROVE  g[k] = IF k = 0 THEN 0 ELSE g[k - 1] + gain[k]
    <3>1. CASE k = n + 1
      BY <3>1
    <3>2. CASE k # n + 1
      <4>1. k \in 0 .. n /\ g[k] = f[k] /\ (k # 0 => g[k - 1] = f[k - 1])
        BY <3>2
      <4>2. f[k] = IF k = 0 THEN 0 ELSE f[k - 1] + gain[k]
        BY <2>1, <4>1
      <4> QED
        BY <4>1, <4>2
    <3> QED
      BY <3>1, <3>2
  <2>3. g = [k \in 0 .. n + 1 |-> IF k = 0 THEN 0 ELSE g[k - 1] + gain[k]]
    <3> DEFINE h == [k \in 0 .. n + 1 |-> IF k = 0 THEN 0 ELSE g[k - 1] + gain[k]]
    <3>1. DOMAIN g = 0 .. n + 1 /\ g = [k \in 0 .. n + 1 |-> g[k]]
      OBVIOUS
    <3>2. \A k \in 0 .. n + 1 : g[k] = h[k]
      BY <2>2
    <3> HIDE DEF g, h
    <3>3. h = [k \in 0 .. n + 1 |-> h[k]]
      BY DEF h
    <3> QED
      BY <3>1, <3>2, <3>3 DEF h
  <2> HIDE DEF g
  <2> QED
    BY <2>3
<1> HIDE DEF Good
<1>3. Bad = {}
  <2> SUFFICES ASSUME Bad # {} PROVE FALSE
    OBVIOUS
  <2>1. PICK n \in Bad : \A m \in Bad : n <= m
    BY LeastNat
  <2>2. n # 0
    BY <1>1
  <2>3. n - 1 \in Nat /\ Good(n - 1)
    BY <2>1, <2>2
  <2>4. Good((n - 1) + 1) /\ (n - 1) + 1 = n
    BY <1>2, <2>3
  <2> QED
    BY <2>4
<1> QED
  BY <1>3 DEF Good

\* ... and grow with the list.
LEMMA SumsGrow ==
    ASSUME NEW N \in Nat, NEW gain \in [1 .. N -> Nat], NEW f,
           f = [n \in 0 .. N |-> IF n = 0 THEN 0 ELSE f[n - 1] + gain[n]]
    PROVE  \A n \in 0 .. N : f[n] \in Nat /\ f[n] <= f[N]
<1>1. f[0] = 0 /\ \A n \in 1 .. N : f[n] = f[n - 1] + gain[n]
  OBVIOUS
<1>2. \A n \in 0 .. N : f[n] \in Nat
  <2> DEFINE Bad == {n \in 0 .. N : f[n] \notin Nat}
  <2> SUFFICES ASSUME Bad # {} PROVE FALSE
    OBVIOUS
  <2>1. Bad \in SUBSET Nat
    OBVIOUS
  <2>2. PICK n \in Bad : \A m \in Bad : n <= m
    BY <2>1, LeastNat
  <2>3. n \in 1 .. N
    BY <1>1
  <2>4. f[n - 1] \in Nat /\ gain[n] \in Nat
    BY <2>2, <2>3
  <2> QED
    BY <1>1, <2>3, <2>4
<1>3. \A n \in 0 .. N : f[n] <= f[N]
  <2> DEFINE Bad == {m \in 0 .. N : ~(f[N - m] <= f[N])}
  <2> SUFFICES ASSUME Bad # {} PROVE FALSE
    <3>1. ASSUME NEW n \in 0 .. N PROVE f[n] <= f[N]
      <4>1. N - n \in 0 .. N /\ N - (N - n) = n
        OBVIOUS
      <4> QED
        BY <4>1
    <3> QED
      BY <3>1
  <2>1. Bad \in SUBSET Nat
    OBVIOUS
  <2>2. PICK m \in Bad : \A k \in Bad : m <= k
    BY <2>1, LeastNat
  <2>3. m # 0
    BY <1>2
  <2>4. m - 1 \in 0 .. N /\ f[N - (m - 1)] <= f[N]
    <3>1. m - 1 \in 0 .. N /\ ~(m <= m - 1)
      BY <2>3
    <3>2. m - 1 \notin Bad
      BY <2>2, <3>1
    <3> QED
      BY <3>1, <3>2
  <2>5. /\ N - (m - 1) \in 1 .. N /\ (N - (m - 1)) - 1 = N - m
        /\ N - m \in 0 .. N
    BY <2>3
  <2>6. f[N - (m - 1)] = f[N - m] + gain[N - (m - 1)]
    BY <1>1, <2>5
  <2>7. /\ gain[N - (m - 1)] \in Nat /\ f[N - m] \in Nat /\ f[N] \in Nat
    BY <1>2, <2>5
  <2>8. f[N - m] <= f[N]
    BY <2>4, <2>6, <2>7
  <2> QED
    BY <2>2, <2>8
<1> QED
  BY <1>2, <1>3
--------------------------------------------------------------------------------
(***************************************************************************)
(* What a text is worth.                                                   *)
(***************************************************************************)
Words(t) == Found[t].encoded
Keywords(t) == Found[t].keywords
Heaviest(t, base) == Max({base} \cup Weights(Found[t]))

LEMMA FoundFacts ==
    ASSUME NEW t \in Texts
    PROVE  /\ Words(t) \in Seq(Texts) /\ Len(Words(t)) \in Nat
           /\ DOMAIN Words(t) = 1 .. Len(Words(t))
           /\ \A i \in 1 .. Len(Words(t)) : Words(t)[i] \in Texts
           /\ Keywords(t) \in Seq(Keyword) /\ Len(Keywords(t)) \in Nat
           /\ \A i \in 1 .. Len(Keywords(t)) : Keywords(t)[i] \in Keyword
           /\ Found[t].patterns \subseteq Pattern
BY ScanAssumption DEF Words, Keywords

LEMMA HeaviestType ==
    ASSUME NEW t \in Texts, NEW base \in {0, 35}
    PROVE  Heaviest(t, base) \in Scores
<1>1. \A p \in CountedPatterns(Found[t]) : p.weight \in Scores
  BY FoundFacts DEF CountedPatterns, Pattern
<1>2. {base} \cup Weights(Found[t]) \in SUBSET Scores
  BY <1>1 DEF Weights, Scores
<1> QED
  BY <1>2, MaxScore DEF Heaviest

LEMMA GainType ==
    ASSUME NEW t \in Texts, NEW i \in 1 .. Len(Keywords(t))
    PROVE  Gain(Found[t], Keywords(t)[i]) \in Nat
<1>1. PICK k : k = Keywords(t)[i]
  OBVIOUS
<1>2. k \in Keyword
  BY <1>1, FoundFacts
<1>3. k.weight \in Scores
  BY <1>2 DEF Keyword
<1>4. k.weight \in Nat
  BY <1>3, ScoresAreNat
<1> QED
  BY <1>1, <1>4 DEF Gain, WeightOf

\* What the keywords add up to, one by one.
LEMMA SumsFacts ==
    ASSUME NEW t \in Texts
    PROVE  /\ Sums(Found[t])[0] = 0
           /\ \A n \in 1 .. Len(Keywords(t)) :
                Sums(Found[t])[n]
                    = Sums(Found[t])[n - 1] + Gain(Found[t], Keywords(t)[n])
           /\ \A n \in 0 .. Len(Keywords(t)) :
                /\ Sums(Found[t])[n] \in Nat
                /\ Sums(Found[t])[n] <= Sums(Found[t])[Len(Keywords(t))]
<1>1. PICK N \in Nat : N = Len(Keywords(t))
  BY FoundFacts
<1> DEFINE gain == [n \in 1 .. N |-> Gain(Found[t], Keywords(t)[n])]
           Summing(f) == f = [n \in 0 .. N |->
                IF n = 0 THEN 0 ELSE f[n - 1] + Gain(Found[t], Keywords(t)[n])]
           Adding(f) == f = [n \in 0 .. N |-> IF n = 0 THEN 0 ELSE f[n - 1] + gain[n]]
<1>2. gain \in [1 .. N -> Nat]
  BY <1>1, GainType
<1>3. ASSUME NEW f PROVE Summing(f) <=> Adding(f)
  <2>1. \A n \in 0 .. N : n # 0 => gain[n] = Gain(Found[t], Keywords(t)[n])
    OBVIOUS
  <2> HIDE DEF gain
  <2>2. [n \in 0 .. N |-> IF n = 0 THEN 0 ELSE f[n - 1] + Gain(Found[t], Keywords(t)[n])]
        = [n \in 0 .. N |-> IF n = 0 THEN 0 ELSE f[n - 1] + gain[n]]
    BY <2>1
  <2> QED
    BY <2>2
<1>4. \E f : Adding(f)
  BY SumsExist
<1>5. Sums(Found[t]) = CHOOSE f : Summing(f)
  BY <1>1 DEF Sums, Keywords
<1>6. Summing(Sums(Found[t]))
  <2>1. \E f : Summing(f)
    BY <1>3, <1>4
  <2> HIDE DEF Summing
  <2> QED
    BY <1>5, <2>1
<1>7. PICK f : f = Sums(Found[t])
  OBVIOUS
<1>8. Summing(f) /\ Adding(f)
  BY <1>3, <1>6, <1>7
<1>9. \A n \in 0 .. N : f[n] \in Nat /\ f[n] <= f[N]
  <2> HIDE DEF gain
  <2> QED
    BY <1>2, <1>8, SumsGrow
<1>10. /\ f[0] = 0
       /\ \A n \in 1 .. N : f[n] = f[n - 1] + Gain(Found[t], Keywords(t)[n])
  <2>1. Summing(f)
    BY <1>8
  <2> QED
    BY <2>1
<1> QED
  BY <1>1, <1>7, <1>9, <1>10

\* What the keywords are signs of, one by one.
LEMMA KeywordClassesFacts ==
    ASSUME NEW t \in Texts
    PROVE  /\ KeywordClasses(Found[t], 0) = {}
           /\ \A n \in 1 .. Len(Keywords(t)) :
                KeywordClasses(Found[t], n) = KeywordClasses(Found[t], n - 1)
                    \cup (IF Counts(Found[t], Keywords(t)[n]) THEN {Keywords(t)[n].class}
                                                             ELSE {})
           /\ \A n \in 0 .. Len(Keywords(t)) :
                KeywordClasses(Found[t], n) \subseteq KeywordClasses(Found[t], Len(Keywords(t)))
<1>1. PICK N \in Nat : N = Len(Keywords(t))
  BY FoundFacts
<1>2. \A n : KeywordClasses(Found[t], n) =
            {Keywords(t)[i].class : i \in {j \in 1 .. n : Counts(Found[t], Keywords(t)[j])}}
  BY DEF KeywordClasses, Keywords
<1>3. ASSUME NEW n \in 1 .. N
      PROVE  KeywordClasses(Found[t], n) = KeywordClasses(Found[t], n - 1)
                \cup (IF Counts(Found[t], Keywords(t)[n]) THEN {Keywords(t)[n].class} ELSE {})
  <2>1. 1 .. n = (1 .. n - 1) \cup {n}
    OBVIOUS
  <2> QED
    BY <1>2, <2>1
<1>4. ASSUME NEW n \in 0 .. N
      PROVE  KeywordClasses(Found[t], n) \subseteq KeywordClasses(Found[t], N)
  <2>1. 1 .. n \subseteq 1 .. N
    OBVIOUS
  <2> QED
    BY <1>2, <2>1
<1>5. KeywordClasses(Found[t], 0) = {}
  <2>1. 1 .. 0 = {}
    OBVIOUS
  <2> QED
    BY <1>2, <2>1
<1> QED
  BY <1>1, <1>3, <1>4, <1>5

\* An encoded text settles the text around it.
Nested(depth, t) ==
    depth < 2 /\ \E i \in DOMAIN Words(t) : Worth[depth + 1][Words(t)[i]][0] >= 35

LEMMA PlainWorthType ==
    ASSUME NEW t \in Texts, NEW base \in {0, 35}
    PROVE  PlainWorth(Found[t], base) \in Scores
<1>1. Sums(Found[t])[Len(Keywords(t))] \in Nat
  BY FoundFacts, SumsFacts
<1>2. Heaviest(t, base) + Sums(Found[t])[Len(Keywords(t))] \in Nat
  <2>1. Heaviest(t, base) \in Scores
    BY HeaviestType
  <2>2. Heaviest(t, base) \in Nat
    BY <2>1 DEF Scores
  <2> QED
    BY <1>1, <2>2
<1>3. \A n \in Nat : Least(100, n) \in Scores
  BY DEF Least, Scores
<1> QED
  BY <1>2, <1>3 DEF PlainWorth, Heaviest, Keywords

\* The reference is well-defined: its recursion ends at the second encoding.
LEMMA WorthFacts ==
    ASSUME NEW depth \in 0 .. 2, NEW t \in Texts, NEW base \in {0, 35}
    PROVE  /\ Worth[depth][t][base] =
                IF Nested(depth, t) THEN 95 ELSE PlainWorth(Found[t], base)
           /\ Worth[depth][t][base] \in Scores
<1> DEFINE Level(d, inner) ==
            [text \in Texts |-> [b \in {0, 35} |->
                IF d < 2 /\ \E i \in DOMAIN Found[text].encoded :
                                inner[Found[text].encoded[i]][0] >= 35
                THEN 95 ELSE PlainWorth(Found[text], b)]]
           Fixed(f) == f = [d \in 0 .. 2 |->
            [text \in Texts |-> [b \in {0, 35} |->
                IF d < 2 /\ \E i \in DOMAIN Found[text].encoded :
                                f[d + 1][Found[text].encoded[i]][0] >= 35
                THEN 95 ELSE PlainWorth(Found[text], b)]]]
<1>1. \E f : Fixed(f)
  <2> DEFINE w2 == Level(2, 0)
             w1 == Level(1, w2)
             w0 == Level(0, w1)
             f == [d \in 0 .. 2 |-> IF d = 2 THEN w2 ELSE IF d = 1 THEN w1 ELSE w0]
  <2>1. f[0] = w0 /\ f[1] = w1 /\ f[2] = w2
    <3> HIDE DEF w0, w1, w2
    <3> QED
      OBVIOUS
  <2>2. w2 = Level(2, f[3])
    OBVIOUS
  <2>3. f[0] = Level(0, f[0 + 1]) /\ f[1] = Level(1, f[1 + 1]) /\ f[2] = Level(2, f[2 + 1])
    <3>1. 0 + 1 = 1 /\ 1 + 1 = 2 /\ 2 + 1 = 3
      OBVIOUS
    <3> HIDE DEF f, Level
    <3> QED
      BY <2>1, <2>2, <3>1
  <2>4. DOMAIN f = 0 .. 2 /\ f = [d \in 0 .. 2 |-> f[d]]
    OBVIOUS
  <2> HIDE DEF f
  <2>5. \A d \in 0 .. 2 : f[d] = Level(d, f[d + 1])
    <3>1. \A d \in 0 .. 2 : d = 0 \/ d = 1 \/ d = 2
      OBVIOUS
    <3> HIDE DEF Level
    <3> QED
      BY <2>3, <3>1
  <2>6. f = [d \in 0 .. 2 |-> Level(d, f[d + 1])]
    <3> HIDE DEF Level
    <3> QED
      BY <2>4, <2>5
  <2>7. Fixed(f)
    BY <2>6
  <2> QED
    BY <2>7
<1>2. Fixed(Worth)
  <2>1. Worth = CHOOSE f : Fixed(f)
    BY DEF Worth
  <2> HIDE DEF Fixed
  <2> QED
    BY <1>1, <2>1
<1>3. Worth[depth] = Level(depth, Worth[depth + 1])
  BY <1>2
<1>4. Worth[depth][t][base] =
        IF depth < 2 /\ \E i \in DOMAIN Found[t].encoded :
                            Worth[depth + 1][Found[t].encoded[i]][0] >= 35
        THEN 95 ELSE PlainWorth(Found[t], base)
  BY <1>3
<1>5. 95 \in Scores
  BY DEF Scores
<1> QED
  BY <1>4, <1>5, PlainWorthType DEF Nested, Words
--------------------------------------------------------------------------------
(***************************************************************************)
(* One frame.  It fits a text if its score is what the part of the text     *)
(* it has gone through is worth.                                           *)
(***************************************************************************)
Bases == {0, 35}

Frames ==
    [text : Texts, depth : 0 .. 2, phase : {"words", "keywords", "return"},
     at : Nat \ {0}, score : Scores, classes : SUBSET Classes]

Suspicious(depth, t) == Worth[depth + 1][t][0] >= 35

\* Exact, or both beyond the score at which the scan breaks off.
Settled(score, worth) == score = worth \/ (score >= 95 /\ worth >= 95)

\* All of them, unless the score is beyond that, too, or an encoded text settled it.
Told(score, classes, all) ==
    /\ classes \subseteq all \cup {"obfuscated"}
    /\ score < 95 => classes = all

\* What origin and patterns are signs of.
EarlyClasses(t, base) == OriginClasses(base) \cup MatchedClasses(Found[t])

Fits(f, base) ==
    /\ f.phase = "words" =>
        /\ f.score = base
        /\ f.classes = OriginClasses(base)
        /\ f.at <= Len(Words(f.text)) + 1
        /\ f.depth < 2 => \A i \in 1 .. Len(Words(f.text)) :
                            i < f.at => ~Suspicious(f.depth, Words(f.text)[i])
    /\ f.phase = "keywords" =>
        /\ ~Nested(f.depth, f.text)
        /\ f.at <= Len(Keywords(f.text)) + 1
        /\ f.score = Least(100, Heaviest(f.text, base) + Sums(Found[f.text])[f.at - 1])
        /\ f.classes = EarlyClasses(f.text, base)
                        \cup KeywordClasses(Found[f.text], f.at - 1)
    /\ f.phase = "return" =>
        /\ Settled(f.score, Worth[f.depth][f.text][base])
        /\ Told(f.score, f.classes, AllClasses(Found[f.text], base))

LEMMA AllClassesFacts ==
    ASSUME NEW t \in Texts, NEW base
    PROVE  AllClasses(Found[t], base)
            = EarlyClasses(t, base) \cup KeywordClasses(Found[t], Len(Keywords(t)))
BY DEF AllClasses, EarlyClasses, Keywords

LEMMA BeginFits ==
    ASSUME NEW t \in Texts, NEW origin, NEW depth \in 0 .. 2
    PROVE  /\ Frame(t, origin, depth) \in Frames
           /\ Frame(t, origin, depth).text = t /\ Frame(t, origin, depth).depth = depth
           /\ Fits(Frame(t, origin, depth), IF origin = "ocr" THEN 35 ELSE 0)
<1> DEFINE f == Frame(t, origin, depth)
<1>1. /\ f.text = t /\ f.depth = depth /\ f.phase = "words" /\ f.at = 1
      /\ f.score = IF origin = "ocr" THEN 35 ELSE 0
      /\ f.classes = OriginClasses(IF origin = "ocr" THEN 35 ELSE 0)
  BY DEF Frame, OriginClasses
<1>2. f \in Frames
  <2>1. 35 \in Scores /\ 0 \in Scores /\ "multimodal_injection" \in Classes
    BY DEF Scores, Classes
  <2> QED
    BY <2>1 DEF Frame, Frames
<1>3. Len(Words(t)) \in Nat
  BY FoundFacts
<1>4. 1 <= Len(Words(t)) + 1 /\ \A i \in 1 .. Len(Words(t)) : ~(i < 1)
  BY <1>3
<1> HIDE DEF f
<1>5. Fits(f, IF origin = "ocr" THEN 35 ELSE 0)
  BY <1>1, <1>4 DEF Fits
<1> QED
  BY <1>1, <1>2, <1>5 DEF f

\* A word that is nested too deep, or whose text is not suspicious, is passed over.
LEMMA SkipFits ==
    ASSUME NEW f \in Frames, NEW base \in Bases, Fits(f, base), f.phase = "words",
           f.at <= Len(Words(f.text)),
           f.depth < 2 => ~Suspicious(f.depth, Words(f.text)[f.at]),
           NEW g, g = [f EXCEPT !.at = @ + 1]
    PROVE  /\ g \in Frames /\ g.text = f.text /\ g.depth = f.depth
           /\ Fits(g, base)
<1>1. /\ f.text \in Texts /\ f.at \in Nat \ {0} /\ f.depth \in 0 .. 2
  BY DEF Frames
<1>2. /\ g \in Frames /\ g.text = f.text /\ g.depth = f.depth /\ g.phase = "words"
      /\ g.at = f.at + 1 /\ g.score = f.score /\ g.classes = f.classes
  BY <1>1 DEF Frames
<1>3. PICK n \in Nat : n = Len(Words(f.text))
  BY <1>1, FoundFacts
<1>4. \A i \in 1 .. n : i < g.at => i < f.at \/ i = f.at
  BY <1>1, <1>2
<1>5. g.at <= n + 1
  BY <1>1, <1>2, <1>3
<1> QED
  BY <1>2, <1>3, <1>4, <1>5 DEF Fits

\* A suspicious one settles the score.
Settle(f) == [f EXCEPT !.phase = "return", !.score = 95, !.classes = {"obfuscated"}]

LEMMA SettleFits ==
    ASSUME NEW f \in Frames, NEW base \in Bases, f.phase = "words",
           f.at <= Len(Words(f.text)), f.depth < 2,
           Suspicious(f.depth, Words(f.text)[f.at])
    PROVE  \E g \in Frames :
            /\ g = Settle(f)
            /\ g.text = f.text /\ g.depth = f.depth /\ Fits(g, base)
<1>0. PICK g : g = Settle(f)
  OBVIOUS
<1>1. f.text \in Texts /\ f.at \in Nat \ {0} /\ f.depth \in 0 .. 2
  BY DEF Frames
<1>2. 95 \in Scores /\ "obfuscated" \in Classes
  BY DEF Scores, Classes
<1>3. /\ g \in Frames /\ g.text = f.text /\ g.depth = f.depth /\ g.phase = "return"
      /\ g.score = 95 /\ g.classes = {"obfuscated"}
  BY <1>0, <1>2 DEF Frames, Settle
<1>4. f.at \in DOMAIN Words(f.text)
  <2>1. PICK n \in Nat : n = Len(Words(f.text)) /\ DOMAIN Words(f.text) = 1 .. n
    BY <1>1, FoundFacts
  <2> QED
    BY <1>1, <2>1
<1>5. Nested(f.depth, f.text)
  BY <1>4 DEF Nested, Suspicious
<1>6. Worth[g.depth][g.text][base] = 95
  BY <1>1, <1>3, <1>5, WorthFacts DEF Bases
<1>7. Told(g.score, g.classes, AllClasses(Found[g.text], base))
  BY <1>3 DEF Told
<1>8. Fits(g, base)
  BY <1>3, <1>6, <1>7 DEF Fits, Settled
<1> QED
  BY <1>0, <1>3, <1>8

\* After the words come the patterns, and the heaviest counts.
Matched(f, base, classes) ==
    [f EXCEPT !.phase = "keywords", !.at = 1, !.score = Heaviest(f.text, base),
              !.classes = classes]

LEMMA MatchFits ==
    ASSUME NEW f \in Frames, NEW base \in Bases, Fits(f, base), f.phase = "words",
           f.at > Len(Words(f.text)), NEW classes \in SUBSET Classes,
           classes = f.classes \cup MatchedClasses(Found[f.text])
    PROVE  \E g \in Frames :
            /\ g = Matched(f, base, classes)
            /\ g.text = f.text /\ g.depth = f.depth /\ Fits(g, base)
<1>0. PICK g : g = Matched(f, base, classes)
  OBVIOUS
<1>1. f.text \in Texts /\ f.at \in Nat \ {0} /\ f.depth \in 0 .. 2
  BY DEF Frames
<1>2. Heaviest(f.text, base) \in Scores
  BY <1>1, HeaviestType DEF Bases
<1>3. /\ g \in Frames /\ g.text = f.text /\ g.depth = f.depth /\ g.phase = "keywords"
      /\ g.at = 1 /\ g.score = Heaviest(f.text, base) /\ g.classes = classes
  <2>1. PICK h \in Scores : h = Heaviest(f.text, base)
    BY <1>2
  <2>2. g = [f EXCEPT !.phase = "keywords", !.at = 1, !.score = h, !.classes = classes]
    BY <1>0, <2>1 DEF Matched
  <2>3. /\ g.text = f.text /\ g.depth = f.depth /\ g.phase = "keywords"
        /\ g.at = 1 /\ g.score = h /\ g.classes = classes
    BY <2>2 DEF Frames
  <2>4. g \in Frames
    <3>1. 1 \in Nat \ {0}
      OBVIOUS
    <3> QED
      BY <2>2, <3>1 DEF Frames
  <2> QED
    BY <2>1, <2>3, <2>4
<1>4. ~Nested(f.depth, f.text)
  <2>1. PICK n \in Nat : n = Len(Words(f.text)) /\ DOMAIN Words(f.text) = 1 .. n
    BY <1>1, FoundFacts
  <2>2. \A i \in 1 .. n : i < f.at
    BY <1>1, <2>1
  <2> QED
    BY <2>1, <2>2 DEF Nested, Fits, Suspicious
<1>5. Len(Keywords(f.text)) \in Nat /\ Sums(Found[f.text])[0] = 0
  BY <1>1, FoundFacts, SumsFacts
<1>6. Heaviest(f.text, base) = Least(100, Heaviest(f.text, base) + 0)
  BY <1>2, ScoresAreNat DEF Least
<1>7. 1 <= Len(Keywords(f.text)) + 1 /\ g.at - 1 = 0
  BY <1>3, <1>5
<1>8. classes = EarlyClasses(f.text, base) \cup KeywordClasses(Found[f.text], 0)
  <2>1. f.classes = OriginClasses(base)
    BY DEF Fits
  <2> QED
    BY <1>1, <2>1, KeywordClassesFacts DEF EarlyClasses
<1>9. Fits(g, base)
  BY <1>3, <1>4, <1>5, <1>6, <1>7, <1>8 DEF Fits
<1> QED
  BY <1>0, <1>3, <1>9

LEMMA LeastFacts ==
    ASSUME NEW h \in Nat, NEW s \in Nat, NEW w \in Nat
    PROVE  /\ Least(Least(100, h + s) + w, 100) = Least(100, h + (s + w))
           /\ Least(100, h + s) <= Least(100, h + (s + w))
BY DEF Least

LEMMA LeastScore ==
    ASSUME NEW n \in Nat
    PROVE  Least(100, n) \in Scores
BY DEF Least, Scores

LEMMA EnoughIsEnough ==
    ASSUME NEW sum \in Scores, NEW worth \in Scores, sum <= worth, Enough(sum)
    PROVE  Settled(sum, worth)
BY ScoresAreNat DEF Enough, Settled

\* A keyword adds to the score, until there is enough; what is left out then could
\* only have added more.
Added(f, k, sum) ==
    IF ~Counts(Found[f.text], k) THEN [f EXCEPT !.at = @ + 1]
    ELSE [f EXCEPT !.at = @ + 1,
                   !.score = sum,
                   !.classes = @ \cup {k.class},
                   !.phase = IF Enough(sum) THEN "return" ELSE @]

LEMMA AddFits ==
    ASSUME NEW f \in Frames, NEW base \in Bases, Fits(f, base), f.phase = "keywords",
           f.at <= Len(Keywords(f.text)),
           NEW k, k = Keywords(f.text)[f.at],
           NEW sum, sum = Least(f.score + WeightOf(Found[f.text], k), 100)
    PROVE  \E g \in Frames :
            /\ g = Added(f, k, sum)
            /\ g.text = f.text /\ g.depth = f.depth /\ Fits(g, base)
<1>0. PICK g : g = Added(f, k, sum)
  OBVIOUS
<1> DEFINE in == Found[f.text]
           N == Len(Keywords(f.text))
           S == Sums(in)
           H == Heaviest(f.text, base)
           w == Gain(in, k)
<1>1. /\ f.text \in Texts /\ f.at \in Nat \ {0} /\ f.depth \in 0 .. 2
      /\ f.classes \in SUBSET Classes
  BY DEF Frames
<1>2. /\ N \in Nat /\ f.at \in 1 .. N /\ f.at - 1 \in 0 .. N
  <2>1. N \in Nat
    BY <1>1, FoundFacts
  <2> QED
    BY <1>1, <2>1
<1>3. H \in Nat /\ w \in Nat
  <2>1. H \in Scores
    BY <1>1, HeaviestType DEF Bases
  <2>2. w \in Nat
    BY <1>1, <1>2, GainType
  <2> QED
    BY <2>1, <2>2, ScoresAreNat
<1>4. /\ S[f.at - 1] \in Nat /\ S[f.at] = S[f.at - 1] + w
      /\ \E more \in Nat : S[N] = S[f.at] + more
  <2>1. /\ \A n \in 1 .. N : S[n] = S[n - 1] + Gain(in, Keywords(f.text)[n])
        /\ \A n \in 0 .. N : S[n] \in Nat /\ S[n] <= S[N]
    BY <1>1, SumsFacts
  <2> HIDE DEF S, N, in, w
  <2>2. S[f.at - 1] \in Nat /\ S[f.at] \in Nat /\ S[N] \in Nat /\ S[f.at] <= S[N]
    BY <1>2, <2>1
  <2>3. S[N] - S[f.at] \in Nat /\ S[N] = S[f.at] + (S[N] - S[f.at])
    BY <2>2
  <2>4. S[f.at] = S[f.at - 1] + w
    BY <1>2, <2>1 DEF w
  <2> QED
    BY <2>2, <2>3, <2>4
<1>5. /\ f.score = Least(100, H + S[f.at - 1]) /\ ~Nested(f.depth, f.text)
      /\ f.classes = EarlyClasses(f.text, base) \cup KeywordClasses(in, f.at - 1)
  BY DEF Fits
<1>6. f.at + 1 \in Nat \ {0} /\ f.at + 1 <= N + 1 /\ (f.at + 1) - 1 = f.at
  BY <1>2
<1>7. /\ KeywordClasses(in, f.at) = KeywordClasses(in, f.at - 1)
            \cup (IF Counts(in, k) THEN {k.class} ELSE {})
      /\ KeywordClasses(in, f.at) \subseteq KeywordClasses(in, N)
  <2>1. PICK n \in 1 .. N : n = f.at
    BY <1>2
  <2>2. n \in 0 .. N
    OBVIOUS
  <2>3. /\ KeywordClasses(in, n) = KeywordClasses(in, n - 1)
            \cup (IF Counts(in, Keywords(f.text)[n]) THEN {Keywords(f.text)[n].class}
                                                    ELSE {})
        /\ KeywordClasses(in, n) \subseteq KeywordClasses(in, N)
    BY <1>1, <2>2, KeywordClassesFacts
  <2> HIDE DEF in, N
  <2> QED
    BY <2>1, <2>3
<1>8. f.classes \cup (IF Counts(in, k) THEN {k.class} ELSE {})
            = EarlyClasses(f.text, base) \cup KeywordClasses(in, f.at)
  BY <1>5, <1>7
<1>9. CASE ~Counts(in, k)
  <2>1. w = 0
    BY <1>9 DEF Gain
  <2>2. S[f.at] = S[f.at - 1]
    <3> HIDE DEF S, w
    <3> QED
      BY <1>4, <2>1
  <2>3. /\ g \in Frames /\ g.text = f.text /\ g.depth = f.depth /\ g.phase = "keywords"
        /\ g.at = f.at + 1 /\ g.score = f.score /\ g.classes = f.classes
    BY <1>0, <1>6, <1>9 DEF Frames, Added
  <2>4. g.classes = EarlyClasses(f.text, base) \cup KeywordClasses(in, f.at)
    BY <1>8, <1>9, <2>3
  <2>5. Fits(g, base)
    BY <1>5, <1>6, <2>2, <2>3, <2>4 DEF Fits
  <2> QED
    BY <1>0, <2>3, <2>5
<1>10. CASE Counts(in, k)
  <2>1. w = WeightOf(in, k)
    BY <1>10 DEF Gain
  <2>2. sum = Least(100, H + S[f.at]) /\ sum \in Scores
    <3>1. sum = Least(f.score + w, 100)
      BY <2>1
    <3>2. PICK h \in Nat, v \in Nat, b \in Nat : h = H /\ v = w /\ b = S[f.at - 1]
      BY <1>3, <1>4
    <3>3. S[f.at] = b + v /\ sum = Least(Least(100, h + b) + v, 100)
      BY <1>4, <1>5, <3>1, <3>2
    <3>4. /\ Least(Least(100, h + b) + v, 100) = Least(100, h + (b + v))
          /\ Least(100, h + (b + v)) \in Scores
      <4>1. Least(Least(100, h + b) + v, 100) = Least(100, h + (b + v))
        BY LeastFacts
      <4>2. h + (b + v) \in Nat
        OBVIOUS
      <4> QED
        BY <4>1, <4>2, LeastScore
    <3> QED
      BY <3>2, <3>3, <3>4
  <2>3. k.class \in Classes
    <3>1. k \in Keyword
      BY <1>1, <1>2, FoundFacts
    <3> QED
      BY <3>1 DEF Keyword
  <2>4. /\ g.text = f.text /\ g.depth = f.depth
        /\ g.phase = IF Enough(sum) THEN "return" ELSE "keywords"
        /\ g.at = f.at + 1 /\ g.score = sum /\ g.classes = f.classes \cup {k.class}
    BY <1>0, <1>10 DEF Frames, Added
  <2>5. g.classes = EarlyClasses(f.text, base) \cup KeywordClasses(in, f.at)
    BY <1>8, <1>10, <2>4
  <2>6. g \in Frames
    <3>1. g = [f EXCEPT !.at = @ + 1, !.score = sum, !.classes = @ \cup {k.class},
                        !.phase = IF Enough(sum) THEN "return" ELSE @]
      BY <1>0, <1>10 DEF Added
    <3>2. (IF Enough(sum) THEN "return" ELSE f.phase) \in {"words", "keywords", "return"}
      BY DEF Frames
    <3>3. f.classes \cup {k.class} \in SUBSET Classes
      BY <1>1, <2>3
    <3> QED
      BY <1>6, <2>2, <3>1, <3>2, <3>3 DEF Frames
  <2>7. CASE Enough(sum)
    <3>1. PICK more \in Nat : S[N] = S[f.at] + more
      BY <1>4
    <3>2. sum <= Least(100, H + S[N])
      <4>1. S[f.at] \in Nat
        BY <1>3, <1>4
      <4>2. PICK h \in Nat, a \in Nat : h = H /\ a = S[f.at]
        BY <1>3, <4>1
      <4>3. sum = Least(100, h + a) /\ S[N] = a + more
        BY <2>2, <3>1, <4>2
      <4>4. Least(100, h + a) <= Least(100, h + (a + more))
        BY LeastFacts
      <4> QED
        BY <4>2, <4>3, <4>4
    <3>3. /\ Worth[f.depth][f.text][base] = Least(100, H + S[N])
          /\ Worth[f.depth][f.text][base] \in Scores
      <4>1. /\ Worth[f.depth][f.text][base] = PlainWorth(in, base)
            /\ Worth[f.depth][f.text][base] \in Scores
        BY <1>1, <1>5, WorthFacts DEF Bases
      <4>2. PlainWorth(in, base) = Least(100, H + S[N])
        BY DEF PlainWorth, Heaviest, Keywords
      <4> QED
        BY <4>1, <4>2
    <3>4. Settled(sum, Worth[f.depth][f.text][base])
      BY <2>2, <2>7, <3>2, <3>3, EnoughIsEnough
    <3>5. Told(sum, g.classes, AllClasses(in, base))
      <4>1. g.classes \subseteq AllClasses(in, base)
        <5>1. AllClasses(in, base) = EarlyClasses(f.text, base) \cup KeywordClasses(in, N)
          BY <1>1, AllClassesFacts
        <5> HIDE DEF in, N
        <5> QED
          BY <1>7, <2>5, <5>1
      <4>2. ~(sum < 95)
        BY <2>2, <2>7, ScoresAreNat DEF Enough
      <4> QED
        BY <4>1, <4>2 DEF Told
    <3>6. Fits(g, base)
      BY <2>4, <2>7, <3>4, <3>5 DEF Fits
    <3> QED
      BY <1>0, <2>4, <2>6, <3>6
  <2>8. CASE ~Enough(sum)
    <3>1. Fits(g, base)
      BY <1>5, <1>6, <2>2, <2>4, <2>5, <2>8 DEF Fits
    <3> QED
      BY <1>0, <2>4, <2>6, <3>1
  <2> QED
    BY <2>7, <2>8
<1> QED
  BY <1>9, <1>10

\* When all keywords are seen the score is exact.
LEMMA EndFits ==
    ASSUME NEW f \in Frames, NEW base \in Bases, Fits(f, base), f.phase = "keywords",
           f.at > Len(Keywords(f.text)), NEW g, g = [f EXCEPT !.phase = "return"]
    PROVE  /\ g \in Frames /\ g.text = f.text /\ g.depth = f.depth
           /\ Fits(g, base)
<1>1. f.text \in Texts /\ f.at \in Nat \ {0} /\ f.depth \in 0 .. 2
  BY DEF Frames
<1>2. /\ g \in Frames /\ g.text = f.text /\ g.depth = f.depth /\ g.phase = "return"
      /\ g.score = f.score /\ g.classes = f.classes
  BY DEF Frames
<1>3. f.at - 1 = Len(Keywords(f.text))
  <2>1. PICK n \in Nat : n = Len(Keywords(f.text))
    BY <1>1, FoundFacts
  <2> QED
    BY <1>1, <2>1 DEF Fits
<1>4. Worth[f.depth][f.text][base] = f.score
  <2>1. ~Nested(f.depth, f.text)
    BY DEF Fits
  <2>2. Worth[f.depth][f.text][base] = PlainWorth(Found[f.text], base)
    BY <1>1, <2>1, WorthFacts DEF Bases
  <2>3. PlainWorth(Found[f.text], base)
            = Least(100, Heaviest(f.text, base) + Sums(Found[f.text])[Len(Keywords(f.text))])
    BY DEF PlainWorth, Heaviest, Keywords
  <2>4. f.score = Least(100, Heaviest(f.text, base) + Sums(Found[f.text])[f.at - 1])
    BY DEF Fits
  <2> QED
    BY <1>3, <2>2, <2>3, <2>4
<1>5. f.classes = AllClasses(Found[f.text], base)
  <2>1. f.classes = EarlyClasses(f.text, base) \cup KeywordClasses(Found[f.text], f.at - 1)
    BY DEF Fits
  <2> QED
    BY <1>1, <1>3, <2>1, AllClassesFacts
<1> QED
  BY <1>2, <1>4, <1>5 DEF Fits, Settled, Told
--------------------------------------------------------------------------------
(***************************************************************************)
(* The stack.  Every frame fits its text, and waits for the frame above it *)
(* at the word that frame is about.                                        *)
(***************************************************************************)
BaseAt(i, seg) == IF i = 1 /\ seg.origin = "ocr" THEN 35 ELSE 0

Calls(f, g) ==
    /\ f.phase = "words" /\ f.at <= Len(Words(f.text))
    /\ g.text = Words(f.text)[f.at]

SoundStack(s, seg) ==
    /\ s \in Seq(Frames)
    /\ \A i \in 1 .. Len(s) : s[i].depth = i - 1 /\ Fits(s[i], BaseAt(i, seg))
    /\ s # <<>> => s[1].text = seg.text
    /\ \A i \in 1 .. Len(s) - 1 : Calls(s[i], s[i + 1])

LEMMA TopFacts ==
    ASSUME NEW s \in Seq(Frames), s # <<>>, NEW g \in Frames
    PROVE  /\ Len(s) \in Nat \ {0}
           /\ Last(s) = s[Len(s)] /\ Last(s) \in Frames
           /\ Front(s) \in Seq(Frames) /\ Len(Front(s)) = Len(s) - 1
           /\ \A i \in 1 .. Len(s) - 1 : Front(s)[i] = s[i]
           /\ Append(s, g) \in Seq(Frames) /\ Len(Append(s, g)) = Len(s) + 1
           /\ \A i \in 1 .. Len(s) : Append(s, g)[i] = s[i]
           /\ Append(s, g)[Len(s) + 1] = g
<1>1. Len(s) \in Nat \ {0} /\ s[Len(s)] \in Frames
  OBVIOUS
<1>2. /\ SubSeq(s, 1, Len(s) - 1) \in Seq(Frames)
      /\ Len(SubSeq(s, 1, Len(s) - 1)) = Len(s) - 1
      /\ \A i \in 1 .. Len(s) - 1 : SubSeq(s, 1, Len(s) - 1)[i] = s[i]
  <2>1. PICK n \in Nat : n = Len(s) - 1
    BY <1>1
  <2>2. PICK front : front = SubSeq(s, 1, n)
    OBVIOUS
  <2>3. front \in Seq(Frames) /\ Len(front) = n
    BY <2>1, <2>2
  <2>4. \A i \in 1 .. n : front[i] = s[i]
    BY <2>1, <2>2
  <2> QED
    BY <2>1, <2>2, <2>3, <2>4
<1>3. /\ Append(s, g) \in Seq(Frames) /\ Len(Append(s, g)) = Len(s) + 1
      /\ \A i \in 1 .. Len(s) : Append(s, g)[i] = s[i]
      /\ Append(s, g)[Len(s) + 1] = g
  BY <1>1
<1> QED
  BY <1>1, <1>2, <1>3 DEF Last, Front

\* The top frame is changed for one about the same text.
LEMMA ReplacedFacts ==
    ASSUME NEW s \in Seq(Frames), s # <<>>, NEW g \in Frames
    PROVE  \E t \in Seq(Frames) :
            /\ t = Append(Front(s), g)
            /\ t # <<>> /\ Len(t) = Len(s)
            /\ \A i \in 1 .. Len(s) - 1 : t[i] = s[i]
            /\ t[Len(s)] = g
<1>1. PICK n \in Nat \ {0} : n = Len(s)
  BY TopFacts
<1>2. PICK front \in Seq(Frames) : front = Front(s)
  BY TopFacts
<1>3. Len(front) = n - 1 /\ \A i \in 1 .. n - 1 : front[i] = s[i]
  BY <1>1, <1>2, TopFacts
<1>4. PICK t : t = Append(front, g)
  OBVIOUS
<1>5. t \in Seq(Frames) /\ Len(t) = n /\ t[n] = g /\ \A i \in 1 .. n - 1 : t[i] = front[i]
  BY <1>1, <1>3, <1>4
<1>6. t # <<>>
  BY <1>5
<1> QED
  BY <1>1, <1>2, <1>3, <1>4, <1>5, <1>6

LEMMA ReplaceTop ==
    ASSUME NEW seg, NEW s, SoundStack(s, seg), s # <<>>, NEW g \in Frames,
           g.text = Last(s).text, g.depth = Last(s).depth,
           Fits(g, BaseAt(Len(s), seg))
    PROVE  SoundStack(Append(Front(s), g), seg)
<1>1. PICK n \in Nat \ {0} : n = Len(s)
  BY TopFacts DEF SoundStack
<1>2. s \in Seq(Frames)
  BY DEF SoundStack
<1>3. PICK t \in Seq(Frames) :
        /\ t = Append(Front(s), g)
        /\ t # <<>> /\ Len(t) = n
        /\ \A i \in 1 .. n - 1 : t[i] = s[i]
        /\ t[n] = g
  BY <1>1, <1>2, ReplacedFacts
<1>4. Last(s) = s[n]
  BY <1>1 DEF Last
<1>5. ASSUME NEW i \in 1 .. n
      PROVE  t[i].depth = i - 1 /\ Fits(t[i], BaseAt(i, seg)) /\ t[i].text = s[i].text
  <2>1. CASE i = n
    BY <1>1, <1>3, <1>4, <2>1 DEF SoundStack
  <2>2. CASE i # n
    <3>1. i \in 1 .. n - 1
      BY <2>2
    <3> QED
      BY <1>1, <1>3, <3>1 DEF SoundStack
  <2> QED
    BY <2>1, <2>2
<1>6. ASSUME NEW i \in 1 .. n - 1 PROVE Calls(t[i], t[i + 1])
  <2>1. i \in 1 .. n /\ i + 1 \in 1 .. n
    OBVIOUS
  <2>2. t[i] = s[i] /\ t[i + 1].text = s[i + 1].text
    BY <1>3, <1>5, <2>1
  <2>3. Calls(s[i], s[i + 1])
    BY <1>1 DEF SoundStack
  <2> QED
    BY <2>2, <2>3 DEF Calls
<1>7. t[1].text = seg.text
  <2>1. 1 \in 1 .. n
    OBVIOUS
  <2> QED
    BY <1>5, <2>1 DEF SoundStack
<1> QED
  BY <1>3, <1>5, <1>6, <1>7 DEF SoundStack

\* A frame is put on top, about the word the frame below it is at.
LEMMA PushFrame ==
    ASSUME NEW seg, NEW s, SoundStack(s, seg), s # <<>>, NEW g \in Frames,
           Calls(Last(s), g), g.depth = Last(s).depth + 1, Fits(g, 0)
    PROVE  SoundStack(Append(s, g), seg)
<1>1. PICK n \in Nat \ {0} : n = Len(s)
  BY TopFacts DEF SoundStack
<1>2. PICK t : t = Append(s, g)
  OBVIOUS
<1>3. /\ t \in Seq(Frames) /\ t # <<>> /\ Len(t) = n + 1
      /\ \A i \in 1 .. n : t[i] = s[i]
      /\ t[n + 1] = g
  BY <1>1, <1>2, TopFacts DEF SoundStack
<1>4. Last(s) = s[n]
  BY <1>1 DEF Last
<1>5. ASSUME NEW i \in 1 .. n + 1
      PROVE  t[i].depth = i - 1 /\ Fits(t[i], BaseAt(i, seg))
  <2>1. CASE i = n + 1
    <3>1. BaseAt(i, seg) = 0 /\ i - 1 = n
      BY <2>1 DEF BaseAt
    <3>2. s[n].depth = n - 1
      BY <1>1 DEF SoundStack
    <3>3. g.depth = n
      BY <1>4, <3>2
    <3> QED
      BY <1>3, <2>1, <3>1, <3>3
  <2>2. CASE i # n + 1
    <3>1. i \in 1 .. n
      BY <2>2
    <3> QED
      BY <1>1, <1>3, <3>1 DEF SoundStack
  <2> QED
    BY <2>1, <2>2
<1>6. ASSUME NEW i \in 1 .. n PROVE Calls(t[i], t[i + 1])
  <2>1. CASE i = n
    BY <1>3, <1>4, <2>1
  <2>2. CASE i # n
    <3>1. i \in 1 .. n - 1 /\ i + 1 \in 1 .. n
      BY <2>2
    <3>2. Calls(s[i], s[i + 1])
      BY <1>1, <3>1 DEF SoundStack
    <3> QED
      BY <1>3, <3>1, <3>2
  <2> QED
    BY <2>1, <2>2
<1>7. t[1].text = seg.text
  <2>1. 1 \in 1 .. n
    OBVIOUS
  <2> QED
    BY <1>3, <2>1 DEF SoundStack
<1>8. \A i \in 1 .. Len(t) : t[i].depth = i - 1 /\ Fits(t[i], BaseAt(i, seg))
  BY <1>3, <1>5
<1>9. \A i \in 1 .. Len(t) - 1 : Calls(t[i], t[i + 1])
  <2>1. Len(t) - 1 = n
    BY <1>3
  <2> QED
    BY <1>6, <2>1
<1> QED
  BY <1>2, <1>3, <1>7, <1>8, <1>9 DEF SoundStack

\* Without its top frame a stack is sound.
LEMMA PopFrame ==
    ASSUME NEW seg, NEW s, SoundStack(s, seg), s # <<>>
    PROVE  SoundStack(Front(s), seg)
<1>1. PICK n \in Nat \ {0} : n = Len(s)
  BY TopFacts DEF SoundStack
<1>2. PICK t : t = Front(s)
  OBVIOUS
<1>3. t \in Seq(Frames) /\ Len(t) = n - 1 /\ \A i \in 1 .. n - 1 : t[i] = s[i]
  BY <1>1, <1>2, TopFacts DEF SoundStack
<1>4. ASSUME NEW i \in 1 .. n - 1
      PROVE  t[i].depth = i - 1 /\ Fits(t[i], BaseAt(i, seg))
  <2>1. i \in 1 .. n
    OBVIOUS
  <2>2. s[i].depth = i - 1 /\ Fits(s[i], BaseAt(i, seg))
    BY <1>1, <2>1 DEF SoundStack
  <2> QED
    BY <1>3, <2>2
<1>5. ASSUME NEW i \in 1 .. (n - 1) - 1 PROVE Calls(t[i], t[i + 1])
  <2>1. i \in 1 .. n - 1 /\ i + 1 \in 1 .. n - 1
    OBVIOUS
  <2>2. Calls(s[i], s[i + 1])
    BY <1>1, <2>1 DEF SoundStack
  <2> QED
    BY <1>3, <2>1, <2>2
<1>6. t # <<>> => t[1].text = seg.text
  <2> SUFFICES ASSUME t # <<>> PROVE t[1].text = seg.text
    OBVIOUS
  <2>1. 1 \in 1 .. n - 1
    BY <1>3
  <2> QED
    BY <1>3, <2>1 DEF SoundStack
<1> QED
  BY <1>2, <1>3, <1>4, <1>5, <1>6 DEF SoundStack
--------------------------------------------------------------------------------
(***************************************************************************)
(* The scan keeps the stack sound, and returns what its bottom is about.   *)
(***************************************************************************)
ScanInv ==
    /\ segment.text \in Texts
    /\ SoundStack(stack, segment)
    /\ raw # <<>> =>
        /\ raw[1].score \in Scores /\ Settled(raw[1].score, Reference)
        /\ Told(raw[1].score, raw[1].classes, ReferenceClasses)

LEMMA ScanInit == Init => ScanInv
<1> SUFFICES ASSUME Init PROVE ScanInv
  OBVIOUS
<1>1. segment.text \in Texts /\ raw = <<>>
  BY DEF Init
<1>2. PICK f : f = Frame(segment.text, segment.origin, 0)
  OBVIOUS
<1>3. f \in Frames /\ f.text = segment.text /\ f.depth = 0 /\ Fits(f, BaseAt(1, segment))
  BY <1>1, <1>2, BeginFits DEF BaseAt
<1>4. stack = <<f>>
  BY <1>2 DEF Init
<1>5. SoundStack(stack, segment)
  <2>1. /\ stack \in Seq(Frames) /\ Len(stack) = 1 /\ stack[1] = f
        /\ 1 .. Len(stack) = {1} /\ 1 .. Len(stack) - 1 = {}
    BY <1>3, <1>4
  <2> QED
    BY <1>3, <2>1 DEF SoundStack
<1> QED
  BY <1>1, <1>5 DEF ScanInv

\* What is known of the top frame.
LEMMA TopInv ==
    ASSUME ScanInv, stack # <<>>
    PROVE  /\ Top \in Frames /\ Top.text \in Texts /\ In = Found[Top.text]
           /\ Fits(Top, BaseAt(Len(stack), segment)) /\ BaseAt(Len(stack), segment) \in Bases
<1>1. PICK n \in Nat \ {0} : n = Len(stack)
  BY TopFacts DEF ScanInv, SoundStack
<1>2. Top = stack[n] /\ n \in 1 .. n
  BY <1>1 DEF Top, Last
<1>3. Top \in Frames
  BY <1>1, <1>2 DEF ScanInv, SoundStack
<1>4. Top.text \in Texts
  BY <1>3 DEF Frames
<1>5. Fits(Top, BaseAt(n, segment))
  BY <1>1, <1>2 DEF ScanInv, SoundStack
<1> QED
  BY <1>1, <1>3, <1>4, <1>5 DEF In, BaseAt, Bases

\* A step that changes nothing but the top frame.
LEMMA TopStep ==
    ASSUME ScanInv, stack # <<>>, NEW g \in Frames, g.text = Top.text, g.depth = Top.depth,
           Fits(g, BaseAt(Len(stack), segment)), SetTop(g), UNCHANGED <<segment, raw>>
    PROVE  ScanInv'
<1>1. SoundStack(Append(Front(stack), g), segment)
  BY ReplaceTop DEF ScanInv, Top
<1> QED
  BY <1>1 DEF ScanInv, SetTop, Reference, ReferenceClasses, Base

LEMMA WordStep ==
    ASSUME ScanInv, Word
    PROVE  ScanInv'
<1>1. stack # <<>> /\ Top.phase = "words" /\ Top.at <= Len(In.encoded)
      /\ UNCHANGED <<segment, hook, raw, result>>
  BY DEF Word, Scanning
<1>2. /\ Top \in Frames /\ Top.text \in Texts /\ In = Found[Top.text]
      /\ Fits(Top, BaseAt(Len(stack), segment)) /\ BaseAt(Len(stack), segment) \in Bases
  BY <1>1, TopInv
<1>3. Top.at <= Len(Words(Top.text)) /\ In.encoded = Words(Top.text)
  BY <1>1, <1>2 DEF Words
<1>4. CASE MayDecode(Top.depth)
  <2>1. PICK t : t = Words(Top.text)[Top.at]
    OBVIOUS
  <2>2. t \in Texts
    <3>1. PICK n \in Nat : n = Len(Words(Top.text))
      BY <1>2, FoundFacts
    <3>2. Top.at \in Nat \ {0}
      BY <1>2 DEF Frames
    <3>3. Top.at \in 1 .. n
      BY <1>3, <3>1, <3>2
    <3> QED
      BY <1>2, <2>1, <3>1, <3>3, FoundFacts
  <2>3. Top.depth \in 0 .. 2 /\ Top.depth < 2
    BY <1>2, <1>4 DEF Frames, MayDecode
  <2>4. PICK d \in 0 .. 2 : d = Top.depth + 1
    BY <2>3
  <2>5. PICK f : f = Frame(t, "text", d)
    OBVIOUS
  <2>6. f \in Frames /\ f.text = t /\ f.depth = d /\ Fits(f, 0)
    BY <2>2, <2>5, BeginFits
  <2>7. stack' = Append(stack, f)
    BY <1>3, <1>4, <2>1, <2>4, <2>5 DEF Word
  <2>8. Calls(Top, f)
    BY <1>1, <1>3, <2>1, <2>6 DEF Calls
  <2>9. SoundStack(Append(stack, f), segment)
    BY <1>1, <2>4, <2>6, <2>8, PushFrame DEF ScanInv, Top
  <2> QED
    BY <1>1, <2>7, <2>9 DEF ScanInv, Reference, ReferenceClasses, Base
<1>5. CASE ~MayDecode(Top.depth)
  <2>1. PICK g : g = [Top EXCEPT !.at = @ + 1]
    OBVIOUS
  <2>2. SetTop(g)
    BY <1>5, <2>1 DEF Word
  <2>3. ~(Top.depth < 2)
    BY <1>5 DEF MayDecode
  <2>4. /\ g \in Frames /\ g.text = Top.text /\ g.depth = Top.depth
        /\ Fits(g, BaseAt(Len(stack), segment))
    BY <1>1, <1>2, <1>3, <2>1, <2>3, SkipFits
  <2> QED
    BY <1>1, <2>2, <2>4, TopStep
<1> QED
  BY <1>4, <1>5

LEMMA MatchStep ==
    ASSUME ScanInv, MatchPatterns
    PROVE  ScanInv'
<1>1. stack # <<>> /\ Top.phase = "words" /\ Top.at > Len(In.encoded)
      /\ UNCHANGED <<segment, hook, raw, result>>
  BY DEF MatchPatterns, Scanning
<1>2. /\ Top \in Frames /\ Top.text \in Texts /\ In = Found[Top.text]
      /\ Fits(Top, BaseAt(Len(stack), segment)) /\ BaseAt(Len(stack), segment) \in Bases
  BY <1>1, TopInv
<1>3. PICK classes : classes = Top.classes \cup MatchedClasses(In)
  OBVIOUS
<1>4. classes \in SUBSET Classes
  <2>1. Top.classes \subseteq Classes
    BY <1>2 DEF Frames
  <2>2. \A p \in CountedPatterns(In) : p.category \in Classes
    <3>1. In.patterns \subseteq Pattern
      BY <1>2, FoundFacts
    <3> QED
      BY <3>1 DEF CountedPatterns, Pattern
  <2>3. "authority_escalation" \in Classes /\ "obfuscated" \in Classes
    BY DEF Classes
  <2> QED
    BY <1>3, <2>1, <2>2, <2>3 DEF MatchedClasses
<1>5. PICK g : g = Matched(Top, BaseAt(Len(stack), segment), classes)
  OBVIOUS
<1>6. SetTop(g)
  <2>1. Top.score = BaseAt(Len(stack), segment)
    BY <1>1, <1>2 DEF Fits
  <2>2. Max({Top.score} \cup Weights(In)) = Heaviest(Top.text, BaseAt(Len(stack), segment))
    BY <1>2, <2>1 DEF Heaviest
  <2> QED
    BY <1>3, <1>5, <2>2 DEF MatchPatterns, Matched
<1>7. Top.at > Len(Words(Top.text))
  BY <1>1, <1>2 DEF Words
<1>8. /\ g \in Frames /\ g.text = Top.text /\ g.depth = Top.depth
      /\ Fits(g, BaseAt(Len(stack), segment))
  <2>1. PICK f \in Frames : f = Top
    BY <1>2
  <2>2. PICK base \in Bases : base = BaseAt(Len(stack), segment)
    BY <1>2
  <2>3. /\ Fits(f, base) /\ f.phase = "words" /\ f.at > Len(Words(f.text))
        /\ g = Matched(f, base, classes)
        /\ classes = f.classes \cup MatchedClasses(Found[f.text])
    BY <1>1, <1>2, <1>3, <1>5, <1>7, <2>1, <2>2
  <2>4. g \in Frames /\ g.text = f.text /\ g.depth = f.depth /\ Fits(g, base)
    BY <1>4, <2>3, MatchFits
  <2> QED
    BY <2>1, <2>2, <2>4
<1> QED
  BY <1>1, <1>6, <1>8, TopStep

LEMMA KeywordStep ==
    ASSUME ScanInv, AddKeyword \/ EndKeywords
    PROVE  ScanInv'
<1>1. stack # <<>> /\ Top.phase = "keywords" /\ UNCHANGED <<segment, hook, raw, result>>
  BY DEF AddKeyword, EndKeywords, Scanning
<1>2. /\ Top \in Frames /\ Top.text \in Texts /\ In = Found[Top.text]
      /\ Fits(Top, BaseAt(Len(stack), segment)) /\ BaseAt(Len(stack), segment) \in Bases
  BY <1>1, TopInv
<1>3. In.keywords = Keywords(Top.text)
  BY <1>2 DEF Keywords
<1>4. CASE AddKeyword
  <2>1. PICK k : k = Keywords(Top.text)[Top.at]
    OBVIOUS
  <2>2. PICK sum : sum = Least(Top.score + WeightOf(Found[Top.text], k), 100)
    OBVIOUS
  <2>3. PICK g : g = Added(Top, k, sum)
    OBVIOUS
  <2>4. SetTop(g) /\ Top.at <= Len(Keywords(Top.text))
    BY <1>2, <1>3, <1>4, <2>1, <2>2, <2>3 DEF AddKeyword, Added
  <2>5. /\ g \in Frames /\ g.text = Top.text /\ g.depth = Top.depth
        /\ Fits(g, BaseAt(Len(stack), segment))
    <3>1. PICK f \in Frames : f = Top
      BY <1>2
    <3>2. PICK base \in Bases : base = BaseAt(Len(stack), segment)
      BY <1>2
    <3>3. /\ Fits(f, base) /\ f.phase = "keywords" /\ f.at <= Len(Keywords(f.text))
          /\ k = Keywords(f.text)[f.at]
          /\ sum = Least(f.score + WeightOf(Found[f.text], k), 100)
          /\ g = Added(f, k, sum)
      BY <1>1, <1>2, <2>1, <2>2, <2>3, <2>4, <3>1, <3>2
    <3>4. g \in Frames /\ g.text = f.text /\ g.depth = f.depth /\ Fits(g, base)
      BY <3>3, AddFits
    <3> QED
      BY <3>1, <3>2, <3>4
  <2> QED
    BY <1>1, <2>4, <2>5, TopStep
<1>5. CASE EndKeywords
  <2>1. PICK g : g = [Top EXCEPT !.phase = "return"]
    OBVIOUS
  <2>2. SetTop(g) /\ Top.at > Len(Keywords(Top.text))
    BY <1>3, <1>5, <2>1 DEF EndKeywords
  <2>3. /\ g \in Frames /\ g.text = Top.text /\ g.depth = Top.depth
        /\ Fits(g, BaseAt(Len(stack), segment))
    BY <1>1, <1>2, <2>1, <2>2, EndFits
  <2> QED
    BY <1>1, <2>2, <2>3, TopStep
<1> QED
  BY <1>4, <1>5

\* A call returns to the word it is about, which decides about the text around it ...
LEMMA ReturnToCaller ==
    ASSUME ScanInv, Return, Front(stack) # <<>>
    PROVE  ScanInv'
<1>1. stack # <<>> /\ Top.phase = "return" /\ UNCHANGED <<segment, hook, raw, result>>
  BY DEF Return, Scanning
<1>2. Top \in Frames /\ Fits(Top, BaseAt(Len(stack), segment))
  BY <1>1, TopInv
<1>3. SoundStack(stack, segment) /\ stack \in Seq(Frames)
  BY DEF ScanInv, SoundStack
<1>4. PICK n \in Nat \ {0} : n = Len(stack)
  BY <1>1, <1>3, TopFacts
<1>5. PICK callers \in Seq(Frames) :
        /\ callers = Front(stack) /\ Len(callers) = n - 1
        /\ \A i \in 1 .. n - 1 : callers[i] = stack[i]
  BY <1>1, <1>2, <1>3, <1>4, TopFacts
<1>6. n - 1 \in 1 .. n - 1 /\ n \in 1 .. n /\ n # 1
  BY <1>4, <1>5
<1>7. PICK caller : caller = Last(callers)
  OBVIOUS
<1>8. caller = stack[n - 1] /\ caller \in Frames /\ Top = stack[n]
  BY <1>4, <1>5, <1>6, <1>7 DEF Last, Top
<1>9. /\ Calls(caller, Top) /\ caller.depth = n - 2 /\ Top.depth = n - 1
      /\ Fits(caller, BaseAt(n - 1, segment)) /\ BaseAt(n - 1, segment) \in Bases
      /\ BaseAt(n, segment) = 0
  <2>1. Calls(stack[n - 1], stack[(n - 1) + 1])
    BY <1>3, <1>4, <1>6 DEF SoundStack
  <2>2. n - 1 \in 1 .. n
    BY <1>6
  <2>3. /\ stack[n - 1].depth = (n - 1) - 1 /\ Fits(stack[n - 1], BaseAt(n - 1, segment))
        /\ stack[n].depth = n - 1
    BY <1>3, <1>4, <1>6, <2>2 DEF SoundStack
  <2>4. (n - 1) + 1 = n /\ (n - 1) - 1 = n - 2
    OBVIOUS
  <2> QED
    BY <1>6, <1>8, <2>1, <2>3, <2>4 DEF BaseAt, Bases
<1>10. caller.depth < 2 /\ caller.depth \in 0 .. 2 /\ caller.depth + 1 = Top.depth
  BY <1>2, <1>6, <1>8, <1>9 DEF Frames
<1>11. /\ caller.phase = "words" /\ caller.at <= Len(Words(caller.text))
       /\ Top.text = Words(caller.text)[caller.at]
  BY <1>9 DEF Calls
<1>12. Top.score >= 35 <=> Suspicious(caller.depth, Words(caller.text)[caller.at])
  <2>1. Settled(Top.score, Worth[Top.depth][Top.text][0])
    BY <1>1, <1>2, <1>4, <1>9 DEF Fits
  <2>2. Top.score \in Scores /\ Top.text \in Texts /\ Top.depth \in 0 .. 2
    BY <1>2 DEF Frames
  <2>3. Worth[Top.depth][Top.text][0] \in Scores
    BY <2>2, WorthFacts
  <2>4. Top.score >= 35 <=> Worth[Top.depth][Top.text][0] >= 35
    BY <2>1, <2>2, <2>3, ScoresAreNat DEF Settled
  <2> QED
    BY <1>10, <1>11, <2>4 DEF Suspicious
<1>13. PICK g : g = Resume(caller, Top.score)
  OBVIOUS
<1>14. /\ g \in Frames /\ g.text = caller.text /\ g.depth = caller.depth
       /\ Fits(g, BaseAt(n - 1, segment))
  <2>1. CASE Top.score >= 35
    <3>1. g = Settle(caller)
      BY <1>13, <2>1 DEF Resume, Settle
    <3>2. Suspicious(caller.depth, Words(caller.text)[caller.at])
      BY <1>12, <2>1
    <3> QED
      BY <1>8, <1>9, <1>10, <1>11, <3>1, <3>2, SettleFits
  <2>2. CASE ~(Top.score >= 35)
    <3>1. g = [caller EXCEPT !.at = @ + 1]
      BY <1>13, <2>2 DEF Resume
    <3>2. ~Suspicious(caller.depth, Words(caller.text)[caller.at])
      BY <1>12, <2>2
    <3> QED
      BY <1>8, <1>9, <1>11, <3>1, <3>2, SkipFits
  <2> QED
    BY <2>1, <2>2
<1>15. SoundStack(callers, segment)
  BY <1>1, <1>3, <1>5, PopFrame
<1>16. SoundStack(Append(Front(callers), g), segment)
  BY <1>5, <1>7, <1>14, <1>15, ReplaceTop
<1>17. stack' = Append(Front(callers), g) /\ raw' = raw
  BY <1>5, <1>7, <1>13 DEF Return
<1> QED
  BY <1>1, <1>16, <1>17 DEF ScanInv, Reference, ReferenceClasses, Base

\* ... and the outermost one with the score of the segment.
LEMMA ReturnScore ==
    ASSUME ScanInv, Return, Front(stack) = <<>>
    PROVE  ScanInv'
<1>1. stack # <<>> /\ Top.phase = "return" /\ UNCHANGED <<segment, hook, result>>
  BY DEF Return, Scanning
<1>2. Top \in Frames /\ Fits(Top, BaseAt(Len(stack), segment))
  BY <1>1, TopInv
<1>3. SoundStack(stack, segment) /\ stack \in Seq(Frames)
  BY DEF ScanInv, SoundStack
<1>4. Len(stack) = 1
  <2>1. PICK n \in Nat \ {0} : n = Len(stack)
    BY <1>1, <1>3, TopFacts
  <2>2. Len(Front(stack)) = n - 1
    BY <1>1, <1>2, <1>3, <2>1, TopFacts
  <2>3. n - 1 = 0
    BY <2>2
  <2>4. n = 1
    BY <2>3
  <2> QED
    BY <2>1, <2>4
<1>5. Top = stack[1]
  BY <1>4 DEF Top, Last
<1>6. Top.text = segment.text /\ Top.depth = 0
  <2>1. 1 \in 1 .. Len(stack)
    BY <1>4
  <2>2. stack[1].depth = 1 - 1
    BY <1>3, <2>1 DEF SoundStack
  <2> QED
    BY <1>1, <1>3, <1>5, <2>2 DEF SoundStack
<1>7. /\ Settled(Top.score, Reference)
      /\ Told(Top.score, Top.classes, ReferenceClasses)
  BY <1>1, <1>2, <1>4, <1>6 DEF Fits, BaseAt, Reference, ReferenceClasses, Base
<1>8. Top.score \in Scores /\ Least(Top.score, 100) = Top.score
  <2>1. Top.score \in Scores
    BY <1>2 DEF Frames
  <2> QED
    BY <2>1, ScoresAreNat DEF Least
<1>9. stack' = <<>> /\ raw' = <<[score |-> Least(Top.score, 100), classes |-> Top.classes]>>
  BY DEF Return
<1>10. raw'[1].score = Top.score /\ raw'[1].classes = Top.classes
  BY <1>8, <1>9
<1>11. SoundStack(<<>>, segment)
  BY DEF SoundStack
<1>12. Reference' = Reference /\ ReferenceClasses' = ReferenceClasses
  BY <1>1 DEF Reference, ReferenceClasses, Base
<1> QED
  BY <1>1, <1>7, <1>8, <1>9, <1>10, <1>11, <1>12 DEF ScanInv

LEMMA ScanStep == ScanInv /\ [Next]_vars => ScanInv'
<1> SUFFICES ASSUME ScanInv, [Next]_vars PROVE ScanInv'
  OBVIOUS
<1>1. CASE Word
  BY <1>1, WordStep
<1>2. CASE MatchPatterns
  BY <1>2, MatchStep
<1>3. CASE AddKeyword \/ EndKeywords
  BY <1>3, KeywordStep
<1>4. CASE Return
  BY <1>4, ReturnToCaller, ReturnScore
<1>5. CASE detect_segment \/ UNCHANGED vars
  BY <1>5 DEF detect_segment, vars, ScanInv, Reference, ReferenceClasses, Base
<1> QED
  BY <1>1, <1>2, <1>3, <1>4, <1>5 DEF Next, Step, Detected

LEMMA ScansAreSound == Init /\ [][Next]_vars => []ScanInv
BY ScanInit, ScanStep, PTL

\* The scan, with its recursion, its order and its breaks, finds what the text is worth,
\* or both are beyond the score at which it breaks off, for any texts.
THEOREM ScanIsExact == Spec => []ScanFindsWorth
<1>1. ScanInv => ScanFindsWorth
  BY DEF ScanInv, ScanFindsWorth, Settled, Told
<1> QED
  BY <1>1, ScansAreSound, PTL DEF Spec
--------------------------------------------------------------------------------
(***************************************************************************)
(* The hooks.  They run in front of the same scan.                         *)
(***************************************************************************)
LEMMA HooksUseScan == HookSpec => Init /\ [][Next]_vars
<1>1. HookInit => Init
  BY DEF HookInit
<1>2. [HookNext]_hookVars => [Next]_vars
  BY DEF HookNext, HookStep, Next, hookVars, vars
<1> QED
  BY <1>1, <1>2, PTL DEF HookSpec

\* The same whatever answers the hook.
THEOREM HookedScanIsExact == HookSpec => []ScanFindsWorth
<1>1. ScanInv => ScanFindsWorth
  BY DEF ScanInv, ScanFindsWorth, Settled, Told
<1> QED
  BY <1>1, HooksUseScan, ScansAreSound, PTL

\* The score of a library is a number, however its remote model answers or fails.
LEMMA ScoreType ==
    ASSUME NEW library \in Libraries, NEW answer \in Answers(library)
    PROVE  Score(library, answer) \in Nat
<1>1. CASE library.kind = "lightweight"
  <2>1. library.answer \in Signs /\ answer = library.answer
    BY <1>1 DEF Libraries, Answers
  <2>2. PICK hits \in 0 .. 15 : hits = answer.hits
    BY <2>1, HookAssumption DEF SignType
  <2>3. Logistic(hits) \in Nat
    BY DEF Logistic
  <2> QED
    BY <1>1, <2>2, <2>3 DEF Score, LightweightScore
<1>2. CASE library.kind # "lightweight"
  <2>1. answer \in Replies
    BY <1>2 DEF Libraries, Answers
  <2>2. answer.number \in {0} \cup Numbers
    BY <2>1 DEF Replies
  <2>3. answer.number \in Nat
    <3>1. \A n \in {0} \cup Numbers : n \in Nat
      BY HookAssumption
    <3> QED
      BY <2>2, <3>1
  <2> QED
    BY <1>2, <2>3 DEF Score, RemoteScore
<1> QED
  BY <1>1, <1>2

\* What detect_segment makes of the scan's score and the hook's.
Conclusion ==
    LET floored == Floored(raw[1].score)
    IN  IF hook = HookRaises THEN HookFailed(floored)
        ELSE Judge(Boosted(floored), raw[1].classes)

\* The hook is the library's, the library's own verdict comes from its own answer, and
\* the result is the conclusion from the scan and the hook.
HookInv ==
    /\ segment.flagged \in BOOLEAN
    /\ raw # <<>> => stack = <<>>
    /\ \A library \in lib :
        /\ library \in Libraries
        /\ hook = Score(library, library.answer)
        /\ \A verdict \in own :
            /\ HasVerdict(library)
            /\ verdict.score = Score(library, verdict.answer)
            /\ verdict.objects <=> Objects(library, verdict.score)
    /\ result # <<>> => raw # <<>> /\ result[1] = Conclusion

LEMMA HookInvInit == HookInit => HookInv
<1> SUFFICES ASSUME HookInit PROVE HookInv
  OBVIOUS
<1>1. segment.flagged \in BOOLEAN /\ result = <<>> /\ raw = <<>>
  BY DEF HookInit, Init
<1>2. ASSUME NEW library \in Libraries, NEW again, HasVerdict(library),
             hook = Score(library, library.answer),
             lib = {library}, own = {Verdict(library, again)}
      PROVE  HookInv
  <2>1. PICK verdict : verdict = Verdict(library, again)
    OBVIOUS
  <2>2. /\ verdict.answer = again /\ verdict.score = Score(library, again)
        /\ verdict.objects = Objects(library, Score(library, again))
    BY <2>1 DEF Verdict
  <2> QED
    BY <1>1, <1>2, <2>1, <2>2 DEF HookInv
<1>3. ASSUME NEW library \in Libraries, hook = Score(library, library.answer),
             lib = {library}, own = {}
      PROVE  HookInv
  BY <1>1, <1>3 DEF HookInv
<1>4. CASE lib = {}
  BY <1>1, <1>4 DEF HookInv
<1> QED
  BY <1>2, <1>3, <1>4 DEF HookInit

LEMMA HookInvStep == ScanInv /\ HookInv /\ [HookNext]_hookVars => HookInv'
<1> SUFFICES ASSUME ScanInv, HookInv, [HookNext]_hookVars PROVE HookInv'
  OBVIOUS
<1>1. UNCHANGED <<segment, hook, lib, own>>
  BY DEF HookNext, HookStep, hookVars, vars, Step, Word, MatchPatterns, AddKeyword,
         EndKeywords, Return, detect_segment, Detected
<1>2. CASE detect_segment
  <2>1. /\ result' = <<Conclusion>> /\ raw # <<>>
        /\ UNCHANGED <<segment, hook, stack, raw>>
    BY <1>2 DEF detect_segment, Conclusion
  <2>2. Conclusion' = Conclusion
    BY <2>1 DEF Conclusion, Floored, Boosted, Judge, HookFailed, CleanAction
  <2>3. result'[1] = Conclusion'
    BY <2>1, <2>2
  <2> QED
    BY <1>1, <2>1, <2>3 DEF HookInv
<1>3. CASE Return
  <2>1. raw = <<>> /\ result = <<>> /\ result' = <<>>
    BY <1>3 DEF Return, Scanning, HookInv
  <2>2. raw' # <<>> => stack' = <<>>
    BY <1>3, <2>1 DEF Return
  <2> QED
    BY <1>1, <2>1, <2>2 DEF HookInv
<1>4. CASE Word \/ MatchPatterns \/ AddKeyword \/ EndKeywords
  <2>1. raw = <<>> /\ raw' = <<>> /\ result' = <<>>
    BY <1>4 DEF Word, MatchPatterns, AddKeyword, EndKeywords, Scanning, HookInv
  <2> QED
    BY <1>1, <2>1 DEF HookInv
<1>5. CASE UNCHANGED <<stack, raw, result>>
  <2>1. Conclusion' = Conclusion
    BY <1>1, <1>5 DEF Conclusion, Floored, Boosted, Judge, HookFailed, CleanAction
  <2> QED
    BY <1>1, <1>5, <2>1 DEF HookInv
<1> QED
  BY <1>2, <1>3, <1>4, <1>5 DEF HookNext, HookStep, hookVars, vars, Step, Detected

LEMMA HooksAreSound == HookSpec => [](ScanInv /\ HookInv)
BY HooksUseScan, ScansAreSound, HookInvInit, HookInvStep, PTL DEF HookSpec

\* The floor of untrusted content is below all thresholds of a block.
LEMMA Results ==
    ASSUME ScanInv, HookInv, result # <<>>
    PROVE  \E score \in Nat, floored \in Nat :
            /\ score = raw[1].score
            /\ floored = Floored(score)
            /\ floored >= score /\ (floored >= 65 => score >= 65)
            /\ hook = HookRaises => result[1] = HookFailed(floored)
            /\ hook # HookRaises => result[1] = Judge(Boosted(floored), raw[1].classes)
<1>1. PICK score \in Nat : score = raw[1].score
  BY ScoresAreNat DEF ScanInv, HookInv
<1>2. PICK floored : floored = Floored(score)
  OBVIOUS
<1>3. floored \in Nat /\ floored >= score /\ (floored >= 65 => score >= 65)
  BY <1>2 DEF Floored, Most, Floor
<1>4. /\ hook = HookRaises => result[1] = HookFailed(floored)
      /\ hook # HookRaises => result[1] = Judge(Boosted(floored), raw[1].classes)
  BY <1>1, <1>2 DEF HookInv, Conclusion
<1> QED
  BY <1>1, <1>2, <1>3, <1>4

\* Where the thresholds of the result are.
LEMMA Judged ==
    ASSUME NEW score \in Int, NEW classes
    PROVE  /\ Judge(score, classes).blocked <=> score >= 65
           /\ Judge(score, classes).verdict = "clean" <=> score < 35
           /\ HookFailed(score).verdict = "clean" <=> score < 35
<1>1. CASE score >= 85 /\ "secret_exfiltration" \in classes
  BY <1>1 DEF Judge, HookFailed
<1>2. CASE score >= 65 /\ ~(score >= 85 /\ "secret_exfiltration" \in classes)
  BY <1>2 DEF Judge, HookFailed
<1>3. CASE 35 <= score /\ score < 65
  BY <1>3 DEF Judge, HookFailed
<1>4. CASE score < 35
  BY <1>4 DEF Judge, HookFailed
<1> QED
  BY <1>1, <1>2, <1>3, <1>4

\* The hook of a library is a number.
LEMMA HookType ==
    ASSUME HookInv, NEW library \in lib
    PROVE  hook \in Nat /\ library \in Libraries /\ hook = Score(library, library.answer)
<1>1. library \in Libraries /\ hook = Score(library, library.answer)
  BY DEF HookInv
<1>2. library.answer \in Answers(library)
  BY <1>1 DEF Libraries, Answers
<1> QED
  BY <1>1, <1>2, ScoreType

\* What a hook may be: an answer, a failure, or none.
LEMMA HooksAreNumbers == HookSpec => [](hook \in Int)
<1>1. HookInit => hook \in Int
  <2> SUFFICES ASSUME HookInit PROVE hook \in Int
    OBVIOUS
  <2>1. \A n \in HookScores : n \in Int
    BY ScanAssumption
  <2> QED
    BY <2>1 DEF HookInit, Init, NoHook, HookRaises
<1>2. hook \in Int /\ [HookNext]_hookVars => (hook \in Int)'
  BY DEF HookNext, HookStep, hookVars, vars, Step, Word, MatchPatterns, AddKeyword,
         EndKeywords, Return, detect_segment, Detected
<1> QED
  BY <1>1, <1>2, PTL DEF HookSpec

\* Whatever a hook answers, what would be blocked without it stays blocked; one that
\* raises leaves clean what is clean and nothing else; and a remote model that is down
\* changes nothing.
THEOREM AnswersUnblockNothing == HookSpec => []NoAnswerUnblocks
<1>1. ASSUME ScanInv, HookInv, hook \in Int, result # <<>>
      PROVE  LET without == Judge(Floored(raw[1].score), raw[1].classes) IN
             /\ lib # {} => hook # HookRaises
             /\ without.blocked /\ hook # HookRaises => result[1].blocked
             /\ hook = HookRaises =>
                    (result[1].verdict = "clean" <=> without.verdict = "clean")
             /\ Down => result[1] = without
  <2>1. PICK score \in Nat, floored \in Nat :
            /\ score = raw[1].score
            /\ floored = Floored(score)
            /\ floored >= score /\ (floored >= 65 => score >= 65)
            /\ hook = HookRaises => result[1] = HookFailed(floored)
            /\ hook # HookRaises => result[1] = Judge(Boosted(floored), raw[1].classes)
    BY <1>1, Results
  <2>2. PICK without : without = Judge(floored, raw[1].classes)
    OBVIOUS
  <2>3. /\ without.blocked <=> floored >= 65
        /\ without.verdict = "clean" <=> floored < 35
        /\ HookFailed(floored).verdict = "clean" <=> floored < 35
    BY <2>2, Judged
  <2>4. lib # {} => hook # HookRaises
    BY <1>1, HookType DEF HookRaises
  <2>5. PICK final \in Int : final = Boosted(floored)
    BY <1>1 DEF Boosted, Most
  <2>6. final >= floored
    BY <1>1, <2>5 DEF Boosted, Most
  <2>7. ASSUME without.blocked, hook # HookRaises PROVE result[1].blocked
    <3>1. final >= 65
      BY <2>3, <2>6, <2>7
    <3>2. result[1] = Judge(final, raw[1].classes)
      BY <2>1, <2>5, <2>7
    <3> QED
      BY <3>1, <3>2, Judged
  <2>8. ASSUME hook = HookRaises
        PROVE  result[1].verdict = "clean" <=> without.verdict = "clean"
    BY <2>1, <2>3, <2>8
  <2>9. ASSUME Down PROVE result[1] = without
    <3>1. PICK library \in lib : library.kind = "external" /\ library.answer.says = "fails"
      BY <2>9 DEF Down
    <3>2. hook = Score(library, library.answer)
      BY <1>1, HookType
    <3>3. hook = 0
      BY <3>1, <3>2 DEF Score, RemoteScore
    <3>4. final = floored /\ hook # HookRaises
      BY <2>5, <3>3 DEF Boosted, Most, NoHook, HookRaises
    <3> QED
      BY <2>1, <2>2, <2>5, <3>4
  <2> QED
    BY <2>1, <2>2, <2>4, <2>7, <2>8, <2>9
<1>2. ScanInv /\ HookInv /\ hook \in Int => NoAnswerUnblocks
  BY <1>1 DEF NoAnswerUnblocks
<1> QED
  BY <1>2, HooksAreSound, HooksAreNumbers, PTL

\* A library that gives a verdict has a threshold, which is a number.
LEMMA ThresholdType ==
    ASSUME NEW library \in Libraries, HasVerdict(library)
    PROVE  library.threshold \in Nat
<1>1. CASE library.generation = "package"
  BY <1>1 DEF Libraries
<1>2. CASE library.generation # "package"
  <2>1. library.kind = "lightweight"
    BY <1>2 DEF HasVerdict
  <2>2. library.threshold \in Thresholds
    BY <1>2, <2>1 DEF Libraries
  <2> QED
    BY <2>2, HookAssumption
<1> QED
  BY <1>1, <1>2

\* However a verdict is asked for and whatever thresholds are configured, the answers
\* differ only by the distance between the thresholds.
THEOREM VerdictsDoAgree == HookSpec => []VerdictsAgree
<1>1. ASSUME ScanInv, HookInv, result # <<>>, hook = NoHook,
             NEW threshold \in Thresholds \cup {65}
      PROVE  /\ threshold <= 65 /\ result[1].blocked => detect(threshold)
             /\ threshold >= 65 /\ detect(threshold) => result[1].blocked
  <2>1. PICK score \in Nat, floored \in Nat :
            /\ score = raw[1].score
            /\ floored = Floored(score)
            /\ floored >= score /\ (floored >= 65 => score >= 65)
            /\ hook = HookRaises => result[1] = HookFailed(floored)
            /\ hook # HookRaises => result[1] = Judge(Boosted(floored), raw[1].classes)
    BY <1>1, Results
  <2>2. hook # HookRaises /\ Boosted(floored) = floored
    BY <1>1 DEF HookRaises, NoHook, Boosted
  <2>3. result[1].blocked <=> floored >= 65
    BY <2>1, <2>2, Judged
  <2>4. threshold \in Nat
    <3>1. \A n \in Thresholds \cup {65} : n \in Nat
      BY HookAssumption
    <3> QED
      BY <3>1
  <2> QED
    BY <2>1, <2>3, <2>4 DEF detect
<1>2. ASSUME ScanInv, HookInv, result # <<>>, NEW library \in lib, NEW verdict \in own,
             verdict.objects, verdict.answer = library.answer
      PROVE  /\ library.threshold >= 65 => result[1].blocked
             /\ library.threshold >= 35 => result[1].verdict # "clean"
  <2>1. PICK score \in Nat, floored \in Nat :
            /\ score = raw[1].score
            /\ floored = Floored(score)
            /\ floored >= score /\ (floored >= 65 => score >= 65)
            /\ hook = HookRaises => result[1] = HookFailed(floored)
            /\ hook # HookRaises => result[1] = Judge(Boosted(floored), raw[1].classes)
    BY <1>2, Results
  <2>2. hook \in Nat /\ library \in Libraries /\ hook = Score(library, library.answer)
    BY <1>2, HookType
  <2>3. Objects(library, hook) /\ HasVerdict(library)
    BY <1>2, <2>2 DEF HookInv
  <2>4. PICK threshold \in Nat : threshold = library.threshold
    BY <2>2, <2>3, ThresholdType
  <2>5. hook # HookRaises /\ hook # NoHook
    BY <2>2 DEF HookRaises, NoHook
  <2>6. PICK final \in Nat : final = Boosted(floored)
    BY <2>2, <2>5 DEF Boosted, Most
  <2>7. final >= hook /\ hook >= threshold
    BY <2>2, <2>3, <2>4, <2>5, <2>6 DEF Boosted, Most, Objects
  <2>8. result[1] = Judge(final, raw[1].classes)
    BY <2>1, <2>5, <2>6
  <2>9. /\ threshold >= 65 => final >= 65
        /\ threshold >= 35 => ~(final < 35)
    BY <2>2, <2>7
  <2> QED
    BY <2>4, <2>8, <2>9, Judged
<1>3. ScanInv /\ HookInv => VerdictsAgree
  BY <1>1, <1>2 DEF VerdictsAgree
<1> QED
  BY <1>3, HooksAreSound, PTL
================================================================================
