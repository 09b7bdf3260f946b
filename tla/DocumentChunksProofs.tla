------------------------ MODULE DocumentChunksProofs ------------------------
(***************************************************************************)
(* Theorems about what the indexing pipeline makes of a text, for texts of *)
(* any length, any limit and overlap and embedding requests of any size.   *)
(***************************************************************************)
EXTENDS IndexedContent, FiniteSetTheorems, WellFoundedInduction, TLAPS

-----------------------------------------------------------------------------
(* Least and greatest numbers *)

\* A set of naturals has a least element: the form of induction used below.
LEMMA LeastElement ==
  ASSUME NEW T \in SUBSET Nat, T # {}
  PROVE  \E x \in T : \A y \in T : x <= y
<1> DEFINE R == OpToRel(<, Nat)
<1>1. IsWellFoundedOn(R, Nat)
  BY NatLessThanWellFounded
<1>2. \A x, y \in Nat : x < y => <<x, y>> \in R
  BY DEF OpToRel
<1> HIDE DEF R
<1>3. PICK x \in T : \A y \in T : ~ (<<y, x>> \in R)
  BY <1>1, WFMin
<1>4. \A y \in T : x <= y
  <2> SUFFICES ASSUME NEW y \in T PROVE x <= y
    OBVIOUS
  <2>1. ~ (<<y, x>> \in R)
    BY <1>3
  <2>2. ~ (y < x)
    BY <1>2, <2>1
  <2> QED BY <2>2
<1> QED
  BY <1>4

\* A set of integers with a lower bound has a least element: Min is one.
LEMMA MinIs ==
  ASSUME NEW S \in SUBSET Int, NEW b \in Int, S # {}, \A x \in S : b <= x
  PROVE  Min(S) \in S /\ \A x \in S : Min(S) <= x
<1> DEFINE T == {n \in Nat : b + n \in S}
<1>1. T # {}
  <2>1. PICK x \in S : TRUE
    OBVIOUS
  <2>2. x - b \in Nat /\ b + (x - b) = x
    BY <2>1
  <2> QED BY <2>2
<1>2. PICK n \in T : \A m \in T : n <= m
  BY <1>1, LeastElement
<1>3. b + n \in S /\ \A x \in S : b + n <= x
  <2> SUFFICES ASSUME NEW x \in S PROVE b + n <= x
    BY <1>2
  <2>1. x - b \in T
    OBVIOUS
  <2> QED BY <1>2, <2>1
<1> QED BY <1>3 DEF Min

\* So has a set of integers that is bounded above a greatest.
LEMMA MaxIs ==
  ASSUME NEW S \in SUBSET Int, NEW b \in Int, S # {}, \A x \in S : x <= b
  PROVE  Max(S) \in S /\ \A x \in S : x <= Max(S)
<1> DEFINE T == {n \in Nat : b - n \in S}
<1>1. T # {}
  <2>1. PICK x \in S : TRUE
    OBVIOUS
  <2>2. b - x \in Nat /\ b - (b - x) = x
    BY <2>1
  <2> QED BY <2>2
<1>2. PICK n \in T : \A m \in T : n <= m
  BY <1>1, LeastElement
<1>3. b - n \in S /\ \A x \in S : b - n >= x
  <2> SUFFICES ASSUME NEW x \in S PROVE b - n >= x
    BY <1>2
  <2>1. b - x \in T
    OBVIOUS
  <2> QED BY <1>2, <2>1
<1> QED BY <1>3 DEF Max

\* Min and Max of two numbers and of an interval.
LEMMA PairIs ==
  ASSUME NEW a \in Int, NEW b \in Int
  PROVE  /\ Min({a, b}) = IF a <= b THEN a ELSE b
         /\ Max({a, b}) = IF a >= b THEN a ELSE b
BY DEF Min, Max

LEMMA IntervalIs ==
  ASSUME NEW a \in Int, NEW b \in Int, a <= b
  PROVE  Min(a .. b) = a /\ Max(a .. b) = b
BY DEF Min, Max

-----------------------------------------------------------------------------
(* One window of the chunker *)

IsText(text) ==
  text.length \in Nat /\ text.spaces \subseteq 0 .. text.length - 1

IsSetting(s) ==
  s.max \in Nat \ {0} /\ s.overlap \in 0 .. s.max - 1

\* Where a window ends: with the text, at a limit no space comes before, or at
\* the last space before the limit.
LEMMA EndIs ==
  ASSUME NEW s, IsSetting(s), NEW text, IsText(text), NEW start \in 0 .. text.length,
         NEW end, end = FindChunkEnd(s, text, start)
  PROVE  \/ end = text.length /\ text.length <= start + s.max
         \/ /\ start + s.max < text.length /\ end = start + s.max
            /\ \A q \in start + 1 .. end - 1 : q \notin text.spaces
         \/ /\ start + s.max < text.length /\ end \in text.spaces
            /\ end \in start + 1 .. start + s.max - 1
            /\ \A q \in end + 1 .. start + s.max - 1 : q \notin text.spaces
<1> DEFINE hardEnd == Min({start + s.max, text.length})
           cuts    == text.spaces \cap (start + 1 .. hardEnd - 1)
<1>0. start \in Int /\ s.max \in Int /\ text.length \in Int /\ text.spaces \subseteq Int
  BY DEF IsText, IsSetting
<1>1. end = IF hardEnd = text.length \/ cuts = {} THEN hardEnd ELSE Max(cuts)
  BY DEF FindChunkEnd
<1>2. hardEnd = IF start + s.max <= text.length THEN start + s.max ELSE text.length
  BY <1>0, PairIs
<1> HIDE DEF hardEnd
<1>3. CASE hardEnd = text.length
  BY <1>0, <1>1, <1>2, <1>3
<1>4. CASE hardEnd # text.length /\ cuts = {}
  BY <1>0, <1>1, <1>2, <1>4
<1>5. CASE hardEnd # text.length /\ cuts # {}
  <2>1. hardEnd = start + s.max /\ hardEnd < text.length
    BY <1>0, <1>2, <1>5
  <2>2. cuts \in SUBSET Int /\ \A x \in cuts : x <= hardEnd
    BY <1>0, <2>1
  <2>c. hardEnd \in Int
    BY <1>0, <2>1
  <2>3. Max(cuts) \in cuts /\ \A x \in cuts : x <= Max(cuts)
    <3> HIDE DEF cuts
    <3> QED BY <1>5, <2>c, <2>2, MaxIs
  <2>4. end = Max(cuts)
    BY <1>1, <1>5
  <2>5. end \in text.spaces /\ end \in start + 1 .. start + s.max - 1
    <3>1. end \in cuts
      BY <2>3, <2>4
    <3> QED BY <1>0, <2>1, <3>1
  <2>6. ASSUME NEW q \in end + 1 .. start + s.max - 1, q \in text.spaces PROVE FALSE
    <3>1. q \in cuts
      BY <1>0, <2>1, <2>5, <2>6
    <3>2. q <= end
      BY <2>3, <2>4, <3>1
    <3> QED BY <1>0, <2>5, <3>2
  <2> QED BY <2>1, <2>5, <2>6
<1> QED BY <1>3, <1>4, <1>5

\* A window moves on, and ends no earlier than the one before.
LEMMA WindowMoves ==
  ASSUME NEW s, IsSetting(s), NEW text, IsText(text), NEW start \in 0 .. text.length,
         NEW end, end = FindChunkEnd(s, text, start)
  PROVE  /\ end \in start .. text.length /\ end <= start + s.max
         /\ start < text.length => start < end
         /\ end < text.length =>
              /\ NextStart(s, start, end) \in start + 1 .. end
              /\ NextStart(s, start, end) =
                   IF end - s.overlap >= start + 1 THEN end - s.overlap ELSE start + 1
              /\ end <= FindChunkEnd(s, text, NextStart(s, start, end))
<1>0. /\ start \in Int /\ s.max \in Int /\ s.max > 0 /\ s.overlap \in 0 .. s.max - 1
      /\ text.length \in Int /\ text.spaces \subseteq Int /\ start <= text.length
  BY DEF IsText, IsSetting
<1>1. end \in start .. text.length /\ end <= start + s.max
      /\ (start < text.length => start < end)
  BY <1>0, EndIs
<1>2. ASSUME end < text.length
      PROVE  NextStart(s, start, end) =
               IF end - s.overlap >= start + 1 THEN end - s.overlap ELSE start + 1
  <2>1. end - s.overlap \in Int /\ start + 1 \in Int
    BY <1>0, <1>1
  <2> QED BY <2>1, PairIs DEF NextStart
<1>3. ASSUME end < text.length
      PROVE  NextStart(s, start, end) \in start + 1 .. end
  BY <1>0, <1>1, <1>2, <1>3
<1>4. ASSUME end < text.length
      PROVE  end <= FindChunkEnd(s, text, NextStart(s, start, end))
  <2> DEFINE nx == NextStart(s, start, end)
  <2>1. nx \in 0 .. text.length /\ nx \in start + 1 .. end
    BY <1>0, <1>1, <1>3, <1>4
  <2> HIDE DEF nx
  <2>2. PICK e : e = FindChunkEnd(s, text, nx)
    OBVIOUS
  <2>3. \/ e = text.length
        \/ e = nx + s.max
        \/ /\ e \in text.spaces /\ e \in nx + 1 .. nx + s.max - 1
           /\ \A q \in e + 1 .. nx + s.max - 1 : q \notin text.spaces
    BY <2>1, <2>2, EndIs
  <2>4. \/ end = start + s.max /\ \A q \in start + 1 .. end - 1 : q \notin text.spaces
        \/ end \in text.spaces /\ end < start + s.max
    BY <1>0, <1>4, EndIs
  <2>5. end <= e
    BY <1>0, <1>1, <2>1, <2>3, <2>4
  <2> QED BY <2>2, <2>5 DEF nx
<1> QED BY <1>1, <1>2, <1>3, <1>4

-----------------------------------------------------------------------------
(* One chunk *)

\* The chunk of a window goes from its first letter to its last, and is empty
\* only if the window has no letters.
LEMMA StripIs ==
  ASSUME NEW text, NEW a \in Int, NEW b \in Int
  PROVE  LET chunk   == Strip(text, a .. b)
             letters == (a .. b) \ text.spaces
         IN  /\ chunk = {} <=> letters = {}
             /\ chunk # {} =>
                  /\ Min(chunk) \in letters /\ Max(chunk) \in letters
                  /\ \A p \in letters : Min(chunk) <= p /\ p <= Max(chunk)
                  /\ chunk = Min(chunk) .. Max(chunk)
<1> DEFINE chunk   == Strip(text, a .. b)
           letters == (a .. b) \ text.spaces
<1>1. CASE letters = {}
  BY <1>1 DEF Strip
<1>2. CASE letters # {}
  <2>1. letters \in SUBSET Int /\ (\A x \in letters : a <= x) /\ (\A x \in letters : x <= b)
    OBVIOUS
  <2>2. /\ Min(letters) \in letters /\ \A x \in letters : Min(letters) <= x
        /\ Max(letters) \in letters /\ \A x \in letters : x <= Max(letters)
    <3> HIDE DEF letters
    <3> QED BY <1>2, <2>1, MinIs, MaxIs
  <2>3. chunk = Min(letters) .. Max(letters)
    BY <1>2 DEF Strip
  <2>4. PICK lo, hi \in Int : lo = Min(letters) /\ hi = Max(letters)
    BY <2>1, <2>2
  <2>5. lo <= hi /\ chunk = lo .. hi
    BY <2>2, <2>3, <2>4
  <2>6. Min(chunk) = lo /\ Max(chunk) = hi
    BY <2>5, IntervalIs
  <2>7. chunk # {}
    BY <2>5
  <2> HIDE DEF chunk, letters
  <2>8. /\ chunk = {} <=> letters = {}
        /\ chunk # {} =>
                  /\ Min(chunk) \in letters /\ Max(chunk) \in letters
                  /\ \A p \in letters : Min(chunk) <= p /\ p <= Max(chunk)
                  /\ chunk = Min(chunk) .. Max(chunk)
    BY <1>2, <2>2, <2>4, <2>5, <2>6, <2>7
  <2> QED BY <2>8 DEF chunk, letters
<1> QED BY <1>1, <1>2

\* A chunk is no longer than its window.
LEMMA StripFits ==
  ASSUME NEW text, NEW a \in Int, NEW b \in Int, Strip(text, a .. b) # {}
  PROVE  Cardinality(Strip(text, a .. b)) <= b - a + 1
<1> DEFINE chunk == Strip(text, a .. b)
<1>1. chunk \subseteq a .. b
  <2>1. Min(chunk) \in a .. b /\ Max(chunk) \in a .. b /\ chunk = Min(chunk) .. Max(chunk)
    BY StripIs
  <2> HIDE DEF chunk
  <2> QED BY <2>1
<1>2. IsFiniteSet(a .. b) /\ Cardinality(a .. b) = IF a > b THEN 0 ELSE b - a + 1
  BY FS_Interval
<1>3. Cardinality(chunk) <= Cardinality(a .. b)
  BY <1>1, <1>2, FS_Subset
<1>4. a <= b
  BY <1>1
<1>5. IsFiniteSet(chunk)
  BY <1>1, <1>2, FS_Subset
<1>6. Cardinality(chunk) \in Nat
  BY <1>5, FS_CardinalityType
<1> QED BY <1>2, <1>3, <1>4, <1>6

\* Letters of a window, and what lies between them, are in its chunk.
LEMMA StripKeeps ==
  ASSUME NEW text, NEW a \in Int, NEW b \in Int,
         NEW p \in (a .. b) \ text.spaces, NEW q \in (a .. b) \ text.spaces
  PROVE  Strip(text, a .. b) # {} /\ p .. q \subseteq Strip(text, a .. b)
<1> DEFINE chunk == Strip(text, a .. b)
<1>1. /\ chunk # {} /\ Min(chunk) \in a .. b /\ Max(chunk) \in a .. b
      /\ chunk = Min(chunk) .. Max(chunk)
      /\ Min(chunk) <= p /\ q <= Max(chunk)
  BY StripIs
<1> HIDE DEF chunk
<1>2. chunk # {} /\ p .. q \subseteq chunk
  BY <1>1
<1> QED BY <1>2 DEF chunk

-----------------------------------------------------------------------------
(* Words *)

\* A word is a stretch of letters with no letter before it.
LEMMA WordIs ==
  ASSUME NEW text, IsText(text), NEW W \in WordsOf(text)
  PROVE  \E a, b \in 0 .. text.length - 1 :
           /\ W = a .. b /\ a <= b
           /\ \A p \in a .. b : p \notin text.spaces
           /\ a = 0 \/ a - 1 \in text.spaces
           /\ Cardinality(W) = b - a + 1
<1>0. text.length \in Int /\ text.spaces \subseteq Int /\ -1 \notin text.spaces
  BY DEF IsText
<1>1. PICK a \in 0 .. text.length - 1 :
        /\ a \notin text.spaces /\ a - 1 \in text.spaces \cup {-1}
        /\ W = a .. WordEnd(text, a) - 1
  BY DEF WordsOf
<1> DEFINE S == {q \in a .. text.length : q \in text.spaces \cup {text.length}}
<1>2. S \in SUBSET Int /\ text.length \in S /\ \A x \in S : a <= x
  BY <1>0
<1>3. /\ WordEnd(text, a) \in S /\ \A x \in S : WordEnd(text, a) <= x
  <2>1. WordEnd(text, a) = Min(S)
    BY DEF WordEnd
  <2> HIDE DEF S
  <2>2. a \in Int
    BY <1>0
  <2> QED BY <1>2, <2>1, <2>2, MinIs
<1>4. PICK e \in S : e = WordEnd(text, a)
  BY <1>3
<1>5. e \in a + 1 .. text.length
  BY <1>0, <1>1
<1>6. \A p \in a .. e - 1 : p \notin text.spaces
  BY <1>0, <1>3, <1>4, <1>5
<1>7. Cardinality(a .. e - 1) = e - 1 - a + 1
  BY <1>0, <1>5, FS_Interval
<1>8. a = 0 \/ a - 1 \in text.spaces
  BY <1>0, <1>1
<1>9. PICK b \in 0 .. text.length - 1 : b = e - 1 /\ a <= b
  BY <1>0, <1>1, <1>5
<1>10. /\ W = a .. b
       /\ \A p \in a .. b : p \notin text.spaces
       /\ Cardinality(W) = b - a + 1
  BY <1>1, <1>4, <1>5, <1>6, <1>7, <1>9
<1> QED BY <1>8, <1>9, <1>10

\* Letters that nothing separates are in one word.
LEMMA WordAround ==
  ASSUME NEW text, IsText(text),
         NEW a \in 0 .. text.length - 1, NEW b \in a .. text.length - 1,
         \A p \in a .. b : p \notin text.spaces
  PROVE  \E W \in WordsOf(text) : Cardinality(W) >= b - a + 1
<1>0. text.length \in Nat /\ text.spaces \subseteq Int /\ -1 \notin text.spaces /\ a \in Int
      /\ b \in Int /\ a <= b /\ b < text.length /\ 0 <= a
  BY DEF IsText
<1> DEFINE P == {q \in Nat : q <= a /\ \A p \in q .. b : p \notin text.spaces}
<1>1. P \in SUBSET Nat /\ a \in P
  BY <1>0
<1>2. PICK f \in P : \A q \in P : f <= q
  <2> HIDE DEF P
  <2> QED BY <1>1, LeastElement
<1>3. f - 1 \in text.spaces \cup {-1}
  <2>1. CASE f = 0
    BY <2>1
  <2>2. CASE f # 0
    <3>1. f - 1 \notin P /\ f - 1 \in Nat
      BY <1>2, <2>2
    <3>2. PICK p \in f - 1 .. b : p \in text.spaces
      BY <1>0, <1>2, <3>1
    <3>3. p = f - 1
      BY <1>0, <1>2, <3>2
    <3> QED BY <3>2, <3>3
  <2> QED BY <2>1, <2>2
<1> DEFINE S == {q \in f .. text.length : q \in text.spaces \cup {text.length}}
           W == f .. WordEnd(text, f) - 1
<1>4. W \in WordsOf(text)
  BY <1>0, <1>2, <1>3 DEF WordsOf
<1>5. S \in SUBSET Int /\ text.length \in S /\ \A x \in S : f <= x
  BY <1>0, <1>2
<1>6. WordEnd(text, f) \in S
  <2>1. WordEnd(text, f) = Min(S)
    BY DEF WordEnd
  <2> HIDE DEF S
  <2>2. f \in Int
    BY <1>2
  <2> QED BY <1>5, <2>1, <2>2, MinIs
<1>7. WordEnd(text, f) > b /\ WordEnd(text, f) \in Int
  BY <1>0, <1>2, <1>6
<1>8. Cardinality(W) = WordEnd(text, f) - f
  <2> HIDE DEF S
  <2>1. WordEnd(text, f) - 1 \in Int /\ f \in Int /\ f <= WordEnd(text, f) - 1
    BY <1>0, <1>2, <1>7
  <2> QED BY <1>7, <2>1, FS_Interval
<1>9. Cardinality(W) >= b - a + 1
  <2> HIDE DEF S, W
  <2> QED BY <1>0, <1>2, <1>7, <1>8
<1> QED BY <1>4, <1>9

-----------------------------------------------------------------------------
(* From one window to the next *)

\* The window that begins at start, as chunks: one or none.
Cut(s, text, start) ==
  LET chunk == Strip(text, start .. FindChunkEnd(s, text, start) - 1)
  IN  IF chunk = {} THEN <<>> ELSE <<chunk>>

\* A chunk of a later window, which ends no earlier.
FromWindow(s, text, start, chunk) ==
  \E a \in start .. text.length - 1 :
    /\ chunk = Strip(text, a .. FindChunkEnd(s, text, a) - 1)
    /\ FindChunkEnd(s, text, start) <= FindChunkEnd(s, text, a)

\* What one chunk has to hold: a letter, a word shorter than the limit or, when
\* words are short, letters no further apart than the overlap.
Together(s, text, a, b) ==
  /\ a \notin text.spaces /\ b \notin text.spaces
  /\ \/ a = b
     \/ a .. b \in WordsOf(text) /\ a <= b /\ Cardinality(a .. b) < s.max
     \/ /\ \A W \in WordsOf(text) : Cardinality(W) < s.max - s.overlap
        /\ b \in a + 1 .. a + s.overlap

\* The chunks of the text from start on keep it.
KeepsFrom(s, text, start, chunks) ==
  /\ chunks \in Seq(SUBSET Int)
  /\ \A k \in 1..Len(chunks) : chunks[k] # {} /\ FromWindow(s, text, start, chunks[k])
  /\ InOrder(chunks)
  /\ \A a, b \in start .. text.length - 1 :
       Together(s, text, a, b) => Inside(a .. b, chunks)

\* What has to be together is not cut in two: it is in this window, or begins
\* in the next.
LEMMA TogetherStays ==
  ASSUME NEW s, IsSetting(s), NEW text, IsText(text), NEW start \in 0 .. text.length - 1,
         NEW end, end = FindChunkEnd(s, text, start),
         NEW a \in start .. text.length - 1, NEW b \in start .. text.length - 1,
         Together(s, text, a, b), b >= end
  PROVE  end < text.length /\ a >= NextStart(s, start, end)
<1> DEFINE nx == NextStart(s, start, end)
<1>0. /\ start \in Int /\ s.max \in Int /\ s.max > 0 /\ s.overlap \in 0 .. s.max - 1
      /\ text.length \in Nat /\ text.spaces \subseteq Int /\ start < text.length
      /\ a \in Int /\ b \in Int /\ b < text.length /\ start <= a /\ a < text.length /\ 0 <= start
      /\ -1 \notin text.spaces
  BY DEF IsText, IsSetting
<1>1. /\ end \in start + 1 .. text.length /\ end < text.length
      /\ nx \in start + 1 .. end
      /\ nx = IF end - s.overlap >= start + 1 THEN end - s.overlap ELSE start + 1
  BY <1>0, WindowMoves
<1> HIDE DEF nx
<1>2. \/ /\ start + s.max < text.length /\ end = start + s.max
         /\ \A q \in start + 1 .. end - 1 : q \notin text.spaces
      \/ /\ start + s.max < text.length /\ end \in text.spaces
         /\ end < start + s.max
         /\ \A q \in end + 1 .. start + s.max - 1 : q \notin text.spaces
  BY <1>0, <1>1, EndIs
<1>3. CASE a = b
  BY <1>0, <1>1, <1>3 DEF nx
<1>4. CASE a .. b \in WordsOf(text) /\ a <= b /\ Cardinality(a .. b) < s.max
  <2>1. PICK c, d \in 0 .. text.length - 1 :
          /\ a .. b = c .. d /\ c <= d
          /\ \A p \in c .. d : p \notin text.spaces
          /\ c = 0 \/ c - 1 \in text.spaces
          /\ Cardinality(a .. b) = d - c + 1
    BY <1>4, WordIs
  <2>2. a = c /\ b = d
    <3>1. a = Min(a .. b) /\ b = Max(a .. b)
      BY <1>0, <1>4, IntervalIs
    <3>2. c = Min(c .. d) /\ d = Max(c .. d)
      BY <2>1, IntervalIs
    <3> QED BY <2>1, <3>1, <3>2
  <2>3. (a = 0 \/ a - 1 \in text.spaces) /\ b - a + 1 < s.max
        /\ \A p \in a .. b : p \notin text.spaces
    BY <1>4, <2>1, <2>2
  <2>4. SUFFICES ASSUME a < nx PROVE FALSE
    BY <1>0, <1>1 DEF nx
  <2>5. a < end
    BY <1>0, <1>1, <2>4
  <2>6. end \notin text.spaces
    BY <1>0, <1>1, <2>3, <2>5
  <2>7. end = start + s.max /\ \A q \in start + 1 .. end - 1 : q \notin text.spaces
    BY <1>2, <2>6
  <2>8. a # start
    BY <1>0, <2>3, <2>7
  <2>9. a - 1 \in text.spaces /\ a - 1 \notin start + 1 .. end - 1
    BY <1>0, <2>3, <2>7, <2>8
  <2>10. a - 1 = start
    BY <1>0, <1>1, <2>5, <2>8, <2>9
  <2> QED BY <1>0, <2>3, <2>7, <2>10
<1>5. CASE /\ \A W \in WordsOf(text) : Cardinality(W) < s.max - s.overlap
           /\ b \in a + 1 .. a + s.overlap
  <2>1. SUFFICES ASSUME a < nx PROVE FALSE
    BY <1>0, <1>1 DEF nx
  <2>2. s.overlap >= 1
    BY <1>0, <1>5
  <2>3. CASE end = start + s.max /\ \A q \in start + 1 .. end - 1 : q \notin text.spaces
    <3>1. CASE s.max = 1
      BY <1>0, <2>2, <3>1
    <3>2. CASE s.max # 1
      <4>1. /\ start + 1 \in 0 .. text.length - 1
            /\ end - 1 \in start + 1 .. text.length - 1
        BY <1>0, <1>1, <2>3, <3>2
      <4>2. PICK W \in WordsOf(text) : Cardinality(W) >= end - 1 - (start + 1) + 1
        BY <2>3, <4>1, WordAround
      <4>3. Cardinality(W) \in Int
        BY WordIs, <1>0
      <4> QED BY <1>0, <1>5, <2>2, <2>3, <4>2, <4>3
    <3> QED BY <3>1, <3>2
  <2>4. CASE /\ end \in text.spaces /\ end < start + s.max
             /\ \A q \in end + 1 .. start + s.max - 1 : q \notin text.spaces
    <3>1. b >= end + 1
      BY <1>0, <2>4 DEF Together
    <3>2. a = start /\ end - s.overlap < start + 1
      BY <1>0, <1>1, <1>5, <2>1, <3>1
    <3>3. end <= start + s.overlap - 1
      BY <1>0, <1>1, <1>5, <3>1, <3>2
    <3>4. PICK c \in 0 .. text.length - 1, d \in 0 .. text.length - 1 :
            c = end + 1 /\ d = start + s.max - 1
      BY <1>0, <1>1, <1>2, <3>1, <3>3
    <3>. c <= d /\ \A p \in c .. d : p \notin text.spaces
      BY <1>0, <2>4, <3>3, <3>4
    <3>5. PICK W \in WordsOf(text) : Cardinality(W) >= d - c + 1
      BY WordAround
    <3>6. Cardinality(W) \in Int
      BY WordIs, <1>0
    <3> QED BY <1>0, <1>1, <1>5, <3>3, <3>4, <3>5, <3>6
  <2> QED BY <1>2, <2>3, <2>4
<1> QED BY <1>3, <1>4, <1>5 DEF Together

\* A later window is after the first letter of this one, and goes as far.
LEMMA WindowsInOrder ==
  ASSUME NEW s, IsSetting(s), NEW text, IsText(text), NEW start \in 0 .. text.length - 1,
         NEW a \in start .. text.length - 1,
         FindChunkEnd(s, text, start) <= FindChunkEnd(s, text, a),
         NEW C, C = Strip(text, start .. FindChunkEnd(s, text, start) - 1), C # {},
         NEW D, D = Strip(text, a .. FindChunkEnd(s, text, a) - 1), D # {}
  PROVE  Min(C) <= Min(D) /\ Max(C) <= Max(D)
<1>1. PICK e, f \in Int : e = FindChunkEnd(s, text, start) /\ f = FindChunkEnd(s, text, a)
  <2>1. a \in 0 .. text.length
    BY DEF IsText
  <2>2. start \in 0 .. text.length
    BY DEF IsText
  <2>3. /\ FindChunkEnd(s, text, start) \in start .. text.length
        /\ FindChunkEnd(s, text, a) \in a .. text.length
    BY <2>1, <2>2, WindowMoves
  <2> QED BY <2>3
<1>2. start \in Int /\ a \in Int /\ start <= a /\ e <= f /\ e - 1 \in Int /\ f - 1 \in Int
  BY <1>1 DEF IsText
<1>3. /\ Min(C) \in (start .. e - 1) \ text.spaces /\ Max(C) \in (start .. e - 1) \ text.spaces
      /\ \A p \in (start .. e - 1) \ text.spaces : Min(C) <= p /\ p <= Max(C)
  BY <1>1, <1>2, StripIs
<1>4. /\ Min(D) \in (a .. f - 1) \ text.spaces /\ Max(D) \in (a .. f - 1) \ text.spaces
      /\ \A p \in (a .. f - 1) \ text.spaces : Min(D) <= p /\ p <= Max(D)
  BY <1>1, <1>2, StripIs
<1> QED BY <1>2, <1>3, <1>4

\* What the window at start adds to the chunks that keep the text from the next
\* window on: together they keep it from start on.
LEMMA WindowKeeps ==
  ASSUME NEW s, IsSetting(s), NEW text, IsText(text), NEW start \in 0 .. text.length - 1,
         NEW end, end = FindChunkEnd(s, text, start), NEW rest,
         \/ end = text.length /\ rest = <<>>
         \/ end < text.length /\ KeepsFrom(s, text, NextStart(s, start, end), rest)
  PROVE  KeepsFrom(s, text, start, Cut(s, text, start) \o rest)
<1> DEFINE chunk  == Strip(text, start .. end - 1)
           chunks == Cut(s, text, start) \o rest
<1>0. /\ start \in Int /\ 0 <= start /\ start < text.length /\ text.length \in Nat
      /\ start \in 0 .. text.length
  BY DEF IsText
<1>1. end \in start + 1 .. text.length /\ end - 1 \in Int /\ end \in Int
  BY <1>0, WindowMoves
<1>2. rest \in Seq(SUBSET Int)
  <2>1. CASE rest = <<>>
    BY <2>1
  <2>2. CASE KeepsFrom(s, text, NextStart(s, start, end), rest)
    BY <2>2 DEF KeepsFrom
  <2> QED BY <2>1, <2>2
<1>3. chunk \subseteq Int
  BY <1>1, StripIs
<1>4. \A k \in 1..Len(rest) : rest[k] # {} /\ FromWindow(s, text, start, rest[k])
  <2> SUFFICES ASSUME NEW k \in 1..Len(rest)
               PROVE  rest[k] # {} /\ FromWindow(s, text, start, rest[k])
    OBVIOUS
  <2>1. end < text.length /\ KeepsFrom(s, text, NextStart(s, start, end), rest)
    OBVIOUS
  <2>2. PICK nx \in start + 1 .. end :
          nx = NextStart(s, start, end) /\ end <= FindChunkEnd(s, text, nx)
    BY <1>0, <2>1, WindowMoves
  <2>3. rest[k] # {} /\ FromWindow(s, text, nx, rest[k])
    BY <2>1, <2>2 DEF KeepsFrom
  <2>4. PICK a \in nx .. text.length - 1 :
          /\ rest[k] = Strip(text, a .. FindChunkEnd(s, text, a) - 1)
          /\ FindChunkEnd(s, text, nx) <= FindChunkEnd(s, text, a)
    BY <2>3 DEF FromWindow
  <2>5. a \in start .. text.length - 1 /\ a \in 0 .. text.length /\ nx \in 0 .. text.length
    BY <1>0, <1>1, <2>2
  <2>6. FindChunkEnd(s, text, nx) \in Int /\ FindChunkEnd(s, text, a) \in Int
    <3>1. /\ FindChunkEnd(s, text, nx) \in nx .. text.length
          /\ FindChunkEnd(s, text, a) \in a .. text.length
      BY <2>5, WindowMoves
    <3> QED BY <3>1
  <2>7. end <= FindChunkEnd(s, text, a)
    BY <1>1, <2>2, <2>4, <2>6
  <2> QED BY <2>3, <2>4, <2>5, <2>7 DEF FromWindow
<1>5. InOrder(rest)
  BY DEF KeepsFrom, InOrder
<1>6. ASSUME NEW a \in start .. text.length - 1, NEW b \in start .. text.length - 1,
             Together(s, text, a, b)
      PROVE  \/ chunk # {} /\ a .. b \subseteq chunk
             \/ Inside(a .. b, rest)
  <2>1. CASE b < end
    <3>1. a <= b
      <4>1. CASE b \in a + 1 .. a + s.overlap
        BY <1>0, <4>1
      <4> QED BY <1>0, <1>6, <4>1 DEF Together
    <3>2. a \in (start .. end - 1) \ text.spaces /\ b \in (start .. end - 1) \ text.spaces
      BY <1>0, <1>1, <1>6, <2>1, <3>1 DEF Together
    <3> QED BY <1>0, <1>1, <3>2, StripKeeps
  <2>2. CASE b >= end
    <3>1. end < text.length /\ a >= NextStart(s, start, end)
      BY <1>6, <2>2, TogetherStays
    <3>2. PICK nx \in start + 1 .. end : nx = NextStart(s, start, end)
      BY <1>0, <3>1, WindowMoves
    <3>3. a \in nx .. text.length - 1 /\ b \in nx .. text.length - 1
      BY <1>0, <1>1, <2>2, <3>1, <3>2
    <3>4. KeepsFrom(s, text, nx, rest)
      BY <1>0, <3>1, <3>2
    <3>5. Inside(a .. b, rest)
      BY <1>6, <3>3, <3>4 DEF KeepsFrom
    <3> QED BY <3>5
  <2> QED BY <1>0, <1>1, <2>1, <2>2
<1>7. CASE chunk = {}
  <2>1. chunks = rest
    BY <1>2, <1>7 DEF Cut
  <2> HIDE DEF chunks, chunk
  <2>2. KeepsFrom(s, text, start, chunks)
    BY <1>2, <1>4, <1>5, <1>6, <1>7, <2>1 DEF KeepsFrom
  <2> QED BY <2>2 DEF chunks
<1>8. CASE chunk # {}
  <2>1. chunks = <<chunk>> \o rest
    BY <1>8 DEF Cut
  <2>2. FromWindow(s, text, start, chunk)
    BY <1>0, <1>1 DEF FromWindow
  <2>3. /\ chunks \in Seq(SUBSET Int) /\ Len(chunks) = Len(rest) + 1 /\ chunks[1] = chunk
        /\ \A k \in 1..Len(rest) : chunks[k + 1] = rest[k]
    <3> HIDE DEF chunk, chunks
    <3> QED BY <1>2, <1>3, <2>1
  <2>4. Len(rest) \in Nat
    BY <1>2
  <2>5. \A k \in 1..Len(chunks) : chunks[k] # {} /\ FromWindow(s, text, start, chunks[k])
    <3> SUFFICES ASSUME NEW k \in 1..Len(chunks)
                 PROVE  chunks[k] # {} /\ FromWindow(s, text, start, chunks[k])
      OBVIOUS
    <3>1. CASE k = 1
      BY <1>8, <2>2, <2>3, <3>1
    <3>2. CASE k # 1
      <4>1. k - 1 \in 1..Len(rest) /\ chunks[k] = rest[k - 1]
        <5> HIDE DEF chunks
        <5>1. k - 1 \in 1..Len(rest) /\ (k - 1) + 1 = k
          BY <2>3, <2>4, <3>2
        <5> QED BY <2>3, <5>1
      <4> QED BY <1>4, <4>1
    <3> QED BY <3>1, <3>2
  <2>6. InOrder(chunks)
    <3> SUFFICES ASSUME NEW k \in 1..Len(rest)
                 PROVE  Min(chunks[k]) <= Min(chunks[k + 1]) /\ Max(chunks[k]) <= Max(chunks[k + 1])
      <4> HIDE DEF chunks
      <4> QED BY <2>3, <2>4 DEF InOrder
    <3>1. CASE k = 1
      <4>1. rest[1] # {} /\ FromWindow(s, text, start, rest[1])
        BY <1>4, <3>1
      <4>2. PICK a \in start .. text.length - 1 :
              /\ rest[1] = Strip(text, a .. FindChunkEnd(s, text, a) - 1)
              /\ end <= FindChunkEnd(s, text, a)
        BY <4>1 DEF FromWindow
      <4>3. Min(chunk) <= Min(rest[1]) /\ Max(chunk) <= Max(rest[1])
        BY <1>8, <4>1, <4>2, WindowsInOrder
      <4> QED BY <2>3, <3>1, <4>3
    <3>2. CASE k # 1
      <4>1. k - 1 \in 1..Len(rest) - 1 /\ chunks[k] = rest[k - 1] /\ chunks[k + 1] = rest[k]
        <5> HIDE DEF chunks
        <5>1. k - 1 \in 1..Len(rest) /\ (k - 1) + 1 = k
          BY <2>4, <3>2
        <5> QED BY <2>3, <2>4, <5>1
      <4>2. /\ Min(rest[k - 1]) <= Min(rest[(k - 1) + 1])
            /\ Max(rest[k - 1]) <= Max(rest[(k - 1) + 1])
        BY <1>5, <4>1 DEF InOrder
      <4>3. (k - 1) + 1 = k
        BY <2>4
      <4> QED BY <4>1, <4>2, <4>3
    <3> QED BY <3>1, <3>2
  <2>7. \A a, b \in start .. text.length - 1 : Together(s, text, a, b) => Inside(a .. b, chunks)
    <3> SUFFICES ASSUME NEW a \in start .. text.length - 1, NEW b \in start .. text.length - 1,
                        Together(s, text, a, b)
                 PROVE  Inside(a .. b, chunks)
      OBVIOUS
    <3> HIDE DEF chunk, chunks
    <3>1. CASE a .. b \subseteq chunk
      <4>1. 1 \in DOMAIN chunks
        BY <2>3, <2>4
      <4> QED BY <2>3, <3>1, <4>1 DEF Inside
    <3>2. CASE Inside(a .. b, rest)
      <4>1. PICK k \in DOMAIN rest : a .. b \subseteq rest[k]
        BY <3>2 DEF Inside
      <4>2. k \in 1..Len(rest)
        BY <1>2
      <4>3. k + 1 \in DOMAIN chunks /\ chunks[k + 1] = rest[k]
        BY <2>3, <2>4, <4>2
      <4> QED BY <4>1, <4>3 DEF Inside
    <3> QED BY <1>6, <3>1, <3>2
  <2> HIDE DEF chunks
  <2>8. KeepsFrom(s, text, start, chunks)
    BY <2>3, <2>5, <2>6, <2>7 DEF KeepsFrom
  <2> QED BY <2>8 DEF chunks
<1> QED BY <1>7, <1>8

-----------------------------------------------------------------------------
(* The whole text *)

\* What the recursion of Chunks makes of start, if g is what it makes of later
\* places.
ChunksAt(s, text, g, start) ==
  LET end   == FindChunkEnd(s, text, start)
      chunk == Strip(text, start .. end - 1)
  IN  (IF chunk = {} THEN <<>> ELSE <<chunk>>)
        \o (IF end >= text.length THEN <<>> ELSE g[NextStart(s, start, end)])

Recursion(s, text, g, first) ==
  g = [start \in first .. text.length |-> ChunksAt(s, text, g, start)]

\* Chunks is a function that satisfies the recursion, once there is one.
LEMMA ChunksUnfold ==
  ASSUME NEW s, NEW text,
         \E g : Recursion(s, text, g, 0)
  PROVE  \E g : /\ Recursion(s, text, g, 0)
                /\ Chunks(s, text) = IF text.length = 0 THEN <<>> ELSE g[0]
<1> DEFINE h == CHOOSE g : g = [start \in 0 .. text.length |-> ChunksAt(s, text, g, start)]
<1>1. Recursion(s, text, h, 0)
  BY DEF Recursion
<1>2. Chunks(s, text) = IF text.length = 0 THEN <<>> ELSE h[0]
  BY DEF Chunks, ChunksAt
<1> QED BY <1>1, <1>2

\* ChunksAt looks no further back than one place on.
LEMMA LooksAhead ==
  ASSUME NEW s, IsSetting(s), NEW text, IsText(text), NEW start \in 0 .. text.length,
         NEW g, NEW h, \A a \in start + 1 .. text.length : g[a] = h[a]
  PROVE  ChunksAt(s, text, g, start) = ChunksAt(s, text, h, start)
<1> DEFINE end == FindChunkEnd(s, text, start)
<1>1. end \in Int /\ text.length \in Int /\ end <= text.length
  BY WindowMoves DEF IsText
<1>2. ~(end >= text.length) => NextStart(s, start, end) \in start + 1 .. text.length
  BY <1>1, WindowMoves
<1> QED BY <1>2 DEF ChunksAt

\* So the recursion is well defined, from the end of the text back.
LEMMA RecursionDefined ==
  ASSUME NEW s, IsSetting(s), NEW text, IsText(text)
  PROVE  \E g : Recursion(s, text, g, 0)
<1> DEFINE n == text.length
           T == {m \in Nat : m <= n /\ ~ \E g : Recursion(s, text, g, n - m)}
<1>0. n \in Nat
  BY DEF IsText
<1> SUFFICES ASSUME T # {} PROVE FALSE
  BY <1>0
<1>1. PICK m \in T : \A k \in T : m <= k
  BY LeastElement
<1>2. CASE m = 0
  <2>1. PICK g : g = [start \in n .. n |-> ChunksAt(s, text, <<>>, start)]
    OBVIOUS
  <2>2. \A start \in n .. n : ChunksAt(s, text, g, start) = ChunksAt(s, text, <<>>, start)
    <3> SUFFICES ASSUME NEW start \in n .. n
                 PROVE  ChunksAt(s, text, g, start) = ChunksAt(s, text, <<>>, start)
      OBVIOUS
    <3>1. start \in 0 .. n /\ \A a \in start + 1 .. n : g[a] = <<>>[a]
      BY <1>0
    <3> QED BY <3>1, LooksAhead
  <2>3. g = [start \in n .. n |-> ChunksAt(s, text, g, start)]
    BY <2>1, <2>2
  <2>4. n - m = n
    BY <1>0, <1>2
  <2> QED BY <1>1, <2>3, <2>4 DEF Recursion
<1>3. CASE m # 0
  <2>1. m - 1 \in Nat /\ m - 1 <= n /\ m - 1 \notin T
    BY <1>0, <1>1, <1>3
  <2>2. PICK first \in 0 .. n : first = n - m
    BY <1>0, <1>1
  <2>3. PICK g : Recursion(s, text, g, first + 1)
    BY <1>0, <1>1, <2>1, <2>2
  <2>4. PICK h : h = [start \in first .. n |-> IF start = first THEN ChunksAt(s, text, g, start)
                                                 ELSE g[start]]
    OBVIOUS
  <2>5. \A start \in first .. n : h[start] = ChunksAt(s, text, h, start)
    <3> SUFFICES ASSUME NEW start \in first .. n PROVE h[start] = ChunksAt(s, text, h, start)
      OBVIOUS
    <3>1. \A a \in start + 1 .. n : g[a] = h[a]
      BY <1>0, <2>2, <2>4
    <3>2. ChunksAt(s, text, g, start) = ChunksAt(s, text, h, start)
      BY <1>0, <2>2, <3>1, LooksAhead
    <3>3. h[start] = ChunksAt(s, text, g, start)
      <4>1. CASE start = first
        BY <2>4, <4>1
      <4>2. CASE start # first
        <5>1. start \in first + 1 .. n
          BY <1>0, <2>2, <4>2
        <5>2. g[start] = ChunksAt(s, text, g, start)
          BY <2>3, <5>1 DEF Recursion
        <5> QED BY <2>4, <4>2, <5>2
      <4> QED BY <4>1, <4>2
    <3> QED BY <3>2, <3>3
  <2>6. h = [start \in first .. n |-> ChunksAt(s, text, h, start)]
    BY <2>4, <2>5
  <2> QED BY <1>1, <2>2, <2>6 DEF Recursion
<1> QED BY <1>2, <1>3

\* From every place of a text on, its chunks keep it.
LEMMA RecursionKeeps ==
  ASSUME NEW s, IsSetting(s), NEW text, IsText(text), NEW g, Recursion(s, text, g, 0),
         text.length # 0
  PROVE  KeepsFrom(s, text, 0, g[0])
<1> DEFINE n == text.length
           T == {m \in Nat : m \in 1 .. n /\ ~KeepsFrom(s, text, n - m, g[n - m])}
<1>0. n \in Nat
  BY DEF IsText
<1> SUFFICES ASSUME T # {} PROVE FALSE
  BY <1>0
<1>1. PICK m \in T : \A k \in T : m <= k
  BY LeastElement
<1>2. PICK start \in 0 .. n - 1 : start = n - m
  BY <1>0, <1>1
<1>3. PICK end : end = FindChunkEnd(s, text, start)
  OBVIOUS
<1>4. PICK rest : rest = IF end >= n THEN <<>> ELSE g[NextStart(s, start, end)]
  OBVIOUS
<1>5. g[start] = Cut(s, text, start) \o rest
  <2>1. start \in 0 .. n
    BY <1>0
  <2>2. g[start] = ChunksAt(s, text, g, start)
    BY <2>1 DEF Recursion
  <2> QED BY <1>3, <1>4, <2>2 DEF ChunksAt, Cut
<1>6. end \in start + 1 .. n
  BY <1>0, <1>3, WindowMoves
<1>7. \/ end = n /\ rest = <<>>
      \/ end < n /\ KeepsFrom(s, text, NextStart(s, start, end), rest)
  <2>1. CASE end = n
    BY <1>0, <1>4, <2>1
  <2>2. CASE end # n
    <3>1. end < n /\ rest = g[NextStart(s, start, end)]
      BY <1>0, <1>4, <1>6, <2>2
    <3>2. PICK nx \in start + 1 .. end : nx = NextStart(s, start, end)
      BY <1>0, <1>3, <3>1, WindowMoves
    <3>3. n - nx \in Nat /\ n - nx < m /\ n - nx \in 1 .. n /\ n - (n - nx) = nx
      BY <1>0, <1>1, <1>2, <1>6, <3>1, <3>2
    <3>4. n - nx \notin T
      BY <1>1, <3>3
    <3>5. KeepsFrom(s, text, nx, g[nx])
      BY <3>3, <3>4
    <3> QED BY <3>1, <3>2, <3>5
  <2> QED BY <2>1, <2>2
<1>8. KeepsFrom(s, text, start, g[start])
  BY <1>3, <1>5, <1>7, WindowKeeps
<1> QED BY <1>1, <1>2, <1>8

\* The texts and the settings of the model.
LEMMA TextsAre ==
  /\ \A text \in Texts : IsText(text)
  /\ \A s \in Settings : IsSetting(s)
<1>1. ASSUME NEW text \in Texts PROVE IsText(text)
  <2>1. PICK n \in 0 .. MaxLength : text \in [length : {n}, spaces : SUBSET (0 .. n - 1)]
    BY DEF Texts
  <2> QED BY <2>1, BoundsAssumption DEF IsText
<1>2. ASSUME NEW s \in Settings PROVE IsSetting(s)
  BY BoundsAssumption DEF Settings, IsSetting
<1> QED BY <1>1, <1>2

\* What KeepsFrom says of the whole text is what the pipeline relies on.
LEMMA WholeTextKept ==
  ASSUME NEW s, IsSetting(s), NEW text, IsText(text), NEW chunks,
         KeepsFrom(s, text, 0, chunks)
  PROVE  /\ NothingSkipped(text, chunks)
         /\ \A k \in DOMAIN chunks : Cardinality(chunks[k]) <= s.max
         /\ InOrder(chunks)
         /\ WordsWhole(s, text, chunks)
         /\ NeighboursTogether(s, text, chunks)
<1>0. /\ text.length \in Nat /\ s.max \in Nat /\ s.overlap \in Nat /\ DOMAIN chunks = 1 .. Len(chunks)
  BY DEF IsText, IsSetting, KeepsFrom
<1>1. \A a, b \in 0 .. text.length - 1 : Together(s, text, a, b) => Inside(a .. b, chunks)
  BY DEF KeepsFrom
<1>2. NothingSkipped(text, chunks)
  <2> SUFFICES ASSUME NEW p \in (0 .. text.length - 1) \ text.spaces
               PROVE  Inside({p}, chunks)
    BY DEF NothingSkipped
  <2>1. Inside(p .. p, chunks)
    BY <1>1 DEF Together
  <2>2. p .. p = {p}
    BY <1>0
  <2> QED BY <2>1, <2>2
<1>3. ASSUME NEW k \in DOMAIN chunks PROVE Cardinality(chunks[k]) <= s.max
  <2>1. chunks[k] # {} /\ FromWindow(s, text, 0, chunks[k])
    BY <1>0, <1>3 DEF KeepsFrom
  <2>2. PICK a \in 0 .. text.length - 1 :
          chunks[k] = Strip(text, a .. FindChunkEnd(s, text, a) - 1)
    BY <2>1 DEF FromWindow
  <2>3. PICK e \in Int : e = FindChunkEnd(s, text, a) /\ e <= a + s.max
    <3>1. a \in 0 .. text.length
      BY <1>0
    <3> QED BY <3>1, WindowMoves
  <2>4. Cardinality(chunks[k]) <= (e - 1) - a + 1
    BY <1>0, <2>1, <2>2, <2>3, StripFits
  <2>5. Cardinality(chunks[k]) \in Int
    <3>1. chunks[k] \subseteq a .. e - 1
      <4> DEFINE C == Strip(text, a .. e - 1)
      <4>1. /\ C # {} /\ Min(C) \in a .. e - 1 /\ Max(C) \in a .. e - 1
            /\ C = Min(C) .. Max(C)
        BY <1>0, <2>1, <2>2, <2>3, StripIs
      <4> HIDE DEF C
      <4>2. C \subseteq a .. e - 1
        BY <4>1
      <4> QED BY <2>2, <2>3, <4>2 DEF C
    <3>2. IsFiniteSet(chunks[k])
      <4>1. a \in Int /\ e - 1 \in Int
        BY <1>0, <2>3
      <4> QED BY <3>1, <4>1, FS_Interval, FS_Subset
    <3> QED BY <3>2, FS_CardinalityType
  <2> QED BY <1>0, <2>3, <2>4, <2>5
<1>4. InOrder(chunks)
  BY DEF KeepsFrom
<1>5. WordsWhole(s, text, chunks)
  <2> SUFFICES ASSUME NEW W \in WordsOf(text), Cardinality(W) < s.max
               PROVE  Inside(W, chunks)
    BY DEF WordsWhole
  <2>1. PICK a, b \in 0 .. text.length - 1 :
          W = a .. b /\ a <= b /\ \A p \in a .. b : p \notin text.spaces
    BY WordIs
  <2>2. Together(s, text, a, b)
    BY <1>0, <2>1 DEF Together
  <2> QED BY <1>1, <2>1, <2>2
<1>6. NeighboursTogether(s, text, chunks)
  <2> SUFFICES ASSUME \A W \in WordsOf(text) : Cardinality(W) < s.max - s.overlap,
                      NEW p \in (0 .. text.length - 1) \ text.spaces, NEW d \in 1 .. s.overlap,
                      p + d \in (0 .. text.length - 1) \ text.spaces
               PROVE  Inside(p .. p + d, chunks)
    BY DEF NeighboursTogether
  <2>1. p + d \in p + 1 .. p + s.overlap
    BY <1>0
  <2>2. Together(s, text, p, p + d)
    BY <2>1 DEF Together
  <2> QED BY <1>1, <2>2
<1> QED BY <1>2, <1>3, <1>4, <1>5, <1>6

\* ChunksKeepText for texts of any length, any limit and any overlap below it.
LEMMA TextKept == ChunksKeepText
<1> SUFFICES ASSUME NEW s \in Settings, NEW text \in Texts,
                    NEW chunks, chunks = Chunks(s, text)
             PROVE  /\ NothingSkipped(text, chunks)
                    /\ \A k \in DOMAIN chunks : Cardinality(chunks[k]) <= s.max
                    /\ InOrder(chunks)
                    /\ WordsWhole(s, text, chunks)
                    /\ NeighboursTogether(s, text, chunks)
  BY DEF ChunksKeepText
<1>0. IsSetting(s) /\ IsText(text) /\ text.length \in Nat
  BY TextsAre DEF IsText
<1>1. PICK g : /\ Recursion(s, text, g, 0)
               /\ chunks = IF text.length = 0 THEN <<>> ELSE g[0]
  BY <1>0, RecursionDefined, ChunksUnfold
<1>2. CASE text.length # 0
  BY <1>0, <1>1, <1>2, RecursionKeeps, WholeTextKept
<1>3. CASE text.length = 0
  <2>1. chunks = <<>> /\ 0 .. text.length - 1 = {}
    BY <1>1, <1>3
  <2>2. WordsOf(text) = {}
    BY <2>1 DEF WordsOf
  <2>3. Len(chunks) = 0 /\ DOMAIN chunks = {}
    BY <2>1
  <2> QED BY <2>1, <2>2, <2>3 DEF NothingSkipped, InOrder, WordsWhole, NeighboursTogether
<1> QED BY <1>2, <1>3

\* What is searchable is searchable in full, whatever the length of the text, the
\* limit of a chunk and the overlap below it.
THEOREM SearchableKept == Spec => []SearchableInFull
<1>1. SearchableInFull
  BY TextKept DEF SearchableInFull
<1> QED BY <1>1, PTL

-----------------------------------------------------------------------------
(* The vectors of a document's chunks *)

\* The indices of a response are those of the texts, each once, if the
\* response has as many items as there are texts and no text is missing.
LEMMA EveryIndexOnce ==
  ASSUME NEW n \in Nat, NEW data \in [1..n -> Items(n)],
         \A i \in 0..n - 1 : \E k \in 1..n : data[k].index = i
  PROVE  /\ \A k \in 1..n : data[k].index \in 0..n - 1
         /\ \A j, k \in 1..n : data[j].index = data[k].index => j = k
<1> DEFINE Item(i) == CHOOSE k \in 1..n : data[k].index = i
<1>1. \A i \in 0..n - 1 : Item(i) \in 1..n /\ data[Item(i)].index = i
  OBVIOUS
<1>2. ASSUME NEW m \in 1..n, \A i \in 0..n - 1 : Item(i) # m
      PROVE  FALSE
  <2> DEFINE f == [i \in 0..n - 1 |-> Item(i)]
  <2> HIDE DEF Item
  <2>1. f \in Injection(0..n - 1, 1..n \ {m})
    <3>1. f \in [0..n - 1 -> 1..n \ {m}]
      BY <1>1, <1>2
    <3>2. \A a, b \in 0..n - 1 : f[a] = f[b] => a = b
      BY <1>1
    <3> QED BY <3>1, <3>2 DEF Injection, IsInjective
  <2>2. IsFiniteSet(1..n) /\ Cardinality(1..n) = n
    BY FS_Interval
  <2>3. IsFiniteSet(1..n \ {m}) /\ Cardinality(1..n \ {m}) = n - 1
    BY <2>2, FS_RemoveElement
  <2>4. Cardinality(0..n - 1) = n
    BY FS_Interval
  <2> QED BY <2>1, <2>3, <2>4, FS_Injection
<1>3. \A k \in 1..n : \E i \in 0..n - 1 : Item(i) = k
  BY <1>2
<1> HIDE DEF Item
<1> QED BY <1>1, <1>3

\* A response that leaves a text out is refused: either an index comes twice,
\* or one is not that of a text.
LEMMA MissingIsRefused ==
  ASSUME NEW n \in Nat, NEW data \in [1..n -> Items(n)],
         NEW i \in 0..n - 1, \A k \in 1..n : data[k].index # i
  PROVE  ParseEmbeddingResponse(data, n) = Refused
<1> SUFFICES ASSUME \A k \in 1..n : data[k].index \in 0..n - 1,
                    \A k \in 1..n : \A j \in 1..k - 1 : data[j].index # data[k].index
             PROVE  FALSE
  BY DEF ParseEmbeddingResponse
<1> DEFINE f == [k \in 1..n |-> data[k].index]
<1>1. f \in [1..n -> 0..n - 1 \ {i}]
  OBVIOUS
<1>2. \A j, k \in 1..n : f[j] = f[k] => j = k
  <2> SUFFICES ASSUME NEW j \in 1..n, NEW k \in 1..n, j < k PROVE f[j] # f[k]
    OBVIOUS
  <2> QED OBVIOUS
<1>3. f \in Injection(1..n, 0..n - 1 \ {i})
  BY <1>1, <1>2 DEF Injection, IsInjective
<1>4. IsFiniteSet(0..n - 1) /\ Cardinality(0..n - 1) = n
  BY FS_Interval
<1>5. IsFiniteSet(0..n - 1 \ {i}) /\ Cardinality(0..n - 1 \ {i}) = n - 1
  BY <1>4, FS_RemoveElement
<1>6. Cardinality(1..n) = n
  BY FS_Interval
<1> QED BY <1>3, <1>5, <1>6, FS_Injection

\* VectorsBelong for requests of any number of texts: a text gets its own
\* vector whatever the order of the response (_parse_embedding_response).
LEMMA VectorsTrue == VectorsBelong
<1> SUFFICES ASSUME NEW n \in 1..MaxBatch, NEW data \in BoundedSeq(Items(n), n + 1),
                    \A k \in DOMAIN data : data[k].embedding = data[k].index
             PROVE  EmbedTexts(n, data) =
                      IF /\ \A i \in 0..n - 1 : \E k \in DOMAIN data : data[k].index = i
                         /\ Len(data) = n
                      THEN [i \in 1..n |-> i - 1]
                      ELSE Refused
  BY DEF VectorsBelong
<1> PICK m \in 0..n + 1 : data \in [1..m -> Items(n)]
  BY BoundsAssumption DEF BoundedSeq, SeqOf
<1>n. n \in Nat /\ n # 0
  BY BoundsAssumption
<1>l. DOMAIN data = 1..m /\ Len(data) = m
  OBVIOUS
<1>e. EmbedTexts(n, data) = ParseEmbeddingResponse(data, n)
  BY <1>n DEF EmbedTexts
<1>1. CASE m # n
  BY <1>1, <1>l, <1>e DEF ParseEmbeddingResponse
<1>2. CASE m = n /\ \E i \in 0..n - 1 : \A k \in 1..m : data[k].index # i
  BY <1>2, <1>n, <1>l, <1>e, MissingIsRefused
<1>3. CASE m = n /\ \A i \in 0..n - 1 : \E k \in 1..m : data[k].index = i
  <2>1. /\ \A k \in 1..n : data[k].index \in 0..n - 1
        /\ \A j, k \in 1..n : data[j].index = data[k].index => j = k
    BY <1>3, <1>n, EveryIndexOnce
  <2>2. ~ \E k \in DOMAIN data :
            \/ data[k].index \notin 0..n - 1
            \/ \E j \in 1..k - 1 : data[j].index = data[k].index
            \/ data[k].embedding = -1
    BY <1>3, <1>n, <1>l, <2>1
  <2>3. \A i \in 1..n : data[CHOOSE k \in DOMAIN data : data[k].index = i - 1].embedding = i - 1
    <3> SUFFICES ASSUME NEW i \in 1..n
                 PROVE  data[CHOOSE k \in DOMAIN data : data[k].index = i - 1].embedding = i - 1
      OBVIOUS
    <3>1. i - 1 \in 0..n - 1
      BY <1>n
    <3>2. \E k \in DOMAIN data : data[k].index = i - 1
      BY <1>3, <1>l, <3>1
    <3> QED BY <3>2, <1>l
  <2>4. ParseEmbeddingResponse(data, n) = [i \in 1..n |-> i - 1]
    BY <1>3, <1>l, <2>2, <2>3 DEF ParseEmbeddingResponse
  <2> QED BY <1>3, <1>l, <1>e, <2>4
<1> QED BY <1>1, <1>2, <1>3

\* What is searchable is found by its own vectors, however many texts a request
\* has and in whatever order the embedding service answers.
THEOREM VectorsFound == Spec => []FoundByOwnVectors
<1>1. FoundByOwnVectors
  BY VectorsTrue DEF FoundByOwnVectors
<1> QED BY <1>1, PTL

=============================================================================
