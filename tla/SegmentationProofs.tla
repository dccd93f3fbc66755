-------------------------- MODULE SegmentationProofs --------------------------
(***************************************************************************)
(* Theorems about the segmentation of a text of any length: the scan for    *)
(* code blocks, what strings.TrimSpace leaves of a piece, the starts of the  *)
(* sections in their order, and the cut into units that they make.          *)
(***************************************************************************)
EXTENDS Segmentation, FiniteSetTheorems, SequenceTheorems, WellFoundedInduction, TLAPS

\* A sequence of whatever.
IsSequence(s) == \E S : s \in Seq(S)

Precedes == {pair \in Nat \X Nat : pair[1] < pair[2]}

-------------------------------------------------------------------------------
(* The least and the greatest number of a set. *)

\* The order of the natural numbers has no infinite descent, so sets have a least.
LEMMA PrecedesIsWellFounded == IsWellFoundedOn(Precedes, Nat)
BY NatLessThanWellFounded DEF OpToRel, Precedes

\* Min(S) is what it should be.
LEMMA LeastNumber ==
    ASSUME NEW S \in SUBSET Nat, S # {}
    PROVE  Min(S) \in S /\ \A y \in S : Min(S) <= y
<1>1. PICK x \in S : \A y \in S : <<y, x>> \notin Precedes
  BY PrecedesIsWellFounded, WFMin
<1>2. \A y, z \in Nat : y < z => <<y, z>> \in Precedes
  BY DEF Precedes
<1>3. ASSUME NEW y \in S PROVE x <= y
  <2>1. x \in Nat /\ y \in Nat
    OBVIOUS
  <2>2. ~(y < x)
    BY <1>1, <1>2, <2>1, Zenon
  <2>3. QED
    BY <2>1, <2>2
<1>4. QED
  BY <1>3 DEF Min

\* Max(S), of a set of positions.
LEMMA GreatestNumber ==
    ASSUME NEW n \in Nat, NEW S \in SUBSET (1 .. n), S # {}
    PROVE  Max(S) \in S /\ \A y \in S : Max(S) >= y
<1> DEFINE D == {k \in Nat : n - k \in S}
<1>1. D # {} /\ D \in SUBSET Nat
  <2>1. PICK y \in S : TRUE
    OBVIOUS
  <2>2. n - y \in D
    BY <2>1
  <2>3. QED
    BY <2>2
<1>2. Min(D) \in D /\ \A k \in D : Min(D) <= k
  BY <1>1, LeastNumber
<1>3. \A y \in S : n - y \in D
  OBVIOUS
<1> DEFINE x == n - Min(D)
<1>4. x \in S /\ \A y \in S : x >= y
  BY <1>2, <1>3
<1> HIDE DEF x
<1>5. QED
  BY <1>4 DEF Max

\* Induction over the natural numbers, for a set in place of a predicate.
LEMMA InductiveSet ==
    ASSUME NEW S \in SUBSET Nat, 0 \in S, \A n \in S : n + 1 \in S
    PROVE  S = Nat
<1>1. SUFFICES ASSUME Nat \ S # {} PROVE FALSE
  OBVIOUS
<1> DEFINE x == Min(Nat \ S)
<1>2. x \in Nat \ S /\ \A y \in Nat \ S : x <= y
  BY <1>1, LeastNumber
<1> HIDE DEF x
<1>3. x # 0 /\ x - 1 \in Nat
  BY <1>2
<1>4. x - 1 \in S
  BY <1>2, <1>3
<1>5. QED
  BY <1>2, <1>3, <1>4

-------------------------------------------------------------------------------
(* The units of a document. *)

\* Any piece of a sequence is a sequence.
LEMMA PieceIsSequence ==
    ASSUME NEW s, NEW m \in Int, NEW n \in Int
    PROVE  IsSequence(SubSeq(s, m, n))
<1> DEFINE S == {s[i] : i \in m .. n}
<1>1. \A i \in m .. n : s[i] \in S
  OBVIOUS
<1> HIDE DEF S
<1>2. SubSeq(s, m, n) \in Seq(S)
  BY <1>1, SubSeqProperties
<1>3. QED
  BY <1>2 DEF IsSequence

\* So is what strings.TrimSpace leaves.
LEMMA TrimmedIsSequence ==
    ASSUME NEW text, IsSequence(text)
    PROVE  IsSequence(Trimmed(text))
<1>1. DOMAIN text = 1 .. Len(text) /\ Len(text) \in Nat
  BY DEF IsSequence
<1>2. CASE Written(text) = {}
  <2>1. Trimmed(text) = <<>> /\ <<>> \in Seq({})
    BY <1>2 DEF Trimmed
  <2>2. QED
    BY <2>1 DEF IsSequence
<1>3. CASE Written(text) # {}
  <2>1. Written(text) \in SUBSET (1 .. Len(text)) /\ Written(text) \in SUBSET Nat
    BY <1>1 DEF Written
  <2>2. Min(Written(text)) \in Int /\ Max(Written(text)) \in Int
    <3>1. Min(Written(text)) \in Written(text)
      BY <1>3, <2>1, LeastNumber
    <3>2. Max(Written(text)) \in Written(text)
      BY <1>1, <1>3, <2>1, GreatestNumber
    <3>3. QED
      BY <2>1, <3>1, <3>2
  <2>3. QED
    BY <1>3, <2>2, PieceIsSequence DEF Trimmed
<1>4. QED
  BY <1>2, <1>3

\* A document has at least one unit, and they are in a sequence.
LEMMA UnitsAreSequence ==
    ASSUME NEW filename, NEW text, IsSequence(text)
    PROVE  /\ IsSequence(SegmentMarkdown(filename, text))
           /\ Len(SegmentMarkdown(filename, text)) >= 1
<1> DEFINE split(l) == SplitByLevel(filename, text, l)
           level == Level(filename, text)
<1>1. ASSUME NEW l PROVE IsSequence(split(l))
  <2> DEFINE starts == {i \in DOMAIN text : HeadingLevel(text)[i] = l}
             before == SubSeq(text, 1, Min(starts) - 1)
             preamble == [title |-> DocumentTitle(filename, before), content |-> Trimmed(before)]
             first == IF preamble.content = <<>> THEN <<>> ELSE <<preamble>>
             sections == Sections(text, starts)
  <2>1. CASE starts = {}
    BY <2>1 DEF SplitByLevel, IsSequence
  <2>2. CASE starts # {}
    <3>1. split(l) = first \o sections
      BY <2>2 DEF SplitByLevel
    <3>2. IsFiniteSet(DOMAIN text)
      BY FS_Interval DEF IsSequence
    <3>3. Cardinality(starts) \in Nat
      BY <3>2, FS_Subset, FS_CardinalityType
    <3> DEFINE S == {preamble} \cup {sections[i] : i \in 1 .. Cardinality(starts)}
    <3>4. first \in Seq(S)
      <4>1. preamble \in S
        OBVIOUS
      <4> HIDE DEF S, preamble
      <4>2. QED
        BY <4>1
    <3> HIDE DEF starts
    <3>5. sections \in Seq(S)
      <4>1. sections = [i \in 1 .. Cardinality(starts) |-> sections[i]]
        BY DEF Sections
      <4>2. \A i \in 1 .. Cardinality(starts) : sections[i] \in S
        OBVIOUS
      <4> HIDE DEF S, sections
      <4>3. QED
        BY <3>3, <4>1, <4>2
    <3> HIDE DEF S, first, sections
    <3>6. QED
      BY <3>1, <3>4, <3>5, ConcatProperties DEF IsSequence
  <2>3. QED
    BY <2>1, <2>2
<1>2. CASE level = 0
  <2> DEFINE unit == [title |-> DocumentTitle(filename, text), content |-> text]
  <2>1. SegmentMarkdown(filename, text) = <<unit>>
    BY <1>2 DEF SegmentMarkdown
  <2> HIDE DEF unit
  <2>2. <<unit>> \in Seq({unit}) /\ Len(<<unit>>) = 1
    OBVIOUS
  <2>3. IsSequence(<<unit>>)
    BY <2>2 DEF IsSequence
  <2>4. QED
    BY <2>1, <2>2, <2>3
<1>3. CASE level # 0
  <2>1. DividingLevels(filename, text) \in SUBSET Nat
    BY DEF DividingLevels, maxHeadingLevel
  <2>2. level \in DividingLevels(filename, text)
    BY <1>3, <2>1, LeastNumber DEF Level
  <2>3. level > 0 /\ Len(split(level)) >= 2
    BY <2>2 DEF DividingLevels, maxHeadingLevel
  <2>4. SegmentMarkdown(filename, text) = split(level)
    BY <2>3 DEF SegmentMarkdown
  <2>5. QED
    BY <1>1, <2>3, <2>4 DEF IsSequence
<1>4. QED
  BY <1>2, <1>3

-------------------------------------------------------------------------------
(* The scan for code blocks *)

\* The fences up to the n-th line, if f has them.
AreFences(f, text, n) ==
    f = [i \in 1 .. n |-> IF i = 1 THEN "none" ELSE FenceAfter(f[i - 1], text[i - 1])]

\* The scan of a text gets to its end.
LEMMA FencesExist ==
    ASSUME NEW text, NEW n \in Nat
    PROVE  \E f : AreFences(f, text, n)
<1> DEFINE S == {m \in Nat : \E f : AreFences(f, text, m)}
<1>1. 0 \in S
  <2>1. AreFences([i \in 1 .. 0 |-> "none"], text, 0)
    BY DEF AreFences
  <2>2. QED
    BY <2>1
<1>2. ASSUME NEW m \in S PROVE m + 1 \in S
  <2>1. PICK f : AreFences(f, text, m)
    OBVIOUS
  <2>2. m \in Nat
    OBVIOUS
  <2> DEFINE last == IF m = 0 THEN "none" ELSE FenceAfter(f[m], text[m])
             g == [i \in 1 .. m + 1 |-> IF i = m + 1 THEN last ELSE f[i]]
  <2>3. ASSUME NEW i \in 1 .. m + 1
        PROVE  g[i] = IF i = 1 THEN "none" ELSE FenceAfter(g[i - 1], text[i - 1])
    <3>1. CASE i = m + 1
      <4>1. i # 1 => i - 1 = m /\ m # 0 /\ g[m] = f[m]
        BY <2>2, <3>1
      <4>2. i = 1 => m = 0
        BY <2>2, <3>1
      <4>3. g[i] = last
        BY <3>1
      <4> HIDE DEF g
      <4>4. QED
        BY <4>1, <4>2, <4>3
    <3>2. CASE i # m + 1
      <4>1. i \in 1 .. m /\ g[i] = f[i] /\ (i # 1 => g[i - 1] = f[i - 1])
        BY <2>2, <3>2
      <4>2. f[i] = IF i = 1 THEN "none" ELSE FenceAfter(f[i - 1], text[i - 1])
        BY <2>1, <4>1 DEF AreFences
      <4> HIDE DEF g
      <4>3. QED
        BY <4>1, <4>2
    <3>3. QED
      BY <3>1, <3>2
  <2>4. g = [i \in 1 .. m + 1 |-> g[i]]
    OBVIOUS
  <2> HIDE DEF g
  <2>5. AreFences(g, text, m + 1)
    BY <2>3, <2>4 DEF AreFences
  <2>6. QED
    BY <2>2, <2>5
<1> HIDE DEF S
<1>3. S \in SUBSET Nat
  BY DEF S
<1>4. S = Nat
  BY <1>1, <1>2, <1>3, InductiveSet
<1>5. QED
  BY <1>4 DEF S

\* What the scan finds at each line, from what it found at the one before.
LEMMA FenceSteps ==
    ASSUME NEW text, Len(text) \in Nat
    PROVE  /\ DOMAIN FenceBefore(text) = 1 .. Len(text) + 1
           /\ FenceBefore(text)[1] = "none"
           /\ \A i \in 1 .. Len(text) :
                 FenceBefore(text)[i + 1] = FenceAfter(FenceBefore(text)[i], text[i])
<1>1. PICK f : AreFences(f, text, Len(text) + 1)
  BY FencesExist
<1>2. AreFences(FenceBefore(text), text, Len(text) + 1)
  BY <1>1 DEF AreFences, FenceBefore
<1>3. QED
  BY <1>2 DEF AreFences

Fences == {"none", "ticks", "tildes"}

\* Between two lines that FencedAlike there is no difference for the scan.
FencedAlike(x, y) == \A fence \in {"ticks", "tildes"} : x.kind = fence <=> y.kind = fence

\* The scan is outside of code blocks or in one of the two kinds.
LEMMA FenceType ==
    ASSUME NEW text, Len(text) \in Nat
    PROVE  \A i \in 1 .. Len(text) + 1 : FenceBefore(text)[i] \in Fences
<1> DEFINE S == {m \in Nat : m <= Len(text) => FenceBefore(text)[m + 1] \in Fences}
<1>1. 0 \in S
  BY FenceSteps DEF Fences
<1>2. ASSUME NEW m \in S PROVE m + 1 \in S
  <2>1. m \in Nat /\ (m <= Len(text) => FenceBefore(text)[m + 1] \in Fences)
    OBVIOUS
  <2>2. ASSUME m + 1 <= Len(text) PROVE FenceBefore(text)[(m + 1) + 1] \in Fences
    <3>1. m + 1 \in 1 .. Len(text) /\ m <= Len(text)
      BY <2>1, <2>2
    <3>2. FenceBefore(text)[(m + 1) + 1] = FenceAfter(FenceBefore(text)[m + 1], text[m + 1])
      BY <3>1, FenceSteps
    <3>3. QED
      BY <2>1, <3>1, <3>2 DEF FenceAfter, Fences
  <2>3. QED
    BY <2>1, <2>2
<1>3. S \in SUBSET Nat
  OBVIOUS
<1> HIDE DEF S
<1>4. S = Nat
  BY <1>1, <1>2, <1>3, InductiveSet
<1>5. ASSUME NEW i \in 1 .. Len(text) + 1 PROVE FenceBefore(text)[i] \in Fences
  <2>1. i - 1 \in Nat /\ i - 1 <= Len(text) /\ (i - 1) + 1 = i
    OBVIOUS
  <2>2. QED
    BY <1>4, <2>1 DEF S
<1>6. QED
  BY <1>5

\* A piece of a text that begins outside of code blocks is scanned as it was in
\* the text.
THEOREM FenceShift ==
    ASSUME NEW a, NEW b, NEW d \in Nat, Len(a) \in Nat, Len(b) \in Nat, Len(a) + d <= Len(b),
           FenceBefore(b)[d + 1] = "none",
           \A i \in 1 .. Len(a) : FencedAlike(a[i], b[i + d])
    PROVE  \A i \in 1 .. Len(a) + 1 : FenceBefore(a)[i] = FenceBefore(b)[i + d]
<1> DEFINE S == {m \in Nat : m <= Len(a) => FenceBefore(a)[m + 1] = FenceBefore(b)[(m + 1) + d]}
<1>1. 0 \in S
  <2>1. FenceBefore(a)[1] = "none"
    BY FenceSteps
  <2>2. (0 + 1) + d = d + 1
    OBVIOUS
  <2>3. QED
    BY <2>1, <2>2
<1>2. ASSUME NEW m \in S PROVE m + 1 \in S
  <2>1. m \in Nat /\ (m <= Len(a) => FenceBefore(a)[m + 1] = FenceBefore(b)[(m + 1) + d])
    OBVIOUS
  <2>2. ASSUME m + 1 <= Len(a)
        PROVE  FenceBefore(a)[(m + 1) + 1] = FenceBefore(b)[((m + 1) + 1) + d]
    <3> DEFINE i == m + 1
    <3>1. i \in 1 .. Len(a) /\ i + d \in 1 .. Len(b) /\ (i + 1) + d = (i + d) + 1 /\ m <= Len(a)
      BY <2>1, <2>2
    <3>2. FenceBefore(a)[i] = FenceBefore(b)[i + d]
      BY <2>1, <3>1
    <3> HIDE DEF i
    <3>3. /\ FenceBefore(a)[i + 1] = FenceAfter(FenceBefore(a)[i], a[i])
          /\ FenceBefore(b)[(i + d) + 1] = FenceAfter(FenceBefore(b)[i + d], b[i + d])
      BY <3>1, FenceSteps
    <3>4. FenceBefore(a)[i] \in Fences
      <4>1. i \in 1 .. Len(a) + 1
        BY <3>1
      <4>2. QED
        BY <4>1, FenceType
    <3>5. FencedAlike(a[i], b[i + d])
      BY <3>1
    <3>6. FenceAfter(FenceBefore(a)[i], a[i]) = FenceAfter(FenceBefore(a)[i], b[i + d])
      BY <3>4, <3>5 DEF FenceAfter, FencedAlike, Fences
    <3>7. FenceBefore(a)[i + 1] = FenceBefore(b)[(i + 1) + d]
      BY <3>1, <3>2, <3>3, <3>6
    <3>8. QED
      BY <3>7 DEF i
  <2>3. QED
    BY <2>1, <2>2
<1>3. S \in SUBSET Nat
  OBVIOUS
<1> HIDE DEF S
<1>4. S = Nat
  BY <1>1, <1>2, <1>3, InductiveSet
<1>5. ASSUME NEW i \in 1 .. Len(a) + 1 PROVE FenceBefore(a)[i] = FenceBefore(b)[i + d]
  <2>1. i - 1 \in Nat /\ i - 1 <= Len(a) /\ (i - 1) + 1 = i
    OBVIOUS
  <2>2. QED
    BY <1>4, <2>1 DEF S
<1>6. QED
  BY <1>5

\* Blank lines open no code block.
LEMMA BlankLinesOpenNothing ==
    ASSUME NEW text, Len(text) \in Nat, NEW n \in 1 .. Len(text) + 1,
           \A i \in 1 .. n - 1 : IsBlank(text[i])
    PROVE  FenceBefore(text)[n] = "none"
<1> DEFINE S == {m \in Nat : m < n => FenceBefore(text)[m + 1] = "none"}
<1>1. 0 \in S
  BY FenceSteps
<1>2. ASSUME NEW m \in S PROVE m + 1 \in S
  <2>1. m \in Nat /\ (m < n => FenceBefore(text)[m + 1] = "none")
    OBVIOUS
  <2>2. ASSUME m + 1 < n PROVE FenceBefore(text)[(m + 1) + 1] = "none"
    <3>1. m + 1 \in 1 .. Len(text) /\ m < n /\ IsBlank(text[m + 1])
      BY <2>1, <2>2
    <3>2. FenceBefore(text)[(m + 1) + 1] = FenceAfter("none", text[m + 1])
      BY <2>1, <3>1, FenceSteps
    <3>3. QED
      BY <3>1, <3>2 DEF FenceAfter, IsBlank
  <2>3. QED
    BY <2>1, <2>2
<1>3. S \in SUBSET Nat
  OBVIOUS
<1> HIDE DEF S
<1>4. S = Nat
  BY <1>1, <1>2, <1>3, InductiveSet
<1>5. n - 1 \in Nat /\ n - 1 < n /\ (n - 1) + 1 = n
  OBVIOUS
<1>6. QED
  BY <1>4, <1>5 DEF S

-------------------------------------------------------------------------------
(* strings.TrimSpace *)

\* What strings.TrimSpace may do to a line: its place stays, and so does what it
\* is, except that code, a heading and text may become one another.
LineAlike(x, y) ==
    /\ x.at = y.at
    /\ IsBlank(x) = IsBlank(y)
    /\ FencedAlike(x, y)

\* strings.TrimSpace keeps the lines from the first to the last written one.
THEOREM TrimmedKeeps ==
    ASSUME NEW text \in Seq(Lines), Written(text) # {}
    PROVE  LET t == Trimmed(text)  first == Min(Written(text))  last == Max(Written(text))
           IN  /\ first \in Written(text) /\ last \in Written(text)
               /\ first \in 1 .. last /\ last \in 1 .. Len(text)
               /\ \A i \in Written(text) : i \in first .. last
               /\ t \in Seq(Lines) /\ Len(t) = last - first + 1
               /\ \A i \in 1 .. Len(t) : LineAlike(t[i], text[first + i - 1])
               /\ \A i \in 2 .. Len(t) - 1 : t[i] = text[first + i - 1]
               /\ t[1] = IF Len(t) = 1 THEN Shortened(Unindented(text[first]))
                         ELSE Unindented(text[first])
               /\ Len(t) > 1 => t[Len(t)] = Shortened(text[last])
<1> DEFINE first == Min(Written(text))
           last == Max(Written(text))
           body == [text EXCEPT ![first] = Unindented(@)]
           whole == [body EXCEPT ![last] = Shortened(@)]
           t == Trimmed(text)
<1>1. DOMAIN text = 1 .. Len(text) /\ Len(text) \in Nat
  OBVIOUS
<1>2. Written(text) \in SUBSET (1 .. Len(text)) /\ Written(text) \in SUBSET Nat
  BY <1>1 DEF Written
<1>3. first \in Written(text) /\ \A y \in Written(text) : first <= y
  BY <1>2, LeastNumber
<1>4. last \in Written(text) /\ \A y \in Written(text) : last >= y
  BY <1>1, <1>2, GreatestNumber
<1>5. t = SubSeq(whole, first, last)
  BY DEF Trimmed
<1> HIDE DEF first, last, t
<1>6. first \in 1 .. last /\ last \in 1 .. Len(text) /\ \A i \in Written(text) : i \in first .. last
  BY <1>1, <1>2, <1>3, <1>4
<1>7. \A x \in Lines : /\ Unindented(x) \in Lines /\ LineAlike(Unindented(x), x)
                       /\ Shortened(x) \in Lines /\ LineAlike(Shortened(x), x)
  <2>1. ASSUME NEW x \in Lines PROVE Unindented(x) \in Lines /\ LineAlike(Unindented(x), x)
    BY DEF Unindented, LineAlike, FencedAlike, IsBlank, Lines
  <2>2. ASSUME NEW x \in Lines PROVE Shortened(x) \in Lines /\ LineAlike(Shortened(x), x)
    <3>1. CASE IsHeading(x) /\ x.title = "none"
      <4> DEFINE y == [x EXCEPT !.kind = "text", !.level = 0]
      <4>1. Shortened(x) = y
        BY <3>1 DEF Shortened
      <4>2. y = [kind |-> "text", level |-> 0, title |-> x.title, at |-> x.at]
        <5>1. [x EXCEPT !.kind = "text"] = [kind |-> "text", level |-> x.level, title |-> x.title, at |-> x.at]
          BY DEF Lines
        <5> DEFINE z == [x EXCEPT !.kind = "text"]
        <5>2. y = [z EXCEPT !.level = 0]
          OBVIOUS
        <5> HIDE DEF z, y
        <5>3. PICK l, title, at : z = [kind |-> "text", level |-> l, title |-> title, at |-> at]
                                  /\ title = x.title /\ at = x.at
          BY <5>1 DEF z
        <5>4. [z EXCEPT !.level = 0] = [kind |-> "text", level |-> 0, title |-> title, at |-> at]
          BY <5>3
        <5>5. QED
          BY <5>2, <5>3, <5>4
      <4> HIDE DEF y
      <4>3. y \in Lines /\ y.at = x.at /\ y.kind = "text"
        BY <4>2 DEF Lines
      <4>4. QED
        BY <3>1, <4>1, <4>3 DEF LineAlike, FencedAlike, IsBlank, IsHeading
    <3>2. CASE ~(IsHeading(x) /\ x.title = "none")
      BY <3>2 DEF Shortened, LineAlike, FencedAlike
    <3>3. QED
      BY <3>1, <3>2
  <2>3. QED
    BY <2>1, <2>2
<1>8. \A i \in 1 .. Len(text) : text[i] \in Lines
  OBVIOUS
<1>9. \A i \in 1 .. Len(text) :
         whole[i] = IF i = last THEN Shortened(IF i = first THEN Unindented(text[i]) ELSE text[i])
                    ELSE IF i = first THEN Unindented(text[i]) ELSE text[i]
  BY <1>1, <1>6
<1> HIDE DEF whole
<1>10. \A i \in 1 .. Len(text) : whole[i] \in Lines /\ LineAlike(whole[i], text[i])
  <2>1. \A x, y, z : LineAlike(x, y) /\ LineAlike(y, z) => LineAlike(x, z)
    BY DEF LineAlike, FencedAlike
  <2>2. \A x : LineAlike(x, x)
    BY DEF LineAlike, FencedAlike
  <2>3. QED
    BY <1>7, <1>8, <1>9, <2>1, <2>2
<1>11. /\ t \in Seq(Lines) /\ Len(t) = last - first + 1
       /\ \A i \in 1 .. Len(t) : t[i] = whole[first + i - 1]
  <2>1. \A i \in first .. last : whole[i] \in Lines
    BY <1>6, <1>10
  <2>2. /\ SubSeq(whole, first, last) \in Seq(Lines)
        /\ Len(SubSeq(whole, first, last)) = IF first <= last THEN last - first + 1 ELSE 0
        /\ \A i \in 1 .. last - first + 1 : SubSeq(whole, first, last)[i] = whole[first + i - 1]
    BY <1>6, <2>1, SubSeqProperties
  <2>3. QED
    BY <1>5, <1>6, <2>2
<1>12. \A i \in 1 .. Len(t) : /\ first + i - 1 \in 1 .. Len(text)
                              /\ first + i - 1 = first <=> i = 1
                              /\ first + i - 1 = last <=> i = Len(t)
  BY <1>6, <1>11
<1>13. Len(t) \in Nat \ {0} /\ 1 \in 1 .. Len(t) /\ Len(t) \in 1 .. Len(t)
  BY <1>6, <1>11
<1>14. /\ \A i \in 1 .. Len(t) : LineAlike(t[i], text[first + i - 1])
       /\ \A i \in 2 .. Len(t) - 1 : t[i] = text[first + i - 1]
  <2>1. \A i \in 1 .. Len(t) : LineAlike(t[i], text[first + i - 1])
    BY <1>10, <1>11, <1>12
  <2>2. ASSUME NEW i \in 2 .. Len(t) - 1 PROVE t[i] = text[first + i - 1]
    <3>1. i \in 1 .. Len(t) /\ i # 1 /\ i # Len(t)
      BY <1>13
    <3>2. whole[first + i - 1] = text[first + i - 1]
      BY <1>9, <1>12, <3>1
    <3>3. QED
      BY <1>11, <3>1, <3>2
  <2>3. QED
    BY <2>1, <2>2
<1>15. /\ t[1] = IF Len(t) = 1 THEN Shortened(Unindented(text[first])) ELSE Unindented(text[first])
       /\ Len(t) > 1 => t[Len(t)] = Shortened(text[last])
  <2>1. t[1] = whole[first] /\ t[Len(t)] = whole[last] /\ (Len(t) = 1 <=> first = last)
    <3>1. t[1] = whole[first + 1 - 1] /\ t[Len(t)] = whole[first + Len(t) - 1]
      BY <1>11, <1>13
    <3>2. first + 1 - 1 = first /\ first + Len(t) - 1 = last
      BY <1>6, <1>11
    <3>3. QED
      BY <1>6, <1>11, <3>1, <3>2
  <2>2. QED
    BY <1>6, <1>9, <1>13, <2>1
<1>16. QED
  BY <1>3, <1>4, <1>6, <1>11, <1>14, <1>15 DEF first, last, t

\* u is what strings.TrimSpace leaves of the lines from a to b of the text: it begins
\* d lines below the first of the text, and has all that is written from a to b.
PieceOf(u, text, d, a, b) ==
    /\ u \in Seq(Lines) /\ Len(u) >= 1 /\ a <= d + 1 /\ d + Len(u) <= b
    /\ \A i \in 1 .. Len(u) : LineAlike(u[i], text[i + d])
    /\ \A j \in a .. b : ~IsBlank(text[j]) => j \in d + 1 .. d + Len(u)
    /\ \A i \in 1 .. Len(u) : FenceBefore(u)[i] = FenceBefore(text)[i + d]

\* So it is, of lines that begin outside of code blocks.
LEMMA TrimmedIsPiece ==
    ASSUME NEW text \in Seq(Lines), NEW a \in Nat \ {0}, NEW b \in 1 .. Len(text), a <= b,
           FenceBefore(text)[a] = "none", Written(SubSeq(text, a, b)) # {}
    PROVE  \E d \in Nat : PieceOf(Trimmed(SubSeq(text, a, b)), text, d, a, b)
<1> DEFINE piece == SubSeq(text, a, b)
           u == Trimmed(piece)
           first == Min(Written(piece))
           last == Max(Written(piece))
           d == a - 1 + first - 1
<1>1. DOMAIN text = 1 .. Len(text) /\ Len(text) \in Nat /\ \A i \in 1 .. Len(text) : text[i] \in Lines
  OBVIOUS
<1>2. /\ piece \in Seq(Lines) /\ Len(piece) = b - a + 1
      /\ \A i \in 1 .. Len(piece) : piece[i] = text[a + i - 1]
  <2>1. \A i \in a .. b : text[i] \in Lines
    BY <1>1
  <2>2. /\ SubSeq(text, a, b) \in Seq(Lines)
        /\ Len(SubSeq(text, a, b)) = IF a <= b THEN b - a + 1 ELSE 0
        /\ \A i \in 1 .. b - a + 1 : SubSeq(text, a, b)[i] = text[a + i - 1]
    BY <2>1, SubSeqProperties
  <2>3. QED
    BY <2>2
<1> HIDE DEF piece
<1>3. /\ first \in Written(piece) /\ last \in Written(piece)
      /\ first \in 1 .. last /\ last \in 1 .. Len(piece)
      /\ \A i \in Written(piece) : i \in first .. last
      /\ u \in Seq(Lines) /\ Len(u) = last - first + 1
      /\ \A i \in 1 .. Len(u) : LineAlike(u[i], piece[first + i - 1])
  BY <1>2, TrimmedKeeps DEF piece
<1> HIDE DEF u, first, last
<1>4. d \in Nat /\ a <= d + 1 /\ d + Len(u) <= b /\ Len(u) \in Nat /\ Len(u) >= 1
  <2>1. /\ a \in Nat /\ a >= 1 /\ b \in Nat
        /\ first \in Nat /\ 1 <= first /\ last \in Nat /\ first <= last /\ last <= b - a + 1
        /\ Len(u) = last - first + 1
    BY <1>2, <1>3
  <2>2. QED
    BY ONLY <2>1
<1>5. ASSUME NEW i \in 1 .. Len(u)
      PROVE  LineAlike(u[i], text[i + d])
  <2>1. first + i - 1 \in 1 .. Len(piece) /\ a + (first + i - 1) - 1 = i + d
    BY <1>2, <1>3
  <2>2. QED
    BY <1>2, <1>3, <2>1
<1>6. ASSUME NEW j \in a .. b, ~IsBlank(text[j]) PROVE j \in d + 1 .. d + Len(u)
  <2>1. j - a + 1 \in 1 .. Len(piece) /\ a + (j - a + 1) - 1 = j
    BY <1>2
  <2>2. j - a + 1 \in DOMAIN piece /\ ~IsBlank(piece[j - a + 1])
    BY <1>2, <1>6, <2>1
  <2>3. j - a + 1 \in first .. last
    BY <1>3, <2>2 DEF Written
  <2>4. QED
    BY <1>3, <2>3
<1>7. FenceBefore(text)[d + 1] = "none"
  <2> DEFINE before == FenceBefore(piece)
  <2>1. \A i \in 1 .. Len(piece) + 1 : FenceBefore(piece)[i] = FenceBefore(text)[i + (a - 1)]
    <3>1. \A i \in 1 .. Len(piece) : FencedAlike(piece[i], text[i + (a - 1)])
      <4>1. \A i \in 1 .. Len(piece) : a + i - 1 = i + (a - 1)
        BY <1>2
      <4>2. QED
        BY <1>2, <4>1 DEF FencedAlike
    <3> DEFINE e == a - 1
    <3>2. e \in Nat /\ Len(piece) \in Nat /\ Len(text) \in Nat /\ Len(piece) + e <= Len(text) /\ e + 1 = a
      BY <1>1, <1>2
    <3>3. FenceBefore(text)[e + 1] = "none"
      BY <3>2
    <3> HIDE DEF e
    <3>4. \A i \in 1 .. Len(piece) : FencedAlike(piece[i], text[i + e])
      BY <3>1 DEF e
    <3>5. \A i \in 1 .. Len(piece) + 1 : FenceBefore(piece)[i] = FenceBefore(text)[i + e]
      BY ONLY <3>2, <3>3, <3>4, FenceShift
    <3>6. QED
      BY <3>5 DEF e
  <2>2. FenceBefore(piece)[first] = "none"
    <3>1. ASSUME NEW i \in 1 .. first - 1 PROVE IsBlank(piece[i])
      <4>1. i \in 1 .. Len(piece) /\ i \notin first .. last
        BY <1>2, <1>3
      <4>2. i \in DOMAIN piece /\ i \notin Written(piece)
        BY <1>2, <1>3, <4>1
      <4>3. QED
        BY <4>2 DEF Written
    <3>2. first \in 1 .. Len(piece) + 1 /\ Len(piece) \in Nat
      BY <1>2, <1>3
    <3>3. QED
      BY <3>1, <3>2, BlankLinesOpenNothing
  <2>3. first \in 1 .. Len(piece) + 1 /\ first + (a - 1) = d + 1
    BY <1>2, <1>3
  <2>4. QED
    BY <2>1, <2>2, <2>3
<1> HIDE DEF d
<1>8. \A i \in 1 .. Len(u) : FenceBefore(u)[i] = FenceBefore(text)[i + d]
  <2>1. \A i \in 1 .. Len(u) : FencedAlike(u[i], text[i + d])
    BY <1>5 DEF LineAlike
  <2>2. Len(u) + d <= Len(text)
    BY <1>1, <1>4
  <2>3. \A i \in 1 .. Len(u) + 1 : FenceBefore(u)[i] = FenceBefore(text)[i + d]
    BY ONLY <1>1, <1>4, <1>7, <2>1, <2>2, FenceShift
  <2>4. \A i \in 1 .. Len(u) : i \in 1 .. Len(u) + 1
    BY <1>4
  <2>5. QED
    BY <2>3, <2>4
<1>9. PieceOf(u, text, d, a, b)
  BY <1>3, <1>4, <1>5, <1>6, <1>8 DEF PieceOf
<1>10. QED
  BY <1>4, <1>9 DEF u, piece

-------------------------------------------------------------------------------
(* The starts of the sections, in order. *)

Rank(starts, s) == Cardinality({t \in starts : t <= s})
Nth(starts, i) == CHOOSE s \in starts : Rank(starts, s) = i

\* Counting what is not beyond each start numbers the starts in their order.
LEMMA Ranks ==
    ASSUME NEW n \in Nat, NEW starts, starts \subseteq 1 .. n
    PROVE  /\ Cardinality(starts) \in Nat
           /\ \A s \in starts : Rank(starts, s) \in 1 .. Cardinality(starts)
           /\ \A s, t \in starts : s < t => Rank(starts, s) < Rank(starts, t)
           /\ \A i \in 1 .. Cardinality(starts) : \E s \in starts : Rank(starts, s) = i
<1> DEFINE c == Cardinality(starts)
           upTo(s) == {t \in starts : t <= s}
<1>1. IsFiniteSet(starts)
  <2>1. IsFiniteSet(1 .. n)
    BY FS_Interval
  <2>2. QED
    BY <2>1, FS_Subset
<1>2. c \in Nat
  BY <1>1, FS_CardinalityType
<1>3. \A s : IsFiniteSet(upTo(s)) /\ Cardinality(upTo(s)) \in Nat /\ Cardinality(upTo(s)) <= c
  <2>1. \A s : upTo(s) \in SUBSET starts
    OBVIOUS
  <2>2. QED
    BY <1>1, <2>1, FS_Subset, FS_CardinalityType
<1>4. ASSUME NEW s \in starts PROVE Rank(starts, s) \in 1 .. c
  <2>1. s \in upTo(s)
    OBVIOUS
  <2>2. Cardinality(upTo(s)) # 0
    BY <1>3, <2>1, FS_EmptySet
  <2>3. Cardinality(upTo(s)) \in 1 .. c
    BY <1>2, <1>3, <2>2
  <2>4. QED
    BY <2>3 DEF Rank
<1>5. ASSUME NEW s \in Nat, NEW t \in Nat, s \in starts, t \in starts, s < t
      PROVE  Rank(starts, s) < Rank(starts, t)
  <2>1. upTo(s) \in SUBSET upTo(t) /\ t \in upTo(t) /\ t \notin upTo(s)
    <3>1. \A r \in starts : r \in Nat /\ (r <= s => r <= t)
      BY <1>5
    <3>2. t <= t /\ ~(t <= s)
      BY <1>5
    <3>3. QED
      BY <1>5, <3>1, <3>2
  <2>2. Cardinality(upTo(s)) <= Cardinality(upTo(t))
        /\ (Cardinality(upTo(t)) = Cardinality(upTo(s)) => upTo(t) = upTo(s))
    BY <1>3, <2>1, FS_Subset
  <2>3. Cardinality(upTo(s)) # Cardinality(upTo(t))
    BY <2>1, <2>2
  <2>4. Cardinality(upTo(s)) < Cardinality(upTo(t))
    BY ONLY <1>3, <2>2, <2>3
  <2>5. QED
    BY <2>4 DEF Rank
<1> HIDE DEF upTo
<1>6. ASSUME NEW i \in 1 .. c PROVE \E s \in starts : Rank(starts, s) = i
  <2> DEFINE f == [s \in starts |-> Rank(starts, s)]
  <2>1. f \in [starts -> 1 .. c]
    BY <1>4
  <2>2. \A s, t \in starts : f[s] = f[t] => s = t
    <3>1. ASSUME NEW s \in starts, NEW t \in starts, Rank(starts, s) = Rank(starts, t) PROVE s = t
      <4>1. Rank(starts, s) \in Nat /\ Rank(starts, t) \in Nat
        BY <1>4
      <4>2. ~(s < t) /\ ~(t < s)
        BY <1>5, <3>1, <4>1
      <4>3. QED
        BY <4>2
    <3>2. QED
      BY <3>1
  <2>3. f \in Injection(starts, 1 .. c)
    BY <2>1, <2>2 DEF Injection, IsInjective
  <2>4. IsFiniteSet(1 .. c) /\ Cardinality(1 .. c) = c
    BY <1>2, FS_Interval
  <2>5. f \in Surjection(starts, 1 .. c)
    BY <2>3, <2>4, FS_Injection
  <2>6. \E s \in starts : f[s] = i
    BY <2>5 DEF Surjection
  <2>7. QED
    BY <2>6
<1>7. QED
  BY <1>2, <1>4, <1>5, <1>6

\* So Nth enumerates them, from the least, and leaves none out.
LEMMA StartsInOrder ==
    ASSUME NEW n \in Nat, NEW starts, starts \subseteq 1 .. n
    PROVE  LET c == Cardinality(starts)
           IN  /\ c \in Nat /\ (starts # {} => c >= 1)
               /\ \A i \in 1 .. c : Nth(starts, i) \in starts
               /\ \A i, j \in 1 .. c : i < j => Nth(starts, i) < Nth(starts, j)
               /\ \A s \in starts : \E i \in 1 .. c : Nth(starts, i) = s
               /\ starts # {} => Nth(starts, 1) = Min(starts)
<1> DEFINE c == Cardinality(starts)
<1>1. /\ c \in Nat
      /\ \A s \in starts : Rank(starts, s) \in 1 .. c
      /\ \A s, t \in starts : s < t => Rank(starts, s) < Rank(starts, t)
      /\ \A i \in 1 .. c : \E s \in starts : Rank(starts, s) = i
  BY Ranks
<1> HIDE DEF c
<1>0. \A s \in starts : s \in Nat
  OBVIOUS
<1>2. \A i \in 1 .. c : Nth(starts, i) \in starts /\ Rank(starts, Nth(starts, i)) = i
  BY <1>1 DEF Nth
<1>3. ASSUME NEW i \in 1 .. c, NEW j \in 1 .. c, i < j PROVE Nth(starts, i) < Nth(starts, j)
  <2>1. PICK x \in Nat, y \in Nat : /\ x = Nth(starts, i) /\ y = Nth(starts, j)
                                   /\ x \in starts /\ y \in starts
    BY <1>0, <1>2
  <2>2. Rank(starts, x) = i /\ Rank(starts, y) = j
    BY <1>2, <2>1
  <2>3. (y < x => j < i) /\ (x = y => i = j)
    BY <1>1, <2>1, <2>2
  <2>4. x < y
    BY <1>1, <1>3, <2>3
  <2>5. QED
    BY <2>1, <2>4
<1>4. ASSUME NEW s \in starts PROVE \E i \in 1 .. c : Nth(starts, i) = s
  <2>1. PICK i \in 1 .. c : i = Rank(starts, s)
    BY <1>1
  <2>2. PICK x \in Nat, y \in Nat : /\ x = Nth(starts, i) /\ y = s
                                   /\ x \in starts /\ y \in starts
    BY <1>0, <1>2
  <2>3. Rank(starts, x) = i /\ Rank(starts, y) = i
    BY <1>2, <2>1, <2>2
  <2>4. ~(x < y) /\ ~(y < x)
    <3>1. (x < y => i < i) /\ (y < x => i < i)
      BY <1>1, <2>2, <2>3
    <3>2. QED
      BY <1>1, <3>1
  <2>5. QED
    BY <2>2, <2>4
<1>5. ASSUME starts # {} PROVE c >= 1 /\ Nth(starts, 1) = Min(starts)
  <2>1. starts \in SUBSET Nat
    BY <1>0
  <2>2. Min(starts) \in starts /\ \A y \in starts : Min(starts) <= y
    BY <1>5, <2>1, LeastNumber
  <2>3. PICK i \in 1 .. c : Nth(starts, i) = Min(starts)
    BY <1>4, <2>2
  <2>4. c >= 1 /\ 1 \in 1 .. c
    BY <1>1
  <2>5. PICK x \in Nat, y \in Nat : x = Nth(starts, 1) /\ y = Min(starts) /\ x \in starts
    BY <1>0, <1>2, <2>2, <2>4
  <2>6. y <= x /\ (1 < i => x < y)
    BY <1>3, <2>2, <2>3, <2>4, <2>5
  <2>7. i = 1
    BY <1>1, <2>6
  <2>8. QED
    BY <2>3, <2>4, <2>7
<1>6. QED
  BY <1>1, <1>2, <1>3, <1>4, <1>5 DEF c

-------------------------------------------------------------------------------
(* The cut into units *)

\* The last line of the i-th section.
SectionEnd(text, starts, i) ==
    IF i < Cardinality(starts) THEN Nth(starts, i + 1) - 1 ELSE Len(text)

StartsOf(text, level) == {i \in DOMAIN text : HeadingLevel(text)[i] = level}

\* The units are what strings.TrimSpace leaves of the pieces of the text that begin
\* at these lines, in order.
CutAt(units, text, begins) ==
    LET n == Len(units)
    IN  \E from \in [1 .. n -> begins] :
            /\ \A k, m \in 1 .. n : k < m => from[k] < from[m]
            /\ \A s \in begins : \E k \in 1 .. n : from[k] = s
            /\ \A k \in 1 .. n : \E d \in Nat :
                  PieceOf(units[k].content, text, d, from[k], IF k < n THEN from[k + 1] - 1 ELSE Len(text))

\* The headings of a level are outside of code blocks.
LEMMA StartsAreHeadings ==
    ASSUME NEW text \in Seq(Lines), NEW level \in 1 .. 6
    PROVE  /\ StartsOf(text, level) \subseteq 1 .. Len(text)
           /\ StartsOf(text, level) = {i \in DOMAIN text : /\ IsHeading(text[i]) /\ text[i].level = level
                                                           /\ FenceBefore(text)[i] = "none"}
           /\ \A s \in StartsOf(text, level) : ~IsBlank(text[s]) /\ FenceBefore(text)[s] = "none"
<1>1. DOMAIN text = 1 .. Len(text)
  OBVIOUS
<1>2. level # 0
  OBVIOUS
<1>3. \A i \in DOMAIN text : HeadingLevel(text)[i] =
        IF FenceBefore(text)[i] = "none" /\ IsHeading(text[i]) THEN text[i].level ELSE 0
  BY DEF HeadingLevel
<1>4. \A i : IsHeading(text[i]) => ~IsBlank(text[i])
  BY DEF IsHeading, IsBlank
<1>5. \A i \in DOMAIN text : HeadingLevel(text)[i] = level <=>
         IsHeading(text[i]) /\ text[i].level = level /\ FenceBefore(text)[i] = "none"
  BY <1>2, <1>3
<1>6. QED
  BY <1>1, <1>4, <1>5 DEF StartsOf

\* One section per start, up to the next.
LEMMA SectionsArePieces ==
    ASSUME NEW text \in Seq(Lines), NEW starts, starts \subseteq 1 .. Len(text),
           \A s \in starts : ~IsBlank(text[s]) /\ FenceBefore(text)[s] = "none"
    PROVE  /\ DOMAIN Sections(text, starts) = 1 .. Cardinality(starts)
           /\ IsSequence(Sections(text, starts)) /\ Len(Sections(text, starts)) = Cardinality(starts)
           /\ \A i \in 1 .. Cardinality(starts) : \E d \in Nat :
                 PieceOf(Sections(text, starts)[i].content, text, d,
                         Nth(starts, i), SectionEnd(text, starts, i))
<1> DEFINE c == Cardinality(starts)
           section(i) == [title |-> text[Nth(starts, i)].title,
                          content |-> Trimmed(SubSeq(text, Nth(starts, i), SectionEnd(text, starts, i)))]
           S == {section(i) : i \in 1 .. c}
<1>1. Sections(text, starts) = [i \in 1 .. c |-> section(i)]
  BY DEF Sections, Nth, Rank, SectionEnd
<1>2. /\ c \in Nat /\ \A i \in 1 .. c : Nth(starts, i) \in starts
      /\ \A i, j \in 1 .. c : i < j => Nth(starts, i) < Nth(starts, j)
  <2>1. Len(text) \in Nat
    OBVIOUS
  <2>2. QED
    BY <2>1, StartsInOrder
<1> HIDE DEF c
<1>3. ASSUME NEW i \in 1 .. c
      PROVE  \E d \in Nat : PieceOf(section(i).content, text, d, Nth(starts, i), SectionEnd(text, starts, i))
  <2>1. PICK a \in 1 .. Len(text) : a = Nth(starts, i) /\ a \in starts
    BY <1>2
  <2>2. PICK b \in 1 .. Len(text) : b = SectionEnd(text, starts, i) /\ a <= b
    <3>1. CASE i < c
      <4>1. i + 1 \in 1 .. c /\ i < i + 1
        BY <1>2, <3>1
      <4>2. PICK next \in 1 .. Len(text) : next = Nth(starts, i + 1) /\ a < next
        BY <1>2, <2>1, <4>1
      <4>3. next - 1 \in 1 .. Len(text) /\ a <= next - 1
        BY <4>2
      <4>4. SectionEnd(text, starts, i) = next - 1
        BY <3>1, <4>2 DEF SectionEnd, c
      <4>5. QED
        BY <4>3, <4>4
    <3>2. CASE ~(i < c)
      <4>1. SectionEnd(text, starts, i) = Len(text)
        BY <3>2 DEF SectionEnd, c
      <4>2. Len(text) \in 1 .. Len(text) /\ a <= Len(text)
        BY <2>1
      <4>3. QED
        BY <4>1, <4>2
    <3>3. QED
      BY <3>1, <3>2
  <2>3. Written(SubSeq(text, a, b)) # {}
    <3>1. \A k \in a .. b : text[k] \in Lines
      <4>1. \A k \in a .. b : k \in 1 .. Len(text)
        BY <2>1, <2>2
      <4>2. QED
        BY <4>1
    <3>2. /\ SubSeq(text, a, b) \in Seq(Lines)
          /\ Len(SubSeq(text, a, b)) = IF a <= b THEN b - a + 1 ELSE 0
          /\ \A k \in 1 .. b - a + 1 : SubSeq(text, a, b)[k] = text[a + k - 1]
      BY <3>1, SubSeqProperties
    <3>3. 1 \in 1 .. b - a + 1 /\ a + 1 - 1 = a
      BY <2>1, <2>2
    <3>4. 1 \in DOMAIN SubSeq(text, a, b) /\ SubSeq(text, a, b)[1] = text[a]
      BY <2>2, <3>2, <3>3
    <3>5. QED
      BY <2>1, <3>4 DEF Written
  <2>4. \E d \in Nat : PieceOf(Trimmed(SubSeq(text, a, b)), text, d, a, b)
    <3>1. a \in Nat \ {0} /\ FenceBefore(text)[a] = "none"
      BY <2>1
    <3>2. QED
      BY <2>2, <2>3, <3>1, TrimmedIsPiece
  <2>5. section(i).content = Trimmed(SubSeq(text, a, b))
    BY <2>1, <2>2
  <2>6. QED
    BY <2>1, <2>2, <2>4, <2>5
<1>4. IsSequence(Sections(text, starts)) /\ Len(Sections(text, starts)) = c
      /\ DOMAIN Sections(text, starts) = 1 .. c
  <2>1. \A i \in 1 .. c : section(i) \in S
    OBVIOUS
  <2> HIDE DEF S, section
  <2>2. Sections(text, starts) \in Seq(S) /\ Len(Sections(text, starts)) = c
    BY <1>1, <1>2, <2>1
  <2>3. QED
    BY <2>2 DEF IsSequence
<1>5. \A i \in 1 .. c : Sections(text, starts)[i] = section(i)
  BY <1>1
<1> HIDE DEF section
<1>6. QED
  BY <1>3, <1>4, <1>5 DEF c

\* A text that begins with a written line is divided at that line and at the
\* headings of the level.
LEMMA SplitIsCut ==
    ASSUME NEW filename, NEW text \in Seq(Lines), Len(text) >= 1, ~IsBlank(text[1]),
           NEW level \in 1 .. 6, StartsOf(text, level) # {}
    PROVE  /\ IsSequence(SplitByLevel(filename, text, level))
           /\ CutAt(SplitByLevel(filename, text, level), text, {1} \cup StartsOf(text, level))
<1> DEFINE starts == StartsOf(text, level)
           c == Cardinality(starts)
           before == SubSeq(text, 1, Min(starts) - 1)
           preamble == [title |-> DocumentTitle(filename, before), content |-> Trimmed(before)]
           sections == Sections(text, starts)
           units == SplitByLevel(filename, text, level)
           begins == {1} \cup starts
           piece(u, a, b) == \E d \in Nat : PieceOf(u, text, d, a, b)
<1>1. /\ starts \subseteq 1 .. Len(text)
      /\ \A s \in starts : ~IsBlank(text[s]) /\ FenceBefore(text)[s] = "none"
  BY StartsAreHeadings
<1>2. units = (IF preamble.content = <<>> THEN <<>> ELSE <<preamble>>) \o sections
  BY DEF SplitByLevel, StartsOf
<1> HIDE DEF starts
<1>3. /\ c \in Nat /\ c >= 1 /\ Nth(starts, 1) = Min(starts)
      /\ \A i \in 1 .. c : Nth(starts, i) \in starts
      /\ \A i, j \in 1 .. c : i < j => Nth(starts, i) < Nth(starts, j)
      /\ \A s \in starts : \E i \in 1 .. c : Nth(starts, i) = s
  BY <1>1, StartsInOrder DEF starts
<1>4. /\ DOMAIN sections = 1 .. c /\ IsSequence(sections) /\ Len(sections) = c
      /\ \A i \in 1 .. c : piece(sections[i].content, Nth(starts, i), SectionEnd(text, starts, i))
  BY <1>1, SectionsArePieces
<1>5. PICK first \in 1 .. Len(text) : first = Min(starts) /\ first \in starts
  <2>1. 1 \in 1 .. c
    BY <1>3
  <2>2. QED
    BY <1>1, <1>3, <2>1
<1>6. \A i \in 1 .. c : Nth(starts, i) \in 1 .. Len(text)
  BY <1>1, <1>3
<1>7. DOMAIN text = 1 .. Len(text) /\ Len(text) \in Nat
  OBVIOUS
<1> HIDE DEF c, sections, units, piece
<1>8. CASE first = 1
  <2>1. preamble.content = <<>>
    <3>1. before = <<>>
      <4>1. before = SubSeq(text, 1, 0)
        BY <1>5, <1>8
      <4>2. SubSeq(text, 1, 0) = <<>>
        BY SubSeqEmpty
      <4>3. QED
        BY <4>1, <4>2
    <3>2. Written(<<>>) = {}
      BY DEF Written
    <3>3. QED
      BY <3>1, <3>2 DEF Trimmed
  <2>2. units = sections
    BY <1>2, <1>4, <2>1, ConcatEmptySeq DEF IsSequence
  <2>3. begins = starts
    BY <1>5, <1>8
  <2> DEFINE from == [k \in 1 .. c |-> Nth(starts, k)]
  <2>4. from \in [1 .. c -> starts]
    BY <1>3
  <2>5. \A k \in 1 .. c : SectionEnd(text, starts, k) = IF k < c THEN from[k + 1] - 1 ELSE Len(text)
    <3>1. \A k \in 1 .. c : k < c => k + 1 \in 1 .. c
      BY <1>3
    <3>2. QED
      BY <3>1 DEF SectionEnd, c
  <2>6. /\ \A k, m \in 1 .. c : k < m => from[k] < from[m]
        /\ \A s \in starts : \E k \in 1 .. c : from[k] = s
        /\ \A k \in 1 .. c : piece(sections[k].content, from[k], IF k < c THEN from[k + 1] - 1 ELSE Len(text))
    BY <1>3, <1>4, <2>5
  <2> HIDE DEF from, begins
  <2>7. CutAt(units, text, begins)
    BY <1>4, <2>2, <2>3, <2>4, <2>6 DEF CutAt, piece
  <2>8. QED
    BY <1>4, <2>2, <2>7 DEF units, begins, starts
<1>9. CASE first # 1
  <2> DEFINE n == c + 1
             from == [k \in 1 .. n |-> IF k = 1 THEN 1 ELSE Nth(starts, k - 1)]
  <2>1. Written(before) # {}
    <3>1. first - 1 \in 1 .. Len(text) /\ 1 \in 1 .. (first - 1) - 1 + 1 /\ before = SubSeq(text, 1, first - 1)
      BY <1>5, <1>9
    <3>2. \A k \in 1 .. first - 1 : text[k] \in Lines
      <4>1. \A k \in 1 .. first - 1 : k \in 1 .. Len(text)
        OBVIOUS
      <4>2. QED
        BY <4>1
    <3> DEFINE last == first - 1
               part == SubSeq(text, 1, last)
    <3> HIDE DEF last
    <3>3. /\ part \in Seq(Lines)
          /\ Len(part) = IF 1 <= last THEN last - 1 + 1 ELSE 0
          /\ \A k \in 1 .. last - 1 + 1 : part[k] = text[1 + k - 1]
      <4>1. last \in Int /\ \A k \in 1 .. last : text[k] \in Lines
        BY <3>2 DEF last
      <4>2. QED
        BY <4>1, SubSeqProperties
    <3>4. part[1] = text[1] /\ 1 \in DOMAIN part /\ before = part
      <4>1. before = part
        BY <3>1 DEF last
      <4>2. last \in Nat /\ 1 <= last
        BY <3>1 DEF last
      <4> HIDE DEF part
      <4>3. 1 \in 1 .. last - 1 + 1 /\ 1 + 1 - 1 = 1 /\ Len(part) >= 1
        BY <3>3, <4>2
      <4>4. part[1] = text[1] /\ 1 \in DOMAIN part
        BY <3>3, <4>3
      <4>5. QED
        BY <4>1, <4>4
    <3>5. QED
      BY <3>4 DEF Written
  <2>2. piece(preamble.content, 1, first - 1)
    <3>1. 1 \in Nat \ {0} /\ first - 1 \in 1 .. Len(text) /\ 1 <= first - 1
      BY <1>5, <1>9
    <3>2. FenceBefore(text)[1] = "none"
      BY <1>7, FenceSteps
    <3>3. before = SubSeq(text, 1, first - 1)
      BY <1>5
    <3>4. \E d \in Nat : PieceOf(Trimmed(SubSeq(text, 1, first - 1)), text, d, 1, first - 1)
      BY <2>1, <3>1, <3>2, <3>3, TrimmedIsPiece
    <3>5. QED
      BY <3>3, <3>4 DEF piece
  <2>3. preamble.content # <<>>
    <3>1. PICK d \in Nat : PieceOf(preamble.content, text, d, 1, first - 1)
      BY <2>2 DEF piece
    <3>2. Len(preamble.content) >= 1 /\ Len(<<>>) = 0
      BY <3>1 DEF PieceOf
    <3>3. QED
      BY <3>2
  <2>4. /\ IsSequence(units) /\ Len(units) = n /\ units[1] = preamble
        /\ \A k \in 2 .. n : units[k] = sections[k - 1]
    <3>1. PICK R : sections \in Seq(R)
      BY <1>4 DEF IsSequence
    <3> DEFINE T == R \cup {preamble}
    <3>2. sections \in Seq(T)
      BY <3>1
    <3>3. preamble \in T
      OBVIOUS
    <3>4. units = <<preamble>> \o sections
      BY <1>2, <2>3
    <3> HIDE DEF T, preamble
    <3>5. <<preamble>> \in Seq(T) /\ Len(<<preamble>>) = 1 /\ <<preamble>>[1] = preamble
      BY <3>3
    <3>6. /\ units \in Seq(T) /\ Len(units) = 1 + c
          /\ \A k \in 1 .. 1 + c : units[k] = IF k <= 1 THEN <<preamble>>[k] ELSE sections[k - 1]
      BY <1>4, <3>2, <3>4, <3>5, ConcatProperties
    <3>7. 1 + c = n /\ 1 \in 1 .. n /\ \A k \in 2 .. n : k \in 1 .. n /\ ~(k <= 1)
      BY <1>3
    <3>8. units[1] = preamble /\ \A k \in 2 .. n : units[k] = sections[k - 1]
      BY <3>5, <3>6, <3>7
    <3>9. QED
      BY <3>6, <3>7, <3>8 DEF IsSequence
  <2>5. \A k \in 2 .. n : k - 1 \in 1 .. c /\ k \in 1 .. n /\ k # 1
    BY <1>3
  <2>6. 1 \in 1 .. n /\ n \in Nat /\ \A k \in 1 .. n : k = 1 \/ k \in 2 .. n
    BY <1>3
  <2>7. from[1] = 1 /\ \A k \in 2 .. n : from[k] = Nth(starts, k - 1)
    BY <2>5, <2>6
  <2>8. from \in [1 .. n -> begins]
    BY <1>3, <2>5, <2>6
  <2> HIDE DEF from, preamble
  <2>9. ASSUME NEW k \in 1 .. n, NEW m \in 1 .. n, k < m PROVE from[k] < from[m]
    <3>1. m \in 2 .. n
      BY <1>3, <2>9
    <3>2. PICK y \in 1 .. Len(text) : y = from[m] /\ y = Nth(starts, m - 1)
      BY <1>6, <2>5, <2>7, <3>1
    <3>3. CASE k = 1
      <4>1. y # 1
        <5>1. y = first \/ first < y
          <6>1. m - 1 = 1 \/ 1 < m - 1
            BY <1>3, <3>1
          <6>2. 1 < m - 1 => Nth(starts, 1) < Nth(starts, m - 1)
            <7>1. 1 \in 1 .. c
              BY <1>3
            <7>2. QED
              BY <1>3, <2>5, <3>1, <7>1
          <6>3. QED
            BY <1>3, <1>5, <3>2, <6>1, <6>2
        <5>2. QED
          BY <1>9, <5>1
      <4>2. QED
        BY <2>7, <3>2, <3>3, <4>1
    <3>4. CASE k # 1
      <4>1. k \in 2 .. n /\ k - 1 < m - 1
        BY <2>6, <2>9, <3>4
      <4>2. Nth(starts, k - 1) < Nth(starts, m - 1)
        BY <1>3, <2>5, <3>1, <4>1
      <4>3. QED
        BY <2>7, <3>1, <4>1, <4>2
    <3>5. QED
      BY <3>3, <3>4
  <2>10. ASSUME NEW s \in begins PROVE \E k \in 1 .. n : from[k] = s
    <3>1. CASE s = 1
      BY <2>6, <2>7, <3>1
    <3>2. CASE s # 1
      <4>1. PICK i \in 1 .. c : Nth(starts, i) = s
        BY <1>3, <3>2
      <4>2. i + 1 \in 2 .. n /\ (i + 1) - 1 = i
        BY <1>3
      <4>3. QED
        BY <2>5, <2>7, <4>1, <4>2
    <3>3. QED
      BY <3>1, <3>2
  <2>11. ASSUME NEW k \in 1 .. n
         PROVE  piece(units[k].content, from[k], IF k < n THEN from[k + 1] - 1 ELSE Len(text))
    <3>1. CASE k = 1
      <4>1. k < n /\ k + 1 \in 2 .. n /\ (k + 1) - 1 = 1
        BY <1>3, <3>1
      <4>2. from[k + 1] = first
        BY <1>3, <1>5, <2>7, <4>1
      <4>3. QED
        BY <2>2, <2>4, <2>7, <3>1, <4>1, <4>2
    <3>2. CASE k # 1
      <4>1. k \in 2 .. n /\ k - 1 \in 1 .. c /\ (k < n <=> k - 1 < c)
        BY <1>3, <2>6, <3>2
      <4>2. k < n => k + 1 \in 2 .. n /\ (k + 1) - 1 = (k - 1) + 1
        BY <1>3
      <4>3. SectionEnd(text, starts, k - 1) = IF k < n THEN from[k + 1] - 1 ELSE Len(text)
        BY <2>7, <4>1, <4>2 DEF SectionEnd, c
      <4>4. QED
        BY <1>4, <2>4, <2>7, <4>1, <4>3
    <3>3. QED
      BY <3>1, <3>2
  <2> HIDE DEF begins, n
  <2>12. CutAt(units, text, begins)
    BY <2>4, <2>8, <2>9, <2>10, <2>11 DEF CutAt, piece
  <2>13. QED
    BY <2>4, <2>12 DEF units, begins, starts
<1>10. QED
  BY <1>8, <1>9

\* The lines that the units of a text begin with.
Begins(filename, text) ==
    IF Level(filename, text) = 0 THEN {1} ELSE {1} \cup StartsOf(text, Level(filename, text))

Dividing(text) == {l \in 1 .. maxHeadingLevel : StartsOf(text, l) \ {1} # {}}

\* A text that is not cut is one piece.
LEMMA WholeIsCut ==
    ASSUME NEW text \in Seq(Lines), Len(text) >= 1, NEW title
    PROVE  CutAt(<<[title |-> title, content |-> text]>>, text, {1})
<1> DEFINE units == <<[title |-> title, content |-> text]>>
           from == [k \in 1 .. 1 |-> 1]
<1>1. Len(text) \in Nat /\ DOMAIN text = 1 .. Len(text)
  OBVIOUS
<1>2. Len(units) = 1 /\ units[1].content = text
  OBVIOUS
<1>3. \A x : LineAlike(x, x)
  BY DEF LineAlike, FencedAlike
<1>4. PieceOf(text, text, 0, 1, Len(text))
  <2>1. \A i \in 1 .. Len(text) : i + 0 = i
    OBVIOUS
  <2>2. QED
    BY <1>1, <1>3, <2>1 DEF PieceOf
<1>5. from \in [1 .. 1 -> {1}] /\ from[1] = 1
  OBVIOUS
<1> HIDE DEF units, from
<1>6. \A k \in 1 .. 1 : k = 1 /\ ~(k < 1)
  OBVIOUS
<1>7. CutAt(units, text, {1})
  <2>1. \A k, m \in 1 .. 1 : k < m => from[k] < from[m]
    BY <1>6
  <2>2. \A s \in {1} : \E k \in 1 .. 1 : from[k] = s
    BY <1>5
  <2>3. \A k \in 1 .. 1 : \E d \in Nat :
           PieceOf(units[k].content, text, d, from[k], IF k < 1 THEN from[k + 1] - 1 ELSE Len(text))
    <3>1. 0 \in Nat /\ 1 \in 1 .. 1
      OBVIOUS
    <3>2. QED
      BY <1>2, <1>4, <1>5, <1>6, <3>1
  <2>4. QED
    BY <1>2, <1>5, <2>1, <2>2, <2>3 DEF CutAt
<1>8. QED
  BY <1>7 DEF units

\* There are as many units as lines they begin with.
LEMMA CutCounts ==
    ASSUME NEW units, Len(units) \in Nat, NEW text, NEW begins, CutAt(units, text, begins),
           \A s \in begins : s \in Nat
    PROVE  Cardinality(begins) = Len(units) /\ IsFiniteSet(begins)
<1> DEFINE n == Len(units)
<1>1. PICK from \in [1 .. n -> begins] :
         /\ \A k, m \in 1 .. n : k < m => from[k] < from[m]
         /\ \A s \in begins : \E k \in 1 .. n : from[k] = s
  BY DEF CutAt
<1>2. \A k, m \in 1 .. n : from[k] = from[m] => k = m
  <2>1. ASSUME NEW k \in 1 .. n, NEW m \in 1 .. n, k < m PROVE from[k] # from[m]
    <3>1. PICK x \in Nat, y \in Nat : x = from[k] /\ y = from[m]
      BY <1>1
    <3>2. x < y
      BY <1>1, <2>1, <3>1
    <3>3. QED
      BY <3>1, <3>2
  <2>2. QED
    BY <2>1
<1>3. from \in Bijection(1 .. n, begins)
  BY <1>1, <1>2 DEF Bijection, Injection, Surjection, IsInjective
<1>4. ExistsBijection(1 .. n, begins)
  BY <1>3 DEF ExistsBijection
<1>5. IsFiniteSet(1 .. n)
  BY FS_Interval
<1> HIDE DEF n
<1>6. Cardinality(begins) = n /\ IsFiniteSet(begins)
  <2>1. n \in Nat
    BY DEF n
  <2>2. QED
    BY <1>4, <1>5, <2>1, FS_CountingElements, FS_Bijection
<1>7. QED
  BY <1>6 DEF n

\* A level divides a text if it has a heading below the first line.
LEMMA LevelsThatDivide ==
    ASSUME NEW filename, NEW text \in Seq(Lines), Len(text) >= 1, ~IsBlank(text[1])
    PROVE  DividingLevels(filename, text) = Dividing(text)
<1> SUFFICES ASSUME NEW l \in 1 .. maxHeadingLevel
             PROVE  Len(SplitByLevel(filename, text, l)) >= 2 <=> StartsOf(text, l) \ {1} # {}
  BY DEF DividingLevels, Dividing
<1> DEFINE starts == StartsOf(text, l)
           units == SplitByLevel(filename, text, l)
           begins == {1} \cup starts
<1>1. l \in 1 .. 6
  BY DEF maxHeadingLevel
<1>2. CASE starts = {}
  <2>1. units = <<>>
    BY <1>2 DEF SplitByLevel, StartsOf
  <2>2. ~(Len(units) >= 2)
    BY <2>1
  <2>3. QED
    BY <1>2, <2>2
<1>3. CASE starts # {}
  <2>1. IsSequence(units) /\ CutAt(units, text, begins)
    BY <1>1, <1>3, SplitIsCut
  <2>2. \A s \in begins : s \in Nat
    BY <1>1, StartsAreHeadings
  <2>3. Len(units) \in Nat
    BY <2>1 DEF IsSequence
  <2> HIDE DEF units
  <2>4. Cardinality(begins) = Len(units) /\ IsFiniteSet(begins)
    BY <2>1, <2>2, <2>3, CutCounts
  <2>5. Cardinality(begins) # 0
    BY <2>4, FS_EmptySet
  <2>6. Cardinality(begins) = 1 <=> starts \ {1} = {}
    <3>1. Cardinality(begins) = 1 <=> \E x : begins = {x}
      BY <2>4, FS_Singleton
    <3>2. QED
      BY <3>1
  <2>7. QED
    BY <2>3, <2>4, <2>5, <2>6 DEF units
<1>4. QED
  BY <1>2, <1>3

\* What segmentMarkdown does with a text that begins with a written line.
THEOREM SegmentIsCut ==
    ASSUME NEW filename, NEW text \in Seq(Lines), Len(text) >= 1, ~IsBlank(text[1])
    PROVE  /\ CutAt(SegmentMarkdown(filename, text), text, Begins(filename, text))
           /\ Level(filename, text) = IF Dividing(text) = {} THEN 0 ELSE Min(Dividing(text))
           /\ Begins(filename, text) \subseteq 1 .. Len(text)
           /\ 1 \in Begins(filename, text)
           /\ \A s \in Begins(filename, text) : ~IsBlank(text[s])
<1> DEFINE level == Level(filename, text)
<1>1. level = IF Dividing(text) = {} THEN 0 ELSE Min(Dividing(text))
  BY LevelsThatDivide DEF Level
<1>2. Dividing(text) # {} => level \in Dividing(text) /\ level \in 1 .. maxHeadingLevel
  <2>1. Dividing(text) \in SUBSET Nat /\ Dividing(text) \subseteq 1 .. maxHeadingLevel
    BY DEF Dividing, maxHeadingLevel
  <2>2. QED
    BY <1>1, <2>1, LeastNumber
<1>3. 1 \in 1 .. Len(text)
  OBVIOUS
<1>4. CASE Dividing(text) = {}
  <2>1. Begins(filename, text) = {1}
    BY <1>1, <1>4 DEF Begins
  <2>2. SegmentMarkdown(filename, text) = <<[title |-> DocumentTitle(filename, text), content |-> text]>>
    BY <1>1, <1>4 DEF SegmentMarkdown
  <2>3. CutAt(SegmentMarkdown(filename, text), text, {1})
    BY <2>2, WholeIsCut
  <2>4. QED
    BY <1>1, <1>3, <2>1, <2>3
<1>5. CASE Dividing(text) # {}
  <2>1. level \in 1 .. 6 /\ level > 0 /\ level # 0 /\ StartsOf(text, level) # {}
    BY <1>2, <1>5 DEF maxHeadingLevel, Dividing
  <2>2. SegmentMarkdown(filename, text) = SplitByLevel(filename, text, level)
    BY <2>1 DEF SegmentMarkdown
  <2>3. Begins(filename, text) = {1} \cup StartsOf(text, level)
    BY <2>1 DEF Begins
  <2> HIDE DEF level
  <2>4. CutAt(SegmentMarkdown(filename, text), text, {1} \cup StartsOf(text, level))
    BY <2>1, <2>2, SplitIsCut
  <2>5. /\ StartsOf(text, level) \subseteq 1 .. Len(text)
        /\ \A s \in StartsOf(text, level) : ~IsBlank(text[s])
    BY <2>1, StartsAreHeadings
  <2>6. QED
    BY <1>1, <1>3, <2>3, <2>4, <2>5 DEF level
<1>6. QED
  BY <1>4, <1>5
===============================================================================
