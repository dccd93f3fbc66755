--------------------------- MODULE ConversionProofs ---------------------------
(***************************************************************************)
(* Theorems about Conversion, for documents of any length: the units have    *)
(* all of the text, in order and each on its own; and every document makes a *)
(* bundle of the same shape, so its verdict follows from the shape, whatever *)
(* the text is and wherever it was cut.                                     *)
(***************************************************************************)
EXTENDS Conversion, SegmentationProofs

(* The files of a bundle. *)

\* The names, texts and links of the files BuildBundle makes of any units: two of
\* its own and one per unit.
NameAt(i) == IF i = 1 THEN Index ELSE IF i = 2 THEN Log ELSE ConceptFilename(i - 2)
TextAt(c, i) == IF i \in {1, 2} THEN Prose ELSE c.concepts[i - 2].content
LinksAt(c, i) == IF i = 1 THEN LinksOfName(c.filename) \o Navigation(c.concepts) ELSE <<>>
FileAt(c, i) == [name |-> NameAt(i), text |-> TextAt(c, i), links |-> LinksAt(c, i)]

\* What BuildBundle returns: index.md, log.md, and a file per unit in order.
LEMMA BundleShape ==
    ASSUME NEW c, IsSequence(c.concepts)
    PROVE  LET b == BuildBundle(c)
               n == Len(c.concepts)
           IN  /\ n \in Nat /\ DOMAIN c.concepts = 1 .. n
               /\ b.conceptCount = n /\ b = [files |-> b.files, conceptCount |-> b.conceptCount]
               /\ IsSequence(b.files) /\ DOMAIN b.files = 1 .. n + 2
               /\ \A i \in 1 .. n + 2 : b.files[i] = FileAt(c, i)
<1> DEFINE n == Len(c.concepts)
           own == <<FileAt(c, 1), FileAt(c, 2)>>
           unit(i) == [name |-> ConceptFilename(i), text |-> c.concepts[i].content, links |-> <<>>]
           units == [i \in DOMAIN c.concepts |-> unit(i)]
           S == {FileAt(c, i) : i \in 1 .. n + 2}
<1>1. n \in Nat /\ DOMAIN c.concepts = 1 .. n
  BY DEF IsSequence
<1>2. BuildBundle(c) = [files |-> own \o units, conceptCount |-> n]
  BY DEF BuildBundle, FileAt, NameAt, TextAt, LinksAt
<1>3. \A i \in 1 .. n : unit(i) = FileAt(c, i + 2)
  BY <1>1 DEF FileAt, NameAt, TextAt, LinksAt
<1>4. \A i \in 1 .. n + 2 : FileAt(c, i) \in S
  OBVIOUS
<1> HIDE DEF n, S, unit
<1>5. own \in Seq(S) /\ Len(own) = 2 /\ own[1] = FileAt(c, 1) /\ own[2] = FileAt(c, 2)
  BY <1>1, <1>4
<1>6. units \in Seq(S) /\ Len(units) = n /\ \A i \in 1 .. n : units[i] = FileAt(c, i + 2)
  BY <1>1, <1>3, <1>4
<1> HIDE DEF own, units
<1>7. /\ own \o units \in Seq(S) /\ Len(own \o units) = n + 2
      /\ \A i \in 1 .. n + 2 : (own \o units)[i] = IF i <= 2 THEN own[i] ELSE units[i - 2]
  <2>1. /\ own \o units \in Seq(S) /\ Len(own \o units) = Len(own) + Len(units)
        /\ \A i \in 1 .. Len(own) + Len(units) :
              (own \o units)[i] = IF i <= Len(own) THEN own[i] ELSE units[i - Len(own)]
    BY <1>5, <1>6, ConcatProperties
  <2>2. Len(own) + Len(units) = n + 2
    BY <1>1, <1>5, <1>6
  <2>3. QED
    BY <1>5, <2>1, <2>2
<1>8. ASSUME NEW i \in 1 .. n + 2 PROVE (own \o units)[i] = FileAt(c, i)
  <2>1. CASE i = 1 \/ i = 2
    BY <1>1, <1>5, <1>7, <2>1
  <2>2. CASE i # 1 /\ i # 2
    <3>1. i - 2 \in 1 .. n /\ (i - 2) + 2 = i /\ ~(i <= 2)
      BY <1>1, <2>2
    <3>2. units[i - 2] = FileAt(c, (i - 2) + 2)
      BY <1>6, <3>1
    <3>3. QED
      BY <1>7, <3>1, <3>2
  <2>3. QED
    BY <2>1, <2>2
<1>9. IsSequence(own \o units) /\ DOMAIN (own \o units) = 1 .. n + 2
  BY <1>7 DEF IsSequence
<1>10. QED
  BY <1>1, <1>2, <1>8, <1>9 DEF n

\* The first file of a name.
LEMMA FirstOfName ==
    ASSUME NEW b, IsSequence(b.files), NEW name \in Names(b)
    PROVE  /\ Position(b, name) \in 1 .. Len(b.files)
           /\ FileOf(b, name).name = name
           /\ FileOf(b, name) = b.files[Position(b, name)]
<1> DEFINE places == {i \in DOMAIN b.files : b.files[i].name = name}
<1>1. DOMAIN b.files = 1 .. Len(b.files) /\ Len(b.files) \in Nat
  BY DEF IsSequence
<1>2. places \in SUBSET Nat /\ places # {}
  BY <1>1 DEF Names
<1>3. Min(places) \in places
  BY <1>2, LeastNumber
<1>4. QED
  BY <1>1, <1>3 DEF Position, FileOf

\* Names, links and places do not depend on the texts, and of the texts only that
\* of index.md matters to the errors.
LEMMA SameFrame ==
    ASSUME NEW a, NEW b, IsSequence(b.files),
           DOMAIN a.files = DOMAIN b.files, a.conceptCount = b.conceptCount,
           \A i \in DOMAIN b.files : /\ a.files[i].name = b.files[i].name
                                     /\ a.files[i].links = b.files[i].links
                                     /\ b.files[i].name = Index => a.files[i].text = b.files[i].text
    PROVE  /\ Names(a) = Names(b)
           /\ \A name : Position(a, name) = Position(b, name)
           /\ Linked(a) = Linked(b) /\ InnerLinks(a) = InnerLinks(b)
           /\ Errors(a) = Errors(b)
<1>1. Names(a) = Names(b)
  BY DEF Names
<1>2. ASSUME NEW name PROVE Position(a, name) = Position(b, name)
  <2>1. {i \in DOMAIN a.files : a.files[i].name = name} = {i \in DOMAIN b.files : b.files[i].name = name}
    OBVIOUS
  <2>2. QED
    BY <2>1 DEF Position
<1>3. ASSUME Index \in Names(b)
      PROVE  FileOf(a, Index).text = FileOf(b, Index).text /\ FileOf(a, Index).links = FileOf(b, Index).links
  BY <1>2, <1>3, FirstOfName DEF FileOf, IsSequence
<1>4. InnerLinks(a) = InnerLinks(b)
  BY <1>1, <1>3 DEF InnerLinks
<1>5. Linked(a) = Linked(b) /\ Concepts(a) = Concepts(b)
  BY <1>4 DEF Linked, Concepts
<1>6. {k \in DOMAIN a.files : \E i \in 1 .. k - 1 : a.files[i].name = a.files[k].name}
      = {k \in DOMAIN b.files : \E i \in 1 .. k - 1 : b.files[i].name = b.files[k].name}
  <2>1. DOMAIN b.files = 1 .. Len(b.files) /\ Len(b.files) \in Nat
    BY DEF IsSequence
  <2>2. \A k \in DOMAIN b.files : \A i \in 1 .. k - 1 : i \in DOMAIN b.files
    BY <2>1
  <2>3. QED
    BY <2>2
<1> DEFINE twice(x) == {x.files[j].name : j \in
                {k \in DOMAIN x.files : \E i \in 1 .. k - 1 : x.files[i].name = x.files[k].name}}
           empty(x) == {n \in {Index} \cap Names(x) : Written(FileOf(x, n).text) = {}}
<1>7. twice(a) = twice(b)
  BY <1>6
<1>8. empty(a) = empty(b)
  BY <1>1, <1>3
<1>9. \A x : Errors(x) =
        Findings("duplicate", twice(x))
        \cup (IF x.conceptCount < 1 THEN {<<"no concept", Index>>} ELSE {})
        \cup Findings("missing", (Concepts(x) \cup {Index, Log}) \ Names(x))
        \cup Findings("empty", empty(x))
        \cup Findings("dangling", Linked(x) \ Names(x))
        \cup (IF Index \notin Names(x) THEN {}
              ELSE Findings("unlinked", (Concepts(x) \cap Names(x)) \ Linked(x)))
  BY DEF Errors
<1> HIDE DEF twice, empty
<1>10. Errors(a) = Errors(b)
  BY <1>1, <1>5, <1>7, <1>8, <1>9
<1>11. QED
  BY <1>1, <1>2, <1>4, <1>5, <1>10

-------------------------------------------------------------------------------
(* AppendValidationLog *)

\* A bundle as BuildBundle makes it, up to the texts of the concepts.
Sound(b) ==
    /\ b = [files |-> b.files, conceptCount |-> b.conceptCount]
    /\ IsSequence(b.files)
    /\ \A i \in DOMAIN b.files :
        /\ b.files[i] = [name |-> b.files[i].name, text |-> b.files[i].text,
                         links |-> b.files[i].links]
        /\ b.files[i].name = Log => b.files[i].text = Prose

\* What is added to log.md after the validation does not change the verdict.
LEMMA LogKeepsVerdict ==
    ASSUME NEW b, Sound(b), Log \in Names(b)
    PROVE  ValidateBundle(AppendValidationLog(b)) = ValidateBundle(b)
<1> DEFINE a == AppendValidationLog(b)
           k == Position(b, Log)
           log == b.files[k]
<1>1. k \in DOMAIN b.files /\ log.name = Log /\ DOMAIN b.files = 1 .. Len(b.files)
  BY FirstOfName DEF Sound, IsSequence
<1>2. PICK links : log = [name |-> Log, text |-> Prose, links |-> links]
  BY <1>1 DEF Sound
<1> DEFINE longer == [name |-> Log, text |-> Prose \o Prose, links |-> links]
<1> HIDE DEF k, log
<1>3. a = [files |-> [b.files EXCEPT ![k] = longer], conceptCount |-> b.conceptCount]
  <2>1. log.text = Prose /\ [log EXCEPT !.text = Prose \o Prose] = longer
    <3>1. log.text = Prose
      BY <1>2
    <3> DEFINE text == Prose \o Prose
    <3> HIDE DEF text
    <3>2. [log EXCEPT !.text = text] = [name |-> Log, text |-> text, links |-> links]
      BY <1>2
    <3>3. QED
      BY <3>1, <3>2 DEF text
  <2>2. a = [b EXCEPT !.files = [b.files EXCEPT ![k] = [log EXCEPT !.text = log.text \o Prose]]]
    BY DEF AppendValidationLog, k, log
  <2> HIDE DEF longer, a
  <2>3. QED
    BY <2>1, <2>2 DEF Sound
<1> HIDE DEF a
<1>4. /\ DOMAIN a.files = DOMAIN b.files /\ a.conceptCount = b.conceptCount
      /\ \A i \in DOMAIN b.files : a.files[i] = IF i = k THEN longer ELSE b.files[i]
  BY <1>3 DEF Sound, IsSequence
<1>5. \A i \in DOMAIN b.files : /\ a.files[i].name = b.files[i].name
                                /\ a.files[i].links = b.files[i].links
                                /\ b.files[i].name = Index => a.files[i].text = b.files[i].text
  <2>1. longer.name = Log /\ longer.links = log.links /\ Log # Index
    BY <1>2 DEF Index, Log
  <2> HIDE DEF longer
  <2>2. QED
    BY <1>1, <1>4, <2>1 DEF log
<1>6. /\ Names(a) = Names(b) /\ \A name : Position(a, name) = Position(b, name)
      /\ Linked(a) = Linked(b) /\ InnerLinks(a) = InnerLinks(b) /\ Errors(a) = Errors(b)
  BY <1>4, <1>5, SameFrame DEF Sound
<1>7. ASSUME NEW name \in Names(b), name # Log PROVE FileOf(a, name) = FileOf(b, name)
  <2> DEFINE p == Position(b, name)
  <2>1. p \in DOMAIN b.files /\ b.files[p].name = name /\ FileOf(b, name) = b.files[p]
    BY <1>1, <1>7, FirstOfName DEF Sound
  <2>2. p # k
    BY <1>1, <1>7, <2>1 DEF log
  <2>3. FileOf(a, name) = a.files[p]
    BY <1>6 DEF FileOf
  <2> HIDE DEF p
  <2>4. QED
    BY <1>4, <2>1, <2>2, <2>3
<1>8. Written(FileOf(a, Log).text) # {} /\ Written(FileOf(b, Log).text) # {}
  <2>1. FileOf(a, Log).text = Prose \o Prose /\ FileOf(b, Log).text = Prose
    BY <1>1, <1>2, <1>4, <1>6 DEF FileOf, k, log
  <2>2. 1 \in DOMAIN Prose /\ Prose[1] = Plain("text")
        /\ 1 \in DOMAIN (Prose \o Prose) /\ (Prose \o Prose)[1] = Plain("text")
    BY DEF Prose
  <2>3. ~IsBlank(Plain("text"))
    BY DEF IsBlank, Plain
  <2>4. QED
    BY <2>1, <2>2, <2>3 DEF Written
<1> DEFINE emptyLog(x) == {n \in {Log} \cap Names(x) : Written(FileOf(x, n).text) = {}}
           noBody(x) == {n \in Concepts(x) \cap Names(x) : ~HasBody(FileOf(x, n).text)}
<1>9. emptyLog(a) = emptyLog(b)
  BY <1>8
<1>10. noBody(a) = noBody(b) /\ Concepts(a) = Concepts(b)
  <2>1. Concepts(a) = Concepts(b) /\ Log \notin Concepts(b)
    BY <1>4 DEF Concepts, ConceptFilename, Log
  <2>2. QED
    BY <1>6, <1>7, <2>1
<1>11. \A x : Warnings(x) =
        Findings("empty log", emptyLog(x))
        \cup Findings("untitled", {link.target : link \in {l \in InnerLinks(x) : l.label = "none"}})
        \cup Findings("no body", noBody(x))
        \cup Findings("unreferenced", Names(x) \ (Concepts(x) \cup Linked(x) \cup {Index, Log}))
  BY DEF Warnings
<1> HIDE DEF emptyLog, noBody
<1>12. Warnings(a) = Warnings(b)
  BY <1>6, <1>9, <1>10, <1>11
<1>13. QED
  BY <1>6, <1>12 DEF ValidateBundle, a

-------------------------------------------------------------------------------
(* BuildBundle and ApplyFault *)

\* The names of the files of a bundle, each of one file.
LEMMA BuiltNames ==
    ASSUME NEW c, IsSequence(c.concepts)
    PROVE  LET b == BuildBundle(c)
           IN  /\ Sound(b) /\ Names(b) = Concepts(b) \cup {Index, Log}
               /\ \A i, j \in DOMAIN b.files : b.files[i].name = b.files[j].name => i = j
               /\ Position(b, Index) = 1
<1> DEFINE b == BuildBundle(c)
           n == Len(c.concepts)
<1>1. /\ n \in Nat /\ b.conceptCount = n /\ b = [files |-> b.files, conceptCount |-> b.conceptCount]
      /\ IsSequence(b.files) /\ DOMAIN b.files = 1 .. n + 2
      /\ \A i \in 1 .. n + 2 : b.files[i] = FileAt(c, i)
  BY BundleShape
<1> HIDE DEF b, n
<1>2. \A i \in DOMAIN b.files : /\ b.files[i].name = NameAt(i) /\ b.files[i].text = TextAt(c, i)
                                /\ i \in Nat \ {0}
  <2>1. \A i : FileAt(c, i).name = NameAt(i) /\ FileAt(c, i).text = TextAt(c, i)
    BY DEF FileAt
  <2>2. QED
    BY <1>1, <2>1
<1>3. \A k, l : /\ ConceptFilename(k) # Index /\ ConceptFilename(k) # Log /\ Index # Log
                /\ ConceptFilename(k) = ConceptFilename(l) => k = l
  BY DEF Index, Log, ConceptFilename
<1>4. Sound(b)
  <2>1. ASSUME NEW i \in DOMAIN b.files
        PROVE  b.files[i] = [name |-> b.files[i].name, text |-> b.files[i].text,
                             links |-> b.files[i].links]
    <3>1. b.files[i] = FileAt(c, i)
      BY <1>1
    <3>2. FileAt(c, i) = [name |-> FileAt(c, i).name, text |-> FileAt(c, i).text,
                          links |-> FileAt(c, i).links]
      BY DEF FileAt
    <3>3. QED
      BY <3>1, <3>2
  <2>2. ASSUME NEW i \in DOMAIN b.files, b.files[i].name = Log PROVE b.files[i].text = Prose
    <3>1. i = 2
      BY <1>2, <1>3, <2>2 DEF NameAt
    <3>2. b.files[i].text = TextAt(c, i)
      BY <1>2
    <3>3. QED
      BY <3>1, <3>2 DEF TextAt
  <2>3. QED
    BY <1>1, <2>1, <2>2 DEF Sound
<1>5. ASSUME NEW i \in DOMAIN b.files, NEW j \in DOMAIN b.files, NameAt(i) = NameAt(j)
      PROVE  i = j
  <2>1. i - 2 = j - 2 => i = j
    BY <1>2
  <2>2. QED
    BY <1>3, <1>5, <2>1 DEF NameAt
<1>6. Names(b) = {NameAt(i) : i \in 1 .. n + 2}
  BY <1>1, <1>2 DEF Names
<1>7. {NameAt(i) : i \in 1 .. n + 2} = Concepts(b) \cup {Index, Log}
  <2>1. ASSUME NEW i \in 1 .. n + 2 PROVE NameAt(i) \in Concepts(b) \cup {Index, Log}
    <3>1. CASE i = 1 \/ i = 2
      BY <3>1 DEF NameAt
    <3>2. CASE i # 1 /\ i # 2
      <4>1. i - 2 \in 1 .. n
        BY <1>1, <3>2
      <4>2. QED
        BY <1>1, <3>2, <4>1 DEF NameAt, Concepts
    <3>3. QED
      BY <3>1, <3>2
  <2>2. ASSUME NEW k \in 1 .. n PROVE ConceptFilename(k) \in {NameAt(i) : i \in 1 .. n + 2}
    <3>1. k + 2 \in 1 .. n + 2 /\ k + 2 # 1 /\ k + 2 # 2 /\ (k + 2) - 2 = k
      BY <1>1
    <3>2. NameAt(k + 2) = ConceptFilename(k)
      BY <3>1 DEF NameAt
    <3>3. QED
      BY <3>1, <3>2
  <2>3. Index \in {NameAt(i) : i \in 1 .. n + 2} /\ Log \in {NameAt(i) : i \in 1 .. n + 2}
    <3>1. NameAt(1) = Index /\ NameAt(2) = Log /\ 1 \in 1 .. n + 2 /\ 2 \in 1 .. n + 2
      BY <1>1 DEF NameAt
    <3>2. QED
      BY <3>1
  <2>4. QED
    BY <1>1, <2>1, <2>2, <2>3 DEF Concepts
<1>8. Position(b, Index) = 1
  <2>1. Index \in Names(b) /\ 1 \in DOMAIN b.files /\ NameAt(1) = Index
    BY <1>1, <1>6, <1>7 DEF NameAt
  <2>2. Position(b, Index) \in DOMAIN b.files /\ b.files[Position(b, Index)].name = Index
    BY <1>1, <2>1, FirstOfName DEF IsSequence
  <2>3. QED
    BY <1>2, <1>5, <2>1, <2>2
<1>9. QED
  BY <1>2, <1>4, <1>5, <1>6, <1>7, <1>8 DEF b

\* A file that is dropped is not there any more.
LEMMA DroppedIsMissing ==
    ASSUME NEW b, IsSequence(b.files), NEW name \in {Index, Log},
           b = [files |-> b.files, conceptCount |-> b.conceptCount],
           \A i, j \in DOMAIN b.files : b.files[i].name = b.files[j].name => i = j
    PROVE  name \notin Names(Without(b, name)) /\ Errors(Without(b, name)) # {}
<1> DEFINE k == Position(b, name)
           d == Without(b, name)
           head == SubSeq(b.files, 1, k - 1)
           tail == SubSeq(b.files, k + 1, Len(b.files))
           S == {b.files[i] : i \in (DOMAIN b.files) \ {k}}
<1>1. PICK R : b.files \in Seq(R)
  BY DEF IsSequence
<1>2. name \notin Names(d)
  <2>1. CASE name \notin Names(b)
    BY <2>1 DEF Without
  <2>2. CASE name \in Names(b)
    <3>1. /\ DOMAIN b.files = 1 .. Len(b.files) /\ Len(b.files) \in Nat
          /\ k \in 1 .. Len(b.files) /\ b.files[k].name = name
      BY <1>1, <2>2, FirstOfName
    <3> HIDE DEF k
    <3>2. (\A i \in 1 .. k - 1 : b.files[i] \in S)
          /\ (\A i \in k + 1 .. Len(b.files) : b.files[i] \in S)
      BY <3>1
    <3>3. \A f \in S : f.name # name
      BY <3>1
    <3> HIDE DEF S
    <3>4. head \in Seq(S) /\ tail \in Seq(S)
      BY <3>1, <3>2, SubSeqProperties
    <3> HIDE DEF head, tail
    <3>5. head \o tail \in Seq(S)
      BY <3>4, ConcatProperties
    <3>6. d = [b EXCEPT !.files = head \o tail]
      BY <2>2 DEF Without, RemoveAt, head, tail, k
    <3>7. d.files = head \o tail
      BY <3>6
    <3>8. \A i \in DOMAIN d.files : d.files[i] \in S
      BY <3>5, <3>7
    <3>9. QED
      BY <3>3, <3>8 DEF Names
  <2>3. QED
    BY <2>1, <2>2
<1>3. <<"missing", name>> \in Errors(d)
  BY <1>2 DEF Errors, Findings
<1>4. QED
  BY <1>2, <1>3

\* index.md has one link per unit, to its file and with a label, if the name of the
\* document has no syntax of links.
LEMMA LinksOfIndex ==
    ASSUME NEW c, IsSequence(c.concepts), c.filename = "plain"
    PROVE  LET links == FileOf(BuildBundle(c), Index).links
               n == Len(c.concepts)
           IN  /\ DOMAIN links = 1 .. n /\ Len(links) = n
               /\ \A i \in 1 .. n : links[i].target = ConceptFilename(i) /\ links[i].label # "none"
<1> DEFINE n == Len(c.concepts)
           b == BuildBundle(c)
           S == {Navigation(c.concepts)[i] : i \in 1 .. n}
<1>1. /\ n \in Nat /\ DOMAIN c.concepts = 1 .. n /\ b.files[1] = FileAt(c, 1)
  BY BundleShape
<1>2. FileOf(b, Index).links = LinksAt(c, 1)
  <2>1. FileOf(b, Index) = FileAt(c, 1)
    BY <1>1, BuiltNames DEF FileOf
  <2>2. QED
    BY <2>1 DEF FileAt
<1>3. Navigation(c.concepts) \in Seq(S) /\ Len(Navigation(c.concepts)) = n
  <2>1. DOMAIN Navigation(c.concepts) = 1 .. n
    BY <1>1 DEF Navigation
  <2>2. Navigation(c.concepts) = [i \in 1 .. n |-> Navigation(c.concepts)[i]]
    BY <1>1 DEF Navigation
  <2>3. \A i \in 1 .. n : Navigation(c.concepts)[i] \in S
    OBVIOUS
  <2> HIDE DEF S, n
  <2>4. QED
    BY <1>1, <2>2, <2>3
<1>4. LinksAt(c, 1) = Navigation(c.concepts)
  <2>1. LinksAt(c, 1) = <<>> \o Navigation(c.concepts)
    BY DEF LinksAt, LinksOfName
  <2> HIDE DEF S
  <2>2. QED
    BY <1>3, <2>1, ConcatEmptySeq
<1>5. ASSUME NEW i \in 1 .. n
      PROVE  /\ Navigation(c.concepts)[i].target = ConceptFilename(i)
             /\ Navigation(c.concepts)[i].label # "none"
  <2>1. \A title : IndexLabel(title) # "link" /\ IndexLabel(title) # "none"
    BY DEF IndexLabel
  <2>2. PICK label : label = IndexLabel(c.concepts[i].title) /\ label # "link" /\ label # "none"
    BY <2>1
  <2>3. Navigation(c.concepts)[i] = [label |-> label, target |-> ConceptFilename(i)]
    BY <1>1, <2>2 DEF Navigation, LinkFound
  <2>4. QED
    BY <2>2, <2>3
<1>6. DOMAIN Navigation(c.concepts) = 1 .. n
  BY <1>1 DEF Navigation
<1>7. QED
  BY <1>2, <1>3, <1>4, <1>5, <1>6

\* A bundle as it was built has no error.
LEMMA BuiltHasNoError ==
    ASSUME NEW c, IsSequence(c.concepts), Len(c.concepts) >= 1, c.filename = "plain"
    PROVE  Errors(BuildBundle(c)) = {}
<1> DEFINE b == BuildBundle(c)
           n == Len(c.concepts)
<1>1. n \in Nat /\ b.conceptCount = n /\ DOMAIN b.files = 1 .. n + 2
  BY BundleShape
<1>2. /\ Sound(b) /\ Names(b) = Concepts(b) \cup {Index, Log}
      /\ \A i, j \in DOMAIN b.files : b.files[i].name = b.files[j].name => i = j
      /\ Position(b, Index) = 1
  BY BuiltNames
<1>3. Written(FileOf(b, Index).text) # {}
  <2>1. FileOf(b, Index) = FileAt(c, 1)
    BY <1>1, <1>2, BundleShape DEF FileOf
  <2>2. FileOf(b, Index).text = Prose
    BY <2>1 DEF FileAt, TextAt
  <2>3. 1 \in DOMAIN Prose /\ ~IsBlank(Prose[1])
    BY DEF Prose, IsBlank, Plain
  <2>4. QED
    BY <2>2, <2>3 DEF Written
<1>4. Linked(b) = Concepts(b)
  <2> DEFINE links == FileOf(b, Index).links
  <2>1. DOMAIN links = 1 .. n /\ \A i \in 1 .. n : links[i].target = ConceptFilename(i)
    BY LinksOfIndex
  <2> HIDE DEF b, links, n
  <2>2. \A i : ConceptFilename(i) # External
    BY DEF ConceptFilename, External
  <2>3. InnerLinks(b) = {links[i] : i \in 1 .. n}
    BY <1>2, <2>1, <2>2 DEF InnerLinks, Range, links
  <2>4. {links[i].target : i \in 1 .. n} = Concepts(b)
    BY <1>1, <2>1 DEF Concepts
  <2>5. QED
    BY <2>3, <2>4 DEF Linked
<1> HIDE DEF b, n
<1>5. {k \in DOMAIN b.files : \E i \in 1 .. k - 1 : b.files[i].name = b.files[k].name} = {}
  BY <1>1, <1>2
<1>6. Concepts(b) \subseteq Names(b) /\ Index \in Names(b) /\ Log \in Names(b)
  BY <1>2
<1>7. \A kind : Findings(kind, {}) = {}
  BY DEF Findings
<1>8. ~(b.conceptCount < 1)
  BY <1>1 DEF n
<1>9. /\ (Concepts(b) \cup {Index, Log}) \ Names(b) = {}
      /\ {m \in {Index} \cap Names(b) : Written(FileOf(b, m).text) = {}} = {}
      /\ Linked(b) \ Names(b) = {}
      /\ (Concepts(b) \cap Names(b)) \ Linked(b) = {}
  BY <1>3, <1>4, <1>6
<1>10. {b.files[j].name : j \in
          {k \in DOMAIN b.files : \E i \in 1 .. k - 1 : b.files[i].name = b.files[k].name}} = {}
  BY <1>5
<1>11. Errors(b) = {}
  BY <1>6, <1>7, <1>8, <1>9, <1>10, Zenon DEF Errors
<1>12. QED
  BY <1>11 DEF b

\* With the first unit emptied there is still no error, but a warning.
LEMMA EmptiedIsWarnedOf ==
    ASSUME NEW c, IsSequence(c.concepts), Len(c.concepts) >= 1
    PROVE  LET b == BuildBundle(c)  e == Emptied(b, ConceptFilename(1))
           IN  /\ Sound(e) /\ Log \in Names(e)
               /\ Errors(e) = Errors(b)
               /\ Warnings(e) # {}
<1> DEFINE b == BuildBundle(c)
           first == ConceptFilename(1)
           e == Emptied(b, first)
           k == Position(b, first)
<1>1. Sound(b) /\ Names(b) = Concepts(b) \cup {Index, Log} /\ first \in Concepts(b)
  BY BuiltNames, BundleShape DEF Concepts
<1> HIDE DEF b
<1>2. k \in DOMAIN b.files /\ b.files[k].name = first /\ DOMAIN b.files = 1 .. Len(b.files)
  BY <1>1, FirstOfName DEF Sound, IsSequence
<1>3. first # Log /\ first # Index
  BY DEF ConceptFilename, Log, Index
<1> HIDE DEF k
<1>4. PICK links : b.files[k] = [name |-> first, text |-> b.files[k].text, links |-> links]
  BY <1>1, <1>2 DEF Sound
<1> DEFINE none == [name |-> first, text |-> <<>>, links |-> links]
<1>5. e = [files |-> [b.files EXCEPT ![k] = none], conceptCount |-> b.conceptCount]
  <2>1. [b.files[k] EXCEPT !.text = <<>>] = none
    BY <1>4
  <2>2. e = [b EXCEPT !.files = [b.files EXCEPT ![k] = [b.files[k] EXCEPT !.text = <<>>]]]
    BY <1>1 DEF Emptied, k
  <2> HIDE DEF none, e
  <2>3. QED
    BY <1>1, <2>1, <2>2 DEF Sound
<1> HIDE DEF e
<1>6. /\ DOMAIN e.files = DOMAIN b.files /\ e.conceptCount = b.conceptCount
      /\ \A i \in DOMAIN b.files : e.files[i] = IF i = k THEN none ELSE b.files[i]
      /\ IsSequence(e.files)
  <2>1. PICK R : b.files \in Seq(R)
    BY <1>1 DEF Sound, IsSequence
  <2> HIDE DEF none
  <2>2. e.files \in Seq(R \cup {none})
    BY <1>2, <1>5, <2>1
  <2>3. QED
    BY <1>2, <1>5, <2>1, <2>2 DEF IsSequence
<1>7. none.name = first /\ none.links = b.files[k].links /\ none.text = <<>>
      /\ none = [name |-> none.name, text |-> none.text, links |-> none.links]
  <2>1. b.files[k].links = links
    BY <1>4
  <2>2. QED
    BY <2>1
<1> HIDE DEF none
<1>8. Sound(e)
  BY <1>1, <1>3, <1>5, <1>6, <1>7 DEF Sound
<1>9. /\ Names(e) = Names(b) /\ Errors(e) = Errors(b)
      /\ \A name : Position(e, name) = Position(b, name)
  BY <1>1, <1>2, <1>3, <1>6, <1>7, SameFrame DEF Sound
<1>10. ~HasBody(FileOf(e, first).text)
  <2>1. FileOf(e, first).text = <<>>
    BY <1>2, <1>6, <1>7, <1>9 DEF FileOf, k
  <2>2. Written(<<>>) = {} /\ Trimmed(<<>>) = <<>>
    BY DEF Written, Trimmed
  <2>3. QED
    BY <2>1, <2>2 DEF HasBody
<1>11. first \in Concepts(e) \cap Names(e)
  BY <1>1, <1>6, <1>9 DEF Concepts
<1>12. <<"no body", first>> \in Warnings(e)
  BY <1>10, <1>11 DEF Warnings, Findings
<1>13. QED
  BY <1>1, <1>8, <1>9, <1>12 DEF e, b

\* A bundle as it was built gets a warning only for a unit without a body.
LEMMA BuiltWarnings ==
    ASSUME NEW c, IsSequence(c.concepts), Len(c.concepts) >= 1, c.filename = "plain",
           \A i \in DOMAIN c.concepts : HasBody(c.concepts[i].content)
    PROVE  Warnings(BuildBundle(c)) = {}
<1> DEFINE b == BuildBundle(c)
           n == Len(c.concepts)
           links == FileOf(b, Index).links
<1>1. /\ n \in Nat /\ DOMAIN c.concepts = 1 .. n
      /\ b.conceptCount = n /\ DOMAIN b.files = 1 .. n + 2 /\ IsSequence(b.files)
      /\ \A i \in 1 .. n + 2 : b.files[i] = FileAt(c, i)
  BY BundleShape
<1>2. /\ Sound(b) /\ Names(b) = Concepts(b) \cup {Index, Log}
      /\ \A i, j \in DOMAIN b.files : b.files[i].name = b.files[j].name => i = j
      /\ Position(b, Index) = 1
  BY BuiltNames
<1>3. DOMAIN links = 1 .. n /\ \A i \in 1 .. n : links[i].label # "none"
  BY LinksOfIndex
<1> HIDE DEF b, links
<1>4. \A l \in InnerLinks(b) : l.label # "none"
  BY <1>2, <1>3 DEF InnerLinks, Range, links
<1>5. ASSUME NEW i \in 1 .. n
      PROVE  FileOf(b, ConceptFilename(i)).text = c.concepts[i].content
  <2>1. ConceptFilename(i) \in Names(b)
    BY <1>1, <1>2 DEF Concepts
  <2>2. /\ FileOf(b, ConceptFilename(i)).name = ConceptFilename(i)
        /\ Position(b, ConceptFilename(i)) \in DOMAIN b.files
        /\ FileOf(b, ConceptFilename(i)) = b.files[Position(b, ConceptFilename(i))]
    <3>1. DOMAIN b.files = 1 .. Len(b.files)
      BY <1>1 DEF IsSequence
    <3>2. QED
      BY <1>1, <2>1, <3>1, FirstOfName
  <2>3. i + 2 \in DOMAIN b.files /\ i + 2 # 1 /\ i + 2 # 2 /\ (i + 2) - 2 = i
    <3>1. n \in Nat /\ DOMAIN b.files = 1 .. n + 2
      BY <1>1
    <3>2. QED
      BY ONLY <3>1, i \in 1 .. n
  <2>4. b.files[i + 2].name = ConceptFilename(i) /\ b.files[i + 2].text = c.concepts[i].content
    <3>1. b.files[i + 2] = FileAt(c, i + 2)
      BY <1>1, <2>3
    <3>2. FileAt(c, i + 2).name = ConceptFilename(i)
          /\ FileAt(c, i + 2).text = c.concepts[i].content
      BY <2>3 DEF FileAt, NameAt, TextAt
    <3>3. QED
      BY <3>1, <3>2
  <2>5. Position(b, ConceptFilename(i)) = i + 2
    BY <1>2, <2>2, <2>3, <2>4
  <2>6. QED
    BY <2>2, <2>4, <2>5
<1>6. \A i \in 1 .. n : HasBody(FileOf(b, ConceptFilename(i)).text)
  BY <1>1, <1>5
<1>7. Written(FileOf(b, Log).text) # {}
  <2>1. FileOf(b, Log).name = Log /\ Position(b, Log) \in DOMAIN b.files
        /\ FileOf(b, Log) = b.files[Position(b, Log)]
    <3>1. DOMAIN b.files = 1 .. Len(b.files)
      BY <1>1 DEF IsSequence
    <3>2. QED
      BY <1>1, <1>2, <3>1, FirstOfName
  <2>2. FileOf(b, Log).text = Prose
    BY <1>2, <2>1 DEF Sound
  <2>3. 1 \in DOMAIN Prose /\ ~IsBlank(Prose[1])
    BY DEF Prose, IsBlank, Plain
  <2>4. QED
    BY <2>2, <2>3 DEF Written
<1>8. /\ {m \in {Log} \cap Names(b) : Written(FileOf(b, m).text) = {}} = {}
      /\ {link.target : link \in {l \in InnerLinks(b) : l.label = "none"}} = {}
      /\ {m \in Concepts(b) \cap Names(b) : ~HasBody(FileOf(b, m).text)} = {}
      /\ Names(b) \ (Concepts(b) \cup Linked(b) \cup {Index, Log}) = {}
  BY <1>1, <1>2, <1>4, <1>6, <1>7 DEF Concepts
<1>9. \A kind : Findings(kind, {}) = {}
  BY DEF Findings
<1>10. Warnings(b) = {}
  BY <1>8, <1>9, Zenon DEF Warnings
<1>11. QED
  BY <1>10 DEF b

-------------------------------------------------------------------------------
(* The units of the document *)

\* Convert makes a sequence of units out of any text.
LEMMA ConvertMakesUnits ==
    ASSUME document \in Documents
    PROVE  IsSequence(Units) /\ Len(Units) >= 1
<1> DEFINE text == Trimmed(document.text)
           unit == [title |-> document.filename, content |-> text]
<1>1. PICK given \in Texts : document.text = Placed(given)
  BY DEF Documents
<1>2. IsSequence(document.text)
  <2>1. given \in Seq(Lines)
    BY TextsAssumption
  <2> DEFINE S == {[given[i] EXCEPT !.at = i] : i \in 1 .. Len(given)}
             line(i) == [given[i] EXCEPT !.at = i]
  <2>2. Placed(given) = [i \in 1 .. Len(given) |-> line(i)] /\ Len(given) \in Nat
    BY <2>1 DEF Placed
  <2>3. \A i \in 1 .. Len(given) : line(i) \in S
    OBVIOUS
  <2> HIDE DEF S, line
  <2>4. Placed(given) \in Seq(S)
    BY <2>2, <2>3
  <2>5. QED
    BY <1>1, <2>4 DEF IsSequence
<1>3. IsSequence(text)
  BY <1>2, TrimmedIsSequence
<1> HIDE DEF unit
<1>4. <<unit>> \in Seq({unit}) /\ Len(<<unit>>) = 1
  OBVIOUS
<1>5. IsSequence(<<unit>>)
  BY <1>4 DEF IsSequence
<1> HIDE DEF text
<1>6. CASE document.format = "markdown"
  BY <1>3, <1>6, UnitsAreSequence DEF Units, text
<1>7. CASE document.format # "markdown"
  BY <1>4, <1>5, <1>7 DEF Units, unit, text
<1>8. QED
  BY <1>6, <1>7

\* The lines that the units of the document begin with.
DocumentBegins ==
    IF document.format = "markdown" THEN Begins(document.filename, Source) ELSE {1}

\* The document as it is loaded: each line knows its place.
LEMMA DocumentIsPlaced ==
    ASSUME document \in Documents
    PROVE  /\ document.text \in Seq(Lines)
           /\ \A i \in 1 .. Len(document.text) : document.text[i].at = i
<1>1. PICK given \in Texts : document.text = Placed(given)
  BY DEF Documents
<1>2. given \in Seq(Lines)
  BY <1>1, TextsAssumption
<1> DEFINE n == Len(given)
           line(i) == [given[i] EXCEPT !.at = i]
<1>3. n \in Nat /\ Placed(given) = [i \in 1 .. n |-> line(i)]
  BY <1>2 DEF Placed
<1>4. ASSUME NEW i \in 1 .. n PROVE line(i) \in Lines /\ line(i).at = i
  <2>1. given[i] \in Lines /\ i \in Nat
    BY <1>2
  <2>2. QED
    BY <2>1 DEF Lines
<1> HIDE DEF line, n
<1>5. Placed(given) \in Seq(Lines) /\ Len(Placed(given)) = n
  BY <1>3, <1>4
<1>6. QED
  BY <1>1, <1>3, <1>4, <1>5

\* What the worker converts of it, and where it is in the document.
LEMMA SourceOfDocument ==
    ASSUME document \in Documents, Written(document.text) # {}
    PROVE  /\ Source \in Seq(Lines) /\ Len(Source) >= 1 /\ ~IsBlank(Source[1])
           /\ \E d \in Nat :
                /\ \A i \in 1 .. Len(Source) :
                      /\ Source[i].at = i + d
                      /\ ~IsBlank(Source[i]) <=> i + d \in Written(document.text)
                /\ \A j \in Written(document.text) : j \in Nat /\ j - d \in 1 .. Len(Source)
<1> DEFINE text == document.text
           first == Min(Written(text))
           last == Max(Written(text))
           d == first - 1
<1>1. text \in Seq(Lines) /\ \A i \in 1 .. Len(text) : text[i].at = i
  BY DocumentIsPlaced
<1>2. Source = Trimmed(text)
  BY DEF Source
<1> HIDE DEF text
<1>3. /\ first \in Written(text)
      /\ first \in 1 .. last /\ last \in 1 .. Len(text)
      /\ \A i \in Written(text) : i \in first .. last
      /\ Source \in Seq(Lines) /\ Len(Source) = last - first + 1
      /\ \A i \in 1 .. Len(Source) : LineAlike(Source[i], text[first + i - 1])
  BY <1>1, <1>2, TrimmedKeeps DEF text
<1> HIDE DEF first, last
<1>4. d \in Nat /\ Len(Source) \in Nat /\ Len(Source) >= 1
  BY <1>3
<1>5. ASSUME NEW i \in 1 .. Len(Source)
      PROVE  /\ Source[i].at = i + d
             /\ ~IsBlank(Source[i]) <=> i + d \in Written(text)
  <2>1. first + i - 1 = i + d /\ i + d \in 1 .. Len(text)
    BY <1>3, <1>4
  <2>2. LineAlike(Source[i], text[i + d])
    BY <1>3, <2>1
  <2>3. DOMAIN text = 1 .. Len(text)
    BY <1>1
  <2>4. i + d \in Written(text) <=> ~IsBlank(text[i + d])
    BY <2>1, <2>3 DEF Written
  <2>5. QED
    BY <1>1, <2>1, <2>2, <2>4 DEF LineAlike
<1>6. ASSUME NEW j \in Written(text) PROVE j \in Nat /\ j - d \in 1 .. Len(Source)
  <2>1. j \in first .. last
    BY <1>3
  <2>2. QED
    BY <1>3, <2>1
<1>7. ~IsBlank(Source[1])
  <2>1. 1 \in 1 .. Len(Source) /\ 1 + d = first
    BY <1>3, <1>4
  <2>2. QED
    BY <1>3, <1>5, <2>1
<1> HIDE DEF d
<1>8. QED
  BY <1>3, <1>4, <1>5, <1>6, <1>7 DEF text

\* The units of any document with text are pieces of it, in order.
LEMMA UnitsAreCut ==
    ASSUME document \in Documents, Written(document.text) # {}
    PROVE  /\ CutAt(Units, Source, DocumentBegins)
           /\ DocumentBegins \subseteq 1 .. Len(Source) /\ 1 \in DocumentBegins
           /\ \A s \in DocumentBegins : ~IsBlank(Source[s])
<1>1. Source \in Seq(Lines) /\ Len(Source) >= 1 /\ ~IsBlank(Source[1])
  BY SourceOfDocument
<1>2. Units = IF document.format = "markdown" THEN SegmentMarkdown(document.filename, Source)
              ELSE <<[title |-> document.filename, content |-> Source]>>
  BY DEF Units, Source
<1>3. 1 \in 1 .. Len(Source)
  BY <1>1
<1> HIDE DEF Source
<1>4. CASE document.format = "markdown"
  BY <1>1, <1>2, <1>4, SegmentIsCut DEF DocumentBegins
<1>5. CASE document.format # "markdown"
  <2>1. CutAt(<<[title |-> document.filename, content |-> Source]>>, Source, {1})
    BY <1>1, WholeIsCut
  <2>2. DocumentBegins = {1} /\ Units = <<[title |-> document.filename, content |-> Source]>>
    BY <1>2, <1>5 DEF DocumentBegins
  <2>3. QED
    BY <1>1, <1>3, <2>1, <2>2
<1>6. QED
  BY <1>4, <1>5

\* A converted document has text, and its units are what they should be.
Divided ==
    /\ document \in Documents
    /\ Written(document.text) # {}
    /\ conversion.concepts = Units

\* Each unit is the text from a written line of the document, below[k] lines below
\* its first, up to where the next unit begins.
LastLine(units, from, k) == IF k < Len(units) THEN from[k + 1] - 1 ELSE Len(Source)

Laid(units, from, below) ==
    LET n == Len(units)
    IN  /\ from \in [1 .. n -> DocumentBegins] /\ below \in [1 .. n -> Nat]
        /\ \A k, m \in 1 .. n : k < m => from[k] < from[m]
        /\ \A s \in DocumentBegins : \E k \in 1 .. n : from[k] = s
        /\ \A k \in 1 .. n :
              /\ from[k] = below[k] + 1
              /\ LastLine(units, from, k) \in from[k] .. Len(Source)
              /\ PieceOf(units[k].content, Source, below[k], from[k], LastLine(units, from, k))

\* So the units of a document are.
LEMMA UnitsAreLaid ==
    ASSUME Divided
    PROVE  LET units == conversion.concepts
           IN  /\ Len(units) \in Nat /\ DOMAIN units = 1 .. Len(units)
               /\ \E from, below : Laid(units, from, below)
<1> DEFINE units == conversion.concepts
           n == Len(units)
           whole(from, k, d) == PieceOf(units[k].content, Source, d, from[k], LastLine(units, from, k))
<1>1. n \in Nat /\ DOMAIN units = 1 .. n
  BY ConvertMakesUnits DEF Divided, IsSequence
<1>2. /\ CutAt(units, Source, DocumentBegins) /\ DocumentBegins \subseteq 1 .. Len(Source)
      /\ \A s \in DocumentBegins : ~IsBlank(Source[s])
  BY UnitsAreCut DEF Divided
<1>3. Len(Source) \in Nat
  BY SourceOfDocument DEF Divided
<1> HIDE DEF n, units
<1>4. PICK from \in [1 .. n -> DocumentBegins] :
         /\ \A k, m \in 1 .. n : k < m => from[k] < from[m]
         /\ \A s \in DocumentBegins : \E k \in 1 .. n : from[k] = s
         /\ \A k \in 1 .. n : \E d \in Nat : whole(from, k, d)
  BY <1>2 DEF CutAt, LastLine, n
<1> DEFINE below == [k \in 1 .. n |-> CHOOSE d \in Nat : whole(from, k, d)]
           end(k) == LastLine(units, from, k)
<1> HIDE DEF whole, end
<1>5. below \in [1 .. n -> Nat] /\ \A k \in 1 .. n : whole(from, k, below[k])
  BY <1>4
<1> HIDE DEF below
<1>6. ASSUME NEW k \in 1 .. n
      PROVE  from[k] = below[k] + 1 /\ end(k) \in from[k] .. Len(Source)
  <2>1. PICK a \in 1 .. Len(Source) : a = from[k] /\ ~IsBlank(Source[a])
    BY <1>2, <1>4
  <2>2. PICK d \in Nat : d = below[k] /\ PieceOf(units[k].content, Source, d, a, end(k))
    BY <1>5, <2>1 DEF whole, end
  <2> DEFINE b == end(k)
  <2>3. b \in a .. Len(Source)
    <3>1. CASE k < n
      <4>1. k + 1 \in 1 .. n /\ k < k + 1
        BY <1>1, <3>1
      <4>2. from[k + 1] \in DocumentBegins
        BY <1>4, <4>1
      <4>3. PICK next \in 1 .. Len(Source) : next = from[k + 1]
        BY <1>2, <4>2
      <4>4. a < next
        BY <1>4, <2>1, <4>1, <4>3
      <4>5. b = next - 1
        BY <3>1, <4>3 DEF end, LastLine, n
      <4>6. QED
        BY <1>3, <4>4, <4>5
    <3>2. CASE ~(k < n)
      <4>1. b = Len(Source)
        BY <3>2 DEF end, LastLine, n
      <4>2. QED
        BY <1>3, <2>1, <4>1
    <3>3. QED
      BY <3>1, <3>2
  <2> HIDE DEF b
  <2>4. a <= d + 1 /\ a \in d + 1 .. d + Len(units[k].content)
    <3>1. PieceOf(units[k].content, Source, d, a, b)
      BY <2>2 DEF b
    <3>2. a \in a .. b
      BY <1>3, <2>3
    <3>3. QED
      BY <2>1, <3>1, <3>2 DEF PieceOf
  <2>5. a = d + 1
    BY <2>4
  <2>6. QED
    BY <2>1, <2>2, <2>3, <2>5 DEF b
<1>7. Laid(units, from, below)
  BY <1>4, <1>5, <1>6 DEF whole, end, n, Laid
<1>8. QED
  BY <1>1, <1>7 DEF n, units

\* What is known of one of the units.
LEMMA OneOfTheUnits ==
    ASSUME Divided, NEW from, NEW below, Laid(conversion.concepts, from, below),
           NEW k \in 1 .. Len(conversion.concepts)
    PROVE  LET u == conversion.concepts[k].content
               d == below[k]
           IN  /\ d \in Nat /\ DOMAIN u = 1 .. Len(u) /\ Len(u) \in Nat \ {0}
               /\ from[k] = d + 1 /\ LastLine(conversion.concepts, from, k) \in d + 1 .. Len(Source)
               /\ d + Len(u) <= LastLine(conversion.concepts, from, k)
               /\ \A i \in 1 .. Len(u) : /\ i + d \in 1 .. Len(Source)
                                         /\ LineAlike(u[i], Source[i + d])
                                         /\ FenceBefore(u)[i] = FenceBefore(Source)[i + d]
               /\ \A j \in d + 1 .. LastLine(conversion.concepts, from, k) :
                     ~IsBlank(Source[j]) => j - d \in 1 .. Len(u)
<1> DEFINE u == conversion.concepts[k].content
           b == LastLine(conversion.concepts, from, k)
<1>1. PICK d \in Nat : d = below[k]
  BY DEF Laid
<1>2. from[k] = d + 1 /\ b \in d + 1 .. Len(Source) /\ PieceOf(u, Source, d, d + 1, b)
  BY <1>1 DEF Laid
<1>3. Len(Source) \in Nat
  BY SourceOfDocument DEF Divided
<1> HIDE DEF u, b
<1>4. /\ DOMAIN u = 1 .. Len(u) /\ Len(u) \in Nat /\ Len(u) >= 1 /\ d + Len(u) <= b
      /\ \A i \in 1 .. Len(u) : /\ LineAlike(u[i], Source[i + d])
                                /\ FenceBefore(u)[i] = FenceBefore(Source)[i + d]
      /\ \A j \in d + 1 .. b : ~IsBlank(Source[j]) => j \in d + 1 .. d + Len(u)
  <2>1. u \in Seq(Lines)
    BY <1>2 DEF PieceOf
  <2>2. DOMAIN u = 1 .. Len(u) /\ Len(u) \in Nat
    BY <2>1
  <2>3. QED
    BY <1>2, <2>2 DEF PieceOf
<1>5. \A i \in 1 .. Len(u) : i + d \in 1 .. Len(Source)
  BY <1>2, <1>3, <1>4
<1>6. \A j \in d + 1 .. b : ~IsBlank(Source[j]) => j - d \in 1 .. Len(u)
  BY <1>2, <1>3, <1>4
<1>7. QED
  BY <1>1, <1>2, <1>4, <1>5, <1>6 DEF u, b

\* What UnitsSelfContained says of a converted document.
LEMMA PiecesAreSelfContained == Divided => UnitsSelfContained
<1> SUFFICES ASSUME Divided, NEW u \in Range(conversion.concepts), NEW i \in DOMAIN u.content
             PROVE  \E j \in DOMAIN Source :
                       /\ u.content[i].at = Source[j].at
                       /\ FenceBefore(u.content)[i] = FenceBefore(Source)[j]
  BY DEF UnitsSelfContained
<1>1. DOMAIN conversion.concepts = 1 .. Len(conversion.concepts)
  BY UnitsAreLaid
<1>2. PICK from, below : Laid(conversion.concepts, from, below)
  BY UnitsAreLaid
<1>3. PICK k \in 1 .. Len(conversion.concepts) : u = conversion.concepts[k]
  BY <1>1 DEF Range
<1>4. DOMAIN Source = 1 .. Len(Source)
  BY SourceOfDocument DEF Divided
<1>5. /\ i + below[k] \in 1 .. Len(Source)
      /\ LineAlike(u.content[i], Source[i + below[k]])
      /\ FenceBefore(u.content)[i] = FenceBefore(Source)[i + below[k]]
  <2> DEFINE content == conversion.concepts[k].content
  <2>1. /\ DOMAIN content = 1 .. Len(content)
        /\ \A j \in 1 .. Len(content) : /\ j + below[k] \in 1 .. Len(Source)
                                        /\ LineAlike(content[j], Source[j + below[k]])
                                        /\ FenceBefore(content)[j] = FenceBefore(Source)[j + below[k]]
    BY <1>2, OneOfTheUnits
  <2>2. u.content = content
    BY <1>3
  <2> HIDE DEF content
  <2>3. QED
    BY <2>1, <2>2
<1>6. QED
  BY <1>4, <1>5 DEF LineAlike

\* What HighestLevelDivides says of a converted document.
LEMMA UnitsBeginAtHeadings == Divided => HighestLevelDivides
<1> SUFFICES ASSUME Divided, document.format = "markdown" PROVE HighestLevelDivides
  BY DEF HighestLevelDivides
<1> DEFINE at(l) == {i \in DOMAIN Source : /\ IsHeading(Source[i]) /\ Source[i].level = l
                                           /\ FenceBefore(Source)[i] = "none"}
           dividing == {l \in 1 .. maxHeadingLevel : at(l) \ {1} # {}}
           begins == {1} \cup (IF dividing = {} THEN {} ELSE at(Min(dividing)))
           units == conversion.concepts
<1>1. Source \in Seq(Lines) /\ Len(Source) >= 1 /\ ~IsBlank(Source[1])
  BY SourceOfDocument DEF Divided
<1>2. \A l \in 1 .. 6 : StartsOf(Source, l) = at(l)
  BY <1>1, StartsAreHeadings
<1>3. dividing = Dividing(Source)
  <2>1. \A l \in 1 .. maxHeadingLevel : l \in 1 .. 6
    BY DEF maxHeadingLevel
  <2>2. QED
    BY <1>2, <2>1 DEF Dividing
<1> HIDE DEF dividing
<1>4. DocumentBegins = begins
  <2> DEFINE level == Level(document.filename, Source)
  <2>1. level = IF dividing = {} THEN 0 ELSE Min(dividing)
    BY <1>1, <1>3, SegmentIsCut
  <2>2. dividing # {} => Min(dividing) \in 1 .. 6 /\ Min(dividing) # 0
    <3>1. dividing \in SUBSET Nat /\ dividing \subseteq 1 .. 3
      BY DEF dividing, maxHeadingLevel
    <3>2. dividing # {} => Min(dividing) \in dividing
      BY <3>1, LeastNumber
    <3>3. \A l \in dividing : l \in 1 .. 6 /\ l # 0
      BY <3>1
    <3>4. QED
      BY <3>2, <3>3, Zenon
  <2>3. DocumentBegins = IF level = 0 THEN {1} ELSE {1} \cup StartsOf(Source, level)
    BY DEF DocumentBegins, Begins
  <2> HIDE DEF level, at
  <2>4. CASE dividing = {}
    BY <2>1, <2>3, <2>4
  <2>5. CASE dividing # {}
    BY <1>2, <2>1, <2>2, <2>3, <2>5
  <2>6. QED
    BY <2>4, <2>5
<1>5. PICK from, below : Laid(units, from, below)
  BY UnitsAreLaid
<1>6. Len(units) \in Nat /\ DOMAIN units = 1 .. Len(units)
  BY UnitsAreLaid
<1>7. CutAt(units, Source, DocumentBegins) /\ DocumentBegins \subseteq 1 .. Len(Source)
  BY UnitsAreCut DEF Divided
<1>8. Len(units) = Cardinality(begins)
  <2>1. \A s \in DocumentBegins : s \in Nat
    BY <1>7
  <2>2. QED
    BY <1>4, <1>6, <1>7, <2>1, CutCounts
<1> HIDE DEF begins
<1>9. ASSUME NEW k \in 1 .. Len(units)
      PROVE  from[k] \in begins /\ units[k].content[1].at = Source[from[k]].at
  <2> DEFINE u == units[k].content
             d == below[k]
  <2>1. /\ d \in Nat /\ Len(u) \in Nat \ {0} /\ from[k] = d + 1
        /\ \A i \in 1 .. Len(u) : LineAlike(u[i], Source[i + d])
    BY <1>5, <1>9, OneOfTheUnits
  <2> HIDE DEF u, d
  <2>2. 1 \in 1 .. Len(u) /\ 1 + d = from[k]
    BY <2>1
  <2>3. u[1].at = Source[from[k]].at
    BY <2>1, <2>2 DEF LineAlike
  <2>4. from[k] \in begins
    BY <1>4, <1>5 DEF Laid
  <2>5. QED
    BY <2>3, <2>4 DEF u
<1>10. \A s \in begins : \E k \in 1 .. Len(units) : from[k] = s
  BY <1>4, <1>5 DEF Laid
<1>11. {u.content[1].at : u \in Range(units)} = {Source[i].at : i \in begins}
  <2>1. Range(units) = {units[k] : k \in 1 .. Len(units)}
    BY <1>6 DEF Range
  <2> HIDE DEF units
  <2>2. ASSUME NEW u \in Range(units) PROVE u.content[1].at \in {Source[i].at : i \in begins}
    BY <1>9, <2>1
  <2>3. ASSUME NEW s \in begins PROVE Source[s].at \in {u.content[1].at : u \in Range(units)}
    <3>1. PICK k \in 1 .. Len(units) : from[k] = s
      BY <1>10
    <3>2. units[k] \in Range(units) /\ units[k].content[1].at = Source[s].at
      BY <1>9, <2>1, <3>1
    <3>3. QED
      BY <3>2
  <2>4. QED
    BY <2>2, <2>3
<1>12. QED
  BY <1>8, <1>11 DEF HighestLevelDivides, begins, dividing

\* What Lossless says of a converted document.
LEMMA NothingIsLost == Divided => Lossless
<1> SUFFICES ASSUME Divided PROVE Lossless
  OBVIOUS
<1> DEFINE units == conversion.concepts
           n == Len(units)
           spots == UNION {{u} \X Written(units[u].content) : u \in DOMAIN units}
           at(s) == units[s[1]].content[s[2]].at
           precedes(s, t) == s[1] < t[1] \/ (s[1] = t[1] /\ s[2] < t[2])
           end(from, k) == LastLine(units, from, k)
<1>1. n \in Nat /\ DOMAIN units = 1 .. n
  BY UnitsAreLaid
<1>2. PICK from, below : Laid(units, from, below)
  BY UnitsAreLaid
<1>3. /\ Len(Source) \in Nat /\ DOMAIN Source = 1 .. Len(Source)
      /\ \E d \in Nat :
            /\ \A i \in 1 .. Len(Source) :
                  /\ Source[i].at = i + d
                  /\ ~IsBlank(Source[i]) <=> i + d \in Written(document.text)
            /\ \A j \in Written(document.text) : j \in Nat /\ j - d \in 1 .. Len(Source)
  <2>1. Source \in Seq(Lines)
    BY SourceOfDocument DEF Divided
  <2>2. Len(Source) \in Nat /\ DOMAIN Source = 1 .. Len(Source)
    BY <2>1
  <2>3. QED
    BY <2>2, SourceOfDocument, Zenon DEF Divided
<1>4. PICK over \in Nat :
            /\ \A i \in 1 .. Len(Source) :
                  /\ Source[i].at = i + over
                  /\ ~IsBlank(Source[i]) <=> i + over \in Written(document.text)
            /\ \A j \in Written(document.text) : j \in Nat /\ j - over \in 1 .. Len(Source)
  BY <1>3
<1>5. ASSUME NEW k \in 1 .. n
      PROVE  LET u == units[k].content
                 d == below[k]
             IN  /\ d \in Nat /\ DOMAIN u = 1 .. Len(u) /\ Len(u) \in Nat \ {0}
                 /\ from[k] = d + 1 /\ end(from, k) \in d + 1 .. Len(Source)
                 /\ d + Len(u) <= end(from, k)
                 /\ \A i \in 1 .. Len(u) : i + d \in 1 .. Len(Source) /\ LineAlike(u[i], Source[i + d])
                 /\ \A j \in d + 1 .. end(from, k) : ~IsBlank(Source[j]) => j - d \in 1 .. Len(u)
  BY <1>2, OneOfTheUnits
<1>6. /\ from \in [1 .. n -> DocumentBegins]
      /\ \A k, m \in 1 .. n : k < m => from[k] < from[m]
      /\ \A s \in DocumentBegins : \E k \in 1 .. n : from[k] = s
  BY <1>2 DEF Laid
<1>7. \A k \in 1 .. n : end(from, k) = IF k < n THEN from[k + 1] - 1 ELSE Len(Source)
  BY DEF LastLine
<1>8. DocumentBegins \subseteq 1 .. Len(Source) /\ 1 \in DocumentBegins
  BY UnitsAreCut DEF Divided
<1> HIDE DEF units, n, end
<1>9. ASSUME NEW k \in 1 .. n, NEW i \in Written(units[k].content)
      PROVE  /\ i \in Nat /\ i + below[k] \in from[k] .. end(from, k)
             /\ units[k].content[i].at = (i + below[k]) + over
             /\ (i + below[k]) + over \in Written(document.text)
  <2> DEFINE u == units[k].content
             b == end(from, k)
  <2>1. PICK d \in Nat : d = below[k]
    BY <1>5
  <2>2. /\ DOMAIN u = 1 .. Len(u) /\ Len(u) \in Nat
        /\ from[k] = d + 1 /\ b \in d + 1 .. Len(Source) /\ d + Len(u) <= b
        /\ \A j \in 1 .. Len(u) : j + d \in 1 .. Len(Source) /\ LineAlike(u[j], Source[j + d])
    BY <1>5, <2>1
  <2> HIDE DEF b
  <2>3. i \in 1 .. Len(u) /\ ~IsBlank(u[i])
    BY <2>2 DEF Written
  <2> HIDE DEF u
  <2>4. u[i].at = (i + d) + over /\ (i + d) + over \in Written(document.text)
    BY <1>4, <2>2, <2>3 DEF LineAlike
  <2>5. i \in Nat /\ i + d \in d + 1 .. b
    BY <1>3, <2>2, <2>3
  <2>6. QED
    BY <2>1, <2>2, <2>4, <2>5 DEF u, b
<1>10. ASSUME NEW j \in Written(document.text)
       PROVE  \E k \in 1 .. n : \E i \in Written(units[k].content) : units[k].content[i].at = j
  <2>1. PICK p \in 1 .. Len(Source) : p = j - over /\ j = p + over /\ ~IsBlank(Source[p])
    <3>1. j \in Nat /\ j - over \in 1 .. Len(Source) /\ (j - over) + over = j
      BY <1>4
    <3>2. QED
      BY <1>4, <3>1
  <2> DEFINE reached == {k \in 1 .. n : from[k] <= p}
             k == Max(reached)
  <2>2. k \in 1 .. n /\ from[k] <= p /\ \A m \in 1 .. n : from[m] <= p => m <= k
    <3>1. reached # {}
      <4>1. PICK m \in 1 .. n : from[m] = 1
        BY <1>6, <1>8
      <4>2. from[m] <= p
        BY <4>1
      <4>3. QED
        BY <4>2
    <3>2. Max(reached) \in reached /\ \A y \in reached : Max(reached) >= y
      BY <1>1, <3>1, GreatestNumber
    <3>3. \A y \in 1 .. n : Max(reached) >= y => y <= Max(reached)
      BY <3>2
    <3>4. QED
      BY <3>2, <3>3
  <2> HIDE DEF k, reached
  <2> DEFINE u == units[k].content
             b == end(from, k)
  <2>3. PICK d \in Nat : d = below[k]
    BY <1>5, <2>2
  <2>4. /\ DOMAIN u = 1 .. Len(u) /\ Len(u) \in Nat
        /\ from[k] = d + 1 /\ b \in d + 1 .. Len(Source)
        /\ \A i \in 1 .. Len(u) : i + d \in 1 .. Len(Source) /\ LineAlike(u[i], Source[i + d])
        /\ \A q \in d + 1 .. b : ~IsBlank(Source[q]) => q - d \in 1 .. Len(u)
    BY <1>5, <2>2, <2>3
  <2> HIDE DEF u
  <2>5. p <= b
    <3>1. CASE k < n
      <4>1. k + 1 \in 1 .. n /\ ~(k + 1 <= k)
        BY <1>1, <2>2, <3>1
      <4>2. PICK next \in 1 .. Len(Source) : next = from[k + 1]
        BY <1>6, <1>8, <4>1
      <4>3. ~(next <= p)
        BY <2>2, <4>1, <4>2
      <4>4. b = next - 1
        BY <1>7, <2>2, <3>1, <4>2
      <4> HIDE DEF b
      <4>5. QED
        BY <4>3, <4>4
    <3>2. CASE ~(k < n)
      <4>1. b = Len(Source)
        BY <1>7, <2>2, <3>2
      <4> HIDE DEF b
      <4>2. QED
        BY <1>3, <4>1
    <3>3. QED
      BY <3>1, <3>2
  <2> HIDE DEF b
  <2>6. d + 1 <= p /\ p \in d + 1 .. b
    BY <1>3, <2>2, <2>4, <2>5
  <2>7. p - d \in 1 .. Len(u) /\ (p - d) + d = p
    BY <2>1, <2>4, <2>6
  <2>8. LineAlike(u[p - d], Source[p])
    BY <2>4, <2>7
  <2>9. p - d \in Written(u) /\ u[p - d].at = j
    BY <1>4, <2>1, <2>4, <2>7, <2>8 DEF LineAlike, Written
  <2>10. QED
    BY <2>2, <2>9 DEF u
<1>11. ASSUME NEW s \in spots
       PROVE  s[1] \in 1 .. n /\ s[2] \in Written(units[s[1]].content)
  BY <1>1
<1>12. {at(s) : s \in spots} = Written(document.text)
  <2>1. ASSUME NEW s \in spots PROVE at(s) \in Written(document.text)
    BY <1>9, <1>11
  <2>2. ASSUME NEW j \in Written(document.text) PROVE \E s \in spots : at(s) = j
    <3>1. PICK k \in 1 .. n : \E i \in Written(units[k].content) : units[k].content[i].at = j
      BY <1>10
    <3>2. PICK i \in Written(units[k].content) : units[k].content[i].at = j
      BY <3>1
    <3>3. <<k, i>> \in spots /\ at(<<k, i>>) = j
      BY <1>1, <3>2
    <3>4. QED
      BY <3>3
  <2> HIDE DEF at, spots
  <2>3. QED
    BY <2>1, <2>2
<1>13. ASSUME NEW s \in spots, NEW t \in spots, precedes(s, t) PROVE at(s) < at(t)
  <2>1. PICK k \in 1 .. n, i \in Nat : k = s[1] /\ i = s[2] /\ i \in Written(units[k].content)
    BY <1>9, <1>11
  <2>2. PICK m \in 1 .. n, j \in Nat : m = t[1] /\ j = t[2] /\ j \in Written(units[m].content)
    BY <1>9, <1>11
  <2>3. PICK d \in Nat, e \in Nat : d = below[k] /\ e = below[m]
    BY <1>5
  <2>4. PICK a \in Nat, b \in Nat : a = end(from, k) /\ b = from[m]
    <3>1. end(from, k) \in Nat
      BY <1>3, <1>5
    <3>2. from[m] \in Nat
      BY <1>5
    <3>3. QED
      BY <3>1, <3>2
  <2>5. /\ at(s) = (i + d) + over /\ i + d <= a
        /\ at(t) = (j + e) + over /\ b <= j + e
    <3>1. at(s) = (i + d) + over /\ i + d \in from[k] .. a
      BY <1>9, <2>1, <2>3, <2>4
    <3>2. at(t) = (j + e) + over /\ j + e \in b .. end(from, m)
      BY <1>9, <2>2, <2>3, <2>4
    <3>3. PICK x \in Nat : x = from[k]
      BY <1>5
    <3>4. PICK y \in Nat : y = end(from, m)
      BY <1>3, <1>5
    <3>5. i + d \in x .. a /\ j + e \in b .. y
      BY <3>1, <3>2, <3>3, <3>4
    <3>6. QED
      BY <3>1, <3>2, <3>5
  <2>6. CASE k = m
    <3>1. i < j /\ d = e
      BY <1>13, <2>1, <2>2, <2>3, <2>6
    <3> HIDE DEF at
    <3>2. QED
      BY <2>5, <3>1
  <2>7. CASE k # m
    <3>1. k < m
      BY <1>13, <2>1, <2>2, <2>7
    <3>2. k < n /\ k + 1 \in 1 .. n /\ (k + 1 = m \/ k + 1 < m)
      BY <1>1, <3>1
    <3>3. PICK next \in Nat : next = from[k + 1]
      BY <1>5, <3>2
    <3>4. next = b \/ next < b
      BY <1>6, <2>4, <3>2, <3>3
    <3>5. a = next - 1
      BY <1>7, <2>4, <3>2, <3>3
    <3> HIDE DEF at
    <3>6. QED
      BY <2>5, <3>4, <3>5
  <2>8. QED
    BY <2>6, <2>7
<1>14. QED
  BY <1>12, <1>13, Zenon DEF Lossless, units

\* A document that was not cut is its only unit.
LEMMA OneUnitIsTheDocument ==
    ASSUME Divided, Len(conversion.concepts) = 1
    PROVE  conversion.concepts[1].content = Source
<1>1. Source \in Seq(Lines) /\ Len(Source) >= 1 /\ ~IsBlank(Source[1])
  BY SourceOfDocument DEF Divided
<1>2. conversion.concepts =
        IF document.format = "markdown" THEN SegmentMarkdown(document.filename, Source)
        ELSE <<[title |-> document.filename, content |-> Source]>>
  BY DEF Divided, Units, Source
<1> DEFINE level == Level(document.filename, Source)
<1> HIDE DEF Source
<1>3. CASE document.format = "markdown" /\ level > 0
  <2>1. conversion.concepts = SplitByLevel(document.filename, Source, level)
    BY <1>2, <1>3 DEF SegmentMarkdown
  <2>2. DividingLevels(document.filename, Source) \in SUBSET Nat
    BY DEF DividingLevels, maxHeadingLevel
  <2>3. level \in DividingLevels(document.filename, Source)
    BY <1>3, <2>2, LeastNumber DEF Level
  <2>4. Len(conversion.concepts) >= 2
    BY <2>1, <2>3 DEF DividingLevels
  <2>5. QED
    BY <2>4
<1>4. CASE ~(document.format = "markdown" /\ level > 0)
  <2>1. PICK title : conversion.concepts = <<[title |-> title, content |-> Source]>>
    BY <1>2, <1>4 DEF SegmentMarkdown
  <2>2. QED
    BY <2>1
<1>5. QED
  BY <1>3, <1>4

\* A document has a body unless a heading is all of it.
LEMMA DocumentHasBody ==
    ASSUME Divided, Cardinality(Written(Source)) > 1 \/ ~IsHeading(Source[1])
    PROVE  HasBody(Source)
<1> DEFINE t == Trimmed(Source)
           first == Min(Written(Source))
           last == Max(Written(Source))
           n == Len(t)
<1>1. Source \in Seq(Lines) /\ Len(Source) >= 1 /\ ~IsBlank(Source[1])
  BY SourceOfDocument DEF Divided
<1>2. DOMAIN Source = 1 .. Len(Source) /\ Len(Source) \in Nat
  BY <1>1
<1>3. 1 \in Written(Source)
  BY <1>1, <1>2 DEF Written
<1> HIDE DEF Source
<1>4. /\ first \in Written(Source) /\ last \in Written(Source)
      /\ first \in 1 .. last /\ last \in 1 .. Len(Source)
      /\ \A i \in Written(Source) : i \in first .. last
      /\ t \in Seq(Lines) /\ n = last - first + 1
      /\ \A i \in 1 .. n : LineAlike(t[i], Source[first + i - 1])
      /\ t[1] = IF n = 1 THEN Shortened(Unindented(Source[first])) ELSE Unindented(Source[first])
  BY <1>1, <1>3, TrimmedKeeps
<1> HIDE DEF t, first, last, n
<1>5. first = 1 /\ n = last /\ n \in Nat /\ n >= 1 /\ n = Len(t)
  BY <1>2, <1>3, <1>4 DEF n
<1>6. t # <<>>
  BY <1>4, <1>5
<1>7. CASE Cardinality(Written(Source)) > 1
  <2>1. n > 1
    <3>1. ASSUME n = 1 PROVE FALSE
      <4>1. \A i \in Written(Source) : i \in 1 .. 1
        BY <1>4, <1>5, <3>1
      <4>2. Written(Source) = {1}
        BY <1>3, <4>1
      <4>3. Cardinality({1}) = 1
        BY FS_Singleton
      <4>4. QED
        BY <1>7, <4>2, <4>3
    <3>2. QED
      BY <1>5, <3>1
  <2>2. ~IsBlank(t[n])
    <3>1. n \in 1 .. n /\ first + n - 1 = last
      BY <1>4, <1>5
    <3>2. LineAlike(t[n], Source[last])
      BY <1>4, <3>1
    <3>3. ~IsBlank(Source[last])
      BY <1>4 DEF Written
    <3>4. QED
      BY <3>2, <3>3 DEF LineAlike
  <2>3. /\ Tail(t) \in Seq(Lines) /\ Len(Tail(t)) = Len(t) - 1
        /\ \A i \in 1 .. Len(Tail(t)) : Tail(t)[i] = t[i + 1]
    BY <1>4, <1>6, HeadTailProperties
  <2>4. n - 1 \in 1 .. Len(Tail(t)) /\ (n - 1) + 1 = n
    BY <1>5, <2>1, <2>3
  <2>5. n - 1 \in DOMAIN Tail(t) /\ Tail(t)[n - 1] = t[n]
    BY <2>3, <2>4
  <2>6. Written(Tail(t)) # {}
    BY <2>2, <2>5 DEF Written
  <2>7. QED
    BY <1>6, <2>6 DEF HasBody, t
<1>8. CASE ~IsHeading(Source[1])
  <2>1. Source[1].kind # "indented"
    <3>1. PICK text \in Seq(Lines) : Source = Trimmed(text) /\ Written(text) # {}
      BY DocumentIsPlaced DEF Divided, Source
    <3>2. \/ Source[1] = Shortened(Unindented(text[Min(Written(text))]))
          \/ Source[1] = Unindented(text[Min(Written(text))])
      BY <3>1, TrimmedKeeps
    <3>3. text[Min(Written(text))] \in Lines
      <4>1. Min(Written(text)) \in 1 .. Max(Written(text)) /\ Max(Written(text)) \in 1 .. Len(text)
        BY <3>1, TrimmedKeeps
      <4>2. QED
        BY <4>1
    <3>4. \A x \in Lines : Unindented(x) \in Lines /\ Unindented(x).kind # "indented"
      BY DEF Unindented, Lines
    <3>5. \A x \in Lines : x.kind # "indented" => Shortened(x).kind # "indented"
      <4>1. ASSUME NEW x \in Lines, x.kind # "indented" PROVE Shortened(x).kind # "indented"
        <5>1. x.kind = "heading" => [[x EXCEPT !.kind = "text"] EXCEPT !.level = 0].kind = "text"
          BY DEF Lines
        <5>2. QED
          BY <4>1, <5>1 DEF Shortened, IsHeading
      <4>2. QED
        BY <4>1
    <3>6. QED
      BY <3>2, <3>3, <3>4, <3>5
  <2>2. Unindented(Source[1]) = Source[1] /\ Shortened(Source[1]) = Source[1]
    BY <1>8, <2>1 DEF Unindented, Shortened
  <2>3. ~IsHeading(t[1])
    BY <1>4, <1>5, <1>8, <2>2
  <2>4. QED
    BY <1>6, <2>3 DEF HasBody, t
<1>9. QED
  BY <1>7, <1>8

-------------------------------------------------------------------------------
(* The behaviours of the worker *)

\* What the worker has at each stage is made of what it had at the one before.
ConversionInv ==
    /\ document \in Documents
    /\ fault = "" \/ stage \in {"built", "validated", "rejected", "packaged"}
    /\ stage \in {"converted", "built", "validated", "rejected"} =>
           /\ Written(document.text) # {} /\ conversion.concepts = Units
           /\ IsSequence(conversion.concepts) /\ Len(conversion.concepts) >= 1
           /\ conversion.filename = document.filename
    /\ stage \in {"built", "validated", "rejected"} =>
           bundle = ApplyFault(BuildBundle(conversion), fault)
    /\ stage \in {"validated", "rejected"} => validation = ValidateBundle(bundle)
    /\ stage = "validated" => IsPublishable(validation)
    /\ VerdictStable

\* A bundle that is published has a log.md, and is sound.
LEMMA PublishedIsSound ==
    ASSUME NEW c, IsSequence(c.concepts), Len(c.concepts) >= 1, NEW f,
           Errors(ApplyFault(BuildBundle(c), f)) = {}
    PROVE  /\ Sound(ApplyFault(BuildBundle(c), f))
           /\ Log \in Names(ApplyFault(BuildBundle(c), f))
<1> DEFINE b == BuildBundle(c)
<1>1. /\ Sound(b) /\ Log \in Names(b)
      /\ \A i, j \in DOMAIN b.files : b.files[i].name = b.files[j].name => i = j
  BY BuiltNames
<1>2. \A name \in {Index, Log} : Errors(Without(b, name)) # {}
  BY <1>1, DroppedIsMissing DEF Sound
<1>3. f # "drop-index" /\ f # "drop-log"
  BY <1>2 DEF ApplyFault
<1>4. CASE f = "empty-concept"
  BY <1>4, EmptiedIsWarnedOf DEF ApplyFault
<1>5. CASE f # "empty-concept"
  BY <1>1, <1>3, <1>5 DEF ApplyFault
<1>6. QED
  BY <1>4, <1>5

\* IsPublishable says that there is no error.
LEMMA PublishableMeansNoError ==
    \A b : IsPublishable(ValidateBundle(b)) <=> Errors(b) = {}
BY DEF IsPublishable, ValidateBundle, Classify

\* Every step keeps the invariant.
LEMMA ConversionStep == ConversionInv /\ [Next]_vars => ConversionInv'
<1> SUFFICES ASSUME ConversionInv, [Next]_vars PROVE ConversionInv'
  OBVIOUS
<1>1. document' = document /\ (document' = document => Units' = Units)
  BY DEF Next, Convert, Build, Validate, Package, vars, Units
<1> USE <1>1 DEF ConversionInv, VerdictStable
<1>2. CASE Convert
  <2>1. stage = "loaded" /\ fault = "" /\ UNCHANGED <<document, fault, bundle, validation>>
    BY <1>2 DEF Convert
  <2>2. CASE stage' = "failed"
    BY <2>1, <2>2
  <2>3. CASE stage' # "failed"
    <3>1. stage' = "converted" /\ Written(document.text) # {}
          /\ conversion' = [filename |-> document.filename, concepts |-> Units]
      BY <1>2, <2>3 DEF Convert
    <3>2. IsSequence(Units) /\ Len(Units) >= 1
      BY ConvertMakesUnits
    <3>3. conversion'.concepts = Units /\ conversion'.filename = document.filename
      BY <3>1
    <3>4. IsSequence(conversion'.concepts) /\ Len(conversion'.concepts) >= 1
      BY <3>2, <3>3
    <3>5. QED
      BY <2>1, <3>1, <3>3, <3>4
  <2>4. QED
    BY <2>2, <2>3
<1>3. CASE Build
  BY <1>3 DEF Build
<1>4. CASE Validate
  BY <1>4 DEF Validate
<1>5. CASE Package
  <2>1. stage = "validated" /\ Errors(bundle) = {}
    BY <1>5, PublishableMeansNoError DEF Package
  <2>2. Sound(bundle) /\ Log \in Names(bundle)
    BY <2>1, PublishedIsSound
  <2>3. ValidateBundle(bundle') = validation'
    BY <1>5, <2>1, <2>2, LogKeepsVerdict DEF Package
  <2>4. QED
    BY <1>5, <2>3 DEF Package
<1>6. CASE UNCHANGED vars
  BY <1>6 DEF vars
<1>7. QED
  BY <1>2, <1>3, <1>4, <1>5, <1>6 DEF Next

\* What each stage of the worker has in hand, throughout.
THEOREM ConversionInvariant == Spec => []ConversionInv
<1>1. Init => ConversionInv
  BY DEF Init, ConversionInv, VerdictStable
<1>2. QED
  BY <1>1, ConversionStep, PTL DEF Spec

\* The text that is added to log.md after the validation changes no verdict
\* (bundle.go 168).
THEOREM VerdictIsStable == Spec => []VerdictStable
BY ConversionInvariant, PTL DEF ConversionInv

\* Every text makes a bundle without errors, however long it is, whatever its
\* headings say and wherever it is cut (bundle.go, validator.go).
THEOREM EveryTextIsPublishable == Spec => []ConvertedIsPublishable
<1>1. ConversionInv => ConvertedIsPublishable
  <2> SUFFICES ASSUME ConversionInv, stage \in {"validated", "rejected"}, fault = "",
                      document.filename = "plain"
               PROVE  IsPublishable(validation)
    BY DEF ConvertedIsPublishable, Validated
  <2>1. bundle = BuildBundle(conversion)
    BY DEF ConversionInv, ApplyFault
  <2>2. Errors(bundle) = {}
    BY <2>1, BuiltHasNoError DEF ConversionInv
  <2>3. QED
    BY <2>2, PublishableMeansNoError DEF ConversionInv
<1>2. QED
  BY <1>1, ConversionInvariant, PTL

\* index.md leads, in order, to the files that have the text of the units
\* (bundle.go 46-131).
THEOREM IndexLeads == Spec => []IndexLeadsToUnits
<1>1. ConversionInv => IndexLeadsToUnits
  <2> SUFFICES ASSUME ConversionInv, stage = "built", fault = "", document.filename = "plain"
               PROVE  LET links == FileOf(bundle, Index).links  units == conversion.concepts
                      IN  /\ Len(links) = Len(units)
                          /\ \A i \in DOMAIN units :
                              /\ links[i].target \in Names(bundle)
                              /\ FileOf(bundle, links[i].target).text = units[i].content
    BY DEF IndexLeadsToUnits
  <2> DEFINE n == Len(conversion.concepts)
             links == FileOf(bundle, Index).links
  <2>1. bundle = BuildBundle(conversion) /\ IsSequence(conversion.concepts)
        /\ conversion.filename = "plain"
    BY DEF ConversionInv, ApplyFault
  <2>2. /\ n \in Nat /\ DOMAIN conversion.concepts = 1 .. n
        /\ DOMAIN bundle.files = 1 .. n + 2 /\ IsSequence(bundle.files)
        /\ bundle.conceptCount = n
    BY <2>1, BundleShape
  <2>3. /\ Names(bundle) = Concepts(bundle) \cup {Index, Log}
        /\ \A i, j \in DOMAIN bundle.files : bundle.files[i].name = bundle.files[j].name => i = j
    BY <2>1, BuiltNames
  <2>4. Len(links) = n /\ \A i \in 1 .. n : links[i].target = ConceptFilename(i)
    BY <2>1, LinksOfIndex
  <2>5. \A i \in DOMAIN bundle.files : bundle.files[i] = FileAt(conversion, i)
    BY <2>1, <2>2, BundleShape
  <2> HIDE DEF n, links
  <2>6. ASSUME NEW i \in 1 .. n
        PROVE  /\ ConceptFilename(i) \in Names(bundle)
               /\ FileOf(bundle, ConceptFilename(i)).text = conversion.concepts[i].content
    <3>1. ConceptFilename(i) \in Names(bundle)
      BY <2>2, <2>3 DEF Concepts
    <3>2. i + 2 \in DOMAIN bundle.files /\ i + 2 # 1 /\ i + 2 # 2 /\ (i + 2) - 2 = i
      <4>1. n \in Nat /\ DOMAIN bundle.files = 1 .. n + 2
        BY <2>2
      <4>2. QED
        BY ONLY <4>1, i \in 1 .. n
    <3>3. bundle.files[i + 2] = FileAt(conversion, i + 2)
      BY <2>5, <3>2
    <3>4. FileAt(conversion, i + 2).name = ConceptFilename(i)
          /\ FileAt(conversion, i + 2).text = conversion.concepts[i].content
      BY <3>2 DEF FileAt, NameAt, TextAt
    <3> DEFINE k == Position(bundle, ConceptFilename(i))
    <3>5. k \in DOMAIN bundle.files /\ bundle.files[k].name = ConceptFilename(i)
          /\ FileOf(bundle, ConceptFilename(i)) = bundle.files[k]
      <4>1. IsSequence(bundle.files)
        BY <2>2
      <4>2. DOMAIN bundle.files = 1 .. Len(bundle.files)
        BY ONLY <4>1 DEF IsSequence
      <4>3. QED
        BY <3>1, <4>1, <4>2, FirstOfName
    <3> HIDE DEF k
    <3>6. k = i + 2
      BY <2>3, <3>2, <3>3, <3>4, <3>5
    <3>7. QED
      BY <3>1, <3>3, <3>4, <3>5, <3>6
  <2>7. QED
    BY <2>2, <2>4, <2>6 DEF n, links
<1>2. QED
  BY <1>1, ConversionInvariant, PTL

\* Each injected fault gets the verdict it is there to show (fault.go 7).
THEOREM FaultsAreDetected == Spec => []FaultsDetected
<1>1. ConversionInv => FaultsDetected
  <2> SUFFICES ASSUME ConversionInv, stage \in {"validated", "rejected"}
               PROVE  /\ fault \in {"drop-index", "drop-log"} => validation.status = "invalid"
                      /\ (fault = "empty-concept" /\ document.filename = "plain") =>
                             validation.status = "valid_with_warnings"
    BY DEF FaultsDetected, Validated
  <2> DEFINE b == BuildBundle(conversion)
  <2>1. /\ IsSequence(conversion.concepts) /\ Len(conversion.concepts) >= 1
        /\ conversion.filename = document.filename
        /\ bundle = ApplyFault(b, fault) /\ validation = ValidateBundle(bundle)
    BY DEF ConversionInv
  <2>2. ASSUME NEW name \in {Index, Log} PROVE Errors(Without(b, name)) # {}
    <3>1. /\ Sound(b)
          /\ \A i, j \in DOMAIN b.files : b.files[i].name = b.files[j].name => i = j
      BY <2>1, BuiltNames
    <3> HIDE DEF b
    <3>2. QED
      BY <3>1, DroppedIsMissing DEF Sound
  <2>3. fault \in {"drop-index", "drop-log"} => Errors(bundle) # {}
    BY <2>1, <2>2 DEF ApplyFault
  <2>4. ASSUME fault = "empty-concept", document.filename = "plain"
        PROVE  Errors(bundle) = {} /\ Warnings(bundle) # {}
    <3>1. bundle = Emptied(b, ConceptFilename(1))
      BY <2>1, <2>4 DEF ApplyFault
    <3>2. QED
      BY <2>1, <2>4, <3>1, BuiltHasNoError, EmptiedIsWarnedOf
  <2>5. QED
    BY <2>1, <2>3, <2>4 DEF ValidateBundle, Classify
<1>2. QED
  BY <1>1, ConversionInvariant, PTL

\* What the worker has once the document is converted.
LEMMA ConvertedIsDivided ==
    ASSUME ConversionInv, stage \in {"converted", "built", "validated", "rejected"}
    PROVE  Divided
BY DEF ConversionInv, Divided

\* The units have every written line of the document, once and in order, however
\* long the document is and wherever it is cut (markdown.go 149).
THEOREM EveryLineIsKept == Spec => []Lossless
<1>1. ConversionInv => Lossless
  BY ConvertedIsDivided, NothingIsLost DEF Lossless, Converted
<1>2. QED
  BY <1>1, ConversionInvariant, PTL

\* Every unit is Markdown on its own: no cut is inside a code block (markdown.go 18).
THEOREM UnitsStandAlone == Spec => []UnitsSelfContained
<1>1. ConversionInv => UnitsSelfContained
  BY ConvertedIsDivided, PiecesAreSelfContained DEF UnitsSelfContained, Converted
<1>2. QED
  BY <1>1, ConversionInvariant, PTL

\* A Markdown document is divided by the highest level that divides it, at every
\* heading of that level (markdown.go 11).
THEOREM TheHighestLevelDivides == Spec => []HighestLevelDivides
<1>1. ConversionInv => HighestLevelDivides
  BY ConvertedIsDivided, UnitsBeginAtHeadings DEF HighestLevelDivides, Converted
<1>2. QED
  BY <1>1, ConversionInvariant, PTL

\* A document without divisions is valid, without warnings (validator.go 15).
THEOREM OneUnitDocumentIsValid == Spec => []OneUnitIsValid
<1>1. \A i \in 1 .. 1 : i = 1
  OBVIOUS
<1>2. ConversionInv => OneUnitIsValid
  <2> SUFFICES ASSUME ConversionInv, stage \in {"validated", "rejected"}, fault = "",
                      document.filename = "plain", Len(conversion.concepts) = 1,
                      Cardinality(Written(Source)) > 1 \/ ~IsHeading(Source[1])
               PROVE  validation.status = "valid"
    BY DEF OneUnitIsValid, Validated
  <2>1. /\ IsSequence(conversion.concepts) /\ Len(conversion.concepts) >= 1
        /\ conversion.filename = "plain"
        /\ bundle = BuildBundle(conversion) /\ validation = ValidateBundle(bundle)
    BY DEF ConversionInv, ApplyFault
  <2>2. HasBody(conversion.concepts[1].content)
    BY ConvertedIsDivided, OneUnitIsTheDocument, DocumentHasBody
  <2>3. DOMAIN conversion.concepts = 1 .. Len(conversion.concepts)
    BY ConvertedIsDivided, UnitsAreLaid
  <2>4. \A i \in DOMAIN conversion.concepts : HasBody(conversion.concepts[i].content)
    <3>1. DOMAIN conversion.concepts = 1 .. 1
      BY <2>3, Zenon
    <3>2. ASSUME NEW i \in DOMAIN conversion.concepts PROVE i = 1
      BY <1>1, <3>1, Zenon
    <3>3. QED
      BY <2>2, <3>2, Zenon
  <2>5. Errors(bundle) = {} /\ Warnings(bundle) = {}
    BY <2>1, <2>4, BuiltHasNoError, BuiltWarnings
  <2>6. QED
    BY <2>1, <2>5 DEF ValidateBundle, Classify
<1>3. QED
  BY <1>2, ConversionInvariant, PTL
===============================================================================
