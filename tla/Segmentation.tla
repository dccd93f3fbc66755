------------------------------ MODULE Segmentation ------------------------------
(***************************************************************************)
(* markdown.go: the lines of a document, and how it is cut into units.      *)
(*                                                                          *)
(* A line is what the code tells apart: blank, text, a fence of one of the  *)
(* two kinds, a heading, or a heading indented by four spaces, which is     *)
(* code.  Any line that begins with ``` is a "ticks" line, whatever follows,*)
(* because the code looks at that prefix only.  "at" is the line's place in *)
(* the document, 0 for a line the code writes: what is lost, doubled or      *)
(* moved can be said of the places.                                         *)
(***************************************************************************)
EXTENDS Naturals, Sequences, FiniteSets, SequencesExt

maxHeadingLevel == 3

Lines == [kind : {"blank", "text", "ticks", "tildes", "heading", "indented"},
          level : 0 .. 6, title : {"none", "plain", "link"}, at : Nat]

Plain(kind) == [kind |-> kind, level |-> 0, title |-> "none", at |-> 0]
Heading(level, title) == [kind |-> "heading", level |-> level, title |-> title, at |-> 0]
Indented(level, title) == [Heading(level, title) EXCEPT !.kind = "indented"]
Placed(text) == [i \in DOMAIN text |-> [text[i] EXCEPT !.at = i]]

IsBlank(line) == line.kind = "blank"
IsHeading(line) == line.kind = "heading"

-------------------------------------------------------------------------------
(* strings.TrimSpace over several lines. *)

\* The first line loses its indentation: code becomes a heading.
Unindented(line) == IF line.kind = "indented" THEN [line EXCEPT !.kind = "heading"] ELSE line

\* The last line loses its trailing space: "# " becomes "#", which is text.
Shortened(line) ==
    IF IsHeading(line) /\ line.title = "none"
    THEN [line EXCEPT !.kind = "text", !.level = 0] ELSE line

Written(text) == {i \in DOMAIN text : ~IsBlank(text[i])}

Trimmed(text) ==
    IF Written(text) = {} THEN <<>>
    ELSE LET first == Min(Written(text))  last == Max(Written(text))
             body == [text EXCEPT ![first] = Unindented(@)]
         IN  SubSeq([body EXCEPT ![last] = Shortened(@)], first, last)

-------------------------------------------------------------------------------
(* scanMarkdown *)

\* A block ends at the next line with the prefix that opened it, and only there.
FenceAfter(open, line) ==
    IF open # "none" THEN IF line.kind = open THEN "none" ELSE open
    ELSE IF line.kind \in {"ticks", "tildes"} THEN line.kind ELSE "none"

\* The fence that is open before each line.
FenceBefore(text) ==
    LET fence[i \in 1 .. Len(text) + 1] ==
        IF i = 1 THEN "none" ELSE FenceAfter(fence[i - 1], text[i - 1])
    IN  fence

\* Mutant of HeadingLevel: headings in code blocks count.
HeadingLevelAnywhere(text) == [i \in DOMAIN text |-> IF IsHeading(text[i]) THEN text[i].level ELSE 0]

\* The level of each line's heading, 0 without one and inside a code block.
HeadingLevel(text) ==
    LET fence == FenceBefore(text)
    IN  [i \in DOMAIN text |-> IF fence[i] = "none" /\ IsHeading(text[i]) THEN text[i].level ELSE 0]

-------------------------------------------------------------------------------
(* segmentMarkdown; a unit has the text of its file and the title it gets. *)

\* documentTitle: the first heading with a title, or else the file's name.
DocumentTitle(filename, text) ==
    LET level == HeadingLevel(text)
        titled == {i \in DOMAIN text : level[i] > 0 /\ text[i].title # "none"}
    IN  IF titled = {} THEN filename ELSE text[Min(titled)].title

\* Mutant of Sections: the last unit loses its last line.
SectionsShort(text, starts) ==
    LET nth(i) == CHOOSE s \in starts : Cardinality({t \in starts : t <= s}) = i
        end(i) == IF i < Cardinality(starts) THEN nth(i + 1) ELSE Len(text)
    IN  [i \in 1 .. Cardinality(starts) |->
            [title |-> text[nth(i)].title, content |-> Trimmed(SubSeq(text, nth(i), end(i) - 1))]]

\* One unit per heading, up to the next of them or the end of the text.
Sections(text, starts) ==
    LET nth(i) == CHOOSE s \in starts : Cardinality({t \in starts : t <= s}) = i
        end(i) == IF i < Cardinality(starts) THEN nth(i + 1) - 1 ELSE Len(text)
    IN  [i \in 1 .. Cardinality(starts) |->
            [title |-> text[nth(i)].title, content |-> Trimmed(SubSeq(text, nth(i), end(i)))]]

\* What precedes the first heading is a unit of its own, unless it is blank.
SplitByLevel(filename, text, level) ==
    LET starts == {i \in DOMAIN text : HeadingLevel(text)[i] = level}
        before == SubSeq(text, 1, Min(starts) - 1)
        preamble == [title |-> DocumentTitle(filename, before), content |-> Trimmed(before)]
    IN  IF starts = {} THEN <<>>
        ELSE (IF preamble.content = <<>> THEN <<>> ELSE <<preamble>>) \o Sections(text, starts)

\* Mutant of DividingLevels: the first level that occurs, dividing or not.
LevelsThatOccur(filename, text) ==
    {l \in 1 .. maxHeadingLevel : Len(SplitByLevel(filename, text, l)) >= 1}

DividingLevels(filename, text) ==
    {l \in 1 .. maxHeadingLevel : Len(SplitByLevel(filename, text, l)) >= 2}

\* The level segmentMarkdown divides by, or 0.
Level(filename, text) ==
    LET levels == DividingLevels(filename, text) IN IF levels = {} THEN 0 ELSE Min(levels)

SegmentMarkdown(filename, text) ==
    LET level == Level(filename, text)
    IN  IF level > 0 THEN SplitByLevel(filename, text, level)
        ELSE <<[title |-> DocumentTitle(filename, text), content |-> text]>>
===============================================================================
