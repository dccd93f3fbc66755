------------------------------- MODULE Conversion -------------------------------
(***************************************************************************)
(* The conversion of one document by the worker, from its lines to the files *)
(* that are packaged (worker main.go 706-885).  The worker does all of it in *)
(* one goroutine, in memory, between loading the document and the first      *)
(* upload; module Worker has only its outcome.                               *)
(***************************************************************************)
EXTENDS Bundles

CONSTANTS
    Texts,        \* the texts a document may have
    Faults        \* what OKF_FAULT_INJECTION may ask for, "" for nothing

ASSUME TextsAssumption == Texts \subseteq Seq(Lines)

VARIABLES
    document,     \* [format, filename, text], as loaded
    stage,        \* how far the worker is
    fault,        \* OKF_FAULT_INJECTION of the worker that builds the bundle
    conversion,   \* the result of Convert
    bundle,
    validation

vars == <<document, stage, fault, conversion, bundle, validation>>

Nothing == [none |-> TRUE]

Documents ==
    [format : {"markdown", "plaintext"}, filename : {"plain", "link"},
     text : {Placed(text) : text \in Texts}]

Init ==
    /\ document \in Documents
    /\ stage = "loaded"
    /\ fault = ""
    /\ conversion = Nothing /\ bundle = Nothing /\ validation = Nothing

-------------------------------------------------------------------------------
\* The units of a document; a plain text is one unit, whatever it looks like.
Units ==
    LET text == Trimmed(document.text)
    IN  IF document.format = "markdown" THEN SegmentMarkdown(document.filename, text)
        ELSE <<[title |-> document.filename, content |-> text]>>

\* A document without text fails the job.
Convert ==
    /\ stage = "loaded"
    /\ IF Written(document.text) = {}
       THEN stage' = "failed" /\ UNCHANGED conversion
       ELSE stage' = "converted"
            /\ conversion' = [filename |-> document.filename, concepts |-> Units]
    /\ UNCHANGED <<document, fault, bundle, validation>>

Build ==
    /\ stage = "converted"
    /\ stage' = "built"
    /\ fault' \in Faults
    /\ bundle' = ApplyFault(BuildBundle(conversion), fault')
    /\ UNCHANGED <<document, conversion, validation>>

\* An invalid bundle fails the job, before anything is stored.
Validate ==
    /\ stage = "built"
    /\ validation' = ValidateBundle(bundle)
    /\ stage' = IF IsPublishable(validation') THEN "validated" ELSE "rejected"
    /\ UNCHANGED <<document, fault, conversion, bundle>>

\* The zip has the files of the bundle as they are from here on.
Package ==
    /\ stage = "validated"
    /\ stage' = "packaged"
    /\ bundle' = AppendValidationLog(bundle)
    /\ UNCHANGED <<document, fault, conversion, validation>>

Next == Convert \/ Build \/ Validate \/ Package

Spec == Init /\ [][Next]_vars

-------------------------------------------------------------------------------
(* Properties *)

Converted == stage = "converted"
Source == Trimmed(document.text)

\* "The conversion would lose content of the original" (markdown.go 149): the
\* units have every written line of the document, once and in order, wherever
\* the document is cut and whatever precedes its first heading.
Lossless ==
    Converted =>
        LET units == conversion.concepts
            spots == UNION {{u} \X Written(units[u].content) : u \in DOMAIN units}
            at(s) == units[s[1]].content[s[2]].at
            precedes(s, t) == s[1] < t[1] \/ (s[1] = t[1] /\ s[2] < t[2])
        IN  /\ {at(s) : s \in spots} = Written(document.text)
            /\ \A s, t \in spots : precedes(s, t) => at(s) < at(t)

\* Every unit is Markdown on its own (markdown.go 18): a line of it is in a code
\* block there exactly if it is in one, of the same kind, in the document; so
\* nothing is cut inside a code block and no block of one unit swallows another.
UnitsSelfContained ==
    Converted => \A u \in Range(conversion.concepts) : \A i \in DOMAIN u.content :
        \E j \in DOMAIN Source :
            /\ u.content[i].at = Source[j].at
            /\ FenceBefore(u.content)[i] = FenceBefore(Source)[j]

\* The document is divided by the highest level that divides it (markdown.go 11):
\* the least one with a heading below the first line and outside code blocks;
\* a unit begins at the first line and at every heading of that level, nowhere else.
HighestLevelDivides ==
    (Converted /\ document.format = "markdown") =>
        LET at(l) == {i \in DOMAIN Source : /\ IsHeading(Source[i]) /\ Source[i].level = l
                                           /\ FenceBefore(Source)[i] = "none"}
            dividing == {l \in 1 .. maxHeadingLevel : at(l) \ {1} # {}}
            begins == {1} \cup (IF dividing = {} THEN {} ELSE at(Min(dividing)))
            units == conversion.concepts
        IN  /\ Len(units) = Cardinality(begins)
            /\ {u.content[1].at : u \in Range(units)} = {Source[i].at : i \in begins}

Validated == stage \in {"validated", "rejected"}

\* A document the worker converted without an injected fault makes a bundle that
\* is published, whatever its titles contain (bundle.go 31); only the name of its
\* file is taken as it is.
ConvertedIsPublishable ==
    (Validated /\ fault = "" /\ document.filename = "plain") => IsPublishable(validation)

\* index.md leads, in order, to the files of the units, and these have their text.
IndexLeadsToUnits ==
    (stage = "built" /\ fault = "" /\ document.filename = "plain") =>
        LET links == FileOf(bundle, Index).links  units == conversion.concepts
        IN  /\ Len(links) = Len(units)
            /\ \A i \in DOMAIN units :
                /\ links[i].target \in Names(bundle)
                /\ FileOf(bundle, links[i].target).text = units[i].content

\* Each injected fault has the verdict the demonstration is made for (fault.go 7):
\* an incomplete bundle is never published, one with an empty unit is published
\* with a warning.
FaultsDetected ==
    Validated =>
        /\ fault \in {"drop-index", "drop-log"} => validation.status = "invalid"
        /\ (fault = "empty-concept" /\ document.filename = "plain") =>
               validation.status = "valid_with_warnings"

\* A short document without divisions is valid, without warnings (validator.go 15),
\* unless a heading is all it has.
OneUnitIsValid ==
    (/\ Validated /\ fault = "" /\ document.filename = "plain"
     /\ Len(conversion.concepts) = 1
     /\ (Cardinality(Written(Source)) > 1 \/ ~IsHeading(Source[1])))
        => validation.status = "valid"

\* What is packaged has the verdict that is stored with it: the text added to
\* log.md after the validation changes nothing it checked (bundle.go 168).
VerdictStable ==
    stage = "packaged" => ValidateBundle(bundle) = validation
===============================================================================
