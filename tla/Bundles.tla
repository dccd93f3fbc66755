-------------------------------- MODULE Bundles ---------------------------------
(***************************************************************************)
(* bundle.go, fault.go and validator.go: the files of a bundle.             *)
(*                                                                          *)
(* A file has a name, its lines, and the Markdown links a reader of it      *)
(* finds; only those of index.md matter.  A link has a label and a target.  *)
(***************************************************************************)
EXTENDS Segmentation

Index == <<"index", 0>>
Log == <<"log", 0>>
ConceptFilename(position) == <<"concept", position>>
External == <<"external", 0>>   \* the target of a link that leaves the bundle
Unknown == <<"unknown", 0>>     \* a target that names no file of any bundle

Prose == <<Plain("text")>>      \* the lines the code itself writes

-------------------------------------------------------------------------------
(* BuildBundle.  Titles and file names are "plain", or "link" when they      *)
(* contain the syntax of a link; a heading may have no title ("none").       *)

\* Mutant of IndexLabel: the title as it is.
IndexLabelRaw(title) == title

\* The syntax of links is taken out of the title, and something always remains.
IndexLabel(title) == IF title = "none" THEN "untitled unit" ELSE "plain"

\* What the reader finds of "[label](target)": a link inside the label hides it.
LinkFound(label, target) ==
    IF label = "link" THEN [label |-> "plain", target |-> External]
    ELSE [label |-> label, target |-> target]

\* index.md begins with the name of the source document, as it is.
LinksOfName(filename) ==
    IF filename = "link" THEN <<[label |-> "plain", target |-> Unknown]>> ELSE <<>>

\* Mutant of Navigation: positions counted from 0.
NavigationFromZero(concepts) ==
    [i \in DOMAIN concepts |-> LinkFound(IndexLabel(concepts[i].title), ConceptFilename(i - 1))]

Navigation(concepts) ==
    [i \in DOMAIN concepts |-> LinkFound(IndexLabel(concepts[i].title), ConceptFilename(i))]

BuildBundle(conversion) ==
    LET concepts == conversion.concepts
    IN  [files |->
            <<[name |-> Index, text |-> Prose,
               links |-> LinksOfName(conversion.filename) \o Navigation(concepts)],
              [name |-> Log, text |-> Prose, links |-> <<>>]>>
            \o [i \in DOMAIN concepts |->
                   [name |-> ConceptFilename(i), text |-> concepts[i].content, links |-> <<>>]],
         conceptCount |-> Len(concepts)]

-------------------------------------------------------------------------------
(* The files by name: each loop over them stops at the first with the name. *)

Names(bundle) == {bundle.files[i].name : i \in DOMAIN bundle.files}

Position(bundle, name) == Min({i \in DOMAIN bundle.files : bundle.files[i].name = name})

FileOf(bundle, name) == bundle.files[Position(bundle, name)]

-------------------------------------------------------------------------------
(* ApplyFault *)

Without(bundle, name) ==
    IF name \notin Names(bundle) THEN bundle
    ELSE [bundle EXCEPT !.files = RemoveAt(@, Position(bundle, name))]

Emptied(bundle, name) ==
    IF name \notin Names(bundle) THEN bundle
    ELSE [bundle EXCEPT !.files[Position(bundle, name)].text = <<>>]

ApplyFault(bundle, fault) ==
    CASE fault = "drop-index" -> Without(bundle, Index)
      [] fault = "drop-log" -> Without(bundle, Log)
      [] fault = "empty-concept" -> Emptied(bundle, ConceptFilename(1))
      [] OTHER -> bundle

-------------------------------------------------------------------------------
(* ValidateBundle: a finding is its kind and the file it is about. *)

\* The links of the index that should lead to a file.
InnerLinks(bundle) ==
    IF Index \notin Names(bundle) THEN {}
    ELSE {link \in Range(FileOf(bundle, Index).links) : link.target # External}

Linked(bundle) == {link.target : link \in InnerLinks(bundle)}
Concepts(bundle) == {ConceptFilename(i) : i \in 1 .. bundle.conceptCount}

\* Mutant of HasBody: the first line never counts, heading or not.
HasBodyBelow(text) == Trimmed(text) # <<>> /\ Written(Tail(Trimmed(text))) # {}

\* conceptBody: the heading a concept begins with is not its content.
HasBody(text) ==
    LET trimmed == Trimmed(text)
    IN  trimmed # <<>> /\ (IsHeading(trimmed[1]) => Written(Tail(trimmed)) # {})

Findings(kind, names) == {<<kind, name>> : name \in names}

\* Mutant of Errors: the files are not looked for when the index has a link to them.
ErrorsLinkedOnly(bundle) ==
    Findings("missing", (Concepts(bundle) \cup {Index, Log}) \ (Names(bundle) \cup Linked(bundle) \cup {Log}))

Errors(bundle) ==
    LET files == bundle.files  names == Names(bundle)
    IN  Findings("duplicate", {files[j].name : j \in
                {k \in DOMAIN files : \E i \in 1 .. k - 1 : files[i].name = files[k].name}})
        \cup (IF bundle.conceptCount < 1 THEN {<<"no concept", Index>>} ELSE {})
        \cup Findings("missing", (Concepts(bundle) \cup {Index, Log}) \ names)
        \cup Findings("empty", {n \in {Index} \cap names : Written(FileOf(bundle, n).text) = {}})
        \cup Findings("dangling", Linked(bundle) \ names)
        \cup (IF Index \notin names THEN {}
              ELSE Findings("unlinked", (Concepts(bundle) \cap names) \ Linked(bundle)))

Warnings(bundle) ==
    LET names == Names(bundle)
    IN  Findings("empty log", {n \in {Log} \cap names : Written(FileOf(bundle, n).text) = {}})
        \cup Findings("untitled", {link.target : link \in {l \in InnerLinks(bundle) : l.label = "none"}})
        \cup Findings("no body", {n \in Concepts(bundle) \cap names : ~HasBody(FileOf(bundle, n).text)})
        \cup Findings("unreferenced", names \ (Concepts(bundle) \cup Linked(bundle) \cup {Index, Log}))

Classify(errors, warnings) ==
    [status |-> IF errors # {} THEN "invalid"
                ELSE IF warnings # {} THEN "valid_with_warnings" ELSE "valid",
     errors |-> errors, warnings |-> warnings]

ValidateBundle(bundle) == Classify(Errors(bundle), Warnings(bundle))

IsPublishable(validation) == validation.status # "invalid"

\* Mutant of AppendValidationLog: a new log.md beside the one that is there.
AppendValidationFile(bundle) ==
    [bundle EXCEPT !.files = Append(@, [name |-> Log, text |-> Prose, links |-> <<>>])]

\* AppendValidationLog: more lines at the end of log.md, if there is one.
AppendValidationLog(bundle) ==
    IF Log \notin Names(bundle) THEN bundle
    ELSE [bundle EXCEPT !.files[Position(bundle, Log)].text = @ \o Prose]
===============================================================================
