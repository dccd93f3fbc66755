------------------------------ MODULE MCConversion ------------------------------
(* Short documents of every kind of line, and longer ones of code blocks within *)
(* code blocks.                                                                 *)
EXTENDS Conversion

MCLines ==
    {Plain("blank"), Plain("text"), Plain("ticks"), Plain("tildes"),
     Heading(1, "plain"), Heading(1, "none"), Heading(2, "plain"), Heading(3, "link"),
     Heading(4, "plain"), Indented(1, "plain")}

MCCodeLines == {Plain("ticks"), Plain("tildes"), Heading(1, "plain"), Heading(2, "plain")}

MCTexts == BoundedSeq(MCLines, 4) \cup [1 .. 5 -> MCCodeLines] \cup [1 .. 6 -> MCCodeLines]
===============================================================================
