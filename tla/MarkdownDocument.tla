--------------------------- MODULE MarkdownDocument ---------------------------
(***************************************************************************)
(* What formatting promises of a Markdown document: it is replaced at      *)
(* once, in the bodies of its Python blocks only, or it stays and no fix   *)
(* is claimed.                                                             *)
(***************************************************************************)
EXTENDS MarkdownFences

CONSTANTS Documents   \* documents that are formatted

VARIABLES
    document,  \* the document as its reader has it
    claimed    \* fixes that were reported, 0 while it is being formatted

vars == <<document, claimed>>

Init == document \in Documents /\ claimed = 0

\* The lines between a fence and the next one, its closing line and the opening
\* line of the next one included, and the lines inside a fence.
Between(doc, i) ==
    LET fences == Fences(doc)
    IN  SubSeq(doc, IF i = 0 THEN 1 ELSE fences[i].close,
                    IF i = Len(fences) THEN Len(doc) ELSE fences[i + 1].open)

Inside(doc, i) == SubSeq(doc, Fences(doc)[i].open + 1, Fences(doc)[i].close - 1)

SameButForPython(doc, new) ==
    /\ Len(Fences(new)) = Len(Fences(doc))
    /\ \A i \in 0..Len(Fences(doc)) : Between(new, i) = Between(doc, i)
    /\ \A i \in DOMAIN Fences(doc) :
         ~IsTarget(doc, Fences(doc)[i]) => Inside(new, i) = Inside(doc, i)

Replace ==
    /\ SameButForPython(document, document')
    /\ claimed' \in Nat
    /\ document' = document => claimed' = 0

Next == Replace

Spec == Init /\ [][Next]_vars
=============================================================================
