--------------------------- MODULE MCMarkdownRewrite ---------------------------
(***************************************************************************)
(* Documents of up to two fences for MarkdownRewrite: backticks and        *)
(* tildes, indented or not, Python, skipped, foreign and unclosed, with    *)
(* bodies that hold fences of their own in a string.                       *)
(***************************************************************************)
EXTENDS MarkdownRewrite

Line(indent, text) == [indent |-> indent, text |-> text]

Code == Line(0, Plain("code"))
Empty == Line(0, Plain("empty"))
Broken == Line(0, Plain("broken"))
Ticks == Fence("backtick", 3, "none")

MCBodies ==
    {<<>>, <<Code>>, <<Line(4, Ticks)>>, <<Line(2, Ticks), Code>>,
     <<Empty, Code>>, <<Line(1, Fence("tilde", 3, "python"))>>}

MCUnparsable == {<<Broken>>}

Openings ==
    {Line(0, Fence("backtick", 3, "python")), Line(2, Fence("tilde", 3, "python")),
     Line(1, Fence("backtick", 4, "skip"))}

Closing(opening) == Line(0, [opening.text EXCEPT !.info = "none"])

Block(opening, body) == <<opening>> \o body \o <<Closing(opening)>>

OldBodies == {<<>>, <<Code>>, <<Line(1, Plain("code")), Line(6, Ticks)>>, <<Broken>>}

MCDocuments ==
    {Block(o, b) \o <<Code>> \o Block(p, c) :
        o \in Openings, b \in OldBodies,
        p \in {Line(2, Fence("tilde", 3, "python"))}, c \in {<<Code>>, <<Broken>>}}
      \cup {Block(o, b) \o <<Code, Line(0, Fence("tilde", 3, info)), Code>> :
              o \in Openings, b \in OldBodies, info \in {"python", "tick"}}
      \cup {<<Line(4, Ticks), Line(0, Fence("backtick", 3, "tick"))>> \o Block(o, b) :
              o \in Openings, b \in OldBodies}

MCFindingSets == {{}, {1}}
=============================================================================
