-------------------------- MODULE MCDocstringLayout --------------------------
(***************************************************************************)
(* Docstrings of up to three lines, and some longer ones, for              *)
(* DocstringLayout, under all rules but the opposites of some, and under   *)
(* all of these but one.                                                   *)
(***************************************************************************)
EXTENDS DocstringLayout

LongShapes ==
    {<<"text", "blank", "blank", "head", "entry", "blank", "entry">>,
     <<"text", "head", "blank", "entry", "blank", "list", "blank">>,
     <<"blank", "text", "list", "text", "head", "text", "blank", "blank", "head", "entry">>}

Shapes ==
    {shape \in UNION {[1..n -> ContentKinds \cup {"blank"}] : n \in 1..3} \cup LongShapes :
        \A i \in DOMAIN shape : shape[i] = "entry" => \E h \in 1..(i - 1) : shape[h] = "head"}

\* Neat: nothing before the margin, nothing trailing.  Untidy: odd whitespace
\* everywhere.
MCLead(kind, i, neat, margin) ==
    IF kind = "entry" THEN "other"
    ELSE IF kind = "blank" \/ i = 1 THEN IF neat THEN "none" ELSE "other"
    ELSE margin

MCTrail(i, neat) ==
    IF neat THEN "none" ELSE IF i = 2 THEN "tab+break" ELSE IF i = 3 THEN "tab" ELSE "break"

MCLine(kind, i, neat, margin) ==
    IF kind = "blank" THEN BlankLine(MCLead(kind, i, neat, margin))
    ELSE [kind |-> kind, id |-> i, lead |-> MCLead(kind, i, neat, margin), trail |-> MCTrail(i, neat)]

MCLayouts ==
    {[lines |-> [i \in DOMAIN shape |-> MCLine(shape[i], i, neat, margin)], newline |-> newline] :
        shape \in Shapes, neat \in BOOLEAN, margin \in {"none", "margin"}, newline \in BOOLEAN}

Settings(selected, margin, aligned, lastBlank, fits, tight) ==
    [selected |-> selected, margin |-> margin, aligned |-> aligned,
     lastBlank |-> lastBlank, fits |-> fits, tight |-> tight]

\* One of each pair of opposites.
Whole == {Rules \ {opening, closing} : opening \in {106, 107}, closing \in {108, 109}}

MCSetups ==
    {Settings(selected, margin, aligned, lastBlank, TRUE, FALSE) :
        selected \in Whole \cup {Rules \ {106}}, margin \in {"none", "margin"},
        aligned \in BOOLEAN, lastBlank \in BOOLEAN}
      \cup {Settings(selected, "margin", FALSE, lastBlank, fits, ~fits) :
              selected \in Whole, lastBlank \in BOOLEAN, fits \in BOOLEAN}
      \cup {Settings(selected \ {r}, "margin", TRUE, lastBlank, TRUE, FALSE) :
              selected \in Whole, r \in Rules, lastBlank \in BOOLEAN}
=============================================================================
