------------------------------ MODULE MCFixLoop ------------------------------
(***************************************************************************)
(* Three rules in two categories over three texts, with every behaviour of *)
(* the hooks that these outcomes allow.                                    *)
(***************************************************************************)
EXTENDS FixLoop, TLC

CONSTANTS A, B, C

MCSources == {A, B, C}

MCLineEndingOf == [s \in Sources |-> "lf"]

\* Rules 1 and 2 share the category that may fail to prepare.
MCCategoryOf == [r \in 1..3 |-> IF r < 3 THEN "PCF" ELSE "PDF"]

Plain(kind) == [kind |-> kind, to |-> None]
Fix(s) == [kind |-> "fixes", to |-> s]

InLf(f) == [situation \in Situations |-> f[situation[1]]]

\* The first rule may fix anything, and claim a fix that changes nothing.
First == [Sources -> {Plain("clean")} \cup {Fix(s) : s \in Sources}]

\* The second raises, or takes a text back to A.
Second == [Sources -> {Plain("clean"), Plain("raises"), Fix(A)}]

\* The third reports, or takes every text to B; its edits may not apply.
Third == {[s \in Sources |-> o] : o \in {Plain("reports"), Plain("unplannable"), Fix(B)}}

\* A category that cannot be prepared for B, a text C that does not align.
MCHooks ==
    {[outcome  |-> (1 :> InLf(f) @@ 2 :> InLf(g) @@ 3 :> InLf(h)),
      prepares |-> [c \in Categories |-> [situation \in Situations |->
                       c = "PDF" \/ situation[1] # unprepared]],
      aligns   |-> [s \in Sources |-> s # misaligned]] :
         f \in First, g \in Second, h \in Third,
         unprepared \in {None, B}, misaligned \in {None, C}}
=============================================================================
