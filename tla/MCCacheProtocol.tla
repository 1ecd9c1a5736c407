--------------------------- MODULE MCCacheProtocol ---------------------------
(***************************************************************************)
(* Small worlds for CacheProtocol.                                         *)
(***************************************************************************)
EXTENDS CacheProtocol, TLC

\* "dirty" has one fixable finding and its fix is "clean", of the same size;
\* "broken" does not parse.
MCContents == {"empty", "dirty", "clean", "broken"}

\* Enough for the histories of retention.
MCFewContents == {"empty", "clean"}

MCSizeOf == [c \in Contents |-> IF c = "empty" THEN 0 ELSE 2]

MCFirstEnding == [c \in Contents |-> "lf"]

MCEndings == {"lf"}

CONSTANTS i1, i2, e1, e2

\* Engine e2 added a rule that "clean" violates, and what is clean in a
\* private module lacks a docstring in a public one.
MCVerdict ==
    [input \in Inputs |->
        CASE input[4] = "empty"  -> "clean"
          [] input[4] = "dirty"  -> "findings"
          [] input[4] = "broken" -> "error"
          [] input[4] = "clean"  -> IF input[1] = e1 /\ input[3] = "private"
                                    THEN "clean" ELSE "findings"]

MCRewrite ==
    [input \in Inputs |->
        [source |-> IF input[4] = "dirty" THEN "clean" ELSE input[4],
         failed |-> input[4] = "broken"]]

MCConfiguredEnding == [a \in Analyses |-> "auto"]

Launch(modes) == [engine : Engines, analysis : Analyses, mode : modes]

\* One invocation that fixes and one that checks.
MCFixAndCheck == (i1 :> Launch({"fix"})) @@ (i2 :> Launch({"check"}))

\* One invocation after the other, in any mode.
MCOneByOne == i1 :> Launch(Modes)

(***************************************************************************)
(* Histories of one invocation after the other are of one of two kinds:    *)
(* files and their packages change but days and engines do not, or days    *)
(* and engines do but the package and the mtime of the file do not.        *)
(***************************************************************************)

MCRows == {rows[k] : k \in {l \in Keys : rows[l] # None}}
MCRuns == {run[i] : i \in {j \in Invocations : run[j] # None}}

OneDayOneEngine ==
    /\ today = 0 /\ engineDay[e2] = None
    /\ {pruneDay, engineDay[e1]} \subseteq {None, 0}
    /\ \A row \in MCRows : row.day = 0
    /\ \A r \in MCRuns : r.engine = e1

OnePackageOneMtime ==
    /\ \A f \in Files : marker[f] = "private" /\ mtime[f] = 0 /\ disk[f] \in MCFewContents
    /\ \A row \in MCRows : row.context = "private" /\ row.mtime \in {None, 0} /\ row.content \in MCFewContents
    /\ \A r \in MCRuns : r.mode = "check" /\ r.context = [f \in Files |-> "private"]

OneWorldOrTheOther == OneDayOneEngine \/ OnePackageOneMtime
=============================================================================
