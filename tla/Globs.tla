-------------------------------- MODULE Globs --------------------------------
(***************************************************************************)
(* utils/globs.py: patterns matched against a path relative to a base      *)
(* directory.  Paths and patterns are sequences of segments; which segment *)
(* a single segment of a pattern accepts is fnmatch's business.            *)
(***************************************************************************)
EXTENDS Integers, Sequences, FiniteSets, SequencesExt

CONSTANT Wild    \* segments with wildcards, with the segments they accept

Parent == ".."
AnyDepth == "**"

\* fnmatch.fnmatchcase of one segment.
SegmentMatches(segment, wanted) ==
    IF wanted \in DOMAIN Wild THEN segment \in Wild[wanted] ELSE segment = wanted

\* A pattern without a slash has one segment, and looks at the last segment
\* of a path, or at any.
Pattern(segments, hasSlash) == [segments |-> segments, hasSlash |-> hasSlash]

BareMatches(path, pattern, parentsToo) ==
    \E i \in IF parentsToo THEN DOMAIN path ELSE {Len(path)} :
       SegmentMatches(path[i], pattern.segments[1])

\* _match_segment_glob, whose two indices are the arguments of matches.
SlashMatches(path, pattern, descendantsToo) ==
    LET wanted == pattern.segments
        matches[i \in 1..Len(path) + 1, j \in 1..Len(wanted) + 1] ==
          IF j > Len(wanted) THEN descendantsToo \/ i > Len(path)
          ELSE IF wanted[j] = AnyDepth
               THEN \/ matches[i, j + 1]
                    \/ i <= Len(path) /\ matches[i + 1, j]
               ELSE /\ i <= Len(path)
                    /\ SegmentMatches(path[i], wanted[j])
                    /\ matches[i + 1, j + 1]
    IN  matches[1, 1]

\* GlobPatternSet.matches
AnyMatches(path, patterns, parentsToo, descendantsToo) ==
    /\ path # <<>>
    /\ \E p \in patterns :
          /\ p.segments # <<>>
          /\ IF p.hasSlash THEN SlashMatches(path, p, descendantsToo)
                           ELSE BareMatches(path, p, parentsToo)

\* base_relative_posix_path, of normalised absolute paths
RelativePath(path, base) ==
    LET shared == CHOOSE n \in 0..Len(base) :
                     /\ IsPrefix(SubSeq(base, 1, n), path)
                     /\ n = Len(base) \/ ~IsPrefix(SubSeq(base, 1, n + 1), path)
    IN  [i \in 1..Len(base) - shared |-> Parent] \o SubSeq(path, shared + 1, Len(path))

MatchesUnder(path, base, pattern) == AnyMatches(RelativePath(path, base), {pattern}, FALSE, FALSE)
=============================================================================
