--------------------------- MODULE MCFileSelection ---------------------------
(* A directory with a package, a cache and a symlink to a directory outside. *)
EXTENDS FileSelection

MCDirectories == {"r", "r/a", "r/a/b", "r/cache", "r/link", "o"}

\* r/a/w.py and r/a/b/x.py are links to r/x.py; the last two are arguments only.
MCPaths == {"r/x.py", "r/a/w.py", "r/a/b/x.py", "r/y.py", "r/cache/c.py", "o/z.py", "./r/x.py", "r/a/../y.py", "gone.py"}

MCFiles == {"X", "Y", "C", "Z", "gone"}

MCPhysical == [p \in MCPaths |->
    CASE p \in {"r/x.py", "r/a/w.py", "r/a/b/x.py", "./r/x.py"} -> "X"
      [] p \in {"r/y.py", "r/a/../y.py"} -> "Y"
      [] p = "r/cache/c.py" -> "C"
      [] p = "o/z.py" -> "Z"
      [] OTHER -> "gone"]

MCDisplayPath == [p \in MCPaths |->
    CASE p = "./r/x.py" -> "r/x.py" [] p = "r/a/../y.py" -> "r/y.py" [] OTHER -> p]

MCScore == [p \in MCPaths |->
    CASE p \in {"r/x.py", "./r/x.py"} -> 1 [] p \in {"r/y.py", "r/a/../y.py"} -> 2
      [] p = "r/a/w.py" -> 3 [] p = "r/a/b/x.py" -> 4 [] OTHER -> 5]

MCSubDirectories == [d \in MCDirectories |->
    CASE d = "r" -> <<"r/a", "r/cache", "r/link">> [] d = "r/a" -> <<"r/a/b">> [] OTHER -> <<>>]

MCEntries == [d \in MCDirectories |->
    CASE d = "r" -> <<"r/x.py", "r/y.py">>
      [] d = "r/a" -> <<"r/a/w.py">>
      [] d = "r/a/b" -> <<"r/a/b/x.py">>
      [] d = "r/cache" -> <<"r/cache/c.py">>
      [] d \in {"r/link", "o"} -> <<"o/z.py">>]

MCCommandLines == {
    <<"r">>, <<"r/a", "r">>, <<"r/a/b/x.py", "r/a">>, <<"gone.py", "r/a", "./r/x.py", "r/y.py">>,
    <<"r/a/b", "r/link", "gone.py", "gone.py">>, <<"r/x.py", "r/cache", "r/a/w.py">>,
    <<"r/y.py", "r", "r/a/../y.py">>}

Plain == [broken |-> {}, roots |-> {}, pruned |-> {}, cache |-> {}, included |-> MCPaths,
          excluded |-> {}, forced |-> {}, worktree |-> MCPaths, ignored |-> {}, respect |-> TRUE]

MCPolicies == {
    Plain,
    [Plain EXCEPT !.cache = {"r/cache"}, !.excluded = {"r/x.py", "r/y.py"}, !.forced = {"r/y.py", "r/a/w.py"}],
    [Plain EXCEPT !.pruned = {"r/cache", "r/a/b"}, !.roots = {"r/link", "r/a/b"}, !.ignored = {"r/x.py", "r/a/w.py"}],
    [Plain EXCEPT !.included = MCPaths \ {"r/x.py"}, !.ignored = {"r/y.py", "r/a/b/x.py"}, !.worktree = MCPaths \ {"r/a/b/x.py"}],
    [Plain EXCEPT !.ignored = MCPaths, !.respect = FALSE, !.excluded = {"r/a/b/x.py"}],
    [Plain EXCEPT !.broken = {"r/a/b", "r/link"}]}
=============================================================================
