--------------------------- MODULE SettingsResolver ---------------------------
(***************************************************************************)
(* settings.py, _SettingsResolutionContext and SettingsResolver: one       *)
(* invocation looks up the settings of directories, one after the other,   *)
(* and keeps what it parsed, found and layered, while somebody edits the   *)
(* configuration files; and cli/check.py, which selects rules from a       *)
(* profile and plans the check of a file.                                  *)
(*                                                                         *)
(* A directory is a sequence of names, a configuration file its directory  *)
(* and name.  Its content is Absent, Broken (not TOML) or [table, section] *)
(* with table "none", "odd" (not a table) or "settings".                   *)
(***************************************************************************)
EXTENDS Settings

CONSTANTS
    Directories,        \* where lookups start, closed under parents
    Files,              \* paths of source files that are checked
    Contents,           \* what an edit may put into a configuration file
    Absent, Broken,
    Invocations,        \* what the command line fixes, with the catalog
    Nothing

VARIABLES
    invocation,  \* [rules, cwd, disk, isolated, options, arguments, overrides],
                 \* and a bound on the edits while it runs, [edits]
    disk,        \* content of each configuration file
    edits,       \* number of edits so far
    parsed,      \* parsed_toml_by_path
    inputs,      \* config_inputs_by_cwd, for the one working directory
    closest,     \* closest_auto_config_by_start_dir
    bySource,    \* profiles_by_source
    byDir,       \* _profiles_by_start_dir
    lookup,      \* the lookup under way, or Nothing
    failures,    \* directories whose last lookup failed
    plans        \* what check plans for a file

vars == <<invocation, disk, edits, parsed, inputs, closest, bySource, byDir, lookup, failures, plans>>

Root == <<>>
ParentOf(dir) == SubSeq(dir, 1, Len(dir) - 1)
Cwd == invocation.cwd
Candidate(dir) == Append(dir, "pyproject.toml")

\* Directories are sequences of names, closed under parents; what was looked
\* up is not Nothing.
SourceFiles ==
    {Nothing} \cup {Candidate(dir) : dir \in Directories}
      \cup UNION {{i.options[k].path : k \in DOMAIN i.options} : i \in Invocations}

ASSUME ResolverAssumption ==
    /\ Directories \subseteq Seq(UNION {ToSet(dir) : dir \in Directories})
    /\ \A dir \in Directories \ {Root} : ParentOf(dir) \in Directories
    /\ Nothing \notin [kind : {"isolated", "explicit", "none", "auto"}, file : SourceFiles]
    /\ Nothing \notin {Candidate(dir) : dir \in Directories} /\ Absent # Broken
    /\ \A i \in Invocations : i.options \in Seq(ToSet(i.options))

\* The rules are those of a collection that was built.
ASSUME RulesAssumption ==
    /\ CategoryOrder \in Seq(ToSet(CategoryOrder))
    /\ \A rules \in {i.rules : i \in Invocations} :
       /\ IsFiniteSet(rules) /\ {r.code[1] : r \in rules} \subseteq ToSet(CategoryOrder)
       /\ ValidCollection({[prefix |-> prefix, rules |-> {r \in rules : r.code[1] = prefix}] :
                              prefix \in ToSet(CategoryOrder)})

NoFunction == [x \in {} |-> Nothing]
Put(f, x, value) == [y \in DOMAIN f \cup {x} |-> IF y = x THEN value ELSE f[y]]

Init ==
    /\ invocation \in Invocations
    /\ disk = invocation.disk
    /\ edits = 0
    /\ parsed = NoFunction /\ inputs = Nothing /\ closest = NoFunction
    /\ bySource = NoFunction /\ byDir = NoFunction
    /\ lookup = Nothing /\ failures = {} /\ plans = NoFunction

\* Somebody writes, replaces or removes a configuration file.
Edit ==
    /\ edits < invocation.edits /\ plans = NoFunction
    /\ edits' = edits + 1
    /\ \E file \in DOMAIN disk : \E content \in Contents :
          /\ content # disk[file]
          /\ disk' = [disk EXCEPT ![file] = content]
    /\ UNCHANGED <<invocation, parsed, inputs, closest, bySource, byDir, lookup, failures, plans>>

-----------------------------------------------------------------------------
(* Reading                                                                 *)

\* load_toml_file: only what could be parsed is kept.
Document(file) == IF file \in DOMAIN parsed THEN parsed[file] ELSE disk[file]
AfterReading(file) ==
    IF file \in DOMAIN parsed \/ disk[file] \in {Absent, Broken} THEN parsed
    ELSE Put(parsed, file, disk[file])

\* config_inputs_for_cwd: an option with an equals sign is inline TOML unless
\* a file has that name.  An option is [path, section], with section Nothing
\* if it has no equals sign.
IsInline(option) == option.section # Nothing /\ disk[option.path] = Absent

PathOptions == {i \in DOMAIN invocation.options : ~IsInline(invocation.options[i])}
InlineOptions ==
    LET options == invocation.options
        inline == {i \in DOMAIN options : IsInline(options[i])}
        place(i) == Cardinality({j \in inline : j <= i})
    IN  [k \in 1..Cardinality(inline) |-> options[CHOOSE i \in inline : place(i) = k]]

InputsRefused ==
    \/ Cardinality(PathOptions) > 1
    \/ invocation.isolated /\ PathOptions # {}

ClassifiedInputs ==
    [inline |-> InlineOptions,
     explicit |-> IF PathOptions = {} THEN Nothing
                  ELSE invocation.options[CHOOSE i \in PathOptions : TRUE].path]

Source(kind, file) == [kind |-> kind, file |-> file]

Fail ==
    /\ failures' = failures \cup {lookup.start}
    /\ lookup' = Nothing
    /\ UNCHANGED <<bySource, byDir>>

-----------------------------------------------------------------------------
(* profile_for_path                                                        *)

Begin(dir) ==
    /\ lookup = Nothing /\ dir \notin DOMAIN byDir \cup failures /\ plans = NoFunction
    /\ lookup' = [start |-> dir, at |-> dir, visited |-> {}, source |-> Nothing]
    /\ UNCHANGED <<invocation, disk, edits, parsed, inputs, closest, bySource, byDir, failures, plans>>

\* A lookup that failed may be made again.
Retry(dir) ==
    /\ lookup = Nothing /\ dir \in failures /\ edits > 0 /\ plans = NoFunction
    /\ failures' = failures \ {dir}
    /\ UNCHANGED <<invocation, disk, edits, parsed, inputs, closest, bySource, byDir, lookup, plans>>

Classify ==
    /\ lookup # Nothing /\ inputs = Nothing
    /\ IF InputsRefused THEN Fail /\ UNCHANGED inputs
       ELSE /\ inputs' = ClassifiedInputs
            /\ UNCHANGED <<lookup, failures, bySource, byDir>>
    /\ UNCHANGED <<invocation, disk, edits, parsed, closest, plans>>

Discovering == lookup # Nothing /\ inputs # Nothing /\ lookup.source = Nothing

WithoutDiscovery ==
    /\ Discovering
    /\ invocation.isolated \/ inputs.explicit # Nothing
    /\ lookup' = [lookup EXCEPT !.source =
          IF invocation.isolated THEN Source("isolated", Nothing)
                                 ELSE Source("explicit", inputs.explicit)]
    /\ UNCHANGED <<invocation, disk, edits, parsed, inputs, closest, bySource, byDir, failures, plans>>

Searching == Discovering /\ ~invocation.isolated /\ inputs.explicit = Nothing

FoundForStart(file) ==
    /\ lookup' = [lookup EXCEPT !.source = Source(IF file = Nothing THEN "none" ELSE "auto", file)]
    /\ closest' = Put(closest, lookup.start, file)

\* The search ends with the file found, or with Nothing.
Found(file) ==
    /\ lookup' = [lookup EXCEPT !.source = Source(IF file = Nothing THEN "none" ELSE "auto", file)]
    /\ closest' = [d \in DOMAIN closest \cup lookup.visited \cup {lookup.at} |->
                     IF d \in DOMAIN closest THEN closest[d] ELSE file]

FoundEarlier ==
    /\ Searching /\ lookup.at \in DOMAIN closest
    /\ Found(closest[lookup.at])
    /\ UNCHANGED <<invocation, disk, edits, parsed, inputs, bySource, byDir, failures, plans>>

Examined == Document(Candidate(lookup.at))
Exists == disk[Candidate(lookup.at)] # Absent
Examine == Searching /\ lookup.at \notin DOMAIN closest
Says(table) == Exists /\ Examined # Broken /\ Examined.table = table

CandidateRefusedForGood ==
    /\ Examine
    /\ Says("odd") \/ (Exists /\ Examined = Broken)
    /\ parsed' = AfterReading(Candidate(lookup.at))
    /\ closest' = [d \in DOMAIN closest \cup lookup.visited |->
                     IF d \in DOMAIN closest THEN closest[d] ELSE Nothing]
    /\ Fail
    /\ UNCHANGED <<invocation, disk, edits, inputs, plans>>

\* Reading raises, and so does a table path that is not a table.
CandidateRefused ==
    /\ Examine
    /\ \/ Exists /\ Examined = Broken
       \/ Says("odd")
    /\ parsed' = AfterReading(Candidate(lookup.at))
    /\ Fail
    /\ UNCHANGED <<invocation, disk, edits, inputs, closest, plans>>

CandidateApplies ==
    /\ Examine /\ Says("settings")
    /\ parsed' = AfterReading(Candidate(lookup.at))
    /\ Found(Candidate(lookup.at))
    /\ UNCHANGED <<invocation, disk, edits, inputs, bySource, byDir, failures, plans>>

GoUp ==
    /\ Examine
    /\ ~Exists \/ Says("none")
    /\ parsed' = (IF Exists THEN AfterReading(Candidate(lookup.at)) ELSE parsed)
    /\ IF lookup.at = Root THEN Found(Nothing)
       ELSE /\ lookup' = [lookup EXCEPT !.visited = @ \cup {lookup.at}, !.at = ParentOf(@)]
            /\ UNCHANGED closest
    /\ UNCHANGED <<invocation, disk, edits, inputs, bySource, byDir, failures, plans>>

\* _load_profile_from_source: the layers, weakest first.
FileLayers(source) ==
    IF source.file = Nothing THEN <<>>
    ELSE LET content == Document(source.file)
         IN  IF source.kind = "auto" /\ (content = Absent \/ content.table = "none") THEN <<>>
             ELSE <<[section |-> content.section,
                     base |-> IF source.kind = "auto" THEN ParentOf(source.file) ELSE Cwd,
                     priority |-> FilePriority]>>

Sections(source) ==
    FileLayers(source)
      \o [i \in DOMAIN inputs.inline |->
            [section |-> inputs.inline[i].section, base |-> Cwd, priority |-> InlinePriority]]

IsProject(file) == file[Len(file)] = "pyproject.toml"

\* An explicit file must exist, and must have the table if it is a
\* pyproject.toml; any other file is the section.
FileRefused(source) ==
    /\ source.file # Nothing
    /\ LET content == Document(source.file)
       IN  \/ content = Broken
           \/ source.kind = "explicit" /\ content = Absent
           \/ /\ content # Absent /\ IsProject(source.file)
              /\ (content.table = "odd" \/ (source.kind = "explicit" /\ content.table = "none"))

Layers(source) ==
    [i \in DOMAIN Sections(source) |->
        Layer(Flattened(Sections(source)[i].section), Sections(source)[i].base,
              Sections(source)[i].priority)]
      \o <<Layer(ArgumentOverrides(invocation.arguments), Cwd, ArgumentPriority),
           Layer(invocation.overrides, Cwd, OverridePriority)>>

SectionsRefused(source) ==
    \/ \E i \in DOMAIN Sections(source) :
          Sections(source)[i].section = Broken \/ ~WellFormedSection(Sections(source)[i].section)
    \/ \E i \in DOMAIN Layers(source) : Refused(Layers(source)[i])

RootOf(source) == IF source.kind = "auto" THEN ParentOf(source.file) ELSE Cwd

Layered(source) == FoldLeft(Apply, DefaultProfile(Cwd, RootOf(source)), Layers(source))

Resolved(profile) ==
    /\ bySource' = Put(bySource, lookup.source, profile)
    /\ byDir' = Put(byDir, lookup.start, profile)
    /\ lookup' = Nothing

ShareProfile ==
    /\ lookup # Nothing /\ lookup.source \in DOMAIN bySource
    /\ Resolved(bySource[lookup.source])
    /\ UNCHANGED <<invocation, disk, edits, parsed, inputs, closest, failures, plans>>

LoadProfile ==
    /\ lookup # Nothing /\ lookup.source # Nothing /\ lookup.source \notin DOMAIN bySource
    /\ parsed' = IF lookup.source.file = Nothing THEN parsed ELSE AfterReading(lookup.source.file)
    /\ IF FileRefused(lookup.source) \/ SectionsRefused(lookup.source)
       THEN Fail
       ELSE Resolved(Layered(lookup.source)) /\ UNCHANGED failures
    /\ UNCHANGED <<invocation, disk, edits, inputs, closest, plans>>

-----------------------------------------------------------------------------
(* cli/check.py: the plan for a file                                       *)

DirectoryOf(path) == IF path = <<"-">> THEN Cwd ELSE ParentOf(path)

Selection(profile) ==
    SelectRules(invocation.rules, profile, Defaults["require_explicit"])

PlanFor(path) ==
    LET profile == byDir[DirectoryOf(path)]
        effective == EffectiveProfile(profile, path)
        selection == Selection(profile)
    IN  [effective |-> effective, errors |-> selection.errors,
         rules |-> RulesForPath(invocation.rules, selection, path,
                                effective.values["source_context"])]

\* Once the settings of every file were looked up; the others are errors.
PlanFiles ==
    /\ lookup = Nothing /\ plans = NoFunction
    /\ \A path \in Files : DirectoryOf(path) \in DOMAIN byDir \cup failures
    /\ plans' = [path \in {q \in Files : DirectoryOf(q) \in DOMAIN byDir} |-> PlanFor(path)]
    /\ plans' # NoFunction
    /\ UNCHANGED <<invocation, disk, edits, parsed, inputs, closest, bySource, byDir, lookup, failures>>

Next ==
    \/ Edit
    \/ \E dir \in Directories : Begin(dir) \/ Retry(dir)
    \/ Classify \/ WithoutDiscovery \/ FoundEarlier \/ CandidateRefused \/ CandidateApplies
    \/ GoUp \/ ShareProfile \/ LoadProfile
    \/ PlanFiles

Spec == Init /\ [][Next]_vars

-----------------------------------------------------------------------------
(* Properties                                                              *)

\* What a lookup of dir finds by itself, in files that nobody edits: the
\* nearest pyproject.toml with the table.
Above(dir) == {SubSeq(dir, 1, n) : n \in 0..Len(dir)}
At(dir) == disk[Candidate(dir)]
Applying(dir) == {d \in Above(dir) : At(d) \notin {Absent, Broken} /\ At(d).table = "settings"}
Unusable(dir) == {d \in Above(dir) : At(d) = Broken \/ (At(d) # Absent /\ At(d).table = "odd")}
Nearest(dirs) == CHOOSE d \in dirs : \A e \in dirs : Len(e) <= Len(d)

OwnSource(dir) ==
    IF invocation.isolated THEN Source("isolated", Nothing)
    ELSE IF inputs.explicit # Nothing THEN Source("explicit", inputs.explicit)
    ELSE IF Applying(dir) = {} THEN Source("none", Nothing)
    ELSE Source("auto", Candidate(Nearest(Applying(dir))))

OwnFails(dir) ==
    \/ inputs = Nothing
    \/ OwnSource(dir).kind \in {"auto", "none"}
         /\ \E d \in Unusable(dir) : \A e \in Applying(dir) : Len(e) < Len(d)
    \/ FileRefused(OwnSource(dir)) \/ SectionsRefused(OwnSource(dir))

\* In it each setting has the value, base and priority of the last layer
\* that sets it.
OwnProfile(dir) ==
    LET layers == Layers(OwnSource(dir))
        setting(f) == {i \in DOMAIN layers : f \in DOMAIN layers[i].updates}
        last(f) == layers[CHOOSE i \in setting(f) : \A j \in setting(f) : j <= i]
        default == DefaultProfile(Cwd, RootOf(OwnSource(dir)))
        of(f, from(_), otherwise) == IF setting(f) = {} THEN otherwise[f] ELSE from(last(f))
    IN  [values |-> [f \in Fields |-> of(f, LAMBDA l : Value(f, l.updates[f]), default.values)],
         base |-> [f \in Fields |-> of(f, LAMBDA l : l.base, default.base)],
         priority |-> [f \in Fields |-> of(f, LAMBDA l : l.priority, default.priority)],
         root |-> default.root]

\* What is kept between lookups changes none of them: whatever was looked up
\* before, also without success, a directory has the settings that a lookup
\* of its own gives, or fails as that does.
LookupsAreIndependent ==
    edits = 0 /\ lookup = Nothing =>
       /\ \A dir \in DOMAIN byDir : ~OwnFails(dir) /\ byDir[dir] = OwnProfile(dir)
       /\ \A dir \in failures : OwnFails(dir)

\* While files are edited, an invocation still has one view of them: the
\* configuration of a directory is its own file or that of its parent, and
\* directories with the same one have the same settings.
OneSnapshot ==
    /\ \A dir \in DOMAIN closest :
          \/ closest[dir] = Candidate(dir)
          \/ dir = Root /\ closest[dir] = Nothing
          \/ dir # Root /\ ParentOf(dir) \in DOMAIN closest /\ closest[dir] = closest[ParentOf(dir)]
    /\ \A d, e \in DOMAIN byDir \cap DOMAIN closest :
          closest[d] = closest[e] => byDir[d] = byDir[e]

\* A setting of a file comes from its strongest origin: the command line
\* before inline TOML, before the configuration file; there the per-file
\* settings, last match first, before the defaults of the language, before
\* the value for all files.  Per-file settings are as strong as their table.
StrongestOriginWins ==
    \A path \in DOMAIN plans : \A f \in Fields :
       LET base == byDir[DirectoryOf(path)]
           language == LanguageDefaults(SourceLanguage(path, base.values["extension"]))
           table == base.values["per_file_settings"]
           strength == base.priority["per_file_settings"]
           origins ==
             {<<base.priority[f], 0, 0, base.values[f]>>}
               \cup (IF f \in DOMAIN language THEN {<<FilePriority, 1, 0, language[f]>>} ELSE {})
               \cup UNION {{<<strength, 2, i, pair[2]>> : pair \in {p \in table[i][2] : p[1] = f}} :
                       i \in {j \in DOMAIN table :
                          PatternMatches(table[j][1], path, base.base["per_file_settings"])}}
           beats(a, b) == \/ a[1] > b[1]
                          \/ a[1] = b[1] /\ a[2] > b[2]
                          \/ a[1] = b[1] /\ a[2] = b[2] /\ a[3] >= b[3]
           strongest == CHOOSE a \in origins : \A b \in origins : beats(a, b)
       IN  plans[path].effective.values[f] = strongest[4]

\* What the selectors of the fields cover, of those fields that take part.
Speaking(profile, fields, primary) ==
    UNION {GroupMatches(invocation.rules, GroupOf(profile, f), FALSE) :
             f \in {g \in fields : profile.priority[g] >= profile.priority[primary]}}

\* Some selector for the rule is stronger than every selector against it.
Prevails(code, for, against) ==
    \E e \in for : e.code = code /\ \A d \in against : d.code = code => Stronger(e, d)

\* Of the rules that selectors, settings and require-explicit leave, a file
\* is checked with all that are compatible; of incompatible ones the
\* stronger stays, and one that falls to none stronger is reported.
SelectionIsFair ==
    \A profile \in {byDir[DirectoryOf(path)] : path \in DOMAIN plans} :
       LET selection == Selection(profile)
           values == profile.values
           for == Speaking(profile, {"select", "extend_select"}, "select")
           against == Speaking(profile, {"ignore"}, "select")
           fixing == Speaking(profile, {"fixable", "extend_fixable"}, "fixable")
           sparing == Speaking(profile, {"unfixable"}, "fixable")
           named(r) == \E e \in for : e.code = r.code /\ e.exact
           explicit == UNION {Resolve(invocation.rules, s).matching : s \in ToSet(values["require_explicit"])}
           left == {r \in invocation.rules :
                      /\ Prevails(r.code, for, against)
                      /\ \A e \in r.effects :
                            values[e.setting] \in e.values => e.effect = "ignored" /\ named(r)
                      /\ r \in explicit => named(r)}
           kept == {r \in left : \E c \in selection.candidates : c.code = r.code}
           weaker(r, k) == \E e \in for : e.code = k.code /\ \A d \in for : d.code = r.code => Stronger(e, d)
           rivals(r) == {k \in kept : k.code \in r.incompatible}
       IN  /\ Cardinality(kept) = Cardinality(selection.candidates)
           /\ \A r \in kept : rivals(r) = {}
           /\ \A r \in left \ kept :
                 /\ \E k \in rivals(r) : ~weaker(k, r)
                 /\ <<"incompatible", r.code>> \in selection.errors <=> \A k \in rivals(r) : ~weaker(r, k)
           /\ \A c \in selection.candidates :
                 c.fixable <=> Fixable(RuleOf(invocation.rules, c.code)) /\ Prevails(c.code, fixing, sparing)
=============================================================================
