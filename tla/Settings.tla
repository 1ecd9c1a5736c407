------------------------------- MODULE Settings -------------------------------
(***************************************************************************)
(* settings.py, cli/settings_check.py: the schema of the check settings,   *)
(* the validation of one layer, the layering of a profile, and the profile *)
(* that is in force for one file.                                          *)
(*                                                                         *)
(* A raw value is [type, value], as TOML or the command line gives it.  A  *)
(* section of a configuration file is [keys, nested]: raw values by field, *)
(* and the prefix tables, which spell a field in two parts.                *)
(***************************************************************************)
EXTENDS RuleSelection

CONSTANTS
    Fields,          \* the settings modelled, some of every group
    Defaults,        \* their default values
    NestedFields,    \* by prefix, the fields that a key of its table names
    EffectFields,    \* settings that rules name in their setting effects
    Invalid

RunFields == {"output_format", "cache", "cache_dir", "parallelism"}

FormattingFields ==
    {"line_length", "url_aware_wrapping", "line_ending", "indent_style", "indent_width",
     "source_context"}

DocstringFields ==
    {"docstring_convention", "docstring_blank_line_style",
     "docstring_blank_line_after_last_section", "docstring_missing_documentation",
     "docstring_missing_documentation_public_only",
     "docstring_require_init_attribute_documentation", "docstring_include_assertion_errors",
     "docstring_class_attribute_no_type_base_classes",
     "docstring_forbidden_function_decorators", "docstring_optional_function_decorators",
     "docstring_placeholder_markers", "docstring_property_decorators"}

DocstringParsingFields ==
    {"docstring_parse_list_items", "docstring_parse_headings", "docstring_parse_doctests",
     "docstring_parse_code_fences", "docstring_parse_block_quotes", "docstring_parse_tables",
     "docstring_parse_directives", "docstring_parse_literal_blocks"}

CommentFields ==
    {"comment_join_standalone_lines", "comment_format_list_items", "comment_task_marker_mode",
     "comment_task_markers", "comment_preserve_headings", "comment_preserve_doctests",
     "comment_preserve_code_fences", "comment_format_block_quotes", "comment_preserve_tables",
     "comment_preserve_directives", "comment_trailing_extraction_syntax_aware",
     "comment_trailing_extraction_content_aware", "comment_detect_code",
     "comment_detect_statements", "comment_detect_expressions"}

SelectionFields ==
    {"select", "ignore", "extend_select", "require_explicit", "per_file_ignores",
     "extend_per_file_ignores", "fixable", "unfixable", "extend_fixable"}

DiscoveryFields ==
    {"extension", "per_file_settings", "include", "extend_include", "exclude",
     "extend_exclude", "respect_gitignore", "force_exclude"}

ASSUME FieldsAssumption ==
    /\ Fields \subseteq RunFields \cup FormattingFields \cup DocstringFields
                          \cup DocstringParsingFields \cup CommentFields
                          \cup SelectionFields \cup DiscoveryFields
    /\ SelectionFields \cup {"extension", "per_file_settings", "source_context",
                             "docstring_missing_documentation"} \subseteq Fields
    /\ Defaults = [f \in Fields |-> Defaults[f]] /\ Defaults["per_file_settings"] = <<>>

-----------------------------------------------------------------------------
(* Validation                                                              *)

Raw(type, value) == [type |-> type, value |-> value]

\* validate_int with bounds; a boolean is an int to Python and refused.
BoundedInt(raw, least, most) ==
    IF raw.type = "int" /\ raw.value \in least..most THEN raw.value ELSE Invalid

\* validate_parallelism
Parallelism(raw) ==
    IF raw.type \in {"int", "ratio"} /\ (raw.type = "int" => raw.value >= 0) THEN raw.value
    ELSE Invalid

StrEnum(raw, members) ==
    IF raw.type = "text" /\ raw.value \in members THEN raw.value ELSE Invalid

Boolean(raw) == IF raw.type = "bool" THEN raw.value ELSE Invalid

\* validate_non_empty_string_list; a list with another item is of type mixed.
NonEmptyStrings(raw) ==
    IF raw.type = "list" /\ \A i \in DOMAIN raw.value : raw.value[i].form # "empty"
    THEN raw.value ELSE Invalid

\* validate_multi_string_map: pairs of a pattern and a list.
EmptyPattern(pattern) == pattern.glob.segments = <<>> /\ ~pattern.negated

MultiStringMap(raw) ==
    IF /\ raw.type = "table"
       /\ \A i \in DOMAIN raw.value :
             ~EmptyPattern(raw.value[i][1]) /\ NonEmptyStrings(raw.value[i][2]) # Invalid
    THEN [i \in DOMAIN raw.value |-> <<raw.value[i][1], raw.value[i][2].value>>]
    ELSE Invalid

\* validate_comment_task_markers and validate_docstring_placeholder_markers:
\* a marker is [text, folded, sound]; the latter compares folded markers.
Markers(raw, folding) ==
    LET key(m) == IF folding THEN m.folded ELSE m.text
    IN  IF /\ raw.type = "list"
           /\ \A i \in DOMAIN raw.value : raw.value[i].sound
           /\ \A i, j \in DOMAIN raw.value : key(raw.value[i]) = key(raw.value[j]) => i = j
        THEN [i \in DOMAIN raw.value |-> raw.value[i].text] ELSE Invalid

BuiltinLanguages == [py |-> "python", pyi |-> "python", pyw |-> "python", md |-> "markdown"]

\* validate_extension_map: pairs of an extension [text, normal, simple], of
\* which normal has no leading dot and no capitals, and a language.
ExtensionMap(raw) ==
    LET normal(i) == raw.value[i][1].normal
        language(i) == StrEnum(raw.value[i][2], {"python", "markdown"})
    IN  IF /\ raw.type = "table"
           /\ \A i \in DOMAIN raw.value :
                 /\ raw.value[i][1].simple
                 /\ normal(i) \notin DOMAIN BuiltinLanguages
                 /\ language(i) # Invalid
           /\ \A i, j \in DOMAIN raw.value : normal(i) = normal(j) => i = j
        THEN {<<normal(i), language(i)>> : i \in DOMAIN raw.value}
        ELSE Invalid

\* _flatten_prefixed_toml_setting_tables; a nested key that no field has is
\* an unknown setting, and so is an unknown flat one.
NestedKeys(section) ==
    UNION {{<<prefix, key>> : key \in DOMAIN section.nested[prefix]} : prefix \in DOMAIN section.nested}

FieldOf(nested) ==
    IF nested[2] \in DOMAIN NestedFields[nested[1]] THEN NestedFields[nested[1]][nested[2]]
                                                    ELSE Invalid

WellFormedSection(section) ==
    /\ \A nested \in NestedKeys(section) :
          /\ FieldOf(nested) \in Fields \ DOMAIN section.keys
          /\ section.nested[nested[1]][nested[2]].type # "table"
    /\ DOMAIN section.keys \subseteq Fields

Flattened(section) ==
    [field \in DOMAIN section.keys \cup {FieldOf(n) : n \in NestedKeys(section)} |->
       IF field \in DOMAIN section.keys THEN section.keys[field]
       ELSE LET nested == CHOOSE n \in NestedKeys(section) : FieldOf(n) = field
            IN  section.nested[nested[1]][nested[2]]]

PerFileFields ==
    (FormattingFields \cup DocstringFields \cup DocstringParsingFields \cup CommentFields)
      \ EffectFields

OrdinaryValue(field, raw) ==
    CASE field = "line_length" -> BoundedInt(raw, 1, 320)
      [] field = "parallelism" -> Parallelism(raw)
      [] field = "source_context" -> StrEnum(raw, Contexts)
      [] field = "docstring_convention" -> StrEnum(raw, {"none", "pep257", "google", "numpy", "rest"})
      [] field = "docstring_missing_documentation" ->
           StrEnum(raw, {"has-section", "non-summary-docstrings", "all-docstrings"})
      [] field = "comment_task_markers" -> Markers(raw, FALSE)
      [] field = "docstring_placeholder_markers" -> Markers(raw, TRUE)
      [] field = "comment_detect_code" -> Boolean(raw)
      [] field \in {"per_file_ignores", "extend_per_file_ignores"} -> MultiStringMap(raw)
      [] field = "extension" -> ExtensionMap(raw)
      [] field \in SelectionFields -> NonEmptyStrings(raw)

\* validate_per_file_settings: a table is a sequence of pairs, of a pattern
\* and a section.
PerFileSettings(raw) ==
    LET updates(i) == Flattened(raw.value[i][2])
    IN  IF /\ raw.type = "table" /\ raw.value \in Seq(ToSet(raw.value))
           /\ \A i \in DOMAIN raw.value :
                 /\ ~EmptyPattern(raw.value[i][1])
                 /\ WellFormedSection(raw.value[i][2])
                 /\ DOMAIN updates(i) # {} /\ DOMAIN updates(i) \subseteq PerFileFields
                 /\ \A f \in DOMAIN updates(i) : OrdinaryValue(f, updates(i)[f]) # Invalid
        THEN [i \in DOMAIN raw.value |->
                <<raw.value[i][1],
                  {<<f, OrdinaryValue(f, updates(i)[f])>> : f \in DOMAIN updates(i)}>>]
        ELSE Invalid

Value(field, raw) ==
    IF field = "per_file_settings" THEN PerFileSettings(raw) ELSE OrdinaryValue(field, raw)

-----------------------------------------------------------------------------
(* Layers                                                                  *)

DefaultPriority  == 0
FilePriority     == 1
InlinePriority   == 2
ArgumentPriority == 3
OverridePriority == 4

Layer(updates, base, priority) == [updates |-> updates, base |-> base, priority |-> priority]

Refused(layer) ==
    \E f \in DOMAIN layer.updates : f \notin Fields \/ Value(f, layer.updates[f]) = Invalid

\* _apply_field_values_profile
Apply(profile, layer) ==
    LET set == DOMAIN layer.updates
    IN  [profile EXCEPT
           !.values = [f \in Fields |-> IF f \in set THEN Value(f, layer.updates[f]) ELSE @[f]],
           !.base = [f \in Fields |-> IF f \in set THEN layer.base ELSE @[f]],
           !.priority = [f \in Fields |-> IF f \in set THEN layer.priority ELSE @[f]]]

DefaultProfile(cwd, root) ==
    [values |-> Defaults, base |-> [f \in Fields |-> cwd],
     priority |-> [f \in Fields |-> DefaultPriority], root |-> root]

\* SettingsSchema.argument_overrides: the groups of an option, one for each
\* time it was given, are joined; tables are merged key by key.
MergePair(pair, merged) ==
    LET same == {i \in DOMAIN merged : merged[i][1] = pair[1]}
        i == CHOOSE k \in same : TRUE
    IN  IF same = {} THEN Append(merged, pair)
        ELSE IF merged[i][2].type = "list" /\ pair[2].type = "list"
        THEN [merged EXCEPT ![i] = <<pair[1], Raw("list", @[2].value \o pair[2].value)>>]
        ELSE [merged EXCEPT ![i] = pair]

\* The pairs of --extension are only listed, so that a repeated one is refused.
Listed(groups) == FlattenSeq([i \in DOMAIN groups |-> groups[i].value])

Joined(field, groups) ==
    IF groups[1].type = "table" /\ field # "extension"
    THEN Raw("table", FoldLeft(LAMBDA merged, pair : MergePair(pair, merged), <<>>,
                               Listed(groups)))
    ELSE IF groups[1].type \in {"list", "table"}
    THEN Raw(groups[1].type, Listed(groups))
    ELSE groups[Len(groups)]

ArgumentOverrides(arguments) == [f \in DOMAIN arguments |-> Joined(f, arguments[f])]

-----------------------------------------------------------------------------
(* The profile of one file                                                 *)

\* source_language_for_path; "-" is standard input, and a path ends in its
\* name, of which Suffix gives the extension in lower case or Invalid.
CONSTANT Suffix

SourceLanguage(path, extension) ==
    LET suffix == Suffix[path[Len(path)]]
        configured == {pair \in extension : pair[1] = suffix}
    IN  IF path = <<"-">> THEN "python"
        ELSE IF suffix \in DOMAIN BuiltinLanguages THEN BuiltinLanguages[suffix]
        ELSE IF configured # {} THEN (CHOOSE pair \in configured : TRUE)[2]
        ELSE Invalid

MarkdownDefaults ==
    [source_context |-> "fragment", docstring_missing_documentation |-> "has-section"]

LanguageDefaults(language) ==
    IF language = "markdown" THEN MarkdownDefaults ELSE [f \in {} |-> Invalid]

WithLanguageAlways(profile, path) ==
    LET defaults == LanguageDefaults(SourceLanguage(path, profile.values["extension"]))
    IN  [profile EXCEPT !.values = [f \in Fields |-> IF f \in DOMAIN defaults THEN defaults[f] ELSE @[f]]]

\* effective_profile_for_path, first step; priorities and bases stay.
WithLanguage(profile, path) ==
    LET defaults == LanguageDefaults(SourceLanguage(path, profile.values["extension"]))
    IN  [profile EXCEPT !.values = [f \in Fields |->
           IF f \in DOMAIN defaults /\ profile.priority[f] <= FilePriority
           THEN defaults[f] ELSE @[f]]]

\* Its second step: a later entry of the table wins over an earlier one.
PatternMatches(pattern, path, base) == MatchesUnder(path, base, pattern.glob) # pattern.negated

PerFileUpdates(profile, path) ==
    LET from == "per_file_settings"
        entries == profile.values[from]
    IN  UNION {{<<i, pair>> : pair \in {p \in entries[i][2] : profile.priority[from] >= profile.priority[p[1]]}} :
                 i \in {j \in DOMAIN entries : PatternMatches(entries[j][1], path, profile.base[from])}}

WithPerFileSettings(profile, path) ==
    LET updates == PerFileUpdates(profile, path)
        set == {u[2][1] : u \in updates}
        last(f) == CHOOSE u \in updates : u[2][1] = f /\ \A v \in updates : v[2][1] = f => v[1] <= u[1]
        from == "per_file_settings"
    IN  [profile EXCEPT
           !.values = [f \in Fields |-> IF f \in set THEN last(f)[2][2] ELSE @[f]],
           !.base = [f \in Fields |-> IF f \in set THEN @[from] ELSE @[f]],
           !.priority = [f \in Fields |-> IF f \in set THEN @[from] ELSE @[f]]]

EffectiveProfile(profile, path) == WithPerFileSettings(WithLanguage(profile, path), path)
=============================================================================
