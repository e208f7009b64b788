----------------------------- MODULE RcCatalog ------------------------------
(***************************************************************************)
(* The flags Bazel says it has (src/src/bazelrc/catalog.rs), and how the   *)
(* options of a line use them (src/src/bazelrc/native_options.rs).  A name *)
(* is a sequence of parts, of which "no" and the marks of a build setting  *)
(* are the ones the code looks at.                                         *)
(***************************************************************************)
EXTENDS RcExpansion

NoFlag == [flag |-> "no flag", spelling |-> "none"]

Known(resolved) == resolved.spelling # "none"

Resolved(flag, spelling) == [flag |-> flag, spelling |-> spelling]

Negated == {"negative", "negative old name"}

\* is_build_setting: an option that names a Starlark setting by its label.
IsBuildSetting(option) ==
    /\ option.dashes = "--"
    /\ \/ Head(option.name) \in {"//", "@"}
       \/ Len(option.name) > 1 /\ Head(option.name) = "no" /\ option.name[2] \in {"//", "@"}

\* The long spellings, first the name as it is and then without its "no".
LongSpelling(catalog, name) ==
    LET stripped  == IF Head(name) = "no" THEN Tail(name) ELSE <<>>
        canonical == {f \in catalog : f.name = name}
        old       == {f \in catalog : f.old = name}
        negative  == {f \in catalog : f.negative /\ stripped # <<>> /\ f.name = stripped}
        oldNo     == {f \in catalog : f.negative /\ stripped # <<>> /\ f.old = stripped}
        one(flags) == CHOOSE f \in flags : TRUE
    IN  CASE canonical # {} -> Resolved(one(canonical), "canonical")
          [] old # {}       -> Resolved(one(old), "old name")
          [] negative # {}  -> Resolved(one(negative), "negative")
          [] oldNo # {}     -> Resolved(one(oldNo), "negative old name")
          [] OTHER          -> NoFlag

\* One letter after one dash, and a dash behind it for the negative.
ShortSpelling(catalog, option) ==
    LET negative == Last(option.name) = "-"
        letter   == IF negative THEN Front(option.name) ELSE option.name
        flags    == {f \in catalog : f.abbreviation = letter /\ (negative => f.negative)}
    IN  IF Len(letter) # 1 \/ option.value # NoValue \/ flags = {} THEN NoFlag
        ELSE Resolved(CHOOSE f \in flags : TRUE,
                      IF negative THEN "negative abbreviation" ELSE "abbreviation")

\* resolve_option.
ResolveOption(catalog, option) ==
    CASE IsBuildSetting(option)  -> NoFlag
      [] option.dashes = "--"    -> LongSpelling(catalog, option.name)
      [] option.dashes = "-"     -> ShortSpelling(catalog, option)
      [] OTHER                   -> NoFlag

SupportsScope(catalog, flag, command) ==
    CASE command = "common" -> flag.commands \ {"startup"} # {}
      [] command = "always" -> (UNION {f.commands : f \in catalog}) \ {"startup"} \subseteq flag.commands
      [] OTHER              -> command \in flag.commands

\* uses: an option that needs a value and has none takes the next one.
Uses(catalog, line) ==
    LET options == line.options
        add(s, k) ==
            LET resolved == ResolveOption(catalog, options[k])
                takes    == /\ Known(resolved) /\ resolved.flag.requires
                            /\ options[k].value = NoValue /\ k < Len(options)
            IN  IF s.next > k THEN s
                ELSE [next  |-> IF takes THEN k + 2 ELSE k + 1,
                      found |-> Append(s.found, [option |-> k, resolved |-> resolved,
                                                 value |-> IF takes THEN k + 1 ELSE 0])]
    IN  ToSet(FoldLeft(add, [next |-> 1, found |-> <<>>], [k \in DOMAIN options |-> k]).found)

\* value_site: the value an option has, joined to it or after it.
ValueOf(line, use) ==
    CASE line.options[use.option].value # NoValue -> line.options[use.option].value
      [] use.value # 0                            -> Word(line.options[use.value])
      [] OTHER                                    -> NoValue
=============================================================================
