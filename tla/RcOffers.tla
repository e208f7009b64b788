------------------------------ MODULE RcOffers ------------------------------
(***************************************************************************)
(* Completion of native flags and of their values, on the options of an    *)
(* entry (src/src/bazelrc/completion.rs; RcCompletion has the rest of that *)
(* file).  A cursor is at a slot of the line: in the "name" or the "value" *)
(* of an option, at its "end" when nothing is joined to it, or "after" it  *)
(* in white space.  An item replaces the option at its slot, or comes      *)
(* after it.                                                               *)
(***************************************************************************)
EXTENDS RcSymbols

Cursors(line) ==
    {c \in [slot : 0 .. Len(line.options), where : {"name", "value", "end", "after"}] :
        /\ c.slot = 0 => c.where = "after"
        /\ c.slot > 0 => LET joined == line.options[c.slot].value # NoValue
                         IN  (c.where = "value" => joined) /\ (c.where = "end" => ~joined)}

OnOption(cursor) == cursor.where # "after"

\* Mutant: nothing but --config joins a configuration.
AtConfigOnly(line, cursor) ==
    LET options  == line.options
        split(k) == line.name = NoName /\ IsConfig(options[k]) /\ options[k].value = NoValue
    IN  \/ OnOption(cursor) /\ IsConfig(options[cursor.slot]) /\ options[cursor.slot].value # NoValue
        \/ OnOption(cursor) /\ cursor.slot > 1 /\ split(cursor.slot - 1)
        \/ /\ cursor.where \in {"end", "after"} /\ cursor.slot > 0
           /\ cursor.slot = Len(options) /\ split(cursor.slot)

\* config_context: the cursors that complete a configuration and no flag.
AtConfig(line, cursor) ==
    LET options  == line.options
        split(k) == line.name = NoName /\ IsConfig(options[k]) /\ options[k].value = NoValue
        joined(k) == /\ IF line.name # NoName THEN StartsConfig(options[k]) ELSE IsConfig(options[k])
                     /\ options[k].value # NoValue
    IN  \/ OnOption(cursor) /\ joined(cursor.slot)
        \/ OnOption(cursor) /\ cursor.slot > 1 /\ split(cursor.slot - 1)
        \/ /\ cursor.where \in {"end", "after"} /\ cursor.slot > 0
           /\ cursor.slot = Len(options) /\ split(cursor.slot)

\* enum_value_context: the first use of a flag with listed values the cursor is at.
EnumUses(flags, line, cursor) ==
    {use \in Uses(flags, line) :
        /\ Known(use.resolved) /\ use.resolved.flag.values # {}
        /\ SupportsScope(flags, use.resolved.flag, line.command)
        /\ use.resolved.spelling \notin Negated
        /\ CASE line.options[use.option].value # NoValue ->
                    cursor.slot = use.option /\ cursor.where = "value"
             [] use.value # 0 -> cursor.slot = use.value /\ OnOption(cursor)
             [] OTHER -> \/ cursor.slot > use.option
                         \/ cursor.slot = use.option /\ cursor.where = "after"}

OptionItem(slot, replaces, option) == [slot |-> slot, replaces |-> replaces, option |-> option]

WordOption(word) == [dashes |-> "", name |-> <<word>>, value |-> NoValue]

EnumItems(line, use, cursor) ==
    LET option == line.options[use.option]
        values == use.resolved.flag.values
    IN  CASE option.value # NoValue ->
                {OptionItem(use.option, TRUE, [option EXCEPT !.value = v]) : v \in values}
          [] use.value # 0 -> {OptionItem(use.value, TRUE, WordOption(v)) : v \in values}
          [] OTHER         -> {OptionItem(cursor.slot, FALSE, WordOption(v)) : v \in values}

\* native_flag_context: where a flag may be written.
FlagPlace(flags, line, cursor) ==
    LET uses    == Uses(flags, line)
        between == \E use \in uses : /\ use.value # 0 /\ cursor.slot = use.option
                                     /\ cursor.where \in {"end", "after"}
        taken   == \E use \in uses : use.value # 0 /\ cursor.slot \in {use.option, use.value}
        option  == line.options[cursor.slot]
    IN  CASE between              -> FALSE
          [] ~OnOption(cursor)    -> TRUE
          [] taken                -> FALSE
          [] OTHER -> /\ option.dashes # "" /\ ~IsBuildSetting(option)
                      /\ option.value # NoValue => cursor.where = "name"

\* Mutant: the flags of every command.
EveryFlag(flags, command) == {f \in flags : ~f.hidden}

OfferedFlags(flags, command) == {f \in flags : SupportsScope(flags, f, command) /\ ~f.hidden}

\* push_flag: a long flag that needs a value is written up to its = sign, and a
\* value that is there already stays.
Written(flag, spelling, typed) ==
    CASE typed # NoValue                          -> [spelling EXCEPT !.value = typed]
      [] flag.requires /\ spelling.dashes = "--"  -> [spelling EXCEPT !.value = ""]
      [] OTHER                                    -> spelling

\* flag_items: every spelling but the old name.
FlagItems(flags, line, cursor) ==
    LET typed == IF OnOption(cursor) THEN line.options[cursor.slot].value ELSE NoValue
        spelled(f) == {s \in Spellings(f) : f.old # <<>> => s # LongOption(f.old)}
    IN  {OptionItem(cursor.slot, OnOption(cursor), Written(p[1], p[2], typed)) :
            p \in UNION {{<<f, s>> : s \in spelled(f)} : f \in OfferedFlags(flags, line.command)}}

\* completions, from where it needs the flag catalog on.
Offers(catalog, line, cursor) ==
    LET flags == catalog[1]
        enums == EnumUses(flags, line, cursor)
        first == CHOOSE u \in enums : \A v \in enums : u.option <= v.option
    IN  CASE catalog = <<>> \/ line.command \notin NAMES                 -> {}
          [] line.name # NoName /\ ~AcceptsConfig(line.command)         -> {}
          [] AtConfig(line, cursor)                                     -> {}
          [] enums # {}                                                 -> EnumItems(line, first, cursor)
          [] FlagPlace(flags, line, cursor)                             -> FlagItems(flags, line, cursor)
          [] OTHER                                                      -> {}

Accept(line, item) ==
    LET before == SubSeq(line.options, 1, IF item.replaces THEN item.slot - 1 ELSE item.slot)
    IN  [line EXCEPT !.options =
            before \o <<item.option>> \o SubSeq(line.options, item.slot + 1, Len(line.options))]
=============================================================================
