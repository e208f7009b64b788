----------------------------- MODULE RcVersion ------------------------------
(***************************************************************************)
(* The conditions of try-import-if-bazel-version                           *)
(* (src/src/bazelrc/syntax.rs, VersionCondition).  A version as written is *)
(* its dot-separated fields, the identifiers after a hyphen and those      *)
(* after a plus; a field or an identifier is a sequence of symbols, each   *)
(* an integer in the order of their bytes: 0 .. 9 are the digits, -1 the   *)
(* hyphen, 10 and above letters.                                           *)
(***************************************************************************)
EXTENDS Integers, Sequences, SequencesExt

CONSTANT MaxNumber      \* the largest number a field holds (u64::MAX)

ASSUME NumberAssumption == MaxNumber \in Nat

Invalid == [core |-> <<>>, prerelease |-> <<>>]

InvalidCondition == [comparison |-> "invalid", version |-> Invalid, upper |-> Invalid]

Digits(symbols) == \A i \in DOMAIN symbols : symbols[i] \in 0 .. 9

LeadingZero(symbols) == Len(symbols) > 1 /\ symbols[1] = 0

Number(symbols) ==
    LET value == FoldLeft(LAMBDA n, d : 10 * n + d, 0, symbols)
    IN  IF symbols = <<>> \/ ~Digits(symbols) \/ LeadingZero(symbols) \/ value > MaxNumber
        THEN -1 ELSE value

\* valid_identifiers: numeric identifiers of a prerelease have no leading zero.
Identifiers(parts, prerelease) ==
    \A i \in DOMAIN parts :
        /\ parts[i] # <<>>
        /\ ~(prerelease /\ Digits(parts[i]) /\ LeadingZero(parts[i]))

Plain(major, minor, patch) == [core |-> <<major, minor, patch>>, prerelease |-> <<>>]

\* A field left out counts as zero where partial allows it.
ParseVersion(text, partial) ==
    LET given == Len(text.fields)
        core  == [i \in 1 .. 3 |-> IF i <= given THEN Number(text.fields[i]) ELSE 0]
    IN  IF \/ given > 3 \/ given < (IF partial THEN 1 ELSE 3)
           \/ \E i \in 1 .. 3 : core[i] = -1
           \/ given < 3 /\ text.prerelease # <<>>
           \/ ~Identifiers(text.prerelease, TRUE) \/ ~Identifiers(text.build, FALSE)
        THEN Invalid
        ELSE [core |-> core, prerelease |-> text.prerelease]

-----------------------------------------------------------------------------
\* The first place where two sequences differ, under an order of their elements.
LexLess(a, b, Less(_, _)) ==
    \/ IsStrictPrefix(a, b)
    \/ \E i \in DOMAIN a \cap DOMAIN b :
          /\ Less(a[i], b[i])
          /\ \A j \in 1 .. i - 1 : a[j] = b[j]

SymbolsLess(a, b) == LexLess(a, b, LAMBDA x, y : x < y)

\* Numeric identifiers come before texts, and a longer number after a shorter.
IdentifierLess(a, b) ==
    CASE Digits(a) /\ Digits(b) -> Len(a) < Len(b) \/ (Len(a) = Len(b) /\ SymbolsLess(a, b))
      [] Digits(a) # Digits(b)  -> Digits(a)
      [] OTHER                  -> SymbolsLess(a, b)

\* compare_prerelease: a version without one comes after those that have one.
PrereleaseLess(a, b) ==
    CASE a = <<>> \/ b = <<>> -> a # <<>> /\ b = <<>>
      [] OTHER                -> LexLess(a, b, IdentifierLess)

Precedes(v, w) ==
    \/ SymbolsLess(v.core, w.core)
    \/ v.core = w.core /\ PrereleaseLess(v.prerelease, w.prerelease)

\* compatible_upper: the next major version, or the next minor one.
Upper(version, precision) ==
    IF precision = 1 THEN Plain(version.core[1] + 1, 0, 0)
    ELSE Plain(version.core[1], version.core[2] + 1, 0)

\* VersionCondition::parse; the addition for the upper bound is checked.
ParseCondition(condition) ==
    LET version == ParseVersion(condition.version, condition.comparison = "~")
        upper   == Upper(version, Len(condition.version.fields))
    IN  CASE version = Invalid           -> InvalidCondition
          [] condition.comparison # "~"  -> [comparison |-> condition.comparison,
                                             version |-> version, upper |-> version]
          [] \E i \in 1 .. 3 : upper.core[i] > MaxNumber -> InvalidCondition
          [] OTHER -> [comparison |-> "~", version |-> version, upper |-> upper]

\* matches, for a version that parses: where it stands to the condition's bounds.
Compares(comparison, before, after, beyond) ==
    CASE comparison = "<"  -> before
      [] comparison = "<=" -> ~after
      [] comparison = ">"  -> after
      [] comparison = ">=" -> ~before
      [] comparison = "==" -> ~before /\ ~after
      [] comparison = "!=" -> before \/ after
      [] comparison = "~"  -> ~before /\ ~beyond

Matches(condition, version) ==
    Compares(condition.comparison, Precedes(version, condition.version),
             Precedes(condition.version, version), ~Precedes(version, condition.upper))
=============================================================================
