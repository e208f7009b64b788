----------------------------- MODULE StaticIndex -----------------------------
(***************************************************************************)
(* The static tier of the target index (src/src/index.rs): what the BUILD  *)
(* files of the workspace declare and mention, and how it is rebuilt or    *)
(* brought up to date.                                                     *)
(*                                                                         *)
(* A text stands for what a file says: the labels it declares and mentions *)
(* when read as a BUILD file, the files it imports when read as a bazelrc, *)
(* the files it ignores when read as .bazelignore.  An entry of the tier   *)
(* carries the text it came from, in the place of the rule, line and       *)
(* column the program reads from that text.                                *)
(***************************************************************************)
EXTENDS Naturals, FiniteSets

CONSTANTS Files,   \* the paths of files
          Labels,  \* the keys of targets
          Texts,   \* for each file, the texts it may hold
          Absent   \* stands for the text of a file that does not exist

Text == [declares : SUBSET Labels, mentions : SUBSET Labels,
         imports : SUBSET Files, ignores : SUBSET Files]

ASSUME StaticIndexAssumption ==
    /\ Texts \in [Files -> SUBSET Text]
    /\ Absent \notin Text

Disk == {d \in [Files -> (UNION {Texts[f] : f \in Files}) \cup {Absent}] :
            \A f \in Files : d[f] \in Texts[f] \cup {Absent}}

-----------------------------------------------------------------------------
(* Tiers *)

\* Tier: the files it speaks for, a target for each label, and the references.
EmptyTier == [files |-> {}, targets |-> [l \in {} |-> Absent], references |-> {}]

\* update_static: take out whatever came from the changed files.
Retain(tier, changed) ==
    [files      |-> tier.files \ changed,
     targets    |-> [l \in {k \in DOMAIN tier.targets : tier.targets[k].file \notin changed}
                        |-> tier.targets[l]],
     references |-> {r \in tier.references : r.file \notin changed}]

\* collect_disk_file: what file f contributes, read as `text`.  A declaration
\* overrides the one another file made of the same label.
CollectDiskFile(tier, f, text) ==
    IF text = Absent THEN tier
    ELSE [files      |-> tier.files \cup {f},
          targets    |-> [l \in text.declares \cup DOMAIN tier.targets |->
                             IF l \in text.declares THEN [file |-> f, text |-> text]
                                                    ELSE tier.targets[l]],
          references |-> tier.references \cup
                             {[label |-> l, file |-> f, text |-> text] : l \in text.mentions}]

-----------------------------------------------------------------------------
(* What a tier promises *)

Present(disk, S) == {f \in S : disk[f] # Absent}

\* The tier says what the files of S say, no more and no less.
Exact(tier, disk, S) ==
    /\ tier.files = Present(disk, S)
    /\ DOMAIN tier.targets = UNION {disk[f].declares : f \in Present(disk, S)}
    /\ \A l \in DOMAIN tier.targets :
          LET t == tier.targets[l]
          IN  /\ t.file \in Present(disk, S)
              /\ t.text = disk[t.file]
              /\ l \in t.text.declares
    /\ tier.references =
          UNION {{[label |-> l, file |-> f, text |-> disk[f]] : l \in disk[f].mentions} :
                    f \in Present(disk, S)}

=============================================================================
