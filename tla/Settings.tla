------------------------------ MODULE Settings ------------------------------
(***************************************************************************)
(* Project settings (config_loader.py): the files of one directory that    *)
(* may hold them, the search for the nearest directory that has some, the  *)
(* values of a file and the order in which files, and the command line,    *)
(* override each other.  Settings are functions from the fields that were  *)
(* supplied to values.                                                     *)
(***************************************************************************)
EXTENDS Naturals, Sequences, FiniteSets

CONSTANTS Dirs, Parent,   \* the directories and the one above each
          Stops           \* those with a .git, the home directory and the root

(* Whoever goes up comes to one of these. *)
ASSUME DirsAssumption ==
    /\ Parent \in [Dirs -> Dirs]
    /\ Stops \subseteq Dirs
    /\ \A D \in SUBSET (Dirs \ Stops) : D # {} => \E d \in D : Parent[d] \notin D

(* The files of a directory, weakest first. *)
Names == <<"skillcheck.toml", "pyproject.toml", "tracemantle.toml">>
Paths == {<<d, Names[i]>> : d \in Dirs, i \in 1 .. 3}

Fields == {"tokenizer", "format", "max_lines", "max_tokens", "min_desc_score", "target_agent",
           "strict_vscode", "strict_cursor", "strict_all", "skip_dirname_check", "skip_ref_check",
           "ignore", "analyze_graph", "semantic", "history", "critique_agent", "graph_agent",
           "extension_fields", "reserved_words"}
Flags == {"strict_vscode", "strict_cursor", "strict_all", "skip_dirname_check", "skip_ref_check",
          "analyze_graph", "semantic", "history"}

DefaultReserved == {"anthropic", "claude"}
Defaults ==
    [f \in Fields |->
        CASE f \in Flags -> FALSE
          [] f = "tokenizer" -> "heuristic" [] f = "format" -> "text" [] f = "target_agent" -> "all"
          [] f = "max_lines" -> 500 [] f = "max_tokens" -> 8000 [] f = "min_desc_score" -> 0
          [] f \in {"critique_agent", "graph_agent"} -> "none"
          [] f = "reserved_words" -> DefaultReserved
          [] OTHER -> {}]

Nothing == [f \in {} |-> {}]
Override(weak, strong) ==
    [f \in DOMAIN weak \cup DOMAIN strong |-> IF f \in DOMAIN strong THEN strong[f] ELSE weak[f]]

(* A file: unreadable (by its size, its bytes or its permissions), broken   *)
(* (no TOML), wrong (a key or a value that is not known) or good.  "tool"   *)
(* tells whether it has a [tool] table, "spaces" are our namespaces in it.  *)
Readings == {"absent", "unreadable", "broken", "wrong", "good"}
Absent == [is |-> "absent", tool |-> FALSE, spaces |-> {},
           legacy |-> Nothing, canonical |-> Nothing, own |-> Nothing]

(* Files that are not there, and tables that are not, say nothing. *)
SettingsFile(file) ==
    /\ file.is \in Readings
    /\ file.is = "absent" => ~file.tool /\ file.own = Nothing
    /\ file.spaces = {} => file.legacy = Nothing /\ file.canonical = Nothing
    /\ file.tool \in BOOLEAN /\ (file.spaces # {} => file.tool)
    /\ \A values \in {file.own, file.legacy, file.canonical} : DOMAIN values \subseteq Fields

(* Beside any [tool] table the keys of the file itself do not count. *)
Namespaced(path, file) == path[2] = "pyproject.toml" \/ file.tool
Values(path, file) ==
    IF Namespaced(path, file) THEN Override(file.legacy, file.canonical) ELSE file.own

(* The files of a directory that count: a pyproject.toml is read for that. *)
Unsearchable(disk, d) == disk[<<d, "pyproject.toml">>].is \in {"unreadable", "broken"}
Counts(disk, path) ==
    /\ disk[path].is # "absent"
    /\ path[2] = "pyproject.toml" => disk[path].spaces # {}
Found(disk, d) == {path \in {<<d, Names[i]>> : i \in 1 .. 3} : Counts(disk, path)}

ProjectConfigs(disk, start) ==
    LET search[d \in Dirs] ==
            IF Unsearchable(disk, d) THEN [error |-> TRUE, paths |-> {}]
            ELSE IF Found(disk, d) # {} \/ d \in Stops
                 THEN [error |-> FALSE, paths |-> Found(disk, d)]
                 ELSE search[Parent[d]]
    IN  search[start]

InOrder(paths) ==
    LET named(n) == IF \E p \in paths : p[2] = n THEN <<CHOOSE p \in paths : p[2] = n>> ELSE <<>>
    IN  named(Names[1]) \o named(Names[2]) \o named(Names[3])

(* What is in force: the command line over the files over the defaults. An *)
(* empty list of reserved words counts as none, and strict turns on both   *)
(* strict modes.                                                           *)
InForce(loaded, explicit) ==
    LET merged == Override(Override(Defaults, loaded), explicit)
    IN  [merged EXCEPT !.reserved_words = IF @ = {} THEN DefaultReserved ELSE @,
                       !.strict_vscode = @ \/ merged.strict_all,
                       !.strict_cursor = @ \/ merged.strict_all]
=============================================================================
