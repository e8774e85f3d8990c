----------------------------- MODULE Invocation -----------------------------
(***************************************************************************)
(* One run of the tracemantle command (cli.main): it looks for the project *)
(* settings of every target, reads them file by file, puts the command     *)
(* line over them, refuses what may not go together, collects the skills   *)
(* below the targets, looks for the settings of each of them again, and    *)
(* prints or judges the skills one by one.  An editor changes settings and *)
(* skills meanwhile.                                                       *)
(***************************************************************************)
EXTENDS SkillRules, Settings, Modes

CONSTANTS Folder,       \* the directory of every file that may be a target
          Skills,       \* those of them that exist: the SKILL.md files
          Sorted,       \* the skills in the order of their paths
          Walk,         \* the directories in the order of os.walk
          Hidden,       \* .git, .venv, __pycache__, .tracemantle
          MaxFiles,     \* MAX_SCAN_FILES
          MaxBytes,     \* MAX_SCAN_BYTES, for all the texts of a batch
          Worlds,       \* settings files, skills and a command line to begin with
          Saves, Texts, \* settings files and texts that the editor may save
          MaxEdits      \* bounds the editor

VARIABLES disk,     \* the settings files
          draft,    \* the text of every skill
          cmd,      \* the command line
          edits, reconfigured,   \* what the editor did, and whether to settings
          step,     \* what the command does next
          target,   \* the number of the target whose settings are read
          here,     \* the settings files of that target
          todo,     \* those of them that are still to be read
          loaded,   \* the settings of the first target
          found,    \* the settings files of the first target (config_paths)
          options,  \* the settings in force
          batch,    \* the skills of the command
          paths,    \* those of them that are still to be confirmed or judged
          reports,  \* what was found, in which text and under which settings
          scanned,  \* the size of the texts that were judged
          outcome   \* how the command ended, and in which mode

world == <<disk, draft, cmd, edits, reconfigured>>
reading == <<target, here, todo, loaded, found>>
work == <<options, batch, paths, reports, scanned>>
vars == <<world, reading, work, step, outcome>>

Steps == {"search", "load", "load again", "settle", "collect", "confirm", "dispatch",
          "print", "judge", "end"}
Kinds == {"running", "refused", "traceback", "printed", "incomplete", "shown", "none to show", "judged"}

(* What argparse accepts: one target or more, an option for every setting   *)
(* but the frontmatter options, flags that can only be set, the choices.   *)
Accepted(c) ==
    /\ Len(c.targets) > 0 /\ Cardinality(c.config) <= 1
    /\ c.modes \subseteq Modes \ {"history", "analyze-graph"}
    /\ DOMAIN c.explicit \subseteq Fields \ {"extension_fields", "reserved_words"}
    /\ \A f \in DOMAIN c.explicit :
          LET v == c.explicit[f]
          IN  CASE f \in Flags -> v = TRUE
                [] f = "tokenizer" -> v \in {"heuristic", "tiktoken"}
                [] f = "format" -> v \in {"text", "json", "md", "agent", "github"}
                [] f = "target_agent" -> v \in {"claude", "vscode", "cursor", "all"}
                [] f \in {"critique_agent", "graph_agent"} -> v \in {"claude", "codex", "cursor"}
                [] OTHER -> TRUE

Rated(text) == (\A r \in text.references : r[2] \in Severities) /\ text.size \in Nat

ASSUME InvocationAssumption ==
    /\ Folder \in [DOMAIN Folder -> Dirs]
    /\ Skills \subseteq DOMAIN Folder
    /\ Sorted \in Seq(Skills) /\ \A s \in Skills : \E i \in DOMAIN Sorted : Sorted[i] = s
    /\ MaxFiles \in Nat \ {0} /\ MaxBytes \in Nat /\ MaxEdits \in Nat
    /\ \A w \in Worlds :
          /\ DOMAIN w.files = Paths /\ \A p \in Paths : SettingsFile(w.files[p])
          /\ DOMAIN w.texts = Skills /\ \A s \in Skills : Rated(w.texts[s])
          /\ Accepted(w.line) /\ w.line.config \subseteq Paths
          /\ w.line.targets \in Seq(Dirs \cup DOMAIN Folder)
    /\ \A s \in Saves : s.path \in Paths /\ SettingsFile(s.file)
    /\ \A text \in Texts : Rated(text)

Ends(kind, mode) == outcome' = [kind |-> kind, mode |-> mode] /\ step' = "end"
Refuses == Ends("refused", "none")
Goes(next) == step' = next /\ UNCHANGED outcome
-----------------------------------------------------------------------------
(* _apply_config: the settings of each target are read, file by file.  Of  *)
(* the targets after the first only the paths count.                       *)
Start(t) == IF t \in Dirs THEN t ELSE Folder[t]

Search ==
    LET s == ProjectConfigs(disk, Start(cmd.targets[target]))
    IN  /\ step = "search"
        /\ here' = IF cmd.config # {} THEN cmd.config ELSE s.paths
        /\ todo' = InOrder(here')
        /\ IF cmd.config = {} /\ s.error THEN Refuses ELSE Goes("load")
        /\ UNCHANGED <<world, work, target, loaded, found>>

Load ==
    LET path == Head(todo)
    IN  /\ step = "load" /\ todo # <<>>
        /\ IF disk[path].is # "good" THEN Refuses /\ UNCHANGED <<todo, loaded>>
           ELSE /\ loaded' = IF target = 1 THEN Override(loaded, Values(path, disk[path])) ELSE loaded
                /\ IF path[2] = "pyproject.toml" THEN Goes("load again") /\ UNCHANGED todo
                   ELSE todo' = Tail(todo) /\ Goes("load")
        /\ UNCHANGED <<world, work, target, here, found>>

(* A pyproject.toml is read once more, to tell whether it is of the old    *)
(* kind; nothing catches a TOMLDecodeError there.                          *)
LoadAgain ==
    /\ step = "load again"
    /\ LET is == disk[Head(todo)].is
       IN  IF is = "broken" THEN Ends("traceback", "none")
           ELSE IF is \in {"absent", "unreadable"} THEN Refuses ELSE Goes("load")
    /\ todo' = Tail(todo)
    /\ UNCHANGED <<world, work, target, here, loaded, found>>

NextTargetLate ==    \* slip: the number of the target is advanced after the last one as well
    /\ step = "load" /\ todo = <<>>
    /\ found' = IF target = 1 THEN here ELSE found
    /\ IF here # found' THEN Refuses /\ UNCHANGED target
       ELSE target' = target + 1 /\ Goes(IF target = Len(cmd.targets) THEN "settle" ELSE "search")
    /\ UNCHANGED <<world, work, here, todo, loaded>>

NextTarget ==
    /\ step = "load" /\ todo = <<>>
    /\ found' = IF target = 1 THEN here ELSE found
    /\ IF here # found' THEN Refuses /\ UNCHANGED target
       ELSE IF target = Len(cmd.targets) THEN Goes("settle") /\ UNCHANGED target
       ELSE Goes("search") /\ target' = target + 1
    /\ UNCHANGED <<world, work, here, todo, loaded>>
-----------------------------------------------------------------------------
(* The flags that choose a mode, from the command line and the settings. *)
Chosen(o) ==
    cmd.modes \cup (IF o.history THEN {"history"} ELSE {})
              \cup (IF o.analyze_graph \/ (o.semantic /\ "ingest-graph" \notin cmd.modes)
                    THEN {"analyze-graph"} ELSE {})

(* Settings files are not checked for the choices argparse knows. *)
Valid(o) ==
    /\ o.format \in {"text", "json", "md", "agent", "github"}
    /\ o.target_agent \in {"claude", "vscode", "cursor", "all"}
    /\ {o.critique_agent, o.graph_agent} \subseteq {"none", "claude", "codex", "cursor"}

(* _warn_on_stale_profiles: its options need the check, and the check a     *)
(* positive age and a registry it can read; what it warns of ends nothing.  *)
ProfilesRefused(f) ==
    IF f.check THEN f.days < 1 \/ ~f.readable ELSE f.configured

Settle ==
    /\ step = "settle"
    /\ options' = InForce(loaded, cmd.explicit)
    /\ IF \/ ~Valid(options') \/ ModeConflict(Chosen(options'))
          \/ ProfilesRefused(cmd.profiles) \/ AgentUnused(Chosen(options'), options')
       THEN Refuses ELSE Goes("collect")
    /\ UNCHANGED <<world, reading, batch, paths, reports, scanned>>
-----------------------------------------------------------------------------
(* The directories that os.walk visits below a directory, and the skills   *)
(* they hold; the limit is checked when a directory is entered.            *)
Visited(t) ==
    LET reached[d \in Dirs] == d = t \/ (d \notin Hidden /\ Parent[d] # d /\ reached[Parent[d]])
    IN  {d \in Dirs : reached[d]}
Last(dirs) == CHOOSE d \in dirs : \E i \in DOMAIN Walk :
                  Walk[i] = d /\ \A j \in i + 1 .. Len(Walk) : Walk[j] \notin dirs
In(dirs) == {s \in Skills : Folder[s] \in dirs}
Below(t) == IF t \in Dirs THEN In(Visited(t)) ELSE {t}
TooMany(t) == t \in Dirs /\ Cardinality(In(Visited(t) \ {Last(Visited(t))})) >= MaxFiles

Collect ==
    LET targets == {cmd.targets[i] : i \in DOMAIN cmd.targets}
        all == UNION {Below(t) : t \in targets}
    IN  /\ step = "collect"
        /\ IF \/ \E t \in targets : t \notin Dirs \cup Skills \/ TooMany(t) \/ Below(t) = {}
              \/ Cardinality(all) > MaxFiles
           THEN Refuses /\ UNCHANGED <<batch, paths>>
           ELSE batch' = all /\ paths' = all /\ Goes("confirm")
        /\ UNCHANGED <<world, reading, options, reports, scanned>>

First(set) == Sorted[CHOOSE i \in DOMAIN Sorted :
                  Sorted[i] \in set /\ \A j \in 1 .. i - 1 : Sorted[j] \notin set]

(* resolve_paths: every skill must have the settings files of the first    *)
(* target.  Nothing catches the ConfigError of a file that cannot be read. *)
ConfirmTargets ==    \* slip: what was found for the targets is taken for the skills below them
    /\ step = "confirm"
    /\ Goes("dispatch") /\ paths' = batch
    /\ UNCHANGED <<world, reading, options, batch, reports, scanned>>

Confirm ==
    /\ step = "confirm"
    /\ IF cmd.config # {} \/ paths = {} THEN Goes("dispatch") /\ paths' = batch
       ELSE LET s == ProjectConfigs(disk, Folder[First(paths)])
            IN  /\ IF s.error THEN Ends("traceback", "none")
                   ELSE IF s.paths # found THEN Refuses ELSE Goes("confirm")
                /\ paths' = paths \ {First(paths)}
    /\ UNCHANGED <<world, reading, options, batch, reports, scanned>>
-----------------------------------------------------------------------------
Mode == Dispatch(Chosen(options))

(* run_show_history prints the ledger of the first skill, if there is one. *)
ShowHistory ==
    /\ step = "dispatch" /\ Mode = "show-history"
    /\ \E kind \in {"shown", "none to show"} : Ends(kind, Mode)
    /\ UNCHANGED <<world, reading, work>>

(* An answer is about one skill. *)
Begin ==
    /\ step = "dispatch" /\ Mode # "show-history"
    /\ IF Mode # "validate" THEN Goes("print")
       ELSE IF Cardinality(batch) > 1 /\ cmd.modes \cap Ingest # {} THEN Refuses
       ELSE Goes("judge")
    /\ UNCHANGED <<world, reading, work>>

(* An emit mode prints one document after the other; those that cannot be  *)
(* read, or whose graph is over its limits, are named as errors.  A graph  *)
(* that the constructor refuses ends the command.                          *)
EmitOne ==
    LET s == First(paths)
        graph == IF Mode = "emit-graph" /\ draft[s].readable THEN draft[s].graph ELSE "fine"
    IN  /\ step = "print" /\ paths # {}
        /\ IF graph = "clash" THEN Ends("traceback", Mode) ELSE Goes("print")
        /\ reports' = [p \in DOMAIN reports \cup {s} |->
                          IF p # s THEN reports[p]
                          ELSE [text |-> draft[s], with |-> options,
                                says |-> IF draft[s].readable /\ graph = "fine" THEN {}
                                         ELSE {<<<<"parse", "error">>, "error">>}]]
        /\ paths' = paths \ {s}
        /\ UNCHANGED <<world, reading, options, batch, scanned>>

Emitted ==
    /\ step = "print" /\ paths = {}
    /\ Ends(IF \A p \in batch : reports[p].says = {} THEN "printed" ELSE "incomplete", Mode)
    /\ UNCHANGED <<world, reading, work>>

(* run_validation judges one skill after the other.  When MAX_SCAN_BYTES is *)
(* used up, or not enough is left of it for a text, no text is read.       *)
Parsed(s) == IF scanned < MaxBytes /\ scanned + draft[s].size <= MaxBytes THEN draft[s]
             ELSE [draft[s] EXCEPT !.readable = FALSE]

JudgeOne ==
    LET s == First(paths)
        text == Parsed(s)
    IN  /\ step = "judge" /\ paths # {}
        /\ reports' = [p \in DOMAIN reports \cup {s} |->
                          IF p = s THEN [text |-> text, with |-> options,
                                         says |-> Kept(Judge(text, options), options)]
                          ELSE reports[p]]
        /\ scanned' = IF text.readable THEN scanned + text.size ELSE scanned
        /\ paths' = paths \ {s} /\ Goes("judge")
        /\ UNCHANGED <<world, reading, options, batch>>

Judged ==
    /\ step = "judge" /\ paths = {} /\ Ends("judged", "validate")
    /\ UNCHANGED <<world, reading, work>>
-----------------------------------------------------------------------------
Command == \/ Search \/ Load \/ LoadAgain \/ NextTarget \/ Settle \/ Collect \/ Confirm
           \/ ShowHistory \/ Begin \/ EmitOne \/ Emitted \/ JudgeOne \/ Judged

Edit == /\ edits < MaxEdits /\ step # "end"
        /\ edits' = edits + 1
        /\ UNCHANGED <<cmd, reading, work, step, outcome>>

(* The editor saves, breaks or removes a settings file, or saves a skill. *)
Reconfigure(path, file) ==
    /\ Edit /\ disk[path] # file
    /\ disk' = [disk EXCEPT ![path] = file] /\ reconfigured' = TRUE /\ UNCHANGED draft
Rewrite(s, text) ==
    /\ Edit /\ draft[s] # text
    /\ draft' = [draft EXCEPT ![s] = text] /\ UNCHANGED <<disk, reconfigured>>

(* The command has ended. *)
Ended == step = "end" /\ UNCHANGED vars

Init ==
    /\ \E w \in Worlds : disk = w.files /\ draft = w.texts /\ cmd = w.line
    /\ edits = 0 /\ reconfigured = FALSE
    /\ step = "search" /\ target = 1 /\ here = {} /\ todo = <<>> /\ loaded = Nothing /\ found = {}
    /\ options = Defaults /\ batch = {} /\ paths = {} /\ reports = Nothing /\ scanned = 0
    /\ outcome = [kind |-> "running", mode |-> "none"]

Next == \/ Command
        \/ \E s \in Saves : Reconfigure(s.path, s.file)
        \/ \E s \in Skills, text \in Texts : Rewrite(s, text)
        \/ Ended

Spec == Init /\ [][Next]_vars
-----------------------------------------------------------------------------
TypeOK ==
    /\ DOMAIN disk = Paths /\ \A p \in Paths : disk[p].is \in Readings
    /\ DOMAIN draft = Skills /\ Accepted(cmd)
    /\ step \in Steps /\ outcome.kind \in Kinds
    /\ outcome.mode \in {"none", "validate"} \cup {Order[i] : i \in DOMAIN Order}
    /\ step = "end" <=> outcome.kind # "running"
    /\ target \in 1 .. Len(cmd.targets)
    /\ here \subseteq Paths /\ found \subseteq Paths
    /\ \A i \in DOMAIN todo : todo[i] \in here
    /\ DOMAIN loaded \subseteq Fields /\ DOMAIN options = Fields
    /\ paths \subseteq batch /\ batch \subseteq Skills /\ DOMAIN reports \subseteq batch
    /\ \A p \in DOMAIN reports : \A f \in reports[p].says : f[2] \in Severities
    /\ scanned \in 0 .. MaxBytes /\ edits \in 0 .. MaxEdits

(* What the files of a directory say of a field, weakest first. *)
Layers(d) ==
    LET at(n) == disk[<<d, n>>]
        alone(n) == Values(<<d, n>>, at(n))
    IN  <<alone("skillcheck.toml"), at("pyproject.toml").legacy, at("pyproject.toml").canonical,
          alone("tracemantle.toml")>>

Ups(d) == LET up[e \in Dirs] == {e} \cup (IF e \in Stops THEN {} ELSE up[Parent[e]]) IN up[d]

(* What a skill asks for: the command line first, then the files of the    *)
(* nearest directory that has some, the strongest first.                   *)
Asked(p, f) ==
    LET roots == {d \in Ups(Folder[p]) : Found(disk, d) # {}}
        layers == Layers(CHOOSE d \in roots : \A e \in roots : e \in Ups(d))
        says == {i \in 1 .. 4 : f \in DOMAIN layers[i]}
    IN  IF f \in DOMAIN cmd.explicit THEN cmd.explicit[f]
        ELSE IF roots = {} \/ says = {} THEN Defaults[f]
        ELSE layers[CHOOSE i \in says : \A j \in says : j <= i][f]

(* Every skill of a batch is judged as if it were alone: by the explicit   *)
(* flags, then by tracemantle.toml, [tool.tracemantle], [tool.skillcheck]  *)
(* and skillcheck.toml of the project it lies in, wherever the targets of  *)
(* the command point, if nobody changes the settings meanwhile             *)
(* (config_loader.py:215-257, cli.py:353-378, commands.py:137).            *)
OwnSettings ==
    ~reconfigured /\ cmd.config = {} =>
        \A p \in DOMAIN reports : \A f \in Fields :
            reports[p].with[f] =
                IF f \in {"strict_vscode", "strict_cursor"} THEN Asked(p, f) \/ Asked(p, "strict_all")
                ELSE IF f = "reserved_words" /\ Asked(p, f) = {} THEN DefaultReserved
                ELSE Asked(p, f)

(* What a command may have been asked for beside the mode it runs in.  A   *)
(* validation does all of this; the others do none of it (cli.py:448-477). *)
Beside(mode) ==
    CASE mode = "validate" -> {"analyze-graph", "history", "agent-reason"} \cup Ingest
      [] mode \in {"show-history", "activation-hypotheses"} ->
             {"analyze-graph", "agent-reason"} \cup Ingest
      [] mode \in {"emit-critique-prompt", "agent-reason"} -> {"analyze-graph"}
      [] OTHER -> {}

(* A command that ran did what it was asked for, by the command line or by *)
(* a settings file: the mode it ran in is one of those that were chosen,   *)
(* and no other one was but those a validation includes.  What is accepted *)
(* and passed over is this and nothing else: the analysis of the graph     *)
(* beside --show-history, --activation-hypotheses, --emit-critique-prompt  *)
(* and --agent-reason, an answer beside the first two (modes.py:96-144).   *)
(* No prompt, graph or record that was asked for is passed over.           *)
OneMeaning ==
    outcome.mode # "none" =>
        LET chosen == Chosen(options)
        IN  /\ outcome.mode = "validate" \/ outcome.mode \in chosen
            /\ chosen \subseteq {outcome.mode} \cup Beside(outcome.mode)
            /\ "agent-reason" \in chosen =>
                   outcome.mode = "agent-reason" \/ chosen \cap Ingest # {}

Strict(s) == [s EXCEPT !.strict_vscode = TRUE, !.strict_cursor = TRUE, !.strict_all = TRUE]
Rest(findings) == {f \in findings : f[1][1] # "compat"}

(* The strict flags only tighten: for no skill, whatever agent it is       *)
(* checked for and whatever prefixes are ignored, do they take a finding   *)
(* away or make it milder, and they change nothing but the advice about    *)
(* agents (rules/__init__.py:145-170, compat.py:159-236).                  *)
StrictOnlyTightens ==
    \A p \in DOMAIN reports :
        LET r == reports[p]
            severe == Kept(Judge(r.text, Strict(r.with)), Strict(r.with))
        IN  outcome.mode = "validate" \/ step = "judge" =>
                Covers(severe, r.says) /\ Rest(severe) = Rest(r.says)
=============================================================================
