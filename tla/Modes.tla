------------------------------- MODULE Modes -------------------------------
(***************************************************************************)
(* Which of the mode flags of the command line may go together (modes.py   *)
(* and the agent checks of cli.main), and which mode an accepted command   *)
(* line runs (the end of cli.main).                                        *)
(***************************************************************************)
EXTENDS Naturals, FiniteSets

Emit    == {"emit-critique-prompt", "emit-graph", "emit-graph-prompt",
            "activation-hypotheses", "agent-reason"}
Ingest  == {"ingest-critique", "ingest-graph"}
Ledger  == {"history", "show-history"}
Modes   == Emit \cup Ingest \cup Ledger \cup {"analyze-graph"}

(* Emit modes and augmenting flags that may not be combined. *)
Pairwise == {{"emit-critique-prompt", "ingest-critique"}, {"emit-graph", "analyze-graph"},
             {"emit-graph", "ingest-critique"}, {"emit-graph-prompt", "ingest-critique"},
             {"emit-graph-prompt", "analyze-graph"}, {"emit-graph-prompt", "ingest-graph"},
             {"ingest-graph", "emit-graph"}, {"ingest-graph", "emit-critique-prompt"},
             {"ingest-graph", "analyze-graph"}}

(* --agent-reason is no emit mode beside an ingest flag. *)
Active(given) == IF given \cap Ingest = {} THEN given ELSE given \ {"agent-reason"}

ModeConflictListed(given) ==    \* slip: only the table is consulted
    \E pair \in Pairwise : pair \subseteq Active(given)

ModeConflict(given) ==
    LET emits == Active(given) \cap Emit
    IN  \/ Cardinality(emits) > 1
        \/ \E pair \in Pairwise : pair \subseteq Active(given)
        \/ emits # {} /\ given \cap Ledger # {}
        \/ Ledger \subseteq given

(* A variant of a prompt was chosen, and no prompt or answer is asked for. *)
AgentUnused(given, o) ==
    \/ o.critique_agent # "none"
       /\ given \cap {"emit-critique-prompt", "agent-reason", "ingest-critique"} = {}
    \/ o.graph_agent # "none"
       /\ given \cap {"emit-graph-prompt", "agent-reason", "ingest-graph"} = {}

(* The dispatch asks for one mode after the other; each ends the program. *)
Order == <<"show-history", "emit-graph", "emit-critique-prompt", "emit-graph-prompt",
           "agent-reason", "activation-hypotheses">>
Asks(given, mode) == mode \in given /\ (mode = "agent-reason" => given \cap Ingest = {})

Dispatch(given) ==
    IF \E i \in DOMAIN Order : Asks(given, Order[i])
    THEN Order[CHOOSE i \in DOMAIN Order :
                   /\ Asks(given, Order[i])
                   /\ \A j \in 1 .. i - 1 : ~Asks(given, Order[j])]
    ELSE "validate"
=============================================================================
