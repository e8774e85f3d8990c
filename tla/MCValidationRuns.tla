-------------------------- MODULE MCValidationRuns --------------------------
EXTENDS ValidationRuns, TLC

(* Text t1 is sound; t2 has a warning, which is an error when the other files *)
(* are p2; t3 cannot be parsed.                                               *)
MCFound == [x \in Texts \X Parts \X BOOLEAN |->
              IF x[1] = "t2" THEN {<<"symbolic", IF x[2] = "p2" THEN "error" ELSE "warning">>} ELSE {}]
File(t, p) == [text |-> t, part |-> p]
MCContents == [s \in Skills |-> IF s = "a" THEN {File("t2", "p1"), File("t2", "p2"), File("t3", "p1")}
                                ELSE {File("t1", "p1")}]
MCSymmetry == Permutations(Runs)
MCGraph == [t \in Texts |-> IF t = "t2" THEN {<<"graph", "warning">>} ELSE {}]

Plain == [paths |-> <<"a">>, strict |-> FALSE, failing |-> FALSE,
          analyze |-> FALSE, ignore |-> {}, ingest |-> {}, critique |-> {}, graph |-> {}]
Critic == [Plain EXCEPT !.failing = TRUE, !.ingest = {"critique"}, !.critique = {"error"}]
Batch == [Plain EXCEPT !.paths = <<"a", "b">>]
MCRequests == {Plain, Critic, Batch, [Batch EXCEPT !.ingest = {"graph"}],
               [Plain EXCEPT !.strict = TRUE, !.analyze = TRUE],
               [Critic EXCEPT !.critique = Garbled, !.ignore = Semantic \cup History]}
=============================================================================
