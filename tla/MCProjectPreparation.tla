------------------------ MODULE MCProjectPreparation ------------------------
(***************************************************************************)
(* Model checking of ProjectPreparation: two playbooks of three items.     *)
(***************************************************************************)
EXTENDS ProjectPreparation

PlaybookQuestions == {"general", "migration"} \X (1..3)

\* A schema of all questions of a playbook, or of the first general one.
GeneralSchemas == {{"general"} \X (1..3), {<<"general", 1>>}}
SomeSchemas == GeneralSchemas \cup {{"migration"} \X (1..3)}
FirstQuestion == {<<"general", 1>>}

\* A Decision Review whose four good ratings and two bad ones are these.
Rated(good, bad) == [d \in Dimensions |-> IF d \in Inverted THEN bad ELSE good]
SomeReviews == {Rated(5, 1), Rated(3, 3), Rated(1, 5)}
=============================================================================
