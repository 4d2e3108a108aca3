------------------------- MODULE MCExperimentPlanning -------------------------
(* Instances of ExperimentPlanning for TLC. *)
EXTENDS ExperimentPlanning, TLC

CONSTANTS v1, v2, v3, m1, m2

HandlerSymmetry == Permutations(Handlers)

\* A plan, the plan with a mapping, and a plan with another variant.
SomeDrafts == {[ids |-> {v1, v2}, ads |-> Unmapped], [ids |-> {v1, v2}, ads |-> m1],
               [ids |-> {v1, v3}, ads |-> Unmapped]}

\* Two plans, from the first edit to the owner's decision.
Approving == [operations |-> {"create", "update", "preview", "request", "decide"}, ops |-> 5, deaths |-> 0]
\* More observations than are kept, judged and evaluated, and a plan that changes.
Evidence == [operations |-> {"create", "observe", "quality", "evaluate"}, ops |-> 5, deaths |-> 0]
\* The plan is edited while a source is being read.
Reading == [operations |-> {"create", "update", "read", "quality"}, ops |-> 4, deaths |-> 1]
\* Mappings, edits of the campaign and a death between two saves.
Mapping == [operations |-> {"create", "map", "campaign", "read", "preview"}, ops |-> 4, deaths |-> 1]
\* An edit of a plan that has evidence.
Editing == [operations |-> {"create", "update", "observe"}, ops |-> 3, deaths |-> 0]

PassingScenarios == {Approving, Evidence, Reading, Mapping, Editing}
=============================================================================
