---------------------------- MODULE MCBrainCase ----------------------------
(* Two manager runs at once; an active record that can expire, an id to    *)
(* stage and promote, and one to merge the two into.                       *)
EXTENDS BrainCase

CONSTANTS a, c, g

MCIds == {a, c, g}

MCMergeIds == {g}

MCClass == [i \in MCIds |-> CASE i = a -> "ephemeral" [] i = c -> "durable"
                              [] OTHER -> "project"]

(* The staged record belongs to a project and can expire: ActiveProjectKept *)
(* is violated then.                                                       *)
MCProjectClass == [MCClass EXCEPT ![c] = "project"]

MCBirths == [i \in MCIds |-> IF i = a THEN "active" ELSE "absent"]

MCSymmetry == Permutations(Managers)
=============================================================================
