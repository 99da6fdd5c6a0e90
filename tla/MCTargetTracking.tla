-------------------------- MODULE MCTargetTracking --------------------------
(***************************************************************************)
(* Instance of TargetTracking with few places on the line and at most two  *)
(* clusters a revolution.                                                  *)
(***************************************************************************)
EXTENDS TargetTracking

CONSTANTS Places, MaxClusters   \* where clusters are, clusters a revolution

\* A cluster too small or too big leaves no trace but a gap before the next.
Clusters == [at : Places, plausible : {TRUE}]
              \cup {[at |-> 0, plausible |-> FALSE]}

\* The antenna passes them in order.
MCScenes ==
    {scene \in UNION {[1 .. n -> Clusters] : n \in 0 .. MaxClusters} :
        \A k, l \in DOMAIN scene :
            k < l => scene[l].at - scene[k].at > p_radius}
=============================================================================
