-------------------------- MODULE MCPodAnnotation --------------------------
(***************************************************************************)
(* Instances of PodAnnotation for TLC.                                     *)
(***************************************************************************)
EXTENDS PodAnnotation, TLC

CONSTANTS b9, mdns, o0, o1

\* One StatefulSet with two pods: the ordinals a scale-up to two creates.
MCRolesOne == {b9}
\* The bind9 and mdns StatefulSets, one pod each: the same ordinal twice.
MCRolesTwo == {b9, mdns}
MCOrdinalsOne == {o0}
MCOrdinalsTwo == {o0, o1}

\* Nothing in the code computes with an ordinal or a role: the holder key
\* pod_<n> and the pod names are only compared.
MCSymmetry == Permutations(MCRolesTwo) \cup Permutations(MCOrdinalsTwo)
=============================================================================
