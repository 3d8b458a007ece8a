--------------------------- MODULE MCPodIdentity ---------------------------
(***************************************************************************)
(* TLC instances of PodIdentity.                                           *)
(***************************************************************************)
EXTENDS PodIdentity

\* A Deployment of the same operator, and a pod of another application.
MCOtherHeads == {"designate-api", "unrelated"}
=============================================================================
