--------------------------- MODULE AnnotationStore ---------------------------
(***************************************************************************)
(* What the pod annotation controller and its IPSetManager promise of the  *)
(* objects they share with other writers, as atomic operations on the API  *)
(* server's state:                                                         *)
(*                                                                         *)
(*  - the pods: the controller's only write to a pod sets the              *)
(*    predictable-ip annotations and keeps every other annotation          *)
(*    (mergeAnnotations); the other writers create, annotate, terminate,   *)
(*    mark for deletion and remove pods;                                   *)
(*  - the table of the ipset ConfigMap, holder key to address (an absent   *)
(*    ConfigMap is an empty table): an entry is only ever inserted under a *)
(*    free key (an allocation never moves a holder's address, spec 4.3     *)
(*    step 2) or deleted (ReleaseIP).                                      *)
(*                                                                         *)
(* The caches, the copies of a reconcile and its retries are not here: the *)
(* detailed module PodAnnotation implements this one under a refinement    *)
(* mapping.                                                                *)
(***************************************************************************)
CONSTANTS
    Pods,         \* the pods
    Keys,         \* the holder keys of the table
    Addrs,        \* the addresses of the range
    NoAddr        \* no address: no annotation, a free key

VARIABLES
    pods,         \* pods[p]: [live, terminal, deleting, ann : [ip, other]]
    table         \* table[k]: the address held under key k, or NoAddr

vars == <<pods, table>>

Absent == [live |-> FALSE, terminal |-> FALSE, deleting |-> FALSE,
           ann |-> [ip |-> NoAddr, other |-> FALSE]]

Init ==
    /\ pods = [p \in Pods |-> Absent]
    /\ table = [k \in Keys |-> NoAddr]

\* The controller's Update: the predictable-ip set, the other annotations kept.
Annotate(p, ip) ==
    /\ pods[p].live
    /\ pods' = [pods EXCEPT ![p].ann.ip = ip]
    /\ UNCHANGED table

\* An allocation recorded under a free key.
Insert(k, ip) ==
    /\ table[k] = NoAddr
    /\ table' = [table EXCEPT ![k] = ip]
    /\ UNCHANGED pods

\* ReleaseIP: the entry of a key deleted.
Release(k) ==
    /\ table' = [table EXCEPT ![k] = NoAddr]
    /\ UNCHANGED pods

\* The other writers of the pods.
Create(p) ==
    /\ ~pods[p].live
    /\ pods' = [pods EXCEPT ![p] = [Absent EXCEPT !.live = TRUE]]
    /\ UNCHANGED table

OtherAnnotate(p) ==
    /\ pods[p].live
    /\ pods' = [pods EXCEPT ![p].ann.other = TRUE]
    /\ UNCHANGED table

Terminate(p) ==
    /\ pods[p].live
    /\ pods' = [pods EXCEPT ![p].terminal = TRUE]
    /\ UNCHANGED table

MarkDeleted(p) ==
    /\ pods[p].live
    /\ pods' = [pods EXCEPT ![p].deleting = TRUE]
    /\ UNCHANGED table

Remove(p) ==
    /\ pods[p].live
    /\ pods[p].deleting
    /\ pods' = [pods EXCEPT ![p] = Absent]
    /\ UNCHANGED table

Next ==
    \/ \E p \in Pods, ip \in Addrs : Annotate(p, ip)
    \/ \E k \in Keys, ip \in Addrs : Insert(k, ip)
    \/ \E k \in Keys : Release(k)
    \/ \E p \in Pods :
          Create(p) \/ OtherAnnotate(p) \/ Terminate(p) \/ MarkDeleted(p)
            \/ Remove(p)

Spec == Init /\ [][Next]_vars
=============================================================================
