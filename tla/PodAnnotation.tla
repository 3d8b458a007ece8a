--------------------------- MODULE PodAnnotation ---------------------------
(***************************************************************************)
(* The predictable-IP pod annotation controller (PodAnnotationReconciler)  *)
(* together with the IPSetManager it calls and the objects both touch:     *)
(*                                                                         *)
(*  - the designate pods, written by the StatefulSet controller, kubelet   *)
(*    and other controllers, and by this controller (annotations);         *)
(*  - the ipset ConfigMap "designate-<network>" of IPSetManager;           *)
(*  - the bind and mdns predictable-IP ConfigMaps, written by the          *)
(*    Designate controller from GeneratePredictableIPMaps and read by      *)
(*    AllocateIP as the addresses to avoid;                                *)
(*  - the informer cache every Get of the controller reads: a copy of each *)
(*    object that lags the API server until it is synced.                  *)
(*                                                                         *)
(* The controller has one worker (controller-runtime's default             *)
(* MaxConcurrentReconciles, SetupWithManager sets no option), so one       *)
(* reconcile runs at a time; its steps interleave with the other writers   *)
(* and with the cache.  A reconcile that returns without writing (pod not  *)
(* found, already annotated, terminal, no Designate CR or network          *)
(* attachment, out of addresses) leaves every variable unchanged, which    *)
(* is a stuttering step, so those branches need no action of their own.   *)
(***************************************************************************)
EXTENDS PredictableIP

CONSTANTS
    Roles,        \* StatefulSets whose pods are annotated (bind9, mdns)
    Ordinals,     \* StatefulSet ordinals: pod <<r, i>> is named <r>-<i>;
                  \* only compared, never computed with
    MaxRetries,   \* maxRetries of updatePodAnnotationsWithRetry (5)
    MaxReplicas   \* largest replica count given to GeneratePredictableIPMaps

ASSUME ConstantsAssumption ==
    /\ Roles # {}
    /\ Ordinals # {}
    /\ MaxRetries \in Nat \ {0}
    /\ MaxReplicas \in Nat

Pods == Roles \X Ordinals

\* podKey := fmt.Sprintf("pod_%d", podIndex): the key holds the ordinal only.
Holder(p) == p[2]

(***************************************************************************)
(* A pod as the controller sees it.  ann.ip stands for the annotations the *)
(* controller writes in one Update (predictable-ip, ipset-name, pod-index, *)
(* networks); ann.other for an annotation some other writer put there.     *)
(***************************************************************************)
Annotations == [ip : Addr \cup {NoIP}, other : BOOLEAN]
PodObject == [live : BOOLEAN, terminal : BOOLEAN, deleting : BOOLEAN,
              ann : Annotations]
NoAnnotations == [ip |-> NoIP, other |-> FALSE]
NoPod == [live |-> FALSE, terminal |-> FALSE, deleting |-> FALSE,
          ann |-> NoAnnotations]
NewPod == [NoPod EXCEPT !.live = TRUE]

\* The ipset ConfigMap: its Data maps podKey to an address (NoIP: no key).
PoolData == [Ordinals -> Addr \cup {NoIP}]
EmptyData == [k \in Ordinals |-> NoIP]
ConfigMap == [exists : BOOLEAN, data : PoolData]
NoConfigMap == [exists |-> FALSE, data |-> EmptyData]

Steps == {"Idle", "CreateOrPatch", "Update", "Refetch", "ReleaseUpdate"}

VARIABLES
    pod,          \* API server: pod objects
    podCache,     \* informer cache: the pods a Get returns
    podSynced,    \* podSynced[p]: the cached pod is the server's version
    pool,         \* API server: the ipset ConfigMap
    poolCache,    \* informer cache: the ipset ConfigMap
    sibling,      \* API server: addresses of the bind and mdns ConfigMaps
    siblingCache, \* informer cache: the same
    pc,           \* where the worker is in a reconcile
    wPod,         \* the pod being reconciled
    wFresh,       \* the local *corev1.Pod is the server's current version
    wAnn,         \* the annotations of the local *corev1.Pod
    wIP,          \* predictableIP returned by AllocateIP / being released
    wAttempt,     \* attempt of the retry loop
    wKey,         \* ReleaseIP: the key of the entry it deletes
    wPoolFresh,   \* ReleaseIP: the ConfigMap it read is the current version
    queue         \* the workqueue: the pods with a pending reconcile request

podVars == <<pod, podCache, podSynced>>
poolVars == <<pool, poolCache, sibling, siblingCache>>
workerVars == <<pc, wPod, wFresh, wAnn, wIP, wAttempt, wKey, wPoolFresh>>
vars == <<podVars, poolVars, workerVars, queue>>

AnyPod == CHOOSE p \in Pods : TRUE
AnyKey == CHOOSE k \in Ordinals : TRUE

(***************************************************************************)
(* A local copy of a reconcile is modelled by whether it is still the      *)
(* server's current version (its resourceVersion) and, for the pod, by its *)
(* annotations, the only part of it the reconcile changes.  An Update of   *)
(* an outdated copy is rejected with a conflict.  ReleaseIP's ConfigMap is *)
(* only written when current, so its Update writes the server's Data with  *)
(* the one entry deleted.                                                  *)
(***************************************************************************)

-----------------------------------------------------------------------------
(***************************************************************************)
(* Helpers translated from the code.                                       *)
(***************************************************************************)

\* mergeAnnotations(existing, new): the keys of new override, the others stay.
MergeAnnotations(existing, ip) == [existing EXCEPT !.ip = ip]

\* allocatePredictableIPs for the one holder AllocateIP passes: keep an
\* existing entry, else take GetNextIP over the addresses to avoid.
AllocatePredictableIP(existing, allocated, key) ==
    IF existing[key] # NoIP THEN existing[key] ELSE GetNextIP(allocated)

\* handleConfigMap: the Data of the ipset ConfigMap the cache holds, or an
\* empty Data when the Get finds none.
HandleConfigMap == IF poolCache.exists THEN poolCache.data ELSE EmptyData

\* The table the ipset ConfigMap holds on the server, as handleConfigMap
\* reads it: an absent ConfigMap is an empty table.
PoolTable == IF pool.exists THEN pool.data ELSE EmptyData

\* AllocateIP(podIndex): holder pod_<ordinal>, its entry in the ConfigMap
\* handleConfigMap read, the bind and mdns addresses (cached) to avoid.
AllocateIP(p) == AllocatePredictableIP(HandleConfigMap, siblingCache, Holder(p))

\* The worker returns from Reconcile: back to the idle state.
Finish ==
    /\ pc' = "Idle"
    /\ wPod' = AnyPod
    /\ wFresh' = FALSE
    /\ wAnn' = NoAnnotations
    /\ wIP' = NoIP
    /\ wAttempt' = 0
    /\ wKey' = AnyKey
    /\ wPoolFresh' = FALSE

\* Mutant: an error path returns nil, and the request is dropped.
NoRequeue == UNCHANGED queue

\* The reconcile returns an error: controller-runtime adds the request back
\* to the workqueue (rate limited).
Requeue == queue' = queue \cup {wPod}

\* Some writer stores obj as pod p on the server: the cache and any copy
\* the worker holds of p are now an old version.
PodWritten(p, obj) ==
    /\ pod' = [pod EXCEPT ![p] = obj]
    /\ podSynced' = [podSynced EXCEPT ![p] = FALSE]
    /\ UNCHANGED podCache

\* The same, seen from the worker's copy.
CopyOutdated(p) == wFresh' = (wFresh /\ wPod # p)

-----------------------------------------------------------------------------
Init ==
    /\ pod = [p \in Pods |-> NoPod]
    /\ podCache = [p \in Pods |-> NoPod]
    /\ podSynced = [p \in Pods |-> TRUE]
    /\ pool = NoConfigMap
    /\ poolCache = NoConfigMap
    /\ sibling = {}
    /\ siblingCache = {}
    /\ pc = "Idle"
    /\ wPod = AnyPod
    /\ wFresh = FALSE
    /\ wAnn = NoAnnotations
    /\ wIP = NoIP
    /\ wAttempt = 0
    /\ wKey = AnyKey
    /\ wPoolFresh = FALSE
    /\ queue = {}

-----------------------------------------------------------------------------
(***************************************************************************)
(* The controller.                                                         *)
(***************************************************************************)

(***************************************************************************)
(* Reconcile of a live, non-deleted, unannotated, non-terminal pod, up to  *)
(* the write of AllocateIP: the Get of the pod, then handleConfigMap's Get *)
(* of the ipset ConfigMap (empty Data when not found) and the Gets of the  *)
(* bind and mdns ConfigMaps (skipped on error), all from the cache, and    *)
(* allocatePredictableIPs.  The reads are one step: each cached object     *)
(* may lag on its own, so reading them at one instant loses no behaviour.  *)
(* Out of addresses, the reconcile returns the error: a stutter.           *)
(***************************************************************************)
StartAllocate(p) ==
    LET c == podCache[p]
        ip == AllocateIP(p)
    IN  /\ pc = "Idle"
        /\ p \in queue
        /\ c.live
        /\ ~c.deleting
        /\ c.ann.ip = NoIP
        /\ ~c.terminal
        /\ ip # NoIP
        /\ pc' = "CreateOrPatch"
        /\ wPod' = p
        /\ wFresh' = podSynced[p]
        /\ wAnn' = c.ann
        /\ wIP' = ip
        /\ queue' = queue \ {p}
        /\ UNCHANGED <<podVars, poolVars, wAttempt, wKey, wPoolFresh>>

\* Mutant: the mutate function sets Data[podKey] to the allocated address.
PatchedPoolWithEntry == [pool EXCEPT !.data[Holder(wPod)] = wIP]

\* The Patch of an existing ConfigMap: the Get of CreateOrPatch has put the
\* server's Data back into configMap and the mutate function sets labels only.
PatchedPool == pool

(***************************************************************************)
(* controllerutil.CreateOrPatch(configMap) with Data = {podKey: ip}.  Its  *)
(* first act is a Get into configMap: when the ConfigMap is found, that    *)
(* Get overwrites the Data just set, the mutate function only sets the     *)
(* labels, and nothing of Data is patched.  When it is not found the       *)
(* ConfigMap is created with the one entry, and the Create fails with      *)
(* AlreadyExists if the cache was behind the server.                       *)
(***************************************************************************)
CreateOrPatch ==
    /\ pc = "CreateOrPatch"
    /\ \/ /\ ~poolCache.exists
          /\ ~pool.exists
          /\ pool' = [exists |-> TRUE,
                      data |-> [EmptyData EXCEPT ![Holder(wPod)] = wIP]]
          /\ pc' = "Update"
          /\ UNCHANGED <<wPod, wFresh, wAnn, wIP, wAttempt, wKey, wPoolFresh, queue>>
       \/ /\ ~poolCache.exists
          /\ pool.exists
          /\ Finish
          /\ Requeue
          /\ UNCHANGED pool
       \/ /\ poolCache.exists
          /\ pool' = PatchedPool
          /\ pc' = "Update"
          /\ UNCHANGED <<wPod, wFresh, wAnn, wIP, wAttempt, wKey, wPoolFresh, queue>>
    /\ UNCHANGED <<podVars, poolCache, sibling, siblingCache>>

(***************************************************************************)
(* One attempt of updatePodAnnotationsWithRetry: merge the annotations     *)
(* into the local pod and Update it.  The server accepts the Update only   *)
(* if the copy is its current version (resourceVersion); a conflict goes   *)
(* on to the re-fetch, any other error (the pod is gone) ends the          *)
(* reconcile.                                                              *)
(***************************************************************************)
UpdatePod ==
    LET merged == MergeAnnotations(wAnn, wIP)
    IN  /\ pc = "Update"
        /\ \/ /\ pod[wPod].live
              /\ wFresh
              /\ PodWritten(wPod, [pod[wPod] EXCEPT !.ann = merged])
              /\ Finish
              /\ UNCHANGED queue
           \/ /\ pod[wPod].live
              /\ ~wFresh
              /\ pc' = "Refetch"
              /\ wAnn' = merged
              /\ UNCHANGED <<podVars, wPod, wFresh, wIP, wAttempt, wKey, wPoolFresh,
                             queue>>
           \/ /\ ~pod[wPod].live
              /\ Finish
              /\ Requeue
              /\ UNCHANGED podVars
        /\ UNCHANGED poolVars

\* Mutant: the count of attempts starts again after a successful re-fetch.
NextAttemptReset == 0

\* attempt++ of the retry loop, which runs while attempt < maxRetries.
NextAttempt == wAttempt + 1

(***************************************************************************)
(* After a conflict: Get the pod again (from the cache) into the local     *)
(* copy, and loop while attempts remain; a failed Get, or a conflict on    *)
(* the last attempt, ends the reconcile with an error.                     *)
(***************************************************************************)
Refetch ==
    /\ pc = "Refetch"
    /\ \/ /\ ~podCache[wPod].live
          /\ Finish
          /\ Requeue
       \/ /\ podCache[wPod].live
          /\ NextAttempt = MaxRetries
          /\ Finish
          /\ Requeue
       \/ /\ podCache[wPod].live
          /\ NextAttempt < MaxRetries
          /\ pc' = "Update"
          /\ wFresh' = podSynced[wPod]
          /\ wAnn' = podCache[wPod].ann
          /\ wAttempt' = NextAttempt
          /\ UNCHANGED <<wPod, wIP, wKey, wPoolFresh, queue>>
    /\ UNCHANGED <<podVars, poolVars>>

(***************************************************************************)
(* Reconcile of a pod marked for deletion: handlePodDeletion reads the     *)
(* predictable-ip annotation and calls ReleaseIP, whose Get reads the      *)
(* ipset ConfigMap and whose loop picks an entry holding that address, in  *)
(* Go's map order (any of them).  No annotation, a failed Get (errors are  *)
(* logged and dropped) or no such entry: the reconcile returns, a stutter. *)
(***************************************************************************)
StartRelease(p) ==
    LET c == podCache[p]
    IN  /\ pc = "Idle"
        /\ p \in queue
        /\ c.live
        /\ c.deleting
        /\ c.ann.ip # NoIP
        /\ poolCache.exists
        /\ \E k \in Ordinals :
              /\ poolCache.data[k] = c.ann.ip
              /\ wKey' = k
        /\ pc' = "ReleaseUpdate"
        /\ wPod' = p
        /\ wIP' = c.ann.ip
        /\ wPoolFresh' = (poolCache = pool)
        /\ queue' = queue \ {p}
        /\ UNCHANGED <<podVars, poolVars, wFresh, wAnn, wAttempt>>

(***************************************************************************)
(* ReleaseIP's Update of the ConfigMap without the entry: rejected when    *)
(* the ConfigMap changed since the cached version was read; the error is   *)
(* logged by handlePodDeletion and the reconcile returns success, so the   *)
(* release is not retried.                                                 *)
(***************************************************************************)
ReleaseUpdate ==
    /\ pc = "ReleaseUpdate"
    /\ \/ /\ wPoolFresh
          /\ pool' = [pool EXCEPT !.data[wKey] = NoIP]
       \/ /\ ~wPoolFresh
          /\ UNCHANGED pool
    /\ Finish
    /\ UNCHANGED <<podVars, poolCache, sibling, siblingCache, queue>>

\* handlePodDeletion has an entry to release: an annotation, and ReleaseIP's
\* Get finds the ConfigMap with an entry holding that address.
CanRelease(p) ==
    LET c == podCache[p]
    IN  /\ c.ann.ip # NoIP
        /\ poolCache.exists
        /\ \E k \in Ordinals : poolCache.data[k] = c.ann.ip

(***************************************************************************)
(* A reconcile that returns nil without a write: the pod is not in the     *)
(* cache (NotFound), is marked for deletion with nothing handlePodDeletion *)
(* can release (ReleaseIP's errors are logged and dropped), is already     *)
(* annotated, or is terminal.  The request leaves the workqueue.           *)
(***************************************************************************)
ReconcileSkip(p) ==
    LET c == podCache[p]
    IN  /\ pc = "Idle"
        /\ p \in queue
        /\ \/ ~c.live
           \/ c.deleting /\ ~CanRelease(p)
           \/ ~c.deleting /\ (c.ann.ip # NoIP \/ c.terminal)
        /\ queue' = queue \ {p}
        /\ UNCHANGED <<podVars, poolVars, workerVars>>

-----------------------------------------------------------------------------
(***************************************************************************)
(* The environment: the StatefulSet controller, kubelet, other writers of  *)
(* the pods, the Designate controller and the informers.                   *)
(***************************************************************************)

\* The StatefulSet controller creates pod p (again, after a deletion).
CreatePod(p) ==
    /\ ~pod[p].live
    /\ PodWritten(p, NewPod)
    /\ CopyOutdated(p)
    /\ UNCHANGED <<poolVars, pc, wPod, wAnn, wIP, wAttempt, wKey, wPoolFresh,
                   queue>>

\* Kubelet or another controller updates pod p (status, own annotations).
OtherUpdate(p) ==
    /\ pod[p].live
    /\ PodWritten(p, [pod[p] EXCEPT !.ann.other = TRUE])
    /\ CopyOutdated(p)
    /\ UNCHANGED <<poolVars, pc, wPod, wAnn, wIP, wAttempt, wKey, wPoolFresh,
                   queue>>

\* Pod p's phase becomes Succeeded or Failed.
Terminate(p) ==
    /\ pod[p].live
    /\ ~pod[p].terminal
    /\ PodWritten(p, [pod[p] EXCEPT !.terminal = TRUE])
    /\ CopyOutdated(p)
    /\ UNCHANGED <<poolVars, pc, wPod, wAnn, wIP, wAttempt, wKey, wPoolFresh,
                   queue>>

\* Pod p gets its DeletionTimestamp (scale down, eviction, rollout).
MarkDeleted(p) ==
    /\ pod[p].live
    /\ ~pod[p].deleting
    /\ PodWritten(p, [pod[p] EXCEPT !.deleting = TRUE])
    /\ CopyOutdated(p)
    /\ UNCHANGED <<poolVars, pc, wPod, wAnn, wIP, wAttempt, wKey, wPoolFresh,
                   queue>>

\* Graceful termination ends and pod p is removed (no finalizer holds it).
Remove(p) ==
    /\ pod[p].live
    /\ pod[p].deleting
    /\ PodWritten(p, NoPod)
    /\ CopyOutdated(p)
    /\ UNCHANGED <<poolVars, pc, wPod, wAnn, wIP, wAttempt, wKey, wPoolFresh,
                   queue>>

\* The Designate controller writes the bind and mdns ConfigMaps.
SiblingWrite(b, m) ==
    /\ sibling' = GeneratePredictableIPMaps(b, m)
    /\ sibling' # sibling
    /\ UNCHANGED <<podVars, pool, poolCache, siblingCache, workerVars, queue>>

\* The informers deliver the server's current objects to the cache; the
\* event handler enqueues a request for the pod (every pod of the model
\* passes the isDesignatePod filter of SetupWithManager).
SyncPod(p) ==
    /\ ~podSynced[p]
    /\ podCache' = [podCache EXCEPT ![p] = pod[p]]
    /\ podSynced' = [podSynced EXCEPT ![p] = TRUE]
    /\ queue' = queue \cup {p}
    /\ UNCHANGED <<pod, poolVars, workerVars>>

SyncPool ==
    /\ poolCache # pool
    /\ poolCache' = pool
    /\ UNCHANGED <<podVars, pool, sibling, siblingCache, workerVars, queue>>

SyncSibling ==
    /\ siblingCache # sibling
    /\ siblingCache' = sibling
    /\ UNCHANGED <<podVars, pool, poolCache, sibling, workerVars, queue>>

\* The informer's periodic resync (the manager's SyncPeriod) delivers every
\* cached pod again.
Resync(p) ==
    /\ podCache[p].live
    /\ p \notin queue
    /\ queue' = queue \cup {p}
    /\ UNCHANGED <<podVars, poolVars, workerVars>>

-----------------------------------------------------------------------------
Controller ==
    \/ \E p \in Pods : StartAllocate(p) \/ StartRelease(p) \/ ReconcileSkip(p)
    \/ CreateOrPatch
    \/ UpdatePod
    \/ Refetch
    \/ ReleaseUpdate

Environment ==
    \/ \E p \in Pods :
          \/ CreatePod(p)
          \/ OtherUpdate(p)
          \/ Terminate(p)
          \/ MarkDeleted(p)
          \/ Remove(p)
          \/ SyncPod(p)
          \/ Resync(p)
    \/ \E b, m \in 0 .. MaxReplicas : SiblingWrite(b, m)
    \/ SyncPool
    \/ SyncSibling

Next == Controller \/ Environment

Spec == Init /\ [][Next]_vars

(***************************************************************************)
(* Fairness.  The worker takes every request off the workqueue and every   *)
(* step of a reconcile it has begun; the informers deliver every change    *)
(* and resync the cache.  The other writers of the pods and the Designate  *)
(* controller have no fairness: they may stop or go on writing.            *)
(***************************************************************************)
Fairness ==
    /\ \A p \in Pods :
          /\ WF_vars(StartAllocate(p))
          /\ WF_vars(StartRelease(p))
          /\ WF_vars(ReconcileSkip(p))
          /\ WF_vars(SyncPod(p))
          /\ WF_vars(Resync(p))
    /\ WF_vars(CreateOrPatch)
    /\ WF_vars(UpdatePod)
    /\ WF_vars(Refetch)
    /\ WF_vars(ReleaseUpdate)
    /\ WF_vars(SyncPool)
    /\ WF_vars(SyncSibling)

FairSpec == Spec /\ Fairness

-----------------------------------------------------------------------------
(***************************************************************************)
(* Properties.                                                             *)
(***************************************************************************)

\* Every variable holds a value of its type; every address anyone holds
\* (annotation, ipset entry, bind/mdns entry) lies in [RangeStart, RangeEnd).
TypeOK ==
    /\ pod \in [Pods -> PodObject]
    /\ podCache \in [Pods -> PodObject]
    /\ podSynced \in [Pods -> BOOLEAN]
    /\ pool \in ConfigMap
    /\ poolCache \in ConfigMap
    /\ sibling \subseteq Addr
    /\ siblingCache \subseteq Addr
    /\ pc \in Steps
    /\ wPod \in Pods
    /\ wFresh \in BOOLEAN
    /\ wAnn \in Annotations
    /\ wIP \in Addr \cup {NoIP}
    /\ wAttempt \in 0 .. (MaxRetries - 1)
    /\ wKey \in Ordinals
    /\ wPoolFresh \in BOOLEAN
    /\ queue \subseteq Pods

(***************************************************************************)
(* Two running pods never carry the same predictable-ip: the purpose of    *)
(* the ipset ConfigMap (spec 3 and 8: addresses of one pool are distinct). *)
(***************************************************************************)
Running(p) == pod[p].live /\ ~pod[p].deleting /\ ~pod[p].terminal

UniqueAddresses ==
    \A p, q \in Pods :
        (/\ p # q
         /\ Running(p)
         /\ Running(q)
         /\ pod[p].ann.ip # NoIP) => pod[p].ann.ip # pod[q].ann.ip

(***************************************************************************)
(* A pod's predictable-ip, once written, never changes while the pod       *)
(* lives: spec 4.3 step 2, a duplicate event must not move a member's      *)
(* address, and 3, the annotation is immutable.                            *)
(***************************************************************************)
AnnotationStable ==
    [][\A p \in Pods :
          (pod[p].live /\ pod'[p].live /\ pod[p].ann.ip # NoIP) =>
             pod'[p].ann.ip = pod[p].ann.ip
      ]_vars


(***************************************************************************)
(* No request is lost: whenever the worker is idle, a pod that the cache   *)
(* shows current and that Reconcile would annotate is in the workqueue.    *)
(* Every error path of Reconcile returns the error so that the request is  *)
(* requeued (out of addresses, AlreadyExists from a stale cache, a pod     *)
(* gone during the update, retries exhausted), so a pod left unannotated   *)
(* is retried until the range has room, without waiting for an event.      *)
(***************************************************************************)
WantsAddress(p) ==
    LET c == podCache[p]
    IN  c.live /\ ~c.deleting /\ c.ann.ip = NoIP /\ ~c.terminal

NoLostRequest ==
    \A p \in Pods :
        (pc = "Idle" /\ podSynced[p] /\ WantsAddress(p)) => p \in queue

(***************************************************************************)
(* Every reconcile the worker begins returns, however often other writers  *)
(* change the pod: updatePodAnnotationsWithRetry gives up after maxRetries *)
(* conflicts, so one pod cannot hold the single worker for ever.           *)
(***************************************************************************)
ReconcileTerminates == (pc # "Idle") ~> (pc = "Idle")

(***************************************************************************)
(* A pod marked for deletion has its address released from the ipset      *)
(* ConfigMap (spec 4.4: "deletion requested: release address if            *)
(* annotation present"; spec 8: deleting a member releases its address),   *)
(* unless the StatefulSet creates the pod again, which then keeps the      *)
(* entry of its holder key.                                                *)
(***************************************************************************)
ReleaseOnDeletion ==
    \A p \in Pods, a \in Addr :
        (pod[p].deleting /\ pod[p].ann.ip = a /\ PoolTable[Holder(p)] = a)
            ~> (PoolTable[Holder(p)] # a \/ (pod[p].live /\ ~pod[p].deleting))

-----------------------------------------------------------------------------
(***************************************************************************)
(* Refinement.  The API server's pods and the ipset ConfigMap's table      *)
(* (handleConfigMap reads an absent ConfigMap as an empty table) behave as *)
(* AnnotationStore says: the caches, the workqueue, the worker's copies    *)
(* and the bind and mdns ConfigMaps are internal.                          *)
(***************************************************************************)
Store == INSTANCE AnnotationStore
             WITH Keys <- Ordinals, Addrs <- Addr, NoAddr <- NoIP,
                  pods <- pod, table <- PoolTable

(***************************************************************************)
(* PodAnnotation implements AnnotationStore: every Update the controller   *)
(* makes of a pod, after any interleaving of re-fetches, conflicts and     *)
(* stale cache reads, is an atomic merge of the predictable-ip into the    *)
(* pod's current annotations, and every write of the ipset ConfigMap       *)
(* either inserts an entry under a free holder key (never moving an        *)
(* address a holder has, spec 4.3 step 2) or deletes one entry.            *)
(***************************************************************************)
StoreRefinement == Store!Spec
=============================================================================
