------------------------ MODULE PodAnnotationProofs ------------------------
(***************************************************************************)
(* Proofs about PodAnnotation for every value of the constants: every      *)
(* state is well typed, the controller implements AnnotationStore, and no *)
(* pod that needs an address is left out of the workqueue.                 *)
(***************************************************************************)
EXTENDS PodAnnotation, WellFoundedInduction, TLAPS

(***************************************************************************)
(* The inductive invariant.  The Update of updatePodAnnotationsWithRetry   *)
(* reads only the local copy, so that it is an Annotate of AnnotationStore *)
(* rests on three facts:                                                   *)
(*  - the informer cache holds the server's object whenever it claims to   *)
(*    be synced (so a Get that reads a synced pod reads the current one);  *)
(*  - a copy the server would accept (wFresh) has the server's             *)
(*    annotations, and only the allocating steps hold such a copy;         *)
(*  - an allocation that reaches CreateOrPatch, Update or the re-fetch has *)
(*    an address (AllocateIP returned no error).                           *)
(***************************************************************************)
CacheCoherent == \A p \in Pods : podSynced[p] => podCache[p] = pod[p]

CopyCoherent ==
    wFresh => /\ pc \in {"CreateOrPatch", "Update"}
              /\ wAnn = pod[wPod].ann

AllocationHasIP == pc \in {"CreateOrPatch", "Update", "Refetch"} => wIP # NoIP

IInv == TypeOK /\ CacheCoherent /\ CopyCoherent /\ AllocationHasIP

-----------------------------------------------------------------------------
(***************************************************************************)
(* Lemmas about the helpers the actions are built from.                    *)
(***************************************************************************)

\* GetNextIP returns an address of the range, or NoIP when it finds none.
LEMMA GetNextIPType ==
    ASSUME NEW allocated
    PROVE  GetNextIP(allocated) \in Addr \cup {NoIP}
BY DEF GetNextIP

\* Every non-empty set of naturals has a least element (< is well founded
\* on Nat).
LEMMA NatMinimum ==
    ASSUME NEW T, T \subseteq Nat, T # {}
    PROVE  \E x \in T : \A y \in T : x <= y
<1>1. PICK x \in T : \A y \in T : ~(<<y, x>> \in OpToRel(<, Nat))
  BY WFMin, NatLessThanWellFounded
<1>2. \A y \in T : x <= y
  <2> SUFFICES ASSUME NEW y \in T PROVE x <= y
    OBVIOUS
  <2>1. <<y, x>> \notin OpToRel(<, Nat)
    BY <1>1
  <2>2. ~(y < x)
    BY <2>1 DEF OpToRel
  <2> QED  BY <2>2
<1> QED  BY <1>2

\* What the model's GetNextIP (whose code is not under src/) returns: the
\* lowest address of the range that allocated does not hold, and NoIP
\* exactly when it holds them all.  AllocateAvoidsAllocated rests on it.
LEMMA GetNextIPFirstFree ==
    ASSUME NEW allocated
    PROVE  /\ Addr \ allocated # {} =>
                 /\ GetNextIP(allocated) \in Addr \ allocated
                 /\ \A b \in Addr \ allocated : GetNextIP(allocated) <= b
           /\ Addr \ allocated = {} => GetNextIP(allocated) = NoIP
<1>1. CASE Addr \ allocated # {}
  <2>1. Addr \ allocated \subseteq Nat
    BY RangeAssumption DEF Addr
  <2>2. \E a \in Addr : IsFirstFree(a, allocated)
    BY <1>1, <2>1, NatMinimum DEF IsFirstFree
  <2>3. IsFirstFree(GetNextIP(allocated), allocated)
    BY <2>2 DEF GetNextIP
  <2> QED  BY <1>1, <2>3 DEF IsFirstFree
<1>2. CASE Addr \ allocated = {}
  BY <1>2 DEF GetNextIP, IsFirstFree
<1> QED  BY <1>1, <1>2

\* allocatePredictableIPs keeps the holder's entry, or hands out the lowest
\* free address of the range, which is none of the addresses it was asked
\* to avoid; it fails (NoIP) only when the range is exhausted.
THEOREM AllocateAvoidsAllocated ==
    ASSUME NEW d \in PoolData, NEW allocated, NEW k \in Ordinals
    PROVE  LET ip == AllocatePredictableIP(d, allocated, k)
           IN  \/ d[k] # NoIP /\ ip = d[k]
               \/ d[k] = NoIP /\ ip \in Addr \ allocated
                  /\ \A b \in Addr \ allocated : ip <= b
               \/ d[k] = NoIP /\ ip = NoIP /\ Addr \subseteq allocated
BY GetNextIPFirstFree DEF AllocatePredictableIP

\* The bind and mdns ConfigMaps hold addresses of the range only: both
\* loops of GeneratePredictableIPMaps stop at RangeEnd.
LEMMA SiblingType ==
    ASSUME NEW b \in Nat, NEW m \in Nat
    PROVE  GeneratePredictableIPMaps(b, m) \subseteq Addr
BY DEF GeneratePredictableIPMaps

\* allocatePredictableIPs returns an address of the range, or NoIP.
LEMMA AllocateType ==
    ASSUME NEW d \in PoolData, NEW allocated, NEW k \in Ordinals
    PROVE  AllocatePredictableIP(d, allocated, k) \in Addr \cup {NoIP}
BY GetNextIPType DEF AllocatePredictableIP, PoolData

\* The placeholders the idle worker holds are of their types.
LEMMA AnyType == AnyPod \in Pods /\ AnyKey \in Ordinals
<1>1. PICK r \in Roles, o \in Ordinals : TRUE
  BY ConstantsAssumption
<1>2. <<r, o>> \in Pods
  BY <1>1 DEF Pods
<1> QED
  BY <1>1, <1>2 DEF AnyPod, AnyKey

LEMMA RecordTypes ==
    /\ NoAnnotations \in Annotations
    /\ NoPod \in PodObject
    /\ NewPod \in PodObject
    /\ NoConfigMap \in ConfigMap
BY DEF NoAnnotations, Annotations, NoPod, NewPod, PodObject, NoConfigMap,
       ConfigMap, EmptyData, PoolData

-----------------------------------------------------------------------------
\* The initial state satisfies the inductive invariant.
LEMMA InitIInv == Init => IInv
<1> SUFFICES ASSUME Init PROVE IInv
  OBVIOUS
<1>1. TypeOK
  <2>1. /\ pod \in [Pods -> PodObject]
        /\ podCache \in [Pods -> PodObject]
        /\ podSynced \in [Pods -> BOOLEAN]
    BY RecordTypes DEF Init
  <2>2. pool \in ConfigMap /\ poolCache \in ConfigMap
    BY RecordTypes DEF Init
  <2>3. wAttempt \in 0 .. (MaxRetries - 1)
    BY ConstantsAssumption DEF Init
  <2>4. wAnn \in Annotations /\ wIP \in Addr \cup {NoIP}
    BY RecordTypes DEF Init
  <2> QED
    BY <2>1, <2>2, <2>3, <2>4, AnyType DEF Init, TypeOK, Steps
<1>2. CacheCoherent /\ CopyCoherent /\ AllocationHasIP
  BY DEF Init, CacheCoherent, CopyCoherent, AllocationHasIP
<1> QED
  BY <1>1, <1>2 DEF IInv

-----------------------------------------------------------------------------
(***************************************************************************)
(* Each action preserves the inductive invariant.                          *)
(***************************************************************************)

\* The tuples UNCHANGED names are abbreviations, expanded everywhere below.
USE DEF podVars, poolVars, workerVars

\* Finish puts the worker's variables back to their idle values.
LEMMA FinishType ==
    ASSUME Finish
    PROVE  /\ pc' \in Steps /\ wPod' \in Pods /\ wFresh' = FALSE
           /\ wAnn' \in Annotations /\ wIP' \in Addr \cup {NoIP}
           /\ wAttempt' \in 0 .. (MaxRetries - 1) /\ wKey' \in Ordinals
           /\ wPoolFresh' \in BOOLEAN /\ pc' = "Idle"
<1>1. pc' \in Steps /\ pc' = "Idle" /\ wFresh' = FALSE
  BY DEF Finish, Steps
<1>2. wPod' \in Pods /\ wKey' \in Ordinals
  BY AnyType DEF Finish
<1>3. wAnn' \in Annotations /\ wIP' \in Addr \cup {NoIP}
  BY RecordTypes DEF Finish
<1>4. wAttempt' \in 0 .. (MaxRetries - 1)
  <2>1. wAttempt' = 0
    BY DEF Finish
  <2> QED
    BY <2>1, ConstantsAssumption
<1>5. wPoolFresh' \in BOOLEAN
  BY DEF Finish
<1> QED
  BY <1>1, <1>2, <1>3, <1>4, <1>5

LEMMA StartAllocateIInv ==
    ASSUME IInv, NEW p \in Pods, StartAllocate(p)
    PROVE  IInv'
<1> DEFINE c == podCache[p]
<1>1. AllocateIP(p) \in Addr \cup {NoIP}
  <2>1. HandleConfigMap \in PoolData
    BY DEF IInv, TypeOK, ConfigMap, HandleConfigMap, EmptyData, PoolData
  <2> QED
    BY <2>1, AllocateType DEF AllocateIP, Holder, Pods
<1>2. TypeOK'
  BY <1>1 DEF IInv, TypeOK, StartAllocate, Steps, PodObject
<1>3. CopyCoherent'
  BY DEF IInv, CacheCoherent, CopyCoherent, StartAllocate
<1>4. (CacheCoherent /\ AllocationHasIP)'
  BY DEF IInv, CacheCoherent, AllocationHasIP, StartAllocate
<1> QED
  BY <1>2, <1>3, <1>4 DEF IInv

LEMMA CreateOrPatchIInv ==
    ASSUME IInv, CreateOrPatch
    PROVE  IInv'
<1> USE DEF IInv
<1>1. CASE ~poolCache.exists /\ ~pool.exists
  <2>1. /\ pc = "CreateOrPatch"
        /\ pool' = [exists |-> TRUE,
                    data |-> [EmptyData EXCEPT ![Holder(wPod)] = wIP]]
        /\ pc' = "Update"
        /\ UNCHANGED <<podVars, poolCache, sibling, siblingCache>>
        /\ UNCHANGED <<wPod, wFresh, wAnn, wIP, wAttempt, wKey, wPoolFresh, queue>>
    BY <1>1 DEF CreateOrPatch
  <2>2. Holder(wPod) \in Ordinals
    BY DEF TypeOK, Holder, Pods
  <2>3. pool' \in ConfigMap
    BY <2>1, <2>2 DEF TypeOK, ConfigMap, PoolData, EmptyData
  <2>4. TypeOK'
    BY <2>1, <2>3 DEF TypeOK, Steps
  <2> QED
    BY <2>1, <2>4 DEF CacheCoherent, CopyCoherent, AllocationHasIP
<1>2. CASE ~poolCache.exists /\ pool.exists
  <2>1. Finish /\ Requeue /\ UNCHANGED <<podVars, poolVars>>
    BY <1>2 DEF CreateOrPatch
  <2> QED
    BY <2>1, FinishType DEF TypeOK, CacheCoherent, CopyCoherent,
                            AllocationHasIP, Requeue
<1>3. CASE poolCache.exists
  <2>1. /\ pc = "CreateOrPatch"
        /\ pc' = "Update"
        /\ UNCHANGED <<podVars, poolVars>>
        /\ UNCHANGED <<wPod, wFresh, wAnn, wIP, wAttempt, wKey, wPoolFresh, queue>>
    BY <1>3 DEF CreateOrPatch, PatchedPool
  <2> QED
    BY <2>1 DEF TypeOK, Steps, CacheCoherent, CopyCoherent, AllocationHasIP
<1> QED
  BY <1>1, <1>2, <1>3

LEMMA UpdatePodIInv ==
    ASSUME IInv, UpdatePod
    PROVE  IInv'
<1> USE DEF IInv
<1> DEFINE merged == MergeAnnotations(wAnn, wIP)
<1>1. CASE pod[wPod].live /\ wFresh
  <2>1. /\ PodWritten(wPod, [pod[wPod] EXCEPT !.ann = merged])
        /\ Finish
        /\ UNCHANGED <<poolVars, queue>>
    BY <1>1 DEF UpdatePod
  <2>2. merged \in Annotations
    BY DEF TypeOK, MergeAnnotations, Annotations
  <2>3. pod' \in [Pods -> PodObject]
    BY <2>1, <2>2 DEF TypeOK, PodWritten, PodObject
  <2>4. TypeOK'
    BY <2>1, <2>3, FinishType DEF TypeOK, PodWritten
  <2>5. CacheCoherent'
    BY <2>1 DEF CacheCoherent, PodWritten, TypeOK
  <2>6. (CopyCoherent /\ AllocationHasIP)'
    BY <2>1, FinishType DEF CopyCoherent, AllocationHasIP
  <2> QED
    BY <2>4, <2>5, <2>6
<1>2. CASE pod[wPod].live /\ ~wFresh
  <2>1. /\ pc = "Update"
        /\ pc' = "Refetch"
        /\ wAnn' = merged
        /\ UNCHANGED <<podVars, poolVars>>
        /\ UNCHANGED <<wPod, wFresh, wIP, wAttempt, wKey, wPoolFresh, queue>>
    BY <1>2 DEF UpdatePod
  <2>2. merged \in Annotations
    BY DEF TypeOK, MergeAnnotations, Annotations
  <2> QED
    BY <1>2, <2>1, <2>2 DEF TypeOK, Steps, CacheCoherent, CopyCoherent,
                            AllocationHasIP
<1>3. CASE ~pod[wPod].live
  <2>1. Finish /\ Requeue /\ UNCHANGED <<podVars, poolVars>>
    BY <1>3 DEF UpdatePod
  <2> QED
    BY <2>1, FinishType DEF TypeOK, CacheCoherent, CopyCoherent,
                            AllocationHasIP, Requeue
<1> QED
  BY <1>1, <1>2, <1>3

LEMMA RefetchIInv ==
    ASSUME IInv, Refetch
    PROVE  IInv'
<1> USE DEF IInv
<1>1. CASE podCache[wPod].live /\ NextAttempt < MaxRetries
  <2>1. /\ pc = "Refetch"
        /\ pc' = "Update"
        /\ wFresh' = podSynced[wPod]
        /\ wAnn' = podCache[wPod].ann
        /\ wAttempt' = wAttempt + 1
        /\ UNCHANGED <<podVars, poolVars>>
        /\ UNCHANGED <<wPod, wIP, wKey, wPoolFresh, queue>>
    BY <1>1, ConstantsAssumption DEF Refetch, NextAttempt, TypeOK
  <2>2. wAttempt' \in 0 .. (MaxRetries - 1)
    BY <1>1, <2>1, ConstantsAssumption DEF TypeOK, NextAttempt
  <2>3. TypeOK'
    BY <2>1, <2>2 DEF TypeOK, Steps, PodObject
  <2>4. CopyCoherent'
    BY <2>1 DEF CopyCoherent, CacheCoherent, TypeOK
  <2>5. (CacheCoherent /\ AllocationHasIP)'
    BY <2>1 DEF CacheCoherent, AllocationHasIP
  <2> QED
    BY <2>3, <2>4, <2>5
<1>2. CASE ~(podCache[wPod].live /\ NextAttempt < MaxRetries)
  <2>1. Finish /\ Requeue /\ UNCHANGED <<podVars, poolVars>>
    BY <1>2, ConstantsAssumption DEF Refetch, NextAttempt, TypeOK
  <2> QED
    BY <2>1, FinishType DEF TypeOK, CacheCoherent, CopyCoherent,
                            AllocationHasIP, Requeue
<1> QED
  BY <1>1, <1>2

LEMMA StartReleaseIInv ==
    ASSUME IInv, NEW p \in Pods, StartRelease(p)
    PROVE  IInv'
<1>1. TypeOK'
  BY DEF IInv, TypeOK, StartRelease, Steps, PodObject, Annotations
<1>2. (CacheCoherent /\ CopyCoherent /\ AllocationHasIP)'
  BY DEF IInv, CacheCoherent, CopyCoherent, AllocationHasIP, StartRelease
<1> QED
  BY <1>1, <1>2 DEF IInv

LEMMA ReleaseUpdateIInv ==
    ASSUME IInv, ReleaseUpdate
    PROVE  IInv'
<1>1. TypeOK'
  BY FinishType DEF IInv, TypeOK, ReleaseUpdate, ConfigMap, PoolData
<1>2. (CacheCoherent /\ CopyCoherent /\ AllocationHasIP)'
  BY FinishType DEF IInv, CacheCoherent, CopyCoherent, AllocationHasIP,
                    ReleaseUpdate
<1> QED
  BY <1>1, <1>2 DEF IInv

\* A write of pod p by another writer (the StatefulSet controller, kubelet,
\* the API server's deletion) preserves the invariant, whatever it writes:
\* the cache and the worker's copy of p both become an old version.
LEMMA PodWrittenIInv ==
    ASSUME IInv, NEW p \in Pods, NEW obj \in PodObject,
           PodWritten(p, obj), CopyOutdated(p),
           UNCHANGED <<poolVars, pc, wPod, wAnn, wIP, wAttempt, wKey, wPoolFresh,
                       queue>>
    PROVE  IInv'
<1> USE DEF IInv
<1>1. TypeOK'
  BY DEF TypeOK, PodWritten, CopyOutdated
<1>2. CacheCoherent'
  BY DEF CacheCoherent, PodWritten, TypeOK
<1>3. CopyCoherent'
  BY DEF CopyCoherent, PodWritten, CopyOutdated, TypeOK
<1>4. AllocationHasIP'
  BY DEF AllocationHasIP
<1> QED
  BY <1>1, <1>2, <1>3, <1>4

\* Each writer of a pod writes a pod object.
LEMMA PodWritersIInv ==
    ASSUME IInv, NEW p \in Pods,
           CreatePod(p) \/ OtherUpdate(p) \/ Terminate(p) \/ MarkDeleted(p)
             \/ Remove(p)
    PROVE  IInv'
<1> USE DEF IInv
<1>1. pod[p] \in PodObject
  BY DEF TypeOK
<1>2. CASE CreatePod(p)
  BY <1>2, RecordTypes, PodWrittenIInv DEF CreatePod
<1>3. CASE OtherUpdate(p)
  <2>1. [pod[p] EXCEPT !.ann.other = TRUE] \in PodObject
    BY <1>1 DEF PodObject, Annotations
  <2> QED
    BY <1>3, <2>1, PodWrittenIInv DEF OtherUpdate
<1>4. CASE Terminate(p)
  <2>1. [pod[p] EXCEPT !.terminal = TRUE] \in PodObject
    BY <1>1 DEF PodObject
  <2> QED
    BY <1>4, <2>1, PodWrittenIInv DEF Terminate
<1>5. CASE MarkDeleted(p)
  <2>1. [pod[p] EXCEPT !.deleting = TRUE] \in PodObject
    BY <1>1 DEF PodObject
  <2> QED
    BY <1>5, <2>1, PodWrittenIInv DEF MarkDeleted
<1>6. CASE Remove(p)
  BY <1>6, RecordTypes, PodWrittenIInv DEF Remove
<1> QED
  BY <1>2, <1>3, <1>4, <1>5, <1>6

LEMMA SiblingWriteIInv ==
    ASSUME IInv, NEW b \in 0 .. MaxReplicas, NEW m \in 0 .. MaxReplicas,
           SiblingWrite(b, m)
    PROVE  IInv'
<1> USE DEF IInv
<1>1. sibling' \subseteq Addr
  BY SiblingType, ConstantsAssumption DEF SiblingWrite
<1> QED
  BY <1>1 DEF SiblingWrite, TypeOK, CacheCoherent, CopyCoherent,
              AllocationHasIP

LEMMA SyncIInv ==
    ASSUME IInv, (\E p \in Pods : SyncPod(p)) \/ SyncPool \/ SyncSibling
    PROVE  IInv'
<1> USE DEF IInv
<1>1. ASSUME NEW p \in Pods, SyncPod(p) PROVE IInv'
  <2>1. TypeOK'
    BY <1>1 DEF SyncPod, TypeOK
  <2>2. CacheCoherent'
    BY <1>1 DEF SyncPod, CacheCoherent, TypeOK
  <2> QED
    BY <1>1, <2>1, <2>2 DEF SyncPod, CopyCoherent, AllocationHasIP
<1>2. CASE SyncPool \/ SyncSibling
  BY <1>2 DEF SyncPool, SyncSibling, TypeOK, CacheCoherent, CopyCoherent,
              AllocationHasIP
<1> QED
  BY <1>1, <1>2

\* A reconcile that returns at once, and the informer's resync, only move a
\* request into or out of the workqueue.
LEMMA QueueOnlyIInv ==
    ASSUME IInv, NEW p \in Pods, ReconcileSkip(p) \/ Resync(p)
    PROVE  IInv'
<1>1. UNCHANGED <<podVars, poolVars, workerVars>> /\ queue' \subseteq Pods
  BY DEF ReconcileSkip, Resync, IInv, TypeOK
<1> QED
  BY <1>1 DEF IInv, TypeOK, CacheCoherent, CopyCoherent, AllocationHasIP

\* Stuttering steps leave every variable, hence the invariant, unchanged.
LEMMA StutterIInv ==
    ASSUME IInv, UNCHANGED vars
    PROVE  IInv'
BY DEF vars, IInv, TypeOK, CacheCoherent, CopyCoherent, AllocationHasIP

LEMMA NextIInv == IInv /\ [Next]_vars => IInv'
<1> SUFFICES ASSUME IInv, [Next]_vars PROVE IInv'
  OBVIOUS
<1>1. CASE \E p \in Pods : StartAllocate(p) \/ StartRelease(p) \/ ReconcileSkip(p)
  BY <1>1, StartAllocateIInv, StartReleaseIInv, QueueOnlyIInv
<1>2. CASE CreateOrPatch \/ UpdatePod \/ Refetch \/ ReleaseUpdate
  BY <1>2, CreateOrPatchIInv, UpdatePodIInv, RefetchIInv, ReleaseUpdateIInv
<1>3. CASE \E p \in Pods :
             CreatePod(p) \/ OtherUpdate(p) \/ Terminate(p) \/ MarkDeleted(p)
               \/ Remove(p)
  BY <1>3, PodWritersIInv
<1>4. CASE \E b, m \in 0 .. MaxReplicas : SiblingWrite(b, m)
  BY <1>4, SiblingWriteIInv
<1>5. CASE (\E p \in Pods : SyncPod(p)) \/ SyncPool \/ SyncSibling
  BY <1>5, SyncIInv
<1>7. CASE \E p \in Pods : Resync(p)
  BY <1>7, QueueOnlyIInv
<1>6. CASE UNCHANGED vars
  BY <1>6, StutterIInv
<1> QED
  BY <1>1, <1>2, <1>3, <1>4, <1>5, <1>6, <1>7 DEF Next, Controller, Environment

-----------------------------------------------------------------------------
(***************************************************************************)
(* The theorems.                                                           *)
(***************************************************************************)

(***************************************************************************)
(* Every reachable state is well typed: in particular every address the    *)
(* controller writes into an annotation or the ipset ConfigMap, and every  *)
(* address GeneratePredictableIPMaps writes into the bind and mdns         *)
(* ConfigMaps, lies in [RangeStart, RangeEnd), and the retry loop never    *)
(* runs past maxRetries attempts.                                          *)
(***************************************************************************)
THEOREM IInvInvariant == Spec => []IInv
BY InitIInv, NextIInv, PTL DEF Spec

THEOREM TypeCorrect == Spec => []TypeOK
BY IInvInvariant, PTL DEF IInv

-----------------------------------------------------------------------------
(***************************************************************************)
(* PodAnnotation implements AnnotationStore.  The initial state maps to    *)
(* the abstract initial state; the controller's successful Update maps to  *)
(* Annotate because the copy it merges into is the server's pod            *)
(* (CopyCoherent); the Create of CreateOrPatch maps to Insert because the  *)
(* ConfigMap it creates did not exist, so the table was empty; the Update  *)
(* of ReleaseIP maps to Release; the other writers of the pods map to the  *)
(* abstract writers; every other step changes neither the pods nor the     *)
(* table and maps to a stutter.                                            *)
(***************************************************************************)

LEMMA StoreInit == Init => Store!Init
<1> SUFFICES ASSUME Init PROVE Store!Init
  OBVIOUS
<1>1. pod = [p \in Pods |-> Store!Absent]
  BY DEF Init, NoPod, NoAnnotations, Store!Absent
<1>2. PoolTable = [k \in Ordinals |-> NoIP]
  BY DEF Init, NoConfigMap, PoolTable, EmptyData
<1> QED
  BY <1>1, <1>2 DEF Store!Init

\* A step that leaves the pods and the ipset ConfigMap alone is a stutter.
LEMMA StoreStutter ==
    ASSUME pod' = pod, pool' = pool
    PROVE  [Store!Next]_Store!vars
BY DEF Store!vars, PoolTable

\* The successful Update of the retry loop is an abstract Annotate.
LEMMA UpdatePodRefines ==
    ASSUME IInv, UpdatePod
    PROVE  [Store!Next]_Store!vars
<1> USE DEF IInv
<1>1. CASE pod[wPod].live /\ wFresh
  <2>1. /\ pc = "Update"
        /\ pod' = [pod EXCEPT ![wPod] = [pod[wPod] EXCEPT
                                           !.ann = MergeAnnotations(wAnn, wIP)]]
        /\ pool' = pool
    BY <1>1 DEF UpdatePod, PodWritten
  <2>2. wAnn = pod[wPod].ann /\ wIP \in Addr /\ wPod \in Pods
    BY <1>1, <2>1 DEF CopyCoherent, AllocationHasIP, TypeOK
  <2>3. pod' = [pod EXCEPT ![wPod].ann.ip = wIP]
    BY <2>1, <2>2 DEF MergeAnnotations, TypeOK, PodObject
  <2>4. Store!Annotate(wPod, wIP)
    BY <1>1, <2>1, <2>3 DEF Store!Annotate, PoolTable
  <2> QED
    BY <2>2, <2>4 DEF Store!Next
<1>2. CASE ~(pod[wPod].live /\ wFresh)
  BY <1>2, StoreStutter DEF UpdatePod
<1> QED
  BY <1>1, <1>2

\* CreateOrPatch writes the ConfigMap only when it creates it: an Insert.
LEMMA CreateOrPatchRefines ==
    ASSUME IInv, CreateOrPatch
    PROVE  [Store!Next]_Store!vars
<1> USE DEF IInv
<1>1. CASE ~poolCache.exists /\ ~pool.exists
  <2>1. /\ pc = "CreateOrPatch"
        /\ pool' = [exists |-> TRUE,
                    data |-> [EmptyData EXCEPT ![Holder(wPod)] = wIP]]
        /\ pod' = pod
    BY <1>1 DEF CreateOrPatch
  <2>2. Holder(wPod) \in Ordinals /\ wIP \in Addr
    BY <2>1 DEF TypeOK, Holder, Pods, AllocationHasIP
  <2>3. /\ PoolTable = [k \in Ordinals |-> NoIP]
        /\ PoolTable' = [PoolTable EXCEPT ![Holder(wPod)] = wIP]
    BY <1>1, <2>1 DEF PoolTable, EmptyData
  <2>4. Store!Insert(Holder(wPod), wIP)
    BY <2>1, <2>2, <2>3 DEF Store!Insert
  <2> QED
    BY <2>2, <2>4 DEF Store!Next
<1>2. CASE ~(~poolCache.exists /\ ~pool.exists)
  BY <1>2, StoreStutter DEF CreateOrPatch, PatchedPool
<1> QED
  BY <1>1, <1>2

\* ReleaseIP's Update deletes the entry of one key: a Release.
LEMMA ReleaseUpdateRefines ==
    ASSUME IInv, ReleaseUpdate
    PROVE  [Store!Next]_Store!vars
<1> USE DEF IInv
<1>1. CASE wPoolFresh /\ pool.exists
  <2>1. /\ pool' = [pool EXCEPT !.data[wKey] = NoIP]
        /\ pod' = pod
    BY <1>1 DEF ReleaseUpdate
  <2>2. wKey \in Ordinals /\ pool \in ConfigMap
    BY DEF TypeOK
  <2>3. PoolTable' = [PoolTable EXCEPT ![wKey] = NoIP]
    BY <1>1, <2>1, <2>2 DEF PoolTable, ConfigMap
  <2>4. Store!Release(wKey)
    BY <2>1, <2>3 DEF Store!Release
  <2> QED
    BY <2>2, <2>4 DEF Store!Next
<1>2. CASE wPoolFresh /\ ~pool.exists
  <2>1. pool' = [pool EXCEPT !.data[wKey] = NoIP] /\ pod' = pod
    BY <1>2 DEF ReleaseUpdate
  <2>2. pool \in ConfigMap
    BY DEF TypeOK
  <2>3. PoolTable' = PoolTable
    BY <1>2, <2>1, <2>2 DEF PoolTable, ConfigMap
  <2> QED
    BY <2>1, <2>3 DEF Store!vars
<1>3. CASE ~wPoolFresh
  BY <1>3, StoreStutter DEF ReleaseUpdate
<1> QED
  BY <1>1, <1>2, <1>3

\* The StatefulSet controller, kubelet and the other writers of a pod.
LEMMA PodWritersRefine ==
    ASSUME IInv, NEW p \in Pods,
           CreatePod(p) \/ OtherUpdate(p) \/ Terminate(p) \/ MarkDeleted(p)
             \/ Remove(p)
    PROVE  [Store!Next]_Store!vars
<1> USE DEF IInv
<1>1. pool' = pool /\ pod \in [Pods -> PodObject]
  BY DEF CreatePod, OtherUpdate, Terminate, MarkDeleted, Remove, TypeOK
<1>2. CASE CreatePod(p)
  <2>1. Store!Create(p)
    BY <1>1, <1>2 DEF CreatePod, PodWritten, NewPod, NoPod, NoAnnotations,
                      Store!Create, Store!Absent, PoolTable
  <2> QED
    BY <2>1 DEF Store!Next
<1>3. CASE OtherUpdate(p)
  <2>1. Store!OtherAnnotate(p)
    BY <1>1, <1>3 DEF OtherUpdate, PodWritten, Store!OtherAnnotate, PoolTable,
                      PodObject
  <2> QED
    BY <2>1 DEF Store!Next
<1>4. CASE Terminate(p)
  <2>1. Store!Terminate(p)
    BY <1>1, <1>4 DEF Terminate, PodWritten, Store!Terminate, PoolTable,
                      PodObject
  <2> QED
    BY <2>1 DEF Store!Next
<1>5. CASE MarkDeleted(p)
  <2>1. Store!MarkDeleted(p)
    BY <1>1, <1>5 DEF MarkDeleted, PodWritten, Store!MarkDeleted, PoolTable,
                      PodObject
  <2> QED
    BY <2>1 DEF Store!Next
<1>6. CASE Remove(p)
  <2>1. Store!Remove(p)
    BY <1>1, <1>6 DEF Remove, PodWritten, NoPod, NoAnnotations, Store!Remove,
                      Store!Absent, PoolTable
  <2> QED
    BY <2>1 DEF Store!Next
<1> QED
  BY <1>2, <1>3, <1>4, <1>5, <1>6

LEMMA StoreStep == IInv /\ [Next]_vars => [Store!Next]_Store!vars
<1> SUFFICES ASSUME IInv, [Next]_vars PROVE [Store!Next]_Store!vars
  OBVIOUS
<1>1. CASE UpdatePod
  BY <1>1, UpdatePodRefines
<1>2. CASE CreateOrPatch
  BY <1>2, CreateOrPatchRefines
<1>3. CASE ReleaseUpdate
  BY <1>3, ReleaseUpdateRefines
<1>4. CASE \E p \in Pods :
             CreatePod(p) \/ OtherUpdate(p) \/ Terminate(p) \/ MarkDeleted(p)
               \/ Remove(p)
  BY <1>4, PodWritersRefine
<1>5. CASE \/ \E p \in Pods : StartAllocate(p) \/ StartRelease(p) \/ SyncPod(p)
                              \/ ReconcileSkip(p) \/ Resync(p)
           \/ Refetch
           \/ \E b, m \in 0 .. MaxReplicas : SiblingWrite(b, m)
           \/ SyncPool \/ SyncSibling
  <2>1. pod' = pod /\ pool' = pool
    BY <1>5 DEF StartAllocate, StartRelease, SyncPod, ReconcileSkip, Resync,
                Refetch, SiblingWrite, SyncPool, SyncSibling
  <2> QED
    BY <2>1, StoreStutter
<1>6. CASE UNCHANGED vars
  BY <1>6, StoreStutter DEF vars
<1> QED
  BY <1>1, <1>2, <1>3, <1>4, <1>5, <1>6 DEF Next, Controller, Environment

(***************************************************************************)
(* For every range, every set of StatefulSets and ordinals and every retry *)
(* bound, the pod annotation controller with its retries, re-fetches and   *)
(* stale informer caches behaves as AnnotationStore: its pod writes are    *)
(* atomic merges of the predictable-ip, and the ipset ConfigMap only gains *)
(* entries under free holder keys or loses one entry at a time.            *)
(***************************************************************************)
THEOREM StoreRefinementThm == Spec => StoreRefinement
<1>1. Init => Store!Init
  BY StoreInit
<1>2. IInv /\ [Next]_vars => [Store!Next]_Store!vars
  BY StoreStep
<1> QED
  BY <1>1, <1>2, IInvInvariant, PTL DEF Spec, StoreRefinement, Store!Spec

-----------------------------------------------------------------------------
(***************************************************************************)
(* No request is lost.  NoLostRequest is not inductive: it says nothing    *)
(* while the worker is busy, and the step that ends a reconcile must know  *)
(* that every other pod needing an address is still queued.  The           *)
(* strengthening names the one pod that may be out of the workqueue while  *)
(* wanting an address, the pod of a running allocation, and says why the   *)
(* pod of a running release needs no requeue: its cached copy is marked    *)
(* for deletion unless an informer event has queued it again.              *)
(***************************************************************************)
AllocSteps == {"CreateOrPatch", "Update", "Refetch"}

QueueCoherent ==
    \A p \in Pods : podSynced[p] /\ WantsAddress(p) =>
        \/ p \in queue
        \/ pc \in AllocSteps /\ wPod = p

ReleaseCoherent ==
    pc = "ReleaseUpdate" => podCache[wPod].deleting \/ wPod \in queue

QInv == QueueCoherent /\ ReleaseCoherent

LEMMA InitQInv == Init => QInv
BY DEF Init, QInv, QueueCoherent, ReleaseCoherent, WantsAddress, NoPod

\* A step that touches none of what QInv reads keeps it.
LEMMA FrameQInv ==
    ASSUME QInv, UNCHANGED <<podCache, podSynced, pc, wPod, queue>>
    PROVE  QInv'
BY DEF QInv, QueueCoherent, ReleaseCoherent, WantsAddress

\* A reconcile that returns an error: the worker goes idle and its pod is
\* back in the workqueue.
LEMMA RequeueQInv ==
    ASSUME QInv, Finish, Requeue, UNCHANGED <<podCache, podSynced>>
    PROVE  QInv'
<1>1. pc' = "Idle" /\ queue' = queue \cup {wPod}
  BY DEF Finish, Requeue
<1>2. QueueCoherent'
  BY <1>1 DEF QInv, QueueCoherent, WantsAddress, AllocSteps
<1>3. ReleaseCoherent'
  BY <1>1 DEF ReleaseCoherent
<1> QED
  BY <1>2, <1>3 DEF QInv

\* A step from one step of the allocation to the next.
LEMMA AllocStepQInv ==
    ASSUME QInv, pc \in AllocSteps, pc' \in AllocSteps,
           UNCHANGED <<podCache, podSynced, wPod, queue>>
    PROVE  QInv'
BY DEF QInv, QueueCoherent, ReleaseCoherent, WantsAddress, AllocSteps

\* A write of pod p by any writer: the cache of p is no longer current.
LEMMA PodWrittenQInv ==
    ASSUME TypeOK, QInv, NEW p \in Pods, NEW obj, PodWritten(p, obj),
           UNCHANGED <<pc, wPod, queue>>
    PROVE  QInv'
<1>1. /\ podSynced' = [podSynced EXCEPT ![p] = FALSE]
      /\ podCache' = podCache
  BY DEF PodWritten
<1>2. QueueCoherent'
  BY <1>1 DEF TypeOK, QInv, QueueCoherent, WantsAddress
<1>3. ReleaseCoherent'
  BY <1>1 DEF QInv, ReleaseCoherent
<1> QED
  BY <1>2, <1>3 DEF QInv

LEMMA StartAllocateQInv ==
    ASSUME QInv, NEW p \in Pods, StartAllocate(p)
    PROVE  QInv'
<1>1. /\ pc = "Idle" /\ pc' = "CreateOrPatch" /\ wPod' = p
      /\ queue' = queue \ {p}
      /\ UNCHANGED <<podCache, podSynced>>
  BY DEF StartAllocate
<1>2. QueueCoherent'
  BY <1>1 DEF QInv, QueueCoherent, WantsAddress, AllocSteps
<1>3. ReleaseCoherent'
  BY <1>1 DEF ReleaseCoherent
<1> QED
  BY <1>2, <1>3 DEF QInv

\* The pod a release takes off the workqueue is marked for deletion in
\* the cache, so it wants no address.
LEMMA StartReleaseQInv ==
    ASSUME QInv, NEW p \in Pods, StartRelease(p)
    PROVE  QInv'
<1>1. /\ pc = "Idle" /\ pc' = "ReleaseUpdate" /\ wPod' = p
      /\ queue' = queue \ {p}
      /\ podCache[p].deleting
      /\ UNCHANGED <<podCache, podSynced>>
  BY DEF StartRelease
<1>2. QueueCoherent'
  BY <1>1 DEF QInv, QueueCoherent, WantsAddress, AllocSteps
<1>3. ReleaseCoherent'
  BY <1>1 DEF ReleaseCoherent
<1> QED
  BY <1>2, <1>3 DEF QInv

\* A reconcile that returns at once drops only a request for a pod that
\* wants no address.
LEMMA ReconcileSkipQInv ==
    ASSUME QInv, NEW p \in Pods, ReconcileSkip(p)
    PROVE  QInv'
<1>1. /\ pc = "Idle" /\ queue' = queue \ {p}
      /\ ~WantsAddress(p)
      /\ UNCHANGED <<podCache, podSynced, pc, wPod>>
  BY DEF ReconcileSkip, WantsAddress
<1> QED
  BY <1>1 DEF QInv, QueueCoherent, ReleaseCoherent, WantsAddress, AllocSteps

LEMMA CreateOrPatchQInv ==
    ASSUME QInv, CreateOrPatch
    PROVE  QInv'
<1>1. CASE ~poolCache.exists /\ pool.exists
  <2>1. Finish /\ Requeue /\ UNCHANGED <<podCache, podSynced>>
    BY <1>1 DEF CreateOrPatch
  <2> QED
    BY <2>1, RequeueQInv
<1>2. CASE ~(~poolCache.exists /\ pool.exists)
  <2>1. /\ pc = "CreateOrPatch" /\ pc' = "Update"
        /\ UNCHANGED <<podCache, podSynced, wPod, queue>>
    BY <1>2 DEF CreateOrPatch
  <2> QED
    BY <2>1, AllocStepQInv DEF AllocSteps
<1> QED
  BY <1>1, <1>2

\* The Update that succeeds writes the pod: its cache is no longer current,
\* and the informer's event for that write will queue it again.
LEMMA UpdatePodQInv ==
    ASSUME TypeOK, QInv, UpdatePod
    PROVE  QInv'
<1>1. CASE pod[wPod].live /\ wFresh
  <2>1. /\ pc = "Update" /\ pc' = "Idle"
        /\ podSynced' = [podSynced EXCEPT ![wPod] = FALSE]
        /\ UNCHANGED <<podCache, queue>>
    BY <1>1 DEF UpdatePod, PodWritten, Finish
  <2>2. QueueCoherent'
    BY <2>1 DEF TypeOK, QInv, QueueCoherent, WantsAddress, AllocSteps
  <2>3. ReleaseCoherent'
    BY <2>1 DEF ReleaseCoherent
  <2> QED
    BY <2>2, <2>3 DEF QInv
<1>2. CASE pod[wPod].live /\ ~wFresh
  <2>1. /\ pc = "Update" /\ pc' = "Refetch"
        /\ UNCHANGED <<podCache, podSynced, wPod, queue>>
    BY <1>2 DEF UpdatePod
  <2> QED
    BY <2>1, AllocStepQInv DEF AllocSteps
<1>3. CASE ~pod[wPod].live
  <2>1. Finish /\ Requeue /\ UNCHANGED <<podCache, podSynced>>
    BY <1>3 DEF UpdatePod
  <2> QED
    BY <2>1, RequeueQInv
<1> QED
  BY <1>1, <1>2, <1>3

LEMMA RefetchQInv ==
    ASSUME TypeOK, QInv, Refetch
    PROVE  QInv'
<1>1. CASE podCache[wPod].live /\ NextAttempt < MaxRetries
  <2>1. /\ pc = "Refetch" /\ pc' = "Update"
        /\ UNCHANGED <<podCache, podSynced, wPod, queue>>
    BY <1>1, ConstantsAssumption DEF Refetch, NextAttempt, TypeOK
  <2> QED
    BY <2>1, AllocStepQInv DEF AllocSteps
<1>2. CASE ~(podCache[wPod].live /\ NextAttempt < MaxRetries)
  <2>1. Finish /\ Requeue /\ UNCHANGED <<podCache, podSynced>>
    BY <1>2 DEF Refetch
  <2> QED
    BY <2>1, RequeueQInv
<1> QED
  BY <1>1, <1>2

\* The end of a release returns success without a requeue: its pod wants
\* no address unless an event has queued it since.
LEMMA ReleaseUpdateQInv ==
    ASSUME QInv, ReleaseUpdate
    PROVE  QInv'
<1>1. /\ pc = "ReleaseUpdate" /\ pc' = "Idle"
      /\ UNCHANGED <<podCache, podSynced, queue>>
  BY DEF ReleaseUpdate, Finish
<1>2. podCache[wPod].deleting \/ wPod \in queue
  BY <1>1 DEF QInv, ReleaseCoherent
<1>3. QueueCoherent'
  BY <1>1, <1>2 DEF QInv, QueueCoherent, WantsAddress, AllocSteps
<1>4. ReleaseCoherent'
  BY <1>1 DEF ReleaseCoherent
<1> QED
  BY <1>3, <1>4 DEF QInv

\* The informer's event for pod p puts p into the workqueue.
LEMMA SyncPodQInv ==
    ASSUME TypeOK, QInv, NEW p \in Pods, SyncPod(p)
    PROVE  QInv'
<1>1. /\ podCache' = [podCache EXCEPT ![p] = pod[p]]
      /\ podSynced' = [podSynced EXCEPT ![p] = TRUE]
      /\ queue' = queue \cup {p}
      /\ UNCHANGED <<pc, wPod>>
  BY DEF SyncPod
<1>2. QueueCoherent'
  BY <1>1 DEF TypeOK, QInv, QueueCoherent, WantsAddress
<1>3. ReleaseCoherent'
  BY <1>1 DEF TypeOK, QInv, ReleaseCoherent
<1> QED
  BY <1>2, <1>3 DEF QInv

LEMMA NextQInv == IInv /\ QInv /\ [Next]_vars => QInv'
<1> SUFFICES ASSUME IInv, QInv, [Next]_vars PROVE QInv'
  OBVIOUS
<1> HIDE DEF QInv
<1>1. TypeOK
  BY DEF IInv
<1>2. ASSUME NEW p \in Pods, StartAllocate(p) \/ StartRelease(p) \/ ReconcileSkip(p)
      PROVE  QInv'
  BY <1>2, StartAllocateQInv, StartReleaseQInv, ReconcileSkipQInv
<1>3. CASE CreateOrPatch \/ UpdatePod \/ Refetch \/ ReleaseUpdate
  BY <1>1, <1>3, CreateOrPatchQInv, UpdatePodQInv, RefetchQInv, ReleaseUpdateQInv
<1>4. ASSUME NEW p \in Pods,
             CreatePod(p) \/ OtherUpdate(p) \/ Terminate(p) \/ MarkDeleted(p)
               \/ Remove(p)
      PROVE  QInv'
  <2>1. \E obj : PodWritten(p, obj) /\ UNCHANGED <<pc, wPod, queue>>
    BY <1>4 DEF CreatePod, OtherUpdate, Terminate, MarkDeleted, Remove
  <2> QED
    BY <1>1, <2>1, PodWrittenQInv
<1>5. ASSUME NEW p \in Pods, SyncPod(p) PROVE QInv'
  BY <1>1, <1>5, SyncPodQInv
<1>6. ASSUME NEW p \in Pods, Resync(p) PROVE QInv'
  <2>1. UNCHANGED <<podCache, podSynced, pc, wPod>> /\ queue' = queue \cup {p}
    BY <1>6 DEF Resync
  <2> QED
    BY <2>1 DEF QInv, QueueCoherent, ReleaseCoherent, WantsAddress
<1>7. CASE \/ \E b, m \in 0 .. MaxReplicas : SiblingWrite(b, m)
           \/ SyncPool \/ SyncSibling \/ UNCHANGED vars
  <2>1. UNCHANGED <<podCache, podSynced, pc, wPod, queue>>
    BY <1>7 DEF SiblingWrite, SyncPool, SyncSibling, vars
  <2> QED
    BY <2>1, FrameQInv
<1> QED
  BY <1>2, <1>3, <1>4, <1>5, <1>6, <1>7 DEF Next, Controller, Environment

(***************************************************************************)
(* For every range, every set of pods and every retry bound, no request of *)
(* a pod that needs an address is lost: whenever the worker is idle, a pod *)
(* whose cached copy is current, live, not deleted, not terminal and       *)
(* without a predictable-ip is in the workqueue.  The argument: each error *)
(* return of Reconcile requeues its pod, the successful Update outdates    *)
(* the cache of its pod, and a release ends on a pod marked for deletion.  *)
(***************************************************************************)
THEOREM NoLostRequestThm == Spec => []NoLostRequest
<1>1. Init => QInv
  BY InitQInv
<1>2. IInv /\ QInv /\ [Next]_vars => QInv'
  BY NextQInv
<1>3. QInv => NoLostRequest
  BY DEF QInv, QueueCoherent, NoLostRequest, AllocSteps
<1> QED
  BY <1>1, <1>2, <1>3, IInvInvariant, PTL DEF Spec
=============================================================================
