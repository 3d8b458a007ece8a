# TLA+ models of the designate-operator predictable-IP machinery

This directory holds TLA+ models of the part of designate-operator that gives
each bind9 and mdns pod a stable address on the designate network:

- the pod annotation controller, in `controllers/pod_annotation_controller.go`;
- the `IPSetManager` that it calls, in `src/unnamed/part_001`;
- the address helpers, in `src/unnamed/part_000`;
- the init scripts that consume the annotation, under `templates/`;
- the bind9 StatefulSet that runs them, in `pkg/designatebackendbind9/volumes.go`.

This directory also has the TLC configurations that check the models, and
TLAPS proofs of the main safety facts.

## 1. The system (inventory)

| Part | Code | State it owns | Operations that change state |
|---|---|---|---|
| PodAnnotationReconciler | `controllers/pod_annotation_controller.go` | none in memory; writes pod annotations | Reconcile (allocation path, deletion path), updatePodAnnotationsWithRetry (merge, Update, re-fetch on conflict, ≤ 5 attempts), handlePodDeletion |
| IPSetManager | `unnamed/part_001` | the ConfigMap `designate-<network>` in namespace `openstack`, Data `pod_<ordinal> → address` | AllocateIP (handleConfigMap, read bind/mdns maps, allocatePredictableIPs, CreateOrPatch), ReleaseIP (Get, delete one matching key, Update) |
| Address helpers | `unnamed/part_000` | none | GeneratePredictableIPMaps (the bind and mdns maps the Designate controller stores), GetPodPredictableIP, ExtractPodIndexFromName |
| GetNextIP, GetPredictableIPAM | not under `src/` (spec 4.3) | none | the first address of `[RangeStart, RangeEnd)` not in a given set |
| Kubernetes | (environment) | pods, ConfigMaps, the informer cache | StatefulSet controller creates pods; kubelet and other controllers update them; deletion marks, then removes, them (no finalizer); the Designate controller writes the bind/mdns ConfigMaps; informers sync the cache |
| bind9 init container (`Bind9Init`, `PodIdentity`) | `templates/designatebackendbind9/bin/init.sh`, `templates/common/set-predictable-ip.sh`, `templates/common/init.sh` | files in the `merged` emptyDir | read the annotation (downward API), write `predictable-ip.env`, edit named's config, merge and copy config, copy the rndc key |
| StatefulSet manifest (`Bind9StatefulSet`) | `pkg/designatebackendbind9/volumes.go` | none (a pure function of the CR and the Topology) | `StatefulSet()` builds volumes, both containers' mounts and env, the claim template, the PVC retention policy, node selector and affinity; a storage request that does not parse is an error |

**How the parts interact.**

- The controller is registered with `For(&corev1.Pod{})` and a filter (`isDesignatePod`). It has one worker, because `MaxConcurrentReconciles` is left at its default of 1.
- A Reconcile reads the pod from the informer cache. If the pod is marked for deletion, it releases the pod's address.
- Otherwise, for an unannotated and non-terminal pod, it does the following:
  - derives the ordinal;
  - calls `AllocateIP`, which reads the ipset ConfigMap and the two maps of the Designate controller, all from the cache;
  - picks the pod's existing entry or the first free address;
  - writes the ConfigMap with `controllerutil.CreateOrPatch`;
  - Updates the pod with the annotations, retrying on conflicts.
- The init container of the pod reads the annotation through the downward API.

**Hard behaviours.**

- The reconciler's reads come from a cache that lags behind the server.
- Other writers update the pods concurrently, and an Update is accepted only if the copy is the current resourceVersion.
- Conflicts are retried up to 5 times.
- Pods are deleted and re-created under the same name.
- The Designate controller rewrites the sibling maps at any time.
- CreateOrPatch first re-reads the object into the variable holding the new Data.
- Release errors are swallowed, and no finalizer is used.
- Requests live in a workqueue: an error return requeues, a nil return drops the request.
- In the StatefulSet, the init container's nested mounts decide where each file the scripts touch lands.
- In the init container, an emptyDir survives restarts under `set -e`.

**Properties that matter.**

- Addresses stay in the range.
- Annotations are never dropped.
- A pod's address never changes.
- Running pods have distinct addresses.
- The ipset table records every annotated pod, and a deleted pod's entry is released.
- No waiting pod is left without a queued request, and every reconcile returns.
- The init container configures named on the pod's address.

## 2. Modules

| Module | Models | State / actions |
|---|---|---|
| `PredictableIP` | `GeneratePredictableIPMaps` (part_000:174-199); `GetNextIP` (from the spec, outside `src/`) | pure operators over the range `Addr == RangeStart .. RangeEnd-1`; addresses are naturals, `NoIP` is the error |
| `AnnotationStore` | what the reconciler and `IPSetManager` promise of the shared objects, abstractly | `pods`, `table` (holder key → address); the controller's merge into a live pod, an insert under a free key, a delete, and the other writers' pod lifecycle |
| `PodAnnotation` | the reconciler, IPSetManager and their environment | see below; instantiates `AnnotationStore` under a refinement mapping |
| `PodAnnotationProofs` | TLAPS proofs about `PodAnnotation` | inductive invariant, type correctness, refinement of `AnnotationStore`, no lost request |
| `MCPodAnnotation` | TLC instances | model values for StatefulSets (`b9`, `mdns`) and ordinals (`o0`, `o1`), symmetry |
| `Bind9StatefulSet` | `StatefulSet()` and the volume and mount builders of `volumes.go`, written by the bind9 reconcile; Kubernetes' refusal of claim-template changes and the StatefulSet controller's scaling of pods and PVCs | see below |
| `MCBind9StatefulSet` | TLC instances | storage requests (`1Gi`, `1024Mi`, `2Gi`, and `2 Gi`, which does not parse), a node selector, one Topology affinity |
| `PodIdentity` | `isDesignatePod` (controller 156-192), `ExtractPodIndexFromName` (part_000:213-230), Reconcile's branch on them (73-100), and the ordinal as `set-predictable-ip.sh` (27-32) and bind9 `init.sh` (69-73) read it | see below |
| `PodIdentityProofs` | TLAPS proofs about `PodIdentity` | where the last dash of a StatefulSet pod's name is, and that the three parsers agree on its ordinal |
| `MCPodIdentity` | TLC instances | the heads `designate-api` (a Deployment of the operator) and `unrelated` |
| `Bind9Init` | bind9 `init.sh`, `set-predictable-ip.sh`, and from `volumes.go` the `merged` emptyDir and the downward-API variable | see below |
| `Bind9InitProofs` | TLAPS proofs about `Bind9Init` | inductive invariant, type correctness, completion only with the annotated address |
| `MCBind9Init` | TLC instances | two addresses as model values, symmetry for the safety runs |

**The state of `PodAnnotation`.**

- **Pods.** `pod[p]` is the API server's object: live, terminal, deleting, and its annotations. In the annotations, `ip` stands for the four annotations the controller writes in one Update, and `other` for an annotation some other writer put there.
- **Pod cache.** `podCache[p]` is the informer's copy. `podSynced[p]` records that the copy is current.
- **ConfigMaps.** `pool` is the ipset ConfigMap and `poolCache` its cached copy. `sibling` and `siblingCache` are the addresses of the bind and mdns ConfigMaps.
- **Worker.** `pc`, `wPod`, `wFresh`, `wAnn`, `wIP`, `wAttempt`, `wKey` and `wPoolFresh` are the program counter and local variables of the single worker:
  - `wFresh` means the local pod copy's resourceVersion is current;
  - `wAnn` is that copy's annotations;
  - `wAttempt` is the retry loop counter.
- **Workqueue.** `queue` is the set of pods with a pending request (controller-runtime's queue deduplicates).

**The actions of `PodAnnotation` and the code they model.**

| Action | Code |
|---|---|
| `ReconcileSkip(p)` | Reconcile lines 58-88 and 304-320: a request taken off the queue returns nil without a write (not found, already annotated, terminal, or marked for deletion with nothing `ReleaseIP` can find) |
| `StartAllocate(p)` | Reconcile lines 54-146: cached Get, the skip conditions, `AllocateIP` up to the write (`HandleConfigMap`, sibling reads, `AllocatePredictableIP`, `GetNextIP`) |
| `CreateOrPatch` | part_001:157-172: create with the single entry when absent; AlreadyExists when the cache was stale; when present, the Get overwrites Data and nothing is patched |
| `UpdatePod` | retry loop lines 231-245/264-265: merge into the local copy, Update, conflict → re-fetch, other error → return |
| `Refetch` | lines 246-268: cached Get into the local copy, loop or give up after `MaxRetries` |
| `StartRelease(p)`, `ReleaseUpdate` | handlePodDeletion (308-323) and ReleaseIP (part_001:191-207): cached Get, delete any key holding the address, Update (conflict logged, not retried) |
| `CreatePod`, `OtherUpdate`, `Terminate`, `MarkDeleted`, `Remove`, `SiblingWrite`, `SyncPool`, `SyncSibling` | the environment |
| `SyncPod(p)`, `Resync(p)` | the informer delivers the pod to the cache and the event handler of `SetupWithManager` (330-338) enqueues it; the manager's periodic resync enqueues a cached pod again |

The exits of a reconcile: `CreateOrPatch`'s AlreadyExists, `UpdatePod` on a pod gone, and `Refetch` after `MaxRetries` return an error, so the pod goes back into `queue` (`Requeue`); a successful Update returns nil and leaves it out.

**Branches without an action.** A Reconcile that returns an error before any write (no Designate CR, a NAD lookup failing, out of addresses) takes the request off the queue and puts it back: every variable is unchanged, so it is a stuttering step. A pod that is not a designate pod never reaches the queue (the filter of `SetupWithManager`); `PodIdentity` models the filter.

**Fused reads.** The reads of one Reconcile are fused into one step. Each cached object may lag on its own, so reading them together loses no behaviour.

**`PodIdentity`.** A pod is a name, the designate label, and an owner (none, or a StatefulSet or ReplicaSet named by a head).

- **Names.** A name is a head followed by a tail. The heads are the three service names of the code plus `OtherHeads`. The tail is a string over `-`, `0`, `1`, `x` that does not end in a dash, as DNS names require.
- **Heads are atoms.** Every head is letters around a dash, so a token that reaches into a head is not a number. Only the tail needs to be parsed character by character.
- **StatefulSet pods.** A pod owned by a StatefulSet is named `<statefulset>-<ordinal>` in canonical decimal, as the StatefulSet controller names it. Other pods may have any valid name.
- **`ExtractPodIndexFromName`** returns the pair the Go function returns: an error flag and the index (0 on error).
- **`Reconcile`** classifies the pod on that error: `ignored`, `requeue` (the ordinal does not parse) or `allocate` with the ordinal.
- **`InitContainer`** runs for pods of a designate StatefulSet. It records `POD_INDEX` (or the `exit 1`) and the rndc key suffix.
- **Order.** The two actions happen in either order.

**`Bind9Init`.**

- **State.** The pod's annotation `ann`, whether the rndc key is in the secret, and the container's step `pc`. Also its `PREDICTABLE_IP_FROM_ANNOTATION` (`envIP`) and the files of the `merged` emptyDir: the env file, `named/`, the listen address of `options.conf` and `rndc.conf`, and `rndc.key`.
- **Actions.** Each action is one stretch of `init.sh` between two points where it can fail or write a file:

| Action | Code |
|---|---|
| `StartContainer` | kubelet (re)starts the container and resolves the downward-API variable from the current annotation; the files persist |
| `SetPredictableIP` | `init.sh` line 25 running `set-predictable-ip.sh`: the annotation, or the earlier env file, written back; else `exit 1`, which `set -e` makes the script's exit |
| `ApplyIP` | lines 26-44: source the env file; `sed` `options.conf` and `rndc.conf` if they exist |
| `Mkdir` | lines 49-54: `merge_config_dir`, then `mkdir merged/named`, which fails if it exists |
| `CopyNamed` | line 55: `cp -f` of the templates (`listen-on { any; }`, `inet *`) |
| `CopyKey` | lines 57-79: copy `rndc-key-<index>`, or `exit 1` |
| `Annotate(ip)`, `KeyAppears`, `Kill` | the controller annotating the pod once; the key appearing in the secret; kubelet killing the running container (at most `MaxKills` times) |

- **Outside `src/`.** `merge_config_dir` (in `common.sh`, not under `src/`) is assumed not to touch `merged/named`. If it did, the `mkdir` would fail on every first run.
- **Network attachment.** `NETWORK_ATTACHMENT_DEFINITION` is taken to be set; without it, none of the predictable-IP code runs. `StatefulSet()` itself does not set it (volumes.go:347 says the controller does); see the hazards.

**`Bind9StatefulSet`.**

- **Data.** A path is the sequence of its components. A mount is a volume, a path and a read-only flag. A container sees a path through the mount whose path is its longest prefix (`Resolve`), which is how the init container's `named` secret, mounted inside the read-only `config-data` mount, is reached. Volumes keep the code's names; secret names, probes, labels, images, resources and owner references are dropped, since no property tells them apart.
- **`StatefulSet(cr)`** returns the manifest, or the error of `ParseQuantity`. The storage request is parsed by a table in the MC module, so `1Gi` and `1024Mi` are one quantity. `Affinity` translates lines 316-339 in order: the Topology's affinity (or `DistributePods`), then `DistributePods` unconditionally.
- **State.** The CR (`cr`), the StatefulSet last written (`sts`), the number of running pods (ordinals `0 .. running-1`) and each ordinal's PVC (`none`, `empty`, or holding zone data).
- **Volumes.** `getServicePodVolumes` appends a logging volume to the volumes of the no-logging variant. `PodVolumes(secrets, emptyDirs)` models the result directly: a function from volume name to volume kind. Writing it without TLC's `@@` lets the prover expand it.
- **Actions.** `EditCR`; `Render`, the bind9 reconcile (not under `src/`) writing `StatefulSet(cr)`: nothing on a parse error, and the API server refuses an update whose claim templates differ; `ScaleUp` and `ScaleDown`, the StatefulSet controller one ordinal at a time, creating the PVC from the template and deleting it on scale-down only when `whenScaled` is `Delete`; `BindWrites(i)`, bind writing zone data to `/var/named-persistent`, which reaches the PVC only if the mount names the claim template.

## 3. Runs

The runs of `MCPodAnnotation` use: `RangeStart = 1`, `RangeEnd = 3` (two addresses), `MaxRetries = 5` (the code's constant; annotations_kept uses 2), `MaxReplicas = 2`.

| Run (cfg) | Instance | Checks | Expect | Shows |
|---|---|---|---|---|
| annotations_kept (`PodAnnotation.cfg`) | 1 StatefulSet, 1 pod, `MaxRetries = 2`, `FairSpec`, no symmetry | `TypeOK`, `NoLostRequest`, `StoreRefinement`, `ReconcileTerminates` | pass (290,682 states, under 2 minutes) | addresses stay in range; every step is an `AnnotationStore` step, so no interleaving of caches, conflicts, re-fetches, deletion and re-creation writes a pod other than by merging `ip` into a live pod; an idle worker never leaves a waiting pod without a queued request (every error path requeues); every reconcile returns |
| unique_one_role (`UniqueOneRole.cfg`) | 1 StatefulSet, 2 pods | `UniqueAddresses` | violation | both pods get address 1: CreateOrPatch never persists into an existing ConfigMap |
| unique_two_roles (`UniqueTwoRoles.cfg`) | bind9 and mdns, ordinal 0 | `UniqueAddresses` | violation | the holder key `pod_0` is shared, so mdns-0 gets bind9-0's address |
| annotation_stable (`AnnotationStable.cfg`) | 1 pod | `AnnotationStable` | violation | a stale cache lets a second allocation run; the retry merges its address over the first |
| release_on_deletion (`Leak.cfg`) | 1 pod, `FairSpec`, `MaxRetries = 2`, `MaxReplicas = 1` | `ReleaseOnDeletion` (liveness) | violation | a pod marked for deletion and removed before the worker reconciles it is seen as NotFound; its ipset entry is never released (no finalizer) |

The pod that `unique_one_role` shows with a duplicate address is also missing from the ipset table: the same CreateOrPatch overwrite is why the table does not record every annotated pod.

**Bounds.**

- **Two addresses.** With two addresses, an allocation can both succeed and collide, and the sibling maps can cover part of the range or all of it.
- **MaxReplicas = 2.** This makes `GeneratePredictableIPMaps` reach `RangeEnd` in both loops.
- **`MaxRetries`.** The violation runs use the code's 5. annotations_kept, which carries a liveness property over the whole state space, uses 2. The loop's control depends only on `attempt < maxRetries`, so two attempts already give a conflict that is retried, a backoff, and a loop that gives up. A larger bound only lengthens chains of conflicts, and it pushes the run past five minutes (624k states at 5 against 291k at 2). The proofs hold for every `MaxRetries >= 1`.
- **One pod in the passing run.** It interleaves with every other writer, the caches and deletion/re-creation. Two pods do not fit the 5-minute budget: an exploration of the strengthened invariant with two pods was stopped after 1.4 million distinct states without a violation.
- **Symmetry** over StatefulSets and ordinals is sound for the safety runs, because the code only compares these names. The runs under `FairSpec` use none.
- **Leak instance.** Two attempts reach both exits of the retry loop, and one replica in the sibling maps keeps the liveness check small; the counterexample needs neither.

**The runs of `MCBind9Init` and `MCPodIdentity`.**

| Run (cfg) | Instance | Checks | Expect | Shows |
|---|---|---|---|---|
| bind9_init (`Bind9Init.cfg`) | 2 addresses, key present or late, ≤ 2 kills | `TypeOK`, `CompletesWithAnnotatedIP` | pass | a container started before the annotation fails instead of going on with no address, and a later start uses the annotation; every completion has the annotated address on file |
| named_listens (`NamedListens.cfg`) | as above | `NamedListensOnIP` | violation | the first run skips both `sed`s (the files do not exist yet) and the `cp -f` then writes the templates: named listens on any address |
| init_restart (`InitRestart.cfg`) | key present, ≤ 1 kill | `InitCompletes` (liveness) | violation | a kill after line 54 leads to a restart that fails at the `mkdir` forever |
| pod_identity (`PodIdentity.cfg`) | 5 heads, tails up to 3 characters | `StatefulSetPodsAgree` | pass (7,808 states) | for every pod of a designate StatefulSet, the controller and both scripts derive the same ordinal |
| name_rule (`NameRule.cfg`) | as above | `NameRuleHasOrdinal` | violation | `designate-backendbind9-0x` passes the name rule and fails `ExtractPodIndexFromName` |
| bind9_statefulset (`Bind9StatefulSet.cfg`) | 4 storage requests, 2 selectors, 3 topologies, ≤ 2 replicas | `TypeOK`, `VolumesDeclared`, `InitOutputReachesService` | pass (44,136 states) | every mount names a declared volume or the claim template; the init container's writes land in the emptyDir bind reads |
| topology_affinity (`TopologyAffinity.cfg`) | as above | `TopologyAffinityKept` | violation | a Topology's affinity is applied and then overwritten by `DistributePods` (volumes.go:333) |

**Bounds of these runs.**

- **Two addresses and two kills.** These allow a kill before, at and after the `mkdir`.
- **The key.** A late key makes `CopyKey` fail once and the container restart.
- **Tails of three characters.** These hold a dash, a digit run with a leading zero, a letter after a digit, and a second dash.
- **Two digits.** Two digits suffice, because the parsers only ask whether a character is a digit.
- **StatefulSet instance.** Two replicas allow a scale-down that keeps one pod; the two spellings of 1 GiB check that an unchanged quantity is not a claim change, `2Gi` that a changed one is refused, and `2 Gi` the parse error.

**Fairness** (`Bind9Init`, for `InitCompletes`).

- **Script.** It has weak fairness. kubelet runs a started container, and it restarts a failed init container forever, because the pod's restart policy is Always. Each step of the script stays enabled until it is taken.
- **Annotation and key.** `Annotate` and `KeyAppears` also have weak fairness. The controller and the operator are assumed to eventually write them.
- **Kill.** It has no fairness.
- **Symmetry.** The liveness run uses no symmetry.

**Fairness** (`PodAnnotation`, `FairSpec`).

- **The worker.** Weak fairness of `StartAllocate(p)`, `StartRelease(p)`, `ReconcileSkip(p)` and each later step of a reconcile. controller-runtime's single worker takes every request off the queue and runs a reconcile to its return; each of these steps stays enabled until taken.
- **The informers.** Weak fairness of `SyncPod`, `Resync`, `SyncPool` and `SyncSibling`: the watch delivers every change and the manager resyncs periodically.
- **The other writers** and the Designate controller have none: they may stop, or go on writing for ever.

## 4. Proofs (`PodAnnotationProofs`, `Bind9InitProofs`, `Bind9StatefulSetProofs`, `PodIdentityProofs`)

**Assumptions.**

- `RangeAssumption`: the range is a non-empty interval of naturals.
- `NoIPAssumption`: `NoIP` is not an address.
- `ConstantsAssumption`: at least one StatefulSet and one ordinal, and `MaxRetries >= 1`.

**The inductive invariant.** The type invariant is not inductive on its own, and the refinement needs to know what the Update writes. `IInv` strengthens the type invariant with three facts:

- `CacheCoherent`: a cached pod marked synced equals the server's pod.
- `CopyCoherent`: a local copy the server would accept (`wFresh`) carries the server's annotations, and only the allocating steps hold one.
- `AllocationHasIP`: an allocation past `AllocateIP` holds an address.

TLC checked `IInv` as an invariant of the annotations_kept instance before the proof was written.

**The theorems.**

- **`IInvInvariant`** (`Spec => []IInv`) has one lemma per action and one shared lemma for every write of a pod by another writer.
- **`TypeCorrect`** (`Spec => []TypeOK`) follows from `IInvInvariant`. It rests on the lemma that `GetNextIP` returns an address or `NoIP`, and on the lemma that `GeneratePredictableIPMaps` stays inside the range.
- **`StoreRefinementThm`** (`Spec => StoreRefinement`) proves that `PodAnnotation` implements `AnnotationStore` under the mapping `pods <- pod`, `table <- PoolTable`. The initial states map to the abstract one. Each step maps to an abstract step or a stutter: the successful Update is `Annotate` (`CopyCoherent` again: the merged copy differs from the server's pod only in `ip`); a create of the ConfigMap is `Insert` under a key that was free because the table was empty; `ReleaseUpdate` is `Release`; the pod writers are the abstract writers; every other step leaves `pod` and `pool` alone. The patch of an existing ConfigMap is a stutter, because the Get overwrote the new Data: this is the `unique_one_role` bug, and the refinement holds because the code never writes the entry.

- **`NoLostRequestThm`** (`Spec => []NoLostRequest`) proves that an eligible pod the cache has synced is always queued or being allocated. `NoLostRequest` is not inductive on its own, because the release path and the retries of the Update step leave the queue. `QInv` adds two facts, and TLC checked it on the annotations_kept instance first:
  - `QueueCoherent`: a synced pod that wants an address is in `queue`, or the worker holds it in one of the allocating steps.
  - `ReleaseCoherent`: a worker in `ReleaseUpdate` holds a pod that is deleting or queued again.

  Every exit of the worker (`Finish`, `Requeue`, a failed `Refetch` past `MaxRetries`) puts the pod back in the queue or leaves it with an address. Each action keeps `QInv`, given `IInv`; the proof has one lemma per action.

**`GetNextIP`.** `GetNextIP` is written as "the first free address if there is one, else `NoIP`". With that form, showing that the result is in the range takes no induction. The lemma `GetNextIPFirstFree` says that the model's `GetNextIP` returns the lowest free address, and `NoIP` exactly when the range is full. It only restates that definition, because the code of `GetNextIP` is not under `src/`, so it is not listed as a result. It takes a least free address from `WFMin` with `NatLessThanWellFounded`; these library theorems have no operator parameter, so the provers can instantiate them. `AllocateAvoidsAllocated` follows: `allocatePredictableIPs` either keeps the holder's entry or hands out an address outside the set it was given. The address collisions the violation runs find therefore come from what that set leaves out, not from the walk.

**`Bind9InitProofs`.**

- **Assumption.** `Bind9InitAssumption`: a non-empty set of addresses, distinct from `NoIP` and `Absent`; `KeyInit` is a non-empty set of Booleans; `MaxKills` is a natural.
- **Why `CompletesWithAnnotatedIP` needs strengthening.** `CompletesWithAnnotatedIP` only constrains `Done`. Whether `Done` is reached with the right file depends on what the environment variable and the env file hold in earlier states.
- **The invariant `IInv`.** It adds three facts to `TypeOK`:
  - `EnvIsAnnotation`: a non-empty `envIP` is the annotation;
  - `EnvFileIsAnnotation`: an existing env file holds the annotation;
  - `PastSetIP`: a container past `set-predictable-ip.sh` has written the env file.
- **Why it is inductive.**
  - `Annotate` happens only while the annotation is empty, and then no container holds an address and no env file exists.
  - `SetPredictableIP` writes either the annotation or the file's own value.
  - Every restart re-reads the annotation.
- **Checks.** TLC checked `IInv` on the bind9_init instance before the proof was written.
- **Theorems.** `Bind9IInvInvariant`, `Bind9TypeCorrect` and `CompletesWithAnnotatedIPThm` hold for every set of addresses, every bound on kills and every initial state of the key.

**`PodIdentityProofs`.**

- **`ParseOrdinal`.** It takes a name whose tail is a dash followed by a canonical ordinal. Its text is `x-x` followed by that tail, whatever the head. The set of dash positions then has maximum 4 (`SelectLastInSeq` is a `Max`, and `MaxIs` says which element that is), and the last non-dash character is the final one. So `strings.LastIndex`, `sed 's/.*-//'` and the word split of `init.sh` all return the ordinal, and `ExtractPodIndexFromName` returns no error with index `Atoi(ordinal)`.
- **No induction needed.** The property compares the controller's index with `Atoi` of the same ordinal, so `Atoi` is never unfolded. The model gives `ExtractPodIndexFromName`'s result as the `(int, error)` pair of the Go code, and Reconcile branches on the error, not on the value. A union of `Nat` and an error value would need `Atoi(s) \in Nat`, which is induction over data.
- **`StatefulSetPodsAgreeThm`** (`Spec => []StatefulSetPodsAgree`) holds for every bound on the length of a name and every set of other heads. The pod never changes, so `pod \in Pods` together with the property is inductive.
- **What the model does not include.** Go's `strconv.Atoi` fails on ordinals beyond the range of `int`. The model's `Atoi` does not: a StatefulSet's ordinals are below its `int32` replica count.

**`Bind9StatefulSetProofs`.**

- **Assumptions.** No new ones; the theorems hold for every set of CRs and every `MaxReplicas`.
- **The invariant `IInv`.** `Rendered` says the stored StatefulSet is `NoSts` or `StatefulSet(c)` for a CR `c` whose storage parses. `IInv` adds the ranges of `cr`, `running` and `pvc`. `ManifestFields` then reads the replicas, the volumes and the mounts of any rendered manifest.
- **Paths.** `ResolveTo` proves that `Resolve` returns a mount when that mount's path is a prefix of the path and no other mount's path is a longer prefix. Literal paths are sequences of components, and their concatenations are shown equal by `SeqEqual` (`ConcatEq`).
- **The theorems.**
  - `IInvInvariant`.
  - `VolumesDeclaredThm`: every volume a container mounts is declared by the pod or by a claim template.
  - `InitOutputReachesServiceThm`: `predictable-ip.env` and `merged/named` resolve, in the init container, to the writable merged emptyDir, and bind reads that same volume. `default/named` resolves to the `named` secret, which is mounted inside `config-data` and wins by longest prefix. `keys` resolves to the rndc keys.

**What is only model-checked.**

- **The violated properties.**
- **Liveness** (`InitCompletes`, `ReconcileTerminates`, `ReleaseOnDeletion`). TLAPS does not reason about fairness and `ENABLED` here.
- **`Bind9StatefulSet`'s `TypeOK`.** It states that the names are strings, and tlapm cannot prove that a string literal is in `STRING`. The other properties of that module are proved.
- **`PodIdentity`'s `TypeOK`.** It says the index is a natural, which is `Atoi` (a `FoldLeft`) of a string of digits. Proving it would need induction over the sequence through the recursive function that `FoldLeft` is built on, and the provers cannot instantiate the induction theorems. It is not in a run either, because TLC cannot compare a mistyped index with `Nat` to report a violation. So it holds by construction only.
- **`NameRuleHasOrdinal`.** It is violated, and the name_rule run reports it as a finding.

## 5. Not modelled, and the plan

**Not modelled (see `PROJECT.json` for the reasons):**

- **The Multus JSON formatting.**
- **`GetPodPredictableIP` and `CreatePredictableMultusAnnotation`.** These compute ordinal-indexed addresses, and the reconciler does not call them.
- **`templates/common/init.sh`.** This is the init script of mdns and the other services. What it leaves depends on `merge_config_dir`, which is not under `src/`.
- **The rest of the StatefulSet manifest.** Probes, labels, images, resources and owner references are left out; no property distinguishes them.
- **The bind9 reconcile** that calls `StatefulSet()` is not under `src/`: `Render` only writes its result, and what the reconcile does with an error or a refused update is not modelled.
- **Topology.ApplyTo** (lib-common) is taken to set the Topology's affinity when it has one.
- **Composition.** The controller and the init container are not yet one model: `Bind9Init` writes the annotation once. The annotation_stable run shows that `PodAnnotation` can change it.

**Planned, in order:**

1. **Eventual annotation.** Every running eligible pod is eventually annotated once the other writers stop. This needs strong fairness of `StartAllocate(p)`, which requeues keep enabled.
2. **An annotation that changes in `Bind9Init`.** The controller can rewrite the annotation (see annotation_stable). The question is what a restarted init container, and the env file it keeps, then do.
3. **More proofs.** The PodIdentity type invariant, once a non-recursive form of `Atoi` with a provable range is found. `GeneratePredictableIPMaps` returns `min(bind + mdns, |Addr|)` addresses.
