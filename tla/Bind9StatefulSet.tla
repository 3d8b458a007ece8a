--------------------------- MODULE Bind9StatefulSet ---------------------------
(***************************************************************************)
(* The bind9 StatefulSet: StatefulSet() of designatebackendbind9 and the   *)
(* volume and mount lists it is built from (volumes.go), written to the    *)
(* cluster by the bind9 reconcile, and what Kubernetes then does with it:  *)
(* the API server refuses a change of the volumeClaimTemplates of an       *)
(* existing StatefulSet, and the StatefulSet controller scales the pods    *)
(* one ordinal at a time, creating each ordinal's PVC from the template    *)
(* and keeping or deleting it on scale-down as the retention policy says.  *)
(*                                                                         *)
(* A path is a sequence of its components; a container sees a path in the *)
(* volume of the mount whose path is the longest prefix of it.            *)
(***************************************************************************)
EXTENDS Naturals, Sequences, SequencesExt

CONSTANTS
    InstanceName,     \* instance.Name
    StorageRequests,  \* strings instance.Spec.StorageRequest may hold
    Quantity,         \* resource.ParseQuantity on the strings it accepts
    Selectors,        \* node selectors; NoSelector is a nil NodeSelector
    NoSelector,
    TopologyAffinities, \* affinities a Topology CR may carry
    MaxReplicas

\* The nil Topology, and a Topology without an affinity.
NoTopology == "none"
NoAffinity == "unset"

\* affinity.DistributePods(AppSelector, [serviceName], LabelHostname).
DistributePods == "distribute"

ASSUME Bind9StatefulSetAssumption ==
    /\ DOMAIN Quantity \subseteq StorageRequests
    /\ NoSelector \in Selectors
    /\ DistributePods \notin TopologyAffinities
    /\ MaxReplicas \in Nat

Ordinals == 0 .. MaxReplicas - 1

(***************************************************************************)
(* The CR fields StatefulSet() reads, with the Topology the caller passes: *)
(* NoTopology, or its affinity (NoAffinity when it sets none).             *)
(***************************************************************************)
CRs == [storage : StorageRequests, replicas : 0 .. MaxReplicas,
        nodeSelector : Selectors,
        topology : {NoTopology, NoAffinity} \cup TopologyAffinities]

-----------------------------------------------------------------------------
(***************************************************************************)
(* volumes.go.                                                             *)
(***************************************************************************)
PVCSuffix == "-designate-bind"
scriptVolume == "designatebackendbind9-scripts"
configVolume == "designatebackendbind9-config-data"
namedConfigVolume == "designatebackendbind9-config-named"
mergedConfigVolume == "designatebackendbind9-config-data-merged"
logVolume == "designatebackendbind9-log-volume"
rndcKeys == "designatebackendbind9-keys"

\* The secrets and the emptyDirs of the pod, by volume name.
PodVolumes(secrets, emptyDirs) ==
    [v \in secrets \cup emptyDirs |-> IF v \in secrets THEN "secret" ELSE "emptyDir"]

\* Mutant: the log emptyDir left out of the list.
getServicePodVolumesNoLog ==
    PodVolumes({scriptVolume, configVolume, namedConfigVolume, rndcKeys},
               {mergedConfigVolume})

\* getServicePodVolumes: four secrets and two emptyDirs.
getServicePodVolumes ==
    PodVolumes({scriptVolume, configVolume, namedConfigVolume, rndcKeys},
               {mergedConfigVolume, logVolume})

Mount(volume, path, ro) == [volume |-> volume, path |-> path, ro |-> ro]

ConfigData == <<"var", "lib", "config-data">>

\* Mutant: the merged directory mounted read-only in the init container.
getInitVolumeMountsMergedRO ==
    { Mount(configVolume, ConfigData \o <<"default">>, TRUE),
      Mount(namedConfigVolume, ConfigData \o <<"default", "named">>, FALSE),
      Mount(mergedConfigVolume, ConfigData \o <<"merged">>, TRUE),
      Mount(scriptVolume, <<"usr", "local", "bin", "container-scripts">>, TRUE),
      Mount(rndcKeys, ConfigData \o <<"keys">>, TRUE) }

\* getInitVolumeMounts: named is mounted inside the read-only default.
getInitVolumeMounts ==
    { Mount(configVolume, ConfigData \o <<"default">>, TRUE),
      Mount(namedConfigVolume, ConfigData \o <<"default", "named">>, FALSE),
      Mount(mergedConfigVolume, ConfigData \o <<"merged">>, FALSE),
      Mount(scriptVolume, <<"usr", "local", "bin", "container-scripts">>, TRUE),
      Mount(rndcKeys, ConfigData \o <<"keys">>, TRUE) }

\* getServicePodVolumeMounts; the subPath mount puts the file
\* designate-bind9-config.json of the merged volume at kolla's config.json.
getServicePodVolumeMounts(persistentData) ==
    { Mount(mergedConfigVolume, ConfigData \o <<"merged">>, TRUE),
      Mount(mergedConfigVolume,
            <<"var", "lib", "kolla", "config_files", "config.json">>, TRUE),
      Mount(scriptVolume, <<"usr", "local", "bin", "container-scripts">>, TRUE),
      Mount(persistentData, <<"var", "named-persistent">>, FALSE),
      Mount(logVolume, <<"var", "log", "bind">>, FALSE) }

\* The mount a container sees a path through, or NoMount: its own
\* filesystem.
NoMount == Mount("rootfs", <<>>, FALSE)

Resolve(mounts, path) ==
    LET ms == {m \in mounts : IsPrefix(m.path, path)}
    IN  IF ms = {} THEN NoMount
        ELSE CHOOSE m \in ms : \A o \in ms : Len(o.path) <= Len(m.path)

-----------------------------------------------------------------------------
(***************************************************************************)
(* StatefulSet().                                                          *)
(***************************************************************************)

\* Mutant: the service container mounts a claim named instance.Name.
ServiceContainerNoSuffix(cr) ==
    [mounts |-> getServicePodVolumeMounts(InstanceName),
     env |-> {"KOLLA_CONFIG_STRATEGY", "CONFIG_HASH"}]

\* The bind9 container (lines 240-242 and 266-276).
ServiceContainer(cr) ==
    [mounts |-> getServicePodVolumeMounts(InstanceName \o PVCSuffix),
     env |-> {"KOLLA_CONFIG_STRATEGY", "CONFIG_HASH"}]

\* The init container (lines 342-367): no NETWORK_ATTACHMENT_DEFINITION.
InitContainer ==
    [mounts |-> getInitVolumeMounts,
     env |-> {"PREDICTABLE_IP_FROM_ANNOTATION", "POD_NAME", "POD_NAMESPACE",
              "CustomConf", "RNDC_PREFIX"}]

RetentionPolicy == [whenDeleted |-> "Delete", whenScaled |-> "Retain"]

\* The claim template: its name and the parsed storage request.
VolumeClaimTemplates(cr) ==
    {[name |-> InstanceName \o PVCSuffix, storage |-> Quantity[cr.storage]]}

\* Lines 316-339: the topology applied, or DistributePods; then
\* DistributePods again, unconditionally.
Affinity(cr) ==
    LET applied == IF cr.topology = NoTopology THEN DistributePods
                   ELSE IF cr.topology = NoAffinity THEN NoAffinity
                   ELSE cr.topology
    IN  DistributePods

(***************************************************************************)
(* StatefulSet(): NoSts with an error when the storage request does not    *)
(* parse, else the manifest.                                               *)
(***************************************************************************)
NoSts == [replicas |-> 0]

StatefulSet(cr) ==
    IF cr.storage \notin DOMAIN Quantity THEN NoSts
    ELSE [replicas |-> cr.replicas,
          volumes |-> getServicePodVolumes,
          service |-> ServiceContainer(cr),
          init |-> InitContainer,
          claims |-> VolumeClaimTemplates(cr),
          retention |-> RetentionPolicy,
          nodeSelector |-> cr.nodeSelector,
          affinity |-> Affinity(cr),
          topology |-> cr.topology]

-----------------------------------------------------------------------------
(***************************************************************************)
(* The cluster: the CR, the StatefulSet the bind9 reconcile wrote (NoSts   *)
(* before the first), the pods the StatefulSet controller runs (ordinals   *)
(* 0 .. running-1) and each ordinal's PVC: none, empty, or holding the     *)
(* zone data bind wrote to /var/named-persistent.                          *)
(***************************************************************************)
VARIABLES cr, sts, running, pvc

vars == <<cr, sts, running, pvc>>

Init ==
    /\ cr \in CRs
    /\ sts = NoSts
    /\ running = 0
    /\ pvc = [i \in Ordinals |-> "none"]

\* The user edits the CR.
EditCR ==
    /\ cr' \in CRs \ {cr}
    /\ UNCHANGED <<sts, running, pvc>>

(***************************************************************************)
(* The bind9 reconcile calls StatefulSet() and writes its result: a parse  *)
(* error writes nothing, and the API server refuses an update whose claim  *)
(* templates differ from the existing ones (compared by quantity, so       *)
(* "1Gi" and "1024Mi" are the same request).                               *)
(***************************************************************************)
Render ==
    LET new == StatefulSet(cr)
    IN  /\ new # NoSts
        /\ IF sts = NoSts THEN TRUE ELSE sts.claims = new.claims
        /\ sts # new
        /\ sts' = new
        /\ UNCHANGED <<cr, running, pvc>>

\* The StatefulSet controller starts the next ordinal, with its PVC from the
\* claim template if it has none.
ScaleUp ==
    /\ sts # NoSts
    /\ running < sts.replicas
    /\ pvc' = [pvc EXCEPT ![running] = IF @ = "none" THEN "empty" ELSE @]
    /\ running' = running + 1
    /\ UNCHANGED <<cr, sts>>

\* ... and removes the highest ordinal, deleting its PVC when whenScaled
\* says Delete.
ScaleDown ==
    /\ sts # NoSts
    /\ running > sts.replicas
    /\ running' = running - 1
    /\ pvc' = IF sts.retention.whenScaled = "Delete"
              THEN [pvc EXCEPT ![running - 1] = "none"] ELSE pvc
    /\ UNCHANGED <<cr, sts>>

\* bind in the pod of ordinal i writes zone data where /var/named-persistent
\* resolves: the ordinal's PVC when the mount names the claim template.
BindWrites(i) ==
    /\ i < running
    /\ pvc[i] = "empty"
    /\ Resolve(sts.service.mounts, <<"var", "named-persistent">>).volume
         \in {c.name : c \in sts.claims}
    /\ pvc' = [pvc EXCEPT ![i] = "data"]
    /\ UNCHANGED <<cr, sts, running>>

Next ==
    \/ EditCR
    \/ Render
    \/ ScaleUp
    \/ ScaleDown
    \/ \E i \in Ordinals : BindWrites(i)

Spec == Init /\ [][Next]_vars

-----------------------------------------------------------------------------
(***************************************************************************)
(* Properties.                                                             *)
(***************************************************************************)

\* The StatefulSets StatefulSet() may return.
Mounts == [volume : STRING, path : Seq(STRING), ro : BOOLEAN]
Manifests ==
    [replicas : 0 .. MaxReplicas,
     volumes : [{scriptVolume, configVolume, namedConfigVolume, rndcKeys,
                 mergedConfigVolume, logVolume} -> {"secret", "emptyDir"}],
     service : [mounts : SUBSET Mounts, env : SUBSET STRING],
     init : [mounts : SUBSET Mounts, env : SUBSET STRING],
     claims : SUBSET [name : STRING, storage : Nat],
     retention : [whenDeleted : {"Delete", "Retain"},
                  whenScaled : {"Delete", "Retain"}],
     nodeSelector : Selectors,
     affinity : {DistributePods, NoAffinity} \cup TopologyAffinities,
     topology : {NoTopology, NoAffinity} \cup TopologyAffinities]

\* Every variable holds a value of its type.
TypeOK ==
    /\ cr \in CRs
    /\ sts \in {NoSts} \cup Manifests
    /\ running \in 0 .. MaxReplicas
    /\ pvc \in [Ordinals -> {"none", "empty", "data"}]

(***************************************************************************)
(* Every volume a container of the written StatefulSet mounts is a volume  *)
(* of the pod or a claim template: the mount names StatefulSet() passes to *)
(* getServicePodVolumeMounts and the names it gives the volumes and the    *)
(* claim template agree, or the API server refuses the StatefulSet.        *)
(***************************************************************************)
VolumesDeclared ==
    sts # NoSts =>
        \A m \in sts.service.mounts \cup sts.init.mounts :
            m.volume \in DOMAIN sts.volumes \cup {c.name : c \in sts.claims}

(***************************************************************************)
(* The files init.sh and set-predictable-ip.sh touch resolve, through the  *)
(* init container's nested mounts, to the volume meant for them and are    *)
(* writable where written, and the merged directory the init container     *)
(* writes is the emptyDir the bind9 container reads its configuration      *)
(* from: predictable-ip.env and merged/named are written (init.sh 28, 54), *)
(* default/named is read from the named secret (55), not from config-data. *)
(***************************************************************************)
InitOutputReachesService ==
    LET merged == ConfigData \o <<"merged">>
        initSees(path) == Resolve(sts.init.mounts, path)
    IN  sts # NoSts =>
          /\ \A f \in {<<"predictable-ip.env">>, <<"named">>} :
                 /\ initSees(merged \o f).volume = mergedConfigVolume
                 /\ ~initSees(merged \o f).ro
          /\ initSees(ConfigData \o <<"default", "named">>).volume
                 = namedConfigVolume
          /\ initSees(ConfigData \o <<"keys">>).volume = rndcKeys
          /\ Resolve(sts.service.mounts, merged).volume = mergedConfigVolume
          /\ sts.volumes[mergedConfigVolume] = "emptyDir"

(***************************************************************************)
(* A Topology that carries an affinity decides the pods' affinity: the     *)
(* if/else of lines 316-329 applies it and uses DistributePods only when   *)
(* there is no Topology.                                                   *)
(***************************************************************************)
TopologyAffinityKept ==
    sts # NoSts /\ sts.topology \in TopologyAffinities =>
        sts.affinity = sts.topology
====
