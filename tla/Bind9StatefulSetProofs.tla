----------------------- MODULE Bind9StatefulSetProofs -----------------------
(***************************************************************************)
(* Proofs about Bind9StatefulSet for every instance name, every set of     *)
(* storage requests and quantities, node selectors, topologies and replica *)
(* bound: the StatefulSet on the cluster is always one StatefulSet()       *)
(* built, its containers mount only declared volumes, and the init         *)
(* container's output is where the bind9 container reads it.               *)
(***************************************************************************)
EXTENDS Bind9StatefulSet, SequenceTheorems, TLAPS

\* The claim template's name, which the bind9 container's mount must name.
ClaimName == InstanceName \o PVCSuffix

\* The StatefulSet on the cluster is the manifest StatefulSet() built from
\* a CR whose storage request parsed (the reconcile writes nothing else).
Rendered ==
    \/ sts = NoSts
    \/ \E c \in CRs : c.storage \in DOMAIN Quantity /\ sts = StatefulSet(c)

\* The inductive invariant: the part of TypeOK the steps need, and Rendered.
IInv ==
    /\ cr \in CRs
    /\ running \in 0 .. MaxReplicas
    /\ pvc \in [Ordinals -> {"none", "empty", "data"}]
    /\ Rendered

-----------------------------------------------------------------------------
(***************************************************************************)
(* What StatefulSet() returns for a CR whose storage request parses.       *)
(***************************************************************************)
LEMMA ManifestFields ==
    ASSUME NEW c \in CRs, c.storage \in DOMAIN Quantity
    PROVE  LET s == StatefulSet(c)
           IN  /\ s # NoSts
               /\ s.replicas = c.replicas
               /\ s.retention = RetentionPolicy
               /\ s.volumes = getServicePodVolumes
               /\ s.service.mounts = getServicePodVolumeMounts(ClaimName)
               /\ s.init.mounts = getInitVolumeMounts
               /\ {cl.name : cl \in s.claims} = {ClaimName}
<1>1. StatefulSet(c) # NoSts
  <2>1. "volumes" \in DOMAIN StatefulSet(c) /\ "volumes" \notin DOMAIN NoSts
    BY DEF StatefulSet, NoSts
  <2> QED
    BY <2>1
<1>2. /\ StatefulSet(c).replicas = c.replicas
      /\ StatefulSet(c).retention = RetentionPolicy
      /\ StatefulSet(c).volumes = getServicePodVolumes
      /\ StatefulSet(c).service.mounts = getServicePodVolumeMounts(ClaimName)
      /\ StatefulSet(c).init.mounts = getInitVolumeMounts
      /\ StatefulSet(c).claims = VolumeClaimTemplates(c)
  BY DEF StatefulSet, ServiceContainer, InitContainer, ClaimName
<1>3. {cl.name : cl \in VolumeClaimTemplates(c)} = {ClaimName}
  <2>1. VolumeClaimTemplates(c)
          = {[name |-> ClaimName, storage |-> Quantity[c.storage]]}
    BY DEF VolumeClaimTemplates, ClaimName
  <2>2. \A y : y \in {cl.name : cl \in VolumeClaimTemplates(c)} <=> y = ClaimName
    BY <2>1
  <2> QED
    BY <2>2
<1> QED
  BY <1>1, <1>2, <1>3

\* The volumes of the pod: the four secrets and the two emptyDirs.
LEMMA VolumeNames ==
    DOMAIN getServicePodVolumes =
        {scriptVolume, configVolume, namedConfigVolume, rndcKeys,
         mergedConfigVolume, logVolume}
BY DEF getServicePodVolumes, PodVolumes

-----------------------------------------------------------------------------
LEMMA InitIInv == Init => IInv
BY Bind9StatefulSetAssumption DEF Init, IInv, Rendered, Ordinals

LEMMA NextIInv == IInv /\ [Next]_vars => IInv'
<1> SUFFICES ASSUME IInv, [Next]_vars PROVE IInv'
  OBVIOUS
<1>1. CASE EditCR
  BY <1>1 DEF EditCR, IInv, Rendered
<1>2. CASE Render
  <2>1. /\ StatefulSet(cr) # NoSts
        /\ sts' = StatefulSet(cr)
        /\ UNCHANGED <<cr, running, pvc>>
    BY <1>2 DEF Render
  <2>2. cr.storage \in DOMAIN Quantity
    BY <2>1 DEF StatefulSet
  <2> QED
    BY <2>1, <2>2 DEF IInv, Rendered
\* The StatefulSet controller scales within the replicas of the manifest.
<1>3. CASE ScaleUp \/ ScaleDown
  <2>1. PICK c \in CRs : c.storage \in DOMAIN Quantity /\ sts = StatefulSet(c)
    BY <1>3 DEF ScaleUp, ScaleDown, IInv, Rendered
  <2>2. sts.replicas \in 0 .. MaxReplicas
    BY <2>1, ManifestFields DEF CRs
  <2>3. running' \in 0 .. MaxReplicas
    BY <1>3, <2>2, Bind9StatefulSetAssumption DEF ScaleUp, ScaleDown, IInv
  <2>4. pvc' \in [Ordinals -> {"none", "empty", "data"}]
    BY <1>3 DEF ScaleUp, ScaleDown, IInv
  <2> QED
    BY <1>3, <2>3, <2>4 DEF ScaleUp, ScaleDown, IInv, Rendered
<1>4. ASSUME NEW i \in Ordinals, BindWrites(i) PROVE IInv'
  BY <1>4 DEF BindWrites, IInv, Rendered
<1>5. CASE UNCHANGED vars
  BY <1>5 DEF vars, IInv, Rendered
<1> QED
  BY <1>1, <1>2, <1>3, <1>4, <1>5 DEF Next

THEOREM IInvInvariant == Spec => []IInv
BY InitIInv, NextIInv, PTL DEF Spec

-----------------------------------------------------------------------------
(***************************************************************************)
(* For every instance name, every StatefulSet the bind9 reconcile writes   *)
(* mounts in its bind9 and init containers only volumes it declares or the *)
(* claim template: the name StatefulSet() gives getServicePodVolumeMounts  *)
(* for the persistent data is the claim template's name.                   *)
(***************************************************************************)
LEMMA RenderedVolumesDeclared == Rendered => VolumesDeclared
<1> SUFFICES ASSUME NEW c \in CRs, c.storage \in DOMAIN Quantity,
                    sts = StatefulSet(c)
             PROVE  VolumesDeclared
  BY DEF Rendered, VolumesDeclared
<1>1. /\ sts.service.mounts = getServicePodVolumeMounts(ClaimName)
      /\ sts.init.mounts = getInitVolumeMounts
      /\ DOMAIN sts.volumes \cup {cl.name : cl \in sts.claims}
           = {scriptVolume, configVolume, namedConfigVolume, rndcKeys,
              mergedConfigVolume, logVolume, ClaimName}
  BY ManifestFields, VolumeNames
<1> QED
  BY <1>1 DEF VolumesDeclared, getServicePodVolumeMounts, getInitVolumeMounts,
              Mount

THEOREM VolumesDeclaredThm == Spec => []VolumesDeclared
BY IInvInvariant, RenderedVolumesDeclared, PTL DEF IInv

-----------------------------------------------------------------------------
(***************************************************************************)
(* Lemmas about the path operators: IsPrefix, and Resolve, the longest     *)
(* prefix among the mounts.                                                *)
(***************************************************************************)

\* A path is a prefix of every path that extends it.
LEMMA PrefixOfConcat ==
    ASSUME NEW S, NEW s \in Seq(S), NEW u \in Seq(S)
    PROVE  IsPrefix(s, s \o u)
<1>1. SubSeq(s \o u, 1, Len(s)) = s
  BY SubSeqOfConcat1
<1>2. SubSeq(s, 1, Len(s)) = s
  BY SubSeqFull
<1> QED
  BY <1>1, <1>2 DEF IsPrefix

\* A path resolves to the mount whose path is a prefix of it and longer
\* than the path of every other mount that is a prefix of it.
LEMMA ResolveTo ==
    ASSUME NEW S, NEW mounts, NEW path, NEW m0 \in mounts,
           \A o \in mounts : o.path \in Seq(S),
           IsPrefix(m0.path, path),
           \A o \in mounts :
              o = m0 \/ ~IsPrefix(o.path, path) \/ Len(o.path) < Len(m0.path)
    PROVE  Resolve(mounts, path) = m0
<1> DEFINE ms == {m \in mounts : IsPrefix(m.path, path)}
<1>1. m0 \in ms /\ \A o \in ms : Len(o.path) \in Nat
  OBVIOUS
<1>2. \A o \in ms : Len(o.path) <= Len(m0.path)
  BY <1>1
<1>3. \A m \in ms : (\A o \in ms : Len(o.path) <= Len(m.path)) => m = m0
  BY <1>1
<1> QED
  BY <1>1, <1>2, <1>3 DEF Resolve

\* Every path is a prefix of itself.
LEMMA PrefixRefl ==
    ASSUME NEW S, NEW s \in Seq(S)
    PROVE  IsPrefix(s, s)
BY SubSeqFull DEF IsPrefix

-----------------------------------------------------------------------------
(***************************************************************************)
(* Where the paths init.sh and bind use resolve.                           *)
(***************************************************************************)

\* The components of the paths of volumes.go and of the scripts.
Comp == {"var", "lib", "config-data", "default", "named", "merged", "keys",
         "usr", "local", "bin", "container-scripts", "kolla", "config_files",
         "config.json", "named-persistent", "log", "bind", "predictable-ip.env"}

\* Two sequences are equal when they have the same length and elements.
LEMMA ConcatEq ==
    ASSUME NEW S, NEW a \in Seq(S), NEW b \in Seq(S), NEW c \in Seq(S),
           Len(a \o b) = Len(c), \A i \in 1 .. Len(c) : (a \o b)[i] = c[i]
    PROVE  a \o b = c
<1>1. a \o b \in Seq(S)
  BY ConcatProperties
<1> QED
  BY <1>1, SeqEqual

\* The merged directory init.sh writes and bind9 reads.
MergedPath == <<"var", "lib", "config-data", "merged">>

\* The paths of volumes.go and init.sh under /var/lib/config-data,
\* component by component.
LEMMA ConfigDataPaths ==
    /\ ConfigData \o <<"default">>
         = <<"var", "lib", "config-data", "default">>
    /\ ConfigData \o <<"default", "named">>
         = <<"var", "lib", "config-data", "default", "named">>
    /\ ConfigData \o <<"merged">>
         = <<"var", "lib", "config-data", "merged">>
    /\ ConfigData \o <<"keys">>
         = <<"var", "lib", "config-data", "keys">>
    /\ MergedPath \o <<"predictable-ip.env">>
         = <<"var", "lib", "config-data", "merged", "predictable-ip.env">>
    /\ MergedPath \o <<"named">>
         = <<"var", "lib", "config-data", "merged", "named">>
<1>1. ConfigData \o <<"default">>
       = <<"var", "lib", "config-data", "default">>
  <2> DEFINE a == ConfigData
             b == <<"default">>
             c == <<"var", "lib", "config-data", "default">>
  <2>1. a \in Seq(Comp) /\ b \in Seq(Comp) /\ c \in Seq(Comp)
    BY DEF ConfigData, MergedPath, Comp
  <2>2. Len(a \o b) = Len(c) /\ \A i \in 1 .. Len(c) : (a \o b)[i] = c[i]
    BY DEF ConfigData, MergedPath
  <2> HIDE DEF a, b, c
  <2>3. a \o b = c
    BY <2>1, <2>2, ConcatEq
  <2> QED
    BY <2>3 DEF a, b, c
<1>2. ConfigData \o <<"default", "named">>
       = <<"var", "lib", "config-data", "default", "named">>
  <2> DEFINE a == ConfigData
             b == <<"default", "named">>
             c == <<"var", "lib", "config-data", "default", "named">>
  <2>1. a \in Seq(Comp) /\ b \in Seq(Comp) /\ c \in Seq(Comp)
    BY DEF ConfigData, MergedPath, Comp
  <2>2. Len(a \o b) = Len(c) /\ \A i \in 1 .. Len(c) : (a \o b)[i] = c[i]
    BY DEF ConfigData, MergedPath
  <2> HIDE DEF a, b, c
  <2>3. a \o b = c
    BY <2>1, <2>2, ConcatEq
  <2> QED
    BY <2>3 DEF a, b, c
<1>3. ConfigData \o <<"merged">>
       = <<"var", "lib", "config-data", "merged">>
  <2> DEFINE a == ConfigData
             b == <<"merged">>
             c == <<"var", "lib", "config-data", "merged">>
  <2>1. a \in Seq(Comp) /\ b \in Seq(Comp) /\ c \in Seq(Comp)
    BY DEF ConfigData, MergedPath, Comp
  <2>2. Len(a \o b) = Len(c) /\ \A i \in 1 .. Len(c) : (a \o b)[i] = c[i]
    BY DEF ConfigData, MergedPath
  <2> HIDE DEF a, b, c
  <2>3. a \o b = c
    BY <2>1, <2>2, ConcatEq
  <2> QED
    BY <2>3 DEF a, b, c
<1>4. ConfigData \o <<"keys">>
       = <<"var", "lib", "config-data", "keys">>
  <2> DEFINE a == ConfigData
             b == <<"keys">>
             c == <<"var", "lib", "config-data", "keys">>
  <2>1. a \in Seq(Comp) /\ b \in Seq(Comp) /\ c \in Seq(Comp)
    BY DEF ConfigData, MergedPath, Comp
  <2>2. Len(a \o b) = Len(c) /\ \A i \in 1 .. Len(c) : (a \o b)[i] = c[i]
    BY DEF ConfigData, MergedPath
  <2> HIDE DEF a, b, c
  <2>3. a \o b = c
    BY <2>1, <2>2, ConcatEq
  <2> QED
    BY <2>3 DEF a, b, c
<1>5. MergedPath \o <<"predictable-ip.env">>
       = <<"var", "lib", "config-data", "merged", "predictable-ip.env">>
  <2> DEFINE a == MergedPath
             b == <<"predictable-ip.env">>
             c == <<"var", "lib", "config-data", "merged", "predictable-ip.env">>
  <2>1. a \in Seq(Comp) /\ b \in Seq(Comp) /\ c \in Seq(Comp)
    BY DEF ConfigData, MergedPath, Comp
  <2>2. Len(a \o b) = Len(c) /\ \A i \in 1 .. Len(c) : (a \o b)[i] = c[i]
    BY DEF ConfigData, MergedPath
  <2> HIDE DEF a, b, c
  <2>3. a \o b = c
    BY <2>1, <2>2, ConcatEq
  <2> QED
    BY <2>3 DEF a, b, c
<1>6. MergedPath \o <<"named">>
       = <<"var", "lib", "config-data", "merged", "named">>
  <2> DEFINE a == MergedPath
             b == <<"named">>
             c == <<"var", "lib", "config-data", "merged", "named">>
  <2>1. a \in Seq(Comp) /\ b \in Seq(Comp) /\ c \in Seq(Comp)
    BY DEF ConfigData, MergedPath, Comp
  <2>2. Len(a \o b) = Len(c) /\ \A i \in 1 .. Len(c) : (a \o b)[i] = c[i]
    BY DEF ConfigData, MergedPath
  <2> HIDE DEF a, b, c
  <2>3. a \o b = c
    BY <2>1, <2>2, ConcatEq
  <2> QED
    BY <2>3 DEF a, b, c
<1> QED
  BY <1>1, <1>2, <1>3, <1>4, <1>5, <1>6

DefaultPath == <<"var", "lib", "config-data", "default">>
NamedPath == <<"var", "lib", "config-data", "default", "named">>
KeysPath == <<"var", "lib", "config-data", "keys">>
ScriptsPath == <<"usr", "local", "bin", "container-scripts">>
KollaPath == <<"var", "lib", "kolla", "config_files", "config.json">>
PersistentPath == <<"var", "named-persistent">>
LogPath == <<"var", "log", "bind">>

\* The mounts of the two containers, with their paths written out.
LEMMA MountLists ==
    /\ getInitVolumeMounts =
         { Mount(configVolume, DefaultPath, TRUE),
           Mount(namedConfigVolume, NamedPath, FALSE),
           Mount(mergedConfigVolume, MergedPath, FALSE),
           Mount(scriptVolume, ScriptsPath, TRUE),
           Mount(rndcKeys, KeysPath, TRUE) }
    /\ \A v : getServicePodVolumeMounts(v) =
         { Mount(mergedConfigVolume, MergedPath, TRUE),
           Mount(mergedConfigVolume, KollaPath, TRUE),
           Mount(scriptVolume, ScriptsPath, TRUE),
           Mount(v, PersistentPath, FALSE),
           Mount(logVolume, LogPath, FALSE) }
BY ConfigDataPaths DEF getInitVolumeMounts, getServicePodVolumeMounts,
   DefaultPath, NamedPath, MergedPath, KeysPath, ScriptsPath, KollaPath,
   PersistentPath, LogPath

\* Every path a container mounts is a sequence of path components.
LEMMA MountPaths ==
    /\ \A o \in getInitVolumeMounts : o.path \in Seq(Comp)
    /\ \A v : \A o \in getServicePodVolumeMounts(v) : o.path \in Seq(Comp)
<1>1. /\ DefaultPath \in Seq(Comp) /\ NamedPath \in Seq(Comp)
      /\ MergedPath \in Seq(Comp) /\ KeysPath \in Seq(Comp)
      /\ ScriptsPath \in Seq(Comp) /\ KollaPath \in Seq(Comp)
      /\ PersistentPath \in Seq(Comp) /\ LogPath \in Seq(Comp)
  BY DEF DefaultPath, NamedPath, MergedPath, KeysPath, ScriptsPath, KollaPath,
         PersistentPath, LogPath, Comp
<1>2. \A o \in getInitVolumeMounts : o.path \in Seq(Comp)
  BY <1>1, MountLists DEF Mount
<1>3. \A v : \A o \in getServicePodVolumeMounts(v) : o.path \in Seq(Comp)
  BY <1>1, MountLists DEF Mount
<1> QED
  BY <1>2, <1>3

\* The files init.sh writes into the merged directory, as paths.
MergedFiles == {MergedPath \o <<"predictable-ip.env">>, MergedPath \o <<"named">>}

LEMMA MergedFilesPaths ==
    MergedFiles =
      { <<"var", "lib", "config-data", "merged", "predictable-ip.env">>,
        <<"var", "lib", "config-data", "merged", "named">> }
BY ConfigDataPaths DEF MergedFiles

\* predictable-ip.env and merged/named, which init.sh writes, are in the
\* merged emptyDir, mounted writable.
LEMMA InitSeesMerged ==
    ASSUME NEW t \in MergedFiles
    PROVE  Resolve(getInitVolumeMounts, t) =
               Mount(mergedConfigVolume, MergedPath, FALSE)
<1> DEFINE m0 == Mount(mergedConfigVolume, MergedPath, FALSE)
<1>1. m0 \in getInitVolumeMounts /\ m0.path \in Seq(Comp)
  BY MountLists, MountPaths DEF Mount
<1>2. IsPrefix(m0.path, t)
  <2>1. MergedPath \in Seq(Comp)
    BY DEF MergedPath, Comp
  <2>2. <<"predictable-ip.env">> \in Seq(Comp) /\ <<"named">> \in Seq(Comp)
    BY DEF Comp
  <2> QED
    BY <2>1, <2>2, PrefixOfConcat DEF Mount, MergedFiles
<1>3. \A o \in getInitVolumeMounts :
         o = m0 \/ ~IsPrefix(o.path, t)
  <2> DEFINE Other(u) == /\ ~IsPrefix(DefaultPath, u) /\ ~IsPrefix(NamedPath, u)
                        /\ ~IsPrefix(KeysPath, u) /\ ~IsPrefix(ScriptsPath, u)
  <2>1. Other(<<"var", "lib", "config-data", "merged", "predictable-ip.env">>)
    BY DEF IsPrefix, DefaultPath, NamedPath, KeysPath, ScriptsPath
  <2>2. Other(<<"var", "lib", "config-data", "merged", "named">>)
    BY DEF IsPrefix, DefaultPath, NamedPath, KeysPath, ScriptsPath
  <2>3. Other(t)
    BY <2>1, <2>2, MergedFilesPaths
  <2> HIDE DEF Other
  <2> QED
    BY <2>3, MountLists DEF Mount, Other
<1> HIDE DEF m0
<1>4. Resolve(getInitVolumeMounts, t) = m0
  BY <1>1, <1>2, <1>3, MountPaths, ResolveTo
<1> QED
  BY <1>4 DEF m0

\* default/named, which init.sh reads, is the named secret mounted inside
\* the read-only config-data default directory: the longer path wins.
LEMMA InitSeesNamed ==
    Resolve(getInitVolumeMounts, NamedPath) =
        Mount(namedConfigVolume, NamedPath, FALSE)
<1> DEFINE m0 == Mount(namedConfigVolume, NamedPath, FALSE)
<1>1. m0 \in getInitVolumeMounts /\ m0.path \in Seq(Comp)
  BY MountLists, MountPaths DEF Mount
<1>2. IsPrefix(m0.path, NamedPath)
  BY <1>1, PrefixRefl DEF Mount
<1>3. \A o \in getInitVolumeMounts :
         o = m0 \/ ~IsPrefix(o.path, NamedPath)
           \/ Len(o.path) < Len(m0.path)
  BY MountLists DEF Mount, IsPrefix, DefaultPath, NamedPath, MergedPath, KeysPath, ScriptsPath
<1> HIDE DEF m0
<1>4. Resolve(getInitVolumeMounts, NamedPath) = m0
  BY <1>1, <1>2, <1>3, MountPaths, ResolveTo
<1> QED
  BY <1>4 DEF m0

\* The rndc keys init.sh copies are read from the keys secret.
LEMMA InitSeesKeys ==
    Resolve(getInitVolumeMounts, KeysPath) = Mount(rndcKeys, KeysPath, TRUE)
<1> DEFINE m0 == Mount(rndcKeys, KeysPath, TRUE)
<1>1. m0 \in getInitVolumeMounts /\ m0.path \in Seq(Comp)
  BY MountLists, MountPaths DEF Mount
<1>2. IsPrefix(m0.path, KeysPath)
  BY <1>1, PrefixRefl DEF Mount
<1>3. \A o \in getInitVolumeMounts :
         o = m0 \/ ~IsPrefix(o.path, KeysPath)
  BY MountLists DEF Mount, IsPrefix, DefaultPath, NamedPath, MergedPath, KeysPath, ScriptsPath
<1> HIDE DEF m0
<1>4. Resolve(getInitVolumeMounts, KeysPath) = m0
  BY <1>1, <1>2, <1>3, MountPaths, ResolveTo
<1> QED
  BY <1>4 DEF m0

\* bind9 reads its configuration from the merged emptyDir.
LEMMA ServiceSeesMerged ==
    ASSUME NEW v
    PROVE  Resolve(getServicePodVolumeMounts(v), MergedPath) =
               Mount(mergedConfigVolume, MergedPath, TRUE)
<1> DEFINE m0 == Mount(mergedConfigVolume, MergedPath, TRUE)
<1>1. m0 \in getServicePodVolumeMounts(v) /\ m0.path \in Seq(Comp)
  BY MountLists, MountPaths DEF Mount
<1>2. IsPrefix(m0.path, MergedPath)
  BY <1>1, PrefixRefl DEF Mount
<1>3. \A o \in getServicePodVolumeMounts(v) :
         o = m0 \/ ~IsPrefix(o.path, MergedPath)
  BY MountLists DEF Mount, IsPrefix, MergedPath, KollaPath, ScriptsPath, PersistentPath, LogPath
<1> HIDE DEF m0
<1>4. Resolve(getServicePodVolumeMounts(v), MergedPath) = m0
  BY <1>1, <1>2, <1>3, MountPaths, ResolveTo
<1> QED
  BY <1>4 DEF m0
-----------------------------------------------------------------------------
LEMMA RenderedInitOutput == Rendered => InitOutputReachesService
<1> SUFFICES ASSUME NEW c \in CRs, c.storage \in DOMAIN Quantity,
                    sts = StatefulSet(c)
             PROVE  InitOutputReachesService
  BY DEF Rendered, InitOutputReachesService
<1>1. /\ sts # NoSts
      /\ sts.init.mounts = getInitVolumeMounts
      /\ sts.service.mounts = getServicePodVolumeMounts(ClaimName)
      /\ sts.volumes = getServicePodVolumes
  BY ManifestFields
<1>2. /\ ConfigData \o <<"merged">> = MergedPath
      /\ ConfigData \o <<"default", "named">> = NamedPath
      /\ ConfigData \o <<"keys">> = KeysPath
  BY ConfigDataPaths DEF MergedPath, NamedPath, KeysPath
<1>3. \A f \in {<<"predictable-ip.env">>, <<"named">>} :
         Resolve(getInitVolumeMounts, MergedPath \o f) =
             Mount(mergedConfigVolume, MergedPath, FALSE)
  BY InitSeesMerged DEF MergedFiles
<1>4. getServicePodVolumes[mergedConfigVolume] = "emptyDir"
  BY DEF getServicePodVolumes, PodVolumes, scriptVolume, configVolume,
         namedConfigVolume, rndcKeys, mergedConfigVolume, logVolume
<1>5. \A f \in {<<"predictable-ip.env">>, <<"named">>} :
         Resolve(sts.init.mounts, (ConfigData \o <<"merged">>) \o f) =
             Mount(mergedConfigVolume, MergedPath, FALSE)
  BY <1>1, <1>2, <1>3
<1>6. Resolve(sts.init.mounts, ConfigData \o <<"default", "named">>) =
          Mount(namedConfigVolume, NamedPath, FALSE)
  BY <1>1, <1>2, InitSeesNamed
<1>7. Resolve(sts.init.mounts, ConfigData \o <<"keys">>) =
          Mount(rndcKeys, KeysPath, TRUE)
  BY <1>1, <1>2, InitSeesKeys
<1>8. Resolve(sts.service.mounts, ConfigData \o <<"merged">>) =
          Mount(mergedConfigVolume, MergedPath, TRUE)
  BY <1>1, <1>2, ServiceSeesMerged
<1> QED
  BY <1>1, <1>4, <1>5, <1>6, <1>7, <1>8 DEF InitOutputReachesService, Mount

(***************************************************************************)
(* For every instance name, in every StatefulSet the bind9 reconcile       *)
(* writes, the init container's nested mounts send predictable-ip.env and  *)
(* merged/named to the writable merged emptyDir, read default/named from   *)
(* the named secret mounted inside the read-only default directory and the *)
(* rndc keys from their secret, and the bind9 container reads its          *)
(* configuration from that same merged emptyDir.                           *)
(***************************************************************************)
THEOREM InitOutputReachesServiceThm == Spec => []InitOutputReachesService
BY IInvInvariant, RenderedInitOutput, PTL DEF IInv
=============================================================================
