--------------------------- MODULE Bind9InitProofs ---------------------------
(***************************************************************************)
(* Proofs about Bind9Init: type correctness, and that the init container   *)
(* completes only with the pod's annotated address in predictable-ip.env,  *)
(* for any addresses, any number of kills and any arrival of the key.      *)
(***************************************************************************)
EXTENDS Bind9Init, TLAPS

(***************************************************************************)
(* The inductive invariant.  What the running container holds in           *)
(* PREDICTABLE_IP_FROM_ANNOTATION and what predictable-ip.env holds are    *)
(* the annotation (it is written once), and a container past               *)
(* set-predictable-ip.sh has written the env file.                        *)
(***************************************************************************)
EnvIsAnnotation == envIP # NoIP => envIP = ann

EnvFileIsAnnotation == envFile # Absent => (ann # NoIP /\ envFile = ann)

PastSetIP == pc \in {"ApplyIP", "Mkdir", "CopyNamed", "CopyKey", "Done"}
                => envFile # Absent

IInv == TypeOK /\ EnvIsAnnotation /\ EnvFileIsAnnotation /\ PastSetIP

USE Bind9InitAssumption DEF files, vars

\* The initial states satisfy the invariant.
LEMMA InitIInv == Init => IInv
<1> SUFFICES ASSUME Init PROVE IInv
    OBVIOUS
<1>1. keyPresent \in BOOLEAN
      BY DEF Init
<1>2. kills \in 0 .. MaxKills
      BY DEF Init
<1>3. TypeOK
      BY <1>1, <1>2 DEF Init, TypeOK, Steps
<1>4. EnvIsAnnotation /\ EnvFileIsAnnotation /\ PastSetIP
      BY DEF Init, EnvIsAnnotation, EnvFileIsAnnotation, PastSetIP
<1>. QED
     BY <1>3, <1>4 DEF IInv

\* kubelet's start re-reads the annotation into the environment.
LEMMA StartContainerIInv == IInv /\ StartContainer => IInv'
BY DEF IInv, StartContainer, DownwardAPIEnv, TypeOK, EnvIsAnnotation,
       EnvFileIsAnnotation, PastSetIP, Steps

\* set-predictable-ip.sh writes the annotation, or the same file back.
LEMMA SetPredictableIPIInv == IInv /\ SetPredictableIP => IInv'
<1> SUFFICES ASSUME IInv, SetPredictableIP PROVE IInv'
    OBVIOUS
<1>1. CASE PredictableIP # Absent
      <2>1. envFile' = PredictableIP /\ pc' = "ApplyIP"
            BY <1>1 DEF SetPredictableIP
      <2>2. PredictableIP \in IPs /\ PredictableIP = ann
            BY <1>1 DEF PredictableIP, IInv, TypeOK, EnvIsAnnotation,
                        EnvFileIsAnnotation
      <2>3. ann # NoIP
            BY <2>2
      <2>. QED
           BY <2>1, <2>2, <2>3 DEF SetPredictableIP, IInv, TypeOK,
                                   EnvIsAnnotation, EnvFileIsAnnotation,
                                   PastSetIP, Steps
<1>2. CASE PredictableIP = Absent
      BY <1>2 DEF SetPredictableIP, IInv, TypeOK, EnvIsAnnotation,
                  EnvFileIsAnnotation, PastSetIP, Steps
<1>. QED
     BY <1>1, <1>2

\* The steps after set-predictable-ip.sh leave the address alone.
LEMMA ApplyIPIInv == IInv /\ ApplyIP => IInv'
BY DEF IInv, ApplyIP, Sed, TypeOK, EnvIsAnnotation, EnvFileIsAnnotation,
       PastSetIP, Steps

LEMMA MkdirIInv == IInv /\ Mkdir => IInv'
BY DEF IInv, Mkdir, TypeOK, EnvIsAnnotation, EnvFileIsAnnotation,
       PastSetIP, Steps

LEMMA CopyNamedIInv == IInv /\ CopyNamed => IInv'
BY DEF IInv, CopyNamed, TypeOK, EnvIsAnnotation, EnvFileIsAnnotation,
       PastSetIP, Steps

LEMMA CopyKeyIInv == IInv /\ CopyKey => IInv'
BY DEF IInv, CopyKey, TypeOK, EnvIsAnnotation, EnvFileIsAnnotation,
       PastSetIP, Steps

\* The annotation is written while no container holds an address.
LEMMA AnnotateIInv == ASSUME IInv, NEW ip \in IPs, Annotate(ip) PROVE IInv'
BY DEF IInv, Annotate, TypeOK, EnvIsAnnotation, EnvFileIsAnnotation,
       PastSetIP

LEMMA KeyAppearsIInv == IInv /\ KeyAppears => IInv'
BY DEF IInv, KeyAppears, TypeOK, EnvIsAnnotation, EnvFileIsAnnotation,
       PastSetIP

LEMMA KillIInv == IInv /\ Kill => IInv'
BY DEF IInv, Kill, TypeOK, EnvIsAnnotation, EnvFileIsAnnotation,
       PastSetIP, Steps

LEMMA StutterIInv == IInv /\ UNCHANGED vars => IInv'
BY DEF IInv, TypeOK, EnvIsAnnotation, EnvFileIsAnnotation, PastSetIP

\* Every step preserves the invariant.
LEMMA NextIInv == IInv /\ [Next]_vars => IInv'
BY InitIInv, StartContainerIInv, SetPredictableIPIInv, ApplyIPIInv,
   MkdirIInv, CopyNamedIInv, CopyKeyIInv, AnnotateIInv, KeyAppearsIInv,
   KillIInv, StutterIInv
   DEF Next, Script

(***************************************************************************)
(* The invariant holds in every state of every behaviour.                  *)
(***************************************************************************)
THEOREM Bind9IInvInvariant == Spec => []IInv
BY InitIInv, NextIInv, PTL DEF Spec

(***************************************************************************)
(* Type correctness of the init container model: every variable keeps its  *)
(* type through restarts, kills and the late annotation.                   *)
(***************************************************************************)
THEOREM Bind9TypeCorrect == Spec => []TypeOK
BY Bind9IInvInvariant, PTL DEF IInv

(***************************************************************************)
(* The init container completes only with the pod's annotated address in   *)
(* predictable-ip.env: set -e turns a start before the annotation into a   *)
(* failure, and every later start re-reads it.                             *)
(***************************************************************************)
THEOREM CompletesWithAnnotatedIPThm == Spec => []CompletesWithAnnotatedIP
<1>1. IInv => CompletesWithAnnotatedIP
      BY DEF IInv, CompletesWithAnnotatedIP, EnvFileIsAnnotation, PastSetIP
<1>. QED
     BY <1>1, Bind9IInvInvariant, PTL

=============================================================================
