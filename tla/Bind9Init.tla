------------------------------ MODULE Bind9Init ------------------------------
(***************************************************************************)
(* The init container of a bind9 pod: templates/designatebackendbind9/    *)
(* bin/init.sh, which runs templates/common/set-predictable-ip.sh, under   *)
(* `set -ex`, together with what it depends on:                            *)
(*                                                                         *)
(*  - the pod's predictable-ip annotation, written by the pod annotation   *)
(*    controller at some point after the pod exists, and read by the       *)
(*    container through the downward API (volumes.go) when it starts;      *)
(*  - the files of the `merged` emptyDir (volumes.go), which outlive a     *)
(*    restart of the container and are lost only with the pod;            *)
(*  - the rndc key of the pod in the keys secret;                          *)
(*  - kubelet, which restarts a failed init container (the pod's restart   *)
(*    policy is Always) and may kill a running one (OOM, node pressure).   *)
(*                                                                         *)
(* The network attachment is configured (NETWORK_ATTACHMENT_DEFINITION is  *)
(* set): without it the script skips the predictable IP altogether.        *)
(* merge_config_dir (common.sh) does not touch merged/named: were it to    *)
(* create it, the mkdir of line 54 would fail on every run.                *)
(***************************************************************************)
EXTENDS Naturals

CONSTANTS
    IPs,          \* addresses the controller may annotate the pod with
    NoIP,         \* an empty or unset variable
    Absent,       \* a file that does not exist
    KeyInit,      \* whether the rndc key is in the secret at pod start
    MaxKills      \* how many times kubelet may kill the running container

ASSUME Bind9InitAssumption ==
    /\ IPs # {}
    /\ NoIP \notin IPs
    /\ Absent \notin IPs \cup {NoIP}
    /\ KeyInit \subseteq BOOLEAN /\ KeyInit # {}
    /\ MaxKills \in Nat

\* The two template lines the seds rewrite, as copied from default/named.
ListenAny == "any"  \* listen-on port 53 { any; };   (options.conf)
InetStar == "*"    \* inet * port 953               (rndc.conf)

\* Where the container is: a line of init.sh, done, or failed and waiting
\* for kubelet's restart.
Steps == {"Created", "SetIP", "ApplyIP", "Mkdir", "CopyNamed", "CopyKey",
          "Done", "Failed"}

VARIABLES
    ann,          \* the pod's predictable-ip annotation (NoIP: not yet)
    keyPresent,   \* the rndc key file for this pod's index is in the secret
    pc,           \* the step of the container
    envIP,        \* PREDICTABLE_IP_FROM_ANNOTATION of the running container
    envFile,      \* merged/predictable-ip.env: its PREDICTABLE_IP, or Absent
    namedDir,     \* merged/named exists
    options,      \* merged/named/options.conf: its listen-on, or Absent
    rndcConf,     \* merged/named/rndc.conf: its inet address, or Absent
    rndcKey,      \* merged/named/rndc.key was copied
    kills         \* kills so far

files == <<envFile, namedDir, options, rndcConf, rndcKey>>
vars == <<ann, keyPresent, pc, envIP, files, kills>>

-----------------------------------------------------------------------------
(***************************************************************************)
(* The downward API: env var PREDICTABLE_IP_FROM_ANNOTATION takes the      *)
(* annotation's value when the container is started (empty when absent).   *)
(***************************************************************************)
DownwardAPIEnv == ann

\* Mutant: an empty PREDICTABLE_IP_FROM_ANNOTATION is used as is.
PredictableIPNoCheck == envIP

(***************************************************************************)
(* set-predictable-ip.sh, lines 38-60: the annotation if the variable is   *)
(* non-empty, else PREDICTABLE_IP sourced from an earlier run's env file;  *)
(* Absent when neither exists (the script then exits 1).                   *)
(***************************************************************************)
PredictableIP ==
    IF envIP # NoIP THEN envIP ELSE envFile

\* sed -i "s/<template>/<ip>/" on a file: only the template text is replaced.
Sed(file, template, ip) == IF file = template THEN ip ELSE file

-----------------------------------------------------------------------------
Init ==
    /\ ann = NoIP
    /\ keyPresent \in KeyInit
    /\ pc = "Created"
    /\ envIP = NoIP
    /\ envFile = Absent
    /\ namedDir = FALSE
    /\ options = Absent
    /\ rndcConf = Absent
    /\ rndcKey = FALSE
    /\ kills = 0

(***************************************************************************)
(* kubelet starts the init container, or restarts it after it failed: the  *)
(* environment is resolved again, the emptyDir keeps its files.            *)
(***************************************************************************)
StartContainer ==
    /\ pc \in {"Created", "Failed"}
    /\ pc' = "SetIP"
    /\ envIP' = DownwardAPIEnv
    /\ UNCHANGED <<ann, keyPresent, files, kills>>

\* Mutant: init.sh without `set -e`: a failed set-predictable-ip.sh goes on
\* to the else of line 42 and then to the merge.
SetPredictableIPNoErrExit ==
    /\ pc = "SetIP"
    /\ \/ /\ PredictableIP # Absent
          /\ envFile' = PredictableIP
          /\ pc' = "ApplyIP"
       \/ /\ PredictableIP = Absent
          /\ pc' = "Mkdir"
          /\ UNCHANGED envFile
    /\ UNCHANGED <<ann, keyPresent, envIP, namedDir, options, rndcConf,
                   rndcKey, kills>>

(***************************************************************************)
(* init.sh line 25 runs set-predictable-ip.sh (POD_NAME is set by the      *)
(* manifest and ends in the ordinal).  It writes the env file and returns  *)
(* 0, or exits 1 when it has no address, and `set -e` then ends init.sh    *)
(* with that status: the `else` of line 42 is never reached.               *)
(***************************************************************************)
SetPredictableIP ==
    /\ pc = "SetIP"
    /\ \/ /\ PredictableIP # Absent
          /\ envFile' = PredictableIP
          /\ pc' = "ApplyIP"
       \/ /\ PredictableIP = Absent
          /\ pc' = "Failed"
          /\ UNCHANGED envFile
    /\ UNCHANGED <<ann, keyPresent, envIP, namedDir, options, rndcConf,
                   rndcKey, kills>>

(***************************************************************************)
(* init.sh lines 28-41: source the env file, and point options.conf and    *)
(* rndc.conf at PREDICTABLE_IP if they exist in merged/named.              *)
(***************************************************************************)
ApplyIP ==
    /\ pc = "ApplyIP"
    /\ options' = IF namedDir THEN Sed(options, ListenAny, envFile) ELSE options
    /\ rndcConf' = IF namedDir THEN Sed(rndcConf, InetStar, envFile) ELSE rndcConf
    /\ pc' = "Mkdir"
    /\ UNCHANGED <<ann, keyPresent, envIP, envFile, namedDir, rndcKey, kills>>

(***************************************************************************)
(* init.sh lines 50-54: merge_config_dir, then mkdir merged/named, which   *)
(* fails, and with `set -e` ends the script, when the directory exists.    *)
(***************************************************************************)
Mkdir ==
    /\ pc = "Mkdir"
    /\ \/ /\ ~namedDir
          /\ namedDir' = TRUE
          /\ pc' = "CopyNamed"
       \/ /\ namedDir
          /\ pc' = "Failed"
          /\ UNCHANGED namedDir
    /\ UNCHANGED <<ann, keyPresent, envIP, envFile, options, rndcConf,
                   rndcKey, kills>>

\* init.sh line 55: cp -f default/named/* merged/named/, the templates.
CopyNamed ==
    /\ pc = "CopyNamed"
    /\ options' = ListenAny
    /\ rndcConf' = InetStar
    /\ pc' = "CopyKey"
    /\ UNCHANGED <<ann, keyPresent, envIP, envFile, namedDir, rndcKey, kills>>

(***************************************************************************)
(* init.sh lines 59-79: copy rndc-key-<index> from the keys secret into    *)
(* merged/named/rndc.key and exit 0, or exit 1 when it is not there.       *)
(***************************************************************************)
CopyKey ==
    /\ pc = "CopyKey"
    /\ \/ /\ keyPresent
          /\ rndcKey' = TRUE
          /\ pc' = "Done"
       \/ /\ ~keyPresent
          /\ pc' = "Failed"
          /\ UNCHANGED rndcKey
    /\ UNCHANGED <<ann, keyPresent, envIP, envFile, namedDir, options,
                   rndcConf, kills>>

Script ==
    \/ StartContainer
    \/ SetPredictableIP
    \/ ApplyIP
    \/ Mkdir
    \/ CopyNamed
    \/ CopyKey

-----------------------------------------------------------------------------
(***************************************************************************)
(* The environment.                                                        *)
(***************************************************************************)

\* The pod annotation controller writes the predictable-ip annotation.
Annotate(ip) ==
    /\ ann = NoIP
    /\ ann' = ip
    /\ UNCHANGED <<keyPresent, pc, envIP, files, kills>>

\* The rndc key of this index appears in the keys secret volume.
KeyAppears ==
    /\ ~keyPresent
    /\ keyPresent' = TRUE
    /\ UNCHANGED <<ann, pc, envIP, files, kills>>

\* kubelet kills the running init container; the emptyDir stays.
Kill ==
    /\ pc \notin {"Created", "Done", "Failed"}
    /\ kills < MaxKills
    /\ pc' = "Failed"
    /\ kills' = kills + 1
    /\ UNCHANGED <<ann, keyPresent, envIP, files>>

Next ==
    \/ Script
    \/ \E ip \in IPs : Annotate(ip)
    \/ KeyAppears
    \/ Kill

(***************************************************************************)
(* Fairness: kubelet runs a started container and restarts a failed one    *)
(* (with backoff, forever); the controller does annotate the pod and the   *)
(* rndc key is eventually in the secret.  Kill has no fairness.            *)
(***************************************************************************)
Fairness ==
    /\ WF_vars(Script)
    /\ WF_vars(\E ip \in IPs : Annotate(ip))
    /\ WF_vars(KeyAppears)

Spec == Init /\ [][Next]_vars /\ Fairness

-----------------------------------------------------------------------------
(***************************************************************************)
(* Properties.                                                             *)
(***************************************************************************)

\* Every variable holds a value of its type.
TypeOK ==
    /\ ann \in IPs \cup {NoIP}
    /\ keyPresent \in BOOLEAN
    /\ pc \in Steps
    /\ envIP \in IPs \cup {NoIP}
    /\ envFile \in IPs \cup {Absent}
    /\ namedDir \in BOOLEAN
    /\ options \in IPs \cup {ListenAny, Absent}
    /\ rndcConf \in IPs \cup {InetStar, Absent}
    /\ rndcKey \in BOOLEAN
    /\ kills \in 0 .. MaxKills

(***************************************************************************)
(* The init container completes only with the pod's annotated address in   *)
(* predictable-ip.env, across restarts, kills and a controller that        *)
(* annotates late: a start before the annotation fails (set -e) instead   *)
(* of going on with no address, and the env file an earlier run left is   *)
(* only used when it holds the same address.                               *)
(***************************************************************************)
CompletesWithAnnotatedIP ==
    pc = "Done" => (ann # NoIP /\ envFile = ann)

(***************************************************************************)
(* When the init container completes, named is configured on the pod's     *)
(* predictable IP: options.conf listens on it and rndc.conf uses it, as    *)
(* the comments of init.sh lines 31 and 37 say.                            *)
(***************************************************************************)
NamedListensOnIP ==
    pc = "Done" => (options = envFile /\ rndcConf = envFile)

(***************************************************************************)
(* The init container eventually completes, so the pod starts: a           *)
(* controller that annotates late, a missing rndc key or a kill only       *)
(* delay it.                                                               *)
(***************************************************************************)
InitCompletes == <>(pc = "Done")
=============================================================================
