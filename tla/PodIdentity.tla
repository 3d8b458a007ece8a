----------------------------- MODULE PodIdentity -----------------------------
(***************************************************************************)
(* How a pod is told apart and numbered: the reconciler's filter           *)
(* isDesignatePod and ExtractPodIndexFromName (which give the ordinal, and *)
(* so the holder key pod_<ordinal>), and, in the pod, the init scripts'    *)
(* own readings of the ordinal from POD_NAME: set-predictable-ip.sh's      *)
(* POD_INDEX and init.sh's pod_index, which names the rndc key file.       *)
(*                                                                         *)
(* A pod name is a head, one of a few names (the three service names of    *)
(* the code and some others), followed by a tail over the characters       *)
(* Chars.  Only the tail is parsed character by character: every head is   *)
(* letters around a dash (designate-mdns, designate-api, ...), so a token  *)
(* that reaches into it holds letters and is not a number.  The tail       *)
(* keeps a pod name valid (DNS-1123: it does not end in a dash).           *)
(***************************************************************************)
EXTENDS Naturals, Sequences, SequencesExt

CONSTANTS
    OtherHeads,   \* heads of pod and owner names other than the services
    MaxTail,      \* the longest tail of a pod name
    Malformed     \* the error of a failed parse (a Go error, an `exit 1`)

\* designateServices of isDesignatePod (lines 168 and 180).
Services == {"designate-backendbind9", "designate-mdns", "designate-unbound"}

Heads == Services \cup OtherHeads

ASSUME PodIdentityAssumption ==
    /\ OtherHeads \cap Services = {}
    /\ MaxTail \in Nat
    /\ Malformed \notin Nat \cup Seq({"-", "x", "0", "1"})

\* The characters of a tail: a dash, two digits and a letter.
DigitValue == [c \in {"0", "1"} |-> IF c = "0" THEN 0 ELSE 1]
Digits == DOMAIN DigitValue
Chars == Digits \cup {"-", "x"}

\* A head as text: letters around a dash.
HeadText == <<"x", "-", "x">>

Text(name) == HeadText \o name.tail

-----------------------------------------------------------------------------
(***************************************************************************)
(* The pods the watch may deliver.  A pod of a StatefulSet is named        *)
(* <statefulset>-<ordinal>, the ordinal in decimal without leading zeros;  *)
(* any other pod has any valid name.                                       *)
(***************************************************************************)
Tails == {t \in SeqOf(Chars, MaxTail) : t = <<>> \/ Last(t) # "-"}

Names == [head : Heads, tail : Tails]

\* A decimal number as kubernetes writes it: no sign, no leading zero.
IsCanonical(s) ==
    /\ s # <<>>
    /\ \A i \in 1 .. Len(s) : s[i] \in Digits
    /\ (Len(s) > 1 => s[1] # "0")

NoOwner == [kind |-> "None", name |-> "none"]

Owners == {NoOwner} \cup [kind : {"StatefulSet", "ReplicaSet"}, name : Heads]

IsStatefulSetPodName(name, owner) ==
    /\ name.head = owner.name
    /\ name.tail # <<>>
    /\ name.tail[1] = "-"
    /\ IsCanonical(Tail(name.tail))

Pods ==
    {p \in [name : Names, designateLabel : BOOLEAN, owner : Owners] :
        p.owner.kind = "StatefulSet" => IsStatefulSetPodName(p.name, p.owner)}

-----------------------------------------------------------------------------
(***************************************************************************)
(* The parsers.                                                            *)
(***************************************************************************)

\* The value of a string of digits, as strconv.Atoi computes it.
Atoi(s) == FoldLeft(LAMBDA n, c : 10 * n + DigitValue[c], 0, s)

\* Every character a digit, and at least one: Atoi without a sign (a pod
\* name holds no '+'), and the test =~ ^[0-9]+$ of set-predictable-ip.sh.
IsNumber(s) == s # <<>> /\ \A i \in 1 .. Len(s) : s[i] \in Digits

\* podName[strings.LastIndex(podName, "-")+1:], and sed 's/.*-//'.
AfterLastDash(s) == SubSeq(s, SelectLastInSeq(s, LAMBDA c : c = "-") + 1, Len(s))

\* Mutant: the token after the first dash.
ExtractPodIndexFromNameFirstDash(name) ==
    LET s == Text(name)
        tok == SubSeq(s, SelectInSeq(s, LAMBDA c : c = "-") + 1, Len(s))
    IN  [err |-> ~IsNumber(tok), index |-> IF IsNumber(tok) THEN Atoi(tok) ELSE 0]

(***************************************************************************)
(* ExtractPodIndexFromName: the token after the last dash, as an integer,  *)
(* and the error (with 0) when it is not one.  A name without a dash fails *)
(* too; a head has a dash, and a name whose last dash is in its head fails *)
(* on the head's letters the same way.                                     *)
(***************************************************************************)
ExtractPodIndexFromName(name) ==
    LET tok == AfterLastDash(Text(name))
    IN  [err |-> ~IsNumber(tok), index |-> IF IsNumber(tok) THEN Atoi(tok) ELSE 0]

(***************************************************************************)
(* isDesignatePod: (a) the label app.kubernetes.io/name=designate; (b) an  *)
(* owner of kind StatefulSet whose name contains a service name (a head    *)
(* contains a service name only by being it); (c) the name starts with     *)
(* <service>- and the rest starts with a digit.                            *)
(***************************************************************************)
isDesignatePod(p) ==
    \/ p.designateLabel
    \/ p.owner.kind = "StatefulSet" /\ p.owner.name \in Services
    \/ /\ p.name.head \in Services
       /\ p.name.tail # <<>>
       /\ p.name.tail[1] = "-"
       /\ Len(p.name.tail) > 1
       /\ p.name.tail[2] \in Digits

\* set-predictable-ip.sh lines 28-32: POD_INDEX, or exit 1.
PodIndexOfScript(name) ==
    LET tok == AfterLastDash(Text(name))
    IN  IF IsNumber(tok) THEN tok ELSE Malformed

(***************************************************************************)
(* init.sh lines 70-72: name_parts=(${POD_NAME//-/ }) splits on dashes and *)
(* drops empty words; pod_index is the last word.                          *)
(***************************************************************************)
PodIndexOfInit(name) ==
    LET s == Text(name)
        j == SelectLastInSeq(s, LAMBDA c : c # "-")
        i == SelectLastInSubSeq(s, 1, j, LAMBDA c : c = "-")
    IN  SubSeq(s, i + 1, j)

-----------------------------------------------------------------------------
(***************************************************************************)
(* A pod observed by the reconciler and, if it is a pod of a designate     *)
(* StatefulSet, run by the init container: each derives the ordinal on its *)
(* own, in either order.                                                   *)
(***************************************************************************)
VARIABLES
    pod,          \* the pod
    ctrl,         \* what Reconcile made of it: its outcome and the ordinal
    init          \* what the init container made of it

vars == <<pod, ctrl, init>>

Init ==
    /\ pod \in Pods
    /\ ctrl = [phase |-> "pending", index |-> Malformed]
    /\ init = [phase |-> "pending", podIndex |-> Malformed, keyIndex |-> <<>>]

(***************************************************************************)
(* Reconcile lines 73-100 for a running, unannotated pod: ignored when the *)
(* filter refuses it, an error (and a requeue) when the ordinal does not   *)
(* parse, else on to AllocateIP with the ordinal.                          *)
(***************************************************************************)
Reconcile ==
    LET res == ExtractPodIndexFromName(pod.name)
    IN  /\ ctrl.phase = "pending"
        /\ \/ /\ ~isDesignatePod(pod)
              /\ ctrl' = [ctrl EXCEPT !.phase = "ignored"]
           \/ /\ isDesignatePod(pod)
              /\ res.err
              /\ ctrl' = [ctrl EXCEPT !.phase = "requeue"]
           \/ /\ isDesignatePod(pod)
              /\ ~res.err
              /\ ctrl' = [phase |-> "allocate", index |-> res.index]
        /\ UNCHANGED <<pod, init>>

(***************************************************************************)
(* The init container of a designate StatefulSet's pod: POD_INDEX of       *)
(* set-predictable-ip.sh (or its exit 1) and the rndc key name of init.sh. *)
(***************************************************************************)
InitContainer ==
    /\ init.phase = "pending"
    /\ pod.owner.kind = "StatefulSet" /\ pod.owner.name \in Services
    /\ init' = [phase |-> "ran",
                podIndex |-> PodIndexOfScript(pod.name),
                keyIndex |-> PodIndexOfInit(pod.name)]
    /\ UNCHANGED <<pod, ctrl>>

Next == Reconcile \/ InitContainer

Spec == Init /\ [][Next]_vars

-----------------------------------------------------------------------------
(***************************************************************************)
(* Properties.                                                             *)
(***************************************************************************)

\* Every variable holds a value of its type.
TypeOK ==
    /\ pod \in Pods
    /\ ctrl \in [phase : {"pending", "ignored", "requeue", "allocate"},
                 index : {Malformed} \cup Nat]
    /\ init \in [phase : {"pending", "ran"},
                 podIndex : {Malformed} \cup Seq(Chars),
                 keyIndex : Seq(Chars)]

(***************************************************************************)
(* Every pod of a designate StatefulSet is let through the filter and      *)
(* numbered by its ordinal, and its init container reads the same ordinal  *)
(* from POD_NAME in both scripts, so that the holder key, POD_INDEX and    *)
(* the rndc key file all name the same replica.                            *)
(***************************************************************************)
StatefulSetPodsAgree ==
    LET ordinal == Tail(pod.name.tail)
    IN  pod.owner.kind = "StatefulSet" /\ pod.owner.name \in Services =>
            /\ ctrl.phase # "pending" =>
                    ctrl = [phase |-> "allocate", index |-> Atoi(ordinal)]
            /\ init.phase = "ran" =>
                    init.podIndex = ordinal /\ init.keyIndex = ordinal

(***************************************************************************)
(* A pod let through by its name alone (rule (c) of isDesignatePod) has a  *)
(* numeric ordinal, as spec 4.4 says ("followed by a numeric ordinal       *)
(* suffix"), so that Reconcile does not fail on it at every requeue.       *)
(***************************************************************************)
NameRuleHasOrdinal ==
    LET admittedByName ==
            /\ ~pod.designateLabel
            /\ ~(pod.owner.kind = "StatefulSet" /\ pod.owner.name \in Services)
    IN  admittedByName => ctrl.phase # "requeue"
=============================================================================
