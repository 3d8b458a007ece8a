------------------------- MODULE PodIdentityProofs -------------------------
(***************************************************************************)
(* Proofs about PodIdentity for every set of other heads and every bound   *)
(* on the length of a name: the reconciler and both init scripts read the  *)
(* same ordinal from the name of a pod of a designate StatefulSet.         *)
(***************************************************************************)
EXTENDS PodIdentity, SequenceTheorems, TLAPS

(***************************************************************************)
(* Lemmas about the operators the parsers are built from.                  *)
(***************************************************************************)

\* The greatest element of a set of integers is what Max returns.
LEMMA MaxIs ==
    ASSUME NEW S \in SUBSET Int, NEW m \in S, \A y \in S : y <= m
    PROVE  Max(S) = m
<1>1. \E x \in S : \A y \in S : x >= y
  OBVIOUS
<1>2. Max(S) \in S /\ \A y \in S : Max(S) >= y
  BY <1>1 DEF Max
<1>3. Max(S) \in Int /\ m >= Max(S) /\ Max(S) >= m
  BY <1>2
<1> QED  BY <1>3

\* A tail of a pod name is a sequence of characters.
LEMMA TailsAreSeqs == Tails \subseteq Seq(Chars)
BY PodIdentityAssumption DEF Tails, SeqOf

(***************************************************************************)
(* The name of a pod of a StatefulSet is x-x, then a dash and the ordinal. *)
(* Its last dash is the one before the ordinal and its last character is a *)
(* digit, so strings.LastIndex, sed 's/.*-//' and the word split of        *)
(* init.sh all end at the ordinal.                                         *)
(***************************************************************************)
LEMMA ParseOrdinal ==
    ASSUME NEW name, name.tail \in Seq(Chars), name.tail # <<>>,
           name.tail[1] = "-", IsCanonical(Tail(name.tail))
    PROVE  /\ ExtractPodIndexFromName(name) =
                  [err |-> FALSE, index |-> Atoi(Tail(name.tail))]
           /\ PodIndexOfScript(name) = Tail(name.tail)
           /\ PodIndexOfInit(name) = Tail(name.tail)
<1> DEFINE t == name.tail
           ord == Tail(t)
           s == Text(name)
           n == Len(s)
<1>1. /\ HeadText \in Seq(Chars)
      /\ s \in Seq(Chars)
      /\ n = 3 + Len(t)
      /\ Len(t) >= 2
  BY DEF HeadText, Text, Chars, Digits, DigitValue, IsCanonical
<1>2. \A i \in 1 .. n : s[i] = IF i <= 3 THEN HeadText[i] ELSE t[i - 3]
  BY <1>1 DEF Text
<1>3. s[2] = "-" /\ s[4] = "-"
  BY <1>1, <1>2 DEF HeadText
<1>4. \A i \in 5 .. n : s[i] = ord[i - 4] /\ s[i] \in Digits
  <2>1. Len(ord) = Len(t) - 1 /\ \A k \in 1 .. Len(ord) : ord[k] = t[k + 1]
    BY <1>1
  <2>2. \A k \in 1 .. Len(ord) : ord[k] \in Digits
    BY DEF IsCanonical
  <2> SUFFICES ASSUME NEW i \in 5 .. n PROVE s[i] = ord[i - 4] /\ s[i] \in Digits
    OBVIOUS
  <2>3. s[i] = t[i - 3]
    BY <1>1, <1>2
  <2>4. i - 4 \in 1 .. Len(ord)
    BY <1>1, <2>1
  <2>5. ord[i - 4] = t[i - 3]
    BY <2>1, <2>4
  <2> QED  BY <2>2, <2>3, <2>4, <2>5
<1>5. "-" \notin Digits
  BY DEF Digits, DigitValue
<1>6. SelectLastInSeq(s, LAMBDA c : c = "-") = 4
  <2> DEFINE I == {i \in 1 .. n : s[i] = "-"}
  <2>1. 4 \in I /\ \A y \in I : y <= 4
    BY <1>1, <1>3, <1>4, <1>5
  <2>2. Max(I) = 4
    <3>1. I \in SUBSET Int
      OBVIOUS
    <3> QED  BY <2>1, <3>1, MaxIs
  <2> QED  BY <2>1, <2>2 DEF SelectLastInSeq
<1>7. SelectLastInSeq(s, LAMBDA c : c # "-") = n
  <2> DEFINE J == {i \in 1 .. n : s[i] # "-"}
  <2>1. n \in J /\ \A y \in J : y <= n
    BY <1>1, <1>4, <1>5
  <2>2. Max(J) = n
    <3>1. J \in SUBSET Int
      OBVIOUS
    <3> QED  BY <2>1, <3>1, MaxIs
  <2> QED  BY <2>1, <2>2 DEF SelectLastInSeq
<1>8. SelectLastInSubSeq(s, 1, n, LAMBDA c : c = "-") = 4
  <2> DEFINE I == {i \in 1 .. n : s[i] = "-"}
  <2>1. 4 \in I /\ \A y \in I : y <= 4
    BY <1>1, <1>3, <1>4, <1>5
  <2>2. Max(I) = 4
    <3>1. I \in SUBSET Int
      OBVIOUS
    <3> QED  BY <2>1, <3>1, MaxIs
  <2> QED  BY <2>1, <2>2 DEF SelectLastInSubSeq
<1>9. SubSeq(s, 5, n) = ord
  BY <1>1, <1>4
<1>10. AfterLastDash(s) = ord
  BY <1>6, <1>9 DEF AfterLastDash
<1>11. IsNumber(ord)
  BY DEF IsNumber, IsCanonical
<1>12. ExtractPodIndexFromName(name) = [err |-> FALSE, index |-> Atoi(ord)]
  BY <1>10, <1>11 DEF ExtractPodIndexFromName
<1>13. PodIndexOfScript(name) = ord
  BY <1>10, <1>11 DEF PodIndexOfScript
<1>14. PodIndexOfInit(name) = ord
  <2> DEFINE j == SelectLastInSeq(s, LAMBDA c : c # "-")
             k == SelectLastInSubSeq(s, 1, j, LAMBDA c : c = "-")
  <2>1. PodIndexOfInit(name) = SubSeq(s, k + 1, j)
    BY DEF PodIndexOfInit
  <2>2. j = n
    BY <1>7
  <2>3. k = 4
    BY <1>8, <2>2
  <2> HIDE DEF j, k
  <2> QED  BY <1>9, <2>1, <2>2, <2>3
<1> QED  BY <1>12, <1>13, <1>14

(***************************************************************************)
(* The invariant.  The pod does not change, so StatefulSetPodsAgree with   *)
(* the pod's type is inductive: Reconcile and the init container each      *)
(* parse the name once, and ParseOrdinal says what both find.              *)
(***************************************************************************)
IInv == pod \in Pods /\ StatefulSetPodsAgree

\* The facts about a pod of a StatefulSet that ParseOrdinal needs.
LEMMA StatefulSetPodName ==
    ASSUME NEW p \in Pods, p.owner.kind = "StatefulSet"
    PROVE  /\ p.name.tail \in Seq(Chars)
           /\ p.name.tail # <<>>
           /\ p.name.tail[1] = "-"
           /\ IsCanonical(Tail(p.name.tail))
BY TailsAreSeqs DEF Pods, Names, IsStatefulSetPodName

LEMMA InitIInv == Init => IInv
BY DEF Init, IInv, StatefulSetPodsAgree

LEMMA NextIInv == IInv /\ [Next]_vars => IInv'
<1> SUFFICES ASSUME IInv, [Next]_vars PROVE IInv'
  OBVIOUS
<1>1. pod' = pod
  BY DEF Next, Reconcile, InitContainer, vars
<1>2. CASE ~(pod.owner.kind = "StatefulSet" /\ pod.owner.name \in Services)
  BY <1>1, <1>2 DEF IInv, StatefulSetPodsAgree
<1>3. CASE pod.owner.kind = "StatefulSet" /\ pod.owner.name \in Services
  <2> DEFINE ord == Tail(pod.name.tail)
  <2>1. /\ ExtractPodIndexFromName(pod.name) = [err |-> FALSE, index |-> Atoi(ord)]
        /\ PodIndexOfScript(pod.name) = ord
        /\ PodIndexOfInit(pod.name) = ord
    <3>1. pod \in Pods
      BY DEF IInv
    <3> QED  BY <1>3, <3>1, StatefulSetPodName, ParseOrdinal
  <2>2. isDesignatePod(pod)
    BY <1>3 DEF isDesignatePod
  <2>3. CASE Reconcile
    <3>1. ctrl' = [phase |-> "allocate", index |-> Atoi(ord)] /\ init' = init
      BY <2>1, <2>2, <2>3 DEF Reconcile
    <3> QED  BY <1>1, <3>1 DEF IInv, StatefulSetPodsAgree
  <2>4. CASE InitContainer
    <3>1. /\ init' = [phase |-> "ran", podIndex |-> ord, keyIndex |-> ord]
          /\ ctrl' = ctrl
      BY <2>1, <2>4 DEF InitContainer
    <3> QED  BY <1>1, <3>1 DEF IInv, StatefulSetPodsAgree
  <2>5. CASE UNCHANGED vars
    BY <2>5 DEF IInv, StatefulSetPodsAgree, vars
  <2> QED  BY <2>3, <2>4, <2>5 DEF Next
<1> QED  BY <1>2, <1>3

(***************************************************************************)
(* Every pod of a designate StatefulSet, whatever its name and however     *)
(* long, is let through by isDesignatePod and numbered by its ordinal, and *)
(* set-predictable-ip.sh and init.sh read that same ordinal from POD_NAME. *)
(***************************************************************************)
THEOREM StatefulSetPodsAgreeThm == Spec => []StatefulSetPodsAgree
<1>1. Init => IInv
  BY InitIInv
<1>2. IInv /\ [Next]_vars => IInv'
  BY NextIInv
<1>3. IInv => StatefulSetPodsAgree
  BY DEF IInv
<1> QED  BY <1>1, <1>2, <1>3, PTL DEF Spec
=============================================================================
