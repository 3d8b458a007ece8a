--------------------------- MODULE PredictableIP ---------------------------
(***************************************************************************)
(* Address arithmetic of the predictable-IP helpers of package designate.  *)
(* An address is a natural number; ip.Next() is +1.  The range is         *)
(* [RangeStart, RangeEnd): every walk in the code stops when it reaches    *)
(* RangeEnd, so RangeEnd itself is never handed out.                       *)
(***************************************************************************)
EXTENDS Naturals, FiniteSets

CONSTANTS
    RangeStart,   \* predParams.RangeStart: first address of the range
    RangeEnd,     \* predParams.RangeEnd: sentinel that is never issued
    NoIP          \* the empty string: no address (absent entry, no annotation)

ASSUME RangeAssumption ==
    /\ RangeStart \in Nat
    /\ RangeEnd \in Nat
    /\ RangeStart < RangeEnd

ASSUME NoIPAssumption == NoIP \notin Nat

\* The addresses a walk from RangeStart visits before it meets RangeEnd.
Addr == RangeStart .. (RangeEnd - 1)

(***************************************************************************)
(* GetNextIP(predParams, allocatedIPs): the walk from RangeStart returns   *)
(* the first address that allocatedIPs does not hold; NoIP stands for     *)
(* ErrPredictableIPOutOfAddresses, the walk reaching RangeEnd.  The        *)
(* function lives outside src/ and is modelled from the spec (section      *)
(* 4.3, steps 4 and 5).                                                    *)
(***************************************************************************)
IsFirstFree(a, allocated) ==
    /\ a \in Addr \ allocated
    /\ \A b \in Addr \ allocated : a <= b

GetNextIP(allocated) ==
    IF \E a \in Addr : IsFirstFree(a, allocated)
    THEN CHOOSE a \in Addr : IsFirstFree(a, allocated)
    ELSE NoIP

\* Mutant: the loops test for RangeEnd after storing an address, not before.
GeneratePredictableIPMapsPastEnd(bindReplicas, mdnsReplicas) ==
    LET walk == RangeStart .. RangeEnd
        bindIPs == {RangeStart + i : i \in 0 .. (bindReplicas - 1)} \cap walk
        mdnsFrom == RangeStart + Cardinality(bindIPs)
    IN  bindIPs \cup ({mdnsFrom + j : j \in 0 .. (mdnsReplicas - 1)} \cap walk)

(***************************************************************************)
(* GeneratePredictableIPMaps(predParams, bindReplicas, mdnsReplicas): the  *)
(* addresses of the bind map, then of the mdns map, which continues the    *)
(* same walk; each loop breaks when the walk reaches RangeEnd.  Only the   *)
(* values of the two maps are ever read (AllocateIP ranges over .Data), so *)
(* the result is the set of addresses the two ConfigMaps hold.             *)
(***************************************************************************)
GeneratePredictableIPMaps(bindReplicas, mdnsReplicas) ==
    LET bindIPs == {RangeStart + i : i \in 0 .. (bindReplicas - 1)} \cap Addr
        mdnsFrom == RangeStart + Cardinality(bindIPs)
        mdnsIPs == {mdnsFrom + j : j \in 0 .. (mdnsReplicas - 1)} \cap Addr
    IN  bindIPs \cup mdnsIPs

=============================================================================
