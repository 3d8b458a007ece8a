---------------------------- MODULE MCBind9Init ----------------------------
(***************************************************************************)
(* TLC instances of Bind9Init: two addresses the controller may pick.      *)
(***************************************************************************)
EXTENDS Bind9Init, TLC

CONSTANTS ip1, ip2

\* The addresses, as model values.
MCIPs == {ip1, ip2}

\* Addresses are only compared, so they are interchangeable (safety runs).
Symmetry == Permutations(MCIPs)

\* The rndc key is in the secret before the pod starts.
MCKeyReady == {TRUE}

\* The rndc key may be missing when the pod starts and appear later.
MCKeyLate == {TRUE, FALSE}
=============================================================================
