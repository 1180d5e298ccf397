----------------------------- MODULE MCNewClient -----------------------------
(***************************************************************************)
(* Instances of NewClient for TLC: three settings, of which the first in   *)
(* alphabetical order (as accept-flake-config) is gated and the second is  *)
(* experimental-features.                                                  *)
(***************************************************************************)
EXTENDS NewClient

MCKeys == {1, 2, 3}
MCGated == {1}

\* Every configuration.
AllConfigs == ConfigType
=============================================================================
