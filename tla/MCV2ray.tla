------------------------------ MODULE MCV2ray ------------------------------
(***************************************************************************)
(* Instances of V2ray for TLC.                                             *)
(***************************************************************************)
EXTENDS V2rayProps

CONSTANTS a, b
=============================================================================
