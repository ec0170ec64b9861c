-------------------------- MODULE MCEBLController --------------------------
(***************************************************************************)
(* Model-checking instance of EBLController: four business units holding  *)
(* the four roles, two concurrent calls, one pack id.                      *)
(***************************************************************************)
EXTENDS EBLController, TLC

CONSTANTS i, s, c, a   \* issuer, shipper, consignee, release agent DIDs

\* The parties every Create/UpdateDraft body may name: distinct roles, or the
\* shipper also named as consignee (a BU holding two roles).
MCPartyChoices ==
  { [issuer |-> NoBU, shipper |-> s, consignee |-> c, releaseAgent |-> a] }

MCPartyChoicesShared ==
  { [issuer |-> NoBU, shipper |-> s, consignee |-> c, releaseAgent |-> a],
    [issuer |-> NoBU, shipper |-> s, consignee |-> s, releaseAgent |-> a] }

CallSymmetry == Permutations(Calls)

=============================================================================
