----------------------------- MODULE MCDocument -----------------------------
(***************************************************************************)
(* The transport document CreateFileBasedBillOfLadingFromRequest builds,   *)
(* read back with the Go readers, against the record EBLPack abstracts a  *)
(* BillOfLading to.  A behaviour is a series of Create/UpdateDraft request *)
(* bodies; each differs from the previous one in one field, so every body *)
(* is reached with a small number of transitions per state.               *)
(***************************************************************************)
EXTENDS EBLDocument, TLC

CONSTANTS i, s, c, a, l1, l2, t1

Pack == INSTANCE EBLPack

VARIABLE request

\* The values of each field of a request body: any BU in any role (roles
\* may coincide), any locations.
FieldValues ==
  [issuer |-> BUs, shipper |-> BUs, consignee |-> BUs, releaseAgent |-> BUs,
   draft |-> BOOLEAN, toOrder |-> BOOLEAN, pol |-> Locs, pod |-> Locs, eta |-> Etas]

Init == request = [issuer |-> i, shipper |-> s, consignee |-> c,
                   releaseAgent |-> a, draft |-> TRUE, toOrder |-> FALSE,
                   pol |-> l1, pod |-> l2, eta |-> t1]

NextRequest ==
  \E f \in DOMAIN FieldValues : \E v \in FieldValues[f] :
    request' = [request EXCEPT ![f] = v]

Spec == Init /\ [][NextRequest]_request

\* The location of a type in the built document.
LocationOf(td, type) ==
  LET k == SelectInSeq(td.locations, LAMBDA l : l.type = type)
  IN  IF k = 0 THEN [type |-> type, name |-> "none", eta |-> NoEta] ELSE td.locations[k]

\* The document CreateFileBasedBillOfLadingFromRequest builds reads back,
\* through GetFileBaseEBLParticipators, GetIssuer and GetDraft, as exactly
\* the parties, issuer and draft flag of EBLPack's BillOfLading record, and
\* keeps the POL, the POD and the ETA on the POD that the request gave: the
\* controller model's record of parties is a faithful abstraction of the
\* document-party list, whichever BUs share a role.
DocumentMatchesPack ==
  LET td == CreateTransportDocument(request)
      bl == Pack!CreateFileBasedBillOfLading(request.issuer,
              [issuer |-> request.issuer, shipper |-> request.shipper,
               consignee |-> request.consignee, releaseAgent |-> request.releaseAgent],
              request.draft)
  IN  /\ ParticipatorsOfSI(td) = bl.parties
      /\ IssuerOfSI(td) = bl.parties.issuer
      /\ DraftOfSI(td) = bl.draft
      /\ td.si.toOrder = request.toOrder
      /\ LocationOf(td, "POL") = [type |-> "POL", name |-> request.pol, eta |-> NoEta]
      /\ LocationOf(td, "POD") = [type |-> "POD", name |-> request.pod, eta |-> request.eta]

=============================================================================
