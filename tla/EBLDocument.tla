---------------------------- MODULE EBLDocument ----------------------------
(***************************************************************************)
(* The DCSA transport document a bill of lading carries, at the level of  *)
(* its lists: the shipping instruction's document parties and the         *)
(* shipment locations.  CreateFileBasedBillOfLadingFromRequest builds it  *)
(* by a fixed sequence of in-place setters; GetDraft, GetIssuer and       *)
(* GetFileBaseEBLParticipators read it back.  EBLPack abstracts the       *)
(* result to a record of four parties and a draft flag.                   *)
(***************************************************************************)
EXTENDS Naturals, Sequences, SequencesExt

CONSTANTS
  BUs,    \* the DIDs a request can name
  NoBU,   \* ""
  Locs,   \* location names
  Etas    \* ETA date-times

\* Party function codes are DDR issuer, OS shipper, CN consignee and DDS
\* release agent.  NoFunction is a nil PartyFunction.
NoFunction == "nil"
NoEta == "noEta"
NoSI == [none |-> TRUE]
NoDraft == "nil"

\* PrepareDocumentParty: one identifying code, the DID.
PrepareDocumentParty(party, partyFunction) ==
  [party |-> [codes |-> <<party>>], function |-> partyFunction]

\* The BillOfLading's TransportDocument right after it is allocated with
\* only its reference number: no shipping instruction, no locations.
NewTransportDocument ==
  [issuingParty |-> <<>>, si |-> NoSI, locations |-> <<>>]

EmptySI == [parties |-> <<>>, toOrder |-> FALSE, status |-> ""]

\* PrepareSI: td with a shipping instruction, allocating an empty one.
PrepareSI(td) == IF td.si = NoSI THEN [td EXCEPT !.si = EmptySI] ELSE td

\* Fault variant of ReplaceSIParty: the loop tests only that the slot has
\* a party function, not that it is the same one.
ReplaceSIPartyAnyFunction(si, party) ==
  LET k == SelectInSeq(si.parties, LAMBDA p : p.function # NoFunction)
  IN  IF k > 0 THEN [si EXCEPT !.parties[k] = party]
      ELSE [si EXCEPT !.parties = Append(@, party)]

\* ReplaceSIParty: overwrite the first party with the same function, or
\* append the party.
ReplaceSIParty(si, party) ==
  LET k == SelectInSeq(si.parties, LAMBDA p : p.function = party.function)
  IN  IF k > 0 THEN [si EXCEPT !.parties[k] = party]
      ELSE [si EXCEPT !.parties = Append(@, party)]

\* SetConsignee, SetShipper, SetReleaseAgent: PrepareSI, then replace the
\* party of that function.
SetSIParty(td, did, partyFunction) ==
  LET t == PrepareSI(td)
  IN  [t EXCEPT !.si = ReplaceSIParty(t.si, PrepareDocumentParty(did, partyFunction))]

\* SetIssuer also sets the document's IssuingParty.
SetIssuer(td, issuer) ==
  [SetSIParty(td, issuer, "DDR") EXCEPT
     !.issuingParty = PrepareDocumentParty(issuer, "DDR").party.codes]

SetToOrder(td, toOrder) ==
  LET t == PrepareSI(td) IN [t EXCEPT !.si.toOrder = toOrder]

SetDraft(td, draft) ==
  LET t == PrepareSI(td) IN [t EXCEPT !.si.status = IF draft THEN "DRFT" ELSE "ISSU"]

\* ReplaceShipmentLocation: overwrite the first location of the same type,
\* or append it.
ReplaceShipmentLocation(td, loc) ==
  LET k == SelectInSeq(td.locations, LAMBDA l : l.type = loc.type)
  IN  IF k > 0 THEN [td EXCEPT !.locations[k] = loc]
      ELSE [td EXCEPT !.locations = Append(@, loc)]

\* SetPOL and SetPOD: a location with no EventDateTime.
SetLocation(td, name, type) ==
  ReplaceShipmentLocation(td, [type |-> type, name |-> name, eta |-> NoEta])

\* SetETA: the EventDateTime of the first POD location, if there is one.
SetETA(td, eta) ==
  LET k == SelectInSeq(td.locations, LAMBDA l : l.type = "POD")
  IN  IF k = 0 THEN td ELSE [td EXCEPT !.locations[k].eta = eta]

\* The setters in the order CreateFileBasedBillOfLadingFromRequest calls
\* them.  Create and UpdateDraft dereference request.Draft before, so the
\* SetDraft branch is always taken.
CreateTransportDocument(req) ==
  LET t1 == SetLocation(NewTransportDocument, req.pol, "POL")
      t2 == SetLocation(t1, req.pod, "POD")
      t3 == SetETA(t2, req.eta)
      t4 == SetIssuer(t3, req.issuer)
      t5 == SetSIParty(t4, req.shipper, "OS")
      t6 == SetSIParty(t5, req.consignee, "CN")
      t7 == SetSIParty(t6, req.releaseAgent, "DDS")
      t8 == SetToOrder(t7, req.toOrder)
  IN  SetDraft(t8, req.draft)

(***************************************************************************)
(* Readers of the shipping instruction of a BillOfLading event.            *)
(***************************************************************************)
\* GetDraft: DRFT is TRUE, ISSU is FALSE, anything else nil.
DraftOfSI(td) ==
  IF td.si = NoSI THEN NoDraft
  ELSE CASE td.si.status = "DRFT" -> TRUE
         [] td.si.status = "ISSU" -> FALSE
         [] OTHER -> NoDraft

\* GetIssuer: the first code of the first DDR party (it does not skip a
\* party without codes).
IssuerOfSI(td) ==
  IF td.si = NoSI THEN NoBU
  ELSE LET k == SelectInSeq(td.si.parties, LAMBDA p : p.function = "DDR")
       IN  IF k = 0 THEN NoBU ELSE td.si.parties[k].party.codes[1]

\* The FileBaseEBLParticipators field a party function fills.
FieldOf == ("DDR" :> "issuer") @@ ("OS" :> "shipper") @@ ("CN" :> "consignee")
           @@ ("DDS" :> "releaseAgent")

\* One iteration of the backward loop of GetFileBaseEBLParticipators: a
\* party with codes and a known function sets its field, so the first
\* party of a function wins.
ResolveParty(p, result) ==
  IF Len(p.party.codes) = 0 \/ p.function \notin DOMAIN FieldOf THEN result
  ELSE [result EXCEPT ![FieldOf[p.function]] = p.party.codes[1]]

ParticipatorsOfSI(td) ==
  LET none == [issuer |-> NoBU, shipper |-> NoBU, consignee |-> NoBU,
               releaseAgent |-> NoBU]
  IN  IF td.si = NoSI THEN none ELSE FoldRight(ResolveParty, td.si.parties, none)

=============================================================================
