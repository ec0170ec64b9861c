------------------------------ MODULE EBLPack ------------------------------
(***************************************************************************)
(* The bill-of-lading pack and the pure functions the file-based eBL       *)
(* controller applies to it (src/pkg/bu_server/trade_document/             *)
(* file_based_ebl.go): participator resolution, current owner, next owner  *)
(* by action, and the indexing metadata stored beside each version.        *)
(*                                                                         *)
(* Data is abstracted to what the controller's decisions depend on: a DID  *)
(* is a model value, a BillOfLading event keeps its creator, its four      *)
(* parties and its draft status (file, ports, ETA and notes are dropped),  *)
(* an ownership event keeps its kind, its "by" and its "to".               *)
(***************************************************************************)
EXTENDS Naturals, Sequences, SequencesExt, FiniteSets

CONSTANTS
  BUs,    \* DIDs of business units, model values
  NoBU    \* the empty DID string "", which Go uses for "absent"

ASSUME NoBU \notin BUs

DIDs == BUs \cup {NoBU}

(***************************************************************************)
(* FileBaseEBLParticipators: the four parties of a shipping instruction,   *)
(* keyed by the roles DDR (issuer), OS (shipper), CN (consignee) and DDS   *)
(* (release agent).                                                        *)
(***************************************************************************)
Parties == [issuer : DIDs, shipper : DIDs, consignee : DIDs, releaseAgent : DIDs]

NoParties == [issuer |-> NoBU, shipper |-> NoBU, consignee |-> NoBU,
              releaseAgent |-> NoBU]

\* partiesByOrder in GetBillOfLadingPackMeta.
PartiesByOrder(p) == <<p.issuer, p.shipper, p.consignee, p.releaseAgent>>

(***************************************************************************)
(* BillOfLadingEvent: exactly one arm is populated, so an event is a       *)
(* record tagged by its kind.                                              *)
(***************************************************************************)
OwnershipKinds == {"Transfer", "Return", "Surrender", "AmendmentRequest"}
TerminalKinds  == {"Accomplish", "PrintToPaper"}

BLEvents ==
  [kind : {"BillOfLading"}, createdBy : BUs, parties : Parties, draft : BOOLEAN]
ActionEvents ==
  [kind : OwnershipKinds \cup TerminalKinds, by : BUs, to : DIDs]
Events == BLEvents \cup ActionEvents

(***************************************************************************)
(* CreateFileBasedBillOfLadingFromRequest with SetIssuer, SetShipper,      *)
(* SetConsignee, SetReleaseAgent (each through ReplaceSIParty, so one      *)
(* party per role) and SetDraft.                                           *)
(***************************************************************************)
\* Fault variant of CreateFileBasedBillOfLading: SetIssuer is left out, so
\* the DDR party stays as the request body gave it.
CreateFileBasedBillOfLadingNoIssuer(issuer, parties, draft) ==
  [kind |-> "BillOfLading", createdBy |-> issuer, parties |-> parties, draft |-> draft]

CreateFileBasedBillOfLading(issuer, parties, draft) ==
  [kind |-> "BillOfLading", createdBy |-> issuer,
   parties |-> [parties EXCEPT !.issuer = issuer], draft |-> draft]

ActionEvent(kind, by, to) == [kind |-> kind, by |-> by, to |-> to]

IsBL(e) == e.kind = "BillOfLading"
IsAmendmentRequest(e) == e.kind = "AmendmentRequest"

\* Spec 4.E: an amendment request is outstanding when the most recent
\* AmendmentRequest comes after the most recent BillOfLading; the set of at
\* most one such event.  The state-machine guards use this definition.
OutstandingAmendmentRequest(events) ==
  LET ar == SelectLastInSeq(events, IsAmendmentRequest)
      bl == SelectLastInSeq(events, IsBL)
  IN  IF ar > bl THEN {events[ar]} ELSE {}

\* Fault variant of ScanStep: a BillOfLading leaves amendmentRequest set.
ScanStepNoReset(acc, e) ==
  [bl |-> IF IsBL(e) THEN {e} ELSE acc.bl,
   ar |-> IF IsAmendmentRequest(e) THEN {e} ELSE acc.ar]

\* One iteration of the loop of GetBillOfLadingPackMeta: an AmendmentRequest
\* replaces amendmentRequest, a BillOfLading replaces bl and clears
\* amendmentRequest.  Each is a set of at most one event, {} for nil.
ScanStep(acc, e) ==
  LET ar == IF IsAmendmentRequest(e) THEN {e} ELSE acc.ar IN
  IF IsBL(e) THEN [bl |-> {e}, ar |-> {}] ELSE [bl |-> acc.bl, ar |-> ar]

\* The loop over the events from the first to the last.
ScanEvents(events) == FoldLeft(ScanStep, [bl |-> {}, ar |-> {}], events)

(***************************************************************************)
(* BillOfLadingPack.                                                       *)
(***************************************************************************)
Pack(id, version, parentHash, owner, events) ==
  [id |-> id, version |-> version, parentHash |-> parentHash,
   currentOwner |-> owner, events |-> events]

\* GetLastEvent: the pointer to the last event; callers only use it on
\* non-empty packs.
GetLastEvent(pack) == Last(pack.events)

\* GetDraft: the status of the first event's shipping instruction.
GetDraft(pack) ==
  Len(pack.events) > 0 /\ IsBL(pack.events[1]) /\ pack.events[1].draft

\* GetIssuer: the DDR party of the first event.
GetIssuer(pack) ==
  IF Len(pack.events) > 0 /\ IsBL(pack.events[1])
  THEN pack.events[1].parties.issuer ELSE NoBU

(***************************************************************************)
(* GetFileBaseEBLParticipators: the parties of the most recent             *)
(* BillOfLading event (scanning the events backwards), or all-empty.       *)
(***************************************************************************)
GetFileBaseEBLParticipators(pack) ==
  LET i == SelectLastInSeq(pack.events, IsBL)
  IN  IF i = 0 THEN NoParties ELSE pack.events[i].parties

GetCurrentOwner(pack) ==
  IF Len(pack.events) = 0 THEN NoBU ELSE pack.currentOwner

\* Fault variant of GetNextOwnerByAction: Amend hands the pack to the
\* amendment request's RequestTo (the issuer itself) instead of RequestBy.
GetNextOwnerByActionAmendToRequestTo(action, bu, pack) ==
  LET last == GetLastEvent(pack) IN
  IF action = "Amend" /\ IsAmendmentRequest(last) THEN last.to
  ELSE LET p == GetFileBaseEBLParticipators(pack)
           requester == IF IsAmendmentRequest(last) THEN last.by ELSE NoBU
       IN  CASE action = "Transfer" ->
                  IF bu = p.shipper THEN p.consignee ELSE NoBU
             [] action = "Return" ->
                  IF bu = p.releaseAgent THEN p.consignee
                  ELSE IF bu = p.consignee THEN p.shipper
                  ELSE IF bu = p.shipper THEN p.issuer
                  ELSE IF bu = p.issuer THEN requester
                  ELSE NoBU
             [] action = "Surrender" ->
                  IF bu = p.consignee THEN p.releaseAgent ELSE NoBU
             [] action = "AmendmentRequest" -> p.issuer
             [] OTHER -> NoBU

(***************************************************************************)
(* GetNextOwnerByAction.  The role tests are an if-chain: a BU that holds  *)
(* several roles gets the first branch that matches.  NoBU stands for the  *)
(* "" the caller turns into "cannot determine next owner".                 *)
(***************************************************************************)
GetNextOwnerByAction(action, bu, pack) ==
  LET p    == GetFileBaseEBLParticipators(pack)
      last == GetLastEvent(pack)
      requester == IF IsAmendmentRequest(last) THEN last.by ELSE NoBU
  IN  CASE action = "Transfer" ->
             IF bu = p.shipper THEN p.consignee ELSE NoBU
        [] action = "Return" ->
             IF bu = p.releaseAgent THEN p.consignee
             ELSE IF bu = p.consignee THEN p.shipper
             ELSE IF bu = p.shipper THEN p.issuer
             ELSE IF bu = p.issuer THEN requester
             ELSE NoBU
        [] action = "Surrender" ->
             IF bu = p.consignee THEN p.releaseAgent ELSE NoBU
        [] action = "AmendmentRequest" -> p.issuer
        [] action = "Amend" -> requester
        [] OTHER -> NoBU

(***************************************************************************)
(* The precondition checks IsFileEBL*able live outside src/; they are      *)
(* written from spec section 4.C.  A pack is terminal once its last event  *)
(* is Accomplish or PrintToPaper (spec invariant 6, checked by every       *)
(* action); the post-issue actions need an issued (non-draft) pack.        *)
(***************************************************************************)
IsTerminal(pack) == GetLastEvent(pack).kind \in TerminalKinds

\* The checks every post-issue action shares.
Actionable(pack, bu) ==
  /\ GetCurrentOwner(pack) = bu
  /\ ~GetDraft(pack)
  /\ ~IsTerminal(pack)

IsFileEBLUpdatable(pack, issuer) ==
  /\ Len(pack.events) = 1
  /\ GetDraft(pack)
  /\ GetCurrentOwner(pack) = issuer
  /\ GetIssuer(pack) = issuer

IsFileEBLTransferable(pack, bu) ==
  Actionable(pack, bu) /\ bu = GetFileBaseEBLParticipators(pack).shipper

IsFileEBLRequestAmendable(pack, bu) ==
  LET p == GetFileBaseEBLParticipators(pack)
  IN  /\ Actionable(pack, bu)
      /\ bu \in {p.shipper, p.consignee, p.releaseAgent}
      /\ OutstandingAmendmentRequest(pack.events) = {}

IsFileEBLAmendable(pack, bu) ==
  /\ Actionable(pack, bu)
  /\ bu = GetFileBaseEBLParticipators(pack).issuer
  /\ IsAmendmentRequest(GetLastEvent(pack))

IsFileEBLReturnable(pack, bu) == Actionable(pack, bu)

IsFileEBLSurrenderable(pack, bu) ==
  Actionable(pack, bu) /\ bu = GetFileBaseEBLParticipators(pack).consignee

IsFileEBLAccomplishable(pack, bu) ==
  Actionable(pack, bu) /\ bu = GetFileBaseEBLParticipators(pack).releaseAgent

\* Fault variant of IsFileEBLPrintable: the surrender scan is left out.
IsFileEBLPrintableAfterSurrender(pack, bu) ==
  Actionable(pack, bu) /\ bu = GetFileBaseEBLParticipators(pack).issuer

IsFileEBLPrintable(pack, bu) ==
  /\ Actionable(pack, bu)
  /\ bu = GetFileBaseEBLParticipators(pack).issuer
  /\ \A i \in 1..Len(pack.events) : pack.events[i].kind # "Surrender"

(***************************************************************************)
(* GetBillOfLadingPackMeta.  The loop keeps the last AmendmentRequest and  *)
(* resets it at every later BillOfLading, so an amendment request is       *)
(* outstanding iff it comes after the last BillOfLading.  lo.FindIndexOf   *)
(* yields -1 when the DID is absent, and Go panics on the slice [:-1]:     *)
(* that outcome is MetaPanic; a pack without a BillOfLading is MetaError.  *)
(***************************************************************************)
Buckets == {"visible_to_bu", "archive", "action_needed", "sent", "upcoming"}

MetaError == "no bill of lading found in the pack"
MetaPanic == "slice bounds out of range"

\* The (meta, error) pair the Go function returns.
MetaResult(err, meta) == [err |-> err, meta |-> meta]
NoMeta == <<>>

\* lo.FindIndexOf as a 0-based index, -1 when absent.
FindIndexOf(s, x) == SelectInSeq(s, LAMBDA y : y = x) - 1

\* Go slices of the 4-element partiesByOrder, 0-based, s[lo:hi].
Slice(s, lo, hi) == SubSeq(s, lo + 1, hi)

\* res for a pack still in play: split ordered into sent and upcoming at k.
InPlayMeta(ordered, owner, sentEnd, upcomingStart) ==
  ("action_needed" :> <<owner>>) @@ ("visible_to_bu" :> ordered)
  @@ ("sent" :> Slice(ordered, 0, sentEnd))
  @@ ("upcoming" :> Slice(ordered, upcomingStart, 4))

GetBillOfLadingPackMeta(pack) ==
  LET events  == pack.events
      ordered == PartiesByOrder(GetFileBaseEBLParticipators(pack))
      scan    == ScanEvents(events)
      ar      == scan.ar
      owner   == pack.currentOwner
      i       == FindIndexOf(ordered, owner)
      j       == IF ar = {} THEN -1
                 ELSE FindIndexOf(ordered, (CHOOSE e \in ar : TRUE).by)
  IN
  IF scan.bl = {} THEN MetaResult(MetaError, NoMeta)
  ELSE IF Last(events).kind \in TerminalKinds
  THEN MetaResult("none", ("visible_to_bu" :> ordered) @@ ("archive" :> ordered))
  ELSE IF ar = {}
  THEN IF i < 0 THEN MetaResult(MetaPanic, NoMeta)
       ELSE MetaResult("none", InPlayMeta(ordered, owner, i, i + 1))
  ELSE IF j < 0 THEN MetaResult(MetaPanic, NoMeta)
       ELSE MetaResult("none", InPlayMeta(ordered, owner, j, j))

=============================================================================
