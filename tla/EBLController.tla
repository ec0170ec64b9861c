---------------------------- MODULE EBLController ----------------------------
(***************************************************************************)
(* The file-based eBL controller (_FileBaseEBLController in               *)
(* src/pkg/bu_server/trade_document/file_based_ebl.go) serving concurrent  *)
(* calls against the trade-document store and the business-unit directory. *)
(*                                                                         *)
(* Every handler runs in three steps, the points where another call can    *)
(* interleave:                                                             *)
(*   Receive  the HTTP handler (api_server_ebl.go) fills the request from  *)
(*            the auth context, then Validate* and checkBUExistence;       *)
(*   Prepare  CreateTx, getEBL, the precondition check, the next owner,    *)
(*            the new pack, signBillOfLadingPack (signer, envelope, meta)  *)
(*            and AddTradeDocument, all invisible to other calls;          *)
(*   Commit   tx.Commit, which a serializable transaction fails when the   *)
(*            pack it read has since gained a version.                     *)
(* An error at any step returns the call to idle with nothing persisted:   *)
(* the deferred tx.Rollback.                                               *)
(***************************************************************************)
EXTENDS EBLPack

CONSTANTS
  Calls,          \* concurrent controller calls (request goroutines)
  DocIds,         \* the ids uuid.NewString can return
  NoDoc,          \* no pack id
  Registered,     \* BUs the directory knows under the application
  Deactivatable,  \* BUs the BU manager may set inactive during the run
  PartyChoices,   \* parties a Create or UpdateDraft body names (issuer: NoBU)
  ListStatuses,   \* the status query values List requests carry
  MaxVersion      \* a request is accepted only for a pack below this version

ASSUME Registered \subseteq BUs /\ Deactivatable \subseteq Registered
ASSUME PartyChoices \subseteq [issuer : {NoBU}, shipper : BUs, consignee : BUs,
                               releaseAgent : BUs]
ASSUME ListStatuses \subseteq Buckets
ASSUME NoDoc \notin DocIds /\ MaxVersion \in Nat \ {0}

VARIABLES
  store,      \* committed TradeDocument rows
  buStatus,   \* business unit status in the directory
  usedIds,    \* ids uuid.NewString has returned
  pc,         \* step of each call
  req,        \* the request a call is serving
  tx,         \* the row a call added in its transaction and the version it read
  resp        \* the outcome of each call's last request

vars == <<store, buStatus, usedIds, pc, req, tx, resp>>

-----------------------------------------------------------------------------
(***************************************************************************)
(* Requests.  "Mutations" are the actions that produce a new version of an *)
(* existing pack; the HTTP layer sets the acting BU (issuer, transfer_by,  *)
(* request_by) to the authenticated business unit.                        *)
(***************************************************************************)
Mutations == {"Transfer", "AmendmentRequest", "Amend", "Return", "Surrender",
              "Accomplish", "PrintToPaper"}
Ops == {"Create", "UpdateDraft", "List"} \cup Mutations

NoReq == [op |-> "none", actor |-> NoBU, doc |-> NoDoc, parties |-> NoParties,
          draft |-> FALSE, status |-> "none"]

\* IssueFileBasedEBLRequest: issuer from the auth context, the other parties
\* and the draft flag from the body, the pack id from uuid.NewString.
CreateRequests ==
  [op : {"Create"}, actor : Registered, doc : DocIds,
   parties : PartyChoices,
   draft : BOOLEAN, status : {"none"}]

UpdateDraftRequests ==
  [op : {"UpdateDraft"}, actor : Registered, doc : DocIds,
   parties : PartyChoices,
   draft : BOOLEAN, status : {"none"}]

MutationRequests ==
  [op : Mutations, actor : Registered, doc : DocIds, parties : {NoParties},
   draft : {FALSE}, status : {"none"}]

ListRequests ==
  [op : {"List"}, actor : Registered, doc : {NoDoc}, parties : {NoParties},
   draft : {FALSE}, status : ListStatuses]

Outcomes == {"ok", "BusinessUnitNotFound", "BusinessUnitInactive",
             "EBLNotFound", "InvalidState", "InvalidRoleOrAction",
             "SigningFailed", "StorageConflict", "MetaFailed", "none"}

(***************************************************************************)
(* Store rows.  The envelope is the JWS of the pack with the signer's      *)
(* certificate; SHA512 is collision free, so a digest is modelled by the   *)
(* envelope it is the digest of.                                           *)
(***************************************************************************)
NoHash == <<>>
Envelope(pack, signer) == [payload |-> pack, signer |-> signer]
SHA512(doc) == <<"SHA512", doc>>

Row(pack, signer, meta) ==
  [docId |-> pack.id, docVersion |-> pack.version,
   doc |-> Envelope(pack, signer), meta |-> meta]

RowsOf(d) == {row \in store : row.docId = d}

LatestVersion(d) ==
  IF RowsOf(d) = {} THEN 0
  ELSE Max({row.docVersion : row \in RowsOf(d)})

\* The latest version first, Limit 1 (the store's ordering contract).
LatestRow(d) == CHOOSE row \in RowsOf(d) : row.docVersion = LatestVersion(d)

NoTx == [row |-> <<>>, read |-> 0]

-----------------------------------------------------------------------------
(***************************************************************************)
(* checkBUExistence: one ListBusinessUnits call for the given DIDs.  An    *)
(* inactive BU found in the result is reported first; any DID left over    *)
(* is not found.                                                           *)
(***************************************************************************)
CheckBUExistence(ids) ==
  IF \E b \in ids \cap Registered : buStatus[b] = "inactive"
  THEN "BusinessUnitInactive"
  ELSE IF ids \subseteq Registered THEN "ok" ELSE "BusinessUnitNotFound"

\* The DIDs each handler passes to checkBUExistence.
BUsToCheck(q) ==
  IF q.op \in {"Create", "UpdateDraft"}
  THEN {q.actor, q.parties.shipper, q.parties.consignee, q.parties.releaseAgent}
  ELSE {q.actor}

\* Fault variant of Finish: the transaction slot is not released.
FinishKeepTx(r, outcome) ==
  /\ pc' = [pc EXCEPT ![r] = "done"]
  /\ UNCHANGED tx
  /\ resp' = [resp EXCEPT ![r] = outcome]

\* The call ends: the handler returns err (or the pack) and tx.Rollback runs.
Finish(r, outcome) ==
  /\ pc' = [pc EXCEPT ![r] = "done"]
  /\ tx' = [tx EXCEPT ![r] = NoTx]
  /\ resp' = [resp EXCEPT ![r] = outcome]

Fail(r, err) == Finish(r, err) /\ UNCHANGED <<store, buStatus, usedIds, req>>

(***************************************************************************)
(* Receive: the HTTP handler builds the request and the controller runs    *)
(* the request validation and checkBUExistence.  A Create draws its id     *)
(* here: uuid.NewString has no effect visible before signing.  Requests    *)
(* on packs at MaxVersion are not sent (the bound of the model).           *)
(***************************************************************************)
Receive(r) ==
  /\ pc[r] = "idle"
  /\ \E q \in CreateRequests \cup UpdateDraftRequests \cup MutationRequests
              \cup ListRequests :
       /\ q.op = "Create" => q.doc \notin usedIds
       /\ q.op \in Mutations \cup {"UpdateDraft"} => LatestVersion(q.doc) < MaxVersion
       /\ LET check == CheckBUExistence(BUsToCheck(q)) IN
          \/ /\ check = "ok"
             /\ pc' = [pc EXCEPT ![r] = "checked"]
             /\ req' = [req EXCEPT ![r] = q]
             /\ usedIds' = IF q.op = "Create" THEN usedIds \cup {q.doc} ELSE usedIds
             /\ UNCHANGED <<store, buStatus, tx, resp>>
          \/ /\ check # "ok"
             /\ pc' = [pc EXCEPT ![r] = "done"]
             /\ req' = [req EXCEPT ![r] = q]
             /\ resp' = [resp EXCEPT ![r] = check]
             /\ UNCHANGED <<store, buStatus, usedIds, tx>>

-----------------------------------------------------------------------------
(***************************************************************************)
(* signBillOfLadingPack followed by AddTradeDocument: GetJWSSigner or      *)
(* envelope.Sign may fail; the meta of the new pack is computed and the    *)
(* row is added inside the call's transaction, not yet visible.  read is   *)
(* the transaction's snapshot: the latest version committed when it began. *)
(***************************************************************************)
SignAndAdd(r, pack, signer, read) ==
  LET meta == GetBillOfLadingPackMeta(pack) IN
  \/ Fail(r, "SigningFailed")
  \/ IF meta.err # "none"
     THEN Fail(r, "MetaFailed")
     ELSE /\ pc' = [pc EXCEPT ![r] = "added"]
          /\ tx' = [tx EXCEPT ![r] = [row |-> Row(pack, signer, meta.meta), read |-> read]]
          /\ UNCHANGED <<store, buStatus, usedIds, req, resp>>

\* Create: the owner is the issuer for a draft, else the shipper, and an
\* issued pack carries the implicit Transfer from issuer to shipper.
IssuedEvents(issuer, parties, draft) ==
  LET bl == CreateFileBasedBillOfLading(issuer, parties, draft) IN
  IF draft THEN <<bl>>
  ELSE <<bl, ActionEvent("Transfer", issuer, parties.shipper)>>

IssuedOwner(issuer, parties, draft) == IF draft THEN issuer ELSE parties.shipper

PrepareCreate(r) ==
  LET q == req[r] IN
  /\ pc[r] = "checked" /\ q.op = "Create"
  /\ SignAndAdd(r, Pack(q.doc, 1, NoHash, IssuedOwner(q.actor, q.parties, q.draft),
                        IssuedEvents(q.actor, q.parties, q.draft)),
                q.actor, 0)

\* getEBL inside the transaction: the pack id has no row (EBLNotFound), or
\* the row ListTradeDocument returns under Limit 1, the latest version as
\* spec 4.F step 4 states, whose pack and envelope SHA512 the handler
\* builds on.
EBLNotFound(r) == RowsOf(req[r].doc) = {}
GetEBLRow(r) == LatestRow(req[r].doc)

\* CreateTx: the serializable snapshot, the pack's versions committed so far.
Snapshot(r) == LatestVersion(req[r].doc)

PrepareUpdateDraft(r) ==
  LET q == req[r] IN
  /\ pc[r] = "checked" /\ q.op = "UpdateDraft"
  /\ IF EBLNotFound(r) THEN Fail(r, "EBLNotFound")
     ELSE LET row == GetEBLRow(r)
              old == row.doc.payload IN
       IF ~IsFileEBLUpdatable(old, q.actor) THEN Fail(r, "InvalidState")
       ELSE SignAndAdd(r, Pack(old.id, old.version + 1, SHA512(row.doc),
                               IssuedOwner(q.actor, q.parties, q.draft),
                               IssuedEvents(q.actor, q.parties, q.draft)),
                       q.actor, Snapshot(r))

\* The state-machine precondition each post-issue handler checks.
IsFileEBLActionAllowed(action, pack, bu) ==
  CASE action = "Transfer"         -> IsFileEBLTransferable(pack, bu)
    [] action = "AmendmentRequest" -> IsFileEBLRequestAmendable(pack, bu)
    [] action = "Return"           -> IsFileEBLReturnable(pack, bu)
    [] action = "Surrender"        -> IsFileEBLSurrenderable(pack, bu)
    [] action = "Amend"            -> IsFileEBLAmendable(pack, bu)
    [] action = "Accomplish"       -> IsFileEBLAccomplishable(pack, bu)
    [] action = "PrintToPaper"     -> IsFileEBLPrintable(pack, bu)

(***************************************************************************)
(* Transfer (and, with the same body, Return and Surrender): the check,    *)
(* GetNextOwnerByAction, and the old events with one ownership event       *)
(* appended, by the actor to the next owner.                               *)
(***************************************************************************)
AppendOwnershipEvent(r, action) ==
  LET q == req[r] IN
  /\ pc[r] = "checked" /\ q.op = action
  /\ IF EBLNotFound(r) THEN Fail(r, "EBLNotFound")
     ELSE LET row == GetEBLRow(r)
              old == row.doc.payload
              next == GetNextOwnerByAction(action, q.actor, old)
          IN  IF ~IsFileEBLActionAllowed(action, old, q.actor)
              THEN Fail(r, "InvalidState")
              ELSE IF next = NoBU THEN Fail(r, "InvalidRoleOrAction")
              ELSE SignAndAdd(r, Pack(old.id, old.version + 1, SHA512(row.doc), next,
                                      Append(old.events, ActionEvent(action, q.actor, next))),
                              q.actor, Snapshot(r))

PrepareTransfer(r) == AppendOwnershipEvent(r, "Transfer")

PrepareAmendmentRequest(r) == AppendOwnershipEvent(r, "AmendmentRequest")

PrepareReturn(r) == AppendOwnershipEvent(r, "Return")

PrepareSurrender(r) == AppendOwnershipEvent(r, "Surrender")

\* Amend: the issuer answers the amendment request with a new issued
\* BillOfLading (same parties) and the pack goes back to the requester.
PrepareAmend(r) ==
  LET q == req[r] IN
  /\ pc[r] = "checked" /\ q.op = "Amend"
  /\ IF EBLNotFound(r) THEN Fail(r, "EBLNotFound")
     ELSE LET row == GetEBLRow(r)
              old == row.doc.payload
              next == GetNextOwnerByAction("Amend", q.actor, old)
              bl == CreateFileBasedBillOfLading(q.actor, GetFileBaseEBLParticipators(old), FALSE)
          IN  IF ~IsFileEBLActionAllowed("Amend", old, q.actor)
              THEN Fail(r, "InvalidState")
              ELSE SignAndAdd(r, Pack(old.id, old.version + 1, SHA512(row.doc), next,
                                      Append(old.events, bl)),
                              q.actor, Snapshot(r))

\* Accomplish and PrintToPaper end the chain; the owner stays.
AppendTerminalEvent(r, action) ==
  LET q == req[r] IN
  /\ pc[r] = "checked" /\ q.op = action
  /\ IF EBLNotFound(r) THEN Fail(r, "EBLNotFound")
     ELSE LET row == GetEBLRow(r)
              old == row.doc.payload IN
       IF ~IsFileEBLActionAllowed(action, old, q.actor)
       THEN Fail(r, "InvalidState")
       ELSE SignAndAdd(r, Pack(old.id, old.version + 1, SHA512(row.doc), old.currentOwner,
                               Append(old.events, ActionEvent(action, q.actor, NoBU))),
                       q.actor, Snapshot(r))

PrepareAccomplish(r) == AppendTerminalEvent(r, "Accomplish")

PreparePrintToPaper(r) == AppendTerminalEvent(r, "PrintToPaper")

(***************************************************************************)
(* Commit of a serializable read-write transaction: it aborts when another *)
(* call has committed a version of the same pack since its snapshot.       *)
(***************************************************************************)
\* AddTradeDocument fails on the unique key (doc_id, doc_version) when that
\* version is already stored; tx.Commit fails when the serializable snapshot
\* is stale.  The caller sees both as a storage error.
Conflicts(r) ==
  LET row == tx[r].row IN
  \/ \E x \in RowsOf(row.docId) : x.docVersion = row.docVersion
  \/ LatestVersion(row.docId) # tx[r].read

\* Fault variant of Commit: a store without the unique key, below serializable
\* isolation, which commits whatever was committed since it read.
CommitNoConflictCheck(r) ==
  LET row == tx[r].row IN
  /\ pc[r] = "added"
  /\ store' = store \cup {row}
  /\ Finish(r, "ok")
  /\ UNCHANGED <<buStatus, usedIds, req>>

\* Fault variant of Commit: on a conflict the call keeps retrying the commit
\* of its stale transaction instead of returning StorageConflict.
CommitRetryOnConflict(r) ==
  LET row == tx[r].row IN
  /\ pc[r] = "added"
  /\ ~Conflicts(r)
  /\ store' = store \cup {row}
  /\ Finish(r, "ok")
  /\ UNCHANGED <<buStatus, usedIds, req>>

Commit(r) ==
  LET row == tx[r].row IN
  /\ pc[r] = "added"
  /\ IF Conflicts(r)
     THEN Fail(r, "StorageConflict")
     ELSE /\ store' = store \cup {row}
          /\ Finish(r, "ok")
          /\ UNCHANGED <<buStatus, usedIds, req>>

(***************************************************************************)
(* List: a read-only transaction listing the latest version of every pack  *)
(* whose meta[status] contains the lister; nothing changes but the answer. *)
(***************************************************************************)
List(r) ==
  /\ pc[r] = "checked" /\ req[r].op = "List"
  /\ Finish(r, "ok")
  /\ UNCHANGED <<store, buStatus, usedIds, req>>

\* The HTTP handler writes the response (or http.Error) and the call is over.
Reply(r) ==
  /\ pc[r] = "done"
  /\ pc' = [pc EXCEPT ![r] = "idle"]
  /\ req' = [req EXCEPT ![r] = NoReq]
  /\ resp' = [resp EXCEPT ![r] = "none"]
  /\ UNCHANGED <<store, buStatus, usedIds, tx>>

\* The BU manager sets a business unit inactive.
UpdateBusinessUnitStatus(b) ==
  /\ buStatus[b] = "active"
  /\ buStatus' = [buStatus EXCEPT ![b] = "inactive"]
  /\ UNCHANGED <<store, usedIds, pc, req, tx, resp>>

-----------------------------------------------------------------------------
Init ==
  /\ store = {}
  /\ buStatus = [b \in Registered |-> "active"]
  /\ usedIds = {}
  /\ pc = [r \in Calls |-> "idle"]
  /\ req = [r \in Calls |-> NoReq]
  /\ tx = [r \in Calls |-> NoTx]
  /\ resp = [r \in Calls |-> "none"]

Prepare(r) ==
  \/ PrepareCreate(r)
  \/ PrepareUpdateDraft(r)
  \/ PrepareTransfer(r)
  \/ PrepareAmendmentRequest(r)
  \/ PrepareReturn(r)
  \/ PrepareSurrender(r)
  \/ PrepareAmend(r)
  \/ PrepareAccomplish(r)
  \/ PreparePrintToPaper(r)

Next ==
  \/ \E r \in Calls : Receive(r) \/ Prepare(r) \/ Commit(r) \/ List(r) \/ Reply(r)
  \/ \E b \in Deactivatable : UpdateBusinessUnitStatus(b)

\* A received request runs to its end: each step is straight-line code whose
\* I/O returns or fails under the request's deadline.
Fairness == \A r \in Calls : WF_vars(Prepare(r) \/ Commit(r) \/ List(r) \/ Reply(r))

Spec == Init /\ [][Next]_vars /\ Fairness

-----------------------------------------------------------------------------
TypeOK ==
  /\ buStatus \in [Registered -> {"active", "inactive"}]
  /\ usedIds \subseteq DocIds
  /\ pc \in [Calls -> {"idle", "checked", "added", "done"}]
  /\ req \in [Calls -> CreateRequests \cup UpdateDraftRequests \cup MutationRequests
                       \cup ListRequests \cup {NoReq}]
  /\ resp \in [Calls -> Outcomes]
  /\ \A row \in store : row.doc.payload.events \in Seq(Events)
  /\ \A r \in Calls : pc[r] = "added" <=> tx[r] # NoTx

-----------------------------------------------------------------------------
(***************************************************************************)
(* Safety.                                                                 *)
(*                                                                         *)
(* ChainIntegrity (spec invariants 1 and section 5): the committed         *)
(* versions of every pack are exactly 1..n, one row each, and each row     *)
(* after the first carries the SHA512 of the envelope of the version       *)
(* before it.  Calls that read the same version and commit in either       *)
(* order would fork the chain; only the serializable commit in Commit and  *)
(* the parentHash taken from getEBL keep it linear.                        *)
(***************************************************************************)
RowAt(d, k) == {row \in RowsOf(d) : row.docVersion = k}

ChainIntegrity ==
  \A d \in DocIds :
    /\ \A k \in 1..LatestVersion(d) : Cardinality(RowAt(d, k)) = 1
    /\ Cardinality(RowsOf(d)) = LatestVersion(d)
    /\ \A row \in RowsOf(d) :
         row.doc.payload.parentHash =
           IF row.docVersion = 1 THEN NoHash
           ELSE SHA512((CHOOSE prev \in RowAt(d, row.docVersion - 1) : TRUE).doc)

(***************************************************************************)
(* Refinement: the committed versions of each pack, in version order, form *)
(* a history of the atomic ledger EBLLedger: every version was made from   *)
(* the one before by its current owner, with a move its role permits, and  *)
(* nothing follows Accomplish or PrintToPaper, whatever the interleaving   *)
(* of calls, failures and conflicts.  A missing version maps to Gap, which *)
(* the ledger never produces.                                              *)
(***************************************************************************)
Gap == [owner |-> NoBU, events |-> <<>>]

VersionAt(d, k) ==
  IF RowAt(d, k) = {} THEN Gap
  ELSE LET pack == (CHOOSE row \in RowAt(d, k) : TRUE).doc.payload
       IN  [owner |-> pack.currentOwner, events |-> pack.events]

LedgerOf == [d \in DocIds |-> [k \in 1..Cardinality(RowsOf(d)) |-> VersionAt(d, k)]]

Ledger == INSTANCE EBLLedger WITH ledger <- LedgerOf

\* LedgerSpec: every step of the controller, under any interleaving of calls,
\* BU deactivations, signing failures and conflicting commits, is a step of
\* the ledger or leaves the committed versions unchanged.
LedgerSpec == Ledger!Spec

(***************************************************************************)
(* OwnerNotUpcoming: the BU that must act on a pack does not find it among *)
(* the packs still to come to it (the "upcoming" bucket List queries).     *)
(* GetBillOfLadingPackMeta takes an amendment request for outstanding      *)
(* until a later BillOfLading; a request the issuer answers with Return    *)
(* stays "outstanding", and the meta then splits the parties at the        *)
(* requester, who by then holds the pack.  Stated for packs whose four    *)
(* parties are distinct BUs (a BU holding two roles appears twice in the   *)
(* party order, a separate matter).                                        *)
(***************************************************************************)
OwnerNotUpcoming ==
  \A d \in DocIds :
    RowsOf(d) # {} =>
      LET row == LatestRow(d)
          parties == ToSet(PartiesByOrder(GetFileBaseEBLParticipators(row.doc.payload)))
      IN  /\ Cardinality(parties) = 4
          /\ "upcoming" \in DOMAIN row.meta
          =>
        row.doc.payload.currentOwner \notin ToSet(row.meta["upcoming"])

(***************************************************************************)
(* MetaAlwaysBuilt: GetBillOfLadingPackMeta never fails for a version a    *)
(* handler builds, neither with "no bill of lading" nor with the slice     *)
(* panic of lo.FindIndexOf's -1: the owner, and the requester of an        *)
(* outstanding amendment request, are always among the four parties.  It   *)
(* depends on every handler (SetIssuer in Create, the parties kept by      *)
(* Amend, next owners taken from the parties).                             *)
(***************************************************************************)
MetaAlwaysBuilt == \A r \in Calls : resp[r] # "MetaFailed"

(***************************************************************************)
(* RequestsAnswered: every call a handler has accepted eventually returns  *)
(* to the HTTP layer and is answered: no path of a handler waits forever,  *)
(* including a commit that loses to a concurrent call.                     *)
(***************************************************************************)
RequestsAnswered == \A r \in Calls : pc[r] # "idle" ~> pc[r] = "idle"

(***************************************************************************)
(* ActorActiveAtCommit: a version is committed only by a BU that is active *)
(* when it commits (spec 4.F step 2: the acting BU must be Active).        *)
(* checkBUExistence runs before CreateTx, so the BU manager can deactivate *)
(* the actor between the check and tx.Commit.                              *)
(***************************************************************************)
ActorActiveAtCommit ==
  [][\A row \in store' \ store : buStatus[row.doc.signer] = "active"]_vars

(***************************************************************************)
(* NewOwnerActive: an ownership move (Transfer, Return, Surrender,         *)
(* AmendmentRequest) hands the pack only to a BU that is active when the   *)
(* move commits.  Create checks all four parties, but Transfer and         *)
(* AmendmentRequest pass only the acting BU to checkBUExistence; an        *)
(* inactive owner then fails every later call of its own.                  *)
(***************************************************************************)
NewOwnerActive ==
  [][\A row \in store' \ store :
       GetLastEvent(row.doc.payload).kind \in OwnershipKinds =>
         buStatus[row.doc.payload.currentOwner] = "active"]_vars

\* A committed Return hands the pack to another BU.  GetNextOwnerByAction
\* tests the returner's roles in the fixed order release agent, consignee,
\* shipper, issuer, so a BU holding two roles is matched by the first only:
\* a shipper that is also the consignee returns the pack to itself, on
\* every Return, and never to the issuer.
ReturnChangesOwner ==
  [][\A row \in store' \ store :
       GetLastEvent(row.doc.payload).kind = "Return" =>
         row.doc.payload.currentOwner # row.doc.signer]_vars

=============================================================================
