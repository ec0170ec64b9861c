# TLA+ models of the file-based eBL service

These modules model the file-based electronic bill of lading (eBL) service of
openebl: the controller in `src/pkg/bu_server/trade_document/file_based_ebl.go`
and its HTTP handlers in `src/pkg/bu_server/api/api_server_ebl.go`. The models
show that concurrent calls keep every pack's version chain linear. They also
show that every committed version is a move the ownership table permits, and
that every accepted call is answered. They expose four gaps between the spec
and the code: one in the indexing metadata, two in when a business unit's
status is checked, and one in the next owner of a Return by a BU holding two
roles.

## The system

**Pack.** A bill-of-lading *pack* is a versioned document:
- an id, a version, a `ParentHash`, a `CurrentOwner`, and an ordered list of
  events;
- the events are BillOfLading, Transfer, Return, Surrender, AmendmentRequest,
  Accomplish and PrintToPaper;
- every BillOfLading event names four parties: issuer, shipper, consignee and
  release agent.

**Operations.** Each operation stores a new version of the pack. The new version
is signed by the acting business unit (BU) and stored as a `TradeDocument` row,
together with *meta* buckets (`action_needed`, `visible_to_bu`, `sent`,
`upcoming`, `archive`). The List endpoint queries those buckets.

**Components and how they interact:**

| Part | Code | State | Operations |
|---|---|---|---|
| Pack model, participator resolver | `file_based_ebl.go` 94-99, 254-284, 641-791 | the pack | `GetDraft`, `GetIssuer`, `GetFileBaseEBLParticipators`, `GetCurrentOwner`, `GetLastEvent` |
| Ownership state machine | `GetNextOwnerByAction` 746-783 (the `IsFileEBL*able` guards are not under `src/`) | — | next owner by action and role |
| Metadata builder | `GetBillOfLadingPackMeta` 862-910 | — | the meta buckets of a version |
| Controller | `Create`, `UpdateDraft`, `List`, `Transfer`, `AmendmentRequest` 121-458, with `checkBUExistence`, `signBillOfLadingPack`, `getEBL` 460-557 | — | one handler per operation |
| Trade-document store | not under `src/` (spec 4.G) | committed rows | `CreateTx` (serializable), `ListTradeDocument`, `AddTradeDocument`, `Commit`, `Rollback` |
| BU manager | not under `src/` (a mock and tests) | BU status | `ListBusinessUnits`, `GetJWSSigner`, status changes |
| HTTP API | `api_server_ebl.go` 16-167 | — | decode, set the acting BU from auth, call, encode |

**How a mutating handler runs.** The steps are:
1. validate the request;
2. `checkBUExistence`, which runs outside any transaction;
3. open a serializable read-write transaction;
4. `getEBL` (Limit 1, the latest version) and the SHA512 of its envelope;
5. check the precondition and call `GetNextOwnerByAction`;
6. build version n+1, with the hash as `ParentHash`;
7. sign it and compute its meta;
8. `AddTradeDocument`;
9. `Commit`.

Any error returns early, and the deferred `Rollback` undoes the transaction.
Calls run concurrently (one goroutine per HTTP request). A BU can be
deactivated at any moment.

**Hard behaviours:**
- two calls on one pack interleaving between their read and their commit;
- a failure after the transaction is opened;
- the BU check going stale before the commit;
- a BU holding several roles meeting the if-chain of `GetNextOwnerByAction`;
- the meta builder's notion of an "outstanding" amendment request;
- a `FindIndexOf` result of -1 used as a slice bound.

`PROJECT.json` lists each hazard at its line.

## Modules

- **`EBLPack`** holds the pack and the pure functions on it. Definitions keep
  the Go names: `GetFileBaseEBLParticipators`, `GetNextOwnerByAction`,
  `GetBillOfLadingPackMeta` and the others.
  - Data is abstracted. A DID is a model value, and `NoBU` stands for `""`. A
    BillOfLading keeps only its creator, its parties and its draft flag. An
    action event keeps its kind, `by` and `to`.
  - The meta's result is a record `[err, meta]`. The slice panic is an outcome
    of its own (`MetaPanic`).
  - The loop of `GetBillOfLadingPackMeta` over the events is `ScanEvents`, a
    `FoldLeft` of `ScanStep` (one iteration of lines 868-876). The guards use
    `OutstandingAmendmentRequest`, the rule as spec 4.E states it (the most
    recent AmendmentRequest after the most recent BillOfLading).
  - The guards `IsFileEBL*able` are not under `src/`. They are written from
    spec section 4.C and marked `spec_modelled`.
- **`EBLDocument`** models the transport document a BillOfLading carries, at
  the level of its lists. These are the shipping instruction's document
  parties (function code, identifying codes) and the shipment locations.
  - `CreateTransportDocument` is `CreateFileBasedBillOfLadingFromRequest`: the
    setters `SetPOL`, `SetPOD`, `SetETA`, `SetIssuer`, ... in the code's order,
    each a function from document to document.
  - `ReplaceSIParty` and `ReplaceShipmentLocation` overwrite the first entry of
    the same function or type, or append.
  - `DraftOfSI`, `IssuerOfSI` and `ParticipatorsOfSI` are the parts of
    `GetDraft`, `GetIssuer` and `GetFileBaseEBLParticipators` that read the
    shipping instruction. The last is a `FoldRight`, because the Go loop runs
    backwards.
- **`MCDocument`** checks that this document reads back as the record
  `EBLPack` uses for a BillOfLading (`Pack == INSTANCE EBLPack`). That record
  abstraction is what the controller model relies on.
- **`EBLController`** models the controller serving the concurrent calls in
  `Calls`, against the store and the BU directory.
  - Variables:
    - `store`: the committed rows;
    - `buStatus`: the BU directory;
    - `usedIds`: the uuids already drawn;
    - `pc`, `req`, `tx`, `resp`: per call.
  - A handler is split at the points where another call can interleave:
    - `Receive`: the HTTP handler, validation and `checkBUExistence`;
    - `Prepare*`: CreateTx (which fixes the snapshot), getEBL, guard, next
      owner, build, sign, meta and AddTradeDocument, all invisible to other
      calls. getEBL (`GetEBLRow`) returns the latest version, as spec 4.F
      step 4 states;
    - `Commit`: fails with `StorageConflict` when the new version is already
      stored (the unique key (doc_id, doc_version) of spec 4.G) or the pack
      gained a version since the snapshot (serializable isolation);
    - `List`;
    - `Reply`: the HTTP response.
  - The other actions:
    - `Fail`/`Finish` is the early return with its deferred Rollback;
    - `UpdateBusinessUnitStatus` is the BU manager deactivating a BU.
  - Return, Surrender, Amend, Accomplish and PrintToPaper have no handler under
    `src/`. They use the shape of Transfer and are marked `spec_modelled`.
- **`EBLLedger`** is the abstract specification: what the service promises.
  - Each pack is a list of versions. A version is added atomically by its
    current owner, with a move of the spec's next-owner table that a role the
    owner holds permits. Nothing follows Accomplish or PrintToPaper.
  - `EBLController` instantiates it with `ledger <- LedgerOf`, which maps the
    committed rows of each pack in version order. `LedgerSpec` is checked as a
    PROPERTY.
- **`MCMetaScan`** checks `ScanEvents` against spec 4.E on every event list
  of bounded length. Its one action appends an event, so every prefix is
  checked too.
- **`MCEBLController`** gives TLC its model values and party choices (also one
  where the shipper is the consignee), and call symmetry.

Fault variants (`FinishKeepTx`, `CommitNoConflictCheck`,
`CommitRetryOnConflict`, `CreateFileBasedBillOfLadingNoIssuer`,
`GetNextOwnerByActionAmendToRequestTo`, `IsFileEBLPrintableAfterSurrender`,
`ScanStepNoReset`, `ReplaceSIPartyAnyFunction`) sit
just before the definition they vary. Each is a plausible bug that some run must
catch.

## Runs

| Run | cfg | Checks | Bounds | Result |
|---|---|---|---|---|
| concurrent_chain | `MCEBLController.cfg` | `TypeOK`, `ChainIntegrity` | 2 calls, 1 pack, 4 BUs, versions up to 3, `c` may be deactivated, call symmetry | passes, 720k states, ~30 s |
| ledger_refinement | `MCLedgerRefinement.cfg` | `LedgerSpec` | 2 calls, 1 pack, versions up to 3 | passes |
| lifecycle | `MCLifecycle.cfg` | `MetaAlwaysBuilt`, `LedgerSpec` | 1 call, 1 pack, versions up to 5, parties with shipper = consignee | passes |
| requests_answered | `MCRequestsAnswered.cfg` | `RequestsAnswered` (liveness) | 2 calls, 1 pack, versions up to 2, no symmetry | passes, 184k states, ~50 s |
| returned_amendment_request | `MCMetaOutstanding.cfg` | `OwnerNotUpcoming` | 1 call, versions up to 4 | violated (finding) |
| actor_deactivated_mid_call | `MCActorDeactivated.cfg` | `ActorActiveAtCommit` | 1 call, `s` may be deactivated | violated (finding) |
| transfer_to_inactive_owner | `MCOwnerDeactivated.cfg` | `NewOwnerActive` | 1 call, `c` may be deactivated | violated (finding) |
| return_to_self | `MCReturnToSelf.cfg` | `ReturnChangesOwner` | 1 call, versions up to 3, parties with shipper = consignee | violated (finding) |
| meta_scan | `MCMetaScan.cfg` | `ScanMatchesSpec` | event lists up to 4 long over 5 events | passes, 781 states |
| document_builder | `MCDocument.cfg` | `DocumentMatchesPack` | every request body over 4 BUs, 2 locations, 1 ETA | passes, 4096 states |

**What the runs check:**
- **`ChainIntegrity`**: the committed versions of a pack are exactly 1..n, one
  row each. Every row after the first carries the SHA512 of the previous
  version's envelope. Breaking it takes two calls that read the same version and
  commit one after the other. Dropping the serializable conflict check breaks
  it.
- **`LedgerSpec`** (refinement): every committed version is a step of the
  ledger. This holds under every interleaving of two calls, signing failures
  and conflicts. Both runs that check it have no deactivation
  (`Deactivatable = {}`).
  - With two calls it catches an Amend that hands the pack to the wrong party.
  - Over five versions with a BU holding two roles, it catches a PrintToPaper
    allowed after a Surrender.
  - The ledger permits the move of any role the owner holds, so it does not
    constrain which of its roles a BU holding two acts in; that is
    `ReturnChangesOwner`.
- **`TypeOK`** also relates each call's step to its transaction slot. A call
  holds an uncommitted row exactly while it is between AddTradeDocument and
  Commit.
- **`MetaAlwaysBuilt`**: no call fails because `GetBillOfLadingPackMeta`
  errs or panics. The owner, and the requester of an outstanding amendment
  request, must always be among the four parties, or `lo.FindIndexOf` gives -1
  and the slice `[:-1]` panics. This holds only because Create runs
  `SetIssuer`. A Create without it leaves the DDR party empty, and a draft
  then belongs to a BU that is not a party.
- **`RequestsAnswered`** (liveness, `~>`): every call a handler accepted
  eventually returns to idle and is answered. A commit that loses to a
  concurrent call must return `StorageConflict`. A handler that kept retrying
  the commit of its stale transaction would hang the request forever.
- **`ActorActiveAtCommit`** (action property, the second finding): a version
  is committed only by a BU active at commit time. It is violated in four steps:
  1. Create passes `checkBUExistence`;
  2. the version is signed and added in the open transaction;
  3. the BU manager deactivates the creator;
  4. the version commits.

  The check runs before `CreateTx`, as spec 4.F orders it. The spec does not
  say whether a deactivation must stop calls in flight.
- **`NewOwnerActive`** (action property, the third finding): an ownership
  move hands the pack only to an active BU. Create checks all four parties,
  but Transfer checks only `TransferBy`. With the consignee deactivated, the
  shipper's Transfer commits it as owner. Every later call by that owner then
  fails `BusinessUnitInactive`, and the pack is stuck.
- **`ReturnChangesOwner`** (action property, the fourth finding): a
  committed Return hands the pack to a BU other than the returner.
  `GetNextOwnerByAction` tests the returner's roles in the order release
  agent, consignee, shipper, issuer, and the first match wins. Create accepts
  a body naming one BU as both shipper and consignee. TLC violates the
  property in two versions:
  1. the issued pack goes to the shipper;
  2. the shipper returns it, matches the consignee branch, and the pack goes
     back to itself.

  Every later Return does the same, so that BU can never return the pack to
  the issuer. The spec's table gives one next owner per role and says nothing
  of a BU holding two.
- **`ScanMatchesSpec`**: the loop of `GetBillOfLadingPackMeta` ends with `bl`
  the most recent BillOfLading, and `amendmentRequest` the most recent
  AmendmentRequest exactly when that comes after it. This is checked on every
  list of up to 4 events over two bills of lading, two requesters and a
  Transfer, including lists the guards never build. A loop that does not clear
  the request at a BillOfLading breaks it.
- **`DocumentMatchesPack`**: the document the builder produces reads back to
  the same values as the pack model's record.
  - `GetFileBaseEBLParticipators` returns the four parties.
  - `GetIssuer` returns the issuer.
  - `GetDraft` returns the draft flag.
  - The POL and POD keep the request's names, with the ETA on the POD.

  It is checked for every request, including those where one BU holds several
  roles. A `ReplaceSIParty` that overwrote any party with a function, rather
  than the one with the same function, breaks it.
- **`OwnerNotUpcoming`** (the first finding). When the four parties are distinct, the
  owner of a pack in play is not in that pack's `upcoming` bucket. TLC
  violates it in three versions:
  1. issue;
  2. AmendmentRequest by the shipper;
  3. Return by the issuer.

  The loop in `GetBillOfLadingPackMeta` (lines 868-876) resets the amendment
  request only at a BillOfLading. The returned request therefore stays
  "outstanding". The meta then splits at the requester, who is the owner, so
  the owner appears in both `action_needed` and `upcoming`. The same rule makes
  the request guard refuse any later amendment request.

**Why the bounds are enough.**
- **Two calls** are the smallest case in which a read and a commit of another
  call can interleave. A third call adds no new kind of conflict, because every
  conflict is between two calls on one pack.
- **Versions up to 3** cover:
  - issue, then two concurrent mutations;
  - an update of a draft racing another;
  - AmendmentRequest followed by Amend or Return.
- **Versions up to 5** in the lifecycle run reach Surrender, Return chains,
  Accomplish, and PrintToPaper after an amendment request.
- **One pack** suffices because calls on different packs do not share state
  (the spec gives no cross-pack ordering).

Together, the passing runs fire every action.

## Fairness

Each call has weak fairness on its `Prepare`, `Commit`, `List` and `Reply`
steps. A received request runs straight-line code whose I/O either returns or
fails under the request's deadline (spec section 5: every suspension point
takes the request's deadline). `Receive` (a client choosing to send) and
`UpdateBusinessUnitStatus` (an operator) get no fairness.

`RequestsAnswered` is checked under this fairness. That run has no symmetry,
because symmetry is unsound for liveness. No fairness is assumed for clients
or operators, so nothing is claimed about a pack ever reaching a terminal
event.

## Not modelled

- **JWS encoding, certificates (`src/pkg/pkix`) and the manager REST API.**
  These are pure computation or administration, outside the ownership protocol.
- **JSON encoding, file contents, notes and HTTP status codes.** No property
  depends on them. `ExtractBLPackFromTradeDocument` (JSON and JWS decoding)
  is taken to return the pack that was signed.
- **Documents not built by this code.** `GetIssuer` indexes the first
  identifying code of the first DDR party without checking that there is one,
  whereas `GetFileBaseEBLParticipators` skips parties without codes. Every
  document in the store is built by `PrepareDocumentParty`, which always gives
  one code, so the difference is never reached.
- **`GetOwnerShipTransferringByEvent`.** Nothing under `src/` calls it.
- **The List query result.** List changes no state, so its answer is not
  modelled.
- **Lost replies and client retries as their own steps.** They are not
  needed: `Receive` sends any request at any time, so a retry of a lost or
  answered call is already among the behaviours, and `LedgerSpec` covers it. A
  retried Create issues a second pack, which spec 4.G allows ("idempotence is
  not required").

## Possible extensions

1. **The meta buckets.** The loop is checked against spec 4.E (meta_scan);
   the bucket split itself could be checked against the spec's rules the same
   way.
2. **Spec property 7** (archive iff terminal, action_needed iff not) and the
   bucket contents of the spec's scenarios S1-S6, as properties over the
   stored rows.
3. **Larger instances.** Two packs with two calls, to confirm that calls on
   different packs never conflict.
