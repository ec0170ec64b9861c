------------------------------ MODULE EBLLedger ------------------------------
(***************************************************************************)
(* What the eBL service promises (spec sections 3, 4.C and 8), stated     *)
(* without transactions, signatures or calls: each pack is a list of       *)
(* versions, and a version is added in one atomic step, by the current     *)
(* owner, for an action the owner's role permits, handing the pack to the  *)
(* owner the next-owner table names.  A BU may hold several roles; the     *)
(* ledger then allows the move of any role it holds.                       *)
(***************************************************************************)
EXTENDS Naturals, Sequences

CONSTANTS BUs, NoBU, DocIds, PartyChoices

VARIABLE ledger   \* ledger[d]: the versions of pack d, each [owner, events]

Roles == {"issuer", "shipper", "consignee", "releaseAgent"}

\* The roles bu holds in a party record.
RolesOf(bu, p) == {role \in Roles : p[role] = bu}

\* The next-owner table, <<action, actor role, next owner role>>.
Moves ==
  { <<"Transfer", "shipper", "consignee">>,
    <<"Return", "releaseAgent", "consignee">>,
    <<"Return", "consignee", "shipper">>,
    <<"Return", "shipper", "issuer">>,
    <<"Surrender", "consignee", "releaseAgent">>,
    <<"AmendmentRequest", "shipper", "issuer">>,
    <<"AmendmentRequest", "consignee", "issuer">>,
    <<"AmendmentRequest", "releaseAgent", "issuer">> }

BL(issuer, parties, draft) ==
  [kind |-> "BillOfLading", createdBy |-> issuer,
   parties |-> [parties EXCEPT !.issuer = issuer], draft |-> draft]

Ev(kind, by, to) == [kind |-> kind, by |-> by, to |-> to]

LastEv(v) == v.events[Len(v.events)]

\* The parties of the latest BillOfLading of a version.
PartiesAt(v) ==
  LET k == CHOOSE k \in 1..Len(v.events) :
             /\ v.events[k].kind = "BillOfLading"
             /\ \A m \in k+1..Len(v.events) : v.events[m].kind # "BillOfLading"
  IN  v.events[k].parties

Terminal(v) == LastEv(v).kind \in {"Accomplish", "PrintToPaper"}
Issued(v) == ~v.events[1].draft
InPlay(v, bu) == v.owner = bu /\ Issued(v) /\ ~Terminal(v)

\* Who asked for the amendment the last event requests, if it is one.
Requester(v) == IF LastEv(v).kind = "AmendmentRequest" THEN {LastEv(v).by} ELSE {}

\* The first version: a draft held by the issuer, or issued to the shipper.
FirstVersion(issuer, parties, draft) ==
  IF draft THEN [owner |-> issuer, events |-> <<BL(issuer, parties, TRUE)>>]
  ELSE [owner |-> parties.shipper,
        events |-> <<BL(issuer, parties, FALSE), Ev("Transfer", issuer, parties.shipper)>>]

\* The first version of a pack.
IssueVersions ==
  {FirstVersion(issuer, p, draft) : issuer \in BUs, p \in PartyChoices, draft \in BOOLEAN}

\* A draft that is still its single BillOfLading is replaced by its issuer.
RedraftVersions(v) ==
  IF Len(v.events) = 1 /\ ~Issued(v)
  THEN {FirstVersion(v.owner, p, draft) : p \in PartyChoices, draft \in BOOLEAN}
  ELSE {}

\* An ownership move of the table, or the issuer returning or answering an
\* amendment request to its requester (Amend carries a new BillOfLading).
PassVersions(v) ==
  LET p == PartiesAt(v) IN
  IF ~InPlay(v, v.owner) THEN {}
  ELSE { [owner |-> p[m[3]], events |-> Append(v.events, Ev(m[1], v.owner, p[m[3]]))] :
           m \in {m \in Moves : m[2] \in RolesOf(v.owner, p)} }
       \cup
       IF "issuer" \notin RolesOf(v.owner, p) THEN {}
       ELSE { [owner |-> to, events |-> Append(v.events, Ev("Return", v.owner, to))] :
                to \in Requester(v) }
            \cup
            { [owner |-> to, events |-> Append(v.events, BL(v.owner, p, FALSE))] :
                to \in Requester(v) }

\* Accomplish by the release agent, or PrintToPaper by the issuer before any
\* surrender; the owner stays and the pack is closed.
CloseVersions(v) ==
  LET p == PartiesAt(v)
      Closing(kind) == [owner |-> v.owner,
                        events |-> Append(v.events, Ev(kind, v.owner, NoBU))]
  IN  IF ~InPlay(v, v.owner) THEN {}
      ELSE (IF "releaseAgent" \in RolesOf(v.owner, p)
            THEN {Closing("Accomplish")} ELSE {})
           \cup
           (IF /\ "issuer" \in RolesOf(v.owner, p)
               /\ \A k \in 1..Len(v.events) : v.events[k].kind # "Surrender"
            THEN {Closing("PrintToPaper")} ELSE {})

\* The versions that may follow a history.
NextVersions(h) ==
  IF h = <<>> THEN IssueVersions
  ELSE LET v == h[Len(h)]
       IN  RedraftVersions(v) \cup PassVersions(v) \cup CloseVersions(v)

Init == ledger = [d \in DocIds |-> <<>>]

\* One pack gains one version; the others keep theirs.
Next ==
  LET before == ledger
      after  == ledger'
  IN  \E d \in DocIds :
        /\ after = [before EXCEPT ![d] = after[d]]
        /\ Len(after[d]) = Len(before[d]) + 1
        /\ SubSeq(after[d], 1, Len(before[d])) = before[d]
        /\ after[d][Len(after[d])] \in NextVersions(before[d])

Spec == Init /\ [][Next]_ledger

=============================================================================
