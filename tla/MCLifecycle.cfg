CONSTANTS
  i = i
  s = s
  c = c
  a = a
  BUs = {i, s, c, a}
  NoBU = NoBU
  Calls = {r1}
  DocIds = {d1}
  NoDoc = NoDoc
  Registered = {i, s, c, a}
  Deactivatable = {}
  PartyChoices <- MCPartyChoicesShared
  ListStatuses = {"action_needed"}
  MaxVersion = 5
SPECIFICATION Spec
INVARIANT MetaAlwaysBuilt
PROPERTY LedgerSpec
