CONSTANTS
  i = i
  s = s
  c = c
  a = a
  BUs = {i, s, c, a}
  NoBU = NoBU
  Calls = {r1, r2}
  DocIds = {d1}
  NoDoc = NoDoc
  Registered = {i, s, c, a}
  Deactivatable = {}
  PartyChoices <- MCPartyChoices
  ListStatuses = {"action_needed"}
  MaxVersion = 3
SPECIFICATION Spec
PROPERTY LedgerSpec
