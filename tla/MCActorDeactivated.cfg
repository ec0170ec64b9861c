CONSTANTS
  i = i
  s = s
  c = c
  a = a
  BUs = {i, s, c, a}
  NoBU = NoBU
  Calls = {r1}
  DocIds = {d1}
  NoDoc = NoDoc
  Registered = {i, s, c, a}
  Deactivatable = {s}
  PartyChoices <- MCPartyChoices
  ListStatuses = {"action_needed"}
  MaxVersion = 2
SPECIFICATION Spec
PROPERTY ActorActiveAtCommit
