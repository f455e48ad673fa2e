CONSTANTS
  Checkouts = {c1, c2}
  MaxIds = 2
  MaxRuntimes = 4
  MaxCalls = 2
  MaxBoots = 2
  Known = 1
SPECIFICATION HostSpec
CHECK_DEADLOCK FALSE
INVARIANTS RuntimesExclusive CatalogKept
PROPERTIES EverythingGoesOn
