SPECIFICATION FairSpec
CONSTANTS
  c1 = c1
  c2 = c2
  c3 = c3
  r1 = r1
  r2 = r2
  o1 = o1
  a1 = a1
  Clients = {c1, c2}
  ResourceIDs = {r1, r2}
  ObjectIDs = {o1}
  Addresses = {a1}
  MaxPins = 2
  ManagerErrors = {"InUse"}
  Disciplined = FALSE
  NULL = NULL
  NoObject = NoObject
  Inherit = Inherit
INVARIANTS
  RegistryInv
  PinProtects
  OwnershipConsistent
PROPERTIES
  PinnedRecordStable
  ImplementsLifetime
  DestructionCompletes
