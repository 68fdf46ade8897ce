SPECIFICATION Spec
CONSTANTS
  a = a
  b = b
  c = c
  writer = writer
  indexer = indexer
  Clients = {a, b, c}
  Owners = {writer, indexer}
  NoOwner = NoOwner
  OwnerOf <- MCOwnerOf
  MaxGeneration = 5
INVARIANTS
  SingleHolder
PROPERTY
  FencedForEver
