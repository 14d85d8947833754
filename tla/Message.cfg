\* Two messages on one connection, or a message and the answer to it.
SPECIFICATION Spec
CONSTANTS
  Base = 6
  Width = 2
  Path <- APath
  Method <- AMethod
  Payloads <- AnyPayloads
  Metadatas <- AnyMetadatas
  SerializeTypes = {0, 2}
  Seqs = {1}
  MaxFrames = 2
CHECK_DEADLOCK FALSE
INVARIANTS HeaderAsAsked ReadAsWritten
