SPECIFICATION Spec
CONSTANTS
  N = 3
  Retries = {0, 1, 2}
INVARIANTS TypeOK CurrentIsTheSockets GiveUpHasTriedAll
PROPERTIES ReturnedIsPinged ImplementsReconnect
