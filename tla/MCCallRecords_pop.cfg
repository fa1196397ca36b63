SPECIFICATION Spec
CONSTANTS
  missed = missed
  outgoing = outgoing
  incoming = incoming
  Limit = 3
  RecordType = {missed, outgoing, incoming}
  MaxCalls = 7
INVARIANTS
  PopsWhatIsListed
