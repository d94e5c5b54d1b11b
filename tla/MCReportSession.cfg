SPECIFICATION Spec
CONSTANTS
  Attachments = {a1, a2}
  SinkOutcomes = {"ok", "refused"}
  StoreOutcomes = {"ok", "refused"}
  MaxCalls = 6
SYMMETRY Symmetry
CHECK_DEADLOCK FALSE

  
  
PROPERTY ProducersAgree
