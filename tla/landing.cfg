SPECIFICATION Spec
CONSTANTS
  Required <- YamlConfirmSamples
  MaxSequence <- SampleBound
INVARIANTS
  TypeOK
  CountIsBacked
PROPERTIES
  ImplementsGate
