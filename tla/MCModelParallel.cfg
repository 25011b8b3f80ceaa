SPECIFICATION Spec
CONSTANTS
  Configs <- Sound
INVARIANTS
  ShapesAgree
  ComputesAsOneDevice
