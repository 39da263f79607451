SPECIFICATION TelemetrySpec
CONSTANTS
  Speed = Speed
  Out = Out
  Dx = Dx
  Fields <- ThreeFields
  RawFields <- OneRawField
  MaxSpins = 2
  MaxSamples = 3
  MaxResets = 2
INVARIANTS
  ReadIsSound
