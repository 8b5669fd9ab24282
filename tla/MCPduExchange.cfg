CONSTANTS
  Addresses <- BoundaryAddresses
  Fields <- BoundaryFields
  Lengths <- BoundaryLengths
  Bytes <- BoundaryBytes
  ReturnCodes <- SomeCodes
  HandlerSets <- SomeHandlers
  DataOf <- SomeData
SPECIFICATION Spec
INVARIANTS SafeCallback Agreement DataIntact ResponseExact SuccessIsExact
