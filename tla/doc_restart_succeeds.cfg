SPECIFICATION Spec
CONSTANTS
  Admin = {"adm"}
  Setting = {"mode", "threshold"}
  Value <- Requests
  Governed <- Legal
  Default <- Initial
INVARIANT
  StartsAgain
