SPECIFICATION Spec
CONSTANTS
  Users = {u1, u2}
  Types = {"farmer", "customer"}
  SignUpTypes = {"farmer", "customer"}
  MaxTaps = 6
SYMMETRY Symmetry
INVARIANTS
  TypeOK
  OwnDocument
  SessionBehindLogin
PROPERTIES
  LoginKeepsType
  KeepsContract
