SPECIFICATION UsersSpec
CONSTANTS
  Parts = {"signups", "resets", "writes", "devices", "credentials"}
  Cast <- Casts
  Steady = {"resets"}
  Requests = {m1, m2, "a", "b", "c", "d", "e"}
  None = "none"
  MayAsk <- Ways
  MaxFaults = 1
  Devices = {d1, d2}
  SignIns = {s1, s2, s3}
  ClientForms <- AllForms
  PasswordForms <- TwoForms
  m1 = m1
  m2 = m2
  d1 = d1
  d2 = d2
  s1 = s1
  s2 = s2
  s3 = s3
SYMMETRY Symmetry
INVARIANT RegistrationKept
INVARIANT SignInsKept
CHECK_DEADLOCK FALSE
