SPECIFICATION Spec
CONSTANTS
  Handlers = {h1, h2}
  Emails = {"admin"}
  SsoEmails = {"admin"}
  AdminEmail = "admin"
  Identities <- MCIdentities
  Placeholder <- MCPlaceholder
  Threshold <- MCThreshold
  MaxUsers = 3
SYMMETRY Symmetry
INVARIANTS AttemptsBounded StuckNamed AdminIsolated
