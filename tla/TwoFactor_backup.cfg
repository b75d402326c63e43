\* One request at a time and no failure: the backup codes of a user with TOTP.
CONSTANTS
  Requests = {r1}
  Secrets = {s1}
  Codes = {c1}
  Batches = {b1}
  None = None
  Faults = FALSE
SPECIFICATION Spec
PROPERTIES
  BackupCodesWork
\* No draw may be left for the requests that generate one.
CHECK_DEADLOCK FALSE
