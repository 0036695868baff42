CONSTANTS
  People = {"owner", "other"}
  Emails = {"boss", "alice"}
  Mailbox <- MailboxOf
  Listed = {"boss"}
  Requests = {r1, r2}
  MaxAccounts = 2
  MaxAudit = 2
  MaxSent = 4
  Kinds = {"session", "login", "register", "logout", "me", "deleteMe", "emailOn", "emailOff", "confirm", "entry", "detail", "disable", "enable", "remove"}
SPECIFICATION MCSpec
INVARIANTS
  EndedStaysEnded
  AuditIsTrue
  AdminHasProvenBoth
SYMMETRY Swaps
CHECK_DEADLOCK FALSE
