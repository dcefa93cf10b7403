SPECIFICATION Spec
CONSTANTS
  Probe = {"moodle"}
  MaxRedirects = 6
  Pages <- AnyPage
INVARIANT CredentialsSentOnce
CHECK_DEADLOCK FALSE
