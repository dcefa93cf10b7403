SPECIFICATION FairSpec
CONSTANTS
  Probe = {"page", "moodle", "courses"}
  MaxRedirects = 6
  Pages <- AnyPage
INVARIANTS TypeOK UpMeansSignedIn WorkingChainIsUp BackAtTheForm
PROPERTIES RunEnds LoginRunSpec
CHECK_DEADLOCK FALSE
