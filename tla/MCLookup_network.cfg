SPECIFICATION FairSpec
CONSTANTS
  Ids = {0, 1, 2}
  Addresses <- MCAddresses
  Contacts <- MCContacts
  Owners <- MCOwners
  Self = 2
  Here = "here"
  k = 2
  a = 2
  None = None
INVARIANTS ResultAlive ResultClosest FoundIfHeld Introduced
PROPERTIES Ends
