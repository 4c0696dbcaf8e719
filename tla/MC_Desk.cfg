\* One contact; three requests caused by buttons; a system message.
SPECIFICATION FairSpec
CONSTANTS
  Contacts = {"c1"}
  Me = "me"
  MaxAsked = 3
  MaxMessages = 1
INVARIANTS PagesInRange WaitsForReply ProfileAgrees
PROPERTY SearchEnds
