SPECIFICATION Spec
CONSTANTS
  c1 = c1
  c2 = c2
  None = None
  Platforms = {"web", "mobile"}
  Chats = {c1, c2}
  Messages = {1, 2}
  ChatOf <- MCChatOf
  Mine = {2}
  PageSize = 1
  Feeds <- MCFeeds
  MaxCopies = 2
  MaxDrops = 1
  MaxHides = 2
INVARIANTS
  SignsWillEnd
  WatchedChatHasNoUnread
PROPERTIES
  NothingTakenBack
  NewMessagesShownAndRead
CHECK_DEADLOCK FALSE
