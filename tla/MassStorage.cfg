SPECIFICATION FairSpec
CONSTANTS
  Failures = {"refuse", "timeout", "error", "short", "memory"}
  Requests <- MCRequests
  LUNs <- MCLUNs
  Pages <- MCPages
  ShortSizes <- MCShortSizes
  Additional <- MCAdditional
  PageSizes <- MCPageSizes
  FifthBytes <- MCFifthBytes
  InboxSize = 1
  MaxTag = 4
CHECK_DEADLOCK FALSE
INVARIANTS TypeOK NothingLeftUnread StatusAnswersCommand TagVouchesForData ResponseHasHeader InquiryComplete CommandCarriesRequest
PROPERTIES CallsReturn
