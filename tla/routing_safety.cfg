SPECIFICATION Spec
CONSTANTS
  c1 = c1
  c2 = c2
  c3 = c3
  Clients = {c1, c2, c3}
  Fds <- MCFds
  Base = 2
  RequestsOf <- MixedRequests
  Garbage = {TRUE, FALSE}
  Nil = Nil
  MaxSend <- Once
  MaxEvents = 0
  MaxFrags = 2
  SockCap = 1
INVARIANTS TypeOK NoRottenReply OwnTransactions RegisteredIsOpen
PROPERTY RepliesToRequester
