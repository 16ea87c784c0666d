SPECIFICATION FairSpec
CONSTANTS
  c1 = c1
  c2 = c2
  c3 = c3
  Clients = {c1, c2}
  Fds <- MCFds
  Base = 2
  RequestsOf <- PlainRequests
  Garbage = {FALSE}
  Nil = Nil
  MaxSend <- Twice
  MaxEvents = 1
  MaxFrags = 1
  SockCap = 1
PROPERTIES AnswersInOrder MatrixAnswered HungUpIsClosed
