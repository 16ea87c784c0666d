SPECIFICATION Spec
CONSTANTS
  c1 = c1
  c2 = c2
  c3 = c3
  Clients = {c1, c2}
  Fds <- OneFd
  Base = 2
  RequestsOf <- DisciplinedRequests
  Garbage = {FALSE}
  Nil = Nil
  MaxSend <- Once
  MaxEvents = 1
  MaxFrags = 1
  SockCap = 1
PROPERTY ReplyOnlyToRequester
