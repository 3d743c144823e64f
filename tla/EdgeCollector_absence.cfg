SPECIFICATION EdgeSpec
CONSTANTS
  MaxPage = 2
  MaxListed = 2
  Nodes = {e1, e2, h1}
  Edges = {e1, e2}
  NoNode = noNode
  Zeros = zeros
INVARIANT AbsentWhenUnread
CHECK_DEADLOCK FALSE
