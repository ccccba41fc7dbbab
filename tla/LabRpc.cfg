SPECIFICATION RpcSpec
CONSTANTS
  Calls = {c1, c2}
  Hanging = {c2}
  Ends = {e1}
  ServerNames = {s1}
  Instances = {x1, x2}
  Nil = Nil
PROPERTY CallKeepsPromise HungCallReturns NoGoroutineLeft
