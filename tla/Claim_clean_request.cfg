SPECIFICATION PoolSpec
CONSTANTS
    Handlers = {h1, h2}
    Objects = {o1, o2}
    Values = {v}
    Zero = Zero
    MaxMessages = 1
INVARIANT
    RequestIsItsBody
CHECK_DEADLOCK FALSE
