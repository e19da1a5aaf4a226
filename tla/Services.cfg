SPECIFICATION Spec
CONSTANTS
  Threads = {t1, t2}
  Ids = {"AS", "JS"}
  Names = {"rpc", "launcher"}
  RpcName = "rpc"
  Null = Null
  MaxLoads = 3
INVARIANT ServicesAreSound
