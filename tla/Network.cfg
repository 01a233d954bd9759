CONSTANTS
  Names = {"rop"}
  Ips = {1, 2}
  Ports = {8}
  Callers = {"guest", "thread"}
  Guest = "guest"
  MaxRoutes = 1
  SeqRange = 3
  Prefix = 10
  MaxGeneration = 2
  Fds = {3, 4}
  MaxSockets = 2
  ProxyIp = 5
  PayEndpoint <- Pay
  CloseEarly = TRUE
SPECIFICATION FairSpec
INVARIANTS TokensAreImmutable RoutesFollowMap StateIsReal
PROPERTIES ConnectIsAnswered
