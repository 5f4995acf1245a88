SPECIFICATION FairSpec
CONSTANTS
  Callers = {"s1", "s2", "s3"}
  Keys <- MCKeys
  Limit = 1
  Window = 2
  Second = 1
  Wait = 1
  Width = 2
  Conns = {"c"}
  ConnOf <- MCConnOf
  Peer <- MCPeer
  Plans <- MCPlans
  Routes <- MCRoutes
  Volatile <- MCVolatile
  Permanent <- MCPermanent
  Cap = 1
  MaxClock <- MCMaxClock
CHECK_DEADLOCK FALSE
INVARIANTS DrainIsGraceful CountsAreExact ListsAreObeyed FallbackIsServed 
PROPERTIES ServeReturns
