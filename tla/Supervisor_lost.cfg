SPECIFICATION FairSpec
CONSTANTS
    flush = flush
    scanner = scanner
    scanner_feed = scanner_feed
    aggregation_agent = aggregation_agent
    scanner_agent = scanner_agent
    Tasks = {flush, scanner, scanner_feed}
    Critical = {flush}
    Flush = flush
    Agents = {aggregation_agent, scanner_agent}
    AgentOf <- Shared
    MaxRestarts <- Limits
    QuietBackoff = FALSE
PROPERTY EveryExitIsHandled
CHECK_DEADLOCK FALSE
