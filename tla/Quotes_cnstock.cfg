SPECIFICATION QuoteSpec
CONSTANTS
  Requests = {r1}
  CnStocks = {"ss"}
  Mainland = {"ss"}
  Stocks = {"us"}
  CnIndices = {"sse"}
  Indices = {"sse", "spx"}
  Commodities = {"gold"}
  Funds = {"fund"}
  Known = {"fund", "ss"}
  Asks <- MCAsks
  Limit <- MCLimit
INVARIANT QuoteIsOfSymbol
