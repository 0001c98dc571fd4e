------------------------------- MODULE Quotes -------------------------------
(***************************************************************************)
(* The market data of one tenant: services/finance.py behind               *)
(* api/v1/finance.py.  A request looks in the cache, then asks one         *)
(* collector after the other (BaseCollector.collect, with its rate window),*)
(* stores what it gets, caches it and publishes it.  All these calls are   *)
(* made for a source whose id is "mock" and count in one window.           *)
(***************************************************************************)
EXTENDS Naturals, Sequences, FiniteSets

CONSTANTS
  Requests,     (* requests under way at once                              *)
  CnStocks,     (* is_cn: symbols in .SS or .SZ, or that begin with 0 or 3 *)
  Mainland,     (* those in .SS or .SZ, which yfinance types "cn_stock"    *)
  Stocks,       (* other symbols                                           *)
  CnIndices,    (* what eastmoney lists: MARKET_INDICES_CONFIG of China    *)
  Indices,      (* MARKET_INDICES_CONFIG                                   *)
  Commodities,  (* COMMODITIES_CONFIG                                      *)
  Funds,        (* funds of the tenant                                     *)
  Known,        (* symbols that have a row of finance_symbols at first     *)
  Asks,         (* what clients ask for                                    *)
  Limit         (* rate_limit_per_minute of each collector, 0 for none     *)

Collectors == {"eastmoney", "yfinance", "alpha_vantage", "finnhub"}
Symbols == CnStocks \cup Stocks \cup Indices \cup Commodities \cup Funds

ASSUME QuotesAssumption ==
  /\ CnIndices \subseteq Indices
  /\ CnStocks \cap Stocks = {} /\ Mainland \subseteq CnStocks
  /\ Funds \subseteq Known /\ Known \subseteq Symbols
  /\ Limit \in [Collectors -> Nat]

(* What a client asks for, and under which the answer is cached.           *)
QuoteOf(s) == [kind |-> "quote", of |-> s]
Nav(s) == [kind |-> "nav", of |-> s]
Search(s) == [kind |-> "search", of |-> s]
AllIndices == [kind |-> "indices", of |-> "all"]
AllCommodities == [kind |-> "commodities", of |-> "all"]

Quoted == CnStocks \cup Stocks

ASSUME AsksAssumption ==
  Asks \subseteq {QuoteOf(s) : s \in Quoted} \cup {Nav(s) : s \in Funds}
               \cup {Search(s) : s \in Quoted} \cup {AllIndices, AllCommodities}

VARIABLES
  redisUp,
  window,      (* rate_limit:collector:mock, 0 when there is none          *)
  cache,       (* the symbols whose data is cached for each ask            *)
  rows,        (* finance_symbols of the tenant                            *)
  stored,      (* finance_quotes: <<symbol, what it is a quote of>>        *)
  req,         (* the request of each process                              *)
  overlapped,  (* history: a call since the window was born wrote a count  *)
               (* that was not the next one, or was let through uncounted  *)
  passed,      (* history: calls admitted since, as long as none did       *)
  exceeded     (* history: one of them was beyond its limit                *)

counts == <<window, overlapped, passed, exceeded>>
quoteVars == <<redisUp, counts, cache, rows, stored, req>>

(* "got" is what the request has gathered: for a quote, the symbol it is   *)
(* really a quote of.                                                      *)
Idle == [at |-> "idle", ask |-> AllIndices, left |-> <<>>, got |-> {},
         read |-> 0, known |-> FALSE]

QuoteInit ==
  /\ redisUp = TRUE
  /\ window = 0 /\ overlapped = FALSE /\ passed = 0 /\ exceeded = FALSE
  /\ cache = [a \in Asks |-> {}]
  /\ rows = Known /\ stored = {}
  /\ req = [r \in Requests |-> Idle]

Put(r, state) == req' = [req EXCEPT ![r] = state]
Go(r, place) == [req[r] EXCEPT !.at = place]

-----------------------------------------------------------------------------
(* Redis.                                                                  *)

RedisFails ==
  /\ redisUp /\ redisUp' = FALSE
  /\ UNCHANGED <<counts, cache, rows, stored, req>>

RedisReturns ==
  /\ ~redisUp /\ redisUp' = TRUE
  /\ UNCHANGED <<counts, cache, rows, stored, req>>

WindowLapses ==
  /\ window # 0
  /\ window' = 0 /\ overlapped' = FALSE /\ passed' = 0 /\ exceeded' = FALSE
  /\ UNCHANGED <<redisUp, cache, rows, stored, req>>

EntryLapses ==
  /\ \E a \in Asks : cache[a] # {} /\ cache' = [cache EXCEPT ![a] = {}]
  /\ UNCHANGED <<redisUp, counts, rows, stored, req>>

-----------------------------------------------------------------------------
(* _get_failover_chain.                                                    *)
Chain(a) ==
  CASE a.kind = "indices" -> <<"eastmoney", "yfinance">>
    [] a.kind = "commodities" -> <<"yfinance", "alpha_vantage">>
    [] a.kind = "quote" /\ a.of \in CnStocks -> <<"eastmoney", "yfinance">>
    [] OTHER -> <<"yfinance", "alpha_vantage", "finnhub">>

Wanted(a) ==
  CASE a.kind = "indices" -> Indices
    [] a.kind = "commodities" -> Commodities
    [] OTHER -> {a.of}

(* The next collector of the chain, or the end of it: nothing found is a   *)
(* 404 or a 503.  Without a limit the window is not looked at.             *)
Turn(state) ==
  IF state.left = <<>>
    THEN IF state.got = {} THEN Idle
         ELSE [state EXCEPT !.at = IF state.ask.kind = "quote" THEN "row" ELSE "cache"]
    ELSE [state EXCEPT !.read = 0,
                       !.at = IF Limit[Head(state.left)] = 0 THEN "fetch" ELSE "rate"]

(* A hit answers at once and changes nothing; without Redis the request    *)
(* fails where it looks.                                                   *)
Ask(r, a) ==
  /\ req[r].at = "idle" /\ redisUp /\ cache[a] = {}
  /\ LET new == [Idle EXCEPT !.ask = a]
     IN  Put(r, IF a.kind \in {"nav", "search"} THEN [new EXCEPT !.at = "look"]
                ELSE Turn([new EXCEPT !.left = Chain(a)]))
  /\ UNCHANGED <<redisUp, counts, cache, rows, stored>>

-----------------------------------------------------------------------------
(* BaseCollector.collect.                                                  *)

Limited(r) == Limit[Head(req[r].left)]
Pass(r) == [req[r] EXCEPT !.left = Tail(@)]

RateRead_offByOne(r) ==     \* Mutant: > for >=
  /\ req[r].at = "rate" /\ redisUp
  /\ Put(r, IF window # 0 /\ window > Limited(r) THEN Turn(Pass(r))
            ELSE [Go(r, "count") EXCEPT !.read = window])
  /\ UNCHANGED <<redisUp, counts, cache, rows, stored>>

(* rate_limit_check: the count is read, and written after another await.   *)
RateRead(r) ==
  /\ req[r].at = "rate" /\ redisUp
  /\ Put(r, IF window # 0 /\ window >= Limited(r) THEN Turn(Pass(r))
            ELSE [Go(r, "count") EXCEPT !.read = window])
  /\ UNCHANGED <<redisUp, counts, cache, rows, stored>>

(* The history of the window ends with the first overlap.                  *)
Admits(r, overlap) ==
  /\ overlapped' = (overlapped \/ overlap)
  /\ passed' = IF overlapped' THEN 0 ELSE passed + 1
  /\ exceeded' = (~overlapped' /\ (exceeded \/ passed >= Limited(r)))

RateWrite(r) ==
  /\ req[r].at = "count" /\ redisUp
  /\ window' = req[r].read + 1
  /\ Admits(r, window # req[r].read)
  /\ Put(r, [Go(r, "fetch") EXCEPT !.read = 0])
  /\ UNCHANGED <<redisUp, cache, rows, stored>>

RateUnknown(r) ==     \* without Redis every call is let through
  /\ req[r].at \in {"rate", "count"} /\ ~redisUp
  /\ Admits(r, TRUE)
  /\ Put(r, [Go(r, "fetch") EXCEPT !.read = 0])
  /\ UNCHANGED <<redisUp, window, cache, rows, stored>>

(* _try_collector names no data_type, so that eastmoney answers with its   *)
(* indices, whatever the symbol; the others with some of what was asked.   *)
Offers(r) ==
  LET a == req[r].ask
  IN  IF Head(req[r].left) = "eastmoney" THEN CnIndices ELSE Wanted(a) \ req[r].got

(* _try_collector: the item of that symbol, else the first one; the codes  *)
(* of eastmoney are not the symbols that were asked for.                   *)
(* _fetch_indices_with_failover fills in what is missing from source to    *)
(* source; the others are content with the first answer.                   *)
Gathered(r, items) ==
  LET state == req[r]
  IN  IF items = {} THEN {Turn(Pass(r))}
      ELSE CASE state.ask.kind = "quote" ->
                  {Turn([state EXCEPT !.got = {of}, !.left = <<>>]) : of \in items}
             [] state.ask.kind = "commodities" ->
                  {Turn([state EXCEPT !.got = items, !.left = <<>>])}
             [] OTHER ->
                  LET all == state.got \cup (items \cap Indices)
                  IN  {Turn([state EXCEPT !.got = all,
                                          !.left = IF all = Indices THEN <<>> ELSE Tail(@)])}

(* What collect returns after its retries (three, of an error eastmoney    *)
(* lets through) is one step: nothing else is looked at in between.        *)
FetchEnds(r) ==
  /\ req[r].at = "fetch"
  /\ \E items \in SUBSET Offers(r) : \E state \in Gathered(r, items) : Put(r, state)
  /\ UNCHANGED <<redisUp, counts, cache, rows, stored>>

-----------------------------------------------------------------------------
(* _store_quote_to_db, _cache_quote and push_event.                        *)

Symbol(r) == req[r].ask.of

RowRead(r) ==
  /\ req[r].at = "row"
  /\ Put(r, [Go(r, "store") EXCEPT !.known = Symbol(r) \in rows])
  /\ UNCHANGED <<redisUp, counts, cache, rows, stored>>

Doubled(r) == ~req[r].known /\ Symbol(r) \in rows

(* chk_finance_symbols_type: a new row takes its type from the item, and   *)
(* neither eastmoney's "cn_index" nor the "cn_stock" of yfinance is one of *)
(* the table.                                                              *)
Refused(r) ==
  /\ ~req[r].known
  /\ req[r].got \subseteq CnIndices \/ Symbol(r) \in Mainland

StoreQuote_lenient(r) ==     \* Mutant: goes on when the row cannot be inserted
  /\ req[r].at = "store"
  /\ IF Doubled(r) \/ Refused(r)
       THEN Put(r, Go(r, "cache")) /\ UNCHANGED <<rows, stored>>
       ELSE /\ rows' = rows \cup {Symbol(r)}
            /\ stored' = stored \cup {<<Symbol(r), of>> : of \in req[r].got}
            /\ Put(r, [Go(r, "cache") EXCEPT !.known = FALSE])
  /\ UNCHANGED <<redisUp, counts, cache>>

(* A row that another request has inserted meanwhile, or that is refused,  *)
(* is an IntegrityError, and a 500; the insert waits for the other's       *)
(* commit, so that both are one step.                                      *)
StoreQuote(r) ==
  /\ req[r].at = "store"
  /\ IF Doubled(r) \/ Refused(r)
       THEN Put(r, Idle) /\ UNCHANGED <<rows, stored>>
       ELSE /\ rows' = rows \cup {Symbol(r)}
            /\ stored' = stored \cup {<<Symbol(r), of>> : of \in req[r].got}
            /\ Put(r, [Go(r, "cache") EXCEPT !.known = FALSE])
  /\ UNCHANGED <<redisUp, counts, cache>>

(* The cache, and the event with the same data; without Redis the request  *)
(* fails before the event.                                                 *)
Publish(r) ==
  /\ req[r].at = "cache"
  /\ cache' = IF redisUp THEN [cache EXCEPT ![req[r].ask] = req[r].got] ELSE cache
  /\ Put(r, Idle)
  /\ UNCHANGED <<redisUp, counts, rows, stored>>

-----------------------------------------------------------------------------
(* search_symbols and get_fund_nav.                                        *)

(* The filters of a search may leave out a row that is there.              *)
SearchRows(r) ==
  /\ req[r].at = "look" /\ req[r].ask.kind = "search"
  /\ \/ /\ Symbol(r) \in rows
        /\ Put(r, [Go(r, "cache") EXCEPT !.got = {Symbol(r)}])
     \/ Put(r, Go(r, "yahoo"))
  /\ UNCHANGED <<redisUp, counts, cache, rows, stored>>

(* _search_symbols_external: one symbol that is there already fails the    *)
(* commit of all, and the search finds nothing.                            *)
SearchOutside(r) ==
  /\ req[r].at = "yahoo"
  /\ \E found \in SUBSET Quoted :
       IF found = {} \/ found \cap rows # {}
         THEN Put(r, Idle) /\ UNCHANGED rows
         ELSE /\ rows' = rows \cup found
              /\ Put(r, [Go(r, "cache") EXCEPT !.got = found])
  /\ UNCHANGED <<redisUp, counts, cache, stored>>

(* The estimate follows the cached quote of the index the fund tracks, if  *)
(* there is one: the request fails here without Redis.                     *)
NavRead(r) ==
  /\ req[r].at = "look" /\ req[r].ask.kind = "nav"
  /\ Put(r, IF Symbol(r) \in rows /\ redisUp
               THEN [Go(r, "cache") EXCEPT !.got = {Symbol(r)}] ELSE Idle)
  /\ UNCHANGED <<redisUp, counts, cache, rows, stored>>

-----------------------------------------------------------------------------
Working(r) ==
  \/ RateRead(r) \/ RateWrite(r) \/ RateUnknown(r) \/ FetchEnds(r)
  \/ RowRead(r) \/ StoreQuote(r) \/ Publish(r)
  \/ SearchRows(r) \/ SearchOutside(r) \/ NavRead(r)

QuoteNext ==
  \/ \E r \in Requests, a \in Asks : Ask(r, a)
  \/ \E r \in Requests : Working(r)
  \/ RedisFails \/ RedisReturns \/ WindowLapses \/ EntryLapses

QuoteSpec == QuoteInit /\ [][QuoteNext]_quoteVars

-----------------------------------------------------------------------------
(* Types; a request that stores has one quote in hand (_try_collector).    *)
TypeOK ==
  /\ redisUp \in BOOLEAN
  /\ window \in Nat /\ passed \in Nat /\ overlapped \in BOOLEAN /\ exceeded \in BOOLEAN
  /\ cache \in [Asks -> SUBSET Symbols]
  /\ rows \subseteq Symbols /\ stored \subseteq Symbols \X Symbols
  /\ \A r \in Requests :
       /\ req[r].at \in {"idle", "rate", "count", "fetch", "row", "store", "cache",
                         "look", "yahoo"}
       /\ req[r].at # "idle" => req[r].ask \in Asks
       /\ req[r].got \subseteq Symbols
       /\ req[r].at \in {"rate", "count", "fetch"} => req[r].left # <<>>
       /\ req[r].at \in {"row", "store"} => Cardinality(req[r].got) = 1

(* A collector is called beyond its limit only when two calls read the     *)
(* count before either wrote it, or without Redis: the counter itself      *)
(* never loses one (rate_limit_check, base.py:126-134).                    *)
RateHolds == ~exceeded

(* What is cached has been stored: a cached quote of a symbol is one of    *)
(* its rows, and a cached search names rows that are there, whatever other *)
(* requests insert in between and whether their commits fail               *)
(* (get_quote, finance.py:181-203, and _search_symbols_external).          *)
CachedIsStored ==
  \A a \in Asks :
    /\ a.kind = "quote" => \A of \in cache[a] : <<a.of, of>> \in stored
    /\ a.kind = "search" => cache[a] \subseteq rows

(* docs/dev-guide/design/finance-tab.md:311 gives the symbols of China to  *)
(* eastmoney: what is cached, stored and published under a symbol is its   *)
(* own quote (_try_collector, finance.py:757-772).                         *)
QuoteIsOfSymbol == \A a \in Asks : a.kind = "quote" => cache[a] \subseteq {a.of}
=============================================================================
