------------------------------- MODULE KeyPool -------------------------------
(***************************************************************************)
(* The key pools of core/api_keys.py and the collectors that draw on them, *)
(* collectors/finance/finnhub_collector.py, iex_cloud_collector.py and     *)
(* alpha_vantage_collector.py: one caller of fetch_data at work, and any   *)
(* number of others, who turn the rotation and mark any key at any time.   *)
(* The module Quotes has what is around a call.                            *)
(***************************************************************************)
EXTENDS Naturals, Sequences, FiniteSets

CONSTANTS
  Keys,        (* the configured keys of each service, a sequence          *)
  MaxSymbols   (* bound of the model: symbols of one call                  *)

Services == DOMAIN Keys
KeysOf(v) == {Keys[v][i] : i \in 1..Len(Keys[v])}
NoKey == "none"

ASSUME KeyPoolAssumption ==
  /\ \A v \in Services :
       /\ Keys[v] \in Seq(KeysOf(v)) /\ Keys[v] # <<>>
       /\ NoKey \notin KeysOf(v)
  /\ MaxSymbols \in Nat \ {0}

VARIABLES
  redisUp,   (* it may fail and return at any time                        *)
  rotation,  (* apikey:rotation:{service}, modulo the keys                 *)
  limited,   (* keys with apikey:limited                                   *)
  invalid,   (* keys with apikey:invalid                                   *)
  call       (* the caller we follow                                       *)

pools == <<rotation, limited, invalid>>
vars == <<redisUp, pools, call>>

(* "left" are the symbols to go; "key" the key in use or, while another is *)
(* asked for, the one just denied.  "fresh" is history: the keys of the    *)
(* service that have had no mark since the call began, none once Redis has *)
(* failed during it.                                                       *)
Idle == [at |-> "idle", of |-> "none", left |-> 0, many |-> FALSE,
         tries |-> 0, key |-> NoKey, from |-> 0, seen |-> 0, cursor |-> 0, fresh |-> {}]

Init ==
  /\ redisUp = TRUE
  /\ rotation = [v \in Services |-> 0]
  /\ limited = {} /\ invalid = {}
  /\ call = Idle

-----------------------------------------------------------------------------
(* Redis: a rate limit marker goes by its TTL, and Redis may be away.      *)

RedisFails ==
  /\ redisUp
  /\ redisUp' = FALSE
  /\ call' = [call EXCEPT !.fresh = {}]
  /\ UNCHANGED pools

RedisReturns ==
  /\ ~redisUp /\ redisUp' = TRUE
  /\ UNCHANGED <<pools, call>>

CooldownLapses ==
  /\ \E k \in limited : limited' = limited \ {k}
  /\ UNCHANGED <<redisUp, rotation, invalid, call>>

-----------------------------------------------------------------------------
(* The other callers: APIKeyManager is made anew for each collector, all   *)
(* its state is in Redis.                                                  *)

OthersRotate ==
  /\ redisUp
  /\ \E v \in Services : rotation' = [rotation EXCEPT ![v] = (@ + 1) % Len(Keys[v])]
  /\ UNCHANGED <<redisUp, limited, invalid, call>>

(* mark_rate_limited and mark_invalid.  An invalid key stays invalid, its  *)
(* other mark makes no difference.                                         *)
Marks(k, verdict) ==
  IF verdict = "denied"
    THEN invalid' = invalid \cup {k} /\ limited' = limited \ {k}
    ELSE limited' = limited \cup ({k} \ invalid) /\ UNCHANGED invalid

OthersMark(verdict) ==
  /\ redisUp
  /\ \E k \in UNION {KeysOf(v) : v \in Services} :
       /\ Marks(k, verdict)
       /\ call' = [call EXCEPT !.fresh = @ \ {k}]
  /\ UNCHANGED <<redisUp, rotation>>

-----------------------------------------------------------------------------
(* fetch_data asks for a key.                                              *)

Go(place) == [call EXCEPT !.at = place]

(* The services that try a symbol again with another key: the loop of      *)
(* _fetch_stock_quotes, the same in both collectors.                       *)
Retrying == {"finnhub", "iex_cloud"}

(* "many" is every data_type other than the stock quotes.                  *)
FetchData(v, n, many) ==
  /\ call.at = "idle" /\ (many => v \in Retrying)
  /\ call' = [Idle EXCEPT !.at = "key", !.of = v, !.left = n, !.many = many,
                          !.fresh = IF redisUp THEN KeysOf(v) \ (limited \cup invalid)
                                    ELSE {}]
  /\ UNCHANGED <<redisUp, pools>>

Pool == Keys[call.of]
KeyAt(i) == Pool[(i % Len(Pool)) + 1]

(* What fetch_data does with a key, or with none: alpha_vantage takes one  *)
(* for each symbol and stops the batch without, finnhub fails the fetch,   *)
(* also when the key it just marked invalid comes back; and the last       *)
(* attempt of its loop gives up the symbol with the new key in hand.       *)
Barren(k) == k = NoKey \/ k = call.key

Spent == call.of \in Retrying /\ call.tries >= Len(Pool) + 1

Use(k) ==
  LET new == [call EXCEPT !.key = k, !.from = 0, !.seen = 0]
      rest == [new EXCEPT !.left = @ - 1, !.tries = 0]
  IN  IF Barren(k)
        THEN [Idle EXCEPT !.at = "gaveup", !.of = call.of, !.fresh = call.fresh]
      ELSE IF ~Spent THEN [new EXCEPT !.at = "call"]
      ELSE IF rest.left = 0 THEN Idle
      ELSE [rest EXCEPT !.at = "call"]

(* get_key: the counter first.                                             *)
KeyCount ==
  /\ call.at = "key" /\ redisUp
  /\ LET v == call.of
     IN  rotation' = [rotation EXCEPT ![v] = (@ + 1) % Len(Keys[v])]
  /\ call' = [Go("scan") EXCEPT !.from = rotation[call.of], !.seen = 0]
  /\ UNCHANGED <<redisUp, limited, invalid>>

KeyScan_short ==     \* Mutant: the lap stops one key early
  /\ call.at = "scan" /\ redisUp
  /\ LET k == KeyAt(call.from + call.seen)
     IN  call' = IF k \notin limited \cup invalid THEN Use(k)
                 ELSE IF call.seen + 2 < Len(Pool) THEN [call EXCEPT !.seen = @ + 1]
                 ELSE Use(NoKey)
  /\ UNCHANGED <<redisUp, pools>>

(* Then each key in turn, from there, at most one lap.  Both errors at the *)
(* end of it come to the same in _next_key_or_none.                        *)
KeyScan ==
  /\ call.at = "scan" /\ redisUp
  /\ LET k == KeyAt(call.from + call.seen)
     IN  call' = IF k \notin limited \cup invalid THEN Use(k)
                 ELSE IF call.seen + 1 < Len(Pool) THEN [call EXCEPT !.seen = @ + 1]
                 ELSE Use(NoKey)
  /\ UNCHANGED <<redisUp, pools>>

(* _next_fallback_key: a cursor of this collector, which is new.           *)
KeyFallback ==
  /\ call.at \in {"key", "scan"} /\ ~redisUp
  /\ LET used == Use(KeyAt(call.cursor))
     IN  call' = IF used.at # "call" THEN used
                 ELSE [used EXCEPT !.cursor = (@ + 1) % Len(Pool)]
  /\ UNCHANGED <<redisUp, pools>>

-----------------------------------------------------------------------------
(* The calls with a key.                                                   *)

(* The end of one symbol: finnhub goes on with the same key, alpha_vantage *)
(* asks for another.                                                       *)
NextSymbol ==
  LET new == [call EXCEPT !.left = @ - 1, !.tries = 0]
  IN  IF new.left = 0 THEN Idle
      ELSE IF call.of \in Retrying THEN [new EXCEPT !.at = "call"]
      ELSE [new EXCEPT !.at = "key", !.key = NoKey]

(* A quote, an empty answer, another error or a timeout.                   *)
CallEnds ==
  /\ call.at = "call"
  /\ call' = NextSymbol
  /\ UNCHANGED <<redisUp, pools>>

(* 429, or 401 and 403: the key is marked, unless Redis is away.  finnhub  *)
(* asks for another and tries the symbol again, except in its batches      *)
(* (_mark_key_error), which go on with the key they have.                  *)
AfterMark_uncounted(verdict) ==     \* Mutant: a 429 is no attempt
  IF call.of \in Retrying /\ ~call.many
    THEN [Go("key") EXCEPT !.tries = IF verdict = "denied" THEN @ + 1 ELSE @,
                           !.key = IF verdict = "denied" THEN @ ELSE NoKey]
    ELSE NextSymbol

AfterMark(verdict) ==
  IF call.of \in Retrying /\ ~call.many
    THEN [Go("key") EXCEPT !.tries = @ + 1,
                           !.key = IF verdict = "denied" THEN @ ELSE NoKey]
    ELSE NextSymbol

CallRefused(verdict) ==
  /\ call.at = "call"
  /\ IF redisUp THEN Marks(call.key, verdict) ELSE UNCHANGED <<limited, invalid>>
  /\ call' = [AfterMark(verdict) EXCEPT !.fresh = @ \ {call.key}]
  /\ UNCHANGED <<redisUp, rotation>>

(* fetch_data returns None: collect has failed, and failover goes on.      *)
GiveUp ==
  /\ call.at = "gaveup"
  /\ call' = Idle
  /\ UNCHANGED <<redisUp, pools>>

-----------------------------------------------------------------------------
Verdicts == {"limited", "denied"}

Working ==
  \/ KeyCount \/ KeyScan \/ KeyFallback \/ CallEnds \/ GiveUp
  \/ \E verdict \in Verdicts : CallRefused(verdict)

Next ==
  \/ \E v \in Services, n \in 1..MaxSymbols, many \in BOOLEAN : FetchData(v, n, many)
  \/ Working
  \/ OthersRotate \/ \E verdict \in Verdicts : OthersMark(verdict)
  \/ RedisFails \/ RedisReturns \/ CooldownLapses

(* Every wait of a call has a timeout: httpx and asyncio.sleep.            *)
Spec == Init /\ [][Next]_vars /\ WF_vars(Working)

-----------------------------------------------------------------------------
(* Types; every mark and every key in use is one of the configured keys of *)
(* the service (fetch_data and the marks of both collectors).              *)
TypeOK ==
  /\ redisUp \in BOOLEAN
  /\ \A v \in Services : rotation[v] \in 0..(Len(Keys[v]) - 1)
  /\ limited \cup invalid \subseteq UNION {KeysOf(v) : v \in Services}
  /\ call.at \in {"idle", "key", "scan", "call", "gaveup"}
  /\ call.at \in {"key", "scan", "call"} => call.left \in 1..MaxSymbols
  /\ call.at = "call" => call.key \in KeysOf(call.of)

(* finnhub and alpha_vantage give up for want of a key only when each key  *)
(* of the pool has been marked since the call began, whatever the other    *)
(* callers do to the rotation and to the marks meanwhile; only a failure   *)
(* of Redis makes them miss a good one (get_key, api_keys.py:100-122, and  *)
(* finnhub_collector.py:107-112).                                          *)
NoKeyMissed == call.at = "gaveup" => call.fresh = {}

(* Every call comes to an end, with Redis away for good as well, when no   *)
(* mark is kept and the same keys come back forever                        *)
(* (_fetch_stock_quotes, finnhub_collector.py:89-114).                     *)
CallsEnd == call.at # "idle" ~> call.at = "idle"
=============================================================================
