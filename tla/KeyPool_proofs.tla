--------------------------- MODULE KeyPool_proofs ---------------------------
(* Safety of the key pools, for any services and any number of keys.       *)
EXTENDS KeyPool, TLAPS

(* Counting on from any place of a ring reaches every other within a lap.  *)
LEMMA LapReaches ==
  ASSUME NEW n \in Nat \ {0}, NEW f \in 0..n-1, NEW i \in 0..n-1
  PROVE  \E j \in 0..n-1 : (f + j) % n = i
<1>1. \A x \in 0..n-1 : x % n = x /\ (x + n) % n = x
  OBVIOUS
<1>2. CASE i >= f
  <2>1. i - f \in 0..n-1 /\ f + (i - f) = i
    BY <1>2
  <2> QED
    BY <1>1, <2>1
<1>3. CASE i < f
  <2>1. i - f + n \in 0..n-1 /\ f + (i - f + n) = i + n
    BY <1>3
  <2> QED
    BY <1>1, <2>1
<1> QED
  BY <1>2, <1>3

LEMMA Poolful ==
  ASSUME NEW v \in Services
  PROVE  /\ Len(Keys[v]) \in Nat \ {0}
         /\ \A i \in 1..Len(Keys[v]) : Keys[v][i] \in KeysOf(v)
         /\ \A k \in KeysOf(v) : \E i \in 0..Len(Keys[v])-1 : k = Keys[v][i + 1]
         /\ NoKey \notin KeysOf(v)
<1>1. Keys[v] \in Seq(KeysOf(v)) /\ Keys[v] # <<>> /\ NoKey \notin KeysOf(v)
  BY KeyPoolAssumption
<1>2. Len(Keys[v]) \in Nat \ {0}
  BY <1>1
<1>3. \A k \in KeysOf(v) : \E i \in 0..Len(Keys[v])-1 : k = Keys[v][i + 1]
  <2> SUFFICES ASSUME NEW k \in KeysOf(v)
               PROVE  \E i \in 0..Len(Keys[v])-1 : k = Keys[v][i + 1]
    OBVIOUS
  <2>1. PICK m \in 1..Len(Keys[v]) : k = Keys[v][m]
    BY DEF KeysOf
  <2>2. m - 1 \in 0..Len(Keys[v])-1 /\ (m - 1) + 1 = m
    BY <1>2
  <2> QED
    BY <2>1, <2>2
<1> QED
  BY <1>1, <1>2, <1>3 DEF KeysOf
AllKeys == UNION {KeysOf(v) : v \in Services}

Calls ==
  [at : {"idle", "key", "scan", "call", "gaveup"}, of : Services \cup {"none"}, left : Nat,
   many : BOOLEAN, tries : Nat, key : AllKeys \cup {NoKey}, from : Nat, seen : Nat,
   cursor : Nat, fresh : SUBSET AllKeys]

PoolsTyped ==
  /\ redisUp \in BOOLEAN
  /\ rotation \in [Services -> Nat]
  /\ \A v \in Services : rotation[v] \in 0..(Len(Keys[v]) - 1)
  /\ limited \subseteq AllKeys /\ invalid \subseteq AllKeys

CallTyped(c) ==
  /\ c \in Calls
  /\ c.at # "idle" => c.of \in Services
  /\ c.at \in {"key", "scan", "call"} => c.left \in 1..MaxSymbols
  /\ c.at = "call" => c.key \in KeysOf(c.of)

(* The history of a call is true: a fresh key is one of the service and    *)
(* has no mark, and there is none without Redis.                           *)
FreshIsGood ==
  /\ call.at # "idle" => call.fresh \subseteq KeysOf(call.of)
  /\ call.fresh \cap (limited \cup invalid) = {}
  /\ ~redisUp => call.fresh = {}

(* The lap so far has met no fresh key; a key that was just denied stays   *)
(* invalid; and whoever gave up had no fresh key left.                     *)
SearchIsFair ==
  /\ call.at = "scan" =>
       /\ call.from \in 0..(Len(Pool) - 1) /\ call.seen \in 0..(Len(Pool) - 1)
       /\ \A j \in 0..call.seen - 1 : KeyAt(call.from + j) \notin call.fresh
  /\ call.at \in {"key", "scan"} /\ call.key # NoKey =>
       call.key \in invalid \/ call.fresh = {}
  /\ call.at = "gaveup" => call.fresh = {}

KeyInv == PoolsTyped /\ CallTyped(call) /\ FreshIsGood /\ SearchIsFair

LEMMA IdleTyped == CallTyped(Idle) /\ Idle.fresh = {} /\ Idle.at = "idle"
  BY DEF CallTyped, Idle, Calls, NoKey

LEMMA KeyAtInPool ==
  ASSUME call.of \in Services, NEW i \in Nat
  PROVE  KeyAt(i) \in KeysOf(call.of) /\ KeyAt(i) # NoKey
<1>1. Len(Pool) \in Nat \ {0}
  BY Poolful DEF Pool
<1>2. (i % Len(Pool)) + 1 \in 1..Len(Pool)
  BY <1>1
<1> QED
  BY <1>2, Poolful DEF KeyAt, Pool

(* A whole lap without a fresh key: there is none.                         *)
LEMMA LapIsWhole ==
  ASSUME call.of \in Services, call.fresh \subseteq KeysOf(call.of),
         NEW f \in 0..(Len(Pool) - 1),
         \A j \in 0..(Len(Pool) - 1) : KeyAt(f + j) \notin call.fresh
  PROVE  call.fresh = {}
<1> SUFFICES ASSUME NEW k \in call.fresh PROVE FALSE
  OBVIOUS
<1>1. PICK i \in 0..(Len(Pool) - 1) : k = Pool[i + 1]
  BY Poolful DEF Pool
<1>2. Len(Pool) \in Nat \ {0}
  BY Poolful DEF Pool
<1>3. PICK j \in 0..(Len(Pool) - 1) : (f + j) % Len(Pool) = i
  BY <1>2, LapReaches
<1>4. KeyAt(f + j) = k
  BY <1>1, <1>3 DEF KeyAt
<1> QED
  BY <1>4

(* What becomes of a call that is given a key, or none.                    *)
LEMMA UseResult ==
  ASSUME CallTyped(call), call.at \in {"key", "scan"},
         NEW k \in KeysOf(call.of) \cup {NoKey}
  PROVE  /\ CallTyped(Use(k))
         /\ Barren(k) => /\ Use(k).at = "gaveup" /\ Use(k).fresh = call.fresh
                         /\ Use(k).of = call.of
         /\ ~Barren(k) => \/ Use(k) = Idle
                          \/ /\ Use(k).at = "call" /\ Use(k).fresh = call.fresh
                             /\ Use(k).of = call.of /\ Use(k).key = k
<1> DEFINE new == [call EXCEPT !.key = k, !.from = 0, !.seen = 0]
           rest == [new EXCEPT !.left = @ - 1, !.tries = 0]
           empty == [Idle EXCEPT !.at = "gaveup", !.of = call.of, !.fresh = call.fresh]
<1>1. call \in Calls /\ call.of \in Services /\ call.left \in 1..MaxSymbols
      /\ MaxSymbols \in Nat /\ k \in AllKeys \cup {NoKey}
  BY KeyPoolAssumption DEF CallTyped, AllKeys
<1>2. empty \in Calls /\ empty.at = "gaveup" /\ empty.fresh = call.fresh
      /\ empty.of = call.of
  BY <1>1 DEF Idle, Calls, NoKey
<1>3. /\ [new EXCEPT !.at = "call"] \in Calls
      /\ [new EXCEPT !.at = "call"].at = "call" /\ [new EXCEPT !.at = "call"].key = k
      /\ [new EXCEPT !.at = "call"].of = call.of
      /\ [new EXCEPT !.at = "call"].left = call.left
      /\ [new EXCEPT !.at = "call"].fresh = call.fresh
  BY <1>1 DEF Calls
<1>4. /\ rest.left = call.left - 1 /\ rest.key = k /\ rest.of = call.of
      /\ rest.fresh = call.fresh
      /\ rest \in Calls
  <2>1. call.left - 1 \in Nat
    BY <1>1
  <2> QED
    BY <1>1, <2>1 DEF Calls
<1> HIDE DEF rest
<1>5. rest.left # 0 =>
      /\ [rest EXCEPT !.at = "call"] \in Calls
      /\ [rest EXCEPT !.at = "call"].at = "call" /\ [rest EXCEPT !.at = "call"].key = k
      /\ [rest EXCEPT !.at = "call"].of = call.of
      /\ [rest EXCEPT !.at = "call"].left \in 1..MaxSymbols
      /\ [rest EXCEPT !.at = "call"].fresh = call.fresh
  <2>1. rest.left # 0 => rest.left \in 1..MaxSymbols
    BY <1>1, <1>4
  <2> QED
    BY <1>4, <2>1 DEF Calls
<1>6. Use(k) = IF Barren(k) THEN empty
               ELSE IF ~Spent THEN [new EXCEPT !.at = "call"]
               ELSE IF rest.left = 0 THEN Idle
               ELSE [rest EXCEPT !.at = "call"]
  BY DEF Use, rest
<1>7. ~Barren(k) => k \in KeysOf(call.of)
  BY DEF Barren
<1> HIDE DEF new, empty
<1>8. CASE Barren(k)
  BY <1>1, <1>2, <1>6, <1>8 DEF CallTyped
<1>9. CASE ~Barren(k) /\ ~Spent
  BY <1>1, <1>3, <1>6, <1>7, <1>9 DEF CallTyped
<1>10. CASE ~Barren(k) /\ Spent
  BY <1>1, <1>4, <1>5, <1>6, <1>7, <1>10, IdleTyped DEF CallTyped
<1> QED
  BY <1>8, <1>9, <1>10
LEMMA KeyInit == Init => KeyInv
<1> SUFFICES ASSUME Init PROVE KeyInv
  OBVIOUS
<1>1. PoolsTyped
  <2>1. \A v \in Services : 0 \in 0..(Len(Keys[v]) - 1)
    BY Poolful
  <2> QED
    BY <2>1 DEF Init, PoolsTyped
<1> QED
  BY <1>1, IdleTyped DEF Init, KeyInv, FreshIsGood, SearchIsFair, Idle

(* The other callers and Redis.                                            *)
LEMMA OthersKeep ==
  ASSUME KeyInv,
         \/ RedisFails \/ RedisReturns \/ CooldownLapses \/ OthersRotate
         \/ \E verdict \in Verdicts : OthersMark(verdict)
  PROVE  KeyInv'
<1> USE DEF KeyInv
<1>1. CASE RedisFails
  <2>1. /\ call' = [call EXCEPT !.fresh = {}] /\ redisUp' = FALSE
        /\ rotation' = rotation /\ limited' = limited /\ invalid' = invalid
    BY <1>1 DEF RedisFails, pools
  <2>2. /\ call' \in Calls /\ call'.at = call.at /\ call'.of = call.of
        /\ call'.left = call.left /\ call'.key = call.key /\ call'.fresh = {}
        /\ call'.from = call.from /\ call'.seen = call.seen
    BY <2>1 DEF CallTyped, Calls
  <2> QED
    BY <2>1, <2>2 DEF PoolsTyped, CallTyped, FreshIsGood, SearchIsFair, Pool, KeyAt
<1>2. CASE RedisReturns
  BY <1>2 DEF RedisReturns, pools, PoolsTyped, CallTyped, FreshIsGood, SearchIsFair, Pool, KeyAt
<1>3. CASE CooldownLapses
  BY <1>3 DEF CooldownLapses, PoolsTyped, CallTyped, FreshIsGood, SearchIsFair, Pool, KeyAt
<1>4. CASE OthersRotate
  <2>1. PICK v \in Services : rotation' = [rotation EXCEPT ![v] = (@ + 1) % Len(Keys[v])]
    BY <1>4 DEF OthersRotate
  <2>2. (rotation[v] + 1) % Len(Keys[v]) \in 0..(Len(Keys[v]) - 1)
    <3>1. rotation[v] \in Nat /\ Len(Keys[v]) \in Nat \ {0}
      BY Poolful DEF PoolsTyped
    <3> QED
      BY <3>1
  <2>3. PoolsTyped'
    <3>1. \A n \in Nat : \A m \in 0..(n - 1) : m \in Nat
      OBVIOUS
    <3> QED
      BY <1>4, <2>1, <2>2, <3>1, Poolful DEF OthersRotate, PoolsTyped
  <2> QED
    BY <1>4, <2>3 DEF OthersRotate, CallTyped, FreshIsGood, SearchIsFair, Pool, KeyAt
<1>5. ASSUME NEW verdict \in Verdicts, OthersMark(verdict) PROVE KeyInv'
  <2>1. PICK k \in AllKeys : Marks(k, verdict) /\ call' = [call EXCEPT !.fresh = @ \ {k}]
    BY <1>5 DEF OthersMark, AllKeys
  <2>2. redisUp' = redisUp /\ rotation' = rotation
    BY <1>5 DEF OthersMark
  <2>3. /\ call' \in Calls /\ call'.at = call.at /\ call'.of = call.of
        /\ call'.left = call.left /\ call'.key = call.key /\ call'.fresh = call.fresh \ {k}
        /\ call'.from = call.from /\ call'.seen = call.seen
    BY <2>1 DEF CallTyped, Calls
  <2>4. /\ limited' \cup invalid' \subseteq limited \cup invalid \cup {k}
        /\ invalid \subseteq invalid'
    BY <2>1 DEF Marks
  <2>5. PoolsTyped'
    BY <2>1, <2>2, <2>4 DEF PoolsTyped
  <2> QED
    BY <2>2, <2>3, <2>4, <2>5 DEF CallTyped, FreshIsGood, SearchIsFair, Pool, KeyAt
<1> QED
  BY <1>1, <1>2, <1>3, <1>4, <1>5

(* A step to a call, or to its end, keeps the rest.                        *)
LEMMA UseKeeps ==
  ASSUME KeyInv, call.at \in {"key", "scan"}, NEW k \in KeysOf(call.of) \cup {NoKey},
         UNCHANGED <<redisUp, pools>>,
         NEW cursor, call' = [Use(k) EXCEPT !.cursor = cursor] \/ call' = Use(k),
         cursor \in Nat,
         Barren(k) => call.fresh = {}
  PROVE  KeyInv'
<1>1. CallTyped(Use(k)) /\ Use(k) \in Calls
  BY UseResult DEF KeyInv, CallTyped
<1>2. /\ call' \in Calls /\ call'.at = Use(k).at /\ call'.of = Use(k).of
      /\ call'.left = Use(k).left /\ call'.key = Use(k).key /\ call'.fresh = Use(k).fresh
  BY <1>1 DEF Calls
<1>3. CallTyped(call')
  BY <1>1, <1>2 DEF CallTyped
<1>4. /\ call'.at \in {"gaveup", "idle", "call"}
      /\ call'.at = "gaveup" => call'.fresh = {}
      /\ call'.fresh = {} \/ (call'.fresh = call.fresh /\ call'.of = call.of)
  BY <1>2, UseResult, IdleTyped DEF KeyInv
<1>5. call.of \in Services
  BY DEF KeyInv, CallTyped
<1> QED
  BY <1>3, <1>4 DEF KeyInv, PoolsTyped, FreshIsGood, SearchIsFair, pools

LEMMA ScanKeeps == ASSUME KeyInv, KeyScan PROVE KeyInv'
<1> DEFINE k == KeyAt(call.from + call.seen)
<1>1. /\ call.at = "scan" /\ call.of \in Services /\ call.from \in 0..(Len(Pool) - 1)
      /\ call.seen \in 0..(Len(Pool) - 1) /\ Len(Pool) \in Nat \ {0}
      /\ UNCHANGED <<redisUp, pools>>
      /\ call.fresh \subseteq KeysOf(call.of) /\ call \in Calls
  BY Poolful DEF KeyScan, KeyInv, CallTyped, SearchIsFair, FreshIsGood, Pool
<1>2. k \in KeysOf(call.of) /\ k # NoKey
  BY <1>1, KeyAtInPool
<1>3. call' = IF k \notin limited \cup invalid THEN Use(k)
              ELSE IF call.seen + 1 < Len(Pool) THEN [call EXCEPT !.seen = @ + 1]
              ELSE Use(NoKey)
  BY DEF KeyScan
<1> HIDE DEF k
<1>4. CASE k \notin limited \cup invalid
  <2>1. Barren(k) => call.fresh = {}
    BY <1>1, <1>2, <1>4 DEF Barren, KeyInv, SearchIsFair
  <2> QED
    BY <1>1, <1>2, <1>3, <1>4, <2>1, UseKeeps, 0 \in Nat
<1>5. ASSUME k \in limited \cup invalid PROVE \A j \in 0..call.seen : KeyAt(call.from + j) \notin call.fresh
  <2>1. k \notin call.fresh
    BY <1>5 DEF KeyInv, FreshIsGood
  <2>2. \A j \in 0..call.seen - 1 : KeyAt(call.from + j) \notin call.fresh
    BY <1>1 DEF KeyInv, SearchIsFair
  <2>3. \A j \in 0..call.seen : j = call.seen \/ j \in 0..call.seen - 1
    BY <1>1
  <2> QED
    BY <2>1, <2>2, <2>3 DEF k
<1>6. CASE k \in limited \cup invalid /\ call.seen + 1 < Len(Pool)
  <2>1. /\ call' = [call EXCEPT !.seen = call.seen + 1]
        /\ call.seen + 1 \in 0..(Len(Pool) - 1)
        /\ call.seen + 1 \in Nat /\ (call.seen + 1) - 1 = call.seen
    BY <1>1, <1>3, <1>6
  <2>2. /\ call' \in Calls /\ call'.at = "scan" /\ call'.of = call.of
        /\ call'.left = call.left /\ call'.key = call.key /\ call'.fresh = call.fresh
        /\ call'.from = call.from /\ call'.seen = call.seen + 1
    BY <1>1, <2>1 DEF Calls
  <2>3. Pool' = Pool /\ \A i : KeyAt(i)' = KeyAt(i)
    BY <2>2 DEF Pool, KeyAt
  <2>4. \A j \in 0..call'.seen - 1 : KeyAt(call.from + j) \notin call.fresh
    BY <1>5, <1>6, <2>1, <2>2
  <2>5. SearchIsFair'
    BY <1>1, <2>1, <2>2, <2>3, <2>4 DEF KeyInv, SearchIsFair, pools, KeyAt, Pool
  <2> QED
    BY <1>1, <2>2, <2>5 DEF KeyInv, PoolsTyped, CallTyped, FreshIsGood, pools
<1>7. CASE k \in limited \cup invalid /\ ~(call.seen + 1 < Len(Pool))
  <2>1. call.seen = Len(Pool) - 1
    BY <1>1, <1>7
  <2>2. call.fresh = {}
    BY <1>1, <1>5, <1>7, <2>1, LapIsWhole
  <2> QED
    BY <1>1, <1>3, <1>7, <2>2, UseKeeps, 0 \in Nat
<1> QED
  BY <1>4, <1>6, <1>7

(* The end of a symbol, with what is left of it.                           *)
LEMMA NextSymbolTyped ==
  ASSUME CallTyped(call), call.at = "call"
  PROVE  /\ CallTyped(NextSymbol)
         /\ NextSymbol.at \in {"idle", "call", "key"}
         /\ NextSymbol.at = "key" => NextSymbol.key = NoKey
         /\ NextSymbol = Idle \/ (NextSymbol.fresh = call.fresh /\ NextSymbol.of = call.of)
<1> DEFINE new == [call EXCEPT !.left = @ - 1, !.tries = 0]
<1>1. call \in Calls /\ call.of \in Services /\ call.left \in 1..MaxSymbols
      /\ MaxSymbols \in Nat /\ call.key \in KeysOf(call.of)
  BY KeyPoolAssumption DEF CallTyped
<1>2. new \in Calls /\ new.left = call.left - 1 /\ new.of = call.of
      /\ new.key = call.key /\ new.fresh = call.fresh
  <2>1. call.left - 1 \in Nat
    BY <1>1
  <2> QED
    BY <1>1, <2>1 DEF Calls
<1>3. NextSymbol = IF new.left = 0 THEN Idle
                   ELSE IF call.of \in Retrying THEN [new EXCEPT !.at = "call"]
                   ELSE [new EXCEPT !.at = "key", !.key = NoKey]
  BY DEF NextSymbol
<1> HIDE DEF new
<1>4. CASE new.left = 0
  BY <1>3, <1>4, IdleTyped
<1>5. CASE new.left # 0 /\ call.of \in Retrying
  <2>1. NextSymbol = [new EXCEPT !.at = "call"] /\ new.left \in 1..MaxSymbols
    BY <1>1, <1>2, <1>3, <1>5
  <2> QED
    BY <1>1, <1>2, <2>1 DEF CallTyped, Calls
<1>6. CASE new.left # 0 /\ call.of \notin Retrying
  <2>1. NextSymbol = [new EXCEPT !.at = "key", !.key = NoKey] /\ new.left \in 1..MaxSymbols
    BY <1>1, <1>2, <1>3, <1>6
  <2> QED
    BY <1>1, <1>2, <2>1 DEF CallTyped, Calls
<1> QED
  BY <1>4, <1>5, <1>6

LEMMA CountKeeps == ASSUME KeyInv, KeyCount PROVE KeyInv'
<1> DEFINE v == call.of
<1>1. /\ v \in Services /\ call \in Calls /\ call.at = "key"
      /\ rotation' = [rotation EXCEPT ![v] = (rotation[v] + 1) % Len(Keys[v])]
      /\ call' = [[call EXCEPT !.at = "scan"] EXCEPT !.from = rotation[v], !.seen = 0]
      /\ UNCHANGED <<redisUp, limited, invalid>>
      /\ rotation \in [Services -> Nat] /\ rotation[v] \in 0..(Len(Keys[v]) - 1)
      /\ Len(Keys[v]) \in Nat \ {0}
  BY Poolful DEF KeyCount, Go, KeyInv, CallTyped, PoolsTyped
<1>2. (rotation[v] + 1) % Len(Keys[v]) \in 0..(Len(Keys[v]) - 1)
      /\ (rotation[v] + 1) % Len(Keys[v]) \in Nat
  <2>1. \A a \in Nat, n \in Nat \ {0} : (a + 1) % n \in 0..(n - 1) /\ (a + 1) % n \in Nat
    OBVIOUS
  <2> QED
    BY <1>1, <2>1
<1>3. PoolsTyped'
  BY <1>1, <1>2 DEF KeyInv, PoolsTyped
<1>4. /\ call' \in Calls /\ call'.at = "scan" /\ call'.of = v /\ call'.left = call.left
      /\ call'.key = call.key /\ call'.fresh = call.fresh
      /\ call'.from = rotation[v] /\ call'.seen = 0
  BY <1>1 DEF Calls
<1>5. SearchIsFair'
  <2>1. \A j \in 0..(0 - 1) : FALSE
    OBVIOUS
  <2>2. 0 \in 0..(Len(Keys[v]) - 1)
    BY <1>1
  <2> QED
    BY <1>1, <1>4, <2>1, <2>2 DEF KeyInv, SearchIsFair, Pool
<1> QED
  BY <1>1, <1>3, <1>4, <1>5 DEF KeyInv, CallTyped, FreshIsGood

LEMMA FallbackKeeps == ASSUME KeyInv, KeyFallback PROVE KeyInv'
<1> DEFINE k == KeyAt(call.cursor)
           n == (call.cursor + 1) % Len(Pool)
<1>1. /\ call.at \in {"key", "scan"} /\ call.fresh = {} /\ call.of \in Services
      /\ call \in Calls /\ UNCHANGED <<redisUp, pools>>
      /\ call.cursor \in Nat /\ Len(Pool) \in Nat \ {0}
  BY Poolful DEF KeyFallback, KeyInv, FreshIsGood, CallTyped, Calls, Pool
<1>2. k \in KeysOf(call.of)
  BY <1>1, KeyAtInPool
<1>3. Use(k).at = "call" => Use(k).cursor = call.cursor
  BY <1>1 DEF Use, Calls, Idle
<1>4. IF Use(k).at # "call" THEN call' = Use(k)
      ELSE call' = [Use(k) EXCEPT !.cursor = (Use(k).cursor + 1) % Len(Pool)]
  BY DEF KeyFallback
<1>5. n \in Nat
  BY <1>1
<1>6. call' = Use(k) \/ call' = [Use(k) EXCEPT !.cursor = n]
  BY <1>3, <1>4
<1> HIDE DEF k, n
<1> QED
  BY <1>1, <1>2, <1>5, <1>6, UseKeeps

LEMMA RefusedKeeps ==
  ASSUME KeyInv, NEW verdict \in Verdicts, CallRefused(verdict)
  PROVE  KeyInv'
<1> DEFINE k == call.key
           key == IF verdict = "denied" THEN k ELSE NoKey
           retry == [[call EXCEPT !.at = "key"] EXCEPT !.tries = @ + 1, !.key = key]
           after == AfterMark(verdict)
<1>1. /\ call.at = "call" /\ call.of \in Services /\ call \in Calls
      /\ k \in KeysOf(call.of) /\ k \in AllKeys
      /\ call.left \in 1..MaxSymbols
  BY DEF CallRefused, KeyInv, CallTyped, AllKeys
<1>2. /\ redisUp' = redisUp /\ rotation' = rotation
      /\ call' = [after EXCEPT !.fresh = @ \ {k}]
      /\ redisUp => Marks(k, verdict)
      /\ ~redisUp => limited' = limited /\ invalid' = invalid
  BY DEF CallRefused
<1>3. /\ limited' \cup invalid' \subseteq limited \cup invalid \cup {k}
      /\ invalid \subseteq invalid'
      /\ redisUp /\ verdict = "denied" => k \in invalid'
  BY <1>2 DEF Marks
<1>4. /\ retry \in Calls /\ retry.at = "key" /\ retry.of = call.of
      /\ retry.left = call.left /\ retry.fresh = call.fresh
      /\ retry.key = key
  <2>1. key \in AllKeys \cup {NoKey} /\ call.tries + 1 \in Nat
    BY <1>1 DEF Calls
  <2> HIDE DEF key
  <2> QED
    BY <1>1, <2>1 DEF Calls
<1>5. after = retry \/ after = NextSymbol
  BY DEF AfterMark, Go
<1>6. CallTyped(retry)
  BY <1>1, <1>4 DEF CallTyped
<1>7. /\ CallTyped(after) /\ after.at \in {"idle", "call", "key"}
      /\ after.at = "key" => after.key = NoKey \/ (after.key = k /\ verdict = "denied")
      /\ after.fresh = {} \/ (after.fresh = call.fresh /\ after.of = call.of)
  BY <1>1, <1>4, <1>5, <1>6, NextSymbolTyped, IdleTyped DEF KeyInv
<1> HIDE DEF after, retry, key
<1>8. /\ call' \in Calls /\ call'.at = after.at /\ call'.of = after.of
      /\ call'.left = after.left /\ call'.key = after.key /\ call'.fresh = after.fresh \ {k}
  <2>1. after \in Calls
    BY <1>7 DEF CallTyped
  <2> QED
    BY <1>2, <2>1 DEF Calls
<1>9. PoolsTyped'
  BY <1>1, <1>2, <1>3 DEF KeyInv, PoolsTyped
<1>10. CallTyped(call')
  BY <1>7, <1>8 DEF CallTyped
<1>11. FreshIsGood'
  <2>1. CASE after.fresh = {}
    BY <1>8, <2>1 DEF FreshIsGood
  <2>2. CASE after.fresh = call.fresh /\ after.of = call.of
    <3>1. /\ call.fresh \subseteq KeysOf(call.of) /\ call.fresh \cap (limited \cup invalid) = {}
          /\ ~redisUp => call.fresh = {}
      BY <1>1 DEF KeyInv, FreshIsGood
    <3>2. call'.fresh = call.fresh \ {k} /\ call'.of = call.of
      BY <1>8, <2>2
    <3> QED
      BY <1>2, <1>3, <3>1, <3>2 DEF FreshIsGood
  <2> QED
    BY <1>7, <2>1, <2>2
<1>12. SearchIsFair'
  <2>1. call'.at # "scan" /\ call'.at # "gaveup"
    BY <1>7, <1>8
  <2>2. ASSUME call'.at = "key", call'.key # NoKey
        PROVE  call'.key \in invalid' \/ call'.fresh = {}
    <3>1. call'.key = k /\ verdict = "denied"
      BY <1>7, <1>8, <2>2
    <3>2. CASE redisUp
      BY <1>3, <3>1, <3>2
    <3>3. CASE ~redisUp
      BY <1>7, <1>8, <3>3 DEF KeyInv, FreshIsGood
    <3> QED
      BY <3>2, <3>3
  <2> QED
    BY <2>1, <2>2 DEF SearchIsFair
<1> QED
  BY <1>9, <1>10, <1>11, <1>12 DEF KeyInv

LEMMA KeyInductive == KeyInv /\ [Next]_vars => KeyInv'
<1> SUFFICES ASSUME KeyInv, [Next]_vars PROVE KeyInv'
  OBVIOUS
<1>1. ASSUME NEW v \in Services, NEW n \in 1..MaxSymbols, NEW many \in BOOLEAN,
             FetchData(v, n, many)
      PROVE  KeyInv'
  <2> DEFINE good == IF redisUp THEN KeysOf(v) \ (limited \cup invalid) ELSE {}
  <2>1. /\ call' = [Idle EXCEPT !.at = "key", !.of = v, !.left = n, !.many = many,
                                !.fresh = good]
        /\ UNCHANGED <<redisUp, pools>>
    BY <1>1 DEF FetchData
  <2>2. good \in SUBSET AllKeys /\ n \in Nat
    BY KeyPoolAssumption DEF AllKeys
  <2>3. /\ good \subseteq KeysOf(v) /\ good \cap (limited \cup invalid) = {}
        /\ ~redisUp => good = {}
    OBVIOUS
  <2> HIDE DEF good
  <2>4. /\ call' \in Calls /\ call'.at = "key" /\ call'.of = v /\ call'.left = n
        /\ call'.fresh = good /\ call'.key = NoKey
    BY <2>1, <2>2 DEF Idle, Calls, NoKey
  <2> QED
    BY <2>1, <2>3, <2>4 DEF KeyInv, PoolsTyped, CallTyped, FreshIsGood, SearchIsFair, pools
<1>2. CASE CallEnds
  <2>1. call' = NextSymbol /\ call.at = "call" /\ UNCHANGED <<redisUp, pools>>
    BY <1>2 DEF CallEnds
  <2> QED
    BY <2>1, NextSymbolTyped, IdleTyped
       DEF KeyInv, PoolsTyped, FreshIsGood, SearchIsFair, pools
<1>3. CASE GiveUp
  BY <1>3, IdleTyped DEF GiveUp, KeyInv, PoolsTyped, FreshIsGood, SearchIsFair, pools
<1>4. CASE UNCHANGED vars
  BY <1>4 DEF vars, pools, KeyInv, PoolsTyped, CallTyped, FreshIsGood, SearchIsFair, Pool, KeyAt
<1> QED
  BY <1>1, <1>2, <1>3, <1>4, OthersKeep, CountKeeps, ScanKeeps, FallbackKeeps, RefusedKeeps
     DEF Next, Working

(* Every mark, and every key that is used, is one of the service.          *)
THEOREM TypeCorrect == Spec => []TypeOK
<1>1. KeyInv => TypeOK
  BY DEF KeyInv, PoolsTyped, CallTyped, Calls, TypeOK, AllKeys
<1> QED
  BY <1>1, KeyInit, KeyInductive, PTL DEF Spec

(* A caller that gives up for want of a key has missed no good one, with   *)
(* any number of keys and whatever the other callers do meanwhile.         *)
THEOREM NoneMissed == Spec => []NoKeyMissed
<1>1. KeyInv => NoKeyMissed
  BY DEF KeyInv, SearchIsFair, NoKeyMissed
<1> QED
  BY <1>1, KeyInit, KeyInductive, PTL DEF Spec
=============================================================================
