-------------------------- MODULE Collection_proofs --------------------------
(***************************************************************************)
(* Proofs about Collection, for any articles, feeds, filter and number of  *)
(* retries.                                                                *)
(***************************************************************************)
EXTENDS Collection, TLAPS

-----------------------------------------------------------------------------
(* Sequences as sets of articles.                                          *)

(* What taking the first entry leaves: everything else, nothing new.       *)
LEMMA ElemsTail ==
  ASSUME NEW S, NEW s \in Seq(S), s # <<>>
  PROVE  /\ Tail(s) \in Seq(S) /\ Head(s) \in Elems(s)
         /\ Elems(Tail(s)) \subseteq Elems(s)
         /\ Elems(s) \subseteq Elems(Tail(s)) \cup {Head(s)}
<1>1. Len(s) \in Nat /\ Len(s) > 0 /\ DOMAIN s = 1..Len(s)
  OBVIOUS
<1>2. /\ Tail(s) \in Seq(S) /\ DOMAIN Tail(s) = 1..(Len(s) - 1)
      /\ \A i \in 1..(Len(s) - 1) : Tail(s)[i] = s[i + 1]
  BY <1>1
<1>3. \A i \in 1..Len(s) : i = 1 \/ (i - 1 \in 1..(Len(s) - 1) /\ s[i] = Tail(s)[i - 1])
  BY <1>1, <1>2
<1>4. \A i \in 1..(Len(s) - 1) : i + 1 \in 1..Len(s)
  BY <1>1
<1>5. Head(s) = s[1] /\ 1 \in DOMAIN s
  BY <1>1
<1>6. ASSUME NEW i \in DOMAIN Tail(s) PROVE Tail(s)[i] \in Elems(s)
  BY <1>1, <1>2, <1>4 DEF Elems
<1>7. ASSUME NEW i \in DOMAIN s PROVE s[i] \in Elems(Tail(s)) \cup {Head(s)}
  <2>1. CASE i = 1
    BY <1>5, <2>1
  <2>2. CASE i - 1 \in DOMAIN Tail(s) /\ s[i] = Tail(s)[i - 1]
    BY <2>2 DEF Elems
  <2>3. QED
    BY <1>1, <1>2, <1>3, <1>7, <2>1, <2>2
<1>8. QED
  <2>1. Elems(Tail(s)) \subseteq Elems(s)
    BY <1>6 DEF Elems
  <2>2. Elems(s) \subseteq Elems(Tail(s)) \cup {Head(s)}
    BY <1>7 DEF Elems
  <2>3. Head(s) \in Elems(s)
    BY <1>5 DEF Elems
  <2>4. QED
    BY <1>2, <2>1, <2>2, <2>3

(* What appending an article adds.                                         *)
LEMMA ElemsAppend ==
  ASSUME NEW S, NEW s \in Seq(S), NEW a \in S
  PROVE  Append(s, a) \in Seq(S) /\ Elems(Append(s, a)) = Elems(s) \cup {a}
<1>1. /\ Append(s, a) \in Seq(S) /\ DOMAIN Append(s, a) = 1..(Len(s) + 1)
      /\ Len(s) \in Nat /\ DOMAIN s = 1..Len(s)
      /\ Append(s, a)[Len(s) + 1] = a
      /\ \A i \in 1..Len(s) : Append(s, a)[i] = s[i]
  OBVIOUS
<1>2. 1..(Len(s) + 1) = 1..Len(s) \cup {Len(s) + 1}
  BY <1>1
<1>3. QED
  BY <1>1, <1>2 DEF Elems

(* Articles of a sequence, and of none.                                    *)
LEMMA ElemsOf ==
  ASSUME NEW S, NEW s \in Seq(S)
  PROVE  Elems(s) \subseteq S /\ Elems(<<>>) = {}
BY DEF Elems

LEMMA MoreTyped == \A n \in 0..Many : More(n) \in 1..Many /\ (n = 0 => More(n) = 1)
BY DEF More, Many

-----------------------------------------------------------------------------
(* Types.                                                                  *)

(* One passage of the chain keeps the types of what it moves.              *)
LEMMA PassOnTyped ==
  ASSUME TypeOK, todo # <<>>, PassOn
  PROVE  /\ todo' \in Seq(Articles) /\ passed' \in Seq(Kept) /\ stage' = "processing"
         /\ Head(todo) \in Articles
<1>1. todo' \in Seq(Articles) /\ Head(todo) \in Articles
  BY ElemsTail, ElemsOf DEF TypeOK, PassOn
<1>2. passed' \in Seq(Kept)
  <2>1. CASE Head(todo) \in Kept
    BY <2>1, ElemsAppend DEF TypeOK, PassOn
  <2>2. CASE Head(todo) \notin Kept
    BY <2>2 DEF TypeOK, PassOn
  <2>3. QED
    BY <2>1, <2>2
<1>3. QED
  BY <1>1, <1>2 DEF PassOn

LEMMA TypeStep == TypeOK /\ [Next]_vars => TypeOK'
<1> SUFFICES ASSUME TypeOK, [Next]_vars PROVE TypeOK'
  OBVIOUS
<1> USE CollectionAssumption DEF TypeOK
<1>1. CASE FeedChanges
  BY <1>1 DEF FeedChanges, runVars, outVars, history
<1>2. CASE Fetch
  <2>1. CASE RunStart
    BY <2>1 DEF RunStart, outVars, history
  <2>2. CASE FetchOk
    BY <2>2 DEF FetchOk, outVars, history
  <2>3. CASE FetchFails
    BY <2>3 DEF FetchFails, outVars, history
  <2>4. CASE ParseFails
    BY <2>4 DEF ParseFails, outVars, history
  <2>5. QED
    BY <1>2, <2>1, <2>2, <2>3, <2>4 DEF Fetch
<1>3. CASE DedupCheck
  <2>1. CASE stage' = "marking" /\ UNCHANGED <<todo, passed, lapsed>>
    BY <1>3, <2>1 DEF DedupCheck, outVars
  <2>2. CASE todo' = Tail(todo) /\ UNCHANGED <<stage, passed, lapsed>>
    BY <1>3, <2>2, ElemsTail DEF DedupCheck, outVars
  <2>3. CASE PassOn /\ lapsed' = lapsed \cup {Head(todo)}
    BY <1>3, <2>3, PassOnTyped DEF DedupCheck, outVars
  <2>4. QED
    BY <1>3, <2>1, <2>2, <2>3 DEF DedupCheck
<1>4. CASE DedupMark
  <2>1. todo # <<>> /\ PassOn
    BY <1>4 DEF DedupMark
  <2>2. Head(todo) \in Articles
    BY <2>1, PassOnTyped
  <2>3. marks' \subseteq Articles /\ lapsed' \subseteq Articles
    BY <1>4, <2>2 DEF DedupMark
  <2>4. QED
    BY <1>4, <2>1, <2>3, PassOnTyped DEF DedupMark, outVars
<1>5. CASE StoreNext
  <2>1. Head(passed) \in Kept /\ passed' \in Seq(Kept)
    BY <1>5, ElemsTail, ElemsOf DEF StoreNext
  <2>2. session' \in Seq(Kept)
    BY <1>5, <2>1, ElemsAppend DEF StoreNext
  <2>3. told' \in [Articles -> 0..Many]
    <3>1. told[Head(passed)] \in 0..Many
      BY <2>1
    <3>2. More(told[Head(passed)]) \in 0..Many
      BY <3>1, MoreTyped DEF Many
    <3>3. QED
      BY <1>5, <2>1, <3>2 DEF StoreNext
  <2>4. QED
    BY <1>5, <2>1, <2>2, <2>3 DEF StoreNext, Chained, history
<1>6. CASE CommitOk
  <2>1. \A a \in Articles : Stored(session, a) \in 0..Many
    BY MoreTyped DEF Stored, Many
  <2>2. QED
    BY <1>6, <2>1 DEF CommitOk, EndRun, history
<1>7. CASE CommitFails
  BY <1>7, ElemsOf DEF CommitFails, EndRun, outVars
<1>8. CASE Crash
  <2>1. (IF stage = "marking" THEN {Head(todo)} ELSE {}) \subseteq Articles
    BY ElemsTail, ElemsOf
  <2>2. marks' \subseteq Articles /\ hit' \subseteq Articles
    BY <1>8, <2>1, ElemsOf DEF Crash
  <2>3. QED
    BY <1>8, <2>2 DEF Crash, EndRun, outVars
<1>9. CASE MarksLapse
  BY <1>9 DEF MarksLapse, runVars, outVars
<1>10. CASE RedisFails \/ RedisRecovers
  BY <1>10 DEF RedisFails, RedisRecovers, runVars, outVars, history
<1>11. CASE UNCHANGED vars
  BY <1>11 DEF vars, runVars, outVars, history
<1>12. QED
  BY <1>1, <1>2, <1>3, <1>4, <1>5, <1>6, <1>7, <1>8, <1>9, <1>10, <1>11 DEF Next, Process

(* The state of a run keeps its types (manager.py 361-514).                *)
THEOREM TypeCorrect == Spec => []TypeOK
<1>1. Init => TypeOK
  BY CollectionAssumption DEF Init, TypeOK, Many
<1>2. QED
  BY <1>1, TypeStep, PTL DEF Spec

-----------------------------------------------------------------------------
(* Rows.                                                                   *)

(* What a commit does to the count of one article.                         *)
LEMMA StoredCases ==
  ASSUME TypeOK, NEW a \in Articles
  PROVE  /\ a \notin Elems(session) => Stored(session, a) = rows[a]
         /\ a \in Elems(session) => Stored(session, a) > 0
         /\ a \in Elems(session) /\ rows[a] = 0
            /\ (\A i, j \in DOMAIN session : session[i] = a /\ session[j] = a => i = j)
            => Stored(session, a) = 1
<1> DEFINE places == {i \in DOMAIN session : session[i] = a}
<1>1. places = {} <=> a \notin Elems(session)
  BY DEF Elems
<1>2. rows[a] \in 0..Many
  BY DEF TypeOK
<1>3. More(rows[a]) > 0 /\ (rows[a] = 0 => More(rows[a]) = 1) /\ Many > 0
  BY <1>2, MoreTyped DEF Many
<1>4. QED
  BY <1>1, <1>3 DEF Stored

(* An accepted batch has no key twice, and none that is in the table.      *)
LEMMA AcceptedBatch ==
  ASSUME TypeOK, ~Refused(session), NEW a \in Articles, NEW b \in Articles,
         Dated(a), Dated(b), KeyOf[a] = KeyOf[b], a \in Elems(session)
  PROVE  rows[b] = 0 /\ (b \in Elems(session) => a = b)
         /\ (\A i, j \in DOMAIN session : session[i] = a /\ session[j] = a => i = j)
<1>1. rows[b] \in 0..Many /\ ~(rows[b] > 0)
  BY DEF Refused, TypeOK
<1>2. rows[b] = 0
  BY <1>1 DEF Many
<1>3. \A i, j \in DOMAIN session : session[i] = a /\ session[j] = b => i = j
  BY DEF Refused
<1>4. \A i, j \in DOMAIN session : session[i] = a /\ session[j] = a => i = j
  BY DEF Refused
<1>5. b \in Elems(session) => a = b
  BY <1>3 DEF Elems
<1>6. QED
  BY <1>2, <1>4, <1>5

(* Only a commit changes the table.                                        *)
LEMMA RowsKept ==
  ASSUME [Next]_vars, ~CommitOk
  PROVE  rows' = rows
BY DEF Next, Fetch, Process, FeedChanges, RunStart, FetchOk, FetchFails, ParseFails, DedupCheck,
       DedupMark, StoreNext, CommitFails, Crash, MarksLapse, RedisFails, RedisRecovers, outVars, vars

LEMMA StoredOnceStep == TypeOK /\ StoredOnce /\ [Next]_vars => StoredOnce'
<1> SUFFICES ASSUME TypeOK, StoredOnce, [Next]_vars PROVE StoredOnce'
  OBVIOUS
<1>1. CASE ~CommitOk
  BY <1>1, RowsKept DEF StoredOnce
<1>2. CASE CommitOk
  <2> SUFFICES ASSUME NEW a \in Articles, NEW b \in Articles, Dated(a), Dated(b),
                      KeyOf[a] = KeyOf[b], rows'[a] > 0, rows'[b] > 0
               PROVE  a = b /\ rows'[a] = 1
    BY DEF StoredOnce
  <2>1. ~Refused(session) /\ rows'[a] = Stored(session, a) /\ rows'[b] = Stored(session, b)
    BY <1>2 DEF CommitOk
  <2>2. CASE a \in Elems(session)
    <3>1. rows[b] = 0 /\ rows[a] = 0 /\ (b \in Elems(session) => a = b)
          /\ (\A i, j \in DOMAIN session : session[i] = a /\ session[j] = a => i = j)
      BY <2>1, <2>2, AcceptedBatch
    <3>2. b \in Elems(session)
      BY <2>1, <3>1, StoredCases
    <3>3. QED
      BY <2>1, <2>2, <3>1, <3>2, StoredCases
  <2>3. CASE b \in Elems(session)
    <3>1. rows[a] = 0 /\ rows[b] = 0 /\ (a \in Elems(session) => a = b)
          /\ (\A i, j \in DOMAIN session : session[i] = b /\ session[j] = b => i = j)
      BY <2>1, <2>3, AcceptedBatch
    <3>2. a \in Elems(session)
      BY <2>1, <3>1, StoredCases
    <3>3. QED
      BY <2>1, <2>3, <3>1, <3>2, StoredCases
  <2>4. CASE a \notin Elems(session) /\ b \notin Elems(session)
    BY <2>1, <2>4, StoredCases DEF StoredOnce
  <2>5. QED
    BY <2>2, <2>3, <2>4
<1>3. QED
  BY <1>1, <1>2

(* No two rows of a source share url and date, however often the marks are *)
(* lost (models/item.py 56-63, manager.py 501).                            *)
THEOREM RowsUnique == Spec => []StoredOnce
<1>1. Init => StoredOnce
  BY DEF Init, StoredOnce
<1>2. QED
  BY <1>1, StoredOnceStep, TypeCorrect, PTL DEF Spec

-----------------------------------------------------------------------------
(* Losses.                                                                 *)

(* A batch exists during a run only.                                       *)
BatchOfRun == stage \in {"idle", "fetching"} => passed = <<>> /\ session = <<>>

(* At every step a marked article is stored, lost by name, or in the batch.*)
Accounted ==
  \A a \in marks \cap Kept :
    rows[a] > 0 \/ a \in hit \/ a \in Elems(passed) \/ a \in Elems(session)

LEMMA AccountedStep ==
  TypeOK /\ BatchOfRun /\ Accounted /\ [Next]_vars => BatchOfRun' /\ Accounted'
<1> SUFFICES ASSUME TypeOK, BatchOfRun, Accounted, [Next]_vars PROVE BatchOfRun' /\ Accounted'
  OBVIOUS
<1>1. Elems(<<>>) = {}
  BY DEF Elems
<1>2. CASE FeedChanges
  BY <1>2 DEF FeedChanges, runVars, outVars, history, BatchOfRun, Accounted
<1>3. CASE Fetch
  BY <1>3 DEF Fetch, RunStart, FetchOk, FetchFails, ParseFails, outVars, history, BatchOfRun, Accounted
<1>4. ASSUME todo # <<>>, PassOn PROVE Elems(passed) \subseteq Elems(passed')
                                      /\ (Head(todo) \in Kept => Head(todo) \in Elems(passed'))
  BY <1>4, ElemsAppend DEF PassOn, TypeOK
<1>5. CASE DedupCheck
  <2>1. Elems(passed) \subseteq Elems(passed')
    BY <1>4, <1>5 DEF DedupCheck
  <2>2. UNCHANGED <<marks, rows, hit, session>> /\ stage' \in {"processing", "marking"}
    BY <1>5 DEF DedupCheck, PassOn, outVars
  <2>3. QED
    BY <2>1, <2>2 DEF BatchOfRun, Accounted
<1>6. CASE DedupMark
  <2>1. todo # <<>> /\ PassOn
    BY <1>6 DEF DedupMark, TypeOK
  <2>2. UNCHANGED <<rows, hit, session>> /\ marks' \subseteq marks \cup {Head(todo)} /\ stage' = "processing"
    BY <1>6 DEF DedupMark, PassOn, outVars
  <2>3. QED
    BY <1>4, <2>1, <2>2 DEF BatchOfRun, Accounted
<1>7. CASE StoreNext
  <2>1. Head(passed) \in Kept
    BY <1>7, ElemsTail, ElemsOf DEF StoreNext, TypeOK
  <2>2. Elems(passed) \subseteq Elems(passed') \cup {Head(passed)}
    BY <1>7, ElemsTail DEF StoreNext, TypeOK
  <2>3. Elems(session') = Elems(session) \cup {Head(passed)}
    BY <1>7, <2>1, ElemsAppend DEF StoreNext, TypeOK
  <2>4. UNCHANGED <<marks, rows, hit, stage>> /\ stage = "processing"
    BY <1>7 DEF StoreNext, Chained, history
  <2>5. QED
    BY <2>2, <2>3, <2>4 DEF BatchOfRun, Accounted
<1>8. CASE CommitOk
  <2>1. passed = <<>> /\ passed' = <<>> /\ session' = <<>> /\ UNCHANGED <<marks, hit>>
    BY <1>8 DEF CommitOk, EndRun, history
  <2>2. ASSUME NEW a \in Articles, rows[a] > 0 \/ a \in Elems(session) PROVE rows'[a] > 0
    BY <1>8, <2>2, StoredCases DEF CommitOk
  <2>3. Kept \subseteq Articles
    BY CollectionAssumption
  <2>4. QED
    BY <1>1, <2>1, <2>2, <2>3 DEF BatchOfRun, Accounted
<1>9. CASE CommitFails
  BY <1>1, <1>9 DEF CommitFails, EndRun, outVars, BatchOfRun, Accounted
<1>10. CASE Crash
  <2>1. PICK sent : /\ marks' \subseteq marks \cup sent
                    /\ hit' = hit \cup Elems(passed) \cup Elems(session) \cup sent
    BY <1>10 DEF Crash
  <2>2. rows' = rows /\ passed' = <<>> /\ session' = <<>>
    BY <1>10 DEF Crash, EndRun, outVars
  <2>3. QED
    BY <2>1, <2>2 DEF BatchOfRun, Accounted
<1>11. CASE MarksLapse
  BY <1>11 DEF MarksLapse, runVars, outVars, BatchOfRun, Accounted
<1>12. CASE RedisFails \/ RedisRecovers
  BY <1>12 DEF RedisFails, RedisRecovers, runVars, outVars, history, BatchOfRun, Accounted
<1>13. CASE UNCHANGED vars
  BY <1>13 DEF vars, runVars, outVars, history, BatchOfRun, Accounted
<1>14. QED
  BY <1>2, <1>3, <1>5, <1>6, <1>7, <1>8, <1>9, <1>10, <1>11, <1>12, <1>13 DEF Next, Process

(* No article is lost but with its batch (manager.py 445-514), for any     *)
(* feed and filter.                                                        *)
THEOREM LossesNamed == Spec => []LossesAreNamed
<1>1. Init => BatchOfRun /\ Accounted
  BY DEF Init, BatchOfRun, Accounted
<1>2. BatchOfRun /\ Accounted => LossesAreNamed
  BY DEF BatchOfRun, Accounted, LossesAreNamed, Elems
<1>3. QED
  BY <1>1, <1>2, AccountedStep, TypeCorrect, PTL DEF Spec

-----------------------------------------------------------------------------
(* Repeats.                                                                *)

Once(s, a) == \A i, j \in DOMAIN s : s[i] = a /\ s[j] = a => i = j

LEMMA OnceTail ==
  ASSUME NEW S, NEW s \in Seq(S), s # <<>>, NEW a, Once(s, a)
  PROVE  Once(Tail(s), a) /\ (Head(s) = a => a \notin Elems(Tail(s)))
<1>1. /\ DOMAIN Tail(s) = 1..(Len(s) - 1) /\ DOMAIN s = 1..Len(s) /\ Len(s) \in Nat /\ Len(s) > 0
      /\ \A i \in 1..(Len(s) - 1) : Tail(s)[i] = s[i + 1]
      /\ Head(s) = s[1]
  OBVIOUS
<1>2. \A i \in 1..(Len(s) - 1) : i + 1 \in 1..Len(s) /\ i + 1 # 1
  BY <1>1
<1>3. ASSUME NEW i \in DOMAIN Tail(s), NEW j \in DOMAIN Tail(s), Tail(s)[i] = a, Tail(s)[j] = a
      PROVE  i = j
  <2>1. i + 1 = j + 1
    BY <1>1, <1>2, <1>3 DEF Once
  <2>2. QED
    BY <1>1, <2>1
<1>4. ASSUME Head(s) = a, NEW i \in DOMAIN Tail(s), Tail(s)[i] = a PROVE FALSE
  BY <1>1, <1>2, <1>4 DEF Once
<1>5. QED
  BY <1>3, <1>4 DEF Once, Elems

LEMMA OnceAppend ==
  ASSUME NEW S, NEW s \in Seq(S), NEW b \in S, NEW a, Once(s, a), b = a => a \notin Elems(s)
  PROVE  Once(Append(s, b), a)
<1>1. /\ DOMAIN Append(s, b) = 1..(Len(s) + 1) /\ DOMAIN s = 1..Len(s) /\ Len(s) \in Nat
      /\ Append(s, b)[Len(s) + 1] = b
      /\ \A i \in 1..Len(s) : Append(s, b)[i] = s[i]
  OBVIOUS
<1>2. \A i \in 1..(Len(s) + 1) : i \in 1..Len(s) \/ i = Len(s) + 1
  BY <1>1
<1>3. QED
  BY <1>1, <1>2 DEF Once, Elems

(* An article whose mark never lapsed is in one place only: not yet seen,  *)
(* in the batch once, or past it once.                                     *)
FirstTime(a) ==
  /\ a \notin marks => /\ told[a] = 0 /\ rows[a] = 0
                       /\ a \notin Elems(passed) /\ a \notin Elems(session)
  /\ a \in Elems(passed) => told[a] = 0 /\ a \notin Elems(session) /\ Once(passed, a)
  /\ a \in Elems(session) => Once(session, a)
  /\ a \in Elems(passed) \cup Elems(session) => rows[a] = 0
  /\ told[a] # Many /\ rows[a] # Many

Unlapsed ==
  /\ stage = "marking" => Head(todo) \notin marks
  /\ \A a \in Articles \ lapsed : FirstTime(a)

LEMMA UnlapsedStep == TypeOK /\ Unlapsed /\ [Next]_vars => Unlapsed'
<1> SUFFICES ASSUME TypeOK, Unlapsed, [Next]_vars PROVE Unlapsed'
  OBVIOUS
<1>1. Elems(<<>>) = {} /\ \A a : Once(<<>>, a)
  BY DEF Elems, Once
<1>2. CASE FeedChanges \/ RedisFails \/ RedisRecovers
  BY <1>2 DEF FeedChanges, RedisFails, RedisRecovers, runVars, outVars, history, Unlapsed, FirstTime
<1>3. CASE Fetch
  BY <1>3 DEF Fetch, RunStart, FetchOk, FetchFails, ParseFails, outVars, history, Unlapsed, FirstTime
<1>4. ASSUME todo # <<>>, PassOn, Head(todo) \notin marks \/ Head(todo) \in lapsed',
             lapsed \subseteq lapsed', UNCHANGED <<rows, told, session>>,
             marks \subseteq marks', Head(todo) \in marks' \cup lapsed',
             NEW a \in Articles \ lapsed'
      PROVE  FirstTime(a)'
  <2>1. FirstTime(a)
    BY <1>4 DEF Unlapsed
  <2>2. CASE Head(todo) = a /\ a \in Kept
    <3>1. a \notin marks /\ a \in marks'
      BY <1>4, <2>2
    <3>2. told[a] = 0 /\ rows[a] = 0 /\ a \notin Elems(passed) /\ a \notin Elems(session)
      BY <2>1, <3>1 DEF FirstTime
    <3>3. passed' = Append(passed, a) /\ passed \in Seq(Kept)
      BY <1>4, <2>2 DEF PassOn, TypeOK
    <3>4. Once(passed, a)
      BY <3>2 DEF Once, Elems
    <3>5. Once(passed', a)
      BY <2>2, <3>2, <3>3, <3>4, OnceAppend
    <3>6. QED
      BY <1>4, <3>1, <3>2, <3>5 DEF FirstTime, Many
  <2>3. CASE ~(Head(todo) = a /\ a \in Kept)
    <3>1. a \in Elems(passed') <=> a \in Elems(passed)
      BY <1>4, <2>3, ElemsAppend DEF PassOn, TypeOK
    <3>2. Once(passed, a) => Once(passed', a)
      <4>1. CASE Head(todo) \in Kept
        BY <1>4, <2>3, <4>1, OnceAppend DEF PassOn, TypeOK
      <4>2. CASE Head(todo) \notin Kept
        BY <1>4, <4>2 DEF PassOn
      <4>3. QED
        BY <4>1, <4>2
    <3>3. QED
      BY <1>4, <2>1, <3>1, <3>2 DEF FirstTime
  <2>4. QED
    BY <2>2, <2>3
<1>5. CASE DedupCheck
  <2>1. CASE stage' = "marking" /\ Head(todo) \notin marks /\ UNCHANGED <<todo, passed, lapsed>>
    BY <1>5, <2>1 DEF DedupCheck, outVars, Unlapsed, FirstTime
  <2>2. CASE todo' = Tail(todo) /\ UNCHANGED <<stage, passed, lapsed>>
    BY <1>5, <2>2 DEF DedupCheck, outVars, Unlapsed, FirstTime
  <2>3. CASE PassOn /\ lapsed' = lapsed \cup {Head(todo)}
    <3>1. todo # <<>> /\ UNCHANGED <<marks, rows, told, session>> /\ stage' = "processing"
      BY <1>5, <2>3 DEF DedupCheck, PassOn, outVars
    <3>2. \A a \in Articles \ lapsed' : FirstTime(a)'
      BY <1>4, <2>3, <3>1
    <3>3. QED
      BY <3>1, <3>2 DEF Unlapsed
  <2>4. QED
    BY <1>5, <2>1, <2>2, <2>3 DEF DedupCheck
<1>6. CASE DedupMark
  <2>1. todo # <<>> /\ PassOn /\ Head(todo) \notin marks /\ stage' = "processing"
        /\ UNCHANGED <<rows, told, session>>
    BY <1>6 DEF DedupMark, PassOn, outVars, TypeOK, Unlapsed
  <2>2. marks \subseteq marks' /\ lapsed \subseteq lapsed' /\ Head(todo) \in marks' \cup lapsed'
    BY <1>6 DEF DedupMark
  <2>3. \A a \in Articles \ lapsed' : FirstTime(a)'
    BY <1>4, <2>1, <2>2
  <2>4. QED
    BY <2>1, <2>3 DEF Unlapsed
<1>7. CASE StoreNext
  <2> DEFINE h == Head(passed)
  <2>1. passed # <<>> /\ passed \in Seq(Kept) /\ session \in Seq(Kept) /\ h \in Kept /\ h \in Elems(passed)
    BY <1>7, ElemsTail, ElemsOf DEF StoreNext, TypeOK
  <2>2. /\ UNCHANGED <<marks, rows, stage, todo, lapsed>> /\ passed' = Tail(passed)
        /\ session' = Append(session, h) /\ stage = "processing"
    BY <1>7 DEF StoreNext, Chained, history
  <2>3. Elems(session') = Elems(session) \cup {h} /\ Elems(passed') \subseteq Elems(passed)
    BY <2>1, <2>2, ElemsAppend, ElemsTail
  <2>4. ASSUME NEW a \in Articles \ lapsed PROVE FirstTime(a)'
    <3>1. FirstTime(a)
      BY <2>4 DEF Unlapsed
    <3>2. Once(passed, a) => Once(passed', a) /\ (h = a => a \notin Elems(passed'))
      BY <2>1, <2>2, OnceTail
    <3>3. Once(session, a) /\ (h = a => a \notin Elems(session)) => Once(session', a)
      BY <2>1, <2>2, OnceAppend
    <3>4. a \notin Elems(session) => Once(session, a)
      BY DEF Once, Elems
    <3>5. CASE a = h
      <4>1. told[a] = 0 /\ rows[a] = 0 /\ a \notin Elems(session) /\ Once(passed, a) /\ a \in marks
        BY <2>1, <3>1, <3>5 DEF FirstTime
      <4>2. told'[a] # Many
        BY <1>7, <2>4, <3>5, <4>1, MoreTyped DEF StoreNext, TypeOK, Many
      <4>3. a \notin Elems(passed') /\ Once(session', a)
        BY <3>2, <3>3, <3>4, <3>5, <4>1
      <4>4. QED
        BY <2>2, <4>1, <4>2, <4>3 DEF FirstTime, Many
    <3>6. CASE a # h
      <4>1. told'[a] = told[a]
        BY <1>7, <2>4, <3>6 DEF StoreNext, TypeOK
      <4>2. QED
        BY <2>2, <2>3, <3>1, <3>2, <3>3, <3>4, <3>6, <4>1 DEF FirstTime
    <3>7. QED
      BY <3>5, <3>6
  <2>5. QED
    BY <2>2, <2>4 DEF Unlapsed
<1>8. CASE CommitOk
  <2>1. /\ UNCHANGED <<marks, told, passed, lapsed>> /\ session' = <<>> /\ passed = <<>> /\ stage' = "idle"
    BY <1>8 DEF CommitOk, EndRun, history
  <2>2. ASSUME NEW a \in Articles \ lapsed PROVE FirstTime(a)'
    <3>1. FirstTime(a) /\ rows'[a] = Stored(session, a)
      BY <1>8, <2>2 DEF Unlapsed, CommitOk
    <3>2. CASE a \in Elems(session)
      <4>1. rows[a] = 0 /\ Once(session, a) /\ a \in marks
        BY <3>1, <3>2 DEF FirstTime
      <4>2. rows'[a] = 1
        BY <2>2, <3>1, <3>2, <4>1, StoredCases DEF Once
      <4>3. QED
        BY <1>1, <2>1, <3>1, <4>1, <4>2 DEF FirstTime, Many
    <3>3. CASE a \notin Elems(session)
      <4>1. rows'[a] = rows[a]
        BY <2>2, <3>1, <3>3, StoredCases
      <4>2. QED
        BY <1>1, <2>1, <3>1, <4>1 DEF FirstTime
    <3>4. QED
      BY <3>2, <3>3
  <2>3. QED
    BY <2>1, <2>2 DEF Unlapsed
<1>9. CASE CommitFails
  BY <1>1, <1>9 DEF CommitFails, EndRun, outVars, Unlapsed, FirstTime
<1>10. CASE Crash
  <2>1. /\ marks \subseteq marks' /\ UNCHANGED <<rows, told, lapsed>>
        /\ passed' = <<>> /\ session' = <<>> /\ stage' = "idle"
    BY <1>10 DEF Crash, EndRun, outVars
  <2>2. QED
    BY <1>1, <2>1 DEF Unlapsed, FirstTime
<1>11. CASE MarksLapse
  <2>1. /\ marks' = {} /\ lapsed' = lapsed \cup marks
        /\ UNCHANGED <<rows, told, passed, session, stage, todo>>
    BY <1>11 DEF MarksLapse, runVars, outVars
  <2>2. QED
    BY <2>1 DEF Unlapsed, FirstTime
<1>12. CASE UNCHANGED vars
  BY <1>12 DEF vars, runVars, outVars, history, Unlapsed, FirstTime
<1>13. QED
  BY <1>2, <1>3, <1>5, <1>6, <1>7, <1>8, <1>9, <1>10, <1>11, <1>12 DEF Next, Process

(* An article is announced twice, or stored twice, only after its mark was *)
(* lost or could not be set (dedup.py 31-39): retries, crashes, lost       *)
(* batches and changing feeds repeat nothing.                              *)
THEOREM RepeatsExplained == Spec => []RepeatsNeedLapse
<1>1. Init => Unlapsed
  BY DEF Init, Unlapsed, FirstTime, Elems, Once, Many
<1>2. Unlapsed => RepeatsNeedLapse
  BY DEF Unlapsed, FirstTime, RepeatsNeedLapse
<1>3. QED
  BY <1>1, <1>2, UnlapsedStep, TypeCorrect, PTL DEF Spec

-----------------------------------------------------------------------------
(* The ledger.                                                             *)

(* What is neither a commit nor an announcement changes no count.          *)
LEMMA OthersExcuse ==
  ASSUME TypeOK, [Next]_vars, ~CommitOk, ~StoreNext
  PROVE  UNCHANGED <<rows, told>> /\ lapsed \subseteq lapsed'
BY DEF Next, Fetch, Process, FeedChanges, RunStart, FetchOk, FetchFails, ParseFails, DedupCheck,
       DedupMark, CommitFails, Crash, MarksLapse, RedisFails, RedisRecovers, outVars, history, vars

LEMMA StoreNextAnnounces ==
  ASSUME TypeOK, Unlapsed, StoreNext
  PROVE  (\E a \in Articles : Ledger!Announce(a)) \/ UNCHANGED <<rows, told, lapsed>>
<1> DEFINE a == Head(passed)
<1>1. a \in Kept /\ a \in Articles /\ a \in Elems(passed)
  BY ElemsTail, ElemsOf, CollectionAssumption DEF StoreNext, TypeOK
<1>2. told[a] = 0 \/ a \in lapsed
  BY <1>1 DEF Unlapsed, FirstTime
<1>3. told[a] \in 0..Many
  BY <1>1 DEF TypeOK
<1>4. More(told[a]) = IF told[a] = 0 THEN 1 ELSE Many
  BY <1>3 DEF More, Many
<1>5. CASE redisUp
  <2>1. told' = [told EXCEPT ![a] = More(@)] /\ UNCHANGED <<rows, lapsed>>
    BY <1>5 DEF StoreNext, history
  <2>2. told' = [told EXCEPT ![a] = IF @ = 0 THEN 1 ELSE Many]
    BY <1>4, <2>1
  <2>3. QED
    BY <1>1, <1>2, <2>1, <2>2 DEF Ledger!Announce
<1>6. CASE ~redisUp
  BY <1>6 DEF StoreNext, history
<1>7. QED
  BY <1>5, <1>6

LEMMA CommitStores ==
  ASSUME TypeOK, Unlapsed, CommitOk
  PROVE  Ledger!Store(Elems(session))
<1> DEFINE batch == Elems(session)
<1>1. /\ ~Refused(session) /\ rows' = [a \in Articles |-> Stored(session, a)]
      /\ UNCHANGED <<told, lapsed>>
  BY DEF CommitOk, history
<1>2. batch \subseteq Articles
  BY ElemsOf, CollectionAssumption DEF TypeOK
<1>3. Ledger!Unique(batch)
  BY <1>1, <1>2, AcceptedBatch DEF Ledger!Unique, Dated
<1>4. \A a \in batch \ lapsed : rows[a] = 0 /\ Once(session, a)
  BY <1>2 DEF Unlapsed, FirstTime
<1>5. \A a \in Articles \ batch : rows'[a] = rows[a]
  BY <1>1, StoredCases
<1>6. \A a \in batch : rows'[a] \in {1, Many} /\ rows'[a] >= rows[a]
  <2> SUFFICES ASSUME NEW a \in batch PROVE rows'[a] \in {1, Many} /\ rows'[a] >= rows[a]
    OBVIOUS
  <2>1. rows[a] \in 0..Many /\ rows'[a] = Stored(session, a)
    BY <1>1, <1>2 DEF TypeOK
  <2>2. Stored(session, a) \in {Many, More(rows[a])}
    BY DEF Stored, Elems
  <2>3. QED
    BY <2>1, <2>2 DEF More, Many
<1>7. \A a \in batch : a \notin Undated \/ a \notin lapsed => rows'[a] = 1
  <2> SUFFICES ASSUME NEW a \in batch, a \notin Undated \/ a \notin lapsed
               PROVE  rows'[a] = 1
    OBVIOUS
  <2>1. rows[a] = 0 /\ Once(session, a)
    <3>1. CASE a \notin Undated
      BY <1>1, <1>2, <3>1, AcceptedBatch DEF Dated, Once
    <3>2. CASE a \notin lapsed
      BY <1>4, <3>2
    <3>3. QED
      BY <3>1, <3>2
  <2>2. Stored(session, a) = 1
    BY <1>2, <2>1, StoredCases DEF Once
  <2>3. QED
    BY <1>1, <1>2, <2>2
<1>8. DOMAIN rows' = Articles
  BY <1>1
<1>9. QED
  BY <1>1, <1>3, <1>4, <1>5, <1>6, <1>7, <1>8 DEF Ledger!Store

(* A run of collections, with its fetches, retries, lost marks, crashes    *)
(* and rolled back batches, is a behaviour of the ledger (dedup.py 31-39,  *)
(* manager.py 445-501, models/item.py 56-63).                              *)
THEOREM LedgerKept == Spec => ImplementsLedger
<1>1. Init => Unlapsed /\ Ledger!Init
  BY DEF Init, Unlapsed, FirstTime, Elems, Once, Many, Ledger!Init
<1>2. TypeOK /\ Unlapsed /\ [Next]_vars => [Ledger!Next]_(Ledger!vars)
  <2> SUFFICES ASSUME TypeOK, Unlapsed, [Next]_vars PROVE [Ledger!Next]_(Ledger!vars)
    OBVIOUS
  <2>1. CASE CommitOk
    <3>1. Elems(session) \in SUBSET Articles
      BY ElemsOf, CollectionAssumption DEF TypeOK
    <3>2. QED
      BY <2>1, <3>1, CommitStores DEF Ledger!Next
  <2>2. CASE StoreNext
    BY <2>2, StoreNextAnnounces DEF Ledger!Next, Ledger!vars
  <2>3. CASE ~CommitOk /\ ~StoreNext
    BY <2>3, OthersExcuse DEF Ledger!Next, Ledger!Excuse
  <2>4. QED
    BY <2>1, <2>2, <2>3
<1>3. QED
  BY <1>1, <1>2, UnlapsedStep, TypeCorrect, PTL DEF Spec, ImplementsLedger, Ledger!Spec
=============================================================================
