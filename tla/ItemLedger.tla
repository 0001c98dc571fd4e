----------------------------- MODULE ItemLedger -----------------------------
(***************************************************************************)
(* What the collection pipeline promises of the items of a source: they    *)
(* are announced one by one and enter the table by whole batches; no row   *)
(* is ever taken back; the url and date of a dated item are in the table   *)
(* once; and nothing is announced or stored a second time but an article   *)
(* that has been excused by name.  Collection implements it with fetches,  *)
(* retries, marks in Redis, a processor chain, crashes and rollbacks.      *)
(***************************************************************************)
EXTENDS Naturals

CONSTANTS
  Articles,   (* what the source may serve                                 *)
  KeyOf,      (* url and date of the dated articles                        *)
  Undated,    (* articles without a date                                   *)
  Many        (* the count that stands for every number above one          *)

VARIABLES
  rows,       (* items of each article in the table: 0, 1 or Many          *)
  told,       (* announcements of each article: 0, 1 or Many               *)
  excused     (* articles that may come again                              *)

vars == <<rows, told, excused>>

Init ==
  /\ rows = [a \in Articles |-> 0] /\ told = [a \in Articles |-> 0]
  /\ excused = {}

Excuse ==
  /\ excused \subseteq excused' /\ UNCHANGED <<rows, told>>

Announce(a) ==
  /\ told[a] = 0 \/ a \in excused
  /\ told' = [told EXCEPT ![a] = IF @ = 0 THEN 1 ELSE Many]
  /\ UNCHANGED <<rows, excused>>

(* Dated articles of one key: none in the table, one in the batch.         *)
Unique(batch) ==
  \A a \in batch \ Undated, b \in Articles \ Undated :
    KeyOf[a] = KeyOf[b] => rows[b] = 0 /\ (b \in batch => a = b)

Store(batch) ==
  /\ Unique(batch)
  /\ \A a \in batch \ excused : rows[a] = 0
  /\ DOMAIN rows' = Articles
  /\ \A a \in Articles \ batch : rows'[a] = rows[a]
  /\ \A a \in batch : rows'[a] \in {1, Many} /\ rows'[a] >= rows[a]
  /\ \A a \in batch : a \notin Undated \/ a \notin excused => rows'[a] = 1
  /\ UNCHANGED <<told, excused>>

Next ==
  \/ Excuse
  \/ \E a \in Articles : Announce(a)
  \/ \E batch \in SUBSET Articles : Store(batch)

Spec == Init /\ [][Next]_vars
=============================================================================
