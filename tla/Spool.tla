------------------------------- MODULE Spool -------------------------------
(***************************************************************************)
(* What the article store of internal/databases promises to its readers,   *)
(* the peer feeds first of all: a table of messages, each numbered once,   *)
(* with numbers that only grow, whose bodies may be withdrawn and then     *)
(* never come back.  Store.tla implements this specification; Feed.tla     *)
(* reads it.                                                               *)
(***************************************************************************)
EXTENDS Naturals

CONSTANTS
    Msg,    \* the messages that may arrive, named by their Message-Id
    MaxId   \* bound: the largest article number

ASSUME MaxIdAssumption == MaxId \in Nat

VARIABLES
    num,       \* num[m]: the article number of m, 0 while m has no row
    readable   \* the messages whose article file can be read

spoolVars == <<num, readable>>

(* Numbers are positive: AUTOINCREMENT starts above the seeded id. *)
Number == 1 .. MaxId

SpoolTypeOK ==
    /\ num \in [Msg -> {0} \union Number]
    /\ readable \in SUBSET Msg

SpoolInit ==
    /\ num = [m \in Msg |-> 0]
    /\ readable = {}

(* A new message gets a number above every number given so far.  Its body
   may be missing from the start: the row is written before the file. *)
Accept(m) ==
    /\ num[m] = 0
    /\ \E n \in Number :
          /\ \A k \in Msg : num[k] < n
          /\ num' = [num EXCEPT ![m] = n]
    /\ readable' \in {readable, readable \union {m}}

(* A cancel takes the body away; the row and its number stay. *)
Withdraw(m) ==
    /\ m \in readable
    /\ readable' = readable \ {m}
    /\ UNCHANGED num

SpoolNext == \E m \in Msg : Accept(m) \/ Withdraw(m)

SpoolSpec == SpoolInit /\ [][SpoolNext]_spoolVars

(* The rows a feed that has got to article number c has still to look at. *)
After(c) == {m \in Msg : num[m] > c}

(* Variant: without ORDER BY. *)
IsAnyAfter(m, c) == m \in After(c)

(* getNextArticle: SELECT id ... WHERE id > ? ORDER BY id LIMIT 1. *)
IsNext(m, c) == m \in After(c) /\ \A k \in After(c) : num[m] <= num[k]
=============================================================================
