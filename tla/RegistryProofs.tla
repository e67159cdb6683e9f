--------------------------- MODULE RegistryProofs ---------------------------
(***************************************************************************)
(* Proofs about Registry for any groups, cards, keys and bounds.           *)
(* RegistryInv says of every group how far its creation has come: it has   *)
(* been answered and is whole, or it has failed and will stay as it is, or *)
(* newGroup is at it, or a death has left it behind for openGroups.        *)
(***************************************************************************)
EXTENDS Registry, TLAPS

(* The maps are empty until openGroups has filled them, and newGroup runs
   only in a node that is up. *)
StartInv ==
    /\ pc.step \in {"down", "insert", "delete", "open"} => open = {}
    /\ pc.step # "up" => making = None /\ failed = {}

(* The group newGroup is at has its row and no other state. *)
MakingInv ==
    making # None => row[making] # 0 /\ key # None /\ making \notin open \union acked \union failed

AckedInv == \A g \in acked : row[g] # 0 /\ file[g] = Whole(g)
FailedInv == \A g \in failed : row[g] # 0 /\ file[g] < Whole(g)

(* RowsAreMapped, from openGroups on. *)
MappedInv ==
    pc.step \in {"key", "up"} => partial \/ Created \subseteq open \union failed \union {making}

(* The owner of the groups of the node's own is the stored key. *)
KeyInv ==
    /\ Up /\ key # None => me = key
    /\ ~misread => \A g \in mine : key # None /\ OwnerOf[g] = key

RegistryInv ==
    TypeOK /\ StartInv /\ MakingInv /\ AckedInv /\ FailedInv /\ MappedInv /\ KeyInv
-----------------------------------------------------------------------------
LEMMA WholeType ==
  ASSUME NEW g \in Group
  PROVE  Whole(g) \in Nat /\ Whole(g) >= Preamble /\ Len(Card[g]) \in Nat
BY RegistryAssumption DEF Whole, Preamble

LEMMA InitialRegistry == Init => RegistryInv
<1> SUFFICES ASSUME Init PROVE RegistryInv
  OBVIOUS
<1> USE DEF Init, Down
<1>1. /\ MaxId \in Nat /\ MaxClock \in Nat /\ MaxFaults \in Nat /\ MaxDeaths \in Nat
      /\ \A g \in Group : 0 <= Whole(g)
  BY RegistryAssumption, WholeType DEF Preamble
<1>2. TypeOK
  <2>1. seq \in [Db -> Nat] /\ \A d \in Db : seq[d] <= MaxClock \/ seq[d] <= MaxId
    BY <1>1
  <2>2. row \in [Group -> 0 .. MaxId] /\ Created = {}
    BY <1>1 DEF Created
  <2>3. file \in [Group -> Nat] /\ \A g \in Group : file[g] <= Whole(g)
    BY <1>1
  <2>4. pc \in [step : {"down", "insert", "delete", "open", "key", "up"}, db : Db]
    BY DEF Db
  <2>5. faults \in 0 .. MaxFaults /\ deaths \in 0 .. MaxDeaths
    BY <1>1
  <2>6. QED
    BY <2>1, <2>2, <2>3, <2>4, <2>5 DEF TypeOK
<1>3. StartInv /\ MakingInv /\ AckedInv /\ FailedInv /\ MappedInv /\ KeyInv
  BY DEF StartInv, MakingInv, AckedInv, FailedInv, MappedInv, KeyInv, Up, At
<1>4. QED
  BY <1>2, <1>3 DEF RegistryInv

(* What TypeOK says of the numbers. *)
NumbersOK ==
    /\ seedRow \subseteq Db /\ ids \subseteq 1 .. MaxId
    /\ seq \in [Db -> Nat] /\ \A d \in Db : seq[d] <= MaxClock \/ seq[d] <= MaxId

BoundsOK == torn \in BOOLEAN /\ faults \in 0 .. MaxFaults /\ deaths \in 0 .. MaxDeaths

(* A number that is taken from a sequence. *)
LEMMA NextNumber ==
  ASSUME TypeOK, NEW d \in Db, seq[d] < MaxId
  PROVE  /\ seq[d] + 1 \in 1 .. MaxId
         /\ seq' = [seq EXCEPT ![d] = @ + 1] =>
               seq' \in [Db -> Nat] /\ \A e \in Db : seq'[e] <= MaxClock \/ seq'[e] <= MaxId
<1>1. seq \in [Db -> Nat] /\ seq[d] \in Nat /\ MaxId \in Nat
  BY RegistryAssumption DEF TypeOK
<1>2. seq[d] + 1 \in 1 .. MaxId /\ seq[d] + 1 <= MaxId
  BY <1>1
<1>3. QED
  BY <1>1, <1>2 DEF TypeOK

LEMMA FaultOK ==
  ASSUME TypeOK, Fault
  PROVE  faults' \in 0 .. MaxFaults
BY RegistryAssumption DEF TypeOK, Fault

(* The death of the process: what is whole stays whole, and what was being
   made is in the groups table, for openGroups to find. *)
LEMMA DieKeeps ==
  ASSUME RegistryInv, Die, NumbersOK', BoundsOK', UNCHANGED <<row, file, key>>
  PROVE  RegistryInv'
<1> USE DEF RegistryInv, Die, Down
<1>1. TypeOK'
  BY DEF TypeOK, NumbersOK, BoundsOK, Db, Created
<1>2. StartInv' /\ MakingInv' /\ FailedInv' /\ MappedInv'
  BY DEF StartInv, MakingInv, FailedInv, MappedInv
<1>3. AckedInv'
  BY DEF AckedInv
<1>4. KeyInv'
  BY DEF KeyInv, Up, At
<1>5. QED
  BY <1>1, <1>2, <1>3, <1>4

(* The steps of a start before openGroups. *)
LEMMA SeedKeeps ==
  ASSUME RegistryInv, NumbersOK',
         pc.step \in {"down", "insert", "delete"},
         pc' \in [step : {"down", "insert", "delete", "open"}, db : Db],
         UNCHANGED <<row, file, key, memory, history, faults, deaths>>
  PROVE  RegistryInv'
<1> USE DEF RegistryInv, memory, history
<1>1. TypeOK'
  BY DEF TypeOK, NumbersOK, Created
<1>2. StartInv' /\ MakingInv' /\ FailedInv' /\ MappedInv'
  BY DEF StartInv, MakingInv, FailedInv, MappedInv
<1>3. AckedInv'
  BY DEF AckedInv
<1>4. KeyInv'
  BY DEF KeyInv, Up, At
<1>5. QED
  BY <1>1, <1>2, <1>3, <1>4
-----------------------------------------------------------------------------
(* Starting. *)

LEMMA StartKeeps ==
  ASSUME RegistryInv, Start \/ DeleteSeed \/ \E t \in 1 .. MaxClock : InsertSeed(t) \/ InsertFails(t)
  PROVE  RegistryInv'
<1> USE DEF disk, At, Goto, Db
<1>1. pc \in [step : {"down", "insert", "delete", "open", "key", "up"}, db : Db]
  BY DEF RegistryInv, TypeOK
<1>2. CASE Start
  BY <1>2, SeedKeeps DEF Start, RegistryInv, TypeOK, NumbersOK
<1>3. CASE DeleteSeed
  <2>1. NumbersOK'
    BY <1>3 DEF DeleteSeed, RegistryInv, TypeOK, NumbersOK
  <2>2. /\ pc.step = "delete" /\ pc' \in [step : {"insert", "open"}, db : Db]
        /\ UNCHANGED <<row, file, key, memory, history, faults, deaths>>
    BY <1>1, <1>3 DEF DeleteSeed, AfterSeed
  <2>3. QED
    BY <2>1, <2>2, SeedKeeps
<1>4. ASSUME NEW t \in 1 .. MaxClock, InsertSeed(t)
      PROVE  RegistryInv'
  <2>1. NumbersOK'
    <3>1. t \in Nat /\ t <= MaxClock
      BY RegistryAssumption
    <3>2. /\ seq \in [Db -> Nat] /\ \A d \in Db : seq[d] <= MaxClock \/ seq[d] <= MaxId
          /\ seedRow \subseteq Db /\ ids \subseteq 1 .. MaxId /\ pc.db \in Db
      BY <1>1 DEF RegistryInv, TypeOK
    <3>3. seedRow' \subseteq Db /\ ids' \subseteq 1 .. MaxId
      BY <1>4, <3>2 DEF InsertSeed
    <3>4. \A d \in Db : seq'[d] = IF d = pc.db /\ t > seq[d] THEN t ELSE seq[d]
      BY <1>4, <3>2 DEF InsertSeed
    <3>5. seq' \in [Db -> Nat]
      BY <1>4, <3>1, <3>2 DEF InsertSeed
    <3>6. \A d \in Db : seq'[d] <= MaxClock \/ seq'[d] <= MaxId
      BY <3>1, <3>2, <3>4
    <3>7. QED
      BY <3>3, <3>5, <3>6 DEF NumbersOK
  <2>2. /\ pc.step = "insert" /\ pc' \in [step : {"delete"}, db : Db]
        /\ UNCHANGED <<row, file, key, memory, history, faults, deaths>>
    BY <1>1, <1>4 DEF InsertSeed
  <2>3. QED
    BY <2>1, <2>2, SeedKeeps
<1>5. ASSUME NEW t \in 1 .. MaxClock, InsertFails(t)
      PROVE  RegistryInv'
  BY <1>5, SeedKeeps DEF InsertFails, RegistryInv, TypeOK, NumbersOK, Down
<1>6. QED
  BY <1>2, <1>3, <1>4, <1>5

LEMMA openGroupsKeeps ==
  ASSUME RegistryInv, openGroups
  PROVE  RegistryInv'
<1> USE DEF RegistryInv, openGroups, At, Goto, disk, history
<1>1. /\ open' \subseteq Created /\ partial' \in BOOLEAN /\ faults' \in 0 .. MaxFaults
      /\ partial' \/ open' = Created
  BY FaultOK DEF TypeOK
<1>2. pc.step = "open" /\ making = None /\ pc' \in [step : {"key"}, db : Db]
  BY DEF TypeOK, StartInv
<1>3. TypeOK'
  BY <1>1, <1>2 DEF TypeOK, Created
<1>4. StartInv' /\ MakingInv' /\ FailedInv' /\ AckedInv'
  BY <1>2 DEF StartInv, MakingInv, FailedInv, AckedInv
<1>5. MappedInv'
  BY <1>1 DEF MappedInv, Created
<1>6. KeyInv'
  BY <1>2 DEF KeyInv, Up
<1>7. QED
  BY <1>3, <1>4, <1>5, <1>6

(* A key that is stored is read, or read wrongly and replaced; or there was
   none, and no group of the node's own either. *)
LEMMA KeyKeeps ==
  ASSUME RegistryInv, ConfigGetDeviceKey \/ ConfigSetFails
  PROVE  RegistryInv'
<1> USE DEF RegistryInv, At, Goto
<1>1. /\ pc.step = "key" /\ pc' \in [step : {"up"}, db : Db] /\ making = None
      /\ UNCHANGED <<seedRow, seq, ids, row, file, open, making, failed, partial,
                     acked, mine, torn, deaths>>
  BY DEF ConfigGetDeviceKey, ConfigSetFails, disk, history, TypeOK, StartInv
<1>2. /\ me' \in Key /\ key' \in Key \union {None} /\ misread' \in BOOLEAN
      /\ faults' \in 0 .. MaxFaults
      /\ key' # None => me' = key'
      /\ \/ key' = key /\ misread' = misread
         \/ key = None /\ misread' = misread
         \/ misread'
  <2>1. CASE ConfigGetDeviceKey
    BY <2>1, FaultOK DEF ConfigGetDeviceKey, TypeOK
  <2>2. CASE ConfigSetFails
    BY <2>2, FaultOK DEF ConfigSetFails, TypeOK, disk, history
  <2>3. QED
    BY <2>1, <2>2
<1>3. TypeOK'
  BY <1>1, <1>2 DEF TypeOK, Created
<1>4. StartInv' /\ MakingInv' /\ FailedInv' /\ AckedInv'
  BY <1>1 DEF StartInv, MakingInv, FailedInv, AckedInv
<1>5. MappedInv'
  BY <1>1 DEF MappedInv, Created
<1>6. KeyInv'
  BY <1>1, <1>2 DEF KeyInv, Up
<1>7. QED
  BY <1>3, <1>4, <1>5, <1>6

LEMMA DeathKeeps ==
  ASSUME RegistryInv, Crash \/ PostWithoutKey \/ \E w \in Who, g \in Group : PostPanics(w, g)
  PROVE  RegistryInv'
<1>1. CASE Crash
  <2>1. NumbersOK' /\ BoundsOK'
    BY <1>1, RegistryAssumption DEF Crash, RegistryInv, TypeOK, NumbersOK, BoundsOK, At, disk
  <2>2. QED
    BY <1>1, <2>1, DieKeeps DEF Crash, disk
<1>2. CASE PostWithoutKey
  BY <1>2, DieKeeps DEF PostWithoutKey, RegistryInv, TypeOK, NumbersOK, BoundsOK, disk
<1>3. ASSUME NEW w \in Who, NEW g \in Group, PostPanics(w, g)
      PROVE  RegistryInv'
  <2>1. seq["articles"] < MaxId /\ "articles" \in Db
    BY <1>3 DEF PostPanics, Db
  <2>2. NumbersOK' /\ BoundsOK'
    BY <1>3, <2>1, NextNumber DEF PostPanics, RegistryInv, TypeOK, NumbersOK, BoundsOK
  <2>3. QED
    BY <1>3, <2>2, DieKeeps DEF PostPanics
<1>4. QED
  BY <1>1, <1>2, <1>3
-----------------------------------------------------------------------------
(* newGroup. *)

LEMMA NewGroupKeeps ==
  ASSUME RegistryInv, NEW g \in Group, NewGroup(g)
  PROVE  RegistryInv'
<1> USE DEF RegistryInv, NewGroup, Serving, Up, At, history
<1>1. "groups" \in Db /\ seq["groups"] < MaxId
  BY DEF Db
<1>2. seq["groups"] + 1 \in 1 .. MaxId /\ seq["groups"] + 1 # 0
  BY <1>1, NextNumber
<1>3. \A h \in Group : row'[h] = IF h = g THEN seq["groups"] + 1 ELSE row[h]
  BY DEF TypeOK
<1>4. Created' = Created \union {g} /\ g \notin Created
  BY <1>2, <1>3 DEF Created
<1>5. g \notin open \union acked \union failed /\ g # None
  BY <1>4, RegistryAssumption DEF TypeOK, AckedInv, FailedInv, Created
<1>6. TypeOK'
  <2>1. row' \in [Group -> 0 .. MaxId]
    BY <1>2, RegistryAssumption DEF TypeOK
  <2>2. seq' \in [Db -> Nat] /\ \A e \in Db : seq'[e] <= MaxClock \/ seq'[e] <= MaxId
    BY <1>1, NextNumber
  <2>3. QED
    BY <1>4, <2>1, <2>2 DEF TypeOK
<1>7. StartInv' /\ MakingInv'
  BY <1>2, <1>3, <1>5 DEF StartInv, MakingInv
<1>8. AckedInv' /\ FailedInv'
  BY <1>2, <1>3 DEF AckedInv, FailedInv, TypeOK
<1>9. MappedInv'
  <2>1. None \notin Group /\ Created \subseteq Group
    BY RegistryAssumption DEF Created
  <2>2. partial \/ Created \subseteq open \union failed
    BY <2>1 DEF MappedInv
  <2>3. QED
    BY <1>4, <2>2 DEF MappedInv
<1>10. KeyInv'
  BY DEF KeyInv
<1>11. QED
  BY <1>6, <1>7, <1>8, <1>9, <1>10

LEMMA StatementKeeps ==
  ASSUME RegistryInv, Statement
  PROVE  RegistryInv'
<1> USE DEF RegistryInv, Statement, memory, history
<1>1. making \in Group /\ making \notin acked \union failed
  BY DEF TypeOK, MakingInv
<1>2. file[making] + 1 <= Whole(making) /\ file[making] + 1 \in Nat
  BY <1>1, WholeType DEF TypeOK
<1>3. \A h \in Group : file'[h] = IF h = making THEN file[making] + 1 ELSE file[h]
  BY DEF TypeOK
<1>4. TypeOK'
  <2>1. file' \in [Group -> Nat] /\ \A h \in Group : file'[h] <= Whole(h)
    BY <1>1, <1>2, <1>3 DEF TypeOK
  <2>2. QED
    BY <2>1 DEF TypeOK, Created
<1>5. StartInv' /\ MakingInv' /\ MappedInv'
  BY DEF StartInv, MakingInv, MappedInv, Created
<1>6. AckedInv' /\ FailedInv'
  BY <1>1, <1>3 DEF AckedInv, FailedInv, TypeOK
<1>7. KeyInv'
  BY DEF KeyInv, Up, At
<1>8. QED
  BY <1>4, <1>5, <1>6, <1>7

LEMMA StatementFailsKeeps ==
  ASSUME RegistryInv, StatementFails
  PROVE  RegistryInv'
<1> USE DEF RegistryInv, StatementFails, disk, history
<1>1. /\ making \in Group /\ making \notin acked /\ row[making] # 0
      /\ file[making] < Whole(making) /\ Up
  BY DEF TypeOK, MakingInv, StartInv, Up, At
<1>2. TypeOK'
  BY <1>1, FaultOK DEF TypeOK, Created
<1>3. StartInv' /\ MakingInv'
  BY <1>1 DEF StartInv, MakingInv, Up, At
<1>4. AckedInv' /\ FailedInv'
  BY <1>1 DEF AckedInv, FailedInv
<1>5. MappedInv'
  BY DEF MappedInv, Created
<1>6. KeyInv'
  BY DEF KeyInv, Up, At
<1>7. QED
  BY <1>2, <1>3, <1>4, <1>5, <1>6

LEMMA FinishKeeps ==
  ASSUME RegistryInv, Finish
  PROVE  RegistryInv'
<1> USE DEF RegistryInv, Finish, disk
<1>1. /\ making \in Group /\ making \notin failed /\ row[making] # 0 /\ key # None
      /\ file[making] = Whole(making) /\ pc.step = "up"
  BY DEF TypeOK, MakingInv, StartInv
<1>2. me = key
  BY <1>1 DEF KeyInv, Up, At
<1>3. mine' \subseteq mine \union {making} /\ (making \in mine' \ mine => OwnerOf[making] = key)
  BY <1>2
<1>4. TypeOK'
  BY <1>1, <1>3 DEF TypeOK, Created
<1>5. StartInv' /\ MakingInv'
  BY <1>1 DEF StartInv, MakingInv
<1>6. AckedInv' /\ FailedInv'
  BY <1>1 DEF AckedInv, FailedInv
<1>7. MappedInv'
  BY DEF MappedInv, Created
<1>8. KeyInv'
  BY <1>1, <1>2, <1>3 DEF KeyInv, Up, At
<1>9. QED
  BY <1>4, <1>5, <1>6, <1>7, <1>8

LEMMA PostKeeps ==
  ASSUME RegistryInv, NEW w \in Who, NEW g \in Group, Post(w, g)
  PROVE  RegistryInv'
<1> USE DEF RegistryInv, Post, memory, history
<1>1. "articles" \in Db /\ seq["articles"] < MaxId
  BY DEF Db
<1>2. TypeOK'
  BY <1>1, NextNumber DEF TypeOK, Created
<1>3. StartInv' /\ MakingInv' /\ AckedInv' /\ FailedInv' /\ MappedInv' /\ KeyInv'
  BY DEF StartInv, MakingInv, AckedInv, FailedInv, MappedInv, KeyInv, Created, Up, At
<1>4. QED
  BY <1>2, <1>3

LEMMA InductiveRegistry == RegistryInv /\ [Next]_vars => RegistryInv'
<1> SUFFICES ASSUME RegistryInv, [Next]_vars
             PROVE  RegistryInv'
  OBVIOUS
<1>1. CASE StartUp
  BY <1>1, StartKeeps, openGroupsKeeps, KeyKeeps DEF StartUp
<1>2. CASE UNCHANGED vars
  BY <1>2 DEF vars, disk, memory, history, RegistryInv, TypeOK, StartInv, MakingInv, AckedInv,
     FailedInv, MappedInv, KeyInv, Created, Up, At
<1>3. QED
  BY <1>1, <1>2, StartKeeps, DeathKeeps, NewGroupKeeps, StatementKeeps, StatementFailsKeeps,
     FinishKeeps, PostKeeps DEF Next
-----------------------------------------------------------------------------
(* What the other theorems rest on. *)
THEOREM RegistryInvariance == Spec => []RegistryInv
<1>1. QED
  BY InitialRegistry, InductiveRegistry, PTL DEF Spec

(* Every reachable state is well typed: no group's database gets more
   statements than its card has, and only groups with a row are in the maps. *)
THEOREM TypeCorrectRegistry == Spec => []TypeOK
<1>1. RegistryInv => TypeOK
  BY DEF RegistryInv
<1>2. QED
  BY <1>1, RegistryInvariance, PTL

(* A group Post can find a row for is in the maps, but for the ones that
   newGroup is at, or has failed at, or that openGroups never came to. *)
THEOREM RowsMapped == Spec => []RowsAreMapped
<1>1. RegistryInv => RowsAreMapped
  BY DEF RegistryInv, MappedInv, RowsAreMapped, Up, At
<1>2. QED
  BY <1>1, RegistryInvariance, PTL

(* Unless its key could not be read once, the node is in every life the
   owner of the groups that were created over a local session. *)
THEOREM OwnerKeeps == Spec => []OwnerKeepsGroups
<1>1. RegistryInv => OwnerKeepsGroups
  BY DEF RegistryInv, KeyInv, OwnerKeepsGroups
<1>2. QED
  BY <1>1, RegistryInvariance, PTL

(* Once newGroup has answered without an error, getPerms answers in this
   life and in all later ones what the card of the group says. *)
THEOREM PermsAsOnCard == Spec => []PermsFollowCard
<1>1. RegistryInv => PermsFollowCard
  <2> SUFFICES ASSUME RegistryInv, Up, ~partial, NEW g \in acked, NEW w \in Who
               PROVE  getPerms(w, g) = CardPerms(w, g)
    BY DEF PermsFollowCard
  <2> USE DEF RegistryInv
  <2>1. g \in Group /\ g \in Created /\ file[g] = Whole(g)
    BY DEF TypeOK, AckedInv, Created
  <2>2. g \in open
    <3>1. g # making
      BY <2>1, RegistryAssumption DEF MakingInv
    <3>2. g \notin failed
      BY <2>1, WholeType DEF FailedInv
    <3>3. QED
      BY <2>1, <3>1, <3>2 DEF MappedInv, Up, At
  <2>3. /\ ~(file[g] < 2) /\ ~(file[g] < Preamble)
        /\ file[g] - Preamble = Len(Card[g])
    BY <2>1, WholeType DEF Whole, Preamble
  <2>4. QED
    BY <2>1, <2>2, <2>3 DEF getPerms, CardPerms
<1>2. QED
  BY <1>1, RegistryInvariance, PTL
=============================================================================
