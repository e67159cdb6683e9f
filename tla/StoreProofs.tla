---------------------------- MODULE StoreProofs ----------------------------
(***************************************************************************)
(* Proofs about Store for every set of sessions, messages and groups and   *)
(* every bound.  StoreInv is the inductive invariant: what each half-done  *)
(* command has left on disk, and that at most one session is beyond the    *)
(* INSERT for any message.  The last part counts: but for a message that   *)
(* is hurt, what refs says of it and what dbServer is about to write to it *)
(* make up the number of groups that list it (CountInv), and its file is   *)
(* there for as long as some group does (FileInv); of a message nobody     *)
(* cancels, more is known even when it is hurt (SteadyInv).                *)
(***************************************************************************)
EXTENDS Store, FiniteSetTheorems, TLAPS

(* The command dbServer is executing belongs to a session that waits at
   the matching place of Post. *)
JobInv ==
    /\ db = "idle" <=> by = None
    /\ up \/ db = "idle"
    /\ db = "write" => pc[by] = "store" /\ id[msg[by]] = lastId
    /\ db = "incref" => pc[by] = "index"
    /\ db \in {"delindex", "decref", "rmfile"} =>
          /\ pc[by] = "control" /\ del # <<>>
          /\ Target # None /\ id[Target] # 0 /\ From[Target] = From[msg[by]]
          /\ \A i \in DOMAIN del : del[i] \in GroupsOf(msg[by])

SessionInv == \A s \in Session : pc[s] = "idle" <=> msg[s] = None

(* Files, listings and announcements need a row; numbers are not reused. *)
RowInv ==
    /\ \A m \in Msg :
          /\ id[m] <= lastId
          /\ id[m] = 0 => /\ m \notin files /\ announced[m] = 0
                          /\ \A g \in Carried : m \notin index[g]
    /\ \A m, n \in Msg : id[m] = id[n] /\ id[m] # 0 => m = n

(* The UNIQUE Message-Id lets one session past the INSERT per message. *)
OwnerInv ==
    /\ \A s \in Session : Past(s) => id[msg[s]] # 0
    /\ \A s, t \in Session : Past(s) /\ Past(t) /\ msg[s] = msg[t] => s = t

(* Until it is announced a message is listed nowhere. *)
FreshInv ==
    \A s \in Session :
        pc[s] = "announce" \/ (db = "write" /\ by = s) =>
            /\ announced[msg[s]] = 0
            /\ msg[s] \notin files \/ pc[s] = "announce"
            /\ \A g \in Carried : msg[s] \notin index[g]

StoreInv ==
    /\ TypeOK /\ JobInv /\ SessionInv /\ RowInv /\ OwnerInv /\ FreshInv
    /\ IndexNeverConflicts /\ AnnouncedOnce
-----------------------------------------------------------------------------
(* Facts about the session dbServer is working for. *)
LEMMA JobFacts ==
  ASSUME TypeOK, JobInv, SessionInv, db # "idle"
  PROVE  /\ by \in Session /\ msg[by] \in Msg
         /\ db \in {"delindex", "decref", "rmfile"} =>
               Target \in Msg /\ Head(del) \in Group /\ Tail(del) \in Seq(Group)
<1>1. by \in Session
  BY DEF TypeOK, JobInv
<1>2. pc[by] # "idle"
  BY DEF TypeOK, JobInv
<1>3. msg[by] \in Msg
  BY <1>1, <1>2 DEF TypeOK, SessionInv
<1>4. ASSUME db \in {"delindex", "decref", "rmfile"}
      PROVE  Target \in Msg /\ Head(del) \in Group /\ Tail(del) \in Seq(Group)
  <2>1. Target \in Msg
    BY <1>3, <1>4, HeaderAssumption DEF JobInv, Target
  <2>2. del \in Seq(Group) /\ del # <<>>
    BY <1>4 DEF JobInv, TypeOK
  <2>3. QED
    BY <2>1, <2>2
<1>5. QED
  BY <1>1, <1>3, <1>4

PostTypes ==
    /\ pc \in [Session -> {"idle", "control", "store", "announce", "index"}]
    /\ msg \in [Session -> Msg \union {None}]
    /\ todo \in [Session -> SUBSET Carried]

(* Session s, and no other, returns or goes on to StoreArticle. *)
Leaves(s) ==
    /\ PostTypes'
    /\ \A t \in Session \ {s} :
          pc'[t] = pc[t] /\ msg'[t] = msg[t] /\ todo'[t] = todo[t]
    /\ \/ pc'[s] = "idle" /\ msg'[s] = None
       \/ pc'[s] = "store" /\ msg'[s] = msg[s] /\ msg[s] # None

LEMMA ReturnLeaves ==
  ASSUME TypeOK, NEW s \in Session, Return(s)
  PROVE  Leaves(s)
<1>1. PostTypes'
  BY DEF TypeOK, PostTypes, Return
<1>2. QED
  BY <1>1 DEF TypeOK, Leaves, Return

LEMMA LeaveControlLeaves ==
  ASSUME TypeOK, NEW s \in Session, LeaveControl(s), msg[s] # None
  PROVE  Leaves(s)
<1>1. CASE Postable(s, msg[s]) = {}
  BY <1>1, ReturnLeaves DEF LeaveControl
<1>2. CASE Postable(s, msg[s]) # {}
  <2>1. PostTypes'
    BY <1>2 DEF TypeOK, PostTypes, LeaveControl
  <2>2. QED
    BY <1>2, <2>1 DEF TypeOK, Leaves, LeaveControl
<1>3. QED
  BY <1>1, <1>2

(* Whatever command it was, its answer leaves s alone and dbServer free;
   a session that needs no command leaves dbServer to the others. *)
Answered(s) ==
    \/ by = s /\ Reply
    \/ by # s /\ UNCHANGED server

(* Failures are counted, and only messages are hurt. *)
FaultTypes == fails' \in 0 .. MaxFails /\ hurt' \in SUBSET Msg

LEMMA FaultCounted ==
  ASSUME TypeOK, Fault, hurt' \in SUBSET Msg
  PROVE  FaultTypes
BY BoundAssumption DEF TypeOK, Fault, FaultTypes

LEMMA NoFault ==
  ASSUME TypeOK, UNCHANGED faults
  PROVE  FaultTypes
BY DEF TypeOK, faults, FaultTypes

(* A session that returns, or goes on to StoreArticle, keeps the invariant:
   it was beyond the INSERT at most before, and is not afterwards. *)
LEMMA LeavesKeeps ==
  ASSUME StoreInv, NEW s \in Session, Leaves(s), Answered(s),
         refs' \in [Msg -> Int], files' \subseteq files, torn' \in SUBSET Msg,
         fails' \in 0 .. MaxFails, hurt' \in SUBSET Msg,
         UNCHANGED <<id, lastId, index, up, bounds>>
  PROVE  StoreInv'
<1> USE DEF StoreInv
<1>1. TypeOK'
  <2>1. db' \in {"idle", "write", "incref", "delindex", "decref", "rmfile"}
    BY DEF TypeOK, Answered, Reply, server
  <2>2. by' \in Session \union {None}
    BY DEF TypeOK, Answered, Reply, server
  <2>3. del' \in Seq(Group)
    <3>1. CASE Reply
      BY <3>1 DEF Reply
    <3>2. CASE UNCHANGED server
      BY <3>2 DEF server, TypeOK
    <3>3. QED
      BY <3>1, <3>2 DEF Answered
  <2>4. pc' \in [Session -> {"idle", "control", "store", "announce", "index"}]
        /\ msg' \in [Session -> Msg \union {None}] /\ todo' \in [Session -> SUBSET Carried]
    BY DEF Leaves, PostTypes
  <2>5. QED
    BY <2>1, <2>2, <2>3, <2>4 DEF TypeOK, bounds
<1>2. JobInv'
  <2>1. CASE by = s /\ Reply
    BY <2>1 DEF Reply, JobInv
  <2>2. CASE by # s /\ UNCHANGED server
    <3>1. by # None => by \in Session \ {s}
      BY <2>2 DEF TypeOK
    <3>2. by # None => pc'[by] = pc[by] /\ msg'[by] = msg[by]
      BY <3>1 DEF Leaves
    <3>3. QED
      BY <2>2, <3>2 DEF server, JobInv, Target
  <2>3. QED
    BY <2>1, <2>2 DEF Answered
<1>3. SessionInv'
  BY DEF SessionInv, Leaves
<1>4. RowInv'
  BY DEF RowInv, bounds
<1>5. ASSUME NEW t \in Session, Past(t)'
      PROVE  t # s /\ Past(t) /\ msg'[t] = msg[t] /\ pc'[t] = pc[t]
             /\ (db = "write" /\ by = t)' = (db = "write" /\ by = t)
  BY <1>5 DEF Past, Leaves, Answered, Reply, server
<1>6. OwnerInv'
  BY <1>5 DEF OwnerInv
<1>7. FreshInv'
  BY <1>5 DEF FreshInv, Past, bounds
<1>8. IndexNeverConflicts'
  BY DEF IndexNeverConflicts, Leaves
<1>9. AnnouncedOnce'
  BY DEF AnnouncedOnce, bounds
<1>10. QED
  BY <1>1, <1>2, <1>3, <1>4, <1>6, <1>7, <1>8, <1>9

(* The death of the process keeps the invariant. *)
LEMMA DieKeeps ==
  ASSUME StoreInv, Die, crashes' \in 0 .. MaxCrash,
         UNCHANGED <<copies, announced>>
  PROVE  StoreInv'
<1> USE DEF StoreInv, Die, Reply
<1>1. TypeOK'
  <2>0. torn' \in SUBSET Msg /\ hurt' \in SUBSET Msg
    BY JobFacts DEF TypeOK, HalfDone
  <2>1. pc' \in [Session -> {"idle", "control", "store", "announce", "index"}]
    OBVIOUS
  <2>2. msg' \in [Session -> Msg \union {None}] /\ todo' \in [Session -> SUBSET Carried]
    OBVIOUS
  <2>3. del' \in Seq(Group)
    OBVIOUS
  <2>4. up' \in BOOLEAN
    OBVIOUS
  <2>5. QED
    BY <2>0, <2>1, <2>2, <2>3, <2>4 DEF TypeOK
<1>2. JobInv' /\ SessionInv' /\ RowInv' /\ AnnouncedOnce'
  BY DEF JobInv, SessionInv, RowInv, AnnouncedOnce
<1>3. OwnerInv' /\ FreshInv' /\ IndexNeverConflicts'
  BY DEF OwnerInv, FreshInv, IndexNeverConflicts, Past
<1>4. QED
  BY <1>1, <1>2, <1>3
-----------------------------------------------------------------------------
(* One lemma per action: it keeps the invariant. *)

LEMMA SubmitKeeps ==
  ASSUME StoreInv, NEW s \in Session, NEW m \in Msg, Submit(s, m)
  PROVE  StoreInv'
<1> USE DEF StoreInv, Submit, disk, server, faults
<1>1. TypeOK'
  BY BoundAssumption DEF TypeOK
<1>2. by # s
  BY NoneAssumption DEF JobInv, TypeOK
<1>3. JobInv' /\ SessionInv'
  <2>1. by # None => by \in Session /\ pc'[by] = pc[by] /\ msg'[by] = msg[by]
    BY <1>2 DEF TypeOK
  <2>2. JobInv'
    BY <2>1 DEF JobInv, Target
  <2>3. SessionInv'
    BY NoneAssumption DEF TypeOK, SessionInv
  <2>4. QED
    BY <2>2, <2>3
<1>4. RowInv' /\ AnnouncedOnce'
  BY DEF RowInv, AnnouncedOnce
<1>5. \A t \in Session : Past(t)' => t # s /\ Past(t)
  BY <1>2 DEF Past, TypeOK
<1>6. OwnerInv' /\ FreshInv' /\ IndexNeverConflicts'
  BY <1>2, <1>5 DEF TypeOK, OwnerInv, FreshInv, IndexNeverConflicts, Past
<1>7. QED
  BY <1>1, <1>3, <1>4, <1>6

LEMMA NoControlKeeps ==
  ASSUME StoreInv, NEW s \in Session, NoControl(s)
  PROVE  StoreInv'
<1> USE DEF StoreInv, NoControl
<1>1. msg[s] # None
  BY DEF SessionInv
<1>2. by # s
  BY NoneAssumption DEF JobInv, TypeOK, Target
<1>3. Leaves(s) /\ Answered(s)
  BY <1>1, <1>2, LeaveControlLeaves DEF Answered
<1>4. QED
  BY <1>3, LeavesKeeps, NoFault DEF disk, TypeOK, FaultTypes

LEMMA AnnounceKeeps ==
  ASSUME StoreInv, NEW s \in Session, Announce(s)
  PROVE  StoreInv'
<1> USE DEF StoreInv, Announce, disk, server, faults
<1>1. msg[s] \in Msg /\ by # s
  BY NoneAssumption DEF TypeOK, SessionInv, JobInv
<1>2. Postable(s, msg[s]) \in SUBSET Carried
  BY GroupAssumption DEF Postable
<1>3. TypeOK'
  <2>1. pc' \in [Session -> {"idle", "control", "store", "announce", "index"}]
    BY DEF TypeOK
  <2>2. todo' \in [Session -> SUBSET Carried]
    BY <1>2 DEF TypeOK
  <2>3. announced' \in [Msg -> Nat]
    BY <1>1 DEF TypeOK
  <2>4. QED
    BY <2>1, <2>2, <2>3 DEF TypeOK
<1>4. JobInv' /\ SessionInv'
  BY <1>1 DEF TypeOK, JobInv, SessionInv, Target
<1>5. id[msg[s]] # 0 /\ announced[msg[s]] = 0
  BY DEF OwnerInv, FreshInv, Past
<1>6. RowInv' /\ AnnouncedOnce'
  BY <1>1, <1>5 DEF TypeOK, RowInv, AnnouncedOnce
<1>7. \A t \in Session : Past(t)' = Past(t)
  BY DEF Past, TypeOK
<1>8. OwnerInv'
  BY <1>7 DEF OwnerInv
<1>9. FreshInv'
  <2> SUFFICES ASSUME NEW t \in Session,
                      (pc[t] = "announce" \/ (db = "write" /\ by = t))'
               PROVE  /\ announced'[msg[t]] = 0
                      /\ msg[t] \notin files \/ pc'[t] = "announce"
                      /\ \A g \in Carried : msg[t] \notin index[g]
    BY DEF FreshInv
  <2>1. t # s /\ (pc[t] = "announce" \/ (db = "write" /\ by = t))
    <3>1. pc'[s] = "index" /\ by' = by /\ db' = db
      BY DEF TypeOK
    <3>2. t # s
      BY <1>1, <3>1
    <3>3. pc'[t] = pc[t]
      BY <3>2 DEF TypeOK
    <3>4. QED
      BY <3>1, <3>2, <3>3
  <2>2. Past(t) /\ Past(s)
    BY <2>1 DEF Past
  <2>3. msg[t] # msg[s]
    BY <2>1, <2>2 DEF OwnerInv
  <2>4. QED
    BY <2>1, <2>3 DEF TypeOK, FreshInv
<1>10. IndexNeverConflicts'
  BY <1>2 DEF TypeOK, IndexNeverConflicts, FreshInv
<1>11. QED
  BY <1>3, <1>4, <1>6, <1>8, <1>9, <1>10

LEMMA StoreInsertKeeps ==
  ASSUME StoreInv, NEW s \in Session, StoreInsert(s)
  PROVE  StoreInv'
<1> USE DEF StoreInv, StoreInsert, Free
<1>1. msg[s] \in Msg /\ by = None /\ by # s
  BY NoneAssumption DEF TypeOK, SessionInv, JobInv
<1>2. CASE id[msg[s]] # 0
  <2>1. Leaves(s) /\ Answered(s)
    BY <1>1, <1>2, ReturnLeaves DEF Answered
  <2>2. QED
    BY <1>2, <2>1, LeavesKeeps, NoFault DEF disk, TypeOK, FaultTypes
<1>3. CASE id[msg[s]] = 0
  <2>1. /\ lastId < MaxId /\ lastId' = lastId + 1
        /\ id' = [id EXCEPT ![msg[s]] = lastId + 1]
        /\ refs' = [refs EXCEPT ![msg[s]] = 0]
        /\ db' = "write" /\ by' = s
        /\ UNCHANGED <<files, torn, index, pc, msg, todo, del, up, copies, announced, crashes, fails, hurt>>
    BY <1>3 DEF posts, bounds, faults
  <2> HIDE DEF StoreInsert
  <2>2. TypeOK'
    <3>1. id' \in [Msg -> 0 .. MaxId] /\ lastId' \in 0 .. MaxId
      BY <1>1, <2>1, BoundAssumption DEF TypeOK
    <3>2. refs' \in [Msg -> Int]
      BY <1>1, <2>1 DEF TypeOK
    <3>3. QED
      BY <2>1, <3>1, <3>2 DEF TypeOK
  <2>3. pc[s] = "store" /\ up
    BY DEF StoreInsert, Free
  <2>4. JobInv'
    BY <1>1, <2>1, <2>3, NoneAssumption DEF TypeOK, JobInv
  <2>5. SessionInv' /\ AnnouncedOnce' /\ IndexNeverConflicts'
    BY <2>1 DEF SessionInv, AnnouncedOnce, IndexNeverConflicts
  <2>6. RowInv'
    <3>1. \A m \in Msg : id'[m] = IF m = msg[s] THEN lastId + 1 ELSE id[m]
      BY <1>1, <2>1 DEF TypeOK
    <3>2. lastId \in Nat /\ \A m \in Msg : id[m] \in Nat /\ id[m] <= lastId
      BY BoundAssumption DEF TypeOK, RowInv
    <3>3. QED
      BY <2>1, <3>1, <3>2 DEF RowInv
  <2>7. \A t \in Session : Past(t)' => t = s \/ (Past(t) /\ msg[t] # msg[s])
    BY <1>1, <1>3, <2>1 DEF Past, OwnerInv
  <2>8. \A t \in Session : Past(t)' => id'[msg[t]] # 0
    BY <1>1, <2>1, <2>7, BoundAssumption DEF OwnerInv, TypeOK
  <2>9. OwnerInv'
    BY <2>1, <2>7, <2>8 DEF OwnerInv
  <2>10. FreshInv'
    BY <1>1, <1>3, <2>1 DEF FreshInv, RowInv
  <2>11. QED
    BY <2>2, <2>4, <2>5, <2>6, <2>9, <2>10
<1>4. QED
  BY <1>2, <1>3

LEMMA CancelLookupKeeps ==
  ASSUME StoreInv, NEW s \in Session, CancelLookup(s)
  PROVE  StoreInv'
<1> USE DEF StoreInv, CancelLookup, Free
<1> DEFINE t == Cancels[msg[s]]
<1>1. msg[s] \in Msg /\ by = None /\ by # s /\ t # None
  BY NoneAssumption DEF TypeOK, SessionInv, JobInv
<1>0. CASE Die
  BY <1>0, DieKeeps DEF bounds, TypeOK
<1>2. CASE /\ ~Die
           /\ id[t] = 0 \/ t \notin files \/ From[t] # From[msg[s]]
  <2>1. LeaveControl(s) /\ UNCHANGED <<server, disk, up, bounds, faults>>
    BY <1>2
  <2>2. Leaves(s) /\ Answered(s)
    BY <1>1, <2>1, LeaveControlLeaves, NoneAssumption DEF Answered
  <2> HIDE DEF CancelLookup
  <2>3. QED
    BY <2>1, <2>2, LeavesKeeps, NoFault DEF disk, TypeOK, FaultTypes
<1>3. CASE /\ ~Die
           /\ ~(id[t] = 0 \/ t \notin files \/ From[t] # From[msg[s]])
  <2>1. /\ db' = "delindex" /\ by' = s /\ del' = Newsgroups[msg[s]]
        /\ UNCHANGED <<disk, posts, up, bounds, faults>>
    BY <1>3
  <2>2. pc[s] = "control" /\ up
    OBVIOUS
  <2> HIDE DEF CancelLookup
  <2>3. del' \in Seq(Group) /\ del' # <<>>
    BY <1>1, <2>1, HeaderAssumption
  <2>4. TypeOK'
    BY <2>1, <2>3 DEF TypeOK, disk, posts, bounds, faults
  <2>5. JobInv'
    BY <1>1, <1>3, <2>1, <2>2, <2>3 DEF disk, posts, JobInv, Target, GroupsOf
  <2>6. SessionInv' /\ RowInv' /\ AnnouncedOnce' /\ IndexNeverConflicts'
    BY <2>1 DEF SessionInv, RowInv, AnnouncedOnce, IndexNeverConflicts, disk, posts, bounds
  <2>7. OwnerInv' /\ FreshInv'
    BY <1>1, <2>1 DEF OwnerInv, FreshInv, Past, disk, posts, bounds
  <2>8. QED
    BY <2>4, <2>5, <2>6, <2>7
<1>4. QED
  BY <1>0, <1>2, <1>3

LEMMA AddIndexKeeps ==
  ASSUME StoreInv, NEW s \in Session, NEW g \in Carried, AddIndex(s, g)
  PROVE  StoreInv'
<1> USE DEF StoreInv, AddIndex, Free
<1>1. msg[s] \in Msg /\ by = None /\ by # s
  BY NoneAssumption DEF TypeOK, SessionInv, JobInv
<1>2. CASE msg[s] \in index[g]
  <2>1. Leaves(s) /\ Answered(s)
    BY <1>1, <1>2, ReturnLeaves DEF Answered
  <2>2. QED
    BY <1>2, <2>1, LeavesKeeps, NoFault DEF disk, TypeOK, FaultTypes
<1>3. CASE msg[s] \notin index[g]
  <2>1. /\ index' = [index EXCEPT ![g] = @ \union {msg[s]}]
        /\ todo' = [todo EXCEPT ![s] = @ \ {g}]
        /\ db' = "incref" /\ by' = s
        /\ UNCHANGED <<id, lastId, refs, files, torn, pc, msg, del, up, copies, announced, crashes, fails, hurt>>
    BY <1>3 DEF bounds, faults
  <2>2. pc[s] = "index" /\ up
    OBVIOUS
  <2> HIDE DEF AddIndex
  <2>3. TypeOK'
    <3>1. index' \in [Carried -> SUBSET Msg]
      BY <1>1, <2>1 DEF TypeOK
    <3>2. todo' \in [Session -> SUBSET Carried]
      BY <2>1 DEF TypeOK
    <3>3. QED
      BY <2>1, <3>1, <3>2 DEF TypeOK
  <2>4. JobInv'
    BY <1>1, <2>1, <2>2 DEF JobInv
  <2>5. SessionInv' /\ AnnouncedOnce'
    BY <2>1 DEF SessionInv, AnnouncedOnce
  <2>6. Past(s) /\ id[msg[s]] # 0
    BY <2>2 DEF Past, OwnerInv
  <2>7. \A k \in Carried : index'[k] \subseteq index[k] \union {msg[s]}
    BY <2>1 DEF TypeOK
  <2>8. RowInv'
    BY <2>1, <2>6, <2>7 DEF RowInv
  <2>9. \A t \in Session : Past(t)' => Past(t)
    BY <2>1 DEF Past
  <2>10. OwnerInv'
    BY <2>1, <2>9 DEF OwnerInv
  <2>11. \A t \in Session \ {s} : Past(t) => msg[t] # msg[s]
    BY <2>6 DEF OwnerInv
  <2>12. FreshInv'
    BY <1>1, <2>1, <2>2, <2>7, <2>11 DEF FreshInv, Past
  <2>13. IndexNeverConflicts'
    <3> SUFFICES ASSUME NEW t \in Session, pc[t] = "index", NEW k \in todo'[t]
                 PROVE  msg[t] \notin index'[k]
      BY <2>1 DEF IndexNeverConflicts
    <3>1. k \in todo[t] /\ k \in Carried
      BY <2>1 DEF TypeOK
    <3>2. msg[t] \notin index[k]
      BY <3>1 DEF IndexNeverConflicts
    <3>3. CASE t = s
      BY <2>1, <3>1, <3>2, <3>3 DEF TypeOK
    <3>4. CASE t # s
      BY <2>7, <2>11, <3>1, <3>2, <3>4 DEF Past
    <3>5. QED
      BY <3>3, <3>4
  <2>14. QED
    BY <2>3, <2>4, <2>5, <2>8, <2>10, <2>12, <2>13
<1>4. QED
  BY <1>2, <1>3

LEMMA StoreWriteKeeps ==
  ASSUME StoreInv, NEW left \in WriteLeaves, StoreWrite(left)
  PROVE  StoreInv'
<1> USE DEF StoreInv, StoreWrite
<1>1. by \in Session /\ msg[by] \in Msg /\ pc[by] = "store"
  BY JobFacts DEF JobInv
<1>2. CASE left # "whole"
  <2> PICK s \in Session : s = by
    BY <1>1
  <2>1. Return(s)
    BY <1>2 DEF Return
  <2>2. Leaves(s) /\ Answered(s)
    BY <2>1, ReturnLeaves DEF Answered
  <2>3. files' = files /\ UNCHANGED <<id, lastId, refs, index, up, bounds, faults>>
    BY <1>2
  <2>4. refs' \in [Msg -> Int] /\ torn' \in SUBSET Msg
    BY <1>1, <1>2, <2>3 DEF TypeOK
  <2> HIDE DEF StoreWrite
  <2>5. QED
    BY <1>1, <2>2, <2>3, <2>4, LeavesKeeps, NoFault DEF FaultTypes
<1>3. CASE left = "whole"
  <2>1. /\ files' = files \union {msg[by]}
        /\ pc' = [pc EXCEPT ![by] = "announce"]
        /\ db' = "idle" /\ by' = None /\ del' = <<>>
        /\ UNCHANGED <<id, lastId, refs, torn, index, msg, todo, up, copies, announced, crashes, fails, hurt>>
    BY <1>3 DEF Reply, bounds, faults
  <2>2. db = "write"
    OBVIOUS
  <2> HIDE DEF StoreWrite
  <2>3. TypeOK'
    <3>1. pc' \in [Session -> {"idle", "control", "store", "announce", "index"}]
      BY <2>1 DEF TypeOK
    <3>2. files' \in SUBSET Msg
      BY <1>1, <2>1 DEF TypeOK
    <3>3. del' \in Seq(Group)
      BY <2>1
    <3>4. QED
      BY <2>1, <3>1, <3>2, <3>3 DEF TypeOK
  <2>4. JobInv'
    BY <2>1 DEF JobInv
  <2>5. SessionInv'
    BY <1>1, <2>1 DEF TypeOK, SessionInv
  <2>6. Past(by) /\ id[msg[by]] # 0 /\ announced[msg[by]] = 0
    BY <1>1, <2>2 DEF Past, OwnerInv, FreshInv
  <2>7. RowInv'
    BY <2>1, <2>6 DEF RowInv
  <2>8. \A t \in Session : Past(t)' => Past(t)
    BY <2>1, <2>2 DEF Past, TypeOK
  <2>9. OwnerInv'
    BY <2>1, <2>8 DEF OwnerInv
  <2>10. FreshInv'
    BY <1>1, <2>1, <2>2 DEF FreshInv, TypeOK
  <2>11. IndexNeverConflicts' /\ AnnouncedOnce'
    BY <1>1, <2>1 DEF IndexNeverConflicts, AnnouncedOnce, TypeOK
  <2>12. QED
    BY <2>3, <2>4, <2>5, <2>7, <2>9, <2>10, <2>11
<1>4. QED
  BY <1>2, <1>3

LEMMA IncRefKeeps ==
  ASSUME StoreInv, IncRef
  PROVE  StoreInv'
<1> USE DEF StoreInv, IncRef
<1>1. by \in Session /\ msg[by] \in Msg
  BY JobFacts
<1>2. refs' \in [Msg -> Int]
  BY <1>1 DEF TypeOK
<1>3. CASE todo[by] = {}
  <2> PICK s \in Session : s = by
    BY <1>1
  <2>1. Return(s)
    BY <1>3 DEF Return
  <2>2. Leaves(s) /\ Answered(s)
    BY <2>1, ReturnLeaves DEF Answered
  <2>3. UNCHANGED <<id, lastId, files, torn, index, up, bounds, faults>>
    OBVIOUS
  <2> HIDE DEF IncRef
  <2>4. torn' \in SUBSET Msg
    BY <2>3 DEF TypeOK
  <2>5. QED
    BY <1>1, <1>2, <2>2, <2>3, <2>4, LeavesKeeps, NoFault DEF FaultTypes
<1>4. CASE todo[by] # {}
  <2>1. /\ db = "incref" /\ db' = "idle" /\ by' = None /\ del' = <<>>
        /\ UNCHANGED <<id, lastId, files, torn, index, pc, msg, todo, up, copies, announced, crashes, fails, hurt>>
    BY <1>4 DEF Reply, posts, bounds, faults
  <2> HIDE DEF IncRef
  <2>2. TypeOK'
    <3>1. del' \in Seq(Group)
      BY <2>1
    <3>2. QED
      BY <1>2, <2>1, <3>1 DEF TypeOK
  <2>3. JobInv' /\ SessionInv' /\ RowInv' /\ AnnouncedOnce' /\ IndexNeverConflicts'
    BY <2>1 DEF JobInv, SessionInv, RowInv, AnnouncedOnce, IndexNeverConflicts
  <2>4. OwnerInv' /\ FreshInv'
    BY <2>1 DEF OwnerInv, FreshInv, Past
  <2>5. QED
    BY <2>2, <2>3, <2>4
<1>5. QED
  BY <1>3, <1>4

(* A cancel that goes on, to its next write or its next group: sessions are
   untouched and indexes only shrink. *)
LEMMA CancelGoesOn ==
  ASSUME StoreInv, db \in {"delindex", "decref", "rmfile"},
         db' \in {"delindex", "decref", "rmfile"},
         del' \in Seq(Group), del' # <<>>, refs' \in [Msg -> Int],
         \A i \in DOMAIN del' : del'[i] \in GroupsOf(msg[by]),
         FaultTypes, index' \in [Carried -> SUBSET Msg],
         \A g \in Carried : index'[g] \subseteq index[g],
         UNCHANGED <<id, lastId, files, torn, posts, by, up, bounds>>
  PROVE  StoreInv'
<1> USE DEF StoreInv, posts, bounds
<1>1. TypeOK'
  BY DEF TypeOK, FaultTypes
<1>2. by # None
  BY DEF JobInv
<1>3. JobInv'
  BY <1>2 DEF JobInv, Target
<1>4. SessionInv' /\ RowInv' /\ AnnouncedOnce'
  BY DEF SessionInv, RowInv, AnnouncedOnce
<1>5. IndexNeverConflicts'
  BY DEF TypeOK, IndexNeverConflicts
<1>6. OwnerInv' /\ FreshInv'
  BY DEF OwnerInv, FreshInv, Past
<1>7. QED
  BY <1>1, <1>3, <1>4, <1>5, <1>6

LEMMA NextGroupKeeps ==
  ASSUME StoreInv, db \in {"delindex", "decref", "rmfile"},
         NextGroup(Tail(del)), refs' \in [Msg -> Int], FaultTypes,
         UNCHANGED <<id, lastId, files, torn, index, up, bounds>>
  PROVE  StoreInv'
<1> USE DEF StoreInv
<1>1. by \in Session /\ msg[by] # None /\ Tail(del) \in Seq(Group)
  BY JobFacts, NoneAssumption
<1>0. \A i \in DOMAIN Tail(del) : Tail(del)[i] \in GroupsOf(msg[by])
  <2>1. del \in Seq(Group) /\ del # <<>> /\ \A i \in DOMAIN del : del[i] \in GroupsOf(msg[by])
    BY DEF JobInv, TypeOK
  <2>2. \A i \in DOMAIN Tail(del) : i + 1 \in DOMAIN del /\ Tail(del)[i] = del[i + 1]
    BY <2>1
  <2>3. QED
    BY <2>1, <2>2
<1>2. CASE Tail(del) = <<>>
  <2> PICK s \in Session : s = by
    BY <1>1
  <2>1. LeaveControl(s) /\ Reply
    BY <1>2 DEF NextGroup, LeaveControl, Return
  <2>2. Leaves(s) /\ Answered(s)
    BY <1>1, <2>1, LeaveControlLeaves DEF Answered
  <2>3. torn' \in SUBSET Msg
    BY DEF TypeOK
  <2>4. QED
    BY <1>1, <2>2, <2>3, LeavesKeeps DEF FaultTypes
<1>3. CASE Tail(del) # <<>>
  <2>1. db' = "delindex" /\ del' = Tail(del) /\ UNCHANGED <<by, posts>>
    BY <1>3 DEF NextGroup
  <2>2. index \in [Carried -> SUBSET Msg]
    BY DEF TypeOK
  <2>3. QED
    BY <1>0, <1>1, <1>3, <2>1, <2>2, CancelGoesOn
<1>4. QED
  BY <1>2, <1>3

LEMMA DelIndexKeeps ==
  ASSUME StoreInv, DelIndex
  PROVE  StoreInv'
<1> USE DEF StoreInv
<1> DEFINE g == Head(del)
<1>1. db = "delindex" /\ UNCHANGED bounds /\ del \in Seq(Group) /\ del # <<>>
  BY DEF DelIndex, JobInv, TypeOK
<1>2. CASE /\ g \notin GroupsOf(Target)
           /\ NextGroup(Tail(del)) /\ UNCHANGED <<disk, up, faults>>
  BY <1>1, <1>2, NextGroupKeeps, NoFault DEF disk, TypeOK
<1>3. CASE Die
  BY <1>1, <1>3, DieKeeps DEF bounds, TypeOK
<1>4. CASE /\ g \in GroupsOf(Target) \intersect (Carried \ Dotless)
           /\ index' = [index EXCEPT ![g] = @ \ {Target}]
           /\ hurt' = IF Target \in index[g] THEN hurt ELSE hurt \union {Target}
           /\ db' = "decref"
           /\ UNCHANGED <<id, lastId, refs, files, torn, posts, by, del, up, fails>>
  <2>1. /\ index' \in [Carried -> SUBSET Msg]
        /\ \A k \in Carried : index'[k] \subseteq index[k]
    BY <1>4 DEF TypeOK
  <2>2. refs \in [Msg -> Int] /\ \A i \in DOMAIN del : del[i] \in GroupsOf(msg[by])
    BY <1>1 DEF TypeOK, JobInv
  <2>3. FaultTypes
    BY <1>1, <1>4, JobFacts DEF TypeOK, FaultTypes
  <2>4. QED
    BY <1>1, <1>4, <2>1, <2>2, <2>3, CancelGoesOn
<1>5. QED
  BY <1>2, <1>3, <1>4 DEF DelIndex

LEMMA DecRefKeeps ==
  ASSUME StoreInv, DecRef
  PROVE  StoreInv'
<1> USE DEF StoreInv
<1>1. /\ db = "decref" /\ del \in Seq(Group) /\ del # <<>> /\ Target \in Msg
      /\ UNCHANGED <<id, lastId, files, torn, index, up, bounds>> /\ FaultTypes
  BY JobFacts, NoFault DEF DecRef, JobInv, TypeOK
<1>2. refs' \in [Msg -> Int]
  BY <1>1 DEF DecRef, TypeOK
<1>3. CASE refs[Target] = 1
  <2>1. db' = "rmfile" /\ UNCHANGED <<by, del, posts>>
    BY <1>3 DEF DecRef
  <2>2. /\ index \in [Carried -> SUBSET Msg]
        /\ \A i \in DOMAIN del : del[i] \in GroupsOf(msg[by])
    BY <1>1 DEF TypeOK, JobInv
  <2>3. QED
    BY <1>1, <1>2, <2>1, <2>2, CancelGoesOn
<1>4. CASE refs[Target] # 1
  BY <1>1, <1>2, <1>4, NextGroupKeeps DEF DecRef
<1>5. QED
  BY <1>3, <1>4

(* A session that dbServer lets go, its cancel done or broken off. *)
LEMMA LetGo ==
  ASSUME StoreInv, db \in {"delindex", "decref", "rmfile"}, LeaveControl(by), Reply,
         files' \subseteq files, FaultTypes,
         UNCHANGED <<id, lastId, refs, torn, index, up, bounds>>
  PROVE  StoreInv'
<1> USE DEF StoreInv
<1>1. by \in Session /\ msg[by] # None
  BY JobFacts, NoneAssumption
<1> PICK s \in Session : s = by
  BY <1>1
<1>2. LeaveControl(s)
  BY DEF LeaveControl, Return
<1>3. Leaves(s) /\ Answered(s)
  BY <1>1, <1>2, LeaveControlLeaves DEF Answered
<1>4. refs' \in [Msg -> Int] /\ torn' \in SUBSET Msg
  BY DEF TypeOK
<1>5. QED
  BY <1>1, <1>3, <1>4, LeavesKeeps DEF FaultTypes

LEMMA RmFileKeeps ==
  ASSUME StoreInv, RmFile
  PROVE  StoreInv'
<1>1. FaultTypes
  BY JobFacts DEF RmFile, StoreInv, TypeOK, FaultTypes
<1>2. QED
  BY <1>1, LetGo DEF RmFile

LEMMA CancelFailsKeeps ==
  ASSUME StoreInv, DeleteFails \/ DecRefFails \/ RemoveFails
  PROVE  StoreInv'
<1>1. /\ db \in {"delindex", "decref", "rmfile"} /\ CancelBreaksOff
      /\ hurt' \in {hurt, hurt \union {Target}}
  BY DEF DeleteFails, DecRefFails, RemoveFails
<1>2. FaultTypes
  BY <1>1, JobFacts, FaultCounted DEF CancelBreaksOff, StoreInv, TypeOK
<1>3. QED
  BY <1>1, <1>2, LetGo DEF CancelBreaksOff, disk

LEMMA IncRefFailsKeeps ==
  ASSUME StoreInv, IncRefFails
  PROVE  StoreInv'
<1> USE DEF StoreInv, IncRefFails
<1>1. by \in Session /\ msg[by] \in Msg
  BY JobFacts
<1> PICK s \in Session : s = by
  BY <1>1
<1>2. Return(s)
  BY DEF Return
<1>3. Leaves(s) /\ Answered(s)
  BY <1>2, ReturnLeaves DEF Answered
<1>4. FaultTypes
  BY <1>1, FaultCounted DEF TypeOK
<1>5. QED
  BY <1>3, <1>4, LeavesKeeps DEF disk, TypeOK, FaultTypes

LEMMA SessionFailsKeeps ==
  ASSUME StoreInv, NEW s \in Session, LookupFails(s) \/ StoreFails(s) \/ IndexFails(s)
  PROVE  StoreInv'
<1> USE DEF StoreInv
<1>1. /\ msg[s] \in Msg /\ by # s /\ Fault
      /\ UNCHANGED <<disk, server, up, bounds>>
      /\ hurt' \in {hurt, hurt \union {msg[s]}}
  BY NoneAssumption DEF LookupFails, StoreFails, IndexFails, Free, TypeOK, SessionInv, JobInv
<1>2. Leaves(s) /\ Answered(s)
  BY <1>1, ReturnLeaves, LeaveControlLeaves, NoneAssumption
  DEF LookupFails, StoreFails, IndexFails, Answered
<1>3. FaultTypes
  BY <1>1, FaultCounted DEF TypeOK
<1>4. QED
  BY <1>1, <1>2, <1>3, LeavesKeeps DEF disk, TypeOK, FaultTypes

LEMMA CrashKeeps ==
  ASSUME StoreInv, Crash
  PROVE  StoreInv'
<1>1. crashes' \in 0 .. MaxCrash
  BY BoundAssumption DEF StoreInv, TypeOK, Crash
<1>2. QED
  BY <1>1, DieKeeps DEF Crash

LEMMA RestartKeeps ==
  ASSUME StoreInv, NEW t \in 1 .. MaxId, Restart(t)
  PROVE  StoreInv'
<1> USE DEF StoreInv, Restart, posts, server, bounds, faults
<1>1. TypeOK' /\ db = "idle"
  BY BoundAssumption DEF TypeOK, JobInv
<1>2. JobInv' /\ SessionInv' /\ AnnouncedOnce' /\ IndexNeverConflicts'
  BY <1>1 DEF JobInv, SessionInv, AnnouncedOnce, IndexNeverConflicts
<1>3. lastId <= lastId' /\ lastId \in Nat /\ lastId' \in Nat
  BY BoundAssumption DEF TypeOK
<1>4. RowInv'
  BY <1>3, BoundAssumption DEF TypeOK, RowInv
<1>5. OwnerInv' /\ FreshInv'
  BY <1>1 DEF OwnerInv, FreshInv, Past
<1>6. QED
  BY <1>1, <1>2, <1>4, <1>5
-----------------------------------------------------------------------------
LEMMA InitHolds == Init => StoreInv
<1> SUFFICES ASSUME Init PROVE StoreInv
  OBVIOUS
<1> USE DEF Init
<1>1. TypeOK
  BY BoundAssumption DEF TypeOK
<1>2. JobInv /\ SessionInv /\ RowInv
  BY DEF JobInv, SessionInv, RowInv
<1>3. OwnerInv /\ FreshInv /\ IndexNeverConflicts /\ AnnouncedOnce
  BY DEF OwnerInv, FreshInv, IndexNeverConflicts, AnnouncedOnce, Past
<1>4. QED
  BY <1>1, <1>2, <1>3 DEF StoreInv

LEMMA StutterKeeps ==
  ASSUME StoreInv, UNCHANGED vars
  PROVE  StoreInv'
<1> USE DEF StoreInv, vars, disk, posts, server, bounds, faults
<1>1. TypeOK'
  BY DEF TypeOK
<1>2. JobInv' /\ SessionInv' /\ RowInv'
  BY DEF JobInv, SessionInv, RowInv, Target
<1>3. OwnerInv' /\ FreshInv' /\ IndexNeverConflicts' /\ AnnouncedOnce'
  BY DEF OwnerInv, FreshInv, IndexNeverConflicts, AnnouncedOnce, Past
<1>4. QED
  BY <1>1, <1>2, <1>3

LEMMA NextKeeps == StoreInv /\ [Next]_vars => StoreInv'
<1> SUFFICES ASSUME StoreInv, [Next]_vars PROVE StoreInv'
  OBVIOUS
<1>1. ASSUME NEW s \in Session, NEW m \in Msg, Submit(s, m) PROVE StoreInv'
  BY <1>1, SubmitKeeps
<1>2. ASSUME NEW s \in Session, SessionStep(s) PROVE StoreInv'
  BY <1>2, NoControlKeeps, AnnounceKeeps, StoreInsertKeeps,
     CancelLookupKeeps, AddIndexKeeps, SessionFailsKeeps DEF SessionStep
<1>3. CASE ServerStep
  BY <1>3, StoreWriteKeeps, IncRefKeeps, DelIndexKeeps, DecRefKeeps,
     RmFileKeeps, IncRefFailsKeeps, CancelFailsKeeps DEF ServerStep
<1>4. CASE Crash
  BY <1>4, CrashKeeps
<1>5. ASSUME NEW t \in 1 .. MaxId, Restart(t) PROVE StoreInv'
  BY <1>5, RestartKeeps
<1>6. CASE UNCHANGED vars
  BY <1>6, StutterKeeps
<1>7. QED
  BY <1>1, <1>2, <1>3, <1>4, <1>5, <1>6 DEF Next

(* The inductive invariant holds of every reachable state. *)
THEOREM Invariance == Spec => []StoreInv
<1>1. QED
  BY InitHolds, NextKeeps, PTL DEF Spec

(* Every variable keeps its type: no number above the bound, no listing in
   a group that is not carried, no session at a place Post does not have. *)
THEOREM TypeCorrect == Spec => []TypeOK
<1>1. StoreInv => TypeOK
  BY DEF StoreInv
<1>2. QED
  BY <1>1, Invariance, PTL

(* A message is distributed to the peers at most once, over every order of
   copies, cancels, crashes and restarts. *)
THEOREM DistributedOnce == Spec => []AnnouncedOnce
<1>1. StoreInv => AnnouncedOnce
  BY DEF StoreInv
<1>2. QED
  BY <1>1, Invariance, PTL

(* AddArticleToGroup never meets its own message in the index: a post is
   not broken off half way for that reason. *)
THEOREM NoIndexConflict == Spec => []IndexNeverConflicts
<1>1. StoreInv => IndexNeverConflicts
  BY DEF StoreInv
<1>2. QED
  BY <1>1, Invariance, PTL
-----------------------------------------------------------------------------
(* Nothing leaves the disk or a group but on a cancel with the same From
   header, and no group that the two messages do not both name: what was
   compared before the first write still holds at the last. *)
THEOREM WithdrawnOnMatch == Spec => WithdrawnUnderItsFrom
<1> DEFINE Going(m) == {g \in Carried : m \in index[g] \ index'[g]}
           Kept == \A m \in Msg :
              m \in files \ files' \/ Going(m) # {} =>
                  /\ by # None /\ Target = m /\ From[msg[by]] = From[m]
                  /\ Going(m) \subseteq GroupsOf(m) \intersect GroupsOf(msg[by])
<1>1. StoreInv /\ [Next]_vars => Kept
  <2> SUFFICES ASSUME StoreInv, [Next]_vars PROVE Kept
    OBVIOUS
  <2> USE DEF disk
  <2>1. ASSUME files \subseteq files', \A g \in Carried : index[g] \subseteq index'[g]
        PROVE  Kept
    BY <2>1
  <2>2. ASSUME NEW s \in Session, NEW g \in Carried, AddIndex(s, g) PROVE Kept
    <3>1. \A k \in Carried : index[k] \subseteq index'[k]
      BY <2>2 DEF AddIndex, StoreInv, TypeOK
    <3>2. files' = files
      BY <2>2 DEF AddIndex
    <3>3. QED
      BY <2>1, <3>1, <3>2
  <2>3. ASSUME NEW s \in Session, SessionStep(s) PROVE Kept
    <3>1. CASE CancelLookup(s)
      BY <2>1, <3>1 DEF CancelLookup, Die
    <3>2. QED
      BY <2>1, <2>2, <2>3, <3>1
      DEF SessionStep, NoControl, Announce, StoreInsert, LookupFails, StoreFails, IndexFails
  <2>4. CASE DelIndex
    <3>1. /\ Target # None /\ From[Target] = From[msg[by]] /\ by # None
          /\ del \in Seq(Group) /\ del # <<>>
          /\ \A i \in DOMAIN del : del[i] \in GroupsOf(msg[by])
      BY <2>4 DEF DelIndex, StoreInv, JobInv, TypeOK
    <3>2. Head(del) \in GroupsOf(msg[by])
      BY <3>1
    <3>3. files' = files
      BY <2>4 DEF DelIndex, Die
    <3>4. CASE index' = index
      BY <2>1, <3>3, <3>4
    <3>5. CASE /\ Head(del) \in GroupsOf(Target) \intersect (Carried \ Dotless)
               /\ index' = [index EXCEPT ![Head(del)] = @ \ {Target}]
      <4>1. \A m \in Msg : Going(m) \subseteq IF m = Target THEN {Head(del)} ELSE {}
        BY <3>5 DEF StoreInv, TypeOK
      <4>2. QED
        BY <3>1, <3>2, <3>3, <3>5, <4>1
    <3>6. QED
      BY <2>4, <3>4, <3>5 DEF DelIndex, Die
  <2>5. CASE RmFile
    <3>1. Target # None /\ From[Target] = From[msg[by]] /\ by # None
      BY <2>5 DEF RmFile, StoreInv, JobInv
    <3>2. \A m \in Msg : Going(m) = {}
      BY <2>5 DEF RmFile
    <3>3. \A m \in Msg : m \in files \ files' => m = Target
      BY <2>5 DEF RmFile
    <3>4. QED
      BY <3>1, <3>2, <3>3
  <2>6. CASE ServerStep
    BY <2>1, <2>4, <2>5, <2>6
    DEF ServerStep, StoreWrite, IncRef, DecRef, IncRefFails, DeleteFails, DecRefFails,
        RemoveFails, CancelBreaksOff
  <2>7. ASSUME NEW s \in Session, NEW m \in Msg, Submit(s, m) PROVE Kept
    BY <2>1, <2>7 DEF Submit
  <2>8. CASE Crash
    BY <2>1, <2>8 DEF Crash, Die
  <2>9. ASSUME NEW t \in 1 .. MaxId, Restart(t) PROVE Kept
    BY <2>1, <2>9 DEF Restart
  <2>10. CASE UNCHANGED vars
    BY <2>1, <2>10 DEF vars
  <2>11. QED
    BY <2>3, <2>6, <2>7, <2>8, <2>9, <2>10 DEF Next
<1>2. QED
  BY <1>1, Invariance, PTL DEF Spec, WithdrawnUnderItsFrom
-----------------------------------------------------------------------------
(* The refinement: which steps of the store its readers see. *)

(* With no row being written, readers see the articles table itself. *)
LEMMA StepUnseen ==
  ASSUME StoreInv, db # "write", db' # "write", UNCHANGED <<id, files>>
  PROVE  UNCHANGED Readers!spoolVars
BY DEF Readers!spoolVars, VisibleId

(* The row of an unfinished INSERT is revealed: it has the highest number. *)
LEMMA RowRevealed ==
  ASSUME StoreInv, db = "write", db' # "write", UNCHANGED id,
         files' \in {files, files \union {msg[by]}}
  PROVE  Readers!SpoolNext
<1> DEFINE m == msg[by]
<1>1. by \in Session /\ m \in Msg
  BY JobFacts DEF StoreInv
<1>2. Past(by) /\ id[m] # 0 /\ id[m] = lastId
  BY <1>1 DEF StoreInv, Past, OwnerInv, JobInv
<1>3. id[m] \in Readers!Number
  BY <1>1, <1>2, BoundAssumption DEF StoreInv, TypeOK, Readers!Number
<1>4. \A k \in Msg : VisibleId[k] < id[m]
  <2> SUFFICES ASSUME NEW k \in Msg PROVE VisibleId[k] < id[m]
    OBVIOUS
  <2>1. CASE k = m
    BY <1>3, <2>1 DEF VisibleId, Readers!Number
  <2>2. CASE k # m
    <3>1. id[k] <= id[m] /\ id[k] # id[m]
      BY <1>1, <1>2, <2>2 DEF StoreInv, RowInv
    <3>2. id[k] \in Nat /\ id[m] \in Nat
      BY <1>1, BoundAssumption DEF StoreInv, TypeOK
    <3>3. VisibleId[k] = id[k]
      BY <2>2 DEF VisibleId
    <3>4. QED
      BY <3>1, <3>2, <3>3
  <2>3. QED
    BY <2>1, <2>2
<1>5. VisibleId[m] = 0
  BY <1>1 DEF VisibleId
<1>6. VisibleId' = [VisibleId EXCEPT ![m] = id[m]]
  BY <1>1 DEF VisibleId
<1>7. Readers!Accept(m)
  BY <1>3, <1>4, <1>5, <1>6 DEF Readers!Accept
<1>8. QED
  BY <1>1, <1>7 DEF Readers!SpoolNext

(* The store implements Spool: its readers see every message numbered once,
   in growing order, and never again what was withdrawn. *)
THEOREM Refinement == Spec => ImplementsSpool
<1>1. Init => Readers!SpoolInit
  BY DEF Init, Readers!SpoolInit, VisibleId
<1>2. StoreInv /\ [Next]_vars => [Readers!SpoolNext]_(Readers!spoolVars)
  <2> DEFINE Seen == [Readers!SpoolNext]_(Readers!spoolVars)
  <2> SUFFICES ASSUME StoreInv, [Next]_vars PROVE Seen
    OBVIOUS
  <2> USE DEF disk, posts, server
  <2>1. ASSUME NEW s \in Session, NEW m \in Msg, Submit(s, m) PROVE Seen
    <3>1. by # s
      BY <2>1, NoneAssumption DEF Submit, StoreInv, JobInv, TypeOK
    <3>2. db = "write" => msg'[by] = msg[by]
      BY <2>1, <3>1 DEF Submit, StoreInv, TypeOK
    <3>3. VisibleId' = VisibleId
      BY <2>1, <3>2 DEF Submit, VisibleId
    <3>4. QED
      BY <2>1, <3>3 DEF Submit, Readers!spoolVars
  <2>2. ASSUME NEW s \in Session, NoControl(s) PROVE Seen
    <3>1. by # s
      BY <2>2, NoneAssumption DEF NoControl, StoreInv, JobInv, TypeOK, Target
    <3>2. db = "write" => msg'[by] = msg[by]
      <4>1. msg' \in {msg, [msg EXCEPT ![s] = None]}
        BY <2>2 DEF NoControl, LeaveControl, Return
      <4>2. QED
        BY <3>1, <4>1, JobFacts DEF StoreInv, TypeOK
    <3>3. VisibleId' = VisibleId
      BY <2>2, <3>2 DEF NoControl, VisibleId
    <3>4. QED
      BY <2>2, <3>3 DEF NoControl, Readers!spoolVars
  <2>3. ASSUME NEW s \in Session, Announce(s) PROVE Seen
    BY <2>3 DEF Announce, Readers!spoolVars, VisibleId
  <2>4. ASSUME NEW s \in Session, StoreInsert(s) PROVE Seen
    <3>1. CASE id[msg[s]] # 0
      BY <2>4, <3>1, StepUnseen DEF StoreInsert, Free
    <3>2. CASE id[msg[s]] = 0
      <4>1. VisibleId' = VisibleId
        BY <2>4, <3>2 DEF StoreInsert, Free, VisibleId, StoreInv, TypeOK
      <4>2. QED
        BY <2>4, <3>2, <4>1 DEF StoreInsert, Readers!spoolVars
    <3>3. QED
      BY <3>1, <3>2
  <2>8. CASE Die
    BY <2>8, StepUnseen, RowRevealed DEF Die, Reply
  <2>5. ASSUME NEW s \in Session, CancelLookup(s) PROVE Seen
    BY <2>5, <2>8, StepUnseen DEF CancelLookup, Free
  <2>6. ASSUME NEW s \in Session, NEW g \in Carried, AddIndex(s, g) PROVE Seen
    BY <2>6, StepUnseen DEF AddIndex, Free
  <2>7. ASSUME NEW left \in WriteLeaves, StoreWrite(left) PROVE Seen
    BY <2>7, RowRevealed DEF StoreWrite, Reply
  <2>9. CASE IncRef
    BY <2>9, StepUnseen DEF IncRef, Reply
  <2>10. CASE DelIndex
    BY <2>8, <2>10, StepUnseen DEF DelIndex, NextGroup, Reply
  <2>11. CASE DecRef
    BY <2>11, StepUnseen DEF DecRef, NextGroup, Reply
  <2>12. CASE RmFile
    <3>1. Target \in Msg /\ VisibleId' = VisibleId
      BY <2>12, JobFacts DEF RmFile, Reply, VisibleId, StoreInv
    <3>2. CASE Target \in files
      BY <2>12, <3>1, <3>2 DEF RmFile, Readers!Withdraw, Readers!SpoolNext
    <3>3. CASE Target \notin files
      BY <2>12, <3>1, <3>3 DEF RmFile, Readers!spoolVars
    <3>4. QED
      BY <3>2, <3>3
  <2>16. ASSUME NEW s \in Session, LookupFails(s) \/ StoreFails(s) \/ IndexFails(s)
         PROVE  Seen
    BY <2>16, StepUnseen DEF LookupFails, StoreFails, IndexFails, Free
  <2>17. CASE IncRefFails \/ DeleteFails \/ DecRefFails \/ RemoveFails
    BY <2>17, StepUnseen
    DEF IncRefFails, DeleteFails, DecRefFails, RemoveFails, CancelBreaksOff, Reply
  <2>13. ASSUME NEW t \in 1 .. MaxId, Restart(t) PROVE Seen
    BY <2>13 DEF Restart, Readers!spoolVars, VisibleId
  <2>14. CASE UNCHANGED vars
    BY <2>14 DEF vars, Readers!spoolVars, VisibleId
  <2>15. QED
    BY <2>1, <2>2, <2>3, <2>4, <2>5, <2>6, <2>7, <2>8, <2>9, <2>10, <2>11,
       <2>12, <2>13, <2>14, <2>16, <2>17 DEF Next, SessionStep, ServerStep, Crash
<1>3. QED
  BY <1>1, <1>2, Invariance, PTL DEF Spec, ImplementsSpool, Readers!SpoolSpec
-----------------------------------------------------------------------------
(* What refs counts, what the groups list, and which files there are. *)

(* The next write of dbServer makes up for this much of refs[m]. *)
Owed(m) ==
    IF db = "incref" /\ msg[by] = m THEN 1
    ELSE IF db = "decref" /\ Target = m THEN -1
    ELSE 0

(* The listings of m that refs does not count. *)
Spare(m) == Cardinality(Listings(m)) - (refs[m] + Owed(m))

UnrowedInv == \A m \in Msg : id[m] = 0 => refs[m] = 0 /\ m \notin hurt

(* refs counts the listings of every message that is not hurt. *)
CountInv == \A m \in Msg \ hurt : Spare(m) = 0

(* Its groups are still being written, or a cancel is about to look at what
   is left of them. *)
Busy(m) ==
    \/ \E s \in Session : pc[s] = "index" /\ msg[s] = m
    \/ db \in {"decref", "rmfile"} /\ Target = m

Needed(m) == Listings(m) # {} \/ Busy(m)

FileInv ==
    /\ \A s \in Session : pc[s] = "announce" /\ msg[s] \notin hurt => msg[s] \in files
    /\ db = "incref" => Listings(msg[by]) # {}
    /\ db = "rmfile" => refs[Target] = 0
    /\ \A m \in Msg \ hurt : announced[m] > 0 => (m \in files <=> Needed(m))

Uncancelled(m) == \A c \in Msg : Cancels[c] = m => copies[c] = 0

(* Of the messages nobody tries to cancel: at most one listing is left
   uncounted, nothing has failed yet while they are being posted, a post
   that is being indexed is listed where it may be but for the groups to
   come, and one that was is listed nowhere else. *)
SteadyInv ==
    /\ \A s \in Session : msg[s] # None => copies[msg[s]] > 0
    /\ \A m \in Msg : Uncancelled(m) => Spare(m) \in {0, 1}
    /\ \A s \in Session : Past(s) /\ Uncancelled(msg[s]) => msg[s] \notin hurt
    /\ \A s \in Session : pc[s] = "index" /\ Uncancelled(msg[s]) =>
            /\ todo[s] \subseteq Postable(s, msg[s])
            /\ Listings(msg[s]) = Postable(s, msg[s]) \ todo[s]
    /\ \A m \in Msg : Uncancelled(m) /\ announced[m] > 0 =>
            \/ \E s \in Session : pc[s] = "index" /\ msg[s] = m
            \/ \E s \in Session :
                  /\ Listings(m) \subseteq Postable(s, m)
                  /\ m \notin hurt => Listings(m) = Postable(s, m)

LEMMA Counted ==
  ASSUME StoreInv, NEW m \in Msg
  PROVE  /\ IsFiniteSet(Listings(m)) /\ Cardinality(Listings(m)) \in Nat
         /\ refs[m] \in Int /\ Owed(m) \in {-1, 0, 1}
<1>1. IsFiniteSet(Listings(m))
  BY GroupAssumption, FS_Subset DEF Listings
<1>2. QED
  BY <1>1, FS_CardinalityType DEF StoreInv, TypeOK, Owed

(* Steps that write neither, and are between no two writes of both. *)
LEMMA CountStays ==
  ASSUME NEW m \in Msg, UNCHANGED <<refs, index>>, Owed(m)' = Owed(m)
  PROVE  Spare(m)' = Spare(m) /\ Listings(m)' = Listings(m)
BY DEF Spare, Listings

LEMMA NothingOwed ==
  ASSUME NEW m \in Msg, db \notin {"incref", "decref"}
  PROVE  Owed(m) = 0
BY DEF Owed

LEMMA SessionOwes ==
  ASSUME StoreInv, NEW m \in Msg, UNCHANGED <<db, by>>,
         NEW s \in Session, by # s, \A t \in Session \ {s} : msg'[t] = msg[t]
  PROVE  Owed(m)' = Owed(m)
<1>1. CASE db = "idle"
  BY <1>1 DEF Owed
<1>2. CASE db # "idle"
  <2>1. by \in Session /\ msg'[by] = msg[by]
    BY <1>2, JobFacts DEF StoreInv
  <2>2. QED
    BY <2>1 DEF Owed, Target
<1>3. QED
  BY <1>1, <1>2

(* Nothing owed is left behind by a message that is half done. *)
LEMMA OwedIsHalfDone ==
  ASSUME StoreInv, NEW m \in Msg, m \notin HalfDone
  PROVE  Owed(m) = 0
<1>1. db = "incref" => by \in Session /\ Past(by)
  BY JobFacts DEF StoreInv, JobInv, Past
<1>2. QED
  BY <1>1 DEF Owed, HalfDone

LEMMA CountOfDeath ==
  ASSUME StoreInv, NEW m \in Msg, Die, m \notin hurt'
  PROVE  Spare(m)' = Spare(m)
<1>1. Owed(m) = 0 /\ Owed(m)' = 0 /\ UNCHANGED <<refs, index>>
  BY OwedIsHalfDone DEF Die, Reply, Owed
<1>2. QED
  BY <1>1, CountStays

(* The steps of a session but the INSERTs. *)
LEMMA CountOfSession ==
  ASSUME StoreInv, NEW m \in Msg, NEW s \in Session,
         \/ \E x \in Msg : Submit(s, x)
         \/ NoControl(s) \/ Announce(s) \/ CancelLookup(s)
         \/ LookupFails(s) \/ StoreFails(s) \/ IndexFails(s)
  PROVE  Spare(m)' = Spare(m) /\ Listings(m)' = Listings(m)
<1> USE DEF disk, server
<1>1. CASE CancelLookup(s) \/ LookupFails(s) \/ StoreFails(s) \/ IndexFails(s)
  <2>1. db = "idle" /\ db' \in {"idle", "delindex"} /\ UNCHANGED <<refs, index>>
    BY <1>1 DEF CancelLookup, LookupFails, StoreFails, IndexFails, Free, Die, Reply
  <2>2. Owed(m) = 0 /\ Owed(m)' = 0
    BY <2>1 DEF Owed
  <2>3. QED
    BY <2>1, <2>2, CountStays
<1>2. CASE (\E x \in Msg : Submit(s, x)) \/ NoControl(s) \/ Announce(s)
  <2>1. UNCHANGED <<refs, index, db, by>> /\ pc[s] \in {"idle", "control", "announce"}
    BY <1>2 DEF Submit, NoControl, Announce
  <2>2. \A t \in Session \ {s} : msg'[t] = msg[t]
    BY <1>2 DEF Submit, NoControl, Announce, LeaveControl, Return, StoreInv, TypeOK
  <2>3. CASE by # s
    <3>1. Owed(m)' = Owed(m)
      BY <2>1, <2>2, <2>3, SessionOwes
    <3>2. QED
      BY <2>1, <3>1, CountStays
  <2>4. CASE by = s
    <3>1. FALSE
      BY <1>2, <2>1, <2>4, NoneAssumption
      DEF Submit, NoControl, Announce, StoreInv, JobInv, TypeOK, Target
    <3>2. QED
      BY <3>1
  <2>5. QED
    BY <2>3, <2>4
<1>3. QED
  BY <1>1, <1>2

LEMMA CountOfInsert ==
  ASSUME StoreInv, UnrowedInv, NEW m \in Msg, NEW s \in Session, StoreInsert(s)
  PROVE  Spare(m)' = Spare(m) /\ Listings(m)' = Listings(m)
<1>1. db = "idle" /\ db' \in {"idle", "write"} /\ index' = index
  BY DEF StoreInsert, Free, disk, server
<1>2. msg[s] \in Msg
  BY DEF StoreInsert, StoreInv, TypeOK, SessionInv
<1>3. refs' = refs
  <2>1. CASE id[msg[s]] # 0
    BY <2>1 DEF StoreInsert, disk
  <2>2. CASE id[msg[s]] = 0
    <3>1. refs \in [Msg -> Int] /\ refs[msg[s]] = 0 /\ refs' = [refs EXCEPT ![msg[s]] = 0]
      BY <1>2, <2>2 DEF StoreInsert, StoreInv, TypeOK, UnrowedInv
    <3>2. QED
      BY <3>1
  <2>3. QED
    BY <2>1, <2>2
<1>4. Owed(m) = 0 /\ Owed(m)' = 0
  BY <1>1 DEF Owed
<1>5. QED
  BY <1>1, <1>3, <1>4, CountStays

(* The listing comes first, and the count after it. *)
LEMMA CountOfIndex ==
  ASSUME StoreInv, NEW m \in Msg, NEW s \in Session, NEW g \in Carried, AddIndex(s, g)
  PROVE  /\ Spare(m)' = Spare(m)
         /\ msg[s] \notin index[g] /\ todo' = [todo EXCEPT ![s] = @ \ {g}]
         /\ UNCHANGED <<refs, pc, msg>>
         /\ Listings(m)' = IF m = msg[s] THEN Listings(m) \union {g} ELSE Listings(m)
<1>1. /\ db = "idle" /\ pc[s] = "index" /\ g \in todo[s] /\ msg[s] \notin index[g]
  BY DEF AddIndex, Free, StoreInv, IndexNeverConflicts
<1>2. /\ index' = [index EXCEPT ![g] = @ \union {msg[s]}]
      /\ todo' = [todo EXCEPT ![s] = @ \ {g}]
      /\ db' = "incref" /\ by' = s /\ UNCHANGED <<refs, pc, msg>>
  BY <1>1 DEF AddIndex
<1>3. index \in [Carried -> SUBSET Msg]
  BY DEF StoreInv, TypeOK
<1>4. Listings(m)' = IF m = msg[s] THEN Listings(m) \union {g} ELSE Listings(m)
  BY <1>2, <1>3 DEF Listings
<1>5. Owed(m) = 0 /\ Owed(m)' = IF m = msg[s] THEN 1 ELSE 0
  BY <1>1, <1>2 DEF Owed
<1>6. CASE m = msg[s]
  <2>1. g \notin Listings(m)
    BY <1>1, <1>6 DEF Listings
  <2>2. Cardinality(Listings(m)') = Cardinality(Listings(m)) + 1
    BY <1>4, <1>6, <2>1, Counted, FS_AddElement
  <2>3. QED
    BY <1>1, <1>2, <1>4, <1>5, <1>6, <2>2, Counted DEF Spare
<1>7. CASE m # msg[s]
  BY <1>1, <1>2, <1>4, <1>5, <1>7 DEF Spare
<1>8. QED
  BY <1>6, <1>7

LEMMA CountOfIncRef ==
  ASSUME StoreInv, NEW m \in Msg, IncRef
  PROVE  Spare(m)' = Spare(m) /\ Listings(m)' = Listings(m)
<1>1. /\ db = "incref" /\ db' = "idle" /\ index' = index /\ msg[by] \in Msg
      /\ refs' = [refs EXCEPT ![msg[by]] = @ + 1] /\ refs \in [Msg -> Int]
  BY JobFacts DEF IncRef, Reply, StoreInv, TypeOK
<1>2. Owed(m)' = 0 /\ Owed(m) = IF m = msg[by] THEN 1 ELSE 0
  BY <1>1 DEF Owed
<1>3. refs'[m] = IF m = msg[by] THEN refs[m] + 1 ELSE refs[m]
  BY <1>1
<1>4. Listings(m)' = Listings(m)
  BY <1>1 DEF Listings
<1>5. QED
  BY <1>2, <1>3, <1>4, Counted DEF Spare

(* The group lists the article, and the count will not follow. *)
LEMMA CountOfIncRefFails ==
  ASSUME StoreInv, NEW m \in Msg, IncRefFails
  PROVE  /\ Spare(m)' = IF m = msg[by] THEN Spare(m) + 1 ELSE Spare(m)
         /\ Listings(m)' = Listings(m)
<1>1. db = "incref" /\ db' = "idle" /\ UNCHANGED <<refs, index>>
  BY DEF IncRefFails, Reply, disk
<1>2. Owed(m)' = 0 /\ Owed(m) = IF m = msg[by] THEN 1 ELSE 0
  BY <1>1 DEF Owed
<1>3. Listings(m)' = Listings(m)
  BY <1>1 DEF Listings
<1>4. QED
  BY <1>1, <1>2, <1>3, Counted DEF Spare

(* A cancel takes the listing away before it is counted; one that was not
   there hurts the article. *)
LEMMA CountOfDelIndex ==
  ASSUME StoreInv, NEW m \in Msg, DelIndex
  PROVE  /\ m \notin hurt' => Spare(m)' = Spare(m)
         /\ m # Target => Listings(m)' = Listings(m) /\ (~Die => Spare(m)' = Spare(m))
<1>1. db = "delindex" /\ Owed(m) = 0 /\ Target \in Msg
  BY JobFacts DEF DelIndex, Owed, StoreInv
<1>2. CASE UNCHANGED <<refs, index>> /\ db' \notin {"incref", "decref"}
  <2>1. Owed(m)' = 0
    BY <1>2 DEF Owed
  <2>2. QED
    BY <1>1, <1>2, <2>1, CountStays
<1>3. CASE /\ Head(del) \in GroupsOf(Target) \intersect (Carried \ Dotless)
           /\ index' = [index EXCEPT ![Head(del)] = @ \ {Target}]
           /\ hurt' = IF Target \in index[Head(del)] THEN hurt ELSE hurt \union {Target}
           /\ db' = "decref" /\ UNCHANGED <<refs, posts, by>>
  <2> DEFINE g == Head(del)
  <2>1. /\ g \in Carried /\ index' = [index EXCEPT ![g] = @ \ {Target}]
        /\ Target \notin index[g] => Target \in hurt'
        /\ UNCHANGED <<refs, msg, by>> /\ index \in [Carried -> SUBSET Msg]
    BY <1>3 DEF posts, StoreInv, TypeOK
  <2> HIDE DEF g
  <2>2. Listings(m)' = IF m = Target THEN Listings(m) \ {g} ELSE Listings(m)
    BY <2>1 DEF Listings
  <2>3. Owed(m)' = IF m = Target THEN -1 ELSE 0
    BY <1>3, <2>1 DEF Owed, Target
  <2>4. CASE m = Target /\ m \notin hurt'
    <3>1. g \in Listings(m)
      BY <2>1, <2>4 DEF Listings
    <3>2. Cardinality(Listings(m) \ {g}) = Cardinality(Listings(m)) - 1
      BY <3>1, Counted, FS_RemoveElement
    <3>3. Listings(m)' = Listings(m) \ {g} /\ Owed(m)' = -1 /\ refs'[m] = refs[m]
      BY <2>1, <2>2, <2>3, <2>4
    <3>4. QED
      BY <1>1, <2>4, <3>2, <3>3, Counted DEF Spare
  <2>5. CASE m # Target
    BY <1>1, <2>1, <2>2, <2>3, <2>5 DEF Spare
  <2>6. QED
    BY <2>4, <2>5
<1>4. QED
  BY <1>2, <1>3 DEF DelIndex, NextGroup, Die, Reply, disk

LEMMA CountOfDecRef ==
  ASSUME StoreInv, NEW m \in Msg, DecRef
  PROVE  Spare(m)' = Spare(m) /\ Listings(m)' = Listings(m)
<1>1. /\ db = "decref" /\ db' \in {"rmfile", "idle", "delindex"} /\ index' = index
      /\ Target \in Msg
      /\ refs' = [refs EXCEPT ![Target] = @ - 1] /\ refs \in [Msg -> Int]
  BY JobFacts DEF DecRef, NextGroup, Reply, StoreInv, TypeOK
<1>2. Owed(m)' = 0 /\ Owed(m) = IF m = Target THEN -1 ELSE 0
  BY <1>1 DEF Owed
<1>3. refs'[m] = IF m = Target THEN refs[m] - 1 ELSE refs[m]
  BY <1>1
<1>4. Listings(m)' = Listings(m)
  BY <1>1 DEF Listings
<1>5. QED
  BY <1>2, <1>3, <1>4, Counted DEF Spare

(* The steps of dbServer and of the process that touch neither. *)
LEMMA CountOfRest ==
  ASSUME StoreInv, NEW m \in Msg,
         \/ \E left \in WriteLeaves : StoreWrite(left)
         \/ RmFile \/ DeleteFails \/ RemoveFails
         \/ \E t \in 1 .. MaxId : Restart(t)
         \/ UNCHANGED vars
  PROVE  Spare(m)' = Spare(m) /\ Listings(m)' = Listings(m)
<1> USE DEF disk, server
<1>1. CASE \/ \E left \in WriteLeaves : StoreWrite(left)
           \/ RmFile \/ DeleteFails \/ RemoveFails
  <2>1. /\ db \in {"write", "delindex", "rmfile"} /\ db' = "idle" /\ UNCHANGED <<refs, index>>
    BY <1>1 DEF StoreWrite, RmFile, DeleteFails, RemoveFails, CancelBreaksOff, Reply
  <2>2. Owed(m) = 0 /\ Owed(m)' = 0
    BY <2>1 DEF Owed
  <2>3. QED
    BY <2>1, <2>2, CountStays
<1>2. CASE \E t \in 1 .. MaxId : Restart(t)
  <2>1. UNCHANGED <<refs, index, db, by, msg>>
    BY <1>2 DEF Restart, posts
  <2>2. QED
    BY <2>1, CountStays DEF Owed, Target
<1>3. CASE UNCHANGED vars
  <2>1. UNCHANGED <<refs, index, db, by, msg>>
    BY <1>3 DEF vars, posts
  <2>2. QED
    BY <2>1, CountStays DEF Owed, Target
<1>4. QED
  BY <1>1, <1>2, <1>3

(* The UPDATE of a cancel fails. *)
LEMMA CountOfDecRefFails ==
  ASSUME StoreInv, NEW m \in Msg, DecRefFails
  PROVE  /\ m # Target => Spare(m)' = Spare(m)
         /\ Listings(m)' = Listings(m) /\ Target \in hurt'
<1>1. db = "decref" /\ db' = "idle" /\ UNCHANGED <<refs, index>> /\ Target \in hurt'
  BY DEF DecRefFails, CancelBreaksOff, Reply, disk
<1>2. m # Target => Owed(m) = 0 /\ Owed(m)' = 0
  BY <1>1 DEF Owed
<1>3. QED
  BY <1>1, <1>2, CountStays DEF Listings

LEMMA HurtStays ==
  ASSUME StoreInv, [Next]_vars
  PROVE  hurt \subseteq hurt'
BY DEF Next, SessionStep, ServerStep, Submit, NoControl, Announce, StoreInsert, CancelLookup,
       AddIndex, LookupFails, StoreFails, IndexFails, StoreWrite, IncRef, DelIndex, DecRef, RmFile,
       IncRefFails, DeleteFails, DecRefFails, RemoveFails, Crash, Die, Restart, vars, faults

(* All steps together. *)
LEMMA CountOfStep ==
  ASSUME StoreInv, UnrowedInv, [Next]_vars, NEW m \in Msg, m \notin hurt'
  PROVE  Spare(m)' = Spare(m)
<1>1. CASE Crash
  BY <1>1, CountOfDeath DEF Crash
<1>2. CASE DelIndex
  BY <1>2, CountOfDelIndex
<1>3. CASE IncRefFails
  <2>1. m # msg[by]
    BY <1>3 DEF IncRefFails
  <2>2. QED
    BY <1>3, <2>1, CountOfIncRefFails
<1>4. CASE DecRefFails
  BY <1>4, CountOfDecRefFails
<1>5. CASE ~Crash /\ ~DelIndex /\ ~IncRefFails /\ ~DecRefFails
  BY <1>5, CountOfSession, CountOfInsert, CountOfIndex, CountOfIncRef, CountOfDecRef,
     CountOfRest
  DEF Next, SessionStep, ServerStep
<1>6. QED
  BY <1>1, <1>2, <1>3, <1>4, <1>5

LEMMA CountKeeps ==
  ASSUME StoreInv, UnrowedInv, CountInv, [Next]_vars
  PROVE  CountInv'
BY CountOfStep, HurtStays DEF CountInv

LEMMA UnrowedKeeps ==
  ASSUME StoreInv, UnrowedInv, [Next]_vars
  PROVE  UnrowedInv'
<1> SUFFICES ASSUME NEW m \in Msg, id'[m] = 0
             PROVE  refs'[m] = 0 /\ m \notin hurt'
  BY DEF UnrowedInv
<1> USE DEF disk, faults
<1>1. ASSUME UNCHANGED <<id, refs, hurt>> PROVE refs'[m] = 0 /\ m \notin hurt'
  BY <1>1 DEF UnrowedInv
<1>2. ASSUME NEW x \in Msg, id[x] # 0, hurt' \subseteq hurt \union {x},
             UNCHANGED id, \A y \in Msg \ {x} : refs'[y] = refs[y]
      PROVE  refs'[m] = 0 /\ m \notin hurt'
  BY <1>2 DEF UnrowedInv
<1>3. ASSUME NEW s \in Session, StoreInsert(s) PROVE refs'[m] = 0 /\ m \notin hurt'
  <2>1. CASE id[msg[s]] # 0
    BY <1>1, <1>3, <2>1 DEF StoreInsert
  <2>2. CASE id[msg[s]] = 0
    <3>1. /\ id \in [Msg -> 0 .. MaxId] /\ refs \in [Msg -> Int]
          /\ id' = [id EXCEPT ![msg[s]] = lastId + 1] /\ lastId + 1 # 0
          /\ refs' = [refs EXCEPT ![msg[s]] = 0] /\ hurt' = hurt
      BY <1>3, <2>2, BoundAssumption DEF StoreInsert, StoreInv, TypeOK
    <3>2. id[m] = 0 /\ refs[m] = 0 /\ m \notin hurt
      BY <3>1, <2>2 DEF UnrowedInv
    <3>3. QED
      BY <3>1, <3>2
  <2>3. QED
    BY <2>1, <2>2
<1>4. CASE Die
  <2>1. \A x \in HalfDone : id[x] # 0
    <3>1. \A s \in Session : Past(s) => id[msg[s]] # 0
      BY DEF StoreInv, OwnerInv
    <3>2. db \in {"decref", "rmfile"} => id[Target] # 0
      BY DEF StoreInv, JobInv
    <3>3. QED
      BY <3>1, <3>2 DEF HalfDone
  <2>2. QED
    BY <1>4, <2>1 DEF Die, UnrowedInv
<1>5. CASE IncRef \/ IncRefFails
  <2>1. by \in Session /\ msg[by] \in Msg /\ id' = id /\ id[msg[by]] # 0
    BY <1>5, JobFacts DEF IncRef, IncRefFails, StoreInv, JobInv, OwnerInv, Past
  <2>2. hurt' \subseteq hurt \union {msg[by]} /\ \A y \in Msg \ {msg[by]} : refs'[y] = refs[y]
    BY <1>5 DEF IncRef, IncRefFails, StoreInv, TypeOK
  <2>3. QED
    BY <1>2, <2>1, <2>2
<1>6. CASE ~Die /\ (DelIndex \/ DecRef \/ RmFile \/ DeleteFails \/ DecRefFails \/ RemoveFails)
  <2>1. db \in {"delindex", "decref", "rmfile"} /\ id' = id
    BY <1>6 DEF DelIndex, DecRef, RmFile, DeleteFails, DecRefFails, RemoveFails, CancelBreaksOff
  <2>2. Target \in Msg /\ id[Target] # 0
    BY <2>1, JobFacts DEF StoreInv, JobInv
  <2>3. hurt' \subseteq hurt \union {Target} /\ \A y \in Msg \ {Target} : refs'[y] = refs[y]
    BY <1>6 DEF DelIndex, DecRef, RmFile, DeleteFails, DecRefFails, RemoveFails, CancelBreaksOff,
                StoreInv, TypeOK
  <2>4. QED
    BY <1>2, <2>1, <2>2, <2>3
<1>7. ASSUME NEW s \in Session, SessionStep(s), ~Die, ~StoreInsert(s)
      PROVE  refs'[m] = 0 /\ m \notin hurt'
  <2>1. CASE IndexFails(s)
    <3>1. msg[s] \in Msg /\ id[msg[s]] # 0
      BY <2>1 DEF IndexFails, StoreInv, SessionInv, TypeOK, OwnerInv, Past
    <3>2. UNCHANGED <<id, refs>> /\ hurt' = hurt \union {msg[s]}
      BY <2>1 DEF IndexFails
    <3>3. QED
      BY <1>2, <3>1, <3>2
  <2>2. CASE ~IndexFails(s)
    <3>1. UNCHANGED <<id, refs, hurt>>
      BY <1>7, <2>2 DEF SessionStep, NoControl, Announce, CancelLookup, AddIndex, LookupFails,
                        StoreFails
    <3>2. QED
      BY <1>1, <3>1
  <2>3. QED
    BY <2>1, <2>2
<1>8. ASSUME NEW left \in WriteLeaves, StoreWrite(left) PROVE refs'[m] = 0 /\ m \notin hurt'
  BY <1>1, <1>8 DEF StoreWrite
<1>9. ASSUME NEW s \in Session, NEW x \in Msg, Submit(s, x) PROVE refs'[m] = 0 /\ m \notin hurt'
  BY <1>1, <1>9 DEF Submit
<1>10. ASSUME NEW t \in 1 .. MaxId, Restart(t) PROVE refs'[m] = 0 /\ m \notin hurt'
  BY <1>1, <1>10 DEF Restart
<1>11. CASE UNCHANGED vars
  BY <1>1, <1>11 DEF vars
<1>12. QED
  BY <1>3, <1>4, <1>5, <1>6, <1>7, <1>8, <1>9, <1>10, <1>11 DEF Next, ServerStep, Crash

LEMMA InitialCount == Init => UnrowedInv /\ CountInv /\ FileInv /\ SteadyInv
<1> SUFFICES ASSUME Init PROVE UnrowedInv /\ CountInv /\ FileInv /\ SteadyInv
  OBVIOUS
<1> USE DEF Init
<1>1. \A m \in Msg : Listings(m) = {} /\ Owed(m) = 0 /\ refs[m] = 0
  BY DEF Listings, Owed
<1>2. ASSUME NEW m \in Msg PROVE Spare(m) = 0
  <2>1. Cardinality(Listings(m)) = 0
    BY <1>1, FS_EmptySet
  <2>2. QED
    BY <1>1, <2>1 DEF Spare
<1>3. UnrowedInv /\ CountInv /\ FileInv
  BY <1>2 DEF UnrowedInv, CountInv, FileInv
<1>4. SteadyInv
  BY <1>2 DEF SteadyInv, Past
<1>5. QED
  BY <1>3, <1>4

-----------------------------------------------------------------------------
(* The file and the listings. *)

(* The death of the process interrupts whatever is under way. *)
LEMMA DeadAreIdle ==
  ASSUME StoreInv, Die, NEW m \in Msg
  PROVE  /\ ~Busy(m)' /\ (Busy(m) => m \in hurt')
         /\ \A s \in Session : ~Past(s)' /\ (Past(s) => msg[s] \in hurt')
<1>1. \A s \in Session : Past(s) => msg[s] \in Msg
  BY DEF StoreInv, TypeOK, SessionInv, JobInv, Past
<1>2. \A s \in Session : ~Past(s)' /\ (Past(s) => msg[s] \in hurt')
  BY <1>1 DEF Die, Reply, HalfDone, Past
<1>3. ~Busy(m)' /\ (Busy(m) => m \in hurt')
  BY DEF Die, Reply, HalfDone, Past, Busy
<1>4. QED
  BY <1>2, <1>3

(* A step that leaves files and announcements alone, and needs a file after
   it that it needed before. *)
LEMMA FileQuiet ==
  ASSUME FileInv, UNCHANGED <<files, announced>>, hurt \subseteq hurt',
         SessionInv, msg \in [Session -> Msg \union {None}],
         \A s \in Session : pc'[s] = "announce" => pc[s] = "announce" /\ msg'[s] = msg[s],
         \A m \in Msg \ hurt' : Needed(m)' = Needed(m),
         db' = "incref" => Listings(msg[by])' # {},
         db' = "rmfile" => (refs[Target])' = 0
  PROVE  FileInv'
BY DEF FileInv

(* One session moves, and not to or from the places that need a file. *)
LEMMA BusyElsewhere ==
  ASSUME NEW s \in Session, pc[s] # "index", pc'[s] # "index", NEW m \in Msg,
         \A t \in Session \ {s} : pc'[t] = pc[t] /\ msg'[t] = msg[t],
         db \notin {"decref", "rmfile"}, db' \notin {"decref", "rmfile"},
         UNCHANGED index
  PROVE  Needed(m)' = Needed(m)
<1>1. (\E t \in Session : pc[t] = "index" /\ msg[t] = m)'
        = (\E t \in Session : pc[t] = "index" /\ msg[t] = m)
  OBVIOUS
<1>2. QED
  BY <1>1 DEF Needed, Busy, Listings

LEMMA FileOfSession ==
  ASSUME StoreInv, StoreInv', FileInv, NEW s \in Session, ~Die,
         \/ \E x \in Msg : Submit(s, x)
         \/ NoControl(s) \/ StoreInsert(s) \/ CancelLookup(s)
         \/ LookupFails(s) \/ StoreFails(s)
  PROVE  FileInv'
<1>1. /\ UNCHANGED <<files, announced, index, hurt>>
      /\ pc[s] \in {"idle", "control", "store"} /\ pc'[s] \in {"idle", "control", "store"}
      /\ \A t \in Session \ {s} : pc'[t] = pc[t] /\ msg'[t] = msg[t]
  BY DEF Submit, NoControl, StoreInsert, CancelLookup, LookupFails, StoreFails, LeaveControl,
         Return, StoreInv, TypeOK, disk, posts, bounds, faults
<1>2. CASE NoControl(s) \/ \E x \in Msg : Submit(s, x)
  <2>1. UNCHANGED <<refs, db, by>> /\ by # s
    BY <1>2, NoneAssumption
    DEF NoControl, Submit, disk, server, StoreInv, JobInv, TypeOK, Target
  <2>2. db # "idle" => by \in Session /\ msg'[by] = msg[by]
    BY <1>1, <2>1, JobFacts DEF StoreInv
  <2>3. \A m \in Msg : Needed(m)' = Needed(m)
    BY <1>1, <2>1, <2>2 DEF Needed, Busy, Listings, Target
  <2>4. db' = "incref" => Listings(msg[by])' # {}
    BY <1>1, <2>1, <2>2 DEF FileInv, Listings
  <2>5. db' = "rmfile" => (refs[Target])' = 0
    BY <2>1, <2>2 DEF FileInv, Target
  <2>6. QED
    BY <1>1, <2>3, <2>4, <2>5, FileQuiet DEF StoreInv, TypeOK
<1>3. CASE StoreInsert(s) \/ CancelLookup(s) \/ LookupFails(s) \/ StoreFails(s)
  <2>1. db = "idle" /\ db' \in {"idle", "write", "delindex"}
    BY <1>3 DEF StoreInsert, CancelLookup, LookupFails, StoreFails, Free, server
  <2>2. \A m \in Msg : Needed(m)' = Needed(m)
    BY <1>1, <2>1, BusyElsewhere
  <2>3. QED
    BY <1>1, <2>1, <2>2, FileQuiet DEF StoreInv, TypeOK
<1>4. QED
  BY <1>2, <1>3

LEMMA FileOfDeath ==
  ASSUME StoreInv, FileInv, Die, announced' = announced
  PROVE  FileInv'
<1>1. \A m \in Msg \ hurt' : Needed(m)' = Needed(m)
  BY DeadAreIdle DEF Needed, Listings, Die
<1>2. QED
  BY <1>1, FileQuiet DEF Die, Reply, StoreInv, TypeOK

LEMMA FileOfAnnounce ==
  ASSUME StoreInv, FileInv, NEW s \in Session, Announce(s)
  PROVE  FileInv'
<1> DEFINE x == msg[s]
<1>1. /\ pc[s] = "announce" /\ x \in Msg /\ pc' = [pc EXCEPT ![s] = "index"]
      /\ announced' = [announced EXCEPT ![x] = @ + 1]
      /\ UNCHANGED <<files, index, refs, msg, db, by, hurt>>
      /\ pc \in [Session -> {"idle", "control", "store", "announce", "index"}]
      /\ announced \in [Msg -> Nat]
  BY DEF Announce, StoreInv, SessionInv, TypeOK, disk, server, faults
<1>2. x \notin hurt => x \in files
  BY <1>1 DEF FileInv
<1>3. Busy(x)'
  BY <1>1 DEF Busy
<1>4. \A m \in Msg \ {x} : Needed(m)' = Needed(m) /\ announced'[m] = announced[m]
  BY <1>1 DEF Needed, Busy, Listings, Target
<1>5. \A m \in Msg \ hurt' : announced'[m] > 0 => (m \in files' <=> Needed(m)')
  BY <1>1, <1>2, <1>3, <1>4 DEF FileInv, Needed
<1>6. \A t \in Session : pc'[t] = "announce" /\ msg'[t] \notin hurt' => msg'[t] \in files'
  BY <1>1 DEF FileInv
<1>7. (db = "incref" => Listings(msg[by]) # {})' /\ (db = "rmfile" => refs[Target] = 0)'
  BY <1>1 DEF FileInv, Listings, Target
<1>8. QED
  BY <1>5, <1>6, <1>7 DEF FileInv

LEMMA FileOfIndex ==
  ASSUME StoreInv, FileInv, NEW s \in Session, NEW g \in Carried, AddIndex(s, g)
  PROVE  FileInv'
<1>1. /\ pc[s] = "index" /\ db = "idle" /\ db' = "incref" /\ by' = s
      /\ UNCHANGED <<files, announced, pc, msg, hurt>>
  BY CountOfIndex DEF AddIndex, Free, StoreInv, IndexNeverConflicts, bounds, faults
<1>2. \A m \in Msg :
         Listings(m)' = IF m = msg[s] THEN Listings(m) \union {g} ELSE Listings(m)
  BY CountOfIndex
<1>3. \A m \in Msg : Needed(m)' = Needed(m)
  BY <1>1, <1>2 DEF Needed, Busy
<1>4. PICK x \in Msg : x = msg[s]
  BY <1>1 DEF StoreInv, SessionInv, TypeOK
<1>5. Listings(msg[by])' # {}
  <2>1. Listings(x)' # {}
    BY <1>2, <1>4
  <2>2. QED
    BY <1>1, <1>4, <2>1 DEF Listings
<1>6. QED
  BY <1>1, <1>3, <1>5, FileQuiet DEF StoreInv, TypeOK

LEMMA FileOfIndexFails ==
  ASSUME StoreInv, FileInv, NEW s \in Session, IndexFails(s)
  PROVE  FileInv'
<1>1. /\ pc[s] = "index" /\ db = "idle" /\ db' = "idle" /\ hurt' = hurt \union {msg[s]}
      /\ UNCHANGED <<files, announced, index>> /\ pc'[s] = "idle"
      /\ \A t \in Session \ {s} : pc'[t] = pc[t] /\ msg'[t] = msg[t]
  BY DEF IndexFails, Free, Return, disk, server, bounds, StoreInv, TypeOK
<1>2. \A m \in Msg \ hurt' : Needed(m)' = Needed(m)
  BY <1>1 DEF Needed, Busy, Listings
<1>3. QED
  BY <1>1, <1>2, FileQuiet DEF StoreInv, TypeOK

LEMMA FileOfWrite ==
  ASSUME StoreInv, FileInv, NEW left \in WriteLeaves, StoreWrite(left)
  PROVE  FileInv'
<1>1. /\ db = "write" /\ db' = "idle" /\ by \in Session /\ msg[by] \in Msg /\ pc[by] = "store"
      /\ announced[msg[by]] = 0 /\ UNCHANGED <<announced, index, hurt>>
  BY JobFacts DEF StoreWrite, Reply, StoreInv, JobInv, FreshInv, bounds, faults
<1> PICK s \in Session : s = by
  BY <1>1
<1>2. CASE left # "whole"
  <2>1. /\ files' = files /\ pc'[s] = "idle"
        /\ \A t \in Session \ {s} : pc'[t] = pc[t] /\ msg'[t] = msg[t]
    BY <1>2 DEF StoreWrite, Return, StoreInv, TypeOK
  <2>2. \A m \in Msg : Needed(m)' = Needed(m)
    BY <1>1, <2>1, BusyElsewhere
  <2>3. QED
    BY <1>1, <2>1, <2>2, FileQuiet DEF StoreInv, TypeOK
<1>3. CASE left = "whole"
  <2>1. /\ files' = files \union {msg[s]} /\ msg' = msg /\ pc'[s] = "announce"
        /\ \A t \in Session \ {s} : pc'[t] = pc[t]
    BY <1>3 DEF StoreWrite, StoreInv, TypeOK
  <2>2. \A m \in Msg : Needed(m)' = Needed(m)
    BY <1>1, <2>1, BusyElsewhere
  <2>3. QED
    BY <1>1, <2>1, <2>2 DEF FileInv
<1>4. QED
  BY <1>2, <1>3

(* The article is listed before it is counted, so that the session that ends
   after the last group leaves a listing behind. *)
LEMMA FileOfIncRef ==
  ASSUME StoreInv, FileInv, IncRef \/ IncRefFails
  PROVE  FileInv'
<1>1. /\ db = "incref" /\ db' = "idle" /\ by \in Session /\ msg[by] \in Msg /\ pc[by] = "index"
      /\ Listings(msg[by]) # {} /\ UNCHANGED <<files, announced, index>> /\ hurt \subseteq hurt'
  BY JobFacts DEF IncRef, IncRefFails, Reply, StoreInv, JobInv, FileInv, bounds, faults, disk
<1> PICK s \in Session : s = by
  BY <1>1
<1>2. /\ \A t \in Session \ {s} : pc'[t] = pc[t] /\ msg'[t] = msg[t]
      /\ pc'[s] = "idle" \/ (pc'[s] = pc[s] /\ msg'[s] = msg[s])
  BY DEF IncRef, IncRefFails, Return, posts, StoreInv, TypeOK
<1>3. \A m \in Msg : Needed(m)' = Needed(m)
  <2> SUFFICES ASSUME NEW m \in Msg PROVE Needed(m)' = Needed(m)
    OBVIOUS
  <2>1. CASE m = msg[s]
    BY <1>1, <2>1 DEF Needed, Listings
  <2>2. CASE m # msg[s]
    BY <1>1, <1>2, <2>2 DEF Needed, Busy, Listings
  <2>3. QED
    BY <2>1, <2>2
<1>4. QED
  BY <1>1, <1>2, <1>3, FileQuiet DEF StoreInv, TypeOK

(* What dbServer does for a cancel: its session is in CheckControl. *)
LEMMA FileOfCancel ==
  ASSUME StoreInv, CountInv, FileInv, ~Die,
         DelIndex \/ DecRef \/ RmFile \/ DeleteFails \/ DecRefFails \/ RemoveFails
  PROVE  FileInv'
<1>1. /\ db \in {"delindex", "decref", "rmfile"} /\ Target \in Msg
      /\ by \in Session /\ msg[by] \in Msg /\ pc[by] = "control"
      /\ announced' = announced /\ hurt \subseteq hurt'
  <2>1. db \in {"delindex", "decref", "rmfile"} /\ announced' = announced /\ hurt \subseteq hurt'
    BY DEF DelIndex, DecRef, RmFile, DeleteFails, DecRefFails, RemoveFails, CancelBreaksOff,
           bounds, faults
  <2>2. QED
    BY <2>1, JobFacts DEF StoreInv, JobInv
<1> PICK s \in Session : s = by
  BY <1>1
<1>2. /\ \A t \in Session \ {s} : pc'[t] = pc[t] /\ msg'[t] = msg[t]
      /\ pc'[s] \in {"idle", "control", "store"}
  BY <1>1 DEF DelIndex, DecRef, RmFile, DeleteFails, DecRefFails, RemoveFails, CancelBreaksOff,
              NextGroup, LeaveControl, Return, posts, StoreInv, TypeOK
<1>3. \A m \in Msg : (\E t \in Session : pc[t] = "index" /\ msg[t] = m)'
                        = (\E t \in Session : pc[t] = "index" /\ msg[t] = m)
  BY <1>1, <1>2
<1>4. \A t \in Session : pc'[t] = "announce" => pc[t] = "announce" /\ msg'[t] = msg[t]
  BY <1>2
<1>5. ASSUME files' = files, db' \notin {"incref", "rmfile"},
             \A m \in Msg \ hurt' : Needed(m)' = Needed(m)
      PROVE  FileInv'
  BY <1>1, <1>4, <1>5, FileQuiet DEF StoreInv, TypeOK
<1>6. CASE DeleteFails \/ DecRefFails \/ RemoveFails
  <2>1. /\ files' = files /\ index' = index /\ db' = "idle"
        /\ db \in {"decref", "rmfile"} => Target \in hurt'
    BY <1>6 DEF DeleteFails, DecRefFails, RemoveFails, CancelBreaksOff, Reply, disk
  <2>2. \A m \in Msg \ hurt' : Needed(m)' = Needed(m)
    BY <1>3, <2>1 DEF Needed, Busy, Listings
  <2>3. QED
    BY <1>5, <2>1, <2>2
<1>7. CASE DelIndex
  <2>1. CASE UNCHANGED <<files, index>> /\ db = "delindex" /\ db' \in {"idle", "delindex"}
    <3>1. \A m \in Msg : Needed(m)' = Needed(m)
      BY <1>3, <2>1 DEF Needed, Busy, Listings
    <3>2. QED
      BY <1>5, <2>1, <3>1
  <2>2. CASE /\ Head(del) \in GroupsOf(Target) \intersect (Carried \ Dotless)
             /\ index' = [index EXCEPT ![Head(del)] = @ \ {Target}]
             /\ hurt' = IF Target \in index[Head(del)] THEN hurt ELSE hurt \union {Target}
             /\ db = "delindex" /\ db' = "decref" /\ UNCHANGED <<files, posts, by>>
    <3>1. ASSUME NEW m \in Msg \ hurt' PROVE Needed(m)' = Needed(m)
      <4>1. CASE m = Target
        <5>1. Head(del) \in Listings(m)
          BY <2>2, <3>1, <4>1 DEF Listings
        <5>2. Busy(m)'
          BY <2>2, <4>1 DEF Busy, Target, posts
        <5>3. QED
          BY <5>1, <5>2 DEF Needed
      <4>2. CASE m # Target
        <5>1. Listings(m)' = Listings(m)
          BY <2>2, <4>2 DEF Listings, StoreInv, TypeOK
        <5>2. Busy(m)' = Busy(m)
          BY <1>3, <2>2, <4>2 DEF Busy, Target, posts
        <5>3. QED
          BY <5>1, <5>2 DEF Needed
      <4>3. QED
        BY <4>1, <4>2
    <3>2. QED
      BY <1>5, <2>2, <3>1
  <2>3. QED
    BY <1>7, <2>1, <2>2 DEF DelIndex, NextGroup, Reply, disk
<1>8. CASE DecRef
  <2>1. /\ db = "decref" /\ UNCHANGED <<files, index, hurt>>
        /\ refs' = [refs EXCEPT ![Target] = @ - 1] /\ refs \in [Msg -> Int]
    BY <1>8 DEF DecRef, StoreInv, TypeOK, faults
  <2>2. CASE refs[Target] = 1
    <3>1. db' = "rmfile" /\ UNCHANGED <<by, posts>> /\ refs'[Target] = 0
      BY <1>1, <1>8, <2>1, <2>2 DEF DecRef
    <3>2. \A m \in Msg : Needed(m)' = Needed(m)
      BY <1>3, <2>1, <3>1 DEF Needed, Busy, Listings, Target, posts
    <3>3. (refs[Target])' = 0
      BY <3>1 DEF Target, posts
    <3>4. QED
      BY <1>1, <1>4, <2>1, <3>1, <3>2, <3>3, FileQuiet DEF StoreInv, TypeOK
  <2>3. CASE refs[Target] # 1
    <3>1. db' \in {"idle", "delindex"}
      BY <1>8, <2>3 DEF DecRef, NextGroup, Reply
    <3>2. ASSUME Target \notin hurt PROVE Listings(Target) # {}
      <4>1. Spare(Target) = 0 /\ Owed(Target) = -1
        BY <1>1, <2>1, <3>2 DEF CountInv, Owed
      <4>2. Cardinality(Listings(Target)) # 0
        BY <1>1, <2>3, <4>1, Counted DEF Spare
      <4>3. QED
        BY <4>2, FS_EmptySet
    <3>3. \A m \in Msg \ hurt' : Needed(m)' = Needed(m)
      BY <1>3, <2>1, <3>1, <3>2 DEF Needed, Busy, Listings
    <3>4. QED
      BY <1>5, <2>1, <3>1, <3>3
  <2>4. QED
    BY <2>2, <2>3
<1>9. CASE RmFile
  <2> PICK x \in Msg : x = Target
    BY <1>1
  <2>1. /\ db = "rmfile" /\ db' = "idle" /\ index' = index /\ files' = files \ {x}
        /\ \A t \in Session : Past(t) /\ msg[t] = x => x \in hurt'
    BY <1>9 DEF RmFile, Reply
  <2>2. ASSUME x \notin hurt' PROVE ~Needed(x)'
    <3>1. Spare(x) = 0 /\ Owed(x) = 0 /\ refs[x] = 0
      BY <1>1, <2>1, <2>2 DEF CountInv, Owed, FileInv
    <3>2. Listings(x) = {}
      <4>1. Cardinality(Listings(x)) = 0
        BY <3>1, Counted DEF Spare
      <4>2. QED
        BY <4>1, Counted, FS_EmptySet
    <3>3. ~\E t \in Session : pc[t] = "index" /\ msg[t] = x
      BY <2>1, <2>2 DEF Past
    <3>4. QED
      BY <1>3, <2>1, <3>2, <3>3 DEF Needed, Busy, Listings
  <2>3. \A m \in Msg \ {x} : Needed(m)' = Needed(m)
    BY <1>3, <2>1 DEF Needed, Busy, Listings
  <2>4. \A m \in Msg \ hurt' : announced'[m] > 0 => (m \in files' <=> Needed(m)')
    BY <1>1, <2>1, <2>2, <2>3 DEF FileInv
  <2>5. \A t \in Session : pc'[t] = "announce" /\ msg'[t] \notin hurt' => msg'[t] \in files'
    BY <1>1, <1>4, <2>1 DEF FileInv, Past
  <2>6. QED
    BY <2>1, <2>4, <2>5 DEF FileInv
<1>10. QED
  BY <1>6, <1>7, <1>8, <1>9


LEMMA FileKeeps ==
  ASSUME StoreInv, CountInv, FileInv, [Next]_vars
  PROVE  FileInv'
<1>0. StoreInv'
  BY NextKeeps
<1>1. CASE Die /\ announced' = announced
  BY <1>1, FileOfDeath
<1>2. ASSUME NEW s \in Session, NEW m \in Msg, Submit(s, m) PROVE FileInv'
  <2>1. ~Die
    BY <1>2 DEF Submit, Die
  <2>2. QED
    BY <1>0, <1>2, <2>1, FileOfSession
<1>3. ASSUME NEW s \in Session, SessionStep(s) PROVE FileInv'
  <2>1. Die => announced' = announced
    BY <1>3 DEF SessionStep, Announce, Die, CancelLookup, NoControl, StoreInsert, AddIndex,
                LookupFails, StoreFails, IndexFails, bounds
  <2>2. CASE ~Die
    BY <1>0, <1>3, <2>2, FileOfSession, FileOfAnnounce, FileOfIndex, FileOfIndexFails
    DEF SessionStep
  <2>3. QED
    BY <1>1, <2>1, <2>2
<1>4. CASE ServerStep
  <2>1. Die => announced' = announced
    BY <1>4 DEF ServerStep, StoreWrite, IncRef, DelIndex, DecRef, RmFile, IncRefFails,
                DeleteFails, DecRefFails, RemoveFails, CancelBreaksOff, bounds
  <2>2. CASE ~Die
    BY <1>4, <2>2, FileOfWrite, FileOfIncRef, FileOfCancel DEF ServerStep
  <2>3. QED
    BY <1>1, <2>1, <2>2
<1>5. CASE Crash
  BY <1>1, <1>5 DEF Crash
<1>6. CASE (\E t \in 1 .. MaxId : Restart(t)) \/ UNCHANGED vars
  <2>1. UNCHANGED <<files, announced, index, refs, hurt, posts, db, by>>
    BY <1>6 DEF Restart, vars, disk, bounds, server, faults
  <2>2. \A m \in Msg : Needed(m)' = Needed(m)
    BY <2>1 DEF Needed, Busy, Listings, Target, posts
  <2>3. (db = "incref" => Listings(msg[by]) # {})' /\ (db = "rmfile" => refs[Target] = 0)'
    BY <2>1 DEF FileInv, Listings, Target, posts
  <2>4. QED
    BY <2>1, <2>2, <2>3, FileQuiet DEF StoreInv, TypeOK, posts
<1>7. QED
  BY <1>2, <1>3, <1>4, <1>5, <1>6 DEF Next

(* A stored article has its file just as long as some group lists it, but for
   the four ways the code loses step, which hurt records. *)
THEOREM FileFollowsListings == Spec => []FileWhileListed
<1>1. ASSUME FileInv
      PROVE  FileWhileListed
  <2> SUFFICES ASSUME NEW m \in Msg \ (hurt \union HalfDone), announced[m] > 0
               PROVE  m \in files <=> Listings(m) # {}
    BY DEF FileWhileListed
  <2>1. ~Busy(m)
    BY DEF Busy, HalfDone, Past
  <2>2. QED
    BY <1>1, <2>1 DEF FileInv, Needed
<1>2. Spec => [](UnrowedInv /\ CountInv /\ FileInv)
  BY InitialCount, UnrowedKeeps, CountKeeps, FileKeeps, Invariance, PTL DEF Spec
<1>3. QED
  BY <1>1, <1>2, PTL
-----------------------------------------------------------------------------
(* The listings of what nobody cancels. *)

(* A step that has nothing to do with the listings of m. *)
Unmoved(m) ==
    Spare(m)' = Spare(m) /\ Listings(m)' = Listings(m) /\ (m \in hurt' <=> m \in hurt)

CopiesNow ==
    /\ \A c \in Msg : copies[c] \in Nat /\ copies'[c] \in Nat /\ copies[c] <= copies'[c]
    /\ \A s \in Session : msg'[s] # None => copies'[msg'[s]] > 0

(* Sessions that are not indexing, and writes that are no listing. *)
LEMMA SteadyOutside ==
  ASSUME SteadyInv, CopiesNow,
         \A s \in Session : pc[s] = "index" \/ pc'[s] = "index" =>
            pc'[s] = pc[s] /\ msg'[s] = msg[s] /\ todo'[s] = todo[s],
         \A s \in Session : Past(s)' =>
            msg'[s] = msg[s] /\ (Past(s) \/ msg[s] \notin hurt),
         announced' = announced, \A m \in Msg : Uncancelled(m) => Unmoved(m),
         SessionInv, msg \in [Session -> Msg \union {None}], SessionInv',
         \A s \in Session : Past(s)' => pc'[s] # "idle"
  PROVE  SteadyInv'
<1>1. \A m \in Msg : Uncancelled(m)' => Uncancelled(m)
  BY DEF Uncancelled, CopiesNow
<1>2. \A m \in Msg : Uncancelled(m)' => Spare(m)' \in {0, 1}
  BY <1>1 DEF SteadyInv, Unmoved
<1>3. ASSUME NEW s \in Session, pc'[s] = "index", Uncancelled(msg[s])'
      PROVE  /\ todo'[s] \subseteq Postable(s, msg'[s])
             /\ Listings(msg[s])' = Postable(s, msg'[s]) \ todo'[s]
  <2>1. pc[s] = "index" /\ msg'[s] = msg[s] /\ todo'[s] = todo[s]
    BY <1>3
  <2> PICK m \in Msg : m = msg[s]
    BY <2>1 DEF SessionInv
  <2>2. Uncancelled(m)'
    BY <1>3, <2>1 DEF Uncancelled
  <2>3. Listings(m)' = Postable(s, m) \ todo[s] /\ todo[s] \subseteq Postable(s, m)
    BY <1>1, <2>1, <2>2 DEF SteadyInv, Unmoved
  <2>4. QED
    BY <2>1, <2>3 DEF Listings
<1>4. ASSUME NEW s \in Session, Past(s)', Uncancelled(msg[s])'
      PROVE  msg'[s] \notin hurt'
  <2> PICK m \in Msg : m = msg[s] /\ msg'[s] = m
    BY <1>4 DEF SessionInv
  <2>1. Uncancelled(m)
    BY <1>1, <1>4 DEF Uncancelled
  <2>2. QED
    BY <1>4, <2>1 DEF SteadyInv, Unmoved
<1>5. ASSUME NEW m \in Msg, Uncancelled(m)', announced'[m] > 0
      PROVE  \/ \E s \in Session : pc'[s] = "index" /\ msg'[s] = m
             \/ \E s \in Session :
                   /\ Listings(m)' \subseteq Postable(s, m)
                   /\ m \notin hurt' => Listings(m)' = Postable(s, m)
  <2>1. Uncancelled(m) /\ Listings(m)' = Listings(m) /\ (m \in hurt' <=> m \in hurt)
    BY <1>1, <1>5 DEF Unmoved
  <2>2. CASE \E s \in Session : pc[s] = "index" /\ msg[s] = m
    BY <2>2
  <2>3. CASE ~\E s \in Session : pc[s] = "index" /\ msg[s] = m
    BY <1>5, <2>1, <2>3 DEF SteadyInv
  <2>4. QED
    BY <2>2, <2>3
<1>6. QED
  BY <1>2, <1>3, <1>4, <1>5 DEF SteadyInv, CopiesNow

(* Sessions that end, or die, before they have listed their message. *)
LEMMA SteadyStops ==
  ASSUME StoreInv, SteadyInv, CopiesNow, UNCHANGED <<announced, index>>, hurt \subseteq hurt',
         \A s \in Session :
            \/ pc'[s] = pc[s] /\ msg'[s] = msg[s] /\ todo'[s] = todo[s] /\ (Past(s)' => Past(s))
            \/ /\ pc'[s] # "index" /\ ~Past(s)'
               /\ pc[s] = "index" => msg[s] \in hurt',
         \A m \in Msg : m \in hurt' \ hurt /\ Uncancelled(m) =>
            \E s \in Session : Past(s) /\ ~Past(s)' /\ msg[s] = m,
         \A m \in Msg : Uncancelled(m) => Spare(m)' \in {0, 1}
  PROVE  SteadyInv'
<1>1. \A m \in Msg : Uncancelled(m)' => Uncancelled(m)
  BY DEF Uncancelled, CopiesNow
<1>2. \A m \in Msg : Listings(m)' = Listings(m)
  BY DEF Listings
<1>3. ASSUME NEW s \in Session, pc'[s] = "index", Uncancelled(msg[s])'
      PROVE  /\ todo'[s] \subseteq Postable(s, msg'[s])
             /\ Listings(msg[s])' = Postable(s, msg'[s]) \ todo'[s]
  <2>1. pc[s] = "index" /\ msg'[s] = msg[s] /\ todo'[s] = todo[s]
    BY <1>3
  <2> PICK m \in Msg : m = msg[s]
    BY <2>1 DEF StoreInv, SessionInv, TypeOK
  <2>2. Uncancelled(m)'
    BY <1>3, <2>1 DEF Uncancelled
  <2>3. Listings(m)' = Postable(s, m) \ todo[s] /\ todo[s] \subseteq Postable(s, m)
    BY <1>1, <1>2, <2>1, <2>2 DEF SteadyInv
  <2>4. QED
    BY <2>1, <2>3 DEF Listings
<1>4. ASSUME NEW s \in Session, Past(s)', Uncancelled(msg[s])'
      PROVE  msg'[s] \notin hurt'
  <2>1. Past(s) /\ msg'[s] = msg[s]
    BY <1>4
  <2> PICK m \in Msg : m = msg[s]
    BY <2>1 DEF StoreInv, TypeOK, SessionInv, JobInv, Past
  <2>2. Uncancelled(m)
    BY <1>1, <1>4, <2>1 DEF Uncancelled
  <2>3. m \notin hurt
    BY <2>1, <2>2 DEF SteadyInv
  <2>4. \A t \in Session : Past(t) /\ msg[t] = m => t = s
    BY <2>1 DEF StoreInv, OwnerInv
  <2>5. QED
    BY <1>4, <2>1, <2>2, <2>3, <2>4
<1>5. ASSUME NEW m \in Msg, Uncancelled(m)', announced'[m] > 0
      PROVE  \/ \E s \in Session : pc'[s] = "index" /\ msg'[s] = m
             \/ \E s \in Session :
                   /\ Listings(m)' \subseteq Postable(s, m)
                   /\ m \notin hurt' => Listings(m)' = Postable(s, m)
  <2>1. Uncancelled(m)
    BY <1>1, <1>5
  <2>2. CASE \E s \in Session : pc[s] = "index" /\ msg[s] = m
    <3>1. PICK s \in Session : pc[s] = "index" /\ msg[s] = m
      BY <2>2
    <3>2. Listings(m) = Postable(s, m) \ todo[s]
      BY <2>1, <3>1 DEF SteadyInv
    <3>3. QED
      BY <1>2, <3>1, <3>2
  <2>3. CASE \E s \in Session :
                /\ Listings(m) \subseteq Postable(s, m)
                /\ m \notin hurt => Listings(m) = Postable(s, m)
    BY <1>2, <2>3
  <2>4. QED
    BY <1>5, <2>1, <2>2, <2>3 DEF SteadyInv
<1>6. QED
  BY <1>3, <1>4, <1>5, <1>1 DEF SteadyInv, CopiesNow


LEMMA CopiesGrow ==
  ASSUME StoreInv, SteadyInv, [Next]_vars
  PROVE  CopiesNow
<1> USE DEF CopiesNow
<1>1. copies \in [Msg -> Nat] /\ msg \in [Session -> Msg \union {None}]
  BY BoundAssumption DEF StoreInv, TypeOK
<1>2. ASSUME copies' = copies, \A s \in Session : msg'[s] \in {msg[s], None}
      PROVE  CopiesNow
  BY <1>1, <1>2 DEF SteadyInv
<1>3. ASSUME NEW s \in Session, NEW m \in Msg, Submit(s, m)
      PROVE  CopiesNow
  <2>1. copies' = [copies EXCEPT ![m] = @ + 1] /\ msg' = [msg EXCEPT ![s] = m]
    BY <1>3 DEF Submit
  <2>2. \A c \in Msg : copies'[c] = IF c = m THEN copies[c] + 1 ELSE copies[c]
    BY <1>1, <2>1
  <2>3. \A c \in Msg : copies[c] \in Nat /\ copies'[c] \in Nat /\ copies[c] <= copies'[c]
    BY <1>1, <2>2
  <2>4. ASSUME NEW t \in Session, msg'[t] # None PROVE copies'[msg'[t]] > 0
    <3>1. CASE t = s
      BY <1>1, <2>1, <2>2, <3>1
    <3>2. CASE t # s
      <4>1. msg'[t] = msg[t] /\ msg[t] \in Msg /\ copies[msg[t]] > 0
        BY <1>1, <2>1, <2>4, <3>2 DEF SteadyInv
      <4>2. QED
        BY <2>3, <4>1
    <3>3. QED
      BY <3>1, <3>2
  <2>5. QED
    BY <2>3, <2>4
<1>4. CASE UNCHANGED vars
  BY <1>2, <1>4 DEF vars, bounds, posts
<1>5. ASSUME NEW s \in Session, SessionStep(s)
      PROVE  copies' = copies /\ \A t \in Session : msg'[t] \in {msg[t], None}
  BY <1>1, <1>5 DEF SessionStep, NoControl, Announce, StoreInsert, CancelLookup, AddIndex, Die,
     LookupFails, StoreFails, IndexFails,
     LeaveControl, Return, bounds, posts
<1>6. CASE ServerStep
  <2>1. copies' = copies /\ \A t \in Session : msg'[t] \in {msg[t], None}
    BY <1>1, <1>6 DEF ServerStep, StoreWrite, IncRef, DelIndex, DecRef, RmFile, NextGroup, Die,
       IncRefFails, DeleteFails, DecRefFails, RemoveFails, CancelBreaksOff,
       LeaveControl, Return, bounds, posts
  <2>2. QED
    BY <1>2, <2>1
<1>7. CASE Crash \/ \E t \in 1 .. MaxId : Restart(t)
  <2>1. copies' = copies /\ \A t \in Session : msg'[t] \in {msg[t], None}
    BY <1>1, <1>7 DEF Crash, Restart, Die, bounds, posts
  <2>2. QED
    BY <1>2, <2>1
<1>8. QED
  BY <1>2, <1>3, <1>4, <1>5, <1>6, <1>7 DEF Next

(* The target of a cancel that is being carried out has been cancelled. *)
LEMMA TargetCancelled ==
  ASSUME StoreInv, SteadyInv, db \in {"delindex", "decref", "rmfile"}
  PROVE  ~Uncancelled(Target)
<1>1. msg[by] \in Msg /\ by \in Session /\ msg[by] # None
  BY JobFacts, NoneAssumption DEF StoreInv
<1>2. copies[msg[by]] > 0 /\ copies[msg[by]] \in Nat
  BY <1>1, BoundAssumption DEF SteadyInv, StoreInv, TypeOK
<1>3. QED
  BY <1>1, <1>2 DEF Uncancelled, Target


(* Steps that list nothing, by their effect on the sessions. *)
LEMMA SteadyElsewhere ==
  ASSUME StoreInv, StoreInv', SteadyInv, CopiesNow, announced' = announced,
         \A m \in Msg : Uncancelled(m) => Unmoved(m),
         NEW s \in Session, pc[s] # "index", pc'[s] # "index",
         \A t \in Session \ {s} : pc'[t] = pc[t] /\ msg'[t] = msg[t] /\ todo'[t] = todo[t],
         \A t \in Session : Past(t)' => msg'[t] = msg[t] /\ (Past(t) \/ msg[t] \notin hurt)
  PROVE  SteadyInv'
<1>1. \A t \in Session : Past(t)' => pc'[t] # "idle"
  BY DEF StoreInv, JobInv, Past
<1>2. QED
  BY <1>1, SteadyOutside DEF StoreInv, TypeOK

LEMMA SteadyOfSession ==
  ASSUME StoreInv, StoreInv', UnrowedInv, SteadyInv, CopiesNow, NEW s \in Session, ~Die,
         \/ \E x \in Msg : Submit(s, x)
         \/ NoControl(s) \/ StoreInsert(s) \/ CancelLookup(s)
         \/ LookupFails(s) \/ StoreFails(s)
  PROVE  SteadyInv'
<1>1. /\ UNCHANGED <<announced, hurt>>
      /\ pc[s] \in {"idle", "control", "store"} /\ pc'[s] \in {"idle", "control", "store"}
      /\ \A t \in Session \ {s} : pc'[t] = pc[t] /\ msg'[t] = msg[t] /\ todo'[t] = todo[t]
  BY DEF Submit, NoControl, StoreInsert, CancelLookup, LookupFails, StoreFails, LeaveControl,
         Return, StoreInv, TypeOK, posts, bounds, faults
<1>2. \A m \in Msg : Unmoved(m)
  BY <1>1, CountOfSession, CountOfInsert DEF Unmoved
<1>3. ASSUME NEW t \in Session, Past(t)'
      PROVE  msg'[t] = msg[t] /\ (Past(t) \/ msg[t] \notin hurt)
  <2>1. CASE StoreInsert(s) /\ db' = "write" /\ t = s
    <3>1. id[msg[s]] = 0 /\ msg[s] \in Msg /\ msg' = msg
      BY <2>1 DEF StoreInsert, Free, StoreInv, SessionInv, TypeOK, JobInv, server, posts
    <3>2. QED
      BY <2>1, <3>1 DEF UnrowedInv
  <2>2. CASE ~(StoreInsert(s) /\ db' = "write" /\ t = s)
    <3>1. t # s
      <4> SUFFICES ASSUME t = s PROVE FALSE
        OBVIOUS
      <4>1. db' = "write" /\ by' = s
        BY <1>1, <1>3 DEF Past
      <4>2. ~StoreInsert(s) \/ (db = "write" /\ by = s)
        BY <2>2, <4>1
      <4>3. db = "write" /\ by = s
        BY <4>1, <4>2
        DEF Submit, NoControl, CancelLookup, LookupFails, StoreFails, server
      <4>4. pc[s] = "store" /\ ~StoreFails(s)
        BY <4>3 DEF StoreInv, JobInv, StoreFails, Free
      <4>5. QED
        BY <4>2, <4>3, <4>4
        DEF Submit, NoControl, StoreInsert, CancelLookup, LookupFails, Free
    <3>2. db' = "write" /\ by' = t => db = "write" /\ by = t
      BY <2>2, <3>1
      DEF Submit, NoControl, StoreInsert, CancelLookup, LookupFails, StoreFails, server
    <3>3. QED
      BY <1>1, <1>3, <3>1, <3>2 DEF Past
  <2>3. QED
    BY <2>1, <2>2
<1>4. QED
  BY <1>1, <1>2, <1>3, SteadyElsewhere

LEMMA SteadyOfWrite ==
  ASSUME StoreInv, StoreInv', SteadyInv, CopiesNow,
         NEW left \in WriteLeaves, StoreWrite(left)
  PROVE  SteadyInv'
<1>1. /\ db = "write" /\ db' = "idle" /\ by \in Session /\ pc[by] = "store"
      /\ UNCHANGED <<announced, hurt>>
  BY JobFacts DEF StoreWrite, Reply, StoreInv, JobInv, bounds, faults
<1> PICK s \in Session : s = by
  BY <1>1
<1>2. /\ \A t \in Session \ {s} : pc'[t] = pc[t] /\ msg'[t] = msg[t] /\ todo'[t] = todo[t]
      /\ pc'[s] = "idle" \/ (pc'[s] = "announce" /\ msg'[s] = msg[s])
  BY DEF StoreWrite, Return, StoreInv, TypeOK
<1>3. \A m \in Msg : Unmoved(m)
  BY <1>1, CountOfRest DEF Unmoved
<1>4. ASSUME NEW t \in Session, Past(t)' PROVE msg'[t] = msg[t] /\ Past(t)
  BY <1>1, <1>2, <1>4 DEF Past
<1>5. QED
  BY <1>1, <1>2, <1>3, <1>4, SteadyElsewhere

LEMMA SteadyOfCancel ==
  ASSUME StoreInv, StoreInv', SteadyInv, CopiesNow, ~Die,
         DelIndex \/ DecRef \/ RmFile \/ DeleteFails \/ DecRefFails \/ RemoveFails
  PROVE  SteadyInv'
<1>1. /\ db \in {"delindex", "decref", "rmfile"} /\ Target \in Msg
      /\ by \in Session /\ msg[by] \in Msg /\ pc[by] = "control"
      /\ db' \in {"delindex", "decref", "rmfile", "idle"}
      /\ announced' = announced /\ hurt' \subseteq hurt \union {Target} /\ hurt \subseteq hurt'
  <2>1. /\ db \in {"delindex", "decref", "rmfile"} /\ announced' = announced
        /\ db' \in {"delindex", "decref", "rmfile", "idle"}
        /\ hurt' \subseteq hurt \union {Target} /\ hurt \subseteq hurt'
    BY DEF DelIndex, DecRef, RmFile, DeleteFails, DecRefFails, RemoveFails, CancelBreaksOff,
           NextGroup, Reply, bounds, faults
  <2>2. QED
    BY <2>1, JobFacts DEF StoreInv, JobInv
<1> PICK s \in Session : s = by
  BY <1>1
<1>2. /\ \A t \in Session \ {s} : pc'[t] = pc[t] /\ msg'[t] = msg[t] /\ todo'[t] = todo[t]
      /\ pc'[s] \in {"idle", "control", "store"}
  BY <1>1 DEF DelIndex, DecRef, RmFile, DeleteFails, DecRefFails, RemoveFails, CancelBreaksOff,
              NextGroup, LeaveControl, Return, posts, StoreInv, TypeOK
<1>3. ASSUME NEW m \in Msg, Uncancelled(m) PROVE Unmoved(m)
  <2>1. m # Target
    BY <1>1, <1>3, TargetCancelled
  <2>2. QED
    BY <1>1, <2>1, CountOfDelIndex, CountOfDecRef, CountOfDecRefFails, CountOfRest DEF Unmoved
<1>4. ASSUME NEW t \in Session, Past(t)' PROVE msg'[t] = msg[t] /\ Past(t)
  BY <1>1, <1>2, <1>4 DEF Past
<1>5. QED
  BY <1>1, <1>2, <1>3, <1>4, SteadyElsewhere

LEMMA SteadyOfDeath ==
  ASSUME StoreInv, CountInv, SteadyInv, CopiesNow, Die, announced' = announced
  PROVE  SteadyInv'
<1>1. \A s \in Session : pc'[s] = "idle" /\ ~Past(s)' /\ (Past(s) => msg[s] \in hurt')
  <2>1. \A s \in Session : pc'[s] = "idle"
    BY DEF Die
  <2>2. ASSUME NEW s \in Session PROVE ~Past(s)' /\ (Past(s) => msg[s] \in hurt')
    <3>1. Past(s) => msg[s] \in Msg
      BY DEF StoreInv, TypeOK, SessionInv, JobInv, Past
    <3>2. QED
      BY <3>1 DEF Die, Reply, HalfDone, Past
  <2>3. QED
    BY <2>1, <2>2
<1>2. ASSUME NEW m \in Msg, m \in hurt' \ hurt, Uncancelled(m)
      PROVE  \E s \in Session : Past(s) /\ ~Past(s)' /\ msg[s] = m
  <2>1. ~(db \in {"decref", "rmfile"} /\ Target = m)
    BY <1>2, TargetCancelled
  <2>2. m \in HalfDone
    BY <1>2 DEF Die
  <2>3. QED
    BY <1>1, <2>1, <2>2 DEF HalfDone
<1>3. ASSUME NEW m \in Msg, Uncancelled(m) PROVE Spare(m)' \in {0, 1}
  <2>1. CASE m \notin HalfDone
    <3>1. Owed(m) = 0 /\ Owed(m)' = 0 /\ UNCHANGED <<refs, index>>
      BY <2>1, OwedIsHalfDone DEF Die, Reply, Owed
    <3>2. QED
      BY <1>3, <3>1, CountStays DEF SteadyInv
  <2>2. CASE m \in HalfDone
    <3>1. ~(db = "decref" /\ Target = m)
      BY <1>3, TargetCancelled
    <3>2. PICK s \in Session : Past(s) /\ msg[s] = m
      BY <1>3, <2>2, TargetCancelled DEF HalfDone
    <3>3. m \notin hurt
      BY <1>3, <3>2 DEF SteadyInv
    <3>4. Spare(m) = 0 /\ Owed(m) \in {0, 1}
      BY <1>3, <3>1, <3>3 DEF CountInv, Owed
    <3>5. Spare(m)' = Spare(m) + Owed(m)
      <4>1. Owed(m)' = 0 /\ refs' = refs /\ Listings(m)' = Listings(m)
        BY DEF Die, Reply, Owed, Listings
      <4>2. QED
        BY <4>1, Counted DEF Spare
    <3>6. QED
      BY <3>4, <3>5
  <2>3. QED
    BY <2>1, <2>2
<1>4. UNCHANGED <<announced, index>> /\ hurt \subseteq hurt'
  BY DEF Die
<1>5. \A s \in Session : pc'[s] # "index" /\ ~Past(s)' /\ (pc[s] = "index" => msg[s] \in hurt')
  BY <1>1 DEF Past
<1>6. QED
  BY <1>1, <1>2, <1>3, <1>4, <1>5, SteadyStops

LEMMA SteadyOfFailure ==
  ASSUME StoreInv, CountInv, SteadyInv, CopiesNow,
         IncRefFails \/ \E s \in Session : IndexFails(s)
  PROVE  SteadyInv'
<1>1. PICK s \in Session : IndexFails(s) \/ (IncRefFails /\ s = by)
  BY JobFacts DEF IncRefFails, StoreInv
<1>2. /\ pc[s] = "index" /\ msg[s] \in Msg /\ hurt' = hurt \union {msg[s]}
      /\ db' = "idle" /\ db \in {"idle", "incref"} /\ UNCHANGED <<announced, index>>
  BY <1>1 DEF IndexFails, IncRefFails, Free, Reply, StoreInv, JobInv, SessionInv, TypeOK,
              disk, bounds, server
<1>3. /\ pc'[s] = "idle"
      /\ \A t \in Session \ {s} : pc'[t] = pc[t] /\ msg'[t] = msg[t] /\ todo'[t] = todo[t]
  BY <1>1 DEF IndexFails, IncRefFails, Return, StoreInv, TypeOK
<1>4. \A t \in Session : (Past(t)' => t # s /\ Past(t)) /\ ~Past(s)' /\ Past(s)
  BY <1>2, <1>3 DEF Past
<1>5. ASSUME NEW m \in Msg, Uncancelled(m) PROVE Spare(m)' \in {0, 1}
  <2>1. CASE IndexFails(s)
    BY <1>5, <2>1, CountOfSession DEF SteadyInv
  <2>2. CASE IncRefFails /\ s = by /\ m = msg[s]
    <3>1. m \notin hurt
      BY <1>4, <1>5, <2>2 DEF SteadyInv
    <3>2. Spare(m) = 0 /\ Spare(m)' = Spare(m) + 1
      BY <2>2, <3>1, CountOfIncRefFails DEF CountInv
    <3>3. QED
      BY <3>2
  <2>3. CASE IncRefFails /\ s = by /\ m # msg[s]
    BY <1>5, <2>3, CountOfIncRefFails DEF SteadyInv
  <2>4. QED
    BY <1>1, <2>1, <2>2, <2>3
<1>6. QED
  BY <1>2, <1>3, <1>4, <1>5, SteadyStops


LEMMA SteadyOfAnnounce ==
  ASSUME StoreInv, SteadyInv, CopiesNow, NEW s \in Session, Announce(s)
  PROVE  SteadyInv'
<1>1. /\ pc[s] = "announce" /\ msg[s] \in Msg /\ \A g \in Carried : msg[s] \notin index[g]
      /\ pc' = [pc EXCEPT ![s] = "index"]
      /\ todo' = [todo EXCEPT ![s] = Postable(s, msg[s])]
      /\ announced' = [announced EXCEPT ![msg[s]] = @ + 1]
      /\ UNCHANGED <<msg, copies, index, hurt, db, by>>
  BY DEF Announce, StoreInv, SessionInv, TypeOK, FreshInv, disk, server, faults
<1>2. /\ pc'[s] = "index" /\ todo'[s] = Postable(s, msg[s])
      /\ \A t \in Session \ {s} : pc'[t] = pc[t] /\ todo'[t] = todo[t]
      /\ \A m \in Msg \ {msg[s]} : announced'[m] = announced[m]
  <2>1. Postable(s, msg[s]) \subseteq Carried
    BY GroupAssumption DEF Postable
  <2>2. QED
    BY <1>1, <2>1 DEF StoreInv, TypeOK
<1>3. \A m \in Msg : /\ Uncancelled(m)' = Uncancelled(m)
                     /\ Spare(m)' = Spare(m) /\ Listings(m)' = Listings(m)
  BY <1>1, CountOfSession DEF Uncancelled
<1>4. \A t \in Session : Past(t)' => Past(t)
  BY <1>1, <1>2 DEF Past
<1>5. ASSUME NEW t \in Session, pc'[t] = "index", Uncancelled(msg[t])'
      PROVE  /\ todo'[t] \subseteq Postable(t, msg'[t])
             /\ Listings(msg[t])' = Postable(t, msg'[t]) \ todo'[t]
  <2>1. CASE t = s
    BY <1>1, <1>2, <2>1 DEF Listings
  <2>2. CASE t # s
    <3>1. pc[t] = "index" /\ todo'[t] = todo[t] /\ msg'[t] = msg[t] /\ Uncancelled(msg[t])
          /\ Listings(msg[t])' = Listings(msg[t])
      BY <1>1, <1>2, <1>5, <2>2 DEF Uncancelled, Listings
    <3>2. QED
      BY <3>1 DEF SteadyInv
  <2>3. QED
    BY <2>1, <2>2
<1>6. ASSUME NEW m \in Msg, Uncancelled(m)', announced'[m] > 0
      PROVE  \/ \E t \in Session : pc'[t] = "index" /\ msg'[t] = m
             \/ \E t \in Session :
                   /\ Listings(m)' \subseteq Postable(t, m)
                   /\ m \notin hurt' => Listings(m)' = Postable(t, m)
  <2>1. CASE m = msg[s]
    BY <1>1, <1>2, <2>1
  <2>2. CASE m # msg[s]
    <3>1. CASE \E t \in Session : pc[t] = "index" /\ msg[t] = m
      BY <1>1, <1>2, <3>1
    <3>2. CASE \E t \in Session :
                  /\ Listings(m) \subseteq Postable(t, m)
                  /\ m \notin hurt => Listings(m) = Postable(t, m)
      BY <1>1, <1>3, <3>2
    <3>3. QED
      BY <1>2, <1>3, <1>6, <2>2, <3>1, <3>2 DEF SteadyInv
  <2>3. QED
    BY <2>1, <2>2
<1>7. ASSUME NEW t \in Session, Past(t)', Uncancelled(msg[t])'
      PROVE  msg'[t] \notin hurt'
  BY <1>1, <1>4, <1>7 DEF SteadyInv, Uncancelled
<1>8. \A m \in Msg : Uncancelled(m)' => Spare(m)' \in {0, 1}
  BY <1>3 DEF SteadyInv
<1>9. QED
  BY <1>5, <1>6, <1>7, <1>8 DEF SteadyInv, CopiesNow

LEMMA SteadyOfIndex ==
  ASSUME StoreInv, SteadyInv, CopiesNow,
         NEW s \in Session, NEW g \in Carried, AddIndex(s, g)
  PROVE  SteadyInv'
<1>1. \A m \in Msg :
         /\ Spare(m)' = Spare(m)
         /\ Listings(m)' = IF m = msg[s] THEN Listings(m) \union {g} ELSE Listings(m)
  BY CountOfIndex
<1>2. /\ pc[s] = "index" /\ g \in todo[s] /\ msg[s] \in Msg
      /\ pc' = pc /\ msg' = msg /\ todo' = [todo EXCEPT ![s] = @ \ {g}]
  BY CountOfIndex DEF AddIndex, StoreInv, SessionInv, TypeOK
<1>3. UNCHANGED <<copies, announced, hurt>> /\ db' # "write"
  BY DEF AddIndex, Free, bounds, faults, server
<1>4. todo'[s] = todo[s] \ {g} /\ \A t \in Session \ {s} : todo'[t] = todo[t]
  BY <1>2 DEF StoreInv, TypeOK
<1>5. \A m \in Msg : Uncancelled(m)' = Uncancelled(m)
  BY <1>3 DEF Uncancelled
<1>6. ASSUME NEW t \in Session, pc'[t] = "index", Uncancelled(msg[t])'
      PROVE  /\ todo'[t] \subseteq Postable(t, msg'[t])
             /\ Listings(msg[t])' = Postable(t, msg'[t]) \ todo'[t]
  <2> PICK m \in Msg : m = msg[t]
    BY <1>2, <1>6 DEF StoreInv, SessionInv, TypeOK
  <2>1. /\ todo[t] \subseteq Postable(t, m) /\ Listings(m) = Postable(t, m) \ todo[t]
        /\ msg'[t] = m /\ Listings(msg[t])' = Listings(m)'
    BY <1>2, <1>5, <1>6 DEF SteadyInv, Uncancelled, Listings
  <2>2. CASE t = s
    <3>1. Listings(m)' = Listings(m) \union {g} /\ g \in todo[t] /\ todo'[t] = todo[t] \ {g}
      BY <1>1, <1>2, <1>4, <2>2
    <3>2. QED
      BY <2>1, <3>1
  <2>3. CASE t # s
    <3>1. m # msg[s]
      BY <1>2, <1>6, <2>3 DEF StoreInv, OwnerInv, Past
    <3>2. QED
      BY <1>1, <1>4, <2>1, <2>3, <3>1
  <2>4. QED
    BY <2>2, <2>3
<1>7. ASSUME NEW m \in Msg, Uncancelled(m)', announced'[m] > 0
      PROVE  \/ \E t \in Session : pc'[t] = "index" /\ msg'[t] = m
             \/ \E t \in Session :
                   /\ Listings(m)' \subseteq Postable(t, m)
                   /\ m \notin hurt' => Listings(m)' = Postable(t, m)
  <2>1. CASE m = msg[s]
    BY <1>2, <2>1
  <2>2. CASE m # msg[s]
    BY <1>1, <1>2, <1>3, <1>5, <1>7, <2>2 DEF SteadyInv
  <2>3. QED
    BY <2>1, <2>2
<1>8. ASSUME NEW t \in Session, Past(t)', Uncancelled(msg[t])'
      PROVE  msg'[t] \notin hurt'
  BY <1>2, <1>3, <1>8 DEF SteadyInv, Uncancelled, Past
<1>9. \A m \in Msg : Uncancelled(m)' => Spare(m)' \in {0, 1}
  BY <1>1, <1>5 DEF SteadyInv
<1>10. QED
  BY <1>6, <1>7, <1>8, <1>9 DEF SteadyInv, CopiesNow

(* The last group of a post is counted. *)
LEMMA SteadyOfLast ==
  ASSUME StoreInv, SteadyInv, CopiesNow, IncRef, todo[by] = {}
  PROVE  SteadyInv'
<1>1. by \in Session /\ pc[by] = "index" /\ UNCHANGED <<announced, index, copies, hurt>>
  BY JobFacts DEF IncRef, StoreInv, JobInv, bounds, faults
<1> PICK s \in Session : s = by
  BY <1>1
<1>2. /\ pc'[s] = "idle" /\ db' = "idle"
      /\ \A t \in Session \ {s} : pc'[t] = pc[t] /\ msg'[t] = msg[t] /\ todo'[t] = todo[t]
  BY DEF IncRef, Return, Reply, StoreInv, TypeOK
<1>3. \A m \in Msg : /\ Uncancelled(m)' = Uncancelled(m)
                     /\ Spare(m)' = Spare(m) /\ Listings(m)' = Listings(m)
  BY <1>1, CountOfIncRef DEF Uncancelled
<1>4. ASSUME NEW t \in Session, pc'[t] = "index", Uncancelled(msg[t])'
      PROVE  /\ todo'[t] \subseteq Postable(t, msg'[t])
             /\ Listings(msg[t])' = Postable(t, msg'[t]) \ todo'[t]
  <2>1. /\ pc[t] = "index" /\ msg'[t] = msg[t] /\ todo'[t] = todo[t]
        /\ Listings(msg[t])' = Listings(msg[t]) /\ Uncancelled(msg[t])
    BY <1>1, <1>2, <1>4 DEF Listings, Uncancelled
  <2>2. QED
    BY <2>1 DEF SteadyInv
<1>5. ASSUME NEW m \in Msg, Uncancelled(m)', announced'[m] > 0
      PROVE  \/ \E t \in Session : pc'[t] = "index" /\ msg'[t] = m
             \/ \E t \in Session :
                   /\ Listings(m)' \subseteq Postable(t, m)
                   /\ m \notin hurt' => Listings(m)' = Postable(t, m)
  <2>1. CASE m = msg[s]
    <3>1. Listings(m) = Postable(s, m)
      BY <1>1, <1>3, <1>5, <2>1 DEF SteadyInv
    <3>2. QED
      BY <1>3, <3>1
  <2>2. CASE m # msg[s]
    <3>1. CASE \E t \in Session : pc[t] = "index" /\ msg[t] = m
      BY <1>2, <2>2, <3>1
    <3>2. CASE \E t \in Session :
                  /\ Listings(m) \subseteq Postable(t, m)
                  /\ m \notin hurt => Listings(m) = Postable(t, m)
      BY <1>1, <1>3, <3>2
    <3>3. QED
      BY <1>1, <1>3, <1>5, <3>1, <3>2 DEF SteadyInv
  <2>3. QED
    BY <2>1, <2>2
<1>6. ASSUME NEW t \in Session, Past(t)', Uncancelled(msg[t])'
      PROVE  msg'[t] \notin hurt'
  <2>1. t # s /\ Past(t) /\ msg'[t] = msg[t]
    BY <1>2, <1>6 DEF Past
  <2>2. QED
    BY <1>1, <1>6, <2>1 DEF SteadyInv, Uncancelled
<1>7. \A m \in Msg : Uncancelled(m)' => Spare(m)' \in {0, 1}
  BY <1>3 DEF SteadyInv
<1>8. QED
  BY <1>4, <1>5, <1>6, <1>7 DEF SteadyInv, CopiesNow

(* Steps that leave every session where it is. *)
LEMMA SteadyQuiet ==
  ASSUME StoreInv, StoreInv', SteadyInv, CopiesNow, UNCHANGED <<posts, announced, hurt>>,
         db' # "write" \/ UNCHANGED <<db, by>>,
         \A m \in Msg : Spare(m)' = Spare(m) /\ Listings(m)' = Listings(m)
  PROVE  SteadyInv'
<1>1. \A m \in Msg : Unmoved(m)
  BY DEF Unmoved
<1>2. \A s \in Session : pc'[s] = pc[s] /\ msg'[s] = msg[s] /\ todo'[s] = todo[s]
  BY DEF posts
<1>3. \A s \in Session : Past(s)' => Past(s)
  BY <1>2 DEF Past
<1>4. \A s \in Session : Past(s)' => pc'[s] # "idle"
  BY DEF StoreInv, JobInv, Past
<1>5. QED
  BY <1>1, <1>2, <1>3, <1>4, SteadyOutside DEF StoreInv, TypeOK

LEMMA SteadyKeeps ==
  ASSUME StoreInv, UnrowedInv, CountInv, SteadyInv, [Next]_vars
  PROVE  SteadyInv'
<1>0. StoreInv' /\ CopiesNow
  BY NextKeeps, CopiesGrow
<1>1. CASE Die /\ announced' = announced
  BY <1>0, <1>1, SteadyOfDeath
<1>2. ASSUME NEW s \in Session, NEW m \in Msg, Submit(s, m) PROVE SteadyInv'
  <2>1. ~Die
    BY <1>2 DEF Submit, Die
  <2>2. QED
    BY <1>0, <1>2, <2>1, SteadyOfSession
<1>3. ASSUME NEW s \in Session, SessionStep(s) PROVE SteadyInv'
  <2>1. Die => announced' = announced
    BY <1>3 DEF SessionStep, Announce, Die, CancelLookup, NoControl, StoreInsert, AddIndex,
                LookupFails, StoreFails, IndexFails, bounds
  <2>2. CASE ~Die
    BY <1>0, <1>3, <2>2, SteadyOfSession, SteadyOfAnnounce, SteadyOfIndex, SteadyOfFailure
    DEF SessionStep
  <2>3. QED
    BY <1>1, <2>1, <2>2
<1>4. CASE ServerStep
  <2>1. Die => announced' = announced
    BY <1>4 DEF ServerStep, StoreWrite, IncRef, DelIndex, DecRef, RmFile, IncRefFails,
                DeleteFails, DecRefFails, RemoveFails, CancelBreaksOff, bounds
  <2>2. CASE IncRef /\ todo[by] # {}
    <3>1. UNCHANGED <<posts, announced, hurt>> /\ db' # "write"
      BY <2>2 DEF IncRef, Reply, bounds, faults
    <3>2. QED
      BY <1>0, <2>2, <3>1, CountOfIncRef, SteadyQuiet
  <2>3. CASE ~Die /\ ~(IncRef /\ todo[by] # {})
    BY <1>0, <1>4, <2>3, SteadyOfWrite, SteadyOfLast, SteadyOfCancel, SteadyOfFailure
    DEF ServerStep
  <2>4. QED
    BY <1>1, <2>1, <2>2, <2>3
<1>5. CASE Crash
  BY <1>1, <1>5 DEF Crash
<1>6. CASE (\E t \in 1 .. MaxId : Restart(t)) \/ UNCHANGED vars
  <2>1. UNCHANGED <<posts, announced, hurt, db, by>>
    BY <1>6 DEF Restart, vars, bounds, server, faults
  <2>2. QED
    BY <1>0, <1>6, <2>1, CountOfRest, SteadyQuiet
<1>7. QED
  BY <1>2, <1>3, <1>4, <1>5, <1>6 DEF Next

(* An article nobody tried to cancel is listed only where one session was
   permitted to post it, refs lags behind by one at most, and without a
   failure it is listed in all of those groups and counted. *)
THEOREM ListedWhere == Spec => []ListedAsPermitted
<1>1. ASSUME StoreInv, CountInv, SteadyInv
      PROVE  ListedAsPermitted
  <2> SUFFICES ASSUME NEW m \in Msg, announced[m] > 0, \A s \in Session : msg[s] # m,
                      Uncancelled(m)
               PROVE  \E s \in Session :
                        /\ Listings(m) \subseteq Postable(s, m)
                        /\ refs[m] \in {Cardinality(Listings(m)) - 1, Cardinality(Listings(m))}
                        /\ m \notin hurt => /\ Listings(m) = Postable(s, m)
                                            /\ refs[m] = Cardinality(Listings(m))
    BY DEF ListedAsPermitted, Uncancelled
  <2>1. PICK s \in Session : /\ Listings(m) \subseteq Postable(s, m)
                             /\ m \notin hurt => Listings(m) = Postable(s, m)
    BY <1>1 DEF SteadyInv
  <2>2. Owed(m) = 0
    <3>1. ~(db = "incref" /\ msg[by] = m)
      BY <1>1, JobFacts DEF StoreInv
    <3>2. ~(db = "decref" /\ Target = m)
      BY <1>1, TargetCancelled
    <3>3. QED
      BY <3>1, <3>2 DEF Owed
  <2>3. Spare(m) \in {0, 1} /\ (m \notin hurt => Spare(m) = 0)
    BY <1>1 DEF SteadyInv, CountInv
  <2>4. refs[m] = Cardinality(Listings(m)) - Spare(m)
    BY <1>1, <2>2, Counted DEF Spare
  <2>5. /\ refs[m] \in {Cardinality(Listings(m)) - 1, Cardinality(Listings(m))}
        /\ m \notin hurt => refs[m] = Cardinality(Listings(m))
    BY <1>1, <2>3, <2>4, Counted
  <2>6. QED
    BY <2>1, <2>5
<1>2. Spec => [](UnrowedInv /\ CountInv /\ SteadyInv)
  BY InitialCount, UnrowedKeeps, CountKeeps, SteadyKeeps, Invariance, PTL DEF Spec
<1>3. QED
  BY <1>1, <1>2, Invariance, PTL
=============================================================================
