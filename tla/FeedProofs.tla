---------------------------- MODULE FeedProofs -----------------------------
(***************************************************************************)
(* Proofs about Feed for every set of workers, peers and messages.         *)
(* FeedInv is the inductive invariant: what a worker has read stays a      *)
(* valid basis for what it writes while articles arrive, are cancelled,    *)
(* and other workers move.  RoundInv adds what holds of a round that no    *)
(* other worker of its peer crosses.                                       *)
(***************************************************************************)
EXTENDS Feed, TLAPS

(* No article number is given twice. *)
UniqueInv == \A k, m \in Msg : num[k] = num[m] /\ num[k] # 0 => k = m

(* Every new article gets a number above c. *)
Reached(c) == \A n \in Number : (\A k \in Msg : num[k] < n) => c < n

(* Nothing numbered c or less is owed to peer p. *)
Covered(p, c) ==
    \A m \in Msg : num[m] # 0 /\ num[m] <= c => m \in offered[p] \/ Skipped(p, m)

CursorInv == \A p \in Peer : Reached(cursor[p]) /\ Covered(p, cursor[p])

(* Between what a worker has read and the article it has fetched there is
   no other article. *)
Chosen(w) ==
    /\ art[w] \in Msg
    /\ num[art[w]] # 0
    /\ \A k \in Msg : num[k] # 0 /\ num[k] < num[art[w]] => num[k] <= seen[w]

WorkerInvOf(w) ==
    /\ pc[w] # "idle" => Reached(seen[w]) /\ Covered(PeerOf[w], seen[w])
    /\ pc[w] \in {"filter", "post", "commit"} => Chosen(w)
    /\ pc[w] = "commit" =>
          art[w] \in offered[PeerOf[w]] \/ Skipped(PeerOf[w], art[w])

WorkerInv == \A w \in Worker : WorkerInvOf(w)

FeedInv == TypeOK /\ UniqueInv /\ CursorInv /\ WorkerInv
-----------------------------------------------------------------------------
USE FeedAssumption

(* Every step keeps the types; that an article is posted and committed only
   when there is one needs WorkerInv. *)
LEMMA StepTypes ==
  ASSUME FeedInv, [Next]_vars
  PROVE  TypeOK'
<1>0. TypeOK
  BY DEF FeedInv
<1> USE <1>0 DEF TypeOK
<1>1. ASSUME NEW m \in Msg, Arrive(m)
      PROVE  TypeOK'
  BY <1>1 DEF Arrive, Accept, SpoolTypeOK, history, doubts
<1>2. ASSUME NEW m \in Msg, Cancel(m)
      PROVE  TypeOK'
  BY <1>2 DEF Cancel, Withdraw, SpoolTypeOK, history, doubts
<1>3. ASSUME Die, crashes' \in 0 .. MaxCrash
      PROVE  TypeOK'
  BY <1>3 DEF Die, SpoolTypeOK, spoolVars
<1>4. ASSUME NEW w \in Worker, Connect(w)
      PROVE  TypeOK'
  BY <1>4 DEF Connect, SpoolTypeOK, spoolVars, history, doubts
<1>5. ASSUME NEW w \in Worker, ReadCursor(w)
      PROVE  TypeOK'
  BY <1>5 DEF ReadCursor, SpoolTypeOK, spoolVars, history
<1>6. ASSUME NEW w \in Worker, Fetch(w)
      PROVE  TypeOK'
  <2>1. UNCHANGED <<spoolVars, torn, cursor, conn, seen, history, doubts, breaks, crashes>>
    BY <1>6 DEF Fetch
  <2>2. pc' \in [Worker -> {"idle", "fetch", "filter", "post", "commit"}]
        /\ art' \in [Worker -> Msg \union {None}]
    <3>1. CASE After(seen[w]) = {}
      BY <1>6, <3>1 DEF Fetch, IsNext
    <3>2. CASE After(seen[w]) # {}
      <4>1. PICK m \in Msg : IF m \in readable
                             THEN /\ pc' = [pc EXCEPT ![w] = "filter"]
                                  /\ art' = [art EXCEPT ![w] = m]
                             ELSE /\ pc' = [pc EXCEPT ![w] = "idle"]
                                  /\ UNCHANGED art
        BY <1>6, <3>2 DEF Fetch
      <4>2. CASE m \in readable
        <5>1. pc' = [pc EXCEPT ![w] = "filter"] /\ art' = [art EXCEPT ![w] = m]
          BY <4>1, <4>2
        <5>2. pc' \in [Worker -> {"idle", "fetch", "filter", "post", "commit"}]
          BY <5>1
        <5>3. art' \in [Worker -> Msg \union {None}]
          BY <5>1
        <5>4. QED
          BY <5>2, <5>3
      <4>3. CASE m \notin readable
        BY <4>1, <4>3
      <4>4. QED
        BY <4>2, <4>3
    <3>3. QED
      BY <3>1, <3>2
  <2>3. QED
    BY <2>1, <2>2 DEF SpoolTypeOK, spoolVars, history, doubts
<1>7. ASSUME NEW w \in Worker, Filter(w)
      PROVE  TypeOK'
  BY <1>7 DEF Filter, SpoolTypeOK, spoolVars, history, doubts
<1>8. ASSUME NEW w \in Worker, Post(w)
      PROVE  TypeOK'
  <2>1. art[w] \in Msg /\ PeerOf[w] \in Peer
    BY <1>8 DEF Post, FeedInv, WorkerInv, WorkerInvOf, Chosen
  <2>2. got' \in [Peer -> SUBSET Msg]
    BY <1>8, <2>1 DEF Post
  <2>3. /\ offered' \in [Peer -> SUBSET Msg] /\ recent' \in [Peer -> SUBSET Msg]
        /\ doubt' \in [Peer -> SUBSET Msg]
    BY <1>8, <2>1 DEF Post
  <2>4. pc' \in [Worker -> {"idle", "fetch", "filter", "post", "commit"}]
    BY <1>8 DEF Post
  <2>5. UNCHANGED <<spoolVars, torn, cursor, conn, seen, art, crossed, breaks, crashes, fails>>
    BY <1>8 DEF Post
  <2>6. QED
    BY <2>2, <2>3, <2>4, <2>5 DEF SpoolTypeOK, spoolVars
<1>9. ASSUME NEW w \in Worker, Commit(w)
      PROVE  TypeOK'
  <2>1. art[w] \in Msg /\ PeerOf[w] \in Peer /\ num[art[w]] \in Number \union {0}
    BY <1>9 DEF Commit, FeedInv, WorkerInv, WorkerInvOf, Chosen, SpoolTypeOK
  <2>2. PICK p \in Peer, n \in Number \union {0} : p = PeerOf[w] /\ n = num[art[w]]
    BY <2>1
  <2>3. Uncounted(p, n) \subseteq Msg
    BY DEF Uncounted
  <2>4. doubt' \in [Peer -> SUBSET Msg]
    <3>1. doubt' = [doubt EXCEPT ![p] = @ \union Uncounted(p, n)]
      BY <1>9, <2>2 DEF Commit
    <3>2. QED
      BY <2>3, <3>1
  <2>5. cursor' \in [Peer -> {0} \union Number]
    BY <1>9, <2>2 DEF Commit
  <2>6. QED
    BY <1>9, <2>4, <2>5 DEF Commit, SpoolTypeOK, spoolVars, history
<1>10. ASSUME NEW w \in Worker, Break(w)
       PROVE  TypeOK'
  BY <1>10 DEF Break, SpoolTypeOK, spoolVars, history, doubts
<1>11. ASSUME UNCHANGED vars
       PROVE  TypeOK'
  BY <1>11 DEF vars, SpoolTypeOK, spoolVars, history, doubts
<1>12. ASSUME NEW w \in Worker, CommitFails(w)
       PROVE  TypeOK'
  <2>1. art[w] \in Msg /\ PeerOf[w] \in Peer
    BY <1>12 DEF CommitFails, FeedInv, WorkerInv, WorkerInvOf, Chosen
  <2>2. doubt' \in [Peer -> SUBSET Msg] /\ fails' \in 0 .. MaxFails
    BY <1>12, <2>1 DEF CommitFails
  <2>3. QED
    BY <1>12, <2>2 DEF CommitFails, SpoolTypeOK, spoolVars, history
<1>13. QED
  BY <1>1, <1>2, <1>3, <1>4, <1>5, <1>6, <1>7, <1>8, <1>9, <1>10, <1>11, <1>12
     DEF Next, SendMessages, FetchPanics, FilterPanics, Crash
-----------------------------------------------------------------------------
(* What every step leaves of the store and of the offers: numbers stay, a
   new one is above all others, and an offer is not taken back. *)
Grows ==
    /\ \A k \in Msg : num[k] # 0 => num'[k] = num[k]
    /\ \A k \in Msg : num[k] = 0 /\ num'[k] # 0 =>
          \A j \in Msg : num[j] < num'[k] /\ (j # k => num'[j] = num[j])
    /\ \A p \in Peer : offered[p] \subseteq offered'[p]

LEMMA StepGrows ==
  ASSUME TypeOK, [Next]_vars
  PROVE  Grows
<1>1. ASSUME NEW m \in Msg, Arrive(m)
      PROVE  Grows
  BY <1>1 DEF TypeOK, SpoolTypeOK, Arrive, Accept, history, Grows
<1>2. ASSUME NEW m \in Msg, Cancel(m)
      PROVE  Grows
  BY <1>2 DEF Cancel, Withdraw, history, Grows
<1>3. ASSUME Die
      PROVE  Grows
  BY <1>3 DEF Die, spoolVars, Grows
<1>4. ASSUME NEW w \in Worker, Post(w)
      PROVE  Grows
  BY <1>4 DEF TypeOK, Post, spoolVars, Grows
<1>5. ASSUME UNCHANGED <<spoolVars, offered>>
      PROVE  Grows
  BY <1>5 DEF spoolVars, Grows
<1>6. QED
  BY <1>1, <1>2, <1>3, <1>4, <1>5
     DEF Next, SendMessages, FetchPanics, FilterPanics, Crash, Connect, ReadCursor,
         Fetch, Filter, Commit, CommitFails, Break, history, vars

(* So a number that has been passed stays passed. *)
LEMMA GrowsKeeps ==
  ASSUME TypeOK, TypeOK', Grows
  PROVE  /\ UniqueInv => UniqueInv'
         /\ \A c \in {0} \union Number, p \in Peer :
               Reached(c) /\ Covered(p, c) => Reached(c)' /\ Covered(p, c)'
<1> USE DEF Grows, TypeOK, SpoolTypeOK, Number
<1>1. ASSUME UniqueInv
      PROVE  UniqueInv'
  <2> SUFFICES ASSUME NEW k \in Msg, NEW m \in Msg, num'[k] = num'[m], num'[k] # 0
               PROVE  k = m
    BY DEF UniqueInv
  <2>1. CASE num[k] # 0 /\ num[m] # 0
    BY <1>1, <2>1 DEF UniqueInv
  <2>2. CASE num[k] = 0 \/ num[m] = 0
    BY <2>2
  <2>3. QED
    BY <2>1, <2>2
<1>2. ASSUME NEW c \in {0} \union Number, NEW p \in Peer, Reached(c), Covered(p, c)
      PROVE  Reached(c)' /\ Covered(p, c)'
  <2>1. ASSUME NEW n \in Number, \A k \in Msg : num'[k] < n
        PROVE  c < n
    <3>1. ASSUME NEW k \in Msg
          PROVE  num[k] < n
      <4>1. n > 0
        BY <2>1, MaxIdAssumption
      <4>2. num[k] = 0 \/ num'[k] = num[k]
        BY <3>1
      <4>3. QED
        BY <2>1, <3>1, <4>1, <4>2
    <3>2. QED
      BY <1>2, <3>1 DEF Reached
  <2>2. ASSUME NEW m \in Msg, num'[m] # 0, num'[m] <= c
        PROVE  m \in offered'[p] \/ Skipped(p, m)
    <3>1. CASE num[m] # 0
      BY <1>2, <2>2, <3>1 DEF Covered
    <3>2. CASE num[m] = 0
      <4>1. num'[m] \in Number /\ \A k \in Msg : num[k] < num'[m]
        BY <2>2, <3>2
      <4>2. QED
        BY <1>2, <2>2, <4>1 DEF Reached
    <3>3. QED
      BY <3>1, <3>2
  <2>3. QED
    BY <2>1, <2>2 DEF Reached, Covered
<1>3. QED
  BY <1>1, <1>2
-----------------------------------------------------------------------------
(* What a worker other than the one that moves keeps of its own. *)
Keeps(w) ==
    /\ pc'[w] = pc[w] /\ seen'[w] = seen[w] /\ art'[w] = art[w]

LEMMA KeepsWorker ==
  ASSUME FeedInv, TypeOK', Grows, NEW w \in Worker, Keeps(w)
  PROVE  WorkerInvOf(w)'
<1> USE DEF FeedInv, Keeps
<1>1. PeerOf[w] \in Peer /\ seen[w] \in {0} \union Number
  BY DEF TypeOK
<1>2. pc'[w] # "idle" => Reached(seen[w])' /\ Covered(PeerOf[w], seen[w])'
  <2>1. PICK c \in {0} \union Number : c = seen[w]
    BY <1>1
  <2>2. PICK p \in Peer : p = PeerOf[w]
    BY <1>1
  <2>3. pc'[w] # "idle" => Reached(c) /\ Covered(p, c)
    BY <2>1, <2>2 DEF WorkerInv, WorkerInvOf
  <2>4. Reached(c) /\ Covered(p, c) => Reached(c)' /\ Covered(p, c)'
    BY GrowsKeeps
  <2>5. QED
    BY <2>1, <2>2, <2>3, <2>4 DEF Reached, Covered
<1>3. pc'[w] \in {"filter", "post", "commit"} => Chosen(w)'
  <2> SUFFICES ASSUME pc[w] \in {"filter", "post", "commit"}
               PROVE  Chosen(w)'
    OBVIOUS
  <2>1. Chosen(w)
    BY DEF WorkerInv, WorkerInvOf
  <2>2. num'[art[w]] = num[art[w]]
    BY <2>1 DEF Chosen, Grows
  <2>3. ASSUME NEW k \in Msg, num'[k] # 0, num'[k] < num'[art[w]]
        PROVE  num'[k] <= seen[w]
    <3>1. num[k] # 0
      BY <2>1, <2>2, <2>3 DEF Chosen, Grows, TypeOK, SpoolTypeOK, Number
    <3>2. QED
      BY <2>1, <2>2, <2>3, <3>1 DEF Chosen, Grows
  <2>4. QED
    BY <2>1, <2>2, <2>3 DEF Chosen
<1>4. pc'[w] = "commit" =>
         art'[w] \in offered'[PeerOf[w]] \/ Skipped(PeerOf[w], art'[w])
  BY <1>1 DEF WorkerInv, WorkerInvOf, Grows, Skipped
<1>5. QED
  BY <1>2, <1>3, <1>4 DEF WorkerInvOf

(* Fetch gives up or takes the next article after what has been read. *)
LEMMA FetchChooses ==
  ASSUME TypeOK, NEW w \in Worker, Fetch(w)
  PROVE  \/ pc'[w] = "idle"
         \/ pc'[w] = "filter" /\ art'[w] \in Msg /\ IsNext(art'[w], seen[w])
<1>1. CASE After(seen[w]) = {}
  BY <1>1 DEF Fetch, IsNext, TypeOK
<1>2. CASE After(seen[w]) # {}
  <2>1. PICK m \in Msg : /\ IsNext(m, seen[w])
                         /\ IF m \in readable
                            THEN /\ pc' = [pc EXCEPT ![w] = "filter"]
                                 /\ art' = [art EXCEPT ![w] = m]
                            ELSE /\ pc' = [pc EXCEPT ![w] = "idle"]
                                 /\ UNCHANGED art
    BY <1>2 DEF Fetch
  <2>2. CASE m \in readable
    BY <2>1, <2>2 DEF TypeOK
  <2>3. CASE m \notin readable
    BY <2>1, <2>3 DEF TypeOK
  <2>4. QED
    BY <2>2, <2>3
<1>3. QED
  BY <1>1, <1>2

(* The worker that moves: a round goes on from what it read before. *)
LEMMA RoundWorker ==
  ASSUME FeedInv, TypeOK', NEW w \in Worker,
         Connect(w) \/ ReadCursor(w) \/ Fetch(w) \/ Filter(w) \/ Post(w) \/ Commit(w)
         \/ CommitFails(w) \/ Break(w)
  PROVE  WorkerInvOf(w)'
<1> USE DEF FeedInv
<1>1. PeerOf[w] \in Peer
  OBVIOUS
<1>2. CASE Connect(w)
  BY <1>2 DEF Connect, TypeOK, WorkerInvOf
<1>3. CASE ReadCursor(w)
  <2>1. Reached(cursor[PeerOf[w]]) /\ Covered(PeerOf[w], cursor[PeerOf[w]])
    BY <1>1 DEF CursorInv
  <2>2. pc'[w] = "fetch" /\ seen'[w] = cursor[PeerOf[w]]
        /\ UNCHANGED <<spoolVars, history>>
    BY <1>3 DEF ReadCursor, TypeOK
  <2>3. QED
    BY <2>1, <2>2 DEF WorkerInvOf, Reached, Covered, spoolVars, history
<1>4. CASE Fetch(w)
  <2>1. Reached(seen[w]) /\ Covered(PeerOf[w], seen[w])
    BY <1>4 DEF Fetch, WorkerInv, WorkerInvOf
  <2>2. UNCHANGED <<spoolVars, seen, history>>
    BY <1>4 DEF Fetch
  <2>3. \/ pc'[w] = "idle"
        \/ pc'[w] = "filter" /\ art'[w] \in Msg /\ IsNext(art'[w], seen[w])
    BY <1>4, FetchChooses
  <2>4. art'[w] \in Msg /\ IsNext(art'[w], seen[w]) => Chosen(w)'
    <3> SUFFICES ASSUME art'[w] \in Msg, IsNext(art'[w], seen[w])
                 PROVE  Chosen(w)'
      OBVIOUS
    <3>1. seen'[w] = seen[w] /\ num' = num
      BY <2>2 DEF spoolVars
    <3>2. num[art'[w]] > seen[w]
      BY DEF IsNext, After
    <3>3. \A k \in Msg : num[k] > seen[w] => num[art'[w]] <= num[k]
      BY DEF IsNext, After
    <3>4. \A k \in Msg : num[k] \in Nat
      BY MaxIdAssumption DEF TypeOK, SpoolTypeOK, Number
    <3>5. seen[w] \in Nat
      BY MaxIdAssumption DEF TypeOK, Number
    <3>6. QED
      BY <3>1, <3>2, <3>3, <3>4, <3>5 DEF Chosen
  <2>5. QED
    BY <2>1, <2>2, <2>3, <2>4 DEF WorkerInvOf, Reached, Covered, spoolVars, history
<1>5. CASE Filter(w) \/ Post(w)
  <2>1. /\ Reached(seen[w]) /\ Covered(PeerOf[w], seen[w])
        /\ Chosen(w)
    BY <1>5 DEF Filter, Post, WorkerInv, WorkerInvOf
  <2>2. UNCHANGED <<spoolVars, seen, art>>
    BY <1>5 DEF Filter, Post
  <2>3. offered[PeerOf[w]] \subseteq offered'[PeerOf[w]]
    BY <1>1, <1>5 DEF Filter, Post, TypeOK, history
  <2>4. pc'[w] = "commit" =>
           art[w] \in offered'[PeerOf[w]] \/ Skipped(PeerOf[w], art[w])
    BY <1>1, <1>5 DEF Filter, Post, TypeOK
  <2>5. QED
    BY <2>1, <2>2, <2>3, <2>4 DEF WorkerInvOf, Reached, Covered, Chosen, spoolVars
<1>6. CASE Commit(w) \/ CommitFails(w)
  BY <1>6 DEF Commit, CommitFails, TypeOK, WorkerInvOf
<1>7. CASE Break(w)
  BY <1>7 DEF Break, WorkerInvOf, WorkerInv, Reached, Covered, Chosen, spoolVars, history
<1>8. QED
  BY <1>2, <1>3, <1>4, <1>5, <1>6, <1>7
-----------------------------------------------------------------------------
WorkerAction(w) ==
    \/ Connect(w) \/ ReadCursor(w) \/ Fetch(w) \/ Filter(w) \/ Post(w) \/ Commit(w)
    \/ CommitFails(w) \/ Break(w)

(* Every step is one worker's, or leaves all workers alone, or ends the
   process. *)
LEMMA StepWorkers ==
  ASSUME TypeOK, [Next]_vars
  PROVE  \/ \E v \in Worker : WorkerAction(v) /\ \A w \in Worker \ {v} : Keeps(w)
         \/ UNCHANGED <<cursor, pc, seen, art, history, doubts>>
         \/ Die
<1>1. ASSUME NEW m \in Msg, Arrive(m) \/ Cancel(m)
      PROVE  UNCHANGED <<cursor, pc, seen, art, history, doubts>>
  BY <1>1 DEF Arrive, Cancel
<1>2. ASSUME NEW v \in Worker, WorkerAction(v)
      PROVE  \A w \in Worker \ {v} : Keeps(w)
  <2>1. CASE Connect(v) \/ ReadCursor(v) \/ Filter(v)
    BY <2>1 DEF Connect, ReadCursor, Filter, Keeps, TypeOK
  <2>2. CASE Fetch(v)
    BY <2>2 DEF Fetch, Keeps, TypeOK
  <2>3. CASE Post(v) \/ Commit(v) \/ CommitFails(v) \/ Break(v)
    BY <2>3 DEF Post, Commit, CommitFails, Break, Keeps, TypeOK
  <2>4. QED
    BY <1>2, <2>1, <2>2, <2>3 DEF WorkerAction
<1>3. ASSUME UNCHANGED vars
      PROVE  UNCHANGED <<cursor, pc, seen, art, history, doubts>>
  BY <1>3 DEF vars
<1>4. QED
  BY <1>1, <1>2, <1>3
     DEF Next, SendMessages, FetchPanics, FilterPanics, Crash, WorkerAction

(* A cursor is moved to the number of an article that has been offered or
   skipped, the next after one below which nothing is owed. *)
LEMMA CommitCovers ==
  ASSUME FeedInv, NEW w \in Worker, Commit(w)
  PROVE  CursorInv'
<1> USE DEF FeedInv
<1>1. Chosen(w) /\ Covered(PeerOf[w], seen[w])
      /\ (art[w] \in offered[PeerOf[w]] \/ Skipped(PeerOf[w], art[w]))
  BY DEF Commit, WorkerInv, WorkerInvOf
<1>2. UNCHANGED <<num, offered>> /\ PeerOf[w] \in Peer
  BY DEF Commit, spoolVars, history
<1>3. cursor' = [cursor EXCEPT ![PeerOf[w]] = num[art[w]]]
  BY DEF Commit
<1>4. SUFFICES ASSUME NEW p \in Peer
               PROVE  Reached(cursor[p])' /\ Covered(p, cursor[p])'
  BY DEF CursorInv
<1>5. CASE p # PeerOf[w]
  <2>1. cursor'[p] = cursor[p]
    BY <1>3, <1>5 DEF TypeOK
  <2>2. QED
    BY <1>2, <2>1 DEF CursorInv, Reached, Covered
<1>6. CASE p = PeerOf[w]
  <2>1. cursor'[p] = num[art[w]]
    BY <1>3, <1>6 DEF TypeOK
  <2>2. Reached(cursor[p])'
    BY <1>1, <1>2, <2>1 DEF Reached, Chosen
  <2>3. ASSUME NEW m \in Msg, num[m] # 0, num[m] <= num[art[w]]
        PROVE  m \in offered[p] \/ Skipped(p, m)
    <3>1. CASE num[m] = num[art[w]]
      BY <1>1, <1>6, <2>3, <3>1 DEF UniqueInv, Chosen
    <3>2. CASE num[m] < num[art[w]]
      BY <1>1, <1>6, <2>3, <3>2 DEF Chosen, Covered
    <3>3. num[m] \in Nat /\ num[art[w]] \in Nat
      BY <1>1, MaxIdAssumption DEF TypeOK, SpoolTypeOK, Number, Chosen
    <3>4. num[m] = num[art[w]] \/ num[m] < num[art[w]]
      <4>1. \A i, j \in Nat : i <= j => i = j \/ i < j
        OBVIOUS
      <4>2. QED
        BY <2>3, <3>3, <4>1
    <3>5. QED
      BY <3>1, <3>2, <3>4
  <2>4. QED
    BY <1>2, <2>1, <2>2, <2>3 DEF Covered
<1>7. QED
  BY <1>5, <1>6

LEMMA CursorStays ==
  ASSUME FeedInv, TypeOK', Grows, UNCHANGED cursor
  PROVE  CursorInv'
<1> SUFFICES ASSUME NEW p \in Peer
             PROVE  Reached(cursor[p])' /\ Covered(p, cursor[p])'
  BY DEF CursorInv
<1>1. PICK c \in {0} \union Number : c = cursor[p]
  BY DEF FeedInv, TypeOK
<1>2. Reached(c) /\ Covered(p, c)
  BY <1>1 DEF FeedInv, CursorInv
<1>3. Reached(c)' /\ Covered(p, c)'
  BY <1>2, GrowsKeeps DEF FeedInv
<1>4. QED
  BY <1>1, <1>3 DEF Reached, Covered

LEMMA Inductive == FeedInv /\ [Next]_vars => FeedInv'
<1> SUFFICES ASSUME FeedInv, [Next]_vars
             PROVE  FeedInv'
  OBVIOUS
<1>0. TypeOK /\ UniqueInv
  BY DEF FeedInv
<1>1. TypeOK' /\ Grows
  BY <1>0, StepTypes, StepGrows
<1>2. UniqueInv'
  BY <1>0, <1>1, GrowsKeeps
<1>3. \/ \E v \in Worker : WorkerAction(v) /\ \A w \in Worker \ {v} : Keeps(w)
      \/ UNCHANGED <<cursor, pc, seen, art, history, doubts>>
      \/ Die
  BY <1>0, StepWorkers
<1>4. CursorInv'
  <2>1. ASSUME NEW v \in Worker, WorkerAction(v)
        PROVE  CursorInv'
    <3>1. CASE Commit(v)
      BY <3>1, CommitCovers
    <3>2. CASE ~Commit(v)
      <4>1. UNCHANGED cursor
        BY <2>1, <3>2 DEF WorkerAction, Connect, ReadCursor, Fetch, Filter, Post,
                           CommitFails, Break
      <4>2. QED
        BY <1>1, <4>1, CursorStays
    <3>3. QED
      BY <3>1, <3>2
  <2>2. ASSUME Die \/ UNCHANGED <<cursor, pc, seen, art, history, doubts>>
        PROVE  CursorInv'
    BY <1>1, <2>2, CursorStays DEF Die
  <2>3. QED
    BY <1>3, <2>1, <2>2
<1>5. ASSUME NEW w \in Worker
      PROVE  WorkerInvOf(w)'
  <2>1. CASE WorkerAction(w)
    BY <1>1, <2>1, RoundWorker DEF WorkerAction
  <2>2. CASE Keeps(w)
    BY <1>1, <2>2, KeepsWorker
  <2>3. CASE Die
    BY <2>3 DEF Die, WorkerInvOf
  <2>4. QED
    BY <1>3, <2>1, <2>2, <2>3 DEF Keeps
<1>6. WorkerInv'
  BY <1>5 DEF WorkerInv, WorkerInvOf
<1>7. QED
  BY <1>1, <1>2, <1>4, <1>6 DEF FeedInv

LEMMA Initial == Init => FeedInv
<1> SUFFICES ASSUME Init
             PROVE  FeedInv
  OBVIOUS
<1>1. TypeOK
  BY DEF Init, TypeOK, SpoolInit, SpoolTypeOK
<1>2. UniqueInv /\ WorkerInv
  BY DEF Init, SpoolInit, UniqueInv, WorkerInv, WorkerInvOf
<1>3. CursorInv
  BY MaxIdAssumption DEF Init, SpoolInit, CursorInv, Reached, Covered, Number
<1>4. QED
  BY <1>1, <1>2, <1>3 DEF FeedInv

(* The invariant the theorems below rest on: no article number is given
   twice, nothing at or below a cursor is owed to its peer, and what each
   worker has read is a valid basis for what it will write. *)
THEOREM Invariance == Spec => []FeedInv
<1>1. QED
  BY Initial, Inductive, PTL DEF Spec

(* Every reachable state of the feeds is well typed. *)
THEOREM TypeCorrect == Spec => []TypeOK
<1>1. FeedInv => TypeOK
  BY DEF FeedInv
<1>2. QED
  BY <1>1, Invariance, PTL

(* No feed passes over an article it owes its peer, however articles,
   cancels, crashes, damaged files and other workers on the same peer
   interleave with its rounds. *)
THEOREM NothingPassedOver == Spec => []NothingSkipped
<1>1. FeedInv => NothingSkipped
  BY DEF FeedInv, CursorInv, Covered, NothingSkipped
<1>2. QED
  BY <1>1, Invariance, PTL
-----------------------------------------------------------------------------
(***************************************************************************)
(* A round that no other round of the same peer crosses: nobody moves the  *)
(* cursor it has read, so it takes the cursor on, and what it offers was   *)
(* not offered before, unless the cursor has not counted it.               *)
(***************************************************************************)
AloneInv ==
    \A w \in Worker : pc[w] # "idle" /\ ~crossed[w] =>
        /\ seen[w] = cursor[PeerOf[w]]
        /\ \A v \in Worker \ {w} : PeerOf[v] = PeerOf[w] => pc[v] = "idle"

(* An article a worker has fetched is above the cursor it has read. *)
AboveInv ==
    \A w \in Worker :
        pc[w] \in {"filter", "post", "commit"} => num[art[w]] > seen[w]

(* What has been posted towards p since the start, and is not in doubt, is
   below the cursor, or about to be. *)
Counted(p, m) ==
    \/ num[m] <= cursor[p]
    \/ \E w \in Worker : PeerOf[w] = p /\ pc[w] = "commit" /\ art[w] = m

RecentInv ==
    \A p \in Peer : \A m \in recent[p] :
        num[m] # 0 /\ (m \in doubt[p] \/ Counted(p, m))

RoundInv == FeedInv /\ AloneInv /\ AboveInv /\ RecentInv

(* Two rounds of one peer that go on at the same time have crossed. *)
LEMMA BothCrossed ==
  ASSUME AloneInv, NEW v \in Worker, NEW w \in Worker, v # w,
         PeerOf[v] = PeerOf[w], pc[v] # "idle", pc[w] # "idle"
  PROVE  crossed[v] /\ crossed[w]
BY DEF AloneInv, FeedInv, TypeOK

LEMMA Numbers ==
  ASSUME FeedInv
  PROVE  /\ \A p \in Peer : cursor[p] \in Nat
         /\ \A w \in Worker : seen[w] \in Nat /\ PeerOf[w] \in Peer
         /\ \A m \in Msg : num[m] \in Nat
         /\ \A w \in Worker : pc[w] \in {"filter", "post", "commit"} => art[w] \in Msg
BY MaxIdAssumption DEF FeedInv, TypeOK, SpoolTypeOK, Number, WorkerInv, WorkerInvOf, Chosen

LEMMA RoundCommit ==
  ASSUME RoundInv, NEW w \in Worker, Commit(w)
  PROVE  /\ AloneInv' /\ AboveInv' /\ RecentInv'
         /\ \A p \in Peer : p # PeerOf[w] \/ ~crossed[w] => cursor[p] <= cursor'[p]
<1> USE DEF RoundInv
<1>1. /\ cursor' = [cursor EXCEPT ![PeerOf[w]] = num[art[w]]]
      /\ doubt' = [doubt EXCEPT ![PeerOf[w]] = @ \union Uncounted(PeerOf[w], num[art[w]])]
      /\ pc' = [pc EXCEPT ![w] = "idle"]
      /\ art' = [art EXCEPT ![w] = None]
      /\ pc[w] = "commit" /\ UNCHANGED <<num, seen, recent, crossed>>
  BY DEF Commit, spoolVars, history
<1>2. num[art[w]] > seen[w] /\ PeerOf[w] \in Peer /\ art[w] \in Msg
  BY <1>1, Numbers DEF AboveInv
<1>3. \A p \in Peer : /\ p # PeerOf[w] => cursor'[p] = cursor[p] /\ doubt'[p] = doubt[p]
                      /\ p = PeerOf[w] => cursor'[p] = num[art[w]]
  BY <1>1 DEF FeedInv, TypeOK
<1>4. doubt'[PeerOf[w]] = doubt[PeerOf[w]] \union Uncounted(PeerOf[w], num[art[w]])
  BY <1>1, <1>2 DEF FeedInv, TypeOK
<1>5. ASSUME NEW p \in Peer, p # PeerOf[w] \/ ~crossed[w]
      PROVE  cursor[p] <= cursor'[p]
  <2>1. CASE p = PeerOf[w]
    <3>1. seen[w] = cursor[p]
      BY <1>1, <1>5, <2>1 DEF AloneInv
    <3>2. QED
      BY <1>2, <1>3, <2>1, <3>1, Numbers
  <2>2. CASE p # PeerOf[w]
    BY <1>3, <2>2, Numbers
  <2>3. QED
    BY <2>1, <2>2
<1>6. pc'[w] = "idle" /\ \A x \in Worker \ {w} : Keeps(x)
  BY <1>1 DEF Keeps, FeedInv, TypeOK
<1>7. AloneInv'
  <2> SUFFICES ASSUME NEW x \in Worker, pc'[x] # "idle", ~crossed[x]
               PROVE  /\ seen'[x] = cursor'[PeerOf[x]]
                      /\ \A v \in Worker \ {x} : PeerOf[v] = PeerOf[x] => pc'[v] = "idle"
    BY <1>1 DEF AloneInv
  <2>1. x # w /\ pc[x] # "idle"
    BY <1>6 DEF Keeps
  <2>2. PeerOf[x] # PeerOf[w]
    BY <1>1, <2>1, BothCrossed
  <2>3. QED
    BY <1>1, <1>3, <1>6, <2>1, <2>2, Numbers DEF AloneInv, Keeps
<1>8. AboveInv'
  BY <1>1, <1>6 DEF AboveInv, Keeps
<1>9. RecentInv'
  <2> SUFFICES ASSUME NEW p \in Peer, NEW m \in recent[p]
               PROVE  /\ num[m] # 0
                      /\ m \in doubt'[p] \/ num[m] <= cursor'[p] \/ \E x \in Worker :
                            PeerOf[x] = p /\ pc'[x] = "commit" /\ art'[x] = m
    BY <1>1 DEF RecentInv, Counted
  <2>1. num[m] # 0 /\ num[m] \in Nat /\ m \in Msg
    BY Numbers DEF RecentInv, FeedInv, TypeOK
  <2>2. CASE m \in doubt[p]
    BY <1>3, <1>4, <2>1, <2>2
  <2>3. CASE num[m] <= cursor[p]
    <3>1. CASE p = PeerOf[w] /\ num[art[w]] < num[m]
      BY <1>4, <2>1, <2>3, <3>1 DEF Uncounted
    <3>2. CASE p = PeerOf[w] /\ ~(num[art[w]] < num[m])
      BY <1>2, <1>3, <2>1, <3>2, Numbers
    <3>3. CASE p # PeerOf[w]
      BY <1>3, <2>1, <2>3, <3>3
    <3>4. QED
      BY <3>1, <3>2, <3>3
  <2>4. ASSUME NEW x \in Worker, PeerOf[x] = p, pc[x] = "commit", art[x] = m
        PROVE  \/ num[m] <= cursor'[p]
               \/ PeerOf[x] = p /\ pc'[x] = "commit" /\ art'[x] = m
    <3>1. CASE x = w
      BY <1>3, <2>1, <2>4, <3>1
    <3>2. CASE x # w
      BY <1>6, <2>4, <3>2 DEF Keeps
    <3>3. QED
      BY <3>1, <3>2
  <2>5. QED
    BY <2>1, <2>2, <2>3, <2>4 DEF RecentInv, Counted
<1>10. QED
  BY <1>5, <1>7, <1>8, <1>9

(* A round whose number could not be stored leaves its article in doubt. *)
LEMMA RoundCommitFails ==
  ASSUME RoundInv, NEW w \in Worker, CommitFails(w)
  PROVE  AloneInv' /\ AboveInv' /\ RecentInv'
<1> USE DEF RoundInv
<1>1. /\ doubt' = [doubt EXCEPT ![PeerOf[w]] = @ \union {art[w]}]
      /\ pc' = [pc EXCEPT ![w] = "idle"]
      /\ art' = [art EXCEPT ![w] = None]
      /\ pc[w] = "commit" /\ UNCHANGED <<num, cursor, seen, recent, crossed>>
  BY DEF CommitFails, spoolVars, history
<1>2. PeerOf[w] \in Peer /\ \A p \in Peer : doubt[p] \subseteq doubt'[p]
      /\ art[w] \in doubt'[PeerOf[w]]
  BY <1>1, Numbers DEF FeedInv, TypeOK
<1>3. pc'[w] = "idle" /\ \A x \in Worker \ {w} : Keeps(x)
  BY <1>1 DEF Keeps, FeedInv, TypeOK
<1>4. AloneInv' /\ AboveInv'
  BY <1>1, <1>3 DEF AloneInv, AboveInv, Keeps
<1>5. RecentInv'
  <2> SUFFICES ASSUME NEW p \in Peer, NEW m \in recent[p]
               PROVE  /\ num[m] # 0
                      /\ m \in doubt'[p] \/ num[m] <= cursor[p] \/ \E x \in Worker :
                            PeerOf[x] = p /\ pc'[x] = "commit" /\ art'[x] = m
    BY <1>1 DEF RecentInv, Counted
  <2>1. ASSUME NEW x \in Worker, PeerOf[x] = p, pc[x] = "commit", art[x] = m
        PROVE  m \in doubt'[p] \/ (PeerOf[x] = p /\ pc'[x] = "commit" /\ art'[x] = m)
    BY <1>2, <1>3, <2>1 DEF Keeps
  <2>2. QED
    BY <1>2, <2>1 DEF RecentInv, Counted
<1>6. QED
  BY <1>4, <1>5

(* A round begins with the cursor, crossing those that are going on. *)
LEMMA RoundBegins ==
  ASSUME RoundInv, NEW w \in Worker, ReadCursor(w)
  PROVE  AloneInv' /\ AboveInv' /\ RecentInv'
<1> USE DEF RoundInv
<1>1. /\ pc[w] = "idle" /\ UNCHANGED <<num, cursor, art, recent, doubt>>
      /\ crossed' = [v \in Worker |-> IF v = w THEN Alongside(w) # {}
                                      ELSE crossed[v] \/ v \in Alongside(w)]
  BY DEF ReadCursor, spoolVars, history
<1>2. /\ pc'[w] = "fetch" /\ seen'[w] = cursor[PeerOf[w]]
      /\ \A x \in Worker \ {w} : Keeps(x)
  BY DEF ReadCursor, Keeps, FeedInv, TypeOK
<1>3. ASSUME NEW x \in Worker, pc'[x] # "idle", ~crossed'[x]
      PROVE  /\ seen'[x] = cursor'[PeerOf[x]]
             /\ \A v \in Worker \ {x} : PeerOf[v] = PeerOf[x] => pc'[v] = "idle"
  <2>1. CASE x = w
    BY <1>1, <1>2, <1>3, <2>1 DEF Alongside, Keeps
  <2>2. CASE x # w
    <3>1. pc[x] # "idle" /\ ~crossed[x] /\ x \notin Alongside(w)
      BY <1>1, <1>2, <1>3, <2>2 DEF Keeps
    <3>2. PeerOf[x] # PeerOf[w]
      BY <2>2, <3>1 DEF Alongside
    <3>3. QED
      BY <1>1, <1>2, <2>2, <3>1, <3>2 DEF AloneInv, Keeps
  <2>3. QED
    BY <2>1, <2>2
<1>4. AloneInv'
  BY <1>3 DEF AloneInv
<1>5. AboveInv'
  BY <1>1, <1>2 DEF AboveInv, Keeps
<1>6. \A p \in Peer, m \in Msg : Counted(p, m) => Counted(p, m)'
  BY <1>1, <1>2 DEF Counted, Keeps
<1>7. RecentInv'
  BY <1>1, <1>6 DEF RecentInv, FeedInv, TypeOK
<1>8. QED
  BY <1>4, <1>5, <1>7

(* The steps in between leave the cursor and the histories of the rounds. *)
LEMMA RoundGoesOn ==
  ASSUME RoundInv, NEW w \in Worker,
         Connect(w) \/ Fetch(w) \/ Filter(w) \/ Post(w) \/ Break(w)
  PROVE  AloneInv' /\ AboveInv' /\ RecentInv'
<1> USE DEF RoundInv, FeedInv
<1>1. UNCHANGED <<num, cursor, seen, crossed>>
  BY DEF Connect, Fetch, Filter, Post, Break, spoolVars, doubts
<1>2. \A x \in Worker \ {w} : Keeps(x)
  <2>1. CASE Fetch(w)
    BY <2>1 DEF Fetch, Keeps, TypeOK
  <2>2. CASE ~Fetch(w)
    BY <2>2 DEF Connect, Filter, Post, Break, Keeps, TypeOK
  <2>3. QED
    BY <2>1, <2>2
<1>3. pc'[w] # "idle" => pc[w] # "idle"
  BY DEF Connect, Fetch, Filter, Post, Break
<1>4. AloneInv'
  BY <1>1, <1>2, <1>3 DEF AloneInv, Keeps
<1>5. pc[w] = "commit" => pc'[w] = "commit" /\ art'[w] = art[w]
  <2>1. CASE Break(w)
    BY <2>1 DEF Break
  <2>2. CASE ~Break(w)
    BY <2>2 DEF Connect, Fetch, Filter, Post
  <2>3. QED
    BY <2>1, <2>2
<1>6. \A p \in Peer, m \in Msg : Counted(p, m) => Counted(p, m)'
  BY <1>1, <1>2, <1>5 DEF Counted, Keeps
<1>7. RecentInv'
  <2>1. CASE Post(w)
    <3>1. /\ PeerOf[w] \in Peer /\ art[w] \in Msg /\ num[art[w]] # 0
          /\ pc'[w] = "commit" /\ art'[w] = art[w]
      BY <2>1 DEF Post, WorkerInv, WorkerInvOf, Chosen, TypeOK
    <3>2. ASSUME NEW p \in Peer, NEW m \in recent'[p]
          PROVE  num[m] # 0 /\ (m \in doubt'[p] \/ Counted(p, m)')
      <4>1. CASE p = PeerOf[w] /\ m = art[w]
        BY <3>1, <4>1 DEF Counted
      <4>2. CASE ~(p = PeerOf[w] /\ m = art[w])
        <5>1. m \in recent[p] /\ m \in Msg /\ (m \in doubt[p] => m \in doubt'[p])
          BY <2>1, <3>1, <3>2, <4>2 DEF Post, TypeOK
        <5>2. QED
          BY <1>6, <5>1 DEF RecentInv
      <4>3. QED
        BY <4>1, <4>2
    <3>3. QED
      BY <1>1, <3>2 DEF RecentInv
  <2>2. CASE ~Post(w)
    <3>1. UNCHANGED <<recent, doubt>>
      BY <2>2 DEF Connect, Fetch, Filter, Break, history, doubts
    <3>2. QED
      BY <1>1, <1>6, <3>1 DEF RecentInv, TypeOK
  <2>3. QED
    BY <2>1, <2>2
<1>8. AboveInv'
  <2>1. pc'[w] \in {"filter", "post", "commit"} => num[art'[w]] > seen[w]
    <3>1. CASE Fetch(w)
      <4>1. \/ pc'[w] = "idle"
            \/ IsNext(art'[w], seen[w])
        BY <3>1, FetchChooses
      <4>2. QED
        BY <4>1 DEF IsNext, After
    <3>2. CASE ~Fetch(w)
      <4>1. pc'[w] \in {"filter", "post", "commit"} =>
               pc[w] \in {"filter", "post", "commit"} /\ art'[w] = art[w]
        BY <3>2 DEF Connect, Filter, Post, Break, TypeOK
      <4>2. QED
        BY <4>1 DEF AboveInv
    <3>3. QED
      BY <3>1, <3>2
  <2>2. QED
    BY <1>1, <1>2, <2>1 DEF AboveInv, Keeps
<1>9. QED
  BY <1>4, <1>7, <1>8

(* Articles arrive and are withdrawn, or nothing happens. *)
LEMMA RoundQuiet ==
  ASSUME RoundInv, Grows, UNCHANGED <<cursor, pc, seen, art, history, doubts>>
  PROVE  AloneInv' /\ AboveInv' /\ RecentInv'
<1> USE DEF RoundInv
<1>1. UNCHANGED <<cursor, pc, seen, art, recent, doubt, crossed>>
  BY DEF history, doubts
<1>2. \A m \in Msg : num[m] # 0 => num'[m] = num[m]
  BY DEF Grows
<1>3. AloneInv'
  BY <1>1 DEF AloneInv
<1>4. AboveInv'
  BY <1>1, <1>2 DEF AboveInv, FeedInv, WorkerInv, WorkerInvOf, Chosen
<1>5. \A p \in Peer : recent[p] \subseteq Msg
  BY DEF FeedInv, TypeOK
<1>6. RecentInv'
  BY <1>1, <1>2, <1>5 DEF RecentInv, Counted
<1>7. QED
  BY <1>3, <1>4, <1>6

LEMMA RoundInductive ==
  ASSUME RoundInv, [Next]_vars
  PROVE  RoundInv'
<1>1. TypeOK /\ FeedInv
  BY DEF RoundInv, FeedInv
<1>2. FeedInv' /\ Grows
  BY <1>1, Inductive, StepGrows
<1>3. ASSUME NEW w \in Worker, WorkerAction(w)
      PROVE  AloneInv' /\ AboveInv' /\ RecentInv'
  BY <1>3, RoundCommit, RoundCommitFails, RoundBegins, RoundGoesOn DEF WorkerAction
<1>4. ASSUME Die
      PROVE  AloneInv' /\ AboveInv' /\ RecentInv'
  BY <1>4 DEF Die, AloneInv, AboveInv, RecentInv
<1>5. QED
  BY <1>1, <1>2, <1>3, <1>4, RoundQuiet, StepWorkers DEF RoundInv

LEMMA RoundInitial == Init => RoundInv
  BY Initial DEF Init, RoundInv, AloneInv, AboveInv, RecentInv

(* A cursor goes back only in a round that another one has crossed. *)
THEOREM CursorsGrow == Spec => CursorNeverBack
<1>1. ASSUME RoundInv, [Next]_vars, NEW p \in Peer, cursor'[p] < cursor[p]
      PROVE  \E w \in Worker : /\ PeerOf[w] = p /\ crossed[w]
                               /\ pc[w] = "commit" /\ pc'[w] = "idle"
  <2>1. FeedInv /\ TypeOK /\ cursor[p] \in Nat
    BY <1>1, Numbers DEF RoundInv, FeedInv
  <2>2. cursor' # cursor
    BY <1>1, <2>1
  <2>3. PICK w \in Worker : Commit(w)
    BY <1>1, <2>2 DEF Next, SendMessages, Arrive, Cancel, Connect, ReadCursor, Fetch, Filter,
       Post, CommitFails, Break, FetchPanics, FilterPanics, Crash, Die, vars
  <2>4. PeerOf[w] = p /\ crossed[w]
    <3>1. p # PeerOf[w] \/ ~crossed[w] => cursor[p] <= cursor'[p]
      BY <1>1, <2>3, RoundCommit
    <3>2. cursor'[p] \in Nat
      <4>1. FeedInv'
        BY <1>1, <2>1, Inductive
      <4>2. QED
        BY <4>1, MaxIdAssumption DEF FeedInv, TypeOK, Number
    <3>3. QED
      BY <1>1, <2>1, <3>1, <3>2 DEF FeedInv, TypeOK
  <2>5. QED
    BY <2>1, <2>3, <2>4 DEF Commit, TypeOK
<1>2. RoundInv /\ [Next]_vars =>
         [\A p \in Peer : cursor'[p] < cursor[p] =>
             \E w \in Worker : /\ PeerOf[w] = p /\ crossed[w]
                               /\ pc[w] = "commit" /\ pc'[w] = "idle"]_vars
  BY <1>1
<1>3. QED
  BY <1>2, RoundInitial, RoundInductive, PTL DEF Spec, CursorNeverBack

(* Between two starts of the process an article is offered to a peer again
   only if the cursor does not count it, or in a round another one has
   crossed. *)
THEOREM OfferedOnce == Spec => OfferedOncePerLife
<1>1. ASSUME RoundInv, NEW w \in Worker, pc[w] = "post", ~crossed[w]
      PROVE  art[w] \notin recent[PeerOf[w]] \ doubt[PeerOf[w]]
  <2>1. num[art[w]] > seen[w] /\ seen[w] = cursor[PeerOf[w]]
    BY <1>1 DEF RoundInv, AboveInv, AloneInv
  <2>2. \A x \in Worker : PeerOf[x] = PeerOf[w] => pc[x] # "commit"
    BY <1>1 DEF RoundInv, AloneInv
  <2>3. art[w] \in Msg /\ num[art[w]] \in Nat /\ cursor[PeerOf[w]] \in Nat /\ PeerOf[w] \in Peer
    BY <1>1, Numbers DEF RoundInv
  <2>4. ~Counted(PeerOf[w], art[w])
    BY <2>1, <2>2, <2>3 DEF Counted
  <2>5. QED
    BY <1>1, <2>3, <2>4 DEF RoundInv, RecentInv
<1>2. RoundInv /\ [Next]_vars =>
         [\A w \in Worker :
             pc[w] = "post" /\ pc'[w] = "commit" =>
                 \/ art[w] \notin recent[PeerOf[w]] \ doubt[PeerOf[w]]
                 \/ crossed[w]]_vars
  BY <1>1
<1>3. QED
  BY <1>2, RoundInitial, RoundInductive, PTL DEF Spec, OfferedOncePerLife
=============================================================================
