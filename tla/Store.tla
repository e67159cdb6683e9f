------------------------------- MODULE Store -------------------------------
(***************************************************************************)
(* The article store: NNTP sessions run Post concurrently, and each of     *)
(* their database commands is executed by the one dbServer goroutine, one  *)
(* durable write (an SQL statement or a file operation) per step here.     *)
(* A write may fail, and the process may die between any two.  A post is   *)
(*    CheckControl (cancel)  ->  permitted groups  ->  StoreArticle  ->    *)
(*    DistributeArticle  ->  AddArticleToGroup for each group              *)
(*                                                                         *)
(* Messages here have passed Verify and the Path check (a message that     *)
(* fails them changes nothing), and their control is either none or        *)
(* cancel; a cancel posted to a "peers" group belongs to Peering.tla.      *)
(***************************************************************************)
EXTENDS Integers, Sequences, FiniteSets

CONSTANTS
    Session,     \* connections that may be posting at the same time
    Msg,         \* messages, named by their Message-Id
    Group,       \* newsgroups
    None,        \* no message, or no session
    From,        \* From[m]: the From header, which whoever signs m chooses
    Newsgroups,  \* Newsgroups[m]: the Newsgroups header, in its order
    Cancels,     \* Cancels[m]: the message m is a cancel of, or None
    Carried,     \* the groups this node has created
    Dotless,     \* the groups whose name has no second label
    MayPost,     \* MayPost[s]: the carried groups session s may post to
    WriteLeaves, \* what os.WriteFile may leave: "whole", "torn", "none"
    MaxId,       \* bound: the largest article number
    MaxCopies,   \* bound: how often one message is submitted
    MaxCrash,    \* bound: how often the process dies by itself
    MaxFails     \* bound: how often a statement or os.Remove fails

ASSUME NoneAssumption == None \notin Msg /\ None \notin Session
ASSUME HeaderAssumption ==
    /\ Newsgroups \in [Msg -> Seq(Group)]
    /\ Cancels \in [Msg -> Msg \union {None}]
    /\ \A m \in Msg : Newsgroups[m] # <<>>
ASSUME GroupAssumption ==
    /\ Carried \subseteq Group /\ IsFiniteSet(Carried)
    /\ MayPost \in [Session -> SUBSET Carried]
ASSUME BoundAssumption ==
    MaxId \in Nat /\ MaxCopies \in Nat /\ MaxCrash \in Nat /\ MaxFails \in Nat

VARIABLES
    id,         \* articles table: id[m] is the row's id, 0 for no row
    lastId,     \* sqlite_sequence of the articles table
    refs,       \* articles table: the refs column
    files,      \* messages whose article file is whole
    torn,       \* messages whose article file stops within the headers
    index,      \* index[g]: the messages group g's own database lists
    pc,         \* pc[s]: where session s is in Post
    msg,        \* msg[s]: the message session s is posting
    todo,       \* todo[s]: postable groups still to be indexed
    db,         \* the next write of the command dbServer is executing
    by,         \* the session waiting for that command
    del,        \* delGroups still to go through, in a cancel
    up,         \* the process is running
    copies,     \* copies[m]: submissions of m so far
    announced,  \* announced[m]: DistributeArticle calls for m so far
    crashes,    \* deaths so far
    fails,      \* failures so far
    hurt        \* messages whose listings, count and file may have parted

disk   == <<id, lastId, refs, files, torn, index>>
posts  == <<pc, msg, todo>>
server == <<db, by, del>>
bounds == <<copies, announced, crashes>>
faults == <<fails, hurt>>
vars   == <<disk, posts, server, up, bounds, faults>>

GroupsOf(m) == {Newsgroups[m][i] : i \in DOMAIN Newsgroups[m]}

(* postableGroups of Post: GetPerms answers "no" for a group the node does
   not carry, and GetGroupNumber is nonzero for one it does. *)
Postable(s, m) == GroupsOf(m) \intersect MayPost[s]

TypeOK ==
    /\ id \in [Msg -> 0 .. MaxId]
    /\ lastId \in 0 .. MaxId
    /\ refs \in [Msg -> Int]
    /\ files \in SUBSET Msg
    /\ torn \in SUBSET Msg
    /\ index \in [Carried -> SUBSET Msg]
    /\ pc \in [Session -> {"idle", "control", "store", "announce", "index"}]
    /\ msg \in [Session -> Msg \union {None}]
    /\ todo \in [Session -> SUBSET Carried]
    /\ db \in {"idle", "write", "incref", "delindex", "decref", "rmfile"}
    /\ by \in Session \union {None}
    /\ del \in Seq(Group)
    /\ up \in BOOLEAN
    /\ copies \in [Msg -> 0 .. MaxCopies]
    /\ announced \in [Msg -> Nat]
    /\ crashes \in 0 .. MaxCrash
    /\ fails \in 0 .. MaxFails
    /\ hurt \in SUBSET Msg

Init ==
    /\ id = [m \in Msg |-> 0]
    /\ lastId = 0
    /\ refs = [m \in Msg |-> 0]
    /\ files = {}
    /\ torn = {}
    /\ index = [g \in Carried |-> {}]
    /\ pc = [s \in Session |-> "idle"]
    /\ msg = [s \in Session |-> None]
    /\ todo = [s \in Session |-> {}]
    /\ db = "idle" /\ by = None /\ del = <<>>
    /\ up = TRUE
    /\ copies = [m \in Msg |-> 0]
    /\ announced = [m \in Msg |-> 0]
    /\ crashes = 0
    /\ fails = 0
    /\ hurt = {}

(* A write of dbServer, or its first look at a file, returns an error. *)
Fault == fails < MaxFails /\ fails' = fails + 1

(* Session s has inserted the row of the message it is posting. *)
Past(s) == pc[s] \in {"announce", "index"} \/ (db = "write" /\ by = s)

Target == Cancels[msg[by]]

(* The messages some command or post is half way through with. *)
HalfDone == {m \in Msg : \/ \E s \in Session : Past(s) /\ msg[s] = m
                         \/ db \in {"decref", "rmfile"} /\ Target = m}
-----------------------------------------------------------------------------
(* Steps of a session. *)

(* Post returns, with or without an error: the session is free. *)
Return(s) ==
    /\ pc' = [pc EXCEPT ![s] = "idle"]
    /\ msg' = [msg EXCEPT ![s] = None]
    /\ todo' = [todo EXCEPT ![s] = {}]

(* CheckControl is done: with no postable group the post fails here, after
   its control message has been carried out. *)
LeaveControl(s) ==
    IF Postable(s, msg[s]) = {}
    THEN Return(s)
    ELSE pc' = [pc EXCEPT ![s] = "store"] /\ UNCHANGED <<msg, todo>>

(* A client or a peer posts m: a first copy or a repeated one. *)
Submit(s, m) ==
    /\ up /\ pc[s] = "idle" /\ copies[m] < MaxCopies
    /\ pc' = [pc EXCEPT ![s] = "control"]
    /\ msg' = [msg EXCEPT ![s] = m]
    /\ copies' = [copies EXCEPT ![m] = @ + 1]
    /\ UNCHANGED <<disk, todo, server, up, announced, crashes, faults>>

(* CheckControl of an article that is no control message. *)
NoControl(s) ==
    /\ up /\ pc[s] = "control" /\ Cancels[msg[s]] = None
    /\ LeaveControl(s)
    /\ UNCHANGED <<disk, server, up, bounds, faults>>

(* DistributeArticle: the peers are told before any group lists it. *)
Announce(s) ==
    /\ up /\ pc[s] = "announce"
    /\ pc' = [pc EXCEPT ![s] = "index"]
    /\ todo' = [todo EXCEPT ![s] = Postable(s, msg[s])]
    /\ announced' = [announced EXCEPT ![msg[s]] = @ + 1]
    /\ UNCHANGED <<disk, msg, server, up, copies, crashes, faults>>
-----------------------------------------------------------------------------
(* Steps of dbServer.  A command starts only when the last has been
   answered; a command of a single write is a single step. *)

Free == up /\ db = "idle"
Reply == db' = "idle" /\ by' = None /\ del' = <<>>

(* Variant: INSERT OR REPLACE, a repeated copy gets a new row. *)
StoreReplaces(s) ==
    /\ Free /\ pc[s] = "store" /\ lastId < MaxId
    /\ lastId' = lastId + 1
    /\ id' = [id EXCEPT ![msg[s]] = lastId + 1]
    /\ refs' = [refs EXCEPT ![msg[s]] = 0]
    /\ db' = "write" /\ by' = s
    /\ UNCHANGED <<files, torn, index, posts, del, up, bounds, faults>>

(* storeArticle, the INSERT: the Message-Id is UNIQUE, so a repeated copy
   fails and Post returns the error. *)
StoreInsert(s) ==
    /\ Free /\ pc[s] = "store"
    /\ IF id[msg[s]] # 0
       THEN Return(s) /\ UNCHANGED <<disk, server>>
       ELSE /\ lastId < MaxId
            /\ lastId' = lastId + 1
            /\ id' = [id EXCEPT ![msg[s]] = lastId + 1]
            /\ refs' = [refs EXCEPT ![msg[s]] = 0]
            /\ db' = "write" /\ by' = s
            /\ UNCHANGED <<files, torn, index, posts, del>>
    /\ UNCHANGED <<up, bounds, faults>>

(* storeArticle, the INSERT fails for another reason: so does the post. *)
StoreFails(s) ==
    /\ Free /\ pc[s] = "store" /\ Fault
    /\ Return(s)
    /\ UNCHANGED <<disk, server, up, bounds, hurt>>

(* storeArticle, os.WriteFile.  It may fail, before or after it has written
   something; the row stays. *)
StoreWrite(left) ==
    /\ up /\ db = "write"
    /\ IF left = "whole"
       THEN /\ files' = files \union {msg[by]}
            /\ pc' = [pc EXCEPT ![by] = "announce"]
            /\ UNCHANGED <<torn, msg, todo>>
       ELSE /\ torn' = IF left = "torn" THEN torn \union {msg[by]} ELSE torn
            /\ Return(by)
            /\ UNCHANGED files
    /\ Reply
    /\ UNCHANGED <<id, lastId, refs, index, up, bounds, faults>>

(* addArticleToGroup, the INSERT into the group's index, where the
   Message-Id is UNIQUE too; the groups come in no particular order. *)
AddIndex(s, g) ==
    /\ Free /\ pc[s] = "index" /\ g \in todo[s]
    /\ IF msg[s] \in index[g]
       THEN Return(s) /\ UNCHANGED <<disk, server>>
       ELSE /\ index' = [index EXCEPT ![g] = @ \union {msg[s]}]
            /\ todo' = [todo EXCEPT ![s] = @ \ {g}]
            /\ db' = "incref" /\ by' = s
            /\ UNCHANGED <<id, lastId, refs, files, torn, pc, msg, del>>
    /\ UNCHANGED <<up, bounds, faults>>

(* addArticleToGroup, the INSERT fails for another reason: Post returns and
   leaves the groups to come undone. *)
IndexFails(s) ==
    /\ Free /\ pc[s] = "index" /\ todo[s] # {} /\ Fault
    /\ Return(s)
    /\ hurt' = hurt \union {msg[s]}
    /\ UNCHANGED <<disk, server, up, bounds>>

(* Variant: Post returns after the first group. *)
IncRefReturnsEarly ==
    /\ up /\ db = "incref"
    /\ refs' = [refs EXCEPT ![msg[by]] = @ + 1]
    /\ Return(by)
    /\ Reply
    /\ UNCHANGED <<id, lastId, files, torn, index, up, bounds, faults>>

(* addArticleToGroup, refs + 1; after the last group Post returns. *)
IncRef ==
    /\ up /\ db = "incref"
    /\ refs' = [refs EXCEPT ![msg[by]] = @ + 1]
    /\ IF todo[by] = {} THEN Return(by) ELSE UNCHANGED posts
    /\ Reply
    /\ UNCHANGED <<id, lastId, files, torn, index, up, bounds, faults>>

(* addArticleToGroup, the UPDATE fails: the group lists the article, refs
   does not count it, and the groups to come are left undone. *)
IncRefFails ==
    /\ up /\ db = "incref" /\ Fault
    /\ Return(by)
    /\ Reply
    /\ hurt' = hurt \union {msg[by]}
    /\ UNCHANGED <<disk, up, bounds>>

(* The process dies: what sessions and dbServer were doing is lost, what
   was written stays, and a file being written may be there in part. *)
Die ==
    /\ up' = FALSE
    /\ Reply
    /\ pc' = [s \in Session |-> "idle"]
    /\ msg' = [s \in Session |-> None]
    /\ todo' = [s \in Session |-> {}]
    /\ torn' \in IF db = "write" THEN {torn, torn \union {msg[by]}} ELSE {torn}
    /\ hurt' = hurt \union HalfDone
    /\ UNCHANGED <<id, lastId, refs, files, index, fails>>

(* Variant: the From headers are not compared. *)
CancelByAnyone(s) ==
    /\ Free /\ pc[s] = "control" /\ Cancels[msg[s]] # None
    /\ IF id[Cancels[msg[s]]] = 0 \/ Cancels[msg[s]] \notin files
       THEN LeaveControl(s) /\ UNCHANGED server
       ELSE /\ db' = "delindex" /\ by' = s /\ del' = Newsgroups[msg[s]]
            /\ UNCHANGED posts
    /\ UNCHANGED <<disk, up, bounds, faults>>

(* Variant: a cancel that is refused is never answered. *)
CancelUnanswered(s) ==
    /\ Free /\ pc[s] = "control" /\ Cancels[msg[s]] # None
    /\ id[Cancels[msg[s]]] # 0 /\ Cancels[msg[s]] \in files
    /\ From[Cancels[msg[s]]] = From[msg[s]]
    /\ db' = "delindex" /\ by' = s /\ del' = Newsgroups[msg[s]]
    /\ UNCHANGED <<disk, posts, up, bounds, faults>>

(* cancelMessage, getArticleById and the comparison of the two From headers
   (of nothing else: which keys signed the messages is not looked at).  Its
   error never reaches CheckControl (the wrapper returns nil), so a cancel
   that is refused is posted all the same.  getArticleBySignature takes what follows
   the headers of the file without looking whether there is anything. *)
CancelLookup(s) ==
    /\ Free /\ pc[s] = "control" /\ Cancels[msg[s]] # None
    /\ LET t == Cancels[msg[s]]
       IN  IF id[t] # 0 /\ t \in torn
           THEN Die
           ELSE /\ IF id[t] = 0 \/ t \notin files \/ From[t] # From[msg[s]]
                   THEN LeaveControl(s) /\ UNCHANGED server
                   ELSE /\ db' = "delindex" /\ by' = s
                        /\ del' = Newsgroups[msg[s]]
                        /\ UNCHANGED posts
                /\ UNCHANGED <<disk, up, faults>>
    /\ UNCHANGED bounds

(* cancelMessage, getArticleById fails, and nothing is said of it. *)
LookupFails(s) ==
    /\ Free /\ pc[s] = "control" /\ Cancels[msg[s]] # None /\ Fault
    /\ LeaveControl(s)
    /\ UNCHANGED <<disk, server, up, bounds, hurt>>

(* cancelMessage goes on to the next of delGroups, or answers. *)
NextGroup(rest) ==
    IF rest = <<>>
    THEN Reply /\ LeaveControl(by)
    ELSE db' = "delindex" /\ del' = rest /\ UNCHANGED <<by, posts>>

(* cancelMessage, one group: skipped unless the article names it.  A panic
   if its name has no second label, and if the node does not carry it, whose
   *sql.DB is nil; else the DELETE, which may find nothing to delete. *)
DelIndex ==
    /\ up /\ db = "delindex"
    /\ LET group == Head(del)
       IN  \/ /\ group \notin GroupsOf(Target)
              /\ NextGroup(Tail(del))
              /\ UNCHANGED <<disk, up, faults>>
           \/ /\ group \in GroupsOf(Target) \ (Carried \ Dotless)
              /\ Die
           \/ /\ group \in GroupsOf(Target) \intersect (Carried \ Dotless)
              /\ index' = [index EXCEPT ![group] = @ \ {Target}]
              /\ hurt' = IF Target \in index[group] THEN hurt ELSE hurt \union {Target}
              /\ db' = "decref"
              /\ UNCHANGED <<id, lastId, refs, files, torn, posts, by, del, up, fails>>
    /\ UNCHANGED bounds

(* cancelMessage returns an error, which its wrapper swallows, leaving the
   groups to come undone. *)
CancelBreaksOff ==
    /\ Fault
    /\ LeaveControl(by)
    /\ Reply
    /\ UNCHANGED <<disk, up, bounds>>

DeleteFails ==
    /\ up /\ db = "delindex"
    /\ Head(del) \in GroupsOf(Target) \intersect (Carried \ Dotless)
    /\ CancelBreaksOff
    /\ UNCHANGED hurt

(* The UPDATE after a DELETE that went through fails. *)
DecRefFails ==
    /\ up /\ db = "decref"
    /\ CancelBreaksOff
    /\ hurt' = hurt \union {Target}

(* os.Remove fails: the file of an article that is in no group stays. *)
RemoveFails ==
    /\ up /\ db = "rmfile"
    /\ CancelBreaksOff
    /\ hurt' = hurt \union {Target}

(* Variant: the UPDATE is forgotten. *)
DecRefForgotten ==
    /\ up /\ db = "decref"
    /\ NextGroup(Tail(del))
    /\ UNCHANGED <<disk, up, bounds, faults>>

(* cancelMessage, UPDATE ... refs = refs - 1 RETURNING refs. *)
DecRef ==
    /\ up /\ db = "decref"
    /\ refs' = [refs EXCEPT ![Target] = @ - 1]
    /\ IF refs[Target] = 1
       THEN db' = "rmfile" /\ UNCHANGED <<by, del, posts>>
       ELSE NextGroup(Tail(del))
    /\ UNCHANGED <<id, lastId, files, torn, index, up, bounds, faults>>

(* Variant: the row goes with the file. *)
RmFileAndRow ==
    /\ up /\ db = "rmfile"
    /\ files' = files \ {Target}
    /\ id' = [id EXCEPT ![Target] = 0]
    /\ LeaveControl(by)
    /\ Reply
    /\ UNCHANGED <<lastId, refs, torn, index, up, bounds, faults>>

(* cancelMessage, os.Remove, though a session may still be adding the article
   to other groups.  The "DELETE articles WHERE" after it is not SQL, so the
   row stays and the remaining groups are not looked at. *)
RmFile ==
    /\ up /\ db = "rmfile"
    /\ files' = files \ {Target}
    /\ hurt' = IF \E s \in Session : Past(s) /\ msg[s] = Target
               THEN hurt \union {Target} ELSE hurt
    /\ LeaveControl(by)
    /\ Reply
    /\ UNCHANGED <<id, lastId, refs, torn, index, up, bounds, fails>>
-----------------------------------------------------------------------------
Crash ==
    /\ up /\ crashes < MaxCrash
    /\ Die
    /\ crashes' = crashes + 1
    /\ UNCHANGED <<copies, announced>>

(* Variant: the sequence is set to the clock, back if need be. *)
RestartAtClock(t) ==
    /\ ~up
    /\ \A m \in Msg : id[m] # t
    /\ lastId' = t
    /\ up' = TRUE
    /\ UNCHANGED <<id, refs, files, torn, index, posts, server, bounds, faults>>

(* openCreateDB seeds the sequence with the clock by inserting and deleting
   a row with id t, which fails if an article has that id; the sequence
   never goes back, whatever the clock does. *)
Restart(t) ==
    /\ ~up
    /\ \A m \in Msg : id[m] # t
    /\ lastId' = IF t > lastId THEN t ELSE lastId
    /\ up' = TRUE
    /\ UNCHANGED <<id, refs, files, torn, index, posts, server, bounds, faults>>

SessionStep(s) ==
    \/ NoControl(s)
    \/ Announce(s)
    \/ StoreInsert(s)
    \/ CancelLookup(s)
    \/ \E g \in Carried : AddIndex(s, g)
    \/ LookupFails(s)
    \/ StoreFails(s)
    \/ IndexFails(s)

ServerStep ==
    \/ \E left \in WriteLeaves : StoreWrite(left)
    \/ IncRef
    \/ DelIndex
    \/ DecRef
    \/ RmFile
    \/ IncRefFails
    \/ DeleteFails
    \/ DecRefFails
    \/ RemoveFails

Next ==
    \/ \E s \in Session, m \in Msg : Submit(s, m)
    \/ \E s \in Session : SessionStep(s)
    \/ ServerStep
    \/ Crash
    \/ \E t \in 1 .. MaxId : Restart(t)

Spec == Init /\ [][Next]_vars

(* dbServer goes on with the command it has, and each session's goroutine
   gets its turn; nobody has to post, and nothing has to crash or restart. *)
Fairness ==
    /\ WF_vars(ServerStep)
    /\ \A s \in Session : SF_vars(SessionStep(s))

FairSpec == Spec /\ Fairness
-----------------------------------------------------------------------------
(***************************************************************************)
(* Properties.                                                             *)
(***************************************************************************)

(* The groups that list m. *)
Listings(m) == {g \in Carried : m \in index[g]}

(* A message is handed to the peer feeds at most once, however many copies
   arrive on however many sessions, are cancelled in between, or are cut
   short by a crash: the UNIQUE Message-Id of a row that is never removed. *)
AnnouncedOnce == \A m \in Msg : announced[m] <= 1

(* Once StoreArticle has let a message through, no group's index refuses it
   for being there already, so Post never fails with half of its groups
   done for that reason. *)
IndexNeverConflicts ==
    \A s \in Session : pc[s] = "index" =>
        \A g \in todo[s] : msg[s] \notin index[g]

(* An article that was stored has its file just as long as some group lists
   it: no cancel takes it away early, and none leaves it there for ever.  But
   for the articles in hurt, which the code does not keep in step: a write
   about them failed or the process died amid their commands, a cancel took
   them from a group that did not list them (a cancel that comes twice, or
   between StoreArticle and AddArticleToGroup, counts refs too low, below
   zero even), or removed the file while they were still being listed. *)
FileWhileListed ==
    \A m \in Msg \ (hurt \union HalfDone) :
        announced[m] > 0 => (m \in files <=> Listings(m) # {})

(* An article nobody has tried to cancel, and nobody is still posting, is
   listed only where one session was permitted to post it, and refs lags
   behind by one listing at most; if nothing failed and the process did not
   die meanwhile, it is listed in all those groups and each is counted. *)
ListedAsPermitted ==
    \A m \in Msg :
        /\ announced[m] > 0
        /\ \A s \in Session : msg[s] # m
        /\ \A c \in Msg : Cancels[c] = m => copies[c] = 0
        => \E s \in Session :
              /\ Listings(m) \subseteq Postable(s, m)
              /\ refs[m] \in {Cardinality(Listings(m)) - 1, Cardinality(Listings(m))}
              /\ m \notin hurt => /\ Listings(m) = Postable(s, m)
                                  /\ refs[m] = Cardinality(Listings(m))

(* Nothing disappears from a group or from disk unless dbServer is carrying
   out a cancel with the same From header, and from a group only if both
   messages name it: what was compared before the first write still holds
   writes later.  Who wrote that header is another matter: Verify checks the
   signature with the key in Approved and never holds From against it. *)
WithdrawnUnderItsFrom ==
    [][\A m \in Msg :
          LET Going == {g \in Carried : m \in index[g] \ index'[g]}
          IN  m \in files \ files' \/ Going # {} =>
                  /\ by # None /\ Target = m /\ From[msg[by]] = From[m]
                  /\ Going \subseteq GroupsOf(m) \intersect GroupsOf(msg[by])]_vars

(* Every post is answered: no order of sessions and dbServer leaves a
   client waiting, as long as the process lives. *)
EveryPostReturns == \A s \in Session : pc[s] # "idle" ~> pc[s] = "idle"

(* The row that storeArticle has inserted is seen by nobody until its file
   has been written, or the write has failed, or the process has died. *)
VisibleId == [m \in Msg |->
                IF db = "write" /\ msg[by] = m THEN 0 ELSE id[m]]

Readers == INSTANCE Spool WITH num <- VisibleId, readable <- files

(* The store is a spool: numbered once, in growing numbers, and what was
   withdrawn is never readable again. *)
ImplementsSpool == Readers!SpoolSpec
=============================================================================
