------------------------------ MODULE Registry ------------------------------
(***************************************************************************)
(* Starting a node and its group registry: NewBackendDbs creates or opens  *)
(* the databases and seeds the article and group numbers from the clock,   *)
(* NewClient reads or makes the device key, newGroup creates a group one   *)
(* SQL statement at a time, and getPerms answers from what is there.       *)
(*                                                                         *)
(* A group has a row in groups.db, a database file of its own, and an      *)
(* entry in the maps of backendDbs; no transaction and no repair keeps the *)
(* three together.  file[g] counts the statements of newGroup that have    *)
(* been executed on the group's own database: the index tables, the perms  *)
(* table, the description, the flags, then one INSERT for each permission  *)
(* of the group's vcard.                                                   *)
(***************************************************************************)
EXTENDS Integers, Sequences

CONSTANTS
    Group,      \* group names
    Key,        \* the identities the node may generate for itself
    Friend,     \* the tor ids of its peers
    Everyone,   \* the "group" line of a card
    None,       \* no key, no group
    OwnerOf,    \* OwnerOf[g]: the first component of the name
    Card,       \* Card[g]: its permissions, [who, perms], in order
    MaxId,      \* bound: the largest row id
    MaxClock,   \* bound: the clock when a start reads it
    MaxFaults,  \* bound: failing database calls
    MaxDeaths   \* bound: how often the process dies by itself

Db == {"articles", "groups"}    \* the databases with a number seed
Right == {"read", "post"}       \* reply, cancel and supersede are like these
Nil == {"nil"}                  \* a nil *PermissionsGroupT
Who == Key \union Friend
Preamble == 4                   \* statements before the first permission

ASSUME RegistryAssumption ==
    /\ None \notin Group \union Who /\ Everyone \notin Who
    /\ OwnerOf \in [Group -> Who]
    /\ Card \in [Group -> Seq([who : Who \union {Everyone}, perms : SUBSET Right])]
    /\ MaxId \in Nat /\ MaxClock \in Nat /\ MaxFaults \in Nat /\ MaxDeaths \in Nat

VARIABLES
    seedRow,  \* the databases in which a row named DELETEME is left
    seq,      \* seq[d]: the largest id ever given, as AUTOINCREMENT keeps it
    ids,      \* the ids of the rows of articles.db
    row,      \* row[g]: the id of g in groups.db, 0 for none
    file,     \* file[g]: statements executed on g's own database
    key,      \* the device key in config.db
    pc,       \* where NewBackendDbs and NewClient are: [step, db]
    me,       \* the device key in memory
    open,     \* the groups in the maps of backendDbs
    making,   \* the group newGroup is creating
    acked,    \* groups whose creation was answered without an error
    mine,     \* those created over a local session
    failed,   \* groups whose creation failed since the start
    partial,  \* openGroups has stopped half-way since the start
    misread,  \* a device key that was there could not be read
    torn,     \* a death has left a row DELETEME behind
    faults, deaths

disk == <<seedRow, seq, ids, row, file, key>>
memory == <<me, open, making, failed, partial>>
history == <<acked, mine, misread, torn>>
vars == <<disk, memory, pc, history, faults, deaths>>

At(s) == pc.step = s
Goto(s, d) == pc' = [step |-> s, db |-> d]
Down == [step |-> "down", db |-> "articles"]
Up == At("up")
Whole(g) == Preamble + Len(Card[g])
Created == {g \in Group : row[g] # 0}
Taken(d) == IF d = "articles" THEN ids ELSE {row[g] : g \in Created}

TypeOK ==
    /\ seedRow \subseteq Db
    /\ seq \in [Db -> Nat] /\ \A d \in Db : seq[d] <= MaxClock \/ seq[d] <= MaxId
    /\ ids \subseteq 1 .. MaxId
    /\ row \in [Group -> 0 .. MaxId]
    /\ file \in [Group -> Nat] /\ \A g \in Group : file[g] <= Whole(g)
    /\ key \in Key \union {None} /\ me \in Key \union {None}
    /\ pc \in [step : {"down", "insert", "delete", "open", "key", "up"}, db : Db]
    /\ open \subseteq Created
    /\ making \in Group \union {None}
    /\ acked \subseteq Group /\ mine \subseteq acked /\ failed \subseteq Group
    /\ partial \in BOOLEAN /\ misread \in BOOLEAN /\ torn \in BOOLEAN
    /\ faults \in 0 .. MaxFaults /\ deaths \in 0 .. MaxDeaths

Init ==
    /\ seedRow = {} /\ seq = [d \in Db |-> 0] /\ ids = {}
    /\ row = [g \in Group |-> 0] /\ file = [g \in Group |-> 0]
    /\ key = None /\ me = None
    /\ pc = Down
    /\ open = {} /\ making = None
    /\ acked = {} /\ mine = {} /\ failed = {}
    /\ partial = FALSE /\ misread = FALSE /\ torn = FALSE
    /\ faults = 0 /\ deaths = 0

Fault == faults < MaxFaults /\ faults' = faults + 1
-----------------------------------------------------------------------------
(* Starting. *)

(* The owner starts the program. *)
Start ==
    /\ At("down")
    /\ Goto("insert", "articles")
    /\ UNCHANGED <<disk, memory, history, faults, deaths>>

(* openCreateDB: the row DELETEME with the time for its id.  AUTOINCREMENT
   remembers the largest id. *)
InsertSeed(t) ==
    /\ At("insert")
    /\ pc.db \notin seedRow /\ t \notin Taken(pc.db)
    /\ seedRow' = seedRow \union {pc.db}
    /\ seq' = [seq EXCEPT ![pc.db] = IF t > @ THEN t ELSE @]
    /\ Goto("delete", pc.db)
    /\ UNCHANGED <<ids, row, file, key, memory, history, faults, deaths>>

(* The name is UNIQUE and the id is the primary key: the INSERT fails, and
   NewClient ends the process. *)
InsertFails(t) ==
    /\ At("insert")
    /\ pc.db \in seedRow \/ t \in Taken(pc.db)
    /\ pc' = Down
    /\ UNCHANGED <<disk, memory, history, faults, deaths>>

AfterSeed == IF pc.db = "articles" THEN Goto("insert", "groups") ELSE Goto("open", "groups")

(* Variant: the row stays. *)
DeleteNothing ==
    /\ At("delete")
    /\ AfterSeed
    /\ UNCHANGED <<disk, memory, history, faults, deaths>>

(* openCreateDB: and the row is deleted. *)
DeleteSeed ==
    /\ At("delete")
    /\ seedRow' = seedRow \ {pc.db}
    /\ AfterSeed
    /\ UNCHANGED <<seq, ids, row, file, key, memory, history, faults, deaths>>

(* Variant: only groups that are complete are opened. *)
openWholeGroups ==
    /\ At("open")
    /\ open' = {g \in Created : file[g] = Whole(g)}
    /\ Goto("key", pc.db)
    /\ UNCHANGED <<disk, me, making, failed, partial, history, faults, deaths>>

(* openGroups: every row, with its database as it is; or, when one cannot
   be opened, some of the rest, and nobody looks at the error. *)
openGroups ==
    /\ At("open")
    /\ \/ /\ open' = Created
          /\ UNCHANGED <<partial, faults>>
       \/ \E g \in Created :
          /\ open' \in SUBSET (Created \ {g})
          /\ partial' = TRUE
          /\ Fault
    /\ Goto("key", pc.db)
    /\ UNCHANGED <<disk, me, making, failed, history, deaths>>

(* Variant: a key is made at every start. *)
RemakeKey ==
    /\ At("key")
    /\ \E k \in Key : me' = k /\ key' = k
    /\ Goto("up", pc.db)
    /\ UNCHANGED <<seedRow, seq, ids, row, file, open, making, failed, partial,
                   history, faults, deaths>>

(* NewClient: any error of ConfigGetDeviceKey, not only the absence of a
   key, makes a new one, which ConfigSet stores over the old one. *)
ConfigGetDeviceKey ==
    /\ At("key")
    /\ \/ /\ key # None
          /\ me' = key
          /\ UNCHANGED <<key, misread, faults>>
       \/ /\ key = None
          /\ \E k \in Key : me' = k /\ key' = k
          /\ UNCHANGED <<misread, faults>>
       \/ /\ key # None /\ Fault
          /\ \E k \in Key \ {key} : me' = k /\ key' = k
          /\ misread' = TRUE
    /\ Goto("up", pc.db)
    /\ UNCHANGED <<seedRow, seq, ids, row, file, open, making, failed, partial,
                   acked, mine, torn, deaths>>

(* Its ConfigSet fails: BackendDbs.ConfigSet answers nil all the same, and
   the node runs with a key that is not stored. *)
ConfigSetFails ==
    /\ At("key") /\ key = None /\ Fault
    /\ \E k \in Key : me' = k
    /\ Goto("up", pc.db)
    /\ UNCHANGED <<disk, open, making, failed, partial, history, deaths>>

StartUp ==
    \/ \E t \in 1 .. MaxClock : InsertSeed(t) \/ InsertFails(t)
    \/ DeleteSeed \/ openGroups \/ ConfigGetDeviceKey \/ ConfigSetFails
-----------------------------------------------------------------------------
(* Dying. *)

Die ==
    /\ pc' = Down
    /\ me' = None /\ open' = {} /\ making' = None
    /\ failed' = {} /\ partial' = FALSE
    /\ UNCHANGED <<acked, mine, misread>>

Crash ==
    /\ ~At("down") /\ deaths < MaxDeaths
    /\ Die
    /\ torn' = (torn \/ At("delete"))
    /\ deaths' = deaths + 1
    /\ UNCHANGED <<disk, faults>>

(* The first Post of a node whose key is not stored takes an empty key from
   config.db for its own: TorId of it panics. *)
PostWithoutKey ==
    /\ Up /\ making = None /\ key = None
    /\ Die
    /\ UNCHANGED <<disk, torn, faults, deaths>>
-----------------------------------------------------------------------------
(* newGroup. *)

Serving == Up /\ making = None /\ key # None

(* CheckControl has seen that the author of the newgroup message owns the
   name.  The INSERT; a name that has a row is refused. *)
NewGroup(g) ==
    /\ Serving
    /\ OwnerOf[g] \in {me} \union Friend
    /\ row[g] = 0 /\ seq["groups"] < MaxId
    /\ row' = [row EXCEPT ![g] = seq["groups"] + 1]
    /\ seq' = [seq EXCEPT !["groups"] = @ + 1]
    /\ making' = g
    /\ UNCHANGED <<seedRow, ids, file, key, me, open, failed, partial, pc, history,
                   faults, deaths>>

(* The next statement on the group's own database. *)
Statement ==
    /\ making # None /\ file[making] < Whole(making)
    /\ file' = [file EXCEPT ![making] = @ + 1]
    /\ UNCHANGED <<seedRow, seq, ids, row, key, memory, pc, history, faults, deaths>>

(* A statement fails: the error is returned, what is written stays. *)
StatementFails ==
    /\ making # None /\ file[making] < Whole(making) /\ Fault
    /\ failed' = failed \union {making}
    /\ making' = None
    /\ UNCHANGED <<disk, me, open, partial, pc, history, deaths>>

(* Variant: an interrupted group is entered in the maps all the same. *)
FinishEarly ==
    /\ making # None /\ file[making] >= Preamble
    /\ open' = open \union {making}
    /\ acked' = acked \union {making}
    /\ mine' = IF OwnerOf[making] = me THEN mine \union {making} ELSE mine
    /\ making' = None
    /\ UNCHANGED <<disk, me, failed, partial, pc, misread, torn, faults, deaths>>

(* Variant: the maps are forgotten. *)
FinishUnmapped ==
    /\ making # None /\ file[making] = Whole(making)
    /\ acked' = acked \union {making}
    /\ mine' = IF OwnerOf[making] = me THEN mine \union {making} ELSE mine
    /\ making' = None
    /\ UNCHANGED <<disk, me, open, failed, partial, pc, misread, torn, faults, deaths>>

(* All is written: the maps, and the answer. *)
Finish ==
    /\ making # None /\ file[making] = Whole(making)
    /\ open' = open \union {making}
    /\ acked' = acked \union {making}
    /\ mine' = IF OwnerOf[making] = me THEN mine \union {making} ELSE mine
    /\ making' = None
    /\ UNCHANGED <<disk, me, failed, partial, pc, misread, torn, faults, deaths>>
-----------------------------------------------------------------------------
(* Posting to a group. *)

(* What the first n lines of a card give to w: its own line, else that for
   everyone, else nothing is known.  INSERT OR REPLACE keeps the last. *)
Given(g, n, w) ==
    LET lines(x) == {i \in 1 .. n : Card[g][i].who = x}
        last(x) == CHOOSE i \in lines(x) : \A j \in lines(x) : j <= i
    IN  IF lines(w) # {} THEN Card[g][last(w)].perms
        ELSE IF lines(Everyone) # {} THEN Card[g][last(Everyone)].perms
        ELSE Nil

(* What the card says, all of it. *)
CardPerms(w, g) == IF w = OwnerOf[g] THEN Right ELSE Given(g, Len(Card[g]), w)

(* Variant: the line for everyone comes first. *)
getPermsGroupFirst(w, g) ==
    IF w = OwnerOf[g] THEN Right
    ELSE IF g \notin open THEN {}
    ELSE LET n == IF file[g] < Preamble THEN 0 ELSE file[g] - Preamble
         IN  IF Given(g, n, Everyone) # Nil THEN Given(g, n, Everyone) ELSE Given(g, n, w)

(* getPerms.  Without the perms table the error is not ErrNoRows, and the
   empty permissions are returned. *)
getPerms(w, g) ==
    IF w = OwnerOf[g] THEN Right
    ELSE IF Created = {} THEN Nil
    ELSE IF g \notin open \/ file[g] < 2 THEN {}
    ELSE Given(g, IF file[g] < Preamble THEN 0 ELSE file[g] - Preamble, w)

(* Post takes a group with nil permissions for one that may be posted to. *)
Postable(w, g) ==
    /\ getPerms(w, g) = Nil \/ "post" \in getPerms(w, g)
    /\ row[g] # 0

(* StoreArticle and AddArticleToGroup. *)
Post(w, g) ==
    /\ Serving /\ w \in {me} \union Friend
    /\ Postable(w, g) /\ g \in open
    /\ seq["articles"] < MaxId
    /\ ids' = ids \union {seq["articles"] + 1}
    /\ seq' = [seq EXCEPT !["articles"] = @ + 1]
    /\ UNCHANGED <<seedRow, row, file, key, memory, pc, history, faults, deaths>>

(* A group that is not in the maps: Exec on a nil database. *)
PostPanics(w, g) ==
    /\ Serving /\ w \in {me} \union Friend
    /\ Postable(w, g) /\ g \notin open
    /\ seq["articles"] < MaxId
    /\ ids' = ids \union {seq["articles"] + 1}
    /\ seq' = [seq EXCEPT !["articles"] = @ + 1]
    /\ Die
    /\ UNCHANGED <<seedRow, row, file, key, torn, faults, deaths>>
-----------------------------------------------------------------------------
Next ==
    \/ Start \/ StartUp
    \/ Crash \/ PostWithoutKey
    \/ \E g \in Group : NewGroup(g)
    \/ Statement \/ StatementFails \/ Finish
    \/ \E w \in Who, g \in Group : Post(w, g) \/ PostPanics(w, g)

Spec == Init /\ [][Next]_vars

(* The owner starts a node that has ended, and a start goes on.  The clock
   moves: an id that is taken is not met at every start. *)
Fairness ==
    /\ WF_vars(Start)
    /\ WF_vars(StartUp)
    /\ \A d \in Db : SF_vars(\E t \in 1 .. MaxClock : pc.db = d /\ InsertSeed(t))

FairSpec == Spec /\ Fairness
-----------------------------------------------------------------------------
(***************************************************************************)
(* Properties.                                                             *)
(***************************************************************************)

(* Once newGroup has answered without an error, the group's permissions are
   those of its card, for everybody, in this life of the process and in all
   later ones (unless openGroups has stopped before it). *)
PermsFollowCard ==
    Up /\ ~partial =>
        \A g \in acked : \A w \in Who : getPerms(w, g) = CardPerms(w, g)

(* A group Post can find a row for is in the maps, so that posting to it
   does not end the process: except while it is being created, after its
   creation has failed, or when openGroups has stopped. *)
RowsAreMapped ==
    Up => Created \subseteq open \union failed \union {making} \/ partial

(* The groups the owner has created stay the owner's: the node is the same
   identity in every life, unless its stored key could not be read once. *)
OwnerKeepsGroups ==
    Up /\ ~misread => \A g \in mine : OwnerOf[g] = me

(* A node that is started comes up, whatever interrupted its last life and
   whatever its clock says, unless a death between the INSERT and the DELETE
   has left a row DELETEME behind. *)
ComesUp == At("down") ~> Up \/ torn
=============================================================================
