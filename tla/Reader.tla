------------------------------- MODULE Reader -------------------------------
(***************************************************************************)
(* Reading: a session that lists the groups (ListGroups, listGroups,       *)
(* getGroup) or fetches a range of articles of one group (GetArticles,     *)
(* listArticles, GetArticle) while the rest of the node goes on.           *)
(*                                                                         *)
(*   over:  rows --> chan --> forwarder --> out --> session                *)
(*   list:  rows ---------------------> (unbuffered) session               *)
(*                                                                         *)
(* Each arrow starts at a goroutine of its own.  The query of rows is      *)
(* begun by dbServer, but its rows are read by the goroutine, from the     *)
(* snapshot the first read takes; listGroups also calls getPerms and       *)
(* getGroup there, beside dbServer and not through it.                     *)
(***************************************************************************)
EXTENDS Naturals, Sequences, FiniteSets, SequencesExt

CONSTANTS
    Group,     \* group names
    Existing,  \* the groups that are complete to begin with
    None,      \* no group
    Perm,      \* Perm[g]: what the session's user may do once g is complete:
               \* "own", "read", "deny", "nil"
    MaxNum,    \* bound: the largest article number
    ChanCap    \* capacity of the channels (10)

ASSUME ReaderAssumption ==
    /\ None \notin Group /\ Existing \subseteq Group /\ IsFiniteSet(Existing)
    /\ Perm \in [Group -> {"own", "read", "deny", "nil"}]
    /\ MaxNum \in Nat /\ ChanCap \in Nat \ {0}

Num == 1 .. MaxNum
Step == 1 .. 3      \* newGroup: the row, the tables, all of it

VARIABLES
    index,   \* the index of the group that is read: numbers as inserted
    ever,    \* all numbers ever inserted, in that order
    files,   \* the articles whose file is there
    removing,\* the article a cancel has just delisted, 0 for none
    stage,   \* stage[g]: how far newGroup has got on disk
    maps,    \* the groups in the maps
    making,  \* the group newGroup is at
    writing, \* newGroup is writing the maps
    cmd,     \* what the session does: [kind, perm, from, to]
    pc,      \* where it is
    ppc,     \* where the goroutine that reads rows is
    rows,    \* the rows it has still to read
    chan, closed,
    fault,   \* what went wrong with the query: "query", it was not made;
             \* "cut", its rows ended early; "scan", a row was not read
    fpc, cur,       \* where the forwarder is, and with which article
    out, outClosed,
    nils,    \* the numbers it has sent, or is to send, without an article
    got,     \* what the session has received, in order
    start    \* the index, or the complete groups, when it asked

store == <<index, ever, files, removing>>
registry == <<stage, maps, making, writing>>
lister == <<ppc, rows, chan, closed, fault>>
forwarder == <<fpc, cur, out, outClosed, nils>>
session == <<cmd, pc, got, start>>
vars == <<store, registry, lister, forwarder, session>>

NoCmd == [kind |-> "none", perm |-> "deny", from |-> 0, to |-> 0]
Idle == removing = 0 /\ making = None    \* dbServer may take a command

TypeOK ==
    /\ index \in Seq(Num) /\ ever \in Seq(Num) /\ IsInjective(ever)
    /\ files \subseteq Num /\ removing \in {0} \union Num
    /\ stage \in [Group -> 0 .. 3]
    /\ maps \subseteq Group /\ making \in Group \union {None} /\ writing \in BOOLEAN
    /\ cmd.kind \in {"none", "over", "list"}
    /\ pc \in {"idle", "perms", "query", "receive"}
    /\ ppc \in {"off", "begin", "next", "perms", "group", "give", "left"}
    /\ Len(chan) <= ChanCap /\ Len(out) <= ChanCap
    /\ closed \in BOOLEAN /\ outClosed \in BOOLEAN
    /\ fpc \in {"off", "receive", "perms", "fetch", "send", "left"}
    /\ cur \in {0} \union Num
    /\ fault \in {"none", "query", "cut", "scan"} /\ nils \subseteq Num

Init ==
    /\ index = <<>> /\ ever = <<>> /\ files = {} /\ removing = 0
    /\ stage = [g \in Group |-> IF g \in Existing THEN 3 ELSE 0] /\ maps = Existing
    /\ making = None /\ writing = FALSE
    /\ cmd = NoCmd /\ pc = "idle" /\ got = <<>> /\ start = <<>>
    /\ ppc = "off" /\ rows = <<>> /\ chan = <<>> /\ closed = FALSE
    /\ fpc = "off" /\ cur = 0 /\ out = <<>> /\ outClosed = FALSE
    /\ fault = "none" /\ nils = {}

(* The goroutines of a command, and their channels, before and after it. *)
Cleared ==
    /\ ppc' = "off" /\ rows' = <<>> /\ chan' = <<>> /\ closed' = FALSE
    /\ fpc' = "off" /\ cur' = 0 /\ out' = <<>> /\ outClosed' = FALSE
    /\ fault' = "none" /\ nils' = {}

(* The rows a query selects, in the order of the table. *)
Selected(s, S) ==
    LET f[i \in 0 .. Len(s)] ==
            IF i = 0 THEN <<>>
            ELSE IF s[i] \in S THEN Append(f[i - 1], s[i]) ELSE f[i - 1]
    IN  f[Len(s)]
-----------------------------------------------------------------------------
(* The other sessions, through dbServer. *)

(* An article gets into the index; posts that overlap may do so in another
   order than that of their numbers. *)
AddArticle(n) ==
    /\ Idle /\ n \notin ToSet(ever)
    /\ index' = Append(index, n) /\ ever' = Append(ever, n)
    /\ files' = files \union {n}
    /\ UNCHANGED <<removing, registry, lister, forwarder, session>>

(* A cancel: from the index, and then the file. *)
Delist(n) ==
    /\ Idle /\ n \in ToSet(index)
    /\ index' = Selected(index, Num \ {n})
    /\ removing' = n
    /\ UNCHANGED <<ever, files, registry, lister, forwarder, session>>

RemoveFile ==
    /\ removing # 0
    /\ files' = files \ {removing}
    /\ removing' = 0
    /\ UNCHANGED <<index, ever, registry, lister, forwarder, session>>

(* The file of an article that is still in the index goes: a cancel that
   comes twice takes refs to 0 too early (Store). *)
LoseFile(n) ==
    /\ Idle /\ n \in files \intersect ToSet(index)
    /\ files' = files \ {n}
    /\ UNCHANGED <<index, ever, removing, registry, lister, forwarder, session>>

NewGroup(g) ==
    /\ Idle /\ stage[g] = 0
    /\ stage' = [stage EXCEPT ![g] = 1]
    /\ making' = g
    /\ UNCHANGED <<store, maps, writing, lister, forwarder, session>>

Statement ==
    /\ making # None /\ stage[making] < 3
    /\ stage' = [stage EXCEPT ![making] = @ + 1]
    /\ UNCHANGED <<store, maps, making, writing, lister, forwarder, session>>

StatementFails ==
    /\ making # None /\ stage[making] < 3
    /\ making' = None
    /\ UNCHANGED <<store, stage, maps, writing, lister, forwarder, session>>

(* The maps are written. *)
BeginMaps ==
    /\ making # None /\ stage[making] = 3 /\ ~writing
    /\ writing' = TRUE
    /\ UNCHANGED <<store, stage, maps, making, lister, forwarder, session>>

EndMaps ==
    /\ writing
    /\ maps' = maps \union {making}
    /\ making' = None /\ writing' = FALSE
    /\ UNCHANGED <<store, stage, lister, forwarder, session>>

(* The process dies; after the next start every group with a row is in the
   maps, as it is. *)
Die ==
    /\ removing' = 0
    /\ maps' = {g \in Group : stage[g] # 0}
    /\ making' = None /\ writing' = FALSE
    /\ cmd' = NoCmd /\ pc' = "idle" /\ got' = <<>> /\ start' = <<>>
    /\ Cleared
    /\ UNCHANGED <<index, ever, files, stage>>

Crash == Die

(* Go ends a process that it finds reading a map while another goroutine
   writes it. *)
ConcurrentMapAccess ==
    /\ writing /\ ppc \in {"perms", "group"}
    /\ Die
-----------------------------------------------------------------------------
(* The session. *)

Reply == pc' = "idle" /\ cmd' = NoCmd /\ got' = <<>> /\ start' = <<>> /\ Cleared

(* OVER and its like: GetArticles asks for the permissions, *)
AskOver(p, f, t) ==
    /\ pc = "idle"
    /\ cmd' = [kind |-> "over", perm |-> p, from |-> f, to |-> t]
    /\ pc' = "perms"
    /\ start' = index
    /\ UNCHANGED <<store, registry, lister, forwarder, got>>

GetPerms ==
    /\ pc = "perms" /\ Idle
    /\ \/ cmd.perm = "deny" /\ Reply
       \/ /\ cmd.perm # "deny"
          /\ pc' = "query"
          /\ UNCHANGED <<cmd, got, start, lister, forwarder>>
    /\ UNCHANGED <<store, registry>>

(* and for the list of numbers: dbServer makes the query and the goroutine
   that will read its rows, GetArticles the forwarder. *)
ListArticles ==
    /\ pc = "query" /\ Idle
    /\ pc' = "receive" /\ ppc' = "begin" /\ fpc' = "receive"
    /\ UNCHANGED <<store, registry, rows, chan, closed, fault, cur, out, outClosed, nils,
                   cmd, got, start>>

(* A query that fails gives no channel and an error.  GetArticles looks at
   the error inside the loop over the channel: the forwarder waits at a nil
   channel, that nothing comes from and nobody closes. *)
QueryFails ==
    /\ pc = "query" /\ Idle
    /\ pc' = "receive" /\ ppc' = "left" /\ fpc' = "receive"
    /\ fault' = "query"
    /\ UNCHANGED <<store, registry, rows, chan, closed, cur, out, outClosed, nils, cmd, got, start>>

(* LIST: dbServer makes the query and the goroutine.  (A query that fails
   here is an error to the session, and changes nothing.) *)
AskList ==
    /\ pc = "idle" /\ Idle
    /\ cmd' = [NoCmd EXCEPT !.kind = "list"]
    /\ pc' = "receive" /\ ppc' = "begin"
    /\ start' = {g \in maps : stage[g] = 3}
    /\ UNCHANGED <<store, registry, rows, chan, closed, fault, forwarder, got>>

(* A number comes with its article, or with none.  What the NNTP server makes
   of one without is not in this repository; if it ends the process, that is
   a Crash here. *)
ReceiveArticle ==
    /\ pc = "receive" /\ out # <<>>
    /\ got' = Append(got, Head(out))
    /\ out' = Tail(out)
    /\ UNCHANGED <<store, registry, lister, fpc, cur, outClosed, nils, cmd, pc, start>>

(* The channel is closed and empty: the session ends its reply. *)
SeesEnd ==
    IF cmd.kind = "over" THEN out = <<>> /\ outClosed ELSE closed

EndReply ==
    /\ pc = "receive" /\ SeesEnd
    /\ Reply
    /\ UNCHANGED <<store, registry>>
-----------------------------------------------------------------------------
(* The goroutine of listArticles. *)

(* Variant: the first number is left out. *)
RangeOpen(c) == {n \in Num : c.from < n /\ n <= c.to}

(* The meaning of a range whose ends are the wrong way round: the code that
   should exchange them gives both the first. *)
RangeOf(c) == IF c.from > c.to THEN {c.from} ELSE c.from .. c.to

BeginRows ==
    /\ ppc = "begin" /\ cmd.kind = "over"
    /\ rows' = Selected(index, RangeOf(cmd))
    /\ ppc' = "next"
    /\ UNCHANGED <<store, registry, chan, closed, fault, forwarder, session>>

(* Variant: a send that does not wait for room. *)
SendNumberRegardless ==
    /\ ppc = "next" /\ cmd.kind = "over" /\ rows # <<>>
    /\ chan' = Append(chan, Head(rows)) /\ rows' = Tail(rows)
    /\ UNCHANGED <<store, registry, ppc, closed, fault, forwarder, session>>

SendNumber ==
    /\ ppc = "next" /\ cmd.kind = "over" /\ rows # <<>> /\ Len(chan) < ChanCap
    /\ chan' = Append(chan, Head(rows)) /\ rows' = Tail(rows)
    /\ UNCHANGED <<store, registry, ppc, closed, fault, forwarder, session>>

EndRows ==
    /\ ppc = "next" /\ rows = <<>>
    /\ closed' = TRUE
    /\ ppc' = "left"
    /\ UNCHANGED <<store, registry, rows, chan, fault, forwarder, session>>

(* The rows end early: Next ends with an error, that nobody asks rows for, or
   listArticles cannot read a row.  The channel is closed all the same. *)
RowsFail ==
    /\ ppc = "next" /\ rows # <<>>
    /\ rows' = <<>> /\ fault' = "cut"
    /\ UNCHANGED <<store, registry, ppc, chan, closed, forwarder, session>>

(* The forwarder of GetArticles. *)

ReceiveNumber ==
    /\ fpc = "receive" /\ chan # <<>>
    /\ cur' = Head(chan) /\ chan' = Tail(chan)
    /\ fpc' = "perms"
    /\ UNCHANGED <<store, registry, ppc, rows, closed, fault, out, outClosed, nils, session>>

(* GetArticle asks for the permissions again, *)
GetPermsAgain ==
    /\ fpc = "perms" /\ Idle /\ cmd.perm # "nil"
    /\ fpc' = "fetch"
    /\ UNCHANGED <<store, registry, lister, cur, out, outClosed, nils, session>>

(* and reads a field of them without looking whether there are any. *)
GetPermsPanics ==
    /\ fpc = "perms" /\ Idle /\ cmd.perm = "nil"
    /\ Die

(* An article that is not there is no error to the forwarder, for
   GetArticleById drops it: its number goes on with a nil article.  (A file
   that is cut short ends the process, in dbServer: a Crash here.) *)
Fetch ==
    /\ fpc = "fetch" /\ Idle
    /\ fpc' = "send"
    /\ nils' = nils \union ({cur} \ files)
    /\ UNCHANGED <<store, registry, lister, cur, out, outClosed, session>>

SendArticle ==
    /\ fpc = "send" /\ Len(out) < ChanCap
    /\ out' = Append(out, cur)
    /\ fpc' = "receive" /\ cur' = 0
    /\ UNCHANGED <<store, registry, lister, outClosed, nils, session>>

(* Variant: out is not closed. *)
EndNumbersOpen ==
    /\ fpc = "receive" /\ chan = <<>> /\ closed
    /\ fpc' = "left"
    /\ UNCHANGED <<store, registry, lister, cur, out, outClosed, nils, session>>

EndNumbers ==
    /\ fpc = "receive" /\ chan = <<>> /\ closed
    /\ outClosed' = TRUE
    /\ fpc' = "left"
    /\ UNCHANGED <<store, registry, lister, cur, out, nils, session>>
-----------------------------------------------------------------------------
(* The goroutine of listGroups. *)

(* The rows, in some order. *)
BeginGroups ==
    /\ ppc = "begin" /\ cmd.kind = "list"
    /\ rows' \in SetToSeqs({g \in Group : stage[g] # 0})
    /\ ppc' = "next"
    /\ UNCHANGED <<store, registry, chan, closed, fault, forwarder, session>>

(* A row that cannot be read ends the goroutine, and its channel stays open. *)
ScanFails ==
    /\ ppc = "next" /\ cmd.kind = "list" /\ rows # <<>>
    /\ ppc' = "left" /\ fault' = "scan"
    /\ UNCHANGED <<store, registry, rows, chan, closed, forwarder, session>>

NextGroup ==
    /\ ppc = "next" /\ cmd.kind = "list" /\ rows # <<>>
    /\ ppc' = "perms"
    /\ UNCHANGED <<store, registry, rows, chan, closed, fault, forwarder, session>>

(* getPerms, and nil counts as a permission: there are none before the
   statements that write them. *)
Listable(g) ==
    \/ Perm[g] = "own"
    \/ g \in maps /\ (stage[g] = 2 \/ (stage[g] = 3 /\ Perm[g] # "deny"))

(* Variant: the permissions are not looked at. *)
PermsOfGroupIgnored ==
    /\ ppc = "perms"
    /\ ppc' = "group"
    /\ UNCHANGED <<store, registry, rows, chan, closed, fault, forwarder, session>>

PermsOfGroup ==
    /\ ppc = "perms"
    /\ \/ /\ Listable(Head(rows))
          /\ ppc' = "group"
          /\ UNCHANGED rows
       \/ /\ ~Listable(Head(rows))
          /\ rows' = Tail(rows)
          /\ ppc' = "next"
    /\ UNCHANGED <<store, registry, chan, closed, fault, forwarder, session>>

(* getGroup: a group that is not in the maps, or has no description, is an
   error; the goroutine returns, and its channel stays open. *)
getGroup ==
    /\ ppc = "group"
    /\ ppc' = IF Head(rows) \in maps /\ stage[Head(rows)] = 3 THEN "give" ELSE "left"
    /\ UNCHANGED <<store, registry, rows, chan, closed, fault, forwarder, session>>

(* The goroutine and the session meet at the channel. *)
GiveGroup ==
    /\ ppc = "give" /\ pc = "receive"
    /\ got' = Append(got, Head(rows))
    /\ rows' = Tail(rows)
    /\ ppc' = "next"
    /\ UNCHANGED <<store, registry, chan, closed, fault, forwarder, cmd, pc, start>>
-----------------------------------------------------------------------------
Others ==
    \/ \E n \in Num : AddArticle(n) \/ Delist(n) \/ LoseFile(n)
    \/ \E g \in Group : NewGroup(g)
    \/ Crash

ServerStep == RemoveFile \/ Statement \/ StatementFails \/ BeginMaps \/ EndMaps

Ask ==
    \/ AskList
    \/ \E p \in {"read", "deny", "nil"}, f, t \in Num : AskOver(p, f, t)

SessionStep == GetPerms \/ ListArticles \/ ReceiveArticle \/ EndReply

ListerStep ==
    \/ BeginRows \/ SendNumber \/ EndRows
    \/ BeginGroups \/ NextGroup \/ PermsOfGroup \/ getGroup \/ GiveGroup

ForwarderStep ==
    \/ ReceiveNumber \/ GetPermsAgain \/ GetPermsPanics \/ Fetch \/ SendArticle
    \/ EndNumbers

(* What SQLite may refuse. *)
SqlFails == QueryFails \/ RowsFail \/ ScanFails

Next ==
    \/ Others \/ SqlFails \/ ServerStep \/ Ask \/ SessionStep \/ ListerStep \/ ForwarderStep
    \/ ConcurrentMapAccess

Spec == Init /\ [][Next]_vars

(* The goroutines run, and dbServer takes whoever waits for it in turn. *)
Fairness ==
    /\ WF_vars(ServerStep) /\ WF_vars(ListerStep)
    /\ SF_vars(SessionStep) /\ SF_vars(ForwarderStep)

FairSpec == Spec /\ Fairness
-----------------------------------------------------------------------------
(***************************************************************************)
(* Properties.                                                             *)
(***************************************************************************)

Done(kind) == pc = "receive" /\ cmd.kind = kind /\ SeesEnd

(* n is in the range asked for; its first number always is. *)
Within(n) == n = cmd.from \/ (cmd.from <= n /\ n <= cmd.to)

(* A session that sees the end of a range has received the numbers of the
   range that were there when it asked and still are, each once and in the
   order of the index, and none that is not in the range; a number comes
   without its article only when its file is gone.  What cannot be told from
   the reply is that its rows ended early: it ends like a whole one. *)
RangeIsComplete ==
    Done("over") =>
        LET here == ToSet(start) \intersect ToSet(index)
        IN  /\ fault # "cut" => {n \in here : Within(n)} \subseteq ToSet(got)
            /\ got = Selected(ever, ToSet(got))
            /\ \A n \in ToSet(got) : Within(n)
            /\ nils \intersect files = {}

(* A session that sees the end of the list of groups has received every
   group that was complete when it asked and that it may read, once, unless
   the rows ended early, and no group that is closed to it. *)
ListIsComplete ==
    Done("list") =>
        /\ fault # "cut" => {g \in start : Perm[g] # "deny"} \subseteq ToSet(got)
        /\ IsInjective(got)
        /\ \A g \in ToSet(got) : Perm[g] # "deny"

(* What keeps a reply from ending: the query of a range fails, a row of the
   groups is not read, or a group has a row and is not, or not wholly, there. *)
NoRows == fault \in {"query", "scan"}
HalfMade ==
    /\ cmd.kind = "list"
    /\ \E g \in Group : Listable(g) /\ stage[g] # 0 /\ ~(g \in maps /\ stage[g] = 3)

(* A command that has been given is answered to its end, unless for one of
   these reasons; an article that is not there is not one. *)
Asked == pc \in {"perms", "query"} \/ ppc = "begin"
ReplyEnds == Asked ~> pc = "idle" \/ NoRows \/ HalfMade
=============================================================================
