# kothawoc: TLA+ models, model checking and proofs

kothawoc is a friend-to-friend NNTP node in Go. A node's owner posts articles
and control messages to a local NNTP server; the node stores them in SQLite
databases and files, and offers every article to its friends ("peers") over
Tor, each of whom runs the same program. This directory specifies what the
node's goroutines and databases do, checks it with TLC, and proves the
properties that matter most with TLAPS.

Paths below are those of the repository.

## 1. Inventory

| Component | State | Operations | Talks to |
|---|---|---|---|
| **Article store**: `internal/databases` | `articles.db` (id, messageid, signature, refs), one file per article, one index database per group | `storeArticle`, `addArticleToGroup`, `cancelMessage`, `getNextArticle`, `getArticleBy*` | executed by `dbServer`, one command at a time |
| **Posting sessions**: `nntpbackend.Post`, `messages.CheckControl` | local variables of one goroutine per connection | verify, control message, permitted groups, store, distribute, index | database commands, `Peers.Cmd` |
| **Peer feeds**: `Peer.SendMessages` | `LastMessage` in the peer's group database; `Peer.Conn`, `Peer.Client` | read the cursor, fetch the next article, filter, post, write the cursor | database commands, the peer |
| **Peer connections**: `Peer.Connect` | `Peer.Conn`, `Peer.Client`, shared by two goroutines without a lock | dial, handshake, greeting, authenticate | network |
| **Peering manager**: `Peers.Worker` | `Peers.Conns`; bounded channels `Peers.Cmd`, `Peer.Cmd` | Connect, Distribute, AddPeer, RemovePeer, Sendme | workers, `dbServer`, sessions |
| **Group registry**: `newGroup`, `openGroups`, `getPerms`, `addPeer` | `groups.db`, `peers.db`, a database per group with its config and permissions, two maps in memory | create, open, look permissions up | `dbServer` |
| **Start-up**: `openCreateDB`, `NewBackendDbs`, `NewClient` | schema, id seed, device key | create what is missing, open the rest, connect | all |
| **Readers**: `listGroups`, `getGroup`, `listArticles`, `GetArticles` | channels that stream results | list and read | `dbServer`, goroutines of their own |
| **Message codec**: `messages.go` | one message | `Sign`, `Verify`, `writeRaw`, `ParseBody` | every session, every feed |
| **Control messages**: `control.go` | none | the `Create` functions, `CheckControl` | client, `Post` |
| **Key tool**: `pkg/keytool` | one key, in one of four forms | setters, parsers, getters, sign, verify | codec, handshake, client |
| **Handshake**: `internal/torutils` | the onion service, the dialer, a byte stream | `ClientHandshake`, `ServerHandshake`, `Listen`, `Dial` | `Peer.Connect`, `torServer` |
| **Client facade**: `client.go` | device key, listeners | start-up, accept loops, posts of its own | all |
| **Network** | the nodes | flooding of articles and newgroup messages along the peers | |

The behaviours that are hard:

* *Interleaving.* A post is a sequence of separate database commands; other
  sessions, the feeds and the peering manager run commands in between. A
  connection's two fields are written by two goroutines.
* *Atomicity and crashes.* No command uses a transaction: a database row, its
  file, its index rows and its reference count are separate durable writes, and
  so are the four writes that make a peer. The process may die between any two;
  several nil dereferences and index errors make it die by itself.
* *Repeated and reordered messages.* Peers offer the same article several
  times, a cancel may arrive before, during or after the post of its target, and
  may itself be repeated.
* *Bounded channels in a circle.* Sessions wait for `Peers.Worker`, which waits
  for `dbServer` and for its peers' workers; `dbServer` itself sends to
  `Peers.Worker` from inside a cancel.
* *Failures that look like successes.* A failing `Client.Post`, `NewConn` or
  `Authenticate` is not acted upon; the wrappers `CancelMessage` and
  `GetArticleById` drop the error of the command; a query that ends early looks
  like one that has ended.
* *Two ends of one protocol.* What one node writes, as a signature, a control
  message or a handshake, another reads with separately written code, after any
  number of nodes have parsed it and written it again.
* *Streams through goroutines.* Lists and ranges of articles come through
  channels from goroutines that run beside `dbServer`.

`PROJECT.json` lists each hazard at its line with the properties that cover it.
What makes each component correct:

* store: a message is stored, announced and listed once; what is withdrawn was
  asked for; the file is there as long as a group lists the article; numbers are
  unique and grow, so a cursor is meaningful;
* feeds: nothing below a cursor is owed; one feed alone repeats an article only
  after a death or a cursor it could not store; every article is delivered in
  the end, but for three named conditions;
* connections: the client that is used is connected, shaken and authenticated,
  outside races that are named;
* manager: every post is answered; every peer on disk is complete and gets
  its feed, and a second one only in one race;
* registry and start-up: what is there after any start is what was asked for
  and answered; the node stays who it is and comes up again;
* readers: a reply that ends is complete, and replies end, but for failures that
  are named;
* codec and control messages: the last node of a path accepts and understands
  what the first one has sent, and whatever cannot stand the way is refused near
  its author;
* key tool and handshake: answers are of the key in use; both ends of a
  connection agree on who is there;
* network: an article takes only permitted ways, no node twice, and reaches
  whoever may have it.

## 2. Modules

```
 Spool  <--implements--  Store   <-- StoreProofs
   ^                       ^-------- MCStore
   | EXTENDS
 Feed  <-- MCFeed, FeedProofs
 Link <-- MCLink
 Link, Handshake <-- ConnectionProofs
 Peering <-- MCPeering, PeeringProofs
 Registry <-- MCRegistry, RegistryProofs
 Reader <-- MCReader, ReaderProofs
 Handshake <-- MCHandshake
 Flood <-- MCFlood, FloodProofs    (stores and feeds of a network;
   at each node --implements--> Spool)

 KeyTool, Control  <--EXTENDS--  Codec <-- MCCodec, CodecProofs
```

**Spool** is what the article store promises to those who read it: every
message is numbered at most once, above all numbers given before; its body may
be missing from the start, and may be withdrawn, and does not come back.
`IsNext` is `getNextArticle`'s query.

**Store** is the same store write by write. `pc` is a session's place in
`Post`; `db` is the next write of the command `dbServer` is executing and `by`
the session that waits for its answer.

| Code | Actions |
|---|---|
| `Post`, `CheckControl` (nntpbackend.go:193, control.go:65) | `Submit`, `NoControl`, `Announce` |
| `storeArticle` (databases.go:1083) | `StoreInsert`, `StoreWrite`; `StoreFails` |
| `addArticleToGroup` (1137) | `AddIndex`, `IncRef`; `IndexFails`, `IncRefFails` |
| `cancelMessage` (611) | `CancelLookup`, then for each group `DelIndex`, `DecRef`, at last `RmFile`; `LookupFails`, `DeleteFails`, `DecRefFails`, `RemoveFails` |
| a panic or the death of the process, `openCreateDB` (65) | `Die`, `Crash`, `Restart` |

A message has passed `Verify`; one that fails changes nothing. Its headers are
functions on message names (`From`, `Newsgroups`, `Cancels`). `From` is the text
of that header and says nothing of who signed: `Verify` checks the signature with
the key in `Approved`, `cancelMessage` compares two `From` headers, and nothing
compares the one with the other. The permissions of a session are a constant set
(`MayPost`). Any statement may fail (`Fault`, `MaxFails` times). `os.WriteFile`
leaves a whole, a torn or no file. A cancel for a group the node does not carry,
or whose name has no second label (`Dotless`), ends the process. `Restart` seeds
the number sequence with any clock value. The history `hurt` collects the
messages whose listings, count and file the code may have brought out of step.

**Feed** extends Spool: the store is replaced by its promise. Per worker, `pc`,
`seen` (the `lastMessage` it read) and `art` are the local variables of
`SendMessages`; `cursor` is `LastMessage` on disk. A peer may have several
workers, as it gets them by the start-up race of Peering. Two histories say what
that does: `crossed[w]`, that another worker of the peer was in a round during
this round of `w`, and `doubt[p]`, the articles posted in this life that the
cursor does not count.

| Code | Actions |
|---|---|
| `Connect` (peering.go:269) | `Connect` |
| `SendMessages` (189-267) | `ReadCursor`, `Fetch`/`FetchPanics`, `Filter`/`FilterPanics`, `Post`, `Commit`/`CommitFails` |
| articles stored and cancelled meanwhile | `Arrive`, `Cancel` |
| the network, the operating system | `Break`, `Crash` |

**Link** is one peer's `Conn` and `Client` with the worker and the goroutines
started for `CmdConnect`; each read or write of the two fields and each wait for
the network is a step. `opened`, `shaken`, `authed`, `silent` and `failed` are
history variables.

| Code | Actions |
|---|---|
| `Connect`: the test of `Conn`, dial, handshake (peering.go:269-301) | `Check`, `DialPeer`, `ClientHandshake`, `ConnectFails` |
| `Client`, with a greeting or nil without (302-304) | `SetClient`, `NoGreeting` |
| `Conn` (305), `Authenticate` (306) | `SetConn`, `Authenticate` |
| `SendMessages` | `NothingToSend`, `FetchArticle`, `Post` |
| a method of a nil client, or any other death | `ProcessDies` |

A goroutine that gets no greeting sets `Client` to nil, which may have been a good
one, then `Conn`, and dies of `Authenticate` in a step of its own; what the
worker does between these is in the model.

**Peering** is all goroutines with their bounded channels. A command that only
touches databases is one step that needs `dbServer` idle, or one step per
durable write where a crash in between matters.

| Code | Actions |
|---|---|
| `Post`, `CheckControl` | `Submit`, `StoreArticle`, `DistributeArticle`, `AddArticleToGroup`, `AddPeer`, `Cancel`, `Sendme` |
| `newGroup`, `addPeer`, `cancelMessage` in a peers group | `NewGroup`, `GroupTables`, `AddPeerConfig`, `AddPeerRow`, `RemovePeer` |
| `Peers.Worker` (peering.go:341-425) | `HandleConnect`, `StartPeers`, `HandleDistribute`, `PickPeer`, `Deliver`, `HandleAddPeer`, `NewPeer`, `HandleRemovePeer`, `HandleSendme`, `HandleSendmePanics`, `DeliverSendme` |
| `Peer.Worker` (85-187) | `Tick`, `Receive`, `Network`, `Databases`, `SendmePanics` |
| `NewNNTPBackend` | `AskConnect` |

**Registry** is the life of a node from start to death, and `newGroup` in it.
`pc` walks through `NewBackendDbs` and `NewClient`, then serves; `seedRow`,
`seq` and `ids` are the seed row named DELETEME, SQLite's AUTOINCREMENT and the
ids in `articles.db`; `file[g]` counts the statements of `newGroup` executed on
the group's own database, and `open` is the maps in memory.

| Code | Actions |
|---|---|
| `NewClient` (client.go:44-108) | `Start`, `ConfigGetDeviceKey`, `ConfigSetFails`, `PostWithoutKey` |
| `openCreateDB` (databases.go:103) | `InsertSeed`, `InsertFails`, `DeleteSeed` |
| `openGroups` (315), `getPerms` (364) | operators `openGroups`, `getPerms` |
| `newGroup` (418-492) | `NewGroup`, `Statement`, `StatementFails`, `Finish` |
| a post to a group (1066, 1154) | `Post`, `PostPanics` |

**Reader** is a session that asks for a list of groups or a range of articles,
and the goroutines behind it: `listArticles` reads rows and sends numbers into
one channel, `GetArticles` fetches each and sends it into the next; `listGroups`
reads the groups and their maps beside `dbServer`. Rows come from the snapshot
of the first read. Meanwhile `dbServer` indexes, cancels and creates a group.
`fault` says what went wrong with a query: it was not made, its rows ended early,
or a row could not be read; `nils` holds the numbers that go to the session
without an article.

| Code | Actions |
|---|---|
| `GetArticles` (nntpbackend.go:138-176) | `GetPerms`, `ListArticles`, `ReceiveNumber`, `GetPermsAgain`/`GetPermsPanics`, `Fetch`, `SendArticle`, `EndNumbers` |
| `listArticles` (databases.go:1000-1045) | `BeginRows`, `SendNumber`, `EndRows`; `QueryFails`, `RowsFail` |
| `listGroups`, `getGroup` (858-995) | `AskList`, `BeginGroups`, `NextGroup`, `GiveGroup`; `ScanFails` |
| `addArticleToGroup`, `cancelMessage`, `newGroup` | `AddArticle`, `Delist`, `RemoveFile`, `LoseFile`, `NewGroup`, `Statement`, `BeginMaps`, `EndMaps` |
| the Go runtime, which ends a process that reads a map while it is written | `ConcurrentMapAccess` |

**Handshake** gives every ordered pair of nodes a link, with what is on its way
in each direction, the dialling side `cpc` and the goroutine of `torServer`
`spc`. A signature is who made it and what of; the cryptography is taken as
perfect. `dialer` and `onion` may fail for good, as they do in the code until
the node is restarted.

| Code | Actions |
|---|---|
| `NewTorCon`, `Listen` (torutils.go:194-249) | `Dialer`, `Listen` |
| `Peer.Connect`, `ClientHandshake` (71-117) | `Dial`, `ClientResponse`, `ClientOK`, `ClientEOF` |
| `torServer`, `ServerHandshake` (119-191) | `ServerRequest`, `Auth`, `ServerSignature`, `ServerEOF` |

**KeyTool** is `EasyEdKey`: `keyType` and the four fields as the code has them.
Giving it a key (`Give`) installs it in a form, after a conversion that may
fail; asking (`Use`) answers for the form that counts. A key is the identity it
belongs to.

**Control** has the `Create` functions and `CheckControl` as operators, on the
words that `strings.Split` sees. **Codec** extends both: one message from its
author, a program that uses the API or a news reader, through `Sign`,
`writeRaw`, the wire, `ParseBody`, `Verify` and `CheckControl` at each node of a
path. A body is a sequence of the pieces the code tells apart: text, the end of
a line, a percent sign, dashes.

| Code | Actions |
|---|---|
| `Sign` (messages.go:84), `Client.Post`, `CreateNewGroup`, `AddPeer` | `Own`, `Create`, `SignFails`, `ReaderPosts`, `ReaderPanics` |
| `ParseBody` (205), `Verify` (113) | `Parse`, `ParsePanics`, `Verify` |
| `Post` from `CheckControl` to the stored file | `Post` |
| `SendMessages`, which writes the parsed file again | `Relay` |

**Flood** is the network: each node is Store as the sequence of what it has
accepted, and one Feed for each peer as how far that has got. A post at a peer is
one step here; what it consists of is Store and Feed. What keeps a feed from going
on is here: the file of the next article is not there (`gone`) or cut short
(`torn`, which ends the process), or `GetPerms` has no answer for the peer
(`NoRow`, the same: `CreateNewGroup` passes no card, client.go:145, so that its
groups have no row for anybody). `NodesAreSpools` says that what is left of a
store in it is still a Spool. `Accepts` is what `Post` requires, of the group, the
session's permissions and the Message-Id, and a newgroup message makes its group
before any of that.

Definitions named `Variant: ...` in a comment are altered versions of the
definition that follows them. No specification uses them; they show that a
property can fail.

## 3. Runs

All passing runs explore their whole state space.

| Run | Shows |
|---|---|
| `store_crash` | Two sessions, an article, a cancel of it with the same From header and one with another, each submitted up to twice, one death between any two writes, one failing statement, failing file writes: announced once, no index conflict, an article nobody cancels is listed where its poster may post, and in part only after a failure or a death, withdrawn only under its From header, and **Store implements Spool**. |
| `store_steady` | Without deaths, with two failing statements and up to three copies of an article and its cancel: the file is there exactly as long as a group lists the article, but for what `hurt` names; every post is answered. |
| `feed` | Two workers of one peer, any two of four articles, withdrawn, torn or missing, without permissions or through the peer already, a connection that breaks, a cursor that cannot be stored, a death: nothing skipped, cursors go back and articles are repeated only for the named reasons, and every article is delivered unless a withdrawn article, a panic or a dead connection is in its way. |
| `link_race` | What the race on `Conn` and `Client` can do and what not: the worker finds no client only where another goroutine got no greeting and is about to die of it; never an unshaken client, never more than one connection per goroutine, no refused post outside the race. |
| `peering_crash` | Peers on disk are complete whatever step a crash interrupts; two feeds of one peer only through the start-up race. |
| `peering_answers` | With channels of capacity one and peers that answer, every post is answered and every stored peer is connected, through a crash. |
| `registry` | After any start, a group that was answered for has the permissions of its card, a row that can be posted to is in the maps, the owner is the owner; and the node comes up. |
| `reader` | A reply that ends is complete unless its rows ended early, in order and without duplicates, and holds nothing closed to the user; a number comes without its article only when its file is gone; replies end but for a failed query, an unread row or a half made group. |
| `handshake` | Both ends agree who is there; no server waits for a client that has given up; nodes that list each other get connected. |
| `codec` | The key tool answers for its last key; exactly the fragile messages are refused, and at the latest by the first other node; what is stored is what was written; a control message makes no group and no peer but those it was made for. |
| `flood` | With lost and repeated offers, removed and torn files and a group without permission rows: the Path is the way an article came, each hop of it permitted; no feed passes over what it owes its peer; **every node implements Spool**; groups and articles spread, but from a feed that is held up for ever. |

One run ends in a violation, where the code does not do what a text of the
repository says (`PROJECT.json`, findings, quotes it): `peering_circle`.
`dbServer`, inside a cancel, waits for room in `Peers.Cmd`; `Peers.Worker` waits
for `dbServer` (databases.go:645).

### What the properties except

A property that has exceptions names them, and each is something the code does:

* `FileWhileListed`: four things put file, listings and `refs` out of step, for
  good (`hurt`). A write fails or the process dies between two that belong
  together. A cancel deletes nothing and lowers `refs` all the same
  (databases.go:667), because it comes twice, or between `StoreArticle` and
  `AddArticleToGroup` (nntpbackend.go:325-334): `refs` may then be below zero, the
  article is listed afterwards, and a later cancel does not meet zero (677), so
  that the file stays for ever. A count that is too low meets zero early, and the
  file goes while a group lists the article. And a cancel removes the file while a
  session is still indexing.
* `ListedAsPermitted`: after an INSERT or UPDATE that failed, or a death, an
  article stays listed in some of its groups only, and the repeated copy is
  refused by the row (nntpbackend.go:334-337).
* `WithdrawnUnderItsFrom` speaks of the `From` header only: nothing ties that to
  the key that signed (messages.go:113-137, databases.go:623), while the
  repository's README.md (13-17) trusts a control header "if the "From" and
  "Approved" headers match".
* `CursorNeverBack`, `OfferedOncePerLife`: two workers of one peer that are in a
  round together take the cursor back and post twice (`crossed`, `doubt`); one
  alone repeats an article if `GroupConfigSet` fails after the post
  (peering.go:254-265).
* `Delivered`: behind an article whose file a cancel has removed the feed stands
  still (databases.go:1411); a filter that panics does so again after each
  restart; a connection that has broken stays in `Conn`, and all later articles
  are recorded as sent (peering.go:254).
* `FeedsSettle` and `Spreads` hold for an article whose sender has the newgroup
  message of its group *before* it, if the receiver may read and the sender may
  post, and neither was lost on a dead connection. `Spreads` also excepts a feed
  that is `Held`: by an article before it without a file, at which
  `getNextArticle` returns an error each time (peering.go:202), or at a node some
  feed kills whenever it runs, on a torn file or on permissions that are nil
  (232). An article that arrives first is refused, and recorded as sent. A node
  that may not post gets the group from the newgroup message but not the message,
  and cannot tell its peers (control.go:116).
* `RangeIsComplete`, `ListIsComplete`: nobody asks `rows.Err`, and a number that
  cannot be read ends `listArticles` with its channel closed, so that a reply cut
  short ends like a whole one. A number whose file is gone comes with a nil article:
  `GetArticleById` drops the error (databases.go:545-550).
* `ReplyEnds`: a query that fails gives `GetArticles` a nil channel, which it
  ranges over for ever (nntpbackend.go:152); the channel of a list stays open when
  a row cannot be read, or when a group has a row and is not complete
  (databases.go:885). The reader then waits for ever.
* `PermsFollowCard`, `RowsAreMapped`: `openGroups` stops at the first group it
  cannot open and its error is ignored, so that the groups after it are not in
  the maps (160); a group whose creation failed half-way keeps its row, is
  refused when created again, and a post to it ends the process (1158).
* `OwnerKeepsGroups`: any error in reading the device key counts as a first
  start, and the node makes itself a new identity (client.go:62).
* `ComesUp`: a death between the INSERT and the DELETE of the seed row makes
  every later start fail (databases.go:77).
* `PeersConnect`: a dialer or an onion service that did not come up in its
  minute is not tried again until a restart.
* `PostFindsClient`: `NewConn` without a greeting returns nil, which goes into
  `Client` (peering.go:303) before the goroutine dies of it (306); another
  goroutine's client is lost that way, and the worker may meet the nil first.
* `RefusedOnlyInRace`, `TwoWorkersOnlyEarly`: the races are named there.
* `RefusedIffFragile`, `ArrivesAsWritten`: percent signs, which `Fprintf`
  expands at every node (messages.go:183); a last line without an end; a
  quoted-printable part, which is decoded before it is verified; a line that
  begins with dashes in a message with a type but no boundary, which cuts the
  body there, and as the first line ends the process (256). A single MIME part
  is lost without a word (184).
* `ControlUnderstood` says that nothing else is made of a control message than
  what was asked for, and not that all of it is: a description may come without
  its first word, and a sendme need do nothing (see below).
* `AnswersForLastKey`: `ParseKey` of a key that is not ed25519 stores a nil key
  (keytool.go:415), and the next use panics.

Met while modelling, and modelled as the code has it, but not excepted by a
property:

* `CreateSendme` writes "semdme" (control.go:375), which `CheckControl` knows
  nothing of, so that no sendme the code writes asks a peer to forward groups,
  contrary to the comment before `CreateCheckgroups` (294-296); and `CheckControl`
  would look for the groups in a part of another type than the one they are in
  (158). A description loses its first word (`data[2:]`, 106): the "peer group" of
  line 282 becomes "group". The model has both as they are, and no property calls
  them right;
* removing the last listing of a message executes `DELETE articles WHERE ...`,
  which is not SQL; the row stays (685, `DecRef`);
* a cancel that arrives before its target is stored and then forgotten
  (databases.go:617, `CancelLookup`);
* a cancel of a peers group dereferences a nil Peer (peering.go:374,
  `HandleRemovePeer`), and a sendme reads an answer past its end
  (databases.go:1359, `SendmePanics`): both end the process;
* the worker may post between peering.go:305, which publishes the client, and
  the answer to `Authenticate` (306); the peer refuses that post and the feed
  counts it as sent;
* one peer that stops answering fills its own channel, then stops
  `Peers.Worker` (peering.go:368), fills `Peers.Cmd` and stops every session:
  with that peer in `Stalled`, `EveryPostAnswered` fails;
* a range whose end is before its start gives its first article
  (databases.go:1020, `RangeOf`).

### Bounds

* Store: two sessions, because a race needs two; one article in two carried
  groups and one that is not, because the hazards are about an article leaving
  some groups and not others; one death and one failure in `store_crash`. Two
  copies of each message there, because the third does what the second does; three
  in `store_steady`, because `refs` below zero takes a cancel amid the post and the
  file that stays a cancel after it. `MaxId` allows every message a row and one
  jump of the seed.
* Feed: two workers of one peer, because what one alone does two do as well when
  they take turns; four kinds of article, of which any two get a number, one for
  the cursor to be at and one to be passed; one break, one death, one cursor write
  that fails. The theorems are about any number of workers and peers.
* Link: the worker and one `CmdConnect` goroutine are what `AddPeer` and start-up
  give each peer; three connections let both dial and one of them dial again.
* Peering: two sessions; the node itself and one peer (two in
  `peering_circle`); channels of one or two places instead of ten and one
  hundred, so that they do fill; `MaxWorkers` counts the Peer objects one peer
  may get in a life of the process: `peering_crash` allows three, and
  `TwoWorkersOnlyEarly` shows that the third never comes about.
* Registry: an own and a foreign group, one with two permission lines and one
  with one, so that `newGroup` can stop before, between and after them; clock
  values up to one above the largest id, so that a start can find its number
  free, taken or gone by; one failing call and one death of its own besides the
  panics the code runs into.
* Reader: any query may fail, as often as it is made; two numbers in the range and
  channels of one place, so that both the reader of rows and the forwarder block;
  a group that is made while the list is taken, one that may be read, one that is
  closed.
* Handshake: two nodes dial each other, which is every pair of roles; two
  breaks, so that the connection that replaces a broken one can break too; two
  failures of Tor, one for each part of a node or one for each node.
* Codec: all texts of up to three pieces, and longer ones where a cut leaves
  something on both sides; three other nodes, because the second is the first
  that gets what another node has parsed and written again, and the third shows
  that the second is no exception; two keys, because only the last two matter.
* Flood: three nodes in a circle give every article two ways to every node; two
  groups, one closed to a node and without a permission row for it, and an article
  in both; two faults, so that one feed can be held up while another loses or
  repeats an offer.

Deadlock checking is on for `link_race` and `reader`, where a goroutine or a
command can always begin again. It is off elsewhere, because the bounds (copies,
posts, numbers) let those models come to rest; what must not stop is stated as a
liveness property instead.

### Fairness

* Store and Peering: `dbServer` finishes a command it has started (weak), and
  every session's goroutine, which waits for `dbServer` or for room in a channel
  together with others, is served in the end (strong: a Go channel serves those
  who wait for it in turn). No fairness on posting, crashing or restarting.
* Feed and Flood: each worker's round goes on (weak). The ticker of
  `Peer.Worker` sends a command whenever its channel is empty, which gives the
  worker a round again and again; and the peer can be reached in the end. In Flood
  a feed need not move while some feed of its node keeps killing the process
  (`Dying`): how far the others get between two starts is not known.
* Peering: a worker's step that waits for the network is fair only for peers
  outside `Stalled`. The node has no feed to itself, so no fairness is stated for
  its own Peer objects.
* Registry: a node that is down is started again and start-up goes on (weak);
  an INSERT of a seed is not refused for ever by failing calls (strong), for the
  clock moves on. Nobody has to create groups or to post.
* Reader: `dbServer` and the goroutine that reads rows go on (weak); the session
  and the forwarder wait for `dbServer`, or for a channel, together with others
  (strong).
* Handshake: both ends read what has come (weak), and the ticker dials again and
  again (strong, because a dial needs the other node to be up).
* Link and Codec have safety properties only.

## 4. Proofs

All theorems hold for every value of the constants that meets the `ASSUME`s of
the modules. Those say that the parameters have the types their comments give;
that a group's database, a node's carried groups and the goroutines of
`CmdConnect` are finitely many; and that what is posted, ordered or written is
what the code can be given. TLC checked each inductive invariant on the bounds
of the component's run before it was proved.

**StoreProofs.** `StoreInv` strengthens type correctness with: whose command
`dbServer` runs and at which place of `Post` (`JobInv`), that files, listings
and announcements need a row and numbers are unique (`RowInv`), that at most one
session is beyond the INSERT of a message (`OwnerInv`), and that a message is
listed nowhere until it is announced (`FreshInv`). `AnnouncedOnce` is not
inductive without the last two: it is the UNIQUE Message-Id that lets a single
session past, and the row is never deleted. From it: `TypeCorrect`,
`DistributedOnce`, `NoIndexConflict`, `WithdrawnOnMatch` (the From header compared
at the look-up is still the one of what goes, writes later), and `Refinement`:
every step of Store is a step of Spool or a stutter.

The counting properties rest on what `refs` is behind the listings (`Spare`), the
write `dbServer` is about to make included (`Owed`). For a message that is not
`hurt` it is zero (`CountInv`), and its file is there exactly while a group lists
it, or a session is indexing it, or a cancel is about to look (`FileInv`); each of
the writes that may fail, and a death, either leaves this alone or puts the message
among the `hurt`. From it `FileFollowsListings`. Of a message nobody cancels more is
known even when it is hurt (`SteadyInv`): one listing at most is not counted, and it
is listed where its one session may post to without the groups still to come. From
it `ListedWhere`. Both hold over any failures and deaths.

**FeedProofs.** `FeedInv`: numbers are unique; nothing at or below a cursor is
owed (`CursorInv`); the same of what each worker has read, and there is no article
between that and the one it has fetched (`WorkerInv`). The step that needs it is
`Commit`: the cursor jumps to the article's number, and everything below is
covered by what was read. Arrivals keep it because a new number is above every
number (`Reached`). From it `NothingPassedOver`. `RoundInv` adds what holds of a
round no other worker of the peer crosses: the cursor is what the worker has read,
and the others are idle (`AloneInv`); the article it has is above that
(`AboveInv`); and what was posted in this life and is not in `doubt` the cursor
counts, or the worker is about to (`RecentInv`). From it `CursorsGrow` and
`OfferedOnce`. All of them for any number of workers on one peer, and with cursors
that cannot be stored.

**ConnectionProofs**, of Link (whose definitions have names of their own, since
one module speaks of both). `LinkInv` says what each place in `Connect` has
established about the connection a goroutine holds, and that a Client which is
missing past its place in `Connect` was taken away by a goroutine that is `Doomed`
(`NilInv`): it is not inductive to say so of the worker's post alone. From it, for
any number of `CmdConnect` goroutines: `ClientFound`, `ShakenOnly` and
`RefusalsExplained`. `ConnectionEach` needs `CountInv` beside it: a connection
that has been shaken is the last one some goroutine dialled, since that goroutine
does not dial again (`Conn` is set before its turn comes round, and stays), so
that there are at most as many as goroutines.

Of Handshake: `HandshakeInv` says of each link what may be on its way
and what the server knows, and that over an open connection the two ends are in
one of six states (`Together`), which follow each other. Neither property is
inductive without that: `NobodyAbandoned` holds because, over a connection that
is open, what a client reads is always the line it waits for. From it
`TypeCorrectHandshake`, `BothEndsAgree` and `NoneAbandoned`, for any number of
nodes. It rests on perfect signatures: `Verify` accepts what the holder of the
key has signed, and nothing else.

**PeeringProofs.** `PeeringInv` follows the newgroup message of a new peer. A
session whose INSERT into `groups.db` has succeeded has the right to add that
peer, alone, since the row stays (`RightInv`); the right goes with the command
through the channel (`QueueInv`: one entry for each session, which waits) to
`Peers.Worker` (`MgrInv`), and ends when the peer is in the table. So `NewPeer`
never finds a Peer of that name, but for those the start-up `Connect` has made
from the table meanwhile, which is what `early` records (`ConnectInv`,
`WorkInv`). `JobInv` and `DbInv` tie a session and a half-executed command to
what was posted. From it `TypeCorrectPeering`, `PeersComplete` over any crashes,
and `TwoWorkersOnlyIfEarly`, for any sessions, peers, channel capacities and
number of Peer objects.

**RegistryProofs.** `RegistryInv` gives each group with a row one of four
states: answered and whole (`AckedInv`), failed and not to change any more
(`FailedInv`), the one `newGroup` is at (`MakingInv`), or left behind by a death
for `openGroups`. `MappedInv` is `RowsAreMapped` from the end of `openGroups` on,
before the node is up; `KeyInv` keeps the owner of the node's groups the stored
key for as long as that has not been misread. From it `TypeCorrectRegistry`,
`RowsMapped`, `OwnerKeeps` and `PermsAsOnCard`.

**FloodProofs.** `PathIsWay` is not inductive: that no node is twice on a path
needs every node on it to hold the article (`KnownInv`, since `Has` only grows
and a node refuses what it has), and each hop is what the sender checked
(`Wanted`) and the receiver after it (`Accepts`), which `WayInv` says hop by hop.
A file that is missing or torn is one of an article the node has (`FilesInv`).
`OnceInv` makes the position of an article in a spool unique. From it
`TypeCorrectFlood` and `PathsAreWays`, for any network, groups and articles.

`FeedsSettle`, what `Spreads` says without its "in the end", is an invariant: of
what a feed has dealt with, all that it owed its peer has spread (`DealtInv`, by
numbers in the spool). The step that needs an argument is the feed's own, for the
article `a` at the cursor and the newgroup message `c` of one of its groups. The
node has that group (`CreatorInv`), so that `a` is passed over only if the peer
is on its path, and then the peer has it (`KnownInv`). If it is offered, `c` is
`a` itself, or the feed has dealt with `c` before and by the invariant the peer
has the group: it takes `a`, or has it, or refuses it as a newgroup message of a
group it has. But a node has one newgroup message for each group
(`CreatorOnceInv`), so that `a` would be `c`. Whatever other nodes do meanwhile
only adds to what a node has (`Grows`). From it `FeedsNeverPassOver`, and
`CaughtUpIsSettled`: once the cursors are at the end of their spools, all that is
owed has spread, so that only the progress of the cursors is left to fairness.

`EachNodeIsSpool` relates the network to the specification of its parts: at
every node a step appends one new article, whose place is above all numbers
given so far, or leaves the node alone, which are the steps of Spool. The theorem
assumes finitely many articles, as Spool's largest number has to be that of one.

**CodecProofs.** `KeyInv` adds to type correctness and `AnswersForLastKey`
what the field of the form that counts holds (`HeldIsLast`): the key installed
last, or nil where an EC key has spoiled it, and a private form only for a
private key. Every setter establishes it, whatever the other fields keep from
earlier keys, and every getter reads only that field. From it
`AnswersAreForLastKey`, for any keys.

For the messages, the lemmas about the operators come first. A message that is
not `Fragile` is a fixed point: sending, parsing or writing what was signed
changes nothing (`Stands`). For a fragile one, written by a program or by a news
reader, what the first other node would compare differs from what was signed
(`ProgramBreaks`, `ReaderBreaks`): a percent sign expands once more, an unended
line gets its end, a cut text is shorter, a decoded part is another one.
`CodecInv` then says at each place of the way what is on the wire and in the tool
(`TransitInv`): once some node has compared (`Settled`), both are exactly what
was signed, and before that they are that, sent and parsed at most twice; that
the signature is over what was written, by the key given last (`SignedInv`);
and that a control message is the one ordered, made in the name of the key that
signs it (`OrderInv`), which `CheckControl` reads back word by word
(`OrderUnderstood`), but for the first word of a description. From it, for every
message, order and length of path:
`OnlyTheFragileRefused`, `WrittenArrives` and `OrdersUnderstood`.

**ReaderProofs.** What a range has on its way, from what the session has received
to the rows still to be read, is one sequence (`Flow`): every step of the three
goroutines moves an article from the head of one part to the end of the next, and
leaves the whole as it was (`Moves`, `MovesOfOne`). So what `BeginRows`
establishes of the rows lasts: they are in the order of `ever`, in the range, and,
unless the query is cut short, hold every article of it that is still listed
(`OverInv`), since the listed ones of `start` only become fewer. Where the rows
end early the flow keeps its order and loses its end (`InOrderPart`). A number
without an article has lost its file, which does not come back (`NilInv`). A list
drops groups on the way, and none that was wanted (`ListInv`): a group in the maps
keeps its statements, because `newGroup` works on groups that are not (`MapsInv`).
`ClosedInv` says that a channel is closed after all that was to go through it; at
the end the flow is what has been received. From it `TypeCorrectReader`,
`RangeComplete` and `ListComplete`, for any groups, permissions, numbers and
channel capacity. `RangeIsComplete` compares what was received with a selection
from all rows; that the two are equal rests on what a query selects
(`SelectedFacts`) and on two sequences in the same order with the same entries
being the same (`OneOrder`), both by the least place where they would not hold.

Type correctness is proved for every component; `peering_crash`, `reader` and
`handshake` check it too, where it says that no channel is overfilled and no line
sent before its turn. Every safety property of the passing runs is proved as well.
Only model-checked:

* Liveness: `EveryPostReturns`, `Delivered`, `EveryPostAnswered`,
  `PeersConnected`, `ComesUp`, `ReplyEnds`, `PeersConnect` and `Spreads`, since
  fairness is beyond the proof system.
* The circular wait of `peering_circle`, which is a counterexample.

## 5. Not modelled, and the plan

What may still be proved, in this order:

| Step | Module | Content |
|---|---|---|
| 1 | PeeringProofs | that a peer on disk after a crash is one that was asked for. |
| 2 | FeedProofs, FloodProofs | that a feed of Flood, which goes on by one article at a time, is what Feed does at its `Commit`. |

Left out for good: the Tor process, SQL itself, the formatting of headers and
errors, the command line programs, and the IHAVE backend, which is commented
out. `CmdExit` is handled by both worker loops and sent by nobody. `tcpServer`,
`localClient` and the dummy backends only pass connections on; a session of
theirs is a session of Store. That the tor id of a key is the same whichever
form it is computed from depends on an external library and is assumed.
