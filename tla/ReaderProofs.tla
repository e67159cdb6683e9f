---------------------------- MODULE ReaderProofs ----------------------------
(***************************************************************************)
(* Proofs about Reader for any groups, permissions, numbers and capacity.  *)
(* What a command has on its way to the session, from what it has received *)
(* to the rows that are still to be read, is one sequence: no goroutine    *)
(* changes it except where it drops a group or its rows end early.         *)
(***************************************************************************)
EXTENDS Reader, SequenceTheorems, FiniteSetTheorems, WellFoundedInduction, TLAPS

Before(s, x, y) == \E i, j \in DOMAIN s : i < j /\ s[i] = x /\ s[j] = y

(* t holds entries of s, in the order of s. *)
InOrder(t, s) ==
    /\ ToSet(t) \subseteq ToSet(s)
    /\ \A i, j \in DOMAIN t : i < j => Before(s, t[i], t[j])

One(n) == IF n = 0 THEN <<>> ELSE <<n>>

(* From the session back to the rows. *)
Five(a, b, c, d, e) == a \o b \o c \o d \o e
Flow == Five(got, out, One(cur), chan, rows)

Command == [kind : {"none", "over", "list"}, perm : {"read", "deny", "nil"},
            from : {0} \union Num, to : {0} \union Num]

Typed ==
    /\ TypeOK /\ cmd \in Command
    /\ chan \in Seq(Num) /\ out \in Seq(Num)
    /\ IsFiniteSet({g \in Group : stage[g] # 0})

(* newGroup makes groups that are not in the maps yet. *)
MapsInv ==
    /\ \A g \in maps : stage[g] # 0
    /\ making # None => making \notin maps /\ stage[making] # 0
    /\ writing => making # None /\ stage[making] = 3

IndexInv == InOrder(index, ever)

Quiet ==
    /\ ppc = "off" /\ rows = <<>> /\ chan = <<>> /\ closed = FALSE
    /\ fpc = "off" /\ cur = 0 /\ out = <<>> /\ outClosed = FALSE /\ got = <<>>
    /\ fault = "none" /\ nils = {}

(* Which goroutines there are at each place of the session. *)
PlaceInv ==
    /\ pc = "idle" => cmd.kind = "none"
    /\ pc \in {"perms", "query"} => cmd.kind = "over"
    /\ pc # "receive" => Quiet
    /\ pc = "receive" => cmd.kind # "none" /\ ppc # "off"
    /\ cmd.kind = "over" => cmd.from \in Num /\ cmd.to \in Num /\ ppc \in {"off", "begin", "next", "left"}
    /\ cmd.kind = "list" => fpc = "off" /\ out = <<>> /\ chan = <<>> /\ cur = 0
    /\ ppc = "begin" => rows = <<>> /\ got = <<>> /\ chan = <<>> /\ cur = 0 /\ out = <<>>
    /\ ppc \in {"perms", "group", "give"} => rows # <<>>
    /\ ppc # "left" => fault \in {"none", "cut"}

(* A channel is closed when all that was to go through it has been sent. *)
ClosedInv ==
    /\ fpc \in {"perms", "fetch", "send"} => cur # 0
    /\ fpc = "receive" => cur = 0
    /\ closed => ppc = "left" /\ rows = <<>> /\ fault \in {"none", "cut"}
    /\ outClosed => closed /\ chan = <<>> /\ cur = 0

(* A number without an article has lost its file. *)
NilInv == nils \subseteq ToSet(ever) \ files

Begun == ppc \notin {"off", "begin"}

Still == {n \in ToSet(start) \intersect ToSet(index) : Within(n)}

OverInv ==
    cmd.kind = "over" =>
        /\ start \in Seq(Num) /\ ToSet(start) \subseteq ToSet(ever)
        /\ got \in Seq(Num) /\ rows \in Seq(Num)
        /\ Begun => /\ InOrder(Flow, ever)
                    /\ \A n \in ToSet(Flow) : Within(n)
                    /\ fault = "none" => Still \subseteq ToSet(Flow)

Wanted == {g \in start : Perm[g] # "deny"}

ListInv ==
    cmd.kind = "list" =>
        /\ start \subseteq {g \in maps : stage[g] = 3}
        /\ got \in Seq(Group) /\ rows \in Seq(Group)
        /\ IsInjective(got) /\ IsInjective(rows)
        /\ \A g \in ToSet(got) : g \notin ToSet(rows) /\ Perm[g] # "deny"
        /\ Begun /\ fault = "none" => Wanted \subseteq ToSet(got) \union ToSet(rows)
        /\ ppc = "group" /\ Perm[Head(rows)] = "deny" =>
              Head(rows) \in maps /\ stage[Head(rows)] = 2
        /\ ppc = "give" => Perm[Head(rows)] # "deny"

ReaderInv ==
    Typed /\ MapsInv /\ IndexInv /\ PlaceInv /\ ClosedInv /\ NilInv /\ OverInv /\ ListInv
-----------------------------------------------------------------------------
(* Sequences. *)

LEMMA LeastNumber ==
  ASSUME NEW T \in SUBSET Nat, T # {}
  PROVE  \E x \in T : \A y \in T : x <= y
<1> DEFINE R == {ss \in Nat \X Nat : ss[1] < ss[2]}
<1>1. IsWellFoundedOn(R, Nat)
  BY NatLessThanWellFounded DEF OpToRel
<1>2. PICK x \in T : \A y \in T : ~(<<y, x>> \in R)
  <2> HIDE DEF R
  <2> QED BY <1>1, WFMin
<1>3. ASSUME NEW y \in T PROVE ~(y < x)
  <2>1. <<y, x>> \notin R /\ x \in Nat /\ y \in Nat
    BY <1>2
  <2> QED BY <2>1
<1> QED BY <1>3

LEMMA Entries ==
  ASSUME NEW T, NEW s \in Seq(T)
  PROVE  /\ DOMAIN s = 1 .. Len(s) /\ Len(s) \in Nat
         /\ ToSet(s) \subseteq T
         /\ \A x : x \in ToSet(s) <=> \E i \in 1 .. Len(s) : s[i] = x
         /\ s = <<>> <=> ToSet(s) = {}
<1>1. DOMAIN s = 1 .. Len(s) /\ Len(s) \in Nat /\ \A i \in 1 .. Len(s) : s[i] \in T
  BY LenProperties, ElementOfSeq
<1>2. s # <<>> => 1 \in 1 .. Len(s)
  BY EmptySeq, <1>1
<1>3. s = <<>> => Len(s) = 0
  BY EmptySeq
<1>4. \A x : x \in ToSet(s) <=> \E i \in 1 .. Len(s) : s[i] = x
  BY <1>1 DEF ToSet
<1>5. ToSet(s) \subseteq T
  BY <1>1, <1>4
<1>6. s = <<>> => ToSet(s) = {}
  BY <1>1, <1>3, <1>4
<1>7. s # <<>> => s[1] \in ToSet(s)
  BY <1>2, <1>4
<1> QED BY <1>1, <1>4, <1>5, <1>6, <1>7

LEMMA NoEntries == \A T : <<>> \in Seq(T) /\ ToSet(<<>>) = {} /\ IsInjective(<<>>)
<1>1. \A T : <<>> \in Seq(T) /\ ToSet(<<>>) = {}
  BY Entries, EmptySeq
<1>2. DOMAIN <<>> = {}
  BY EmptySeq, LenProperties
<1> QED BY <1>1, <1>2 DEF IsInjective

LEMMA AppendEntries ==
  ASSUME NEW T, NEW s \in Seq(T), NEW e \in T
  PROVE  /\ Append(s, e) \in Seq(T) /\ Append(s, e) # <<>>
         /\ ToSet(Append(s, e)) = ToSet(s) \union {e}
         /\ IsInjective(s) /\ e \notin ToSet(s) => IsInjective(Append(s, e))
<1> DEFINE t == Append(s, e)
<1>1. /\ t \in Seq(T) /\ t # <<>> /\ Len(t) = Len(s) + 1
      /\ \A i \in 1 .. Len(s) : t[i] = s[i]
      /\ t[Len(s) + 1] = e
  BY AppendProperties
<1> HIDE DEF t
<1>2. DOMAIN s = 1 .. Len(s) /\ Len(s) \in Nat /\ DOMAIN t = 1 .. Len(s) + 1
  BY <1>1, Entries
<1>3. ToSet(t) = ToSet(s) \union {e}
  BY <1>1, <1>2 DEF ToSet
<1>4. ASSUME IsInjective(s), e \notin ToSet(s) PROVE IsInjective(t)
  <2> SUFFICES ASSUME NEW a \in 1 .. Len(s) + 1, NEW b \in 1 .. Len(s) + 1, t[a] = t[b]
               PROVE  a = b
    BY <1>2 DEF IsInjective
  <2>1. \A i \in 1 .. Len(s) : t[i] \in ToSet(s)
    BY <1>1, <1>2 DEF ToSet
  <2> QED BY <1>1, <1>2, <1>4, <2>1 DEF IsInjective
<1> QED BY <1>1, <1>3, <1>4 DEF t

LEMMA TailEntries ==
  ASSUME NEW T, NEW s \in Seq(T), s # <<>>
  PROVE  /\ Head(s) \in T /\ Tail(s) \in Seq(T)
         /\ ToSet(s) = {Head(s)} \union ToSet(Tail(s))
         /\ Head(s) \in ToSet(s)
         /\ IsInjective(s) => IsInjective(Tail(s)) /\ Head(s) \notin ToSet(Tail(s))
<1> DEFINE t == Tail(s)
<1>1. /\ Head(s) \in T /\ t \in Seq(T) /\ Len(t) = Len(s) - 1
      /\ \A i \in 1 .. Len(t) : t[i] = s[i + 1]
  BY HeadTailProperties
<1>2. Head(s) = s[1] /\ Len(s) \in Nat \ {0}
  BY EmptySeq
<1> HIDE DEF t
<1>3. DOMAIN s = 1 .. Len(s) /\ DOMAIN t = 1 .. Len(s) - 1
  BY <1>1, Entries
<1>4. ToSet(s) = {Head(s)} \union ToSet(t)
  <2>1. \A i \in 1 .. Len(s) : i = 1 \/ (i - 1 \in 1 .. Len(s) - 1 /\ s[i] = t[i - 1])
    BY <1>1, <1>2
  <2>2. \A i \in 1 .. Len(s) - 1 : i + 1 \in 1 .. Len(s) /\ s[i + 1] = t[i]
    BY <1>1, <1>2
  <2>3. /\ \A x : x \in ToSet(s) <=> \E i \in 1 .. Len(s) : s[i] = x
        /\ \A x : x \in ToSet(t) <=> \E i \in 1 .. Len(s) - 1 : t[i] = x
    BY <1>3 DEF ToSet
  <2>4. \A x \in ToSet(s) : x = Head(s) \/ x \in ToSet(t)
    BY <1>2, <2>1, <2>3
  <2>5. Head(s) \in ToSet(s)
    BY <1>2, <2>3
  <2>6. \A x \in ToSet(t) : x \in ToSet(s)
    BY <2>2, <2>3
  <2> QED BY <2>4, <2>5, <2>6
<1>5. ASSUME IsInjective(s) PROVE IsInjective(t) /\ Head(s) \notin ToSet(t)
  <2>1. \A i \in 1 .. Len(s) - 1 : i + 1 \in 1 .. Len(s) /\ s[i + 1] = t[i]
    BY <1>1, <1>2
  <2>2. \A a, b \in 1 .. Len(s) : s[a] = s[b] => a = b
    BY <1>5, <1>3 DEF IsInjective
  <2>3. \A a, b \in 1 .. Len(s) - 1 : t[a] = t[b] => a = b
    BY <2>1, <2>2
  <2>4. \A a \in 1 .. Len(s) - 1 : t[a] # s[1]
    BY <2>1, <2>2, <1>2
  <2> QED BY <2>3, <2>4, <1>2, <1>3 DEF IsInjective, ToSet
<1> QED BY <1>1, <1>4, <1>5 DEF t

(* The parts of a flow: what moves from the head of one to the end of the
   next, or through the place for one, leaves the whole as it was. *)

LEMMA Shift ==
  ASSUME NEW T, NEW p \in Seq(T), NEW q \in Seq(T), q # <<>>
  PROVE  Append(p, Head(q)) \o Tail(q) = p \o q
<1> DEFINE a == Append(p, Head(q)) \o Tail(q)
           b == p \o q
<1>1. /\ Head(q) \in T /\ Tail(q) \in Seq(T) /\ Len(Tail(q)) = Len(q) - 1
      /\ \A i \in 1 .. Len(Tail(q)) : Tail(q)[i] = q[i + 1]
      /\ Head(q) = q[1] /\ Len(q) \in Nat \ {0} /\ Len(p) \in Nat
  BY HeadTailProperties, EmptySeq, LenProperties
<1>2. /\ Append(p, Head(q)) \in Seq(T) /\ Len(Append(p, Head(q))) = Len(p) + 1
      /\ \A i \in 1 .. Len(p) : Append(p, Head(q))[i] = p[i]
      /\ Append(p, Head(q))[Len(p) + 1] = q[1]
  BY <1>1, AppendProperties
<1>3. /\ a \in Seq(T) /\ Len(a) = Len(p) + 1 + (Len(q) - 1)
      /\ \A i \in 1 .. Len(p) + 1 + (Len(q) - 1) :
            a[i] = IF i <= Len(p) + 1 THEN Append(p, Head(q))[i] ELSE Tail(q)[i - (Len(p) + 1)]
  <2> DEFINE c == Append(p, Head(q))
             d == Tail(q)
  <2> HIDE DEF c, d
  <2>1. c \in Seq(T) /\ d \in Seq(T) /\ Len(c) = Len(p) + 1 /\ Len(d) = Len(q) - 1
    BY <1>1, <1>2 DEF c, d
  <2>2. /\ c \o d \in Seq(T) /\ Len(c \o d) = Len(c) + Len(d)
        /\ \A i \in 1 .. Len(c) + Len(d) : (c \o d)[i] = IF i <= Len(c) THEN c[i] ELSE d[i - Len(c)]
    BY <2>1, ConcatProperties
  <2> QED BY <2>1, <2>2 DEF c, d
<1>4. /\ b \in Seq(T) /\ Len(b) = Len(p) + Len(q)
      /\ \A i \in 1 .. Len(p) + Len(q) : b[i] = IF i <= Len(p) THEN p[i] ELSE q[i - Len(p)]
  BY ConcatProperties
<1>5. Len(a) = Len(b)
  BY <1>1, <1>3, <1>4
<1>6. ASSUME NEW i \in 1 .. Len(a) PROVE a[i] = b[i]
  <2>0. i \in 1 .. Len(p) + Len(q) /\ i \in 1 .. Len(p) + 1 + (Len(q) - 1)
    BY <1>1, <1>3
  <2>1. CASE i <= Len(p)
    BY <2>0, <2>1, <1>1, <1>2, <1>3, <1>4
  <2>2. CASE i = Len(p) + 1
    <3>1. b[i] = q[1]
      BY <2>0, <2>2, <1>1, <1>4
    <3>2. a[i] = q[1]
      BY <2>0, <2>2, <1>1, <1>2, <1>3
    <3> QED BY <3>1, <3>2
  <2>3. CASE i > Len(p) + 1
    <3>1. b[i] = q[i - Len(p)]
      BY <2>0, <2>3, <1>1, <1>4
    <3>2. a[i] = Tail(q)[i - (Len(p) + 1)]
      BY <2>0, <2>3, <1>1, <1>3
    <3>3. i - (Len(p) + 1) \in 1 .. Len(Tail(q)) /\ i - (Len(p) + 1) + 1 = i - Len(p)
      BY <2>0, <2>3, <1>1
    <3> QED BY <3>1, <3>2, <3>3, <1>1
  <2> QED BY <2>0, <2>1, <2>2, <2>3, <1>1
<1> HIDE DEF a, b
<1>7. a = b
  BY <1>3, <1>4, <1>5, <1>6, SeqEqual
<1> QED BY <1>7 DEF a, b

LEMMA AppendConcat ==
  ASSUME NEW T, NEW p \in Seq(T), NEW q \in Seq(T), NEW e \in T
  PROVE  p \o Append(q, e) = Append(p \o q, e)
<1> DEFINE w == <<e>>
<1>1. w \in Seq(T)
  OBVIOUS
<1> HIDE DEF w
<1>2. Append(q, e) = q \o w /\ p \o q \in Seq(T)
  BY AppendIsConcat, ConcatProperties DEF w
<1>3. Append(p \o q, e) = (p \o q) \o w
  BY <1>2, AppendIsConcat DEF w
<1>4. (p \o q) \o w = p \o (q \o w)
  BY <1>1, ConcatAssociative
<1> QED BY <1>2, <1>3, <1>4

LEMMA OneType == \A T, n : n \in {0} \union T => One(n) \in Seq(T) /\ (n = 0 => One(n) = <<>>)
<1> SUFFICES ASSUME NEW T, NEW n \in {0} \union T
             PROVE  One(n) \in Seq(T) /\ (n = 0 => One(n) = <<>>)
  OBVIOUS
<1>1. n = 0 => One(n) = <<>> /\ <<>> \in Seq(T)
  BY EmptySeq DEF One
<1>2. n # 0 => One(n) = <<n>> /\ <<n>> \in Seq(T)
  BY DEF One
<1> QED BY <1>1, <1>2

LEMMA FiveType ==
  ASSUME NEW T, NEW a \in Seq(T), NEW b \in Seq(T), NEW c \in Seq(T), NEW d \in Seq(T), NEW e \in Seq(T)
  PROVE  /\ a \o b \in Seq(T) /\ (a \o b) \o c \in Seq(T) /\ ((a \o b) \o c) \o d \in Seq(T)
         /\ Five(a, b, c, d, e) \in Seq(T)
<1>1. a \o b \in Seq(T)
  BY ConcatProperties
<1>2. (a \o b) \o c \in Seq(T)
  BY <1>1, ConcatProperties
<1>3. ((a \o b) \o c) \o d \in Seq(T)
  BY <1>2, ConcatProperties
<1>4. (((a \o b) \o c) \o d) \o e \in Seq(T)
  BY <1>3, ConcatProperties
<1> QED BY <1>1, <1>2, <1>3, <1>4 DEF Five

LEMMA FiveAtStart == \A T : \A e \in Seq(T) : Five(<<>>, <<>>, <<>>, <<>>, e) = e
<1> SUFFICES ASSUME NEW T, NEW e \in Seq(T) PROVE Five(<<>>, <<>>, <<>>, <<>>, e) = e
  OBVIOUS
<1> DEFINE z == <<>>
<1>1. z \in Seq(T) /\ z \o z = z /\ z \o e = e
  BY EmptySeq, ConcatEmptySeq
<1> HIDE DEF z
<1>2. Five(z, z, z, z, e) = e
  BY <1>1 DEF Five
<1> QED BY <1>2 DEF z

LEMMA FiveAtEnd == \A T : \A a \in Seq(T) : Five(a, <<>>, <<>>, <<>>, <<>>) = a
<1> SUFFICES ASSUME NEW T, NEW a \in Seq(T) PROVE Five(a, <<>>, <<>>, <<>>, <<>>) = a
  OBVIOUS
<1> DEFINE z == <<>>
<1>1. a \o z = a
  BY ConcatEmptySeq
<1> HIDE DEF z
<1>2. Five(a, z, z, z, z) = a
  BY <1>1 DEF Five
<1> QED BY <1>2 DEF z

LEMMA PartOfWhole ==
  ASSUME NEW T, NEW p \in Seq(T), NEW q \in Seq(T), NEW i \in 1 .. Len(p)
  PROVE  i \in 1 .. Len(p \o q) /\ (p \o q)[i] = p[i]
<1>1. Len(p) \in Nat /\ Len(q) \in Nat
  BY LenProperties
<1> QED BY <1>1, ConcatProperties

(* Each move of the goroutines. *)
LEMMA Moves ==
  ASSUME NEW T, NEW a \in Seq(T), NEW b \in Seq(T), NEW c \in Seq(T), NEW d \in Seq(T), NEW e \in Seq(T)
  PROVE  /\ b # <<>> => Five(Append(a, Head(b)), Tail(b), c, d, e) = Five(a, b, c, d, e)
         /\ e # <<>> => Five(a, b, c, Append(d, Head(e)), Tail(e)) = Five(a, b, c, d, e)
<1>1. ASSUME b # <<>>
      PROVE  Five(Append(a, Head(b)), Tail(b), c, d, e) = Five(a, b, c, d, e)
  <2>1. Append(a, Head(b)) \o Tail(b) = a \o b
    BY <1>1, Shift
  <2> QED BY <2>1 DEF Five
<1>2. ASSUME e # <<>>
      PROVE  Five(a, b, c, Append(d, Head(e)), Tail(e)) = Five(a, b, c, d, e)
  <2> DEFINE x == (a \o b) \o c
             h == Head(e)
             t == Tail(e)
  <2>1. x \in Seq(T) /\ x \o d \in Seq(T)
    BY FiveType
  <2>2. h \in T
    BY <1>2, TailEntries
  <2> HIDE DEF x
  <2>3. Append(x \o d, h) \o t = (x \o d) \o e
    BY <1>2, <2>1, Shift
  <2> HIDE DEF h, t
  <2>4. x \o Append(d, h) = Append(x \o d, h)
    BY <2>1, <2>2, AppendConcat
  <2>5. Five(a, b, c, Append(d, h), t) = (x \o Append(d, h)) \o t
    BY DEF Five, x
  <2>6. Five(a, b, c, d, e) = (x \o d) \o e
    BY DEF Five, x
  <2> QED BY <2>3, <2>4, <2>5, <2>6 DEF h, t
<1> QED BY <1>1, <1>2

LEMMA MovesOfOne ==
  ASSUME NEW T, 0 \notin T,
         NEW a \in Seq(T), NEW b \in Seq(T), NEW d \in Seq(T), NEW e \in Seq(T), NEW n \in T
  PROVE  /\ Five(a, Append(b, n), One(0), d, e) = Five(a, b, One(n), d, e)
         /\ d # <<>> => Five(a, b, One(Head(d)), Tail(d), e) = Five(a, b, One(0), d, e)
<1> DEFINE ab == a \o b
           z == <<>>
<1>1. ab \in Seq(T) /\ One(0) = z /\ One(n) \in Seq(T)
  BY ConcatProperties, OneType
<1>2. \A m \in T : One(m) = <<m>>
  BY DEF One
<1>3. a \o Append(b, n) = Append(ab, n)
  BY AppendConcat
<1> HIDE DEF ab
<1>4. \A m \in T : Append(ab, m) = ab \o One(m) /\ Append(ab, m) \in Seq(T)
  BY <1>1, <1>2, AppendIsConcat, AppendProperties
<1>5. \A x \in Seq(T) : x \o z = x
  BY ConcatEmptySeq
<1> HIDE DEF z
<1>6. Five(a, Append(b, n), One(0), d, e) = Five(a, b, One(n), d, e)
  <2>1. (a \o Append(b, n)) \o One(0) = ab \o One(n)
    BY <1>1, <1>3, <1>4, <1>5
  <2> QED BY <2>1 DEF Five, ab
<1>7. ASSUME d # <<>>
      PROVE  Five(a, b, One(Head(d)), Tail(d), e) = Five(a, b, One(0), d, e)
  <2>1. Append(ab, Head(d)) \o Tail(d) = ab \o d
    BY <1>1, <1>7, Shift
  <2>2. Head(d) \in T
    BY <1>7, TailEntries
  <2>3. (ab \o One(Head(d))) \o Tail(d) = (ab \o One(0)) \o d
    BY <1>1, <1>4, <1>5, <2>1, <2>2
  <2> QED BY <2>3 DEF Five, ab
<1> QED BY <1>6, <1>7
LEMMA OneInFive ==
  ASSUME NEW T, NEW a \in Seq(T), NEW b \in Seq(T), NEW d \in Seq(T), NEW e \in Seq(T), NEW n \in T,
         One(n) \in Seq(T), n # 0
  PROVE  n \in ToSet(Five(a, b, One(n), d, e))
<1> DEFINE p == a \o b
           q == One(n)
           k == Len(p) + 1
<1>1. p \in Seq(T) /\ p \o q \in Seq(T) /\ (p \o q) \o d \in Seq(T) /\ q \in Seq(T)
  BY FiveType
<1>2. Len(q) = 1 /\ q[1] = n
  BY DEF One
<1> HIDE DEF p, q
<1>3. k \in 1 .. Len(p \o q) /\ (p \o q)[k] = n
  <2>1. Len(p) \in Nat
    BY <1>1, LenProperties
  <2>2. /\ Len(p \o q) = Len(p) + Len(q)
        /\ \A i \in 1 .. Len(p) + Len(q) :
              (p \o q)[i] = IF i <= Len(p) THEN p[i] ELSE q[i - Len(p)]
    BY <1>1, ConcatProperties
  <2> QED BY <2>1, <2>2, <1>2
<1> HIDE DEF k
<1>4. k \in 1 .. Len((p \o q) \o d) /\ ((p \o q) \o d)[k] = n
  BY <1>1, <1>3, PartOfWhole
<1> DEFINE w == ((p \o q) \o d) \o e
<1>5. k \in 1 .. Len(w) /\ w[k] = n
  BY <1>1, <1>4, PartOfWhole
<1>6. w \in Seq(T)
  BY <1>1, ConcatProperties
<1> HIDE DEF w
<1>7. n \in ToSet(w)
  BY <1>5, <1>6, Entries
<1> QED BY <1>7 DEF Five, p, q, w

-----------------------------------------------------------------------------
(* Order. *)

LEMMA InOrderTransitive ==
  ASSUME NEW T, NEW r \in Seq(T), NEW s \in Seq(T), NEW t, InOrder(r, s), InOrder(s, t)
  PROVE  InOrder(r, t)
<1>1. ToSet(r) \subseteq ToSet(t)
  BY DEF InOrder
<1>2. ASSUME NEW x, NEW y, Before(s, x, y) PROVE Before(t, x, y)
  BY <1>2 DEF InOrder, Before
<1> QED BY <1>1, <1>2 DEF InOrder

LEMMA InOrderSelf ==
  ASSUME NEW T, NEW s \in Seq(T)
  PROVE  InOrder(s, s) /\ InOrder(<<>>, s)
<1>1. InOrder(s, s)
  BY DEF InOrder, Before
<1>2. DOMAIN <<>> = {} /\ ToSet(<<>>) = {}
  BY EmptySeq, LenProperties, NoEntries
<1> QED BY <1>1, <1>2 DEF InOrder

(* The first part of what is in order is. *)
LEMMA InOrderPart ==
  ASSUME NEW T, NEW p \in Seq(T), NEW q \in Seq(T), NEW s, InOrder(p \o q, s)
  PROVE  InOrder(p, s) /\ ToSet(p) \subseteq ToSet(p \o q)
<1> DEFINE w == p \o q
<1>1. w \in Seq(T) /\ \A i \in 1 .. Len(p) : i \in 1 .. Len(w) /\ w[i] = p[i]
  BY ConcatProperties, PartOfWhole
<1>2. DOMAIN p = 1 .. Len(p) /\ DOMAIN w = 1 .. Len(w)
  BY <1>1, Entries
<1> HIDE DEF w
<1>3. ToSet(p) \subseteq ToSet(w)
  BY <1>1, <1>2 DEF ToSet
<1>4. InOrder(w, s)
  BY DEF w
<1>5. InOrder(p, s)
  BY <1>1, <1>2, <1>3, <1>4 DEF InOrder
<1> QED BY <1>3, <1>5 DEF w

(* The sequence on the right may grow, *)
LEMMA InOrderGrows ==
  ASSUME NEW T, NEW s \in Seq(T), NEW e \in T, NEW r, InOrder(r, s)
  PROVE  InOrder(r, Append(s, e))
<1> DEFINE t == Append(s, e)
<1>1. /\ t \in Seq(T) /\ Len(t) = Len(s) + 1 /\ \A i \in 1 .. Len(s) : t[i] = s[i]
      /\ ToSet(t) = ToSet(s) \union {e}
  BY AppendProperties, AppendEntries
<1> HIDE DEF t
<1>2. DOMAIN s = 1 .. Len(s) /\ Len(s) \in Nat /\ DOMAIN t = 1 .. Len(s) + 1
  BY <1>1, Entries
<1>3. ASSUME NEW x, NEW y, Before(s, x, y) PROVE Before(t, x, y)
  <2>1. PICK i \in 1 .. Len(s), j \in 1 .. Len(s) : i < j /\ s[i] = x /\ s[j] = y
    BY <1>2, <1>3 DEF Before
  <2>2. i \in DOMAIN t /\ j \in DOMAIN t /\ t[i] = x /\ t[j] = y
    BY <1>1, <1>2, <2>1
  <2> QED BY <2>1, <2>2 DEF Before
<1>4. InOrder(r, t)
  BY <1>1, <1>3 DEF InOrder
<1> QED BY <1>4 DEF t

(* and both at once. *)
LEMMA InOrderBoth ==
  ASSUME NEW T, NEW s \in Seq(T), NEW e \in T, NEW r \in Seq(T), InOrder(r, s)
  PROVE  InOrder(Append(r, e), Append(s, e))
<1> DEFINE t == Append(s, e)
           q == Append(r, e)
<1>0. InOrder(r, t)
  BY InOrderGrows
<1>1. /\ t \in Seq(T) /\ Len(t) = Len(s) + 1 /\ \A i \in 1 .. Len(s) : t[i] = s[i]
      /\ ToSet(t) = ToSet(s) \union {e} /\ t[Len(s) + 1] = e
  BY AppendProperties, AppendEntries
<1>2. /\ q \in Seq(T) /\ Len(q) = Len(r) + 1 /\ \A i \in 1 .. Len(r) : q[i] = r[i]
      /\ ToSet(q) = ToSet(r) \union {e} /\ q[Len(r) + 1] = e
  BY AppendProperties, AppendEntries
<1> HIDE DEF t, q
<1>3. /\ DOMAIN s = 1 .. Len(s) /\ Len(s) \in Nat /\ DOMAIN t = 1 .. Len(s) + 1
      /\ DOMAIN r = 1 .. Len(r) /\ Len(r) \in Nat /\ DOMAIN q = 1 .. Len(r) + 1
  BY <1>1, <1>2, Entries
<1>4. ToSet(q) \subseteq ToSet(t)
  BY <1>1, <1>2 DEF InOrder
<1>5. ASSUME NEW i \in DOMAIN q, NEW j \in DOMAIN q, i < j PROVE Before(t, q[i], q[j])
  <2>1. CASE j = Len(r) + 1
    <3>1. i \in 1 .. Len(r) /\ q[i] = r[i] /\ q[j] = e
      BY <1>2, <1>3, <1>5, <2>1
    <3>2. r[i] \in ToSet(s)
      BY <3>1, <1>3 DEF InOrder, ToSet
    <3>3. PICK k \in 1 .. Len(s) : s[k] = r[i]
      BY <3>2, <1>3 DEF ToSet
    <3>4. k \in DOMAIN t /\ Len(s) + 1 \in DOMAIN t /\ k < Len(s) + 1 /\ t[k] = q[i] /\ t[Len(s) + 1] = q[j]
      BY <3>1, <3>3, <1>1, <1>3
    <3> QED BY <3>4 DEF Before
  <2>2. CASE j # Len(r) + 1
    <3>1. i \in 1 .. Len(r) /\ j \in 1 .. Len(r) /\ q[i] = r[i] /\ q[j] = r[j]
      BY <1>2, <1>3, <1>5, <2>2
    <3> QED BY <3>1, <1>0, <1>3, <1>5 DEF InOrder
  <2> QED BY <2>1, <2>2
<1>6. InOrder(q, t)
  BY <1>4, <1>5 DEF InOrder
<1> QED BY <1>6 DEF q, t

(* In a sequence without repetition, before is an order. *)
LEMMA BeforeIsOrder ==
  ASSUME NEW T, NEW s \in Seq(T), IsInjective(s), NEW x, NEW y, Before(s, x, y)
  PROVE  x # y /\ ~Before(s, y, x)
<1>1. DOMAIN s = 1 .. Len(s) /\ Len(s) \in Nat
  BY Entries
<1>2. \A a, b \in 1 .. Len(s) : s[a] = s[b] => a = b
  BY <1>1 DEF IsInjective
<1>3. PICK i \in 1 .. Len(s), j \in 1 .. Len(s) : i < j /\ s[i] = x /\ s[j] = y
  BY <1>1 DEF Before
<1>4. x # y
  BY <1>1, <1>2, <1>3
<1>5. ASSUME Before(s, y, x) PROVE FALSE
  <2>1. PICK k \in 1 .. Len(s), l \in 1 .. Len(s) : k < l /\ s[k] = y /\ s[l] = x
    BY <1>1, <1>5 DEF Before
  <2>2. k = j /\ l = i
    BY <1>2, <1>3, <2>1
  <2> QED BY <1>1, <1>3, <2>1, <2>2
<1> QED BY <1>4, <1>5

LEMMA InOrderOnce ==
  ASSUME NEW T, NEW s \in Seq(T), IsInjective(s), NEW t \in Seq(T), InOrder(t, s)
  PROVE  \A i, j \in 1 .. Len(t) : t[i] = t[j] => i = j
<1> SUFFICES ASSUME NEW i \in 1 .. Len(t), NEW j \in 1 .. Len(t), t[i] = t[j], i # j
             PROVE  FALSE
  OBVIOUS
<1>1. DOMAIN t = 1 .. Len(t) /\ Len(t) \in Nat
  BY Entries
<1>2. i < j \/ j < i
  BY <1>1
<1>3. Before(s, t[i], t[j]) \/ Before(s, t[j], t[i])
  BY <1>1, <1>2 DEF InOrder
<1> QED BY <1>3, BeforeIsOrder

(* Two sequences in the same order agree at the first place where one of
   them has anything. *)
LEMMA AgreeAtNext ==
  ASSUME NEW T, NEW s \in Seq(T), IsInjective(s),
         NEW t \in Seq(T), InOrder(t, s), NEW u \in Seq(T), InOrder(u, s),
         ToSet(t) \subseteq ToSet(u), ToSet(u) \subseteq ToSet(t),
         NEW i \in 1 .. Len(t),
         \A k \in 1 .. i - 1 : k \in 1 .. Len(u) /\ t[k] = u[k]
  PROVE  i \in 1 .. Len(u) /\ t[i] = u[i]
<1>1. /\ DOMAIN t = 1 .. Len(t) /\ Len(t) \in Nat /\ DOMAIN u = 1 .. Len(u) /\ Len(u) \in Nat
      /\ \A x : x \in ToSet(t) <=> \E k \in 1 .. Len(t) : t[k] = x
      /\ \A x : x \in ToSet(u) <=> \E k \in 1 .. Len(u) : u[k] = x
  BY Entries
<1>2. PICK j \in 1 .. Len(u) : u[j] = t[i]
  <2>1. t[i] \in ToSet(t)
    BY <1>1
  <2>2. t[i] \in ToSet(u)
    BY <2>1
  <2> QED BY <1>1, <2>2
<1>3. j >= i
  <2> SUFFICES ASSUME j < i PROVE FALSE
    BY <1>1
  <2>1. j \in 1 .. i - 1 /\ j \in 1 .. Len(t)
    BY <1>1
  <2>2. t[j] = u[j]
    BY <2>1
  <2>3. t[j] = t[i]
    BY <2>2, <1>2
  <2>4. j = i
    BY <2>1, <2>3, InOrderOnce
  <2> QED BY <2>1, <2>4, <1>1
<1>4. i \in 1 .. Len(u)
  BY <1>1, <1>3
<1>5. ASSUME j # i PROVE FALSE
  <2>1. i < j
    BY <1>1, <1>3, <1>5
  <2>2. Before(s, u[i], t[i])
    BY <1>1, <1>2, <1>4, <2>1 DEF InOrder
  <2>3. PICK k \in 1 .. Len(t) : t[k] = u[i]
    <3>1. u[i] \in ToSet(u)
      BY <1>1, <1>4
    <3>2. u[i] \in ToSet(t)
      BY <3>1
    <3> QED BY <1>1, <3>2
  <2>4. k > i
    <3>1. CASE k < i
      <4>1. k \in 1 .. i - 1 /\ k \in 1 .. Len(u)
        BY <1>1, <1>4, <3>1
      <4>2. u[k] = u[i]
        BY <4>1, <2>3
      <4>3. k = i
        BY <4>1, <4>2, <1>4, InOrderOnce
      <4> QED BY <3>1, <4>3, <1>1
    <3>2. CASE k = i
      <4>1. u[i] = t[i]
        BY <2>3, <3>2
      <4> QED BY <4>1, <2>2, BeforeIsOrder
    <3> QED BY <3>1, <3>2, <1>1
  <2>5. Before(s, t[i], u[i])
    BY <1>1, <2>3, <2>4 DEF InOrder
  <2> QED BY <2>2, <2>5, BeforeIsOrder
<1> QED BY <1>2, <1>4, <1>5

(* What is in the same order with the same entries is the same. *)
LEMMA OneOrder ==
  ASSUME NEW T, NEW s \in Seq(T), IsInjective(s),
         NEW t \in Seq(T), InOrder(t, s), NEW u \in Seq(T), InOrder(u, s),
         ToSet(t) = ToSet(u)
  PROVE  t = u
<1>1. Len(t) \in Nat /\ Len(u) \in Nat
  BY Entries
<1> DEFINE same(i) == i \in 1 .. Len(t) /\ i \in 1 .. Len(u) /\ t[i] = u[i]
           D == {i \in Nat : (i \in 1 .. Len(t) \/ i \in 1 .. Len(u)) /\ ~same(i)}
<1>2. D = {}
  <2> SUFFICES ASSUME D # {} PROVE FALSE
    OBVIOUS
  <2>1. PICK i \in D : \A k \in D : i <= k
    BY LeastNumber
  <2>2. i \in Nat /\ i >= 1 /\ (i \in 1 .. Len(t) \/ i \in 1 .. Len(u)) /\ ~same(i)
    BY <1>1
  <2>3. \A k \in 1 .. i - 1 : same(k)
    <3> SUFFICES ASSUME NEW k \in 1 .. i - 1, ~same(k) PROVE FALSE
      OBVIOUS
    <3>1. k \in Nat /\ (k \in 1 .. Len(t) \/ k \in 1 .. Len(u)) /\ k < i
      BY <1>1, <2>2
    <3>2. k \in D
      BY <3>1
    <3> QED BY <2>1, <2>2, <3>1, <3>2
  <2>4. CASE i \in 1 .. Len(t)
    <3>1. i \in 1 .. Len(u) /\ t[i] = u[i]
      BY <2>3, <2>4, AgreeAtNext
    <3> QED BY <2>2, <2>4, <3>1
  <2>5. CASE i \in 1 .. Len(u)
    <3>1. \A k \in 1 .. i - 1 : k \in 1 .. Len(t) /\ u[k] = t[k]
      BY <2>3
    <3>2. i \in 1 .. Len(t) /\ u[i] = t[i]
      BY <2>5, <3>1, AgreeAtNext
    <3> QED BY <2>2, <2>5, <3>2
  <2> QED BY <2>2, <2>4, <2>5
<1>3. \A i \in 1 .. Len(t) : i \in 1 .. Len(u) /\ t[i] = u[i]
  <2>1. \A i \in Nat : i \in 1 .. Len(t) => same(i)
    BY <1>2
  <2> QED BY <2>1, <1>1
<1>4. \A i \in 1 .. Len(u) : i \in 1 .. Len(t)
  <2>1. \A i \in Nat : i \in 1 .. Len(u) => same(i)
    BY <1>2
  <2> QED BY <2>1, <1>1
<1>5. Len(t) = Len(u)
  <2>1. Len(t) > 0 => Len(t) <= Len(u)
    BY <1>1, <1>3
  <2>2. Len(u) > 0 => Len(u) <= Len(t)
    BY <1>1, <1>4
  <2> QED BY <1>1, <2>1, <2>2
<1> QED BY <1>3, <1>5, SeqEqual
-----------------------------------------------------------------------------
(* What a query selects. *)

Selects(f, s, S, n) ==
    /\ f = [i \in 0 .. n |-> f[i]] /\ f[0] = <<>>
    /\ \A i \in 1 .. n : f[i] = IF s[i] \in S THEN Append(f[i - 1], s[i]) ELSE f[i - 1]

(* Its recursion is defined, *)
LEMMA SelectsSomething ==
  ASSUME NEW s, NEW S, NEW m \in Nat
  PROVE  \E f : Selects(f, s, S, m)
<1> DEFINE D == {n \in Nat : ~\E f : Selects(f, s, S, n)}
<1>1. D = {}
  <2> SUFFICES ASSUME D # {} PROVE FALSE
    OBVIOUS
  <2>1. PICK n \in D : \A k \in D : n <= k
    BY LeastNumber
  <2>2. n \in Nat /\ ~\E f : Selects(f, s, S, n)
    OBVIOUS
  <2>3. CASE n = 0
    <3> DEFINE f == [i \in 0 .. 0 |-> <<>>]
    <3>1. Selects(f, s, S, 0)
      BY DEF Selects
    <3> QED BY <2>2, <2>3, <3>1
  <2>4. CASE n # 0
    <3>1. n - 1 \in Nat /\ n - 1 \notin D
      BY <2>1, <2>2, <2>4
    <3>2. PICK g : Selects(g, s, S, n - 1)
      BY <3>1
    <3> DEFINE next == IF s[n] \in S THEN Append(g[n - 1], s[n]) ELSE g[n - 1]
               f == [i \in 0 .. n |-> IF i = n THEN next ELSE g[i]]
    <3> HIDE DEF next
    <3>0. f = [i \in 0 .. n |-> f[i]]
      OBVIOUS
    <3>3. f[n] = next /\ \A i \in 0 .. n - 1 : f[i] = g[i]
      BY <2>2, <3>1
    <3> HIDE DEF f
    <3>4. f[0] = <<>>
      BY <3>1, <3>2, <3>3 DEF Selects
    <3>5. ASSUME NEW i \in 1 .. n
          PROVE  f[i] = IF s[i] \in S THEN Append(f[i - 1], s[i]) ELSE f[i - 1]
      <4>1. i - 1 \in 0 .. n - 1 /\ f[i - 1] = g[i - 1]
        BY <2>2, <3>3
      <4>2. CASE i = n
        BY <3>3, <4>1, <4>2 DEF next
      <4>3. CASE i # n
        <5>1. i \in 1 .. n - 1 /\ i \in 0 .. n - 1
          BY <2>2, <4>3
        <5> QED BY <5>1, <3>2, <3>3, <4>1 DEF Selects
      <4> QED BY <4>2, <4>3
    <3>6. Selects(f, s, S, n)
      BY <3>0, <3>4, <3>5 DEF Selects
    <3> QED BY <2>2, <3>6
  <2> QED BY <2>3, <2>4
<1> QED BY <1>1

LEMMA SelectedIsLast ==
  ASSUME NEW T, NEW s \in Seq(T), NEW S
  PROVE  \E f : Selects(f, s, S, Len(s)) /\ Selected(s, S) = f[Len(s)]
<1> DEFINE rule(f, i) == IF i = 0 THEN <<>>
                         ELSE IF s[i] \in S THEN Append(f[i - 1], s[i]) ELSE f[i - 1]
           table(f) == [i \in 0 .. Len(s) |-> rule(f, i)]
           h == CHOOSE f : f = table(f)
<1>1. Len(s) \in Nat
  BY LenProperties
<1>2. PICK g : Selects(g, s, S, Len(s))
  BY <1>1, SelectsSomething
<1>3. \A i \in 0 .. Len(s) : g[i] = rule(g, i)
  BY <1>1, <1>2 DEF Selects
<1>4. g = table(g)
  BY <1>2, <1>3 DEF Selects
<1>5. h = table(h)
  <2> HIDE DEF table
  <2> QED BY <1>4
<1>6. h = [i \in 0 .. Len(s) |-> h[i]] /\ \A i \in 0 .. Len(s) : h[i] = rule(h, i)
  <2> DEFINE k == h
  <2>1. k = table(k)
    BY <1>5
  <2> HIDE DEF k
  <2> QED BY <2>1 DEF k
<1>7. Selected(s, S) = h[Len(s)]
  BY DEF Selected
<1> HIDE DEF h
<1>8. Selects(h, s, S, Len(s))
  BY <1>1, <1>6 DEF Selects
<1> QED BY <1>7, <1>8

(* A prefix of the query's result is what is selected of a prefix. *)
LEMMA SelectedStep ==
  ASSUME NEW T, NEW s \in Seq(T), NEW S, NEW f, Selects(f, s, S, Len(s)), NEW n \in 0 .. Len(s)
  PROVE  /\ f[n] \in Seq(T)
         /\ ToSet(f[n]) = {s[i] : i \in 1 .. n} \intersect S
         /\ InOrder(f[n], SubSeq(s, 1, n))
<1> DEFINE good(k) == /\ f[k] \in Seq(T)
                      /\ ToSet(f[k]) = {s[i] : i \in 1 .. k} \intersect S
                      /\ InOrder(f[k], SubSeq(s, 1, k))
           D == {k \in Nat : k \in 0 .. Len(s) /\ ~good(k)}
<1>1. Len(s) \in Nat /\ \A i \in 1 .. Len(s) : s[i] \in T
  BY LenProperties, ElementOfSeq
<1>2. D = {}
  <2> SUFFICES ASSUME D # {} PROVE FALSE
    OBVIOUS
  <2> HIDE DEF good
  <2>1. PICK k \in D : \A j \in D : k <= j
    BY LeastNumber
  <2>2. k \in 0 .. Len(s) /\ ~good(k)
    OBVIOUS
  <2>3. CASE k = 0
    <3>1. f[0] = <<>> /\ SubSeq(s, 1, 0) = <<>>
      BY <1>1, SubSeqEmpty DEF Selects
    <3>2. <<>> \in Seq(T) /\ ToSet(<<>>) = {} /\ InOrder(<<>>, <<>>)
      BY NoEntries, InOrderSelf
    <3>3. {s[i] : i \in 1 .. 0} = {}
      OBVIOUS
    <3>4. good(0)
      BY <3>1, <3>2, <3>3 DEF good
    <3> QED BY <2>2, <2>3, <3>4
  <2>4. CASE k # 0
    <3> DEFINE j == k - 1
               p == SubSeq(s, 1, j)
               e == s[k]
    <3>1. j \in Nat /\ j \in 0 .. Len(s) /\ j \notin D /\ k \in 1 .. Len(s)
      BY <1>1, <2>1, <2>2, <2>4
    <3>2. good(j)
      BY <3>1
    <3>3. /\ p \in Seq(T) /\ e \in T /\ SubSeq(s, 1, k) = Append(p, e)
      <4>1. p \in Seq(T)
        <5>1. \A i \in 1 .. j : s[i] \in T
          BY <1>1, <3>1
        <5> QED BY <5>1, <3>1, SubSeqProperties
      <4>2. e \in T
        BY <1>1, <3>1
      <4>3. SubSeq(s, 1, k) = p \o <<e>>
        <5>1. 1 \in 1 .. Len(s) /\ k \in 1 .. Len(s)
          BY <1>1, <3>1
        <5> QED BY <5>1, SubSeqRecursiveSecond
      <4>4. Append(p, e) = p \o <<e>>
        <5> HIDE DEF p, e
        <5> QED BY <4>1, <4>2, AppendIsConcat
      <4> QED BY <4>1, <4>2, <4>3, <4>4
    <3>4. f[k] = IF e \in S THEN Append(f[j], e) ELSE f[j]
      BY <3>1 DEF Selects
    <3>5. {s[i] : i \in 1 .. k} = {s[i] : i \in 1 .. j} \union {e}
      <4>1. \A i \in 1 .. k : i \in 1 .. j \/ i = k
        BY <3>1
      <4>2. \A i \in 1 .. j : i \in 1 .. k
        BY <3>1
      <4>3. k \in 1 .. k
        BY <3>1
      <4> QED BY <4>1, <4>2, <4>3
    <3>6. f[j] \in Seq(T) /\ ToSet(f[j]) = {s[i] : i \in 1 .. j} \intersect S /\ InOrder(f[j], p)
      BY <3>2 DEF good
    <3> HIDE DEF p, e, j
    <3>7. CASE e \in S
      <4>1. f[k] = Append(f[j], e)
        BY <3>4, <3>7
      <4>2. f[k] \in Seq(T) /\ ToSet(f[k]) = ToSet(f[j]) \union {e}
        BY <4>1, <3>3, <3>6, AppendEntries
      <4>3. InOrder(f[k], SubSeq(s, 1, k))
        BY <4>1, <3>3, <3>6, InOrderBoth
      <4> QED BY <4>2, <4>3, <2>2, <3>5, <3>6, <3>7 DEF good
    <3>8. CASE e \notin S
      <4>1. f[k] = f[j]
        BY <3>4, <3>8
      <4>2. InOrder(f[k], SubSeq(s, 1, k))
        BY <4>1, <3>3, <3>6, InOrderGrows
      <4> QED BY <4>1, <4>2, <2>2, <3>5, <3>6, <3>8 DEF good
    <3> QED BY <3>7, <3>8
  <2> QED BY <2>3, <2>4
<1>3. good(n)
  <2>1. n \in Nat /\ n \notin D
    BY <1>1, <1>2
  <2> QED BY <2>1
<1> QED BY <1>3

(* A query selects the rows of the table that it asks for, in the order of
   the table. *)
LEMMA SelectedFacts ==
  ASSUME NEW T, NEW s \in Seq(T), NEW S
  PROVE  /\ Selected(s, S) \in Seq(T)
         /\ ToSet(Selected(s, S)) = ToSet(s) \intersect S
         /\ InOrder(Selected(s, S), s)
<1>1. PICK f : Selects(f, s, S, Len(s)) /\ Selected(s, S) = f[Len(s)]
  BY SelectedIsLast
<1> DEFINE n == Len(s)
<1>2. n \in 0 .. Len(s) /\ n \in Nat
  BY LenProperties
<1>3. /\ f[n] \in Seq(T)
      /\ ToSet(f[n]) = {s[i] : i \in 1 .. n} \intersect S
      /\ InOrder(f[n], SubSeq(s, 1, n))
  <2> HIDE DEF n
  <2> QED BY <1>1, <1>2, SelectedStep
<1>4. SubSeq(s, 1, n) = s
  BY SubSeqFull
<1>5. {s[i] : i \in 1 .. n} = ToSet(s)
  BY Entries DEF ToSet
<1> QED BY <1>1, <1>3, <1>4, <1>5

(* An enumeration of a set has each of its members, once. *)
LEMMA Enumerations ==
  ASSUME NEW S, IsFiniteSet(S), NEW s \in SetToSeqs(S)
  PROVE  s \in Seq(S) /\ ToSet(s) = S /\ IsInjective(s)
<1> DEFINE n == Cardinality(S)
           D == 1 .. n
<1>1. n \in Nat
  BY FS_CardinalityType
<1>2. s \in [D -> S] /\ \A i, j \in D : i # j => s[i] # s[j]
  BY DEF SetToSeqs
<1>3. IsFiniteSet(D) /\ Cardinality(D) = n
  <2>1. 1 \in Int /\ n \in Int
    BY <1>1
  <2>2. Cardinality(D) = IF 1 > n THEN 0 ELSE n - 1 + 1
    BY <2>1, FS_Interval
  <2>3. IsFiniteSet(D)
    BY <2>1, FS_Interval
  <2> QED BY <2>2, <2>3, <1>1
<1>4. s \in Seq(S)
  BY <1>1, <1>2
<1>5. IsInjective(s)
  BY <1>2 DEF IsInjective
<1>6. s \in Injection(D, S)
  BY <1>2, <1>5 DEF Injection
<1> HIDE DEF D
<1>7. s \in Surjection(D, S)
  BY <1>3, <1>6, FS_Injection
<1>8. ToSet(s) = S
  <2>1. DOMAIN s = D /\ \A x \in D : s[x] \in S
    BY <1>2
  <2>2. \A x \in S : \E i \in D : s[i] = x
    BY <1>7 DEF Surjection
  <2> QED BY <2>1, <2>2 DEF ToSet
<1> QED BY <1>4, <1>5, <1>8
-----------------------------------------------------------------------------
(* Steps that leave a part of the invariant alone. *)

LEMMA MapsKept ==
  ASSUME MapsInv, UNCHANGED registry
  PROVE  MapsInv'
BY DEF MapsInv, registry

LEMMA IndexKept ==
  ASSUME IndexInv, UNCHANGED <<index, ever>>
  PROVE  IndexInv'
BY DEF IndexInv

LEMMA PlaceKept ==
  ASSUME PlaceInv, ClosedInv, UNCHANGED <<lister, forwarder, session>>
  PROVE  PlaceInv' /\ ClosedInv'
BY DEF PlaceInv, ClosedInv, Quiet, lister, forwarder, session

LEMMA FlowKept ==
  ASSUME UNCHANGED <<lister, forwarder, session>>
  PROVE  Flow' = Flow
BY DEF Flow, lister, forwarder, session

(* Moves of the flow keep what is said of a range, *)
LEMMA OverKept ==
  ASSUME OverInv, UNCHANGED <<cmd, start, ever, index>>, fault' = fault \/ fault' # "none",
         cmd.kind = "over" =>
            /\ Flow' = Flow \/ ~Begun' 
            /\ Begun' => Begun
            /\ got' \in Seq(Num) /\ rows' \in Seq(Num)
  PROVE  OverInv'
<1> SUFFICES ASSUME cmd.kind = "over" PROVE OverInv'
  BY DEF OverInv
<1>1. CASE ~Begun'
  BY <1>1 DEF OverInv
<1>2. CASE Begun'
  <2>1. Flow' = Flow /\ Begun
    BY <1>2
  <2>2. /\ InOrder(Flow, ever)
        /\ \A n \in ToSet(Flow) : Within(n)
        /\ fault = "none" => Still \subseteq ToSet(Flow)
    BY <2>1 DEF OverInv
  <2>3. InOrder(Flow, ever)'
    BY <2>1, <2>2
  <2>4. (\A n \in ToSet(Flow) : Within(n))'
    BY <2>1, <2>2 DEF Within
  <2>5. (fault = "none" => Still \subseteq ToSet(Flow))'
    BY <2>1, <2>2 DEF Within, Still
  <2> QED BY <2>3, <2>4, <2>5 DEF OverInv
<1> QED BY <1>1, <1>2

(* and steps that leave the session's rows alone what is said of a list. *)
LEMMA ListKept ==
  ASSUME ListInv, UNCHANGED <<cmd, start, got, rows>>, fault' = fault \/ fault' # "none",
         ppc' = ppc \/ ppc' = "left",
         \A g \in maps : g \in maps' /\ stage'[g] = stage[g],
         cmd.kind = "list" /\ ppc' = "left" => ppc \notin {"off", "begin"}
  PROVE  ListInv'
<1> SUFFICES ASSUME cmd.kind = "list" PROVE ListInv'
  BY DEF ListInv
<1>1. start \subseteq {g \in maps' : stage'[g] = 3}
  BY DEF ListInv
<1>2. Wanted' = Wanted /\ (Begun' => Begun)
  BY DEF Wanted, Begun
<1>3. ppc' = "group" /\ Perm[Head(rows)] = "deny" => Head(rows) \in maps' /\ stage'[Head(rows)] = 2
  BY DEF ListInv
<1>4. ppc' = "give" => Perm[Head(rows)] # "deny"
  BY DEF ListInv
<1> QED BY <1>1, <1>2, <1>3, <1>4 DEF ListInv
-----------------------------------------------------------------------------
(* The rest of the node. *)

LEMMA RegistryStep ==
  ASSUME ReaderInv, UNCHANGED <<store, lister, forwarder, session>>,
         Typed', MapsInv', \A g \in maps : g \in maps' /\ stage'[g] = stage[g]
  PROVE  ReaderInv'
<1>1. IndexInv' /\ PlaceInv' /\ ClosedInv' /\ NilInv'
  BY IndexKept, PlaceKept DEF ReaderInv, NilInv, store, forwarder
<1>2. OverInv'
  <2>1. Flow' = Flow /\ Begun' = Begun
    BY FlowKept DEF Begun, lister
  <2>2. UNCHANGED <<cmd, start, ever, index, fault>> /\ got' = got /\ rows' = rows
    BY DEF session, store, lister
  <2> QED BY <2>1, <2>2, OverKept DEF ReaderInv, OverInv
<1>3. ListInv'
  BY ListKept DEF ReaderInv, session, lister, ListInv
<1> QED BY <1>1, <1>2, <1>3 DEF ReaderInv

LEMMA RegistryTyped ==
  ASSUME Typed, UNCHANGED <<store, lister, forwarder, session>>,
         stage' \in [Group -> 0 .. 3], maps' \subseteq Group,
         making' \in Group \union {None}, writing' \in BOOLEAN,
         IsFiniteSet({g \in Group : stage'[g] # 0})
  PROVE  Typed'
BY DEF Typed, TypeOK, Command, store, lister, forwarder, session

LEMMA NewGroupInv ==
  ASSUME ReaderInv, NEW g \in Group, NewGroup(g)
  PROVE  ReaderInv'
<1>1. /\ making = None /\ stage[g] = 0 /\ stage' = [stage EXCEPT ![g] = 1] /\ making' = g
      /\ UNCHANGED <<store, maps, writing, lister, forwarder, session>>
  BY DEF NewGroup, Idle
<1>2. stage \in [Group -> 0 .. 3] /\ maps \subseteq Group /\ writing \in BOOLEAN
  BY DEF ReaderInv, Typed, TypeOK
<1>3. g \notin maps /\ writing = FALSE
  BY <1>1, <1>2 DEF ReaderInv, MapsInv
<1>4. /\ stage' \in [Group -> 0 .. 3] /\ stage'[g] = 1
      /\ \A h \in Group : h # g => stage'[h] = stage[h]
  BY <1>1, <1>2
<1>5. IsFiniteSet({h \in Group : stage'[h] # 0})
  <2>1. {h \in Group : stage'[h] # 0} = {h \in Group : stage[h] # 0} \union {g}
    BY <1>4
  <2> DEFINE old == {h \in Group : stage[h] # 0}
  <2>2. IsFiniteSet(old)
    BY DEF ReaderInv, Typed
  <2> HIDE DEF old
  <2>3. IsFiniteSet(old \union {g})
    BY <2>2, FS_AddElement
  <2> QED BY <2>1, <2>3 DEF old
<1>6. Typed'
  BY <1>1, <1>2, <1>4, <1>5, RegistryTyped DEF ReaderInv
<1>7. MapsInv'
  BY <1>1, <1>2, <1>3, <1>4 DEF ReaderInv, MapsInv
<1>8. \A h \in maps : h \in maps' /\ stage'[h] = stage[h]
  BY <1>1, <1>2, <1>3, <1>4
<1> QED BY <1>1, <1>6, <1>7, <1>8, RegistryStep

LEMMA StatementInv ==
  ASSUME ReaderInv, Statement
  PROVE  ReaderInv'
<1>1. /\ making # None /\ stage[making] < 3 /\ stage' = [stage EXCEPT ![making] = stage[making] + 1]
      /\ UNCHANGED <<store, maps, making, writing, lister, forwarder, session>>
  BY DEF Statement
<1>2. stage \in [Group -> 0 .. 3] /\ maps \subseteq Group /\ writing \in BOOLEAN /\ making \in Group
  BY <1>1 DEF ReaderInv, Typed, TypeOK
<1>3. making \notin maps /\ writing = FALSE /\ stage[making] # 0
  BY <1>1, <1>2 DEF ReaderInv, MapsInv
<1>4. /\ stage' \in [Group -> 0 .. 3] /\ stage'[making] # 0
      /\ \A h \in Group : h # making => stage'[h] = stage[h]
  BY <1>1, <1>2, <1>3
<1>5. IsFiniteSet({h \in Group : stage'[h] # 0})
  <2>1. {h \in Group : stage'[h] # 0} = {h \in Group : stage[h] # 0}
    BY <1>3, <1>4
  <2> QED BY <2>1 DEF ReaderInv, Typed
<1>6. Typed'
  BY <1>1, <1>2, <1>4, <1>5, RegistryTyped DEF ReaderInv
<1>7. MapsInv'
  BY <1>1, <1>2, <1>3, <1>4 DEF ReaderInv, MapsInv
<1>8. \A h \in maps : h \in maps' /\ stage'[h] = stage[h]
  BY <1>1, <1>2, <1>3, <1>4
<1> QED BY <1>1, <1>6, <1>7, <1>8, RegistryStep

LEMMA MakerInv ==
  ASSUME ReaderInv, StatementFails \/ BeginMaps \/ EndMaps
  PROVE  ReaderInv'
<1>1. /\ UNCHANGED <<store, stage, lister, forwarder, session>>
      /\ making' = making \/ making' = None
      /\ maps' = maps \/ (writing /\ maps' = maps \union {making})
      /\ writing' \in {writing, TRUE, FALSE}
  BY DEF StatementFails, BeginMaps, EndMaps
<1>2. /\ stage \in [Group -> 0 .. 3] /\ maps \subseteq Group /\ writing \in BOOLEAN
      /\ making \in Group \union {None}
  BY DEF ReaderInv, Typed, TypeOK
<1>3. Typed'
  <2>1. IsFiniteSet({h \in Group : stage'[h] # 0})
    BY <1>1 DEF ReaderInv, Typed
  <2>2. maps' \subseteq Group
    BY <1>1, <1>2 DEF ReaderInv, MapsInv
  <2>3. making' \in Group \union {None} /\ writing' \in BOOLEAN /\ stage' \in [Group -> 0 .. 3]
    BY <1>1, <1>2
  <2> QED BY <1>1, <2>1, <2>2, <2>3, RegistryTyped DEF ReaderInv
<1>4. MapsInv'
  BY <1>2 DEF ReaderInv, MapsInv, StatementFails, BeginMaps, EndMaps
<1>5. \A h \in maps : h \in maps' /\ stage'[h] = stage[h]
  BY <1>1
<1> QED BY <1>1, <1>3, <1>4, <1>5, RegistryStep

(* What is left of a command that ends, or of a process that dies. *)
LEMMA ResetInv ==
  ASSUME ReaderInv, Reply, UNCHANGED <<index, ever, files>>, removing' \in {0, removing},
         Typed', MapsInv'
  PROVE  ReaderInv'
<1>1. /\ pc' = "idle" /\ cmd' = NoCmd /\ got' = <<>> /\ ppc' = "off" /\ rows' = <<>> /\ chan' = <<>>
      /\ closed' = FALSE /\ fpc' = "off" /\ cur' = 0 /\ out' = <<>> /\ outClosed' = FALSE
      /\ fault' = "none" /\ nils' = {}
  BY DEF Reply, Cleared
<1>2. IndexInv'
  BY IndexKept DEF ReaderInv
<1>3. cmd'.kind = "none"
  BY <1>1 DEF NoCmd
<1>4. OverInv' /\ ListInv'
  BY <1>3 DEF OverInv, ListInv
<1>5. ClosedInv' /\ NilInv'
  BY <1>1 DEF ClosedInv, NilInv
<1>6. PlaceInv'
  BY <1>1, <1>3 DEF PlaceInv, Quiet
<1> QED BY <1>2, <1>4, <1>5, <1>6 DEF ReaderInv

LEMMA ResetTyped ==
  ASSUME Typed, Reply, UNCHANGED <<index, ever, files, stage>>, removing' \in {0, removing},
         maps' \subseteq Group, making' \in Group \union {None}, writing' \in BOOLEAN
  PROVE  Typed'
<1>1. /\ pc' = "idle" /\ cmd' = NoCmd /\ got' = <<>> /\ ppc' = "off" /\ rows' = <<>> /\ chan' = <<>>
      /\ closed' = FALSE /\ fpc' = "off" /\ cur' = 0 /\ out' = <<>> /\ outClosed' = FALSE
      /\ fault' = "none" /\ nils' = {}
  BY DEF Reply, Cleared
<1>2. NoCmd \in Command /\ NoCmd.kind = "none"
  BY DEF NoCmd, Command
<1>3. Len(<<>>) = 0 /\ <<>> \in Seq(Num) /\ 0 <= ChanCap
  BY EmptySeq, ReaderAssumption
<1> QED BY <1>1, <1>2, <1>3 DEF Typed, TypeOK

LEMMA DieInv ==
  ASSUME ReaderInv, Die
  PROVE  ReaderInv'
<1>1. /\ removing' = 0 /\ maps' = {g \in Group : stage[g] # 0} /\ making' = None /\ writing' = FALSE
      /\ Reply /\ UNCHANGED <<index, ever, files, stage>>
  BY DEF Die, Reply
<1>2. Typed'
  BY <1>1, ResetTyped DEF ReaderInv
<1>3. MapsInv'
  BY <1>1 DEF MapsInv
<1> QED BY <1>1, <1>2, <1>3, ResetInv

LEMMA ReplyInv ==
  ASSUME ReaderInv, Reply, UNCHANGED <<store, registry>>
  PROVE  ReaderInv'
<1>1. UNCHANGED <<index, ever, files, stage>> /\ removing' \in {0, removing}
  BY DEF store, registry
<1>2. Typed'
  <2>1. maps' \subseteq Group /\ making' \in Group \union {None} /\ writing' \in BOOLEAN
    BY DEF ReaderInv, Typed, TypeOK, registry
  <2> QED BY <1>1, <2>1, ResetTyped DEF ReaderInv
<1>3. MapsInv'
  BY MapsKept DEF ReaderInv
<1> QED BY <1>1, <1>2, <1>3, ResetInv

LEMMA StoreStep ==
  ASSUME ReaderInv, UNCHANGED <<registry, lister, forwarder, session>>,
         index' \in Seq(Num), ever' \in Seq(Num), IsInjective(ever'),
         files' \subseteq Num, removing' \in {0} \union Num,
         InOrder(index', ever'),
         \A r : InOrder(r, ever) => InOrder(r, ever'),
         \A n \in ToSet(ever) : n \in ToSet(index') => n \in ToSet(index),
         files' \intersect ToSet(ever) \subseteq files
  PROVE  ReaderInv'
<1>1. Typed'
  BY DEF ReaderInv, Typed, TypeOK, Command, registry, lister, forwarder, session
<1>2. MapsInv' /\ PlaceInv' /\ ClosedInv'
  BY MapsKept, PlaceKept DEF ReaderInv
<1>3. IndexInv'
  BY DEF IndexInv
<1>4. ListInv'
  BY ListKept DEF ReaderInv, session, lister, registry, ListInv
<1>5. OverInv'
  <2> SUFFICES ASSUME cmd'.kind = "over" PROVE OverInv'
    BY DEF OverInv
  <2>1. Flow' = Flow /\ Begun' = Begun
    BY FlowKept DEF Begun, lister
  <2>2. cmd' = cmd /\ start' = start /\ got' = got /\ rows' = rows
    BY DEF session, lister
  <2>3. start \in Seq(Num) /\ ToSet(start) \subseteq ToSet(ever) /\ got \in Seq(Num) /\ rows \in Seq(Num)
    BY <2>2 DEF ReaderInv, OverInv
  <2>4. ToSet(ever) \subseteq ToSet(ever')
    <3>1. InOrder(ever, ever')
      BY InOrderSelf DEF ReaderInv, Typed, TypeOK
    <3> QED BY <3>1 DEF InOrder
  <2>5. ASSUME Begun
        PROVE  /\ InOrder(Flow, ever')
               /\ \A n \in ToSet(Flow) : Within(n)
               /\ fault = "none" =>
                     {n \in ToSet(start) \intersect ToSet(index') : Within(n)} \subseteq ToSet(Flow)
    BY <2>2, <2>3, <2>5 DEF ReaderInv, OverInv, Still
  <2>6. Begun' => (InOrder(Flow, ever))'
    BY <2>1, <2>5
  <2>7. Begun' => (\A n \in ToSet(Flow) : Within(n))'
    BY <2>1, <2>2, <2>5 DEF Within
  <2>8. Begun' => (fault = "none" => Still \subseteq ToSet(Flow))'
    BY <2>1, <2>2, <2>5 DEF Within, Still, lister
  <2> QED BY <2>2, <2>3, <2>4, <2>6, <2>7, <2>8 DEF OverInv
<1>6. NilInv'
  <2>1. ToSet(ever) \subseteq ToSet(ever')
    <3>1. InOrder(ever, ever')
      BY InOrderSelf DEF ReaderInv, Typed, TypeOK
    <3> QED BY <3>1 DEF InOrder
  <2> QED BY <2>1 DEF ReaderInv, NilInv, forwarder
<1> QED BY <1>1, <1>2, <1>3, <1>4, <1>5, <1>6 DEF ReaderInv

LEMMA AddArticleInv ==
  ASSUME ReaderInv, NEW n \in Num, AddArticle(n)
  PROVE  ReaderInv'
<1>1. /\ n \notin ToSet(ever) /\ index' = Append(index, n) /\ ever' = Append(ever, n)
      /\ files' = files \union {n} /\ removing' = removing
      /\ UNCHANGED <<registry, lister, forwarder, session>>
  BY DEF AddArticle
<1>2. /\ index \in Seq(Num) /\ ever \in Seq(Num) /\ IsInjective(ever) /\ files \subseteq Num
      /\ removing \in {0} \union Num /\ InOrder(index, ever)
  BY DEF ReaderInv, Typed, TypeOK, IndexInv
<1>3. /\ index' \in Seq(Num) /\ ToSet(index') = ToSet(index) \union {n}
      /\ ever' \in Seq(Num) /\ IsInjective(ever')
  BY <1>1, <1>2, AppendEntries
<1>4. InOrder(index', ever')
  BY <1>1, <1>2, InOrderBoth
<1>5. \A r : InOrder(r, ever) => InOrder(r, ever')
  BY <1>1, <1>2, InOrderGrows
<1>6. \A m \in ToSet(ever) : m \in ToSet(index') => m \in ToSet(index)
  BY <1>1, <1>3
<1>7. files' \subseteq Num /\ removing' \in {0} \union Num /\ files' \intersect ToSet(ever) \subseteq files
  BY <1>1, <1>2
<1> QED BY <1>1, <1>3, <1>4, <1>5, <1>6, <1>7, StoreStep

LEMMA DelistInv ==
  ASSUME ReaderInv, NEW n \in Num, Delist(n)
  PROVE  ReaderInv'
<1>1. /\ index' = Selected(index, Num \ {n}) /\ removing' = n
      /\ UNCHANGED <<ever, files, registry, lister, forwarder, session>>
  BY DEF Delist
<1>2. /\ index \in Seq(Num) /\ ever \in Seq(Num) /\ IsInjective(ever) /\ files \subseteq Num
      /\ InOrder(index, ever)
  BY DEF ReaderInv, Typed, TypeOK, IndexInv
<1>3. index' \in Seq(Num) /\ ToSet(index') \subseteq ToSet(index) /\ InOrder(index', index)
  BY <1>1, <1>2, SelectedFacts
<1>4. InOrder(index', ever)
  BY <1>2, <1>3, InOrderTransitive
<1> QED BY <1>1, <1>2, <1>3, <1>4, StoreStep

LEMMA RemoveFileInv ==
  ASSUME ReaderInv, RemoveFile \/ \E n \in Num : LoseFile(n)
  PROVE  ReaderInv'
<1>1. /\ files' \subseteq files /\ removing' \in {0, removing}
      /\ UNCHANGED <<index, ever, registry, lister, forwarder, session>>
  BY DEF RemoveFile, LoseFile
<1>2. /\ index \in Seq(Num) /\ ever \in Seq(Num) /\ IsInjective(ever) /\ files \subseteq Num
      /\ InOrder(index, ever) /\ removing \in {0} \union Num
  BY DEF ReaderInv, Typed, TypeOK, IndexInv
<1> QED BY <1>1, <1>2, StoreStep
-----------------------------------------------------------------------------
(* The session. *)

(* Steps of a command leave the store and the registry alone. *)
LEMMA CommandStep ==
  ASSUME ReaderInv, UNCHANGED <<store, registry>>,
         cmd' \in Command, pc' \in {"idle", "perms", "query", "receive"},
         ppc' \in {"off", "begin", "next", "perms", "group", "give", "left"},
         chan' \in Seq(Num), out' \in Seq(Num),
         Len(chan') <= ChanCap, Len(out') <= ChanCap,
         closed' \in BOOLEAN, outClosed' \in BOOLEAN,
         fpc' \in {"off", "receive", "perms", "fetch", "send", "left"},
         cur' \in {0} \union Num,
         fault' \in {"none", "query", "cut", "scan"},
         nils' = nils \/ nils' \subseteq ToSet(ever) \ files,
         PlaceInv', ClosedInv', OverInv', ListInv'
  PROVE  ReaderInv'
<1>0. NilInv' /\ nils' \subseteq Num
  <2>1. nils' \subseteq ToSet(ever) \ files
    BY DEF ReaderInv, NilInv
  <2>2. ToSet(ever) \subseteq Num
    BY Entries DEF ReaderInv, Typed, TypeOK
  <2> QED BY <2>1, <2>2 DEF NilInv, store
<1>1. Typed'
  BY <1>0 DEF ReaderInv, Typed, TypeOK, Command, store, registry
<1>2. MapsInv' /\ IndexInv'
  BY MapsKept, IndexKept DEF ReaderInv, store
<1> QED BY <1>0, <1>1, <1>2 DEF ReaderInv

LEMMA Types ==
  ASSUME ReaderInv
  PROVE  /\ cmd \in Command /\ pc \in {"idle", "perms", "query", "receive"}
         /\ ppc \in {"off", "begin", "next", "perms", "group", "give", "left"}
         /\ chan \in Seq(Num) /\ out \in Seq(Num)
         /\ Len(chan) <= ChanCap /\ Len(out) <= ChanCap
         /\ closed \in BOOLEAN /\ outClosed \in BOOLEAN
         /\ fpc \in {"off", "receive", "perms", "fetch", "send", "left"}
         /\ cur \in {0} \union Num
         /\ fault \in {"none", "query", "cut", "scan"}
BY DEF ReaderInv, Typed, TypeOK

LEMMA AskOverInv ==
  ASSUME ReaderInv, NEW p \in {"read", "deny", "nil"}, NEW f \in Num, NEW t \in Num, AskOver(p, f, t)
  PROVE  ReaderInv'
<1>1. /\ pc = "idle" /\ cmd' = [kind |-> "over", perm |-> p, from |-> f, to |-> t]
      /\ pc' = "perms" /\ start' = index
      /\ UNCHANGED <<store, registry, lister, forwarder, got>>
  BY DEF AskOver
<1>2. cmd' \in Command /\ cmd'.kind = "over" /\ cmd'.from \in Num /\ cmd'.to \in Num
  BY <1>1 DEF Command
<1>3. Quiet
  BY <1>1 DEF ReaderInv, PlaceInv
<1>4. PlaceInv' /\ ClosedInv'
  BY <1>1, <1>2, <1>3 DEF Quiet, PlaceInv, ClosedInv, lister, forwarder
<1>5. OverInv'
  <2>1. index \in Seq(Num) /\ ToSet(index) \subseteq ToSet(ever)
    BY DEF ReaderInv, Typed, TypeOK, IndexInv, InOrder
  <2>2. ~Begun'
    BY <1>1, <1>3 DEF Begun, Quiet, lister
  <2>3. got' \in Seq(Num) /\ rows' \in Seq(Num)
    BY <1>1, <1>3, EmptySeq DEF Quiet, lister
  <2> QED BY <1>1, <2>1, <2>2, <2>3 DEF OverInv, store
<1>6. ListInv'
  BY <1>2 DEF ListInv
<1> QED BY <1>1, <1>2, <1>4, <1>5, <1>6, Types, CommandStep DEF lister, forwarder

LEMMA AskListInv ==
  ASSUME ReaderInv, AskList
  PROVE  ReaderInv'
<1>1. /\ pc = "idle" /\ cmd' = [NoCmd EXCEPT !.kind = "list"]
      /\ pc' = "receive" /\ ppc' = "begin" /\ start' = {g \in maps : stage[g] = 3}
      /\ UNCHANGED <<store, registry, rows, chan, closed, fault, forwarder, got>>
  BY DEF AskList
<1>2. cmd' \in Command /\ cmd'.kind = "list"
  BY <1>1 DEF Command, NoCmd
<1>3. Quiet
  BY <1>1 DEF ReaderInv, PlaceInv
<1>4. PlaceInv' /\ ClosedInv'
  BY <1>1, <1>2, <1>3 DEF Quiet, PlaceInv, ClosedInv, forwarder
<1>5. OverInv'
  BY <1>2 DEF OverInv
<1>6. ListInv'
  <2>1. got' = <<>> /\ rows' = <<>>
    BY <1>1, <1>3 DEF Quiet
  <2>2. start' \subseteq {g \in maps' : stage'[g] = 3}
    BY <1>1 DEF registry
  <2>3. ~Begun'
    BY <1>1 DEF Begun
  <2> QED BY <1>1, <2>1, <2>2, <2>3, NoEntries DEF ListInv
<1> QED BY <1>1, <1>2, <1>4, <1>5, <1>6, Types, CommandStep DEF forwarder

LEMMA GetPermsInv ==
  ASSUME ReaderInv, GetPerms
  PROVE  ReaderInv'
<1>1. CASE Reply
  BY <1>1, ReplyInv DEF GetPerms
<1>2. CASE ~Reply
  <2>1. /\ pc = "perms" /\ pc' = "query"
        /\ UNCHANGED <<cmd, got, start, lister, forwarder, store, registry>>
    BY <1>2 DEF GetPerms
  <2>2. PlaceInv' /\ ClosedInv'
    BY <2>1 DEF ReaderInv, PlaceInv, ClosedInv, Quiet, lister, forwarder
  <2>3. OverInv'
    <3>1. Flow' = Flow /\ Begun' = Begun
      BY <2>1 DEF Flow, Begun, lister, forwarder
    <3>2. OverInv /\ UNCHANGED <<cmd, start, ever, index, got, rows, fault>>
      BY <2>1 DEF ReaderInv, store, lister
    <3> QED BY <3>1, <3>2, OverKept DEF OverInv
  <2>4. ListInv'
    <3>1. cmd'.kind # "list"
      BY <2>1 DEF ReaderInv, PlaceInv
    <3> QED BY <3>1 DEF ListInv
  <2> QED BY <2>1, <2>2, <2>3, <2>4, Types, CommandStep DEF lister, forwarder
<1> QED BY <1>1, <1>2

LEMMA ListArticlesInv ==
  ASSUME ReaderInv, ListArticles
  PROVE  ReaderInv'
<1>1. /\ pc = "query" /\ pc' = "receive" /\ ppc' = "begin" /\ fpc' = "receive"
      /\ UNCHANGED <<store, registry, rows, chan, closed, fault, cur, out, outClosed, nils,
                     cmd, got, start>>
  BY DEF ListArticles
<1>2. cmd.kind = "over" /\ Quiet
  BY <1>1 DEF ReaderInv, PlaceInv
<1>3. PlaceInv' /\ ClosedInv'
  BY <1>1, <1>2 DEF ReaderInv, Quiet, PlaceInv, ClosedInv
<1>4. OverInv'
  BY <1>1, <1>2 DEF ReaderInv, OverInv, Begun, store
<1>5. ListInv'
  BY <1>1, <1>2 DEF ListInv
<1> QED BY <1>1, <1>3, <1>4, <1>5, Types, CommandStep

LEMMA QueryFailsInv ==
  ASSUME ReaderInv, QueryFails
  PROVE  ReaderInv'
<1>1. /\ pc = "query" /\ pc' = "receive" /\ ppc' = "left" /\ fpc' = "receive" /\ fault' = "query"
      /\ UNCHANGED <<store, registry, rows, chan, closed, cur, out, outClosed, nils, cmd, got, start>>
  BY DEF QueryFails
<1>2. cmd.kind = "over" /\ Quiet
  BY <1>1 DEF ReaderInv, PlaceInv
<1>3. PlaceInv' /\ ClosedInv'
  BY <1>1, <1>2 DEF ReaderInv, Quiet, PlaceInv, ClosedInv
<1>4. OverInv'
  <2>1. got' = <<>> /\ chan' = <<>> /\ One(cur') = <<>> /\ out' = <<>> /\ rows' = <<>>
    BY <1>1, <1>2, OneType DEF Quiet
  <2>2. Flow' = <<>>
    BY <2>1, NoEntries, FiveAtStart DEF Flow
  <2>3. InOrder(<<>>, ever) /\ ToSet(<<>>) = {}
    BY NoEntries, InOrderSelf DEF ReaderInv, Typed, TypeOK
  <2>4. (InOrder(Flow, ever))' /\ (\A n \in ToSet(Flow) : Within(n))'
    BY <1>1, <2>2, <2>3 DEF store
  <2> QED BY <1>1, <1>2, <2>4 DEF ReaderInv, OverInv, store
<1>5. ListInv'
  BY <1>1, <1>2 DEF ListInv
<1> QED BY <1>1, <1>3, <1>4, <1>5, Types, CommandStep

LEMMA EndReplyInv ==
  ASSUME ReaderInv, EndReply
  PROVE  ReaderInv'
BY ReplyInv DEF EndReply

(* All the parts of a range that is under way. *)
LEMMA OverParts ==
  ASSUME ReaderInv, cmd.kind = "over"
  PROVE  /\ got \in Seq(Num) /\ out \in Seq(Num) /\ One(cur) \in Seq(Num)
         /\ chan \in Seq(Num) /\ rows \in Seq(Num) /\ 0 \notin Num
<1>1. cur \in {0} \union Num
  BY Types
<1>2. One(cur) \in Seq(Num)
  BY <1>1, OneType
<1> QED BY <1>2, Types DEF ReaderInv, OverInv, Num

LEMMA ReceiveArticleInv ==
  ASSUME ReaderInv, ReceiveArticle
  PROVE  ReaderInv'
<1>1. /\ pc = "receive" /\ out # <<>> /\ got' = Append(got, Head(out)) /\ out' = Tail(out)
      /\ UNCHANGED <<store, registry, lister, fpc, cur, outClosed, nils, cmd, pc, start>>
  BY DEF ReceiveArticle
<1>2. cmd.kind = "over" /\ ppc # "begin"
  BY <1>1, Types DEF ReaderInv, PlaceInv, Command
<1>3. out' \in Seq(Num) /\ Len(out') <= ChanCap /\ Head(out) \in Num
  <2>1. out \in Seq(Num) /\ Len(out) <= ChanCap /\ Len(out) \in Nat /\ ChanCap \in Nat
    BY Types, LenProperties, ReaderAssumption
  <2>2. Head(out) \in Num /\ Tail(out) \in Seq(Num) /\ Len(Tail(out)) = Len(out) - 1
    BY <1>1, <2>1, HeadTailProperties
  <2> QED BY <1>1, <2>1, <2>2
<1>4. PlaceInv' /\ ClosedInv'
  BY <1>1, <1>2 DEF ReaderInv, PlaceInv, ClosedInv, Quiet, lister
<1>5. OverInv'
  <2>1. got' \in Seq(Num)
    BY <1>1, <1>2, <1>3, OverParts, AppendEntries
  <2>2. Flow' = Flow
    BY <1>1, <1>2, OverParts, Moves DEF Flow, lister
  <2>3. rows' \in Seq(Num) /\ Begun' = Begun /\ fault' = fault
    BY <1>1, <1>2, OverParts DEF Begun, lister
  <2> QED BY <1>1, <2>1, <2>2, <2>3, OverKept DEF ReaderInv, store
<1>6. ListInv'
  BY <1>1, <1>2 DEF ListInv
<1> QED BY <1>1, <1>3, <1>4, <1>5, <1>6, Types, CommandStep DEF lister
-----------------------------------------------------------------------------
(* The goroutine of listArticles, and the forwarder. *)

LEMMA RangeMeaning ==
  ASSUME NEW n \in Num, cmd.from \in Num, cmd.to \in Num
  PROVE  n \in RangeOf(cmd) <=> Within(n)
<1>1. cmd.from \in Nat /\ cmd.to \in Nat /\ n \in Nat
  BY ReaderAssumption DEF Num
<1>2. CASE cmd.from > cmd.to
  BY <1>1, <1>2 DEF RangeOf, Within
<1>3. CASE ~(cmd.from > cmd.to)
  BY <1>1, <1>3 DEF RangeOf, Within
<1> QED BY <1>2, <1>3

LEMMA BeginRowsInv ==
  ASSUME ReaderInv, BeginRows
  PROVE  ReaderInv'
<1>1. /\ ppc = "begin" /\ cmd.kind = "over" /\ rows' = Selected(index, RangeOf(cmd)) /\ ppc' = "next"
      /\ UNCHANGED <<store, registry, chan, closed, fault, forwarder, session>>
  BY DEF BeginRows
<1>2. /\ got = <<>> /\ chan = <<>> /\ cur = 0 /\ out = <<>>
      /\ pc = "receive" /\ cmd.from \in Num /\ cmd.to \in Num
  BY <1>1, Types DEF ReaderInv, PlaceInv, Quiet
<1>3. /\ index \in Seq(Num) /\ InOrder(index, ever)
  BY DEF ReaderInv, Typed, TypeOK, IndexInv
<1>4. /\ rows' \in Seq(Num) /\ ToSet(rows') = ToSet(index) \intersect RangeOf(cmd)
      /\ InOrder(rows', index)
  BY <1>1, <1>3, SelectedFacts
<1>5. InOrder(rows', ever)
  BY <1>3, <1>4, InOrderTransitive
<1>6. \A n \in ToSet(index) : n \in ToSet(rows') <=> Within(n)
  <2>1. ToSet(index) \subseteq Num
    BY <1>3, Entries
  <2> QED BY <2>1, <1>2, <1>4, RangeMeaning
<1>7. Flow' = rows'
  <2>1. got' = <<>> /\ chan' = <<>> /\ One(cur') = <<>> /\ out' = <<>>
    BY <1>1, <1>2, OneType DEF session, forwarder
  <2> QED BY <2>1, <1>4, FiveAtStart DEF Flow
<1>8. PlaceInv' /\ ClosedInv'
  BY <1>1, <1>2 DEF ReaderInv, PlaceInv, ClosedInv, Quiet, forwarder, session
<1>9. OverInv'
  <2>1. UNCHANGED <<index, ever, start, cmd, got>>
    BY <1>1 DEF store, session
  <2>2. /\ start \in Seq(Num) /\ ToSet(start) \subseteq ToSet(ever) /\ got \in Seq(Num)
    BY <1>1 DEF ReaderInv, OverInv
  <2>3. (InOrder(Flow, ever))'
    BY <1>5, <1>7, <2>1
  <2>4. (\A n \in ToSet(Flow) : Within(n))'
    BY <1>4, <1>6, <1>7, <2>1 DEF Within
  <2>5. (fault = "none" => Still \subseteq ToSet(Flow))'
    BY <1>6, <1>7, <2>1 DEF Within, Still
  <2> QED BY <1>4, <2>1, <2>2, <2>3, <2>4, <2>5 DEF OverInv
<1>10. ListInv'
  BY <1>1 DEF ListInv, session
<1> QED BY <1>1, <1>8, <1>9, <1>10, Types, CommandStep DEF forwarder, session

LEMMA SendNumberInv ==
  ASSUME ReaderInv, SendNumber
  PROVE  ReaderInv'
<1>1. /\ ppc = "next" /\ cmd.kind = "over" /\ rows # <<>> /\ Len(chan) < ChanCap
      /\ chan' = Append(chan, Head(rows)) /\ rows' = Tail(rows)
      /\ UNCHANGED <<store, registry, ppc, closed, fault, forwarder, session>>
  BY DEF SendNumber
<1>2. pc = "receive"
  BY <1>1, Types DEF ReaderInv, PlaceInv, Quiet
<1>3. Head(rows) \in Num /\ rows' \in Seq(Num) /\ chan' \in Seq(Num) /\ Len(chan') <= ChanCap
  <2>1. Head(rows) \in Num /\ Tail(rows) \in Seq(Num)
    BY <1>1, OverParts, TailEntries
  <2>2. chan \in Seq(Num) /\ Len(chan) \in Nat /\ ChanCap \in Nat
    BY Types, LenProperties, ReaderAssumption
  <2>3. chan' \in Seq(Num) /\ Len(chan') = Len(chan) + 1
    BY <1>1, <2>1, <2>2, AppendProperties
  <2> QED BY <1>1, <2>1, <2>2, <2>3
<1>4. ~closed
  BY <1>1, Types DEF ReaderInv, ClosedInv
<1>5. PlaceInv' /\ ClosedInv'
  BY <1>1, <1>2, <1>4 DEF ReaderInv, PlaceInv, ClosedInv, Quiet, forwarder, session
<1>6. OverInv'
  <2>1. Flow' = Flow
    BY <1>1, OverParts, Moves DEF Flow, forwarder, session
  <2>2. got' \in Seq(Num) /\ Begun' = Begun /\ UNCHANGED <<cmd, start, ever, index, fault>>
    BY <1>1, OverParts DEF Begun, session, store, lister
  <2> QED BY <1>3, <2>1, <2>2, OverKept DEF ReaderInv
<1>7. ListInv'
  BY <1>1 DEF ListInv, session
<1> QED BY <1>1, <1>3, <1>5, <1>6, <1>7, Types, CommandStep DEF forwarder, session

LEMMA EndRowsInv ==
  ASSUME ReaderInv, EndRows
  PROVE  ReaderInv'
<1>1. /\ ppc = "next" /\ rows = <<>> /\ closed' = TRUE /\ ppc' = "left"
      /\ UNCHANGED <<store, registry, rows, chan, fault, forwarder, session>>
  BY DEF EndRows
<1>2. pc = "receive"
  BY <1>1, Types DEF ReaderInv, PlaceInv, Quiet
<1>3. PlaceInv' /\ ClosedInv'
  BY <1>1, <1>2 DEF ReaderInv, PlaceInv, ClosedInv, Quiet, forwarder, session
<1>4. OverInv'
  <2>1. Flow' = Flow /\ Begun
    BY <1>1 DEF Flow, Begun, forwarder, session
  <2>2. UNCHANGED <<cmd, start, ever, index, got, rows, fault>>
    BY <1>1 DEF session, store
  <2>3. cmd.kind = "over" => got' \in Seq(Num) /\ rows' \in Seq(Num)
    BY <2>2 DEF ReaderInv, OverInv
  <2> QED BY <2>1, <2>2, <2>3, OverKept DEF ReaderInv
<1>5. ListInv'
  <2>1. UNCHANGED <<cmd, start, got, rows, maps, stage>>
    BY <1>1 DEF session, registry
  <2> QED BY <2>1, <1>1, ListKept DEF ReaderInv
<1> QED BY <1>1, <1>3, <1>4, <1>5, Types, CommandStep DEF forwarder, session

(* What is under way when the rows end early is still in order. *)
LEMMA RowsFailInv ==
  ASSUME ReaderInv, RowsFail
  PROVE  ReaderInv'
<1>1. /\ ppc = "next" /\ rows # <<>> /\ rows' = <<>> /\ fault' = "cut"
      /\ UNCHANGED <<store, registry, ppc, chan, closed, forwarder, session>>
  BY DEF RowsFail
<1>2. pc = "receive" /\ ~closed
  BY <1>1, Types DEF ReaderInv, PlaceInv, ClosedInv, Quiet
<1>3. PlaceInv' /\ ClosedInv'
  BY <1>1, <1>2 DEF ReaderInv, PlaceInv, ClosedInv, Quiet, forwarder, session
<1>4. OverInv'
  <2> SUFFICES ASSUME cmd.kind = "over" PROVE OverInv'
    BY <1>1 DEF OverInv, session
  <2> DEFINE p == ((got \o out) \o One(cur)) \o chan
  <2>1. p \in Seq(Num) /\ rows \in Seq(Num)
    BY OverParts, FiveType
  <2>2. p \o <<>> = p
    BY <2>1, ConcatEmptySeq
  <2>3. Flow = p \o rows /\ Flow' = p \o <<>>
    BY <1>1 DEF Flow, Five, forwarder, session
  <2>4. InOrder(p \o rows, ever) /\ \A n \in ToSet(p \o rows) : Within(n)
    BY <1>1, <2>3 DEF ReaderInv, OverInv, Begun
  <2> HIDE DEF p
  <2>5. InOrder(p, ever) /\ ToSet(p) \subseteq ToSet(p \o rows)
    BY <2>1, <2>4, InOrderPart
  <2>6. UNCHANGED <<cmd, start, ever, index, got>>
    BY <1>1 DEF session, store
  <2>7. (InOrder(Flow, ever))' /\ (\A n \in ToSet(Flow) : Within(n))'
    BY <2>2, <2>3, <2>4, <2>5, <2>6 DEF Within
  <2> QED BY <1>1, <2>6, <2>7, NoEntries DEF ReaderInv, OverInv
<1>5. ListInv'
  <2>1. UNCHANGED <<cmd, start, got, maps, stage>>
    BY <1>1 DEF session, registry
  <2> QED BY <1>1, <2>1, NoEntries DEF ReaderInv, ListInv
<1> QED BY <1>1, <1>3, <1>4, <1>5, Types, CommandStep DEF forwarder, session

LEMMA ScanFailsInv ==
  ASSUME ReaderInv, ScanFails
  PROVE  ReaderInv'
<1>1. /\ ppc = "next" /\ cmd.kind = "list" /\ ppc' = "left" /\ fault' = "scan"
      /\ UNCHANGED <<store, registry, rows, chan, closed, forwarder, session>>
  BY DEF ScanFails
<1>2. pc = "receive" /\ ~closed
  BY <1>1, Types DEF ReaderInv, PlaceInv, ClosedInv, Quiet
<1>3. PlaceInv' /\ ClosedInv'
  BY <1>1, <1>2 DEF ReaderInv, PlaceInv, ClosedInv, Quiet, forwarder, session
<1>4. OverInv'
  BY <1>1 DEF OverInv, session
<1>5. ListInv'
  <2>1. UNCHANGED <<cmd, start, got, rows, maps, stage>>
    BY <1>1 DEF session, registry
  <2> QED BY <2>1, <1>1, ListKept DEF ReaderInv
<1> QED BY <1>1, <1>3, <1>4, <1>5, Types, CommandStep DEF forwarder, session

(* A forwarder runs for a range only. *)
LEMMA ForwarderOfRange ==
  ASSUME ReaderInv, fpc # "off"
  PROVE  cmd.kind = "over" /\ pc = "receive"
BY Types DEF ReaderInv, PlaceInv, Quiet, Command

LEMMA ReceiveNumberInv ==
  ASSUME ReaderInv, ReceiveNumber
  PROVE  ReaderInv'
<1>1. /\ fpc = "receive" /\ chan # <<>> /\ cur' = Head(chan) /\ chan' = Tail(chan) /\ fpc' = "perms"
      /\ UNCHANGED <<store, registry, ppc, rows, closed, fault, out, outClosed, nils, session>>
  BY DEF ReceiveNumber
<1>2. cmd.kind = "over" /\ pc = "receive"
  BY <1>1, ForwarderOfRange
<1>3. cur' \in Num /\ chan' \in Seq(Num) /\ Len(chan') <= ChanCap /\ cur' # 0
  <2>1. chan \in Seq(Num) /\ Len(chan) <= ChanCap /\ Len(chan) \in Nat /\ ChanCap \in Nat
    BY Types, LenProperties, ReaderAssumption
  <2>2. Head(chan) \in Num /\ Tail(chan) \in Seq(Num) /\ Len(Tail(chan)) = Len(chan) - 1
    BY <1>1, <2>1, HeadTailProperties
  <2>3. 0 \notin Num
    BY DEF Num
  <2> QED BY <1>1, <2>1, <2>2, <2>3
<1>4. cur = 0 /\ ~outClosed /\ ppc # "begin"
  BY <1>1, Types DEF ReaderInv, ClosedInv, PlaceInv
<1>5. PlaceInv' /\ ClosedInv'
  BY <1>1, <1>2, <1>3, <1>4 DEF ReaderInv, PlaceInv, ClosedInv, Quiet, session
<1>6. OverInv'
  <2>1. Flow' = Flow
    <3>1. Five(got, out, One(Head(chan)), Tail(chan), rows) = Five(got, out, One(0), chan, rows)
      BY <1>1, <1>2, <1>3, OverParts, MovesOfOne
    <3> QED BY <1>1, <1>4, <3>1 DEF Flow, session
  <2>2. /\ got' \in Seq(Num) /\ rows' \in Seq(Num) /\ Begun' = Begun
        /\ UNCHANGED <<cmd, start, ever, index, fault>>
    BY <1>1, <1>2, OverParts DEF Begun, session, store, lister
  <2> QED BY <2>1, <2>2, OverKept DEF ReaderInv
<1>7. ListInv'
  BY <1>1, <1>2 DEF ListInv, session
<1> QED BY <1>1, <1>3, <1>5, <1>6, <1>7, Types, CommandStep DEF session

(* The steps of the forwarder that move nothing. *)
LEMMA ForwarderInv ==
  ASSUME ReaderInv, GetPermsAgain \/ Fetch \/ EndNumbers
  PROVE  ReaderInv'
<1>1. /\ fpc \in {"perms", "fetch", "receive"} /\ fpc' \in {"fetch", "send", "left"}
      /\ outClosed' \in BOOLEAN
      /\ UNCHANGED <<store, registry, lister, cur, out, session>>
      /\ nils' = nils \/ (fpc = "fetch" /\ nils' = nils \union ({cur} \ files))
  BY Types DEF GetPermsAgain, Fetch, EndNumbers
<1>2. cmd.kind = "over" /\ pc = "receive"
  BY <1>1, ForwarderOfRange
<1>3. PlaceInv'
  BY <1>1, <1>2 DEF ReaderInv, PlaceInv, Quiet, lister, session
<1>4. ClosedInv'
  BY DEF ReaderInv, ClosedInv, lister, GetPermsAgain, Fetch, EndNumbers
<1>5. OverInv'
  <2>1. Flow' = Flow /\ Begun' = Begun
    BY <1>1 DEF Flow, Begun, lister, session
  <2>2. got' \in Seq(Num) /\ rows' \in Seq(Num) /\ UNCHANGED <<cmd, start, ever, index, fault>>
    BY <1>1, <1>2, OverParts DEF session, store, lister
  <2> QED BY <2>1, <2>2, OverKept DEF ReaderInv
<1>6. ListInv'
  BY <1>1, <1>2 DEF ListInv, session
<1>7. nils' = nils \/ nils' \subseteq ToSet(ever) \ files
  <2> SUFFICES ASSUME fpc = "fetch" PROVE cur \in ToSet(ever)
    BY <1>1 DEF ReaderInv, NilInv
  <2>1. cur \in Num /\ ppc \notin {"off", "begin"}
    BY <1>2, Types DEF ReaderInv, ClosedInv, PlaceInv
  <2>2. cur \in ToSet(Flow)
    BY <1>2, <2>1, OverParts, OneInFive DEF Flow
  <2> QED BY <1>2, <2>1, <2>2 DEF ReaderInv, OverInv, Begun, InOrder
<1> QED BY <1>1, <1>3, <1>4, <1>5, <1>6, <1>7, Types, CommandStep DEF lister, session

LEMMA SendArticleInv ==
  ASSUME ReaderInv, SendArticle
  PROVE  ReaderInv'
<1>1. /\ fpc = "send" /\ Len(out) < ChanCap /\ out' = Append(out, cur) /\ fpc' = "receive" /\ cur' = 0
      /\ UNCHANGED <<store, registry, lister, outClosed, nils, session>>
  BY DEF SendArticle
<1>2. cmd.kind = "over" /\ pc = "receive"
  BY <1>1, ForwarderOfRange
<1>3. cur \in Num /\ ppc # "begin" /\ ~outClosed
  BY <1>1, Types DEF ReaderInv, ClosedInv, PlaceInv
<1>4. out' \in Seq(Num) /\ Len(out') <= ChanCap
  <2>1. out \in Seq(Num) /\ Len(out) \in Nat /\ ChanCap \in Nat
    BY Types, LenProperties, ReaderAssumption
  <2>2. out' \in Seq(Num) /\ Len(out') = Len(out) + 1
    BY <1>1, <1>3, <2>1, AppendProperties
  <2> QED BY <1>1, <2>1, <2>2
<1>5. PlaceInv' /\ ClosedInv'
  BY <1>1, <1>2, <1>3 DEF ReaderInv, PlaceInv, ClosedInv, Quiet, lister, session
<1>6. OverInv'
  <2>1. Flow' = Flow
    <3>1. Five(got, Append(out, cur), One(0), chan, rows) = Five(got, out, One(cur), chan, rows)
      BY <1>2, <1>3, OverParts, MovesOfOne
    <3> QED BY <1>1, <3>1 DEF Flow, lister, session
  <2>2. /\ got' \in Seq(Num) /\ rows' \in Seq(Num) /\ Begun' = Begun
        /\ UNCHANGED <<cmd, start, ever, index, fault>>
    BY <1>1, <1>2, OverParts DEF Begun, session, store, lister
  <2> QED BY <2>1, <2>2, OverKept DEF ReaderInv
<1>7. ListInv'
  BY <1>1, <1>2 DEF ListInv, session
<1> QED BY <1>1, <1>4, <1>5, <1>6, <1>7, Types, CommandStep DEF lister, session
-----------------------------------------------------------------------------
(* The goroutine of listGroups. *)

(* A list has neither channel nor forwarder. *)
LEMMA ListStep ==
  ASSUME ReaderInv, cmd.kind = "list", pc = "receive", ppc # "off",
         UNCHANGED <<store, registry, chan, closed, fault, forwarder, cmd, pc, start>>,
         ppc' \in {"next", "perms", "group", "give", "left"},
         ppc # "left", ppc' \in {"perms", "group", "give"} => rows' # <<>>,
         ListInv'
  PROVE  ReaderInv'
<1>1. PlaceInv'
  BY DEF ReaderInv, PlaceInv, forwarder
<1>2. ClosedInv'
  BY DEF ReaderInv, ClosedInv, forwarder
<1>3. OverInv'
  BY DEF OverInv
<1> QED BY <1>1, <1>2, <1>3, Types, CommandStep DEF forwarder

LEMMA ListParts ==
  ASSUME ReaderInv, cmd.kind = "list"
  PROVE  /\ start \subseteq {g \in maps : stage[g] = 3} /\ maps \subseteq Group
         /\ got \in Seq(Group) /\ rows \in Seq(Group)
         /\ IsInjective(got) /\ IsInjective(rows)
         /\ \A g \in ToSet(got) : g \notin ToSet(rows) /\ Perm[g] # "deny"
         /\ Begun /\ fault = "none" => Wanted \subseteq ToSet(got) \union ToSet(rows)
BY DEF ReaderInv, ListInv, Typed, TypeOK

LEMMA BeginGroupsInv ==
  ASSUME ReaderInv, BeginGroups
  PROVE  ReaderInv'
<1> DEFINE S == {g \in Group : stage[g] # 0}
<1>1. /\ ppc = "begin" /\ cmd.kind = "list" /\ rows' \in SetToSeqs(S) /\ ppc' = "next"
      /\ UNCHANGED <<store, registry, chan, closed, fault, forwarder, session>>
  BY DEF BeginGroups
<1>2. pc = "receive" /\ got = <<>>
  BY <1>1, Types DEF ReaderInv, PlaceInv, Quiet
<1>3. rows' \in Seq(S) /\ ToSet(rows') = S /\ IsInjective(rows')
  <2>1. IsFiniteSet(S)
    BY DEF ReaderInv, Typed
  <2> HIDE DEF S
  <2> QED BY <1>1, <2>1, Enumerations
<1>4. rows' \in Seq(Group)
  <2>1. S \subseteq Group
    OBVIOUS
  <2> HIDE DEF S
  <2> QED BY <1>3, <2>1, SeqMonotonic
<1>5. start \subseteq S
  BY <1>1, ListParts DEF ReaderInv, MapsInv
<1>6. UNCHANGED <<cmd, pc, got, start, maps, stage>>
  BY <1>1 DEF session, registry
<1>7. ListInv'
  <2>1. Wanted' \subseteq ToSet(rows')
    BY <1>3, <1>5, <1>6 DEF Wanted
  <2>2. ToSet(got') = {} /\ IsInjective(got') /\ got' \in Seq(Group)
    BY <1>2, <1>6, NoEntries
  <2>3. start' \subseteq {g \in maps' : stage'[g] = 3}
    BY <1>1, <1>6, ListParts
  <2> HIDE DEF S
  <2> QED BY <1>1, <1>3, <1>4, <2>1, <2>2, <2>3 DEF ListInv
<1> HIDE DEF S
<1> QED BY <1>1, <1>2, <1>6, <1>7, ListStep

(* The steps that leave the rows: no list holds what is closed to it. *)
LEMMA LookInv ==
  ASSUME ReaderInv,
         NextGroup \/ getGroup \/ (PermsOfGroup /\ ppc' = "group")
  PROVE  ReaderInv'
<1>1. /\ ppc \in {"next", "perms", "group"} /\ ppc' \in {"perms", "group", "give", "left"}
      /\ UNCHANGED <<store, registry, rows, chan, closed, fault, forwarder, session>>
  BY DEF NextGroup, getGroup, PermsOfGroup
<1>2. rows # <<>> /\ cmd.kind = "list" /\ pc = "receive"
  BY <1>1, Types DEF ReaderInv, PlaceInv, Quiet, NextGroup, getGroup, PermsOfGroup, Command
<1>3. UNCHANGED <<cmd, pc, start, got, maps, stage>>
  BY <1>1 DEF session, registry
<1>4. Head(rows) \in Group
  BY <1>2, ListParts, TailEntries
<1>5. ListInv'
  <2>1. fault' = "none" => Wanted' \subseteq ToSet(got') \union ToSet(rows')
    <3>1. Begun
      BY <1>1 DEF Begun
    <3> QED BY <1>1, <1>2, <1>3, <3>1, ListParts DEF Wanted
  <2>2. ppc' = "group" /\ Perm[Head(rows)] = "deny" =>
            Head(rows) \in maps /\ stage[Head(rows)] = 2
    BY <1>1 DEF NextGroup, getGroup, PermsOfGroup, Listable
  <2>3. ppc' = "give" => Perm[Head(rows)] # "deny"
    BY <1>1, <1>2 DEF ReaderInv, ListInv, NextGroup, getGroup, PermsOfGroup
  <2> QED BY <1>1, <1>2, <1>3, <2>1, <2>2, <2>3, ListParts DEF ListInv
<1> QED BY <1>1, <1>2, <1>3, <1>5, ListStep

(* A group that is not listed was not wanted. *)
LEMMA DropInv ==
  ASSUME ReaderInv, PermsOfGroup, ppc' # "group"
  PROVE  ReaderInv'
<1>1. /\ ppc = "perms" /\ ~Listable(Head(rows)) /\ rows' = Tail(rows) /\ ppc' = "next"
      /\ UNCHANGED <<store, registry, chan, closed, fault, forwarder, session>>
  BY DEF PermsOfGroup
<1>2. rows # <<>> /\ cmd.kind = "list" /\ pc = "receive"
  BY <1>1, Types DEF ReaderInv, PlaceInv, Quiet, Command
<1>3. UNCHANGED <<cmd, pc, start, got, maps, stage>>
  BY <1>1 DEF session, registry
<1>4. /\ rows' \in Seq(Group) /\ ToSet(rows) = {Head(rows)} \union ToSet(rows') /\ IsInjective(rows')
  BY <1>1, <1>2, ListParts, TailEntries
<1>5. Head(rows) \notin Wanted
  BY <1>1, <1>2, ListParts DEF Wanted, Listable
<1>6. ListInv'
  <2>1. fault' = "none" => Wanted' \subseteq ToSet(got') \union ToSet(rows')
    <3>1. Begun /\ Wanted' = Wanted /\ fault' = fault
      BY <1>1, <1>3 DEF Begun, Wanted
    <3> QED BY <1>2, <1>3, <1>4, <1>5, <3>1, ListParts
  <2>2. \A g \in ToSet(got') : g \notin ToSet(rows') /\ Perm[g] # "deny"
    BY <1>2, <1>3, <1>4, ListParts
  <2> QED BY <1>1, <1>2, <1>3, <1>4, <2>1, <2>2, ListParts DEF ListInv
<1> QED BY <1>1, <1>2, <1>3, <1>6, ListStep

LEMMA GiveGroupInv ==
  ASSUME ReaderInv, GiveGroup
  PROVE  ReaderInv'
<1>1. /\ ppc = "give" /\ pc = "receive" /\ got' = Append(got, Head(rows)) /\ rows' = Tail(rows)
      /\ ppc' = "next"
      /\ UNCHANGED <<store, registry, chan, closed, fault, forwarder, cmd, pc, start>>
  BY DEF GiveGroup
<1>2. rows # <<>> /\ cmd.kind = "list"
  BY <1>1, Types DEF ReaderInv, PlaceInv, Command
<1>3. UNCHANGED <<maps, stage>>
  BY <1>1 DEF registry
<1>4. /\ rows' \in Seq(Group) /\ ToSet(rows) = {Head(rows)} \union ToSet(rows') /\ IsInjective(rows')
      /\ Head(rows) \in Group /\ Head(rows) \notin ToSet(rows') /\ Head(rows) \in ToSet(rows)
  BY <1>1, <1>2, ListParts, TailEntries
<1>5. Head(rows) \notin ToSet(got) /\ Perm[Head(rows)] # "deny"
  BY <1>1, <1>2, <1>4, ListParts DEF ReaderInv, ListInv
<1>6. got' \in Seq(Group) /\ ToSet(got') = ToSet(got) \union {Head(rows)} /\ IsInjective(got')
  BY <1>1, <1>2, <1>4, <1>5, ListParts, AppendEntries
<1>7. ListInv'
  <2>1. fault' = "none" => Wanted' \subseteq ToSet(got') \union ToSet(rows')
    <3>1. Begun /\ Wanted' = Wanted /\ fault' = fault
      BY <1>1 DEF Begun, Wanted
    <3> QED BY <1>2, <1>4, <1>6, <3>1, ListParts
  <2>2. \A g \in ToSet(got') : g \notin ToSet(rows') /\ Perm[g] # "deny"
    BY <1>2, <1>4, <1>5, <1>6, ListParts
  <2>3. start' \subseteq {g \in maps' : stage'[g] = 3}
    BY <1>1, <1>2, <1>3, ListParts
  <2> QED BY <1>1, <1>2, <1>4, <1>6, <2>1, <2>2, <2>3 DEF ListInv
<1> QED BY <1>1, <1>2, <1>7, ListStep
-----------------------------------------------------------------------------
LEMMA ReaderInit == Init => ReaderInv
<1> SUFFICES ASSUME Init PROVE ReaderInv
  OBVIOUS
<1>1. /\ index = <<>> /\ ever = <<>> /\ files = {} /\ removing = 0
      /\ stage = [g \in Group |-> IF g \in Existing THEN 3 ELSE 0] /\ maps = Existing
      /\ making = None /\ writing = FALSE
      /\ cmd = NoCmd /\ pc = "idle" /\ got = <<>>
      /\ ppc = "off" /\ rows = <<>> /\ chan = <<>> /\ closed = FALSE
      /\ fpc = "off" /\ cur = 0 /\ out = <<>> /\ outClosed = FALSE
      /\ fault = "none" /\ nils = {}
  BY DEF Init
<1>2. NoCmd \in Command /\ NoCmd.kind = "none"
  BY DEF NoCmd, Command
<1>3. Len(<<>>) = 0 /\ <<>> \in Seq(Num) /\ IsInjective(<<>>) /\ 0 <= ChanCap
  BY EmptySeq, NoEntries, ReaderAssumption
<1>4. IsFiniteSet({g \in Group : stage[g] # 0})
  <2>1. {g \in Group : stage[g] # 0} = Existing
    BY <1>1, ReaderAssumption
  <2> QED BY <2>1, ReaderAssumption
<1>5. Typed
  <2>1. stage \in [Group -> 0 .. 3] /\ maps \subseteq Group
    BY <1>1, ReaderAssumption
  <2> QED BY <1>1, <1>2, <1>3, <1>4, <2>1 DEF Typed, TypeOK
<1>6. MapsInv
  BY <1>1, ReaderAssumption DEF MapsInv
<1>7. IndexInv
  BY <1>1, <1>3, InOrderSelf DEF IndexInv
<1>8. PlaceInv /\ ClosedInv /\ NilInv
  BY <1>1, <1>2 DEF PlaceInv, ClosedInv, NilInv, Quiet
<1>9. OverInv /\ ListInv
  BY <1>1, <1>2 DEF OverInv, ListInv
<1> QED BY <1>5, <1>6, <1>7, <1>8, <1>9 DEF ReaderInv

LEMMA ReaderUnchanged ==
  ASSUME ReaderInv, UNCHANGED vars
  PROVE  ReaderInv'
<1>1. UNCHANGED <<store, registry, lister, forwarder, session>>
  BY DEF vars
<1>2. Typed'
  BY <1>1 DEF ReaderInv, Typed, TypeOK, Command, store, registry, lister, forwarder, session
<1>3. MapsInv'
  BY <1>1, MapsKept DEF ReaderInv
<1>4. \A g \in maps : g \in maps' /\ stage'[g] = stage[g]
  BY <1>1 DEF registry
<1> QED BY <1>1, <1>2, <1>3, <1>4, RegistryStep

LEMMA ReaderNext ==
  ASSUME ReaderInv, Next
  PROVE  ReaderInv'
<1>1. CASE Others
  <2>1. CASE Crash
    BY <2>1, DieInv DEF Crash
  <2> QED BY <1>1, <2>1, AddArticleInv, DelistInv, RemoveFileInv, NewGroupInv DEF Others
<1>2. CASE ServerStep
  BY <1>2, RemoveFileInv, StatementInv, MakerInv DEF ServerStep
<1>3. CASE Ask
  BY <1>3, AskListInv, AskOverInv DEF Ask
<1>4. CASE SessionStep
  BY <1>4, GetPermsInv, ListArticlesInv, ReceiveArticleInv, EndReplyInv DEF SessionStep
<1>5. CASE ListerStep
  <2>1. CASE PermsOfGroup
    BY <2>1, LookInv, DropInv
  <2> QED BY <1>5, <2>1, BeginRowsInv, SendNumberInv, EndRowsInv, BeginGroupsInv, LookInv, GiveGroupInv
          DEF ListerStep
<1>6. CASE ForwarderStep
  <2>1. CASE GetPermsPanics
    BY <2>1, DieInv DEF GetPermsPanics
  <2> QED BY <1>6, <2>1, ReceiveNumberInv, ForwarderInv, SendArticleInv DEF ForwarderStep
<1>7. CASE ConcurrentMapAccess
  BY <1>7, DieInv DEF ConcurrentMapAccess
<1>8. CASE SqlFails
  BY <1>8, QueryFailsInv, RowsFailInv, ScanFailsInv DEF SqlFails
<1> QED BY <1>1, <1>2, <1>3, <1>4, <1>5, <1>6, <1>7, <1>8 DEF Next

(* Whatever the other sessions, the maker of groups and the crashes do, what
   is on its way to a session is in the order of the index and, unless its
   rows ended early, complete; a number without an article has lost its file;
   and no channel is closed before what goes through it has been sent. *)
THEOREM ReaderInvariance == Spec => []ReaderInv
<1>1. Init => ReaderInv
  BY ReaderInit
<1>2. ReaderInv /\ [Next]_vars => ReaderInv'
  BY ReaderNext, ReaderUnchanged
<1> QED BY <1>1, <1>2, PTL DEF Spec

(* Every variable of the readers has its type; numbers are inserted once. *)
THEOREM TypeCorrectReader == Spec => []TypeOK
<1>1. ReaderInv => TypeOK
  BY DEF ReaderInv, Typed
<1> QED BY <1>1, ReaderInvariance, PTL

LEMMA EndedRange ==
  ASSUME ReaderInv, Done("over")
  PROVE  RangeIsComplete
<1>1. cmd.kind = "over" /\ pc = "receive" /\ out = <<>> /\ outClosed
  BY DEF Done, SeesEnd
<1>2. /\ closed /\ chan = <<>> /\ cur = 0 /\ rows = <<>> /\ ppc = "left"
      /\ fault \in {"none", "cut"}
  BY <1>1 DEF ReaderInv, ClosedInv
<1>3. got \in Seq(Num)
  BY <1>1, OverParts
<1>4. Flow = got
  <2>1. One(cur) = <<>>
    BY <1>2 DEF One
  <2> QED BY <1>1, <1>2, <1>3, <2>1, FiveAtEnd DEF Flow
<1>5. /\ InOrder(got, ever)
      /\ \A n \in ToSet(got) : Within(n)
      /\ fault = "none" => Still \subseteq ToSet(got)
  <2>1. Begun
    BY <1>2 DEF Begun
  <2> QED BY <1>1, <1>4, <2>1 DEF ReaderInv, OverInv
<1>6. got = Selected(ever, ToSet(got))
  <2>1. ever \in Seq(Num) /\ IsInjective(ever)
    BY DEF ReaderInv, Typed, TypeOK
  <2> DEFINE u == Selected(ever, ToSet(got))
  <2>2. u \in Seq(Num) /\ ToSet(u) = ToSet(ever) \intersect ToSet(got) /\ InOrder(u, ever)
    BY <2>1, SelectedFacts
  <2>3. ToSet(got) \subseteq ToSet(ever)
    BY <1>5 DEF InOrder
  <2>4. ToSet(got) = ToSet(u)
    BY <2>2, <2>3
  <2> HIDE DEF u
  <2>5. got = u
    BY <1>3, <1>5, <2>1, <2>2, <2>4, OneOrder
  <2> QED BY <2>5 DEF u
<1>7. nils \intersect files = {}
  BY DEF ReaderInv, NilInv
<1> QED BY <1>2, <1>5, <1>6, <1>7 DEF RangeIsComplete, Still

(* A session that sees the end of a range has received, each once and in the
   order of the index, the numbers of the range that were there when it asked
   and still are, unless the rows ended early, and none that is not in the
   range; a number without an article has lost its file. *)
THEOREM RangeComplete == Spec => []RangeIsComplete
<1>1. ReaderInv => RangeIsComplete
  BY EndedRange DEF RangeIsComplete
<1> QED BY <1>1, ReaderInvariance, PTL

LEMMA EndedList ==
  ASSUME ReaderInv, Done("list")
  PROVE  ListIsComplete
<1>1. cmd.kind = "list" /\ closed
  BY DEF Done, SeesEnd
<1>2. rows = <<>> /\ ppc = "left" /\ fault \in {"none", "cut"}
  BY <1>1 DEF ReaderInv, ClosedInv
<1>3. ToSet(rows) = {}
  BY <1>2, NoEntries
<1>4. Begun
  BY <1>2 DEF Begun
<1> QED BY <1>1, <1>2, <1>3, <1>4, ListParts DEF ListIsComplete, Wanted

(* A session that sees the end of the list of groups has received every group
   that was complete when it asked and that it may read, once, unless the rows
   ended early, and none that is closed to it. *)
THEOREM ListComplete == Spec => []ListIsComplete
<1>1. ReaderInv => ListIsComplete
  BY EndedList DEF ListIsComplete
<1> QED BY <1>1, ReaderInvariance, PTL
=============================================================================
