---------------------------- MODULE FloodProofs ----------------------------
(***************************************************************************)
(* Proofs about Flood for any network, any groups and cards and any        *)
(* articles.  A path is proved to be the way an article came from what the *)
(* peer checked before it offered the article (Wanted) and the node before *)
(* it took it (Accepts); and the node an article came from keeps it.       *)
(***************************************************************************)
EXTENDS Flood, SequenceTheorems, FiniteSetTheorems, TLAPS

Entry == [art : Article, path : Seq(Node)]

(* m may have offered a to its peer n, and n have taken it. *)
Hop(m, n, a) ==
    /\ <<m, n>> \in Peered
    /\ \E g \in Groups[a] : n \in MayRead[g]
    /\ \E g \in Groups[a] : m \in MayPost[g]

(* A way from the origin of a to n, read backwards. *)
IsWay(n, a, path) ==
    /\ path # <<>> /\ Head(path) = n /\ Last(path) = Origin[a] /\ IsInjective(path)
    /\ \A j \in 1 .. Len(path) - 1 : Hop(path[j + 1], path[j], a)

WayInv ==
    \A n \in Node : \A i \in DOMAIN spool[n] : IsWay(n, spool[n][i].art, spool[n][i].path)

(* Every node on the path has the article. *)
KnownInv ==
    \A n \in Node : \A i \in DOMAIN spool[n] : \A m \in Node :
        Contains(spool[n][i].path, m) => spool[n][i].art \in Has(m)

(* No node has an article twice: the CHOOSE of Position has one choice. *)
OnceInv ==
    \A n \in Node : \A i, j \in DOMAIN spool[n] : spool[n][i].art = spool[n][j].art => i = j

(* A file is missing or torn only where there is a row. *)
FilesInv == \A n \in Node, a \in Article : <<n, a>> \in gone \union torn => a \in Has(n)

FloodInv == TypeOK /\ WayInv /\ KnownInv /\ OnceInv /\ FilesInv
-----------------------------------------------------------------------------
(* Putting a node before a path. *)

LEMMA Prepend ==
  ASSUME NEW n \in Node, NEW path \in Seq(Node)
  PROVE  /\ <<n>> \o path \in Seq(Node)
         /\ Len(path) \in Nat /\ Len(<<n>> \o path) = Len(path) + 1
         /\ (<<n>> \o path)[1] = n /\ Head(<<n>> \o path) = n
         /\ \A i \in 1 .. Len(path) : (<<n>> \o path)[i + 1] = path[i]
         /\ <<n>> \o path # <<>>
OBVIOUS

LEMMA PrependInjective ==
  ASSUME NEW n \in Node, NEW path \in Seq(Node), IsInjective(path), ~Contains(path, n)
  PROVE  IsInjective(<<n>> \o path)
<1> DEFINE whole == <<n>> \o path
<1>1. /\ DOMAIN whole = 1 .. Len(path) + 1 /\ DOMAIN path = 1 .. Len(path) /\ Len(path) \in Nat
      /\ whole[1] = n /\ \A i \in 1 .. Len(path) : whole[i + 1] = path[i]
  BY Prepend
<1> HIDE DEF whole
<1>2. \A i \in 2 .. Len(path) + 1 : i - 1 \in 1 .. Len(path) /\ whole[i] = path[i - 1]
  BY <1>1
<1>3. \A i \in 2 .. Len(path) + 1 : whole[i] # n
  BY <1>2 DEF Contains
<1>4. \A i, j \in 2 .. Len(path) + 1 : whole[i] = whole[j] => i = j
  <2> SUFFICES ASSUME NEW i \in 2 .. Len(path) + 1, NEW j \in 2 .. Len(path) + 1,
                      whole[i] = whole[j]
               PROVE  i = j
    OBVIOUS
  <2>1. i - 1 \in DOMAIN path /\ j - 1 \in DOMAIN path /\ path[i - 1] = path[j - 1]
    BY <1>1, <1>2
  <2>2. i - 1 = j - 1
    BY <2>1 DEF IsInjective
  <2>3. QED
    BY <2>2
<1>5. \A i \in DOMAIN whole : i = 1 \/ i \in 2 .. Len(path) + 1
  BY <1>1
<1>6. IsInjective(whole)
  BY <1>1, <1>3, <1>4, <1>5 DEF IsInjective
<1>7. QED
  BY <1>6 DEF whole

(* The way of an article begins where it is written ... *)
LEMMA WayBegins ==
  ASSUME NEW a \in Article, Origin[a] \in Node
  PROVE  IsWay(Origin[a], a, <<Origin[a]>> \o <<>>)
<1>1. <<Origin[a]>> \o <<>> = <<Origin[a]>>
  OBVIOUS
<1>2. QED
  BY <1>1 DEF IsWay, Last, IsInjective

(* ... and goes on over every hop to a node that is not on it. *)
LEMMA WayGoesOn ==
  ASSUME NEW n \in Node, NEW p \in Node, NEW a \in Article, NEW path \in Seq(Node),
         IsWay(n, a, path), ~Contains(path, p), Hop(n, p, a)
  PROVE  IsWay(p, a, <<p>> \o path)
<1> DEFINE whole == <<p>> \o path
<1>1. /\ Len(whole) = Len(path) + 1 /\ Len(path) \in Nat \ {0} /\ whole # <<>>
      /\ whole[1] = p /\ Head(whole) = p /\ \A i \in 1 .. Len(path) : whole[i + 1] = path[i]
  BY Prepend, EmptySeq DEF IsWay
<1>2. IsInjective(whole)
  BY PrependInjective DEF IsWay
<1>3. path[1] = n
  BY <1>1 DEF IsWay
<1> HIDE DEF whole
<1>4. Last(whole) = Origin[a]
  BY <1>1 DEF Last, IsWay
<1>5. ASSUME NEW j \in 1 .. Len(whole) - 1
      PROVE  Hop(whole[j + 1], whole[j], a)
  <2>1. CASE j = 1
    BY <1>1, <1>3, <2>1
  <2>2. CASE j # 1
    <3>1. j - 1 \in 1 .. Len(path) - 1 /\ j \in 1 .. Len(path) /\ (j - 1) + 1 = j
      BY <1>1, <2>2
    <3>2. whole[j + 1] = path[j] /\ whole[j] = path[j - 1]
      BY <1>1, <3>1
    <3>3. QED
      BY <3>1, <3>2 DEF IsWay
  <2>3. QED
    BY <2>1, <2>2
<1>6. IsWay(p, a, whole)
  BY <1>1, <1>2, <1>4, <1>5 DEF IsWay
<1>7. QED
  BY <1>6 DEF whole
-----------------------------------------------------------------------------
LEMMA InitialFlood == Init => FloodInv
  BY FloodAssumption DEF Init, FloodInv, TypeOK, WayInv, KnownInv, OnceInv, FilesInv

LEMMA FaultOK ==
  ASSUME FloodInv, Fault \/ UNCHANGED faults
  PROVE  faults' \in 0 .. MaxFaults
  BY FloodAssumption DEF FloodInv, TypeOK, Fault

LEMMA FilesStay ==
  ASSUME FloodInv, UNCHANGED <<gone, torn>>, \A m \in Node : Has(m) \subseteq Has(m)'
  PROVE  /\ gone' \subseteq Node \X Article /\ torn' \subseteq Node \X Article
         /\ FilesInv'
  BY DEF FloodInv, TypeOK, FilesInv

(* What Post does to what the nodes have. *)
LEMMA PostKeeps ==
  ASSUME FloodInv, NEW n \in Node, NEW from, NEW a \in Article, NEW path \in Seq(Node),
         Post(n, from, a, path),
         Accepts(n, from, a) => IsWay(n, a, <<n>> \o path),
         \A m \in Node : Contains(path, m) => a \in Has(m)
  PROVE  /\ spool' \in [Node -> Seq(Entry)] /\ groups' \in [Node -> SUBSET Group]
         /\ \A m \in Node : Len(spool[m]) <= Len(spool'[m])
         /\ \A m \in Node : Has(m) \subseteq Has(m)'
         /\ WayInv' /\ KnownInv' /\ OnceInv'
<1> USE DEF FloodInv
<1> DEFINE whole == <<n>> \o path
           entry == [art |-> a, path |-> whole]
<1>1. spool \in [Node -> Seq(Entry)] /\ groups \in [Node -> SUBSET Group]
  BY DEF TypeOK, Entry
<1>2. groups' \in [Node -> SUBSET Group]
  <2>1. {Creates[a]} \ {NoGroup} \subseteq Group
    BY FloodAssumption
  <2>2. QED
    BY <1>1, <2>1 DEF Post
<1>3. CASE ~Accepts(n, from, a)
  <2>1. spool' = spool
    BY <1>3 DEF Post
  <2>2. \A m \in Node : Len(spool[m]) <= Len(spool'[m]) /\ Has(m) \subseteq Has(m)'
    BY <1>1, <2>1 DEF Has
  <2>3. WayInv' /\ KnownInv' /\ OnceInv'
    BY <2>1 DEF WayInv, KnownInv, OnceInv, Has
  <2>4. QED
    BY <1>1, <1>2, <2>1, <2>2, <2>3
<1>4. CASE Accepts(n, from, a)
  <2>1. spool' = [spool EXCEPT ![n] = Append(spool[n], entry)]
    BY <1>4 DEF Post
  <2>2. entry \in Entry /\ entry.art = a /\ entry.path = whole
    BY Prepend DEF Entry
  <2>3. \A m \in Node : Contains(whole, m) => m = n \/ Contains(path, m)
    <3> SUFFICES ASSUME NEW m \in Node, NEW i \in 1 .. Len(whole), whole[i] = m, m # n
                 PROVE  Contains(path, m)
      BY DEF Contains
    <3>1. i # 1 /\ i - 1 \in 1 .. Len(path) /\ (i - 1) + 1 = i
      BY Prepend
    <3>2. whole[i] = path[i - 1]
      BY <3>1, Prepend
    <3>3. QED
      BY <3>1, <3>2 DEF Contains
  <2> HIDE DEF entry
  <2>4. /\ spool'[n] = Append(spool[n], entry)
        /\ \A m \in Node \ {n} : spool'[m] = spool[m]
        /\ spool' \in [Node -> Seq(Entry)]
    BY <1>1, <2>1, <2>2
  <2> DEFINE k == Len(spool[n]) + 1
  <2>5. /\ Len(spool[n]) \in Nat /\ Len(spool'[n]) = k
        /\ DOMAIN spool[n] = 1 .. Len(spool[n]) /\ DOMAIN spool'[n] = 1 .. k
        /\ spool'[n][k] = entry /\ \A i \in DOMAIN spool[n] : spool'[n][i] = spool[n][i]
    BY <1>1, <2>2, <2>4
  <2>6. ASSUME NEW m \in Node
        PROVE  /\ Len(spool[m]) <= Len(spool'[m])
               /\ \A i \in DOMAIN spool[m] : i \in DOMAIN spool'[m] /\ spool'[m][i] = spool[m][i]
    <3>1. CASE m = n
      BY <2>5, <3>1
    <3>2. CASE m # n
      <4>1. spool'[m] = spool[m] /\ Len(spool[m]) \in Nat
        BY <1>1, <2>4, <3>2
      <4>2. QED
        BY <4>1
    <3>3. QED
      BY <3>1, <3>2
  (* An entry is the new one, or it was there before. *)
  <2>7. ASSUME NEW m \in Node, NEW i \in DOMAIN spool'[m]
        PROVE  \/ m = n /\ i = k /\ spool'[m][i] = entry
               \/ i \in DOMAIN spool[m] /\ spool'[m][i] = spool[m][i] /\ (m = n => i # k)
    <3>1. CASE m = n
      <4>1. i = k \/ i \in 1 .. Len(spool[n])
        BY <2>5, <3>1
      <4>2. QED
        BY <2>5, <3>1, <4>1
    <3>2. CASE m # n
      BY <2>4, <3>2
    <3>3. QED
      BY <3>1, <3>2
  <2>8. a \in Has(n)' /\ \A m \in Node : Has(m) \subseteq Has(m)'
    <3>1. k \in DOMAIN spool'[n]
      BY <2>5
    <3>2. a \in Has(n)'
      BY <2>2, <2>5, <3>1 DEF Has
    <3>3. QED
      BY <2>6, <3>2 DEF Has
  <2>9. WayInv'
    <3> SUFFICES ASSUME NEW m \in Node, NEW i \in DOMAIN spool'[m]
                 PROVE  IsWay(m, spool'[m][i].art, spool'[m][i].path)
      BY DEF WayInv
    <3>1. CASE m = n /\ spool'[m][i] = entry
      BY <1>4, <2>2, <3>1
    <3>2. CASE i \in DOMAIN spool[m] /\ spool'[m][i] = spool[m][i]
      BY <3>2 DEF WayInv
    <3>3. QED
      BY <2>7, <3>1, <3>2
  <2>10. KnownInv'
    <3> SUFFICES ASSUME NEW m \in Node, NEW i \in DOMAIN spool'[m], NEW h \in Node,
                        Contains(spool'[m][i].path, h)
                 PROVE  spool'[m][i].art \in Has(h)'
      BY DEF KnownInv
    <3>1. CASE m = n /\ spool'[m][i] = entry
      BY <2>2, <2>3, <2>8, <3>1
    <3>2. CASE i \in DOMAIN spool[m] /\ spool'[m][i] = spool[m][i]
      BY <2>8, <3>2 DEF KnownInv
    <3>3. QED
      BY <2>7, <3>1, <3>2
  <2>11. OnceInv'
    <3>1. \A i \in DOMAIN spool[n] : spool[n][i].art # a
      BY <1>4 DEF Accepts, Has
    <3> SUFFICES ASSUME NEW m \in Node, NEW i \in DOMAIN spool'[m], NEW j \in DOMAIN spool'[m],
                        spool'[m][i].art = spool'[m][j].art
                 PROVE  i = j
      BY DEF OnceInv
    <3>2. CASE m = n /\ i = k /\ spool'[m][i] = entry
      BY <2>2, <2>7, <3>1, <3>2
    <3>3. CASE m = n /\ j = k /\ spool'[m][j] = entry
      BY <2>2, <2>7, <3>1, <3>3
    <3>4. CASE /\ i \in DOMAIN spool[m] /\ spool'[m][i] = spool[m][i]
               /\ j \in DOMAIN spool[m] /\ spool'[m][j] = spool[m][j]
      BY <3>4 DEF OnceInv
    <3>5. QED
      BY <2>7, <3>2, <3>3, <3>4
  <2>12. QED
    BY <1>2, <2>4, <2>6, <2>8, <2>9, <2>10, <2>11
<1>5. QED
  BY <1>3, <1>4
-----------------------------------------------------------------------------
(* What SendMessages offers. *)

LEMMA ItemOK ==
  ASSUME FloodInv, NEW n \in Node, NEW p \in Node, HasNext(n, p)
  PROVE  /\ <<n, p>> \in Peered /\ cursor[<<n, p>>] + 1 <= Len(spool[n])
         /\ Item(n, p).art \in Article /\ Item(n, p).path \in Seq(Node)
         /\ IsWay(n, Item(n, p).art, Item(n, p).path)
         /\ \A m \in Node : Contains(Item(n, p).path, m) => Item(n, p).art \in Has(m)
<1> DEFINE i == cursor[<<n, p>>] + 1
<1>1. /\ <<n, p>> \in Peered /\ cursor[<<n, p>>] \in Nat /\ cursor[<<n, p>>] < Len(spool[n])
      /\ spool[n] \in Seq(Entry)
  BY DEF HasNext, FloodInv, TypeOK, Entry
<1>2. i \in 1 .. Len(spool[n]) /\ i \in DOMAIN spool[n]
  BY <1>1
<1>3. spool[n][i] \in Entry
  BY <1>1, <1>2, ElementOfSeq
<1>4. Item(n, p) = spool[n][i]
  BY DEF Item
<1> HIDE DEF i
<1>5. /\ IsWay(n, spool[n][i].art, spool[n][i].path)
      /\ \A m \in Node : Contains(spool[n][i].path, m) => spool[n][i].art \in Has(m)
  BY <1>2 DEF FloodInv, WayInv, KnownInv
<1>6. cursor[<<n, p>>] + 1 <= Len(spool[n])
  BY <1>2 DEF i
<1>7. QED
  BY <1>1, <1>3, <1>4, <1>5, <1>6 DEF Entry

(* An offer that the peer takes makes its way one hop longer. *)
LEMMA OfferOK ==
  ASSUME FloodInv, NEW n \in Node, NEW p \in Node, HasNext(n, p), Wanted(n, p),
         Accepts(p, n, Item(n, p).art)
  PROVE  IsWay(p, Item(n, p).art, <<p>> \o Item(n, p).path)
<1> DEFINE a == Item(n, p).art
<1>1. a \in Article
  BY ItemOK
<1>2. PICK g \in Groups[a] : p = Owner[g] \/ p \in MayRead[g]
  BY DEF Wanted
<1>3. g \in Group /\ p \in MayRead[g]
  BY <1>1, <1>2, FloodAssumption
<1>4. \E h \in Groups[a] : n \in MayPost[h]
  BY DEF Accepts
<1>5. Hop(n, p, a)
  BY <1>2, <1>3, <1>4, ItemOK DEF Hop
<1>6. ~Contains(Item(n, p).path, p)
  BY DEF Wanted, Passed
<1>7. QED
  BY <1>1, <1>5, <1>6, ItemOK, WayGoesOn

LEMMA AdvanceKeeps ==
  ASSUME FloodInv, NEW n \in Node, NEW p \in Node, HasNext(n, p), Advance(n, p),
         \A m \in Node : Len(spool[m]) <= Len(spool'[m]),
         spool' \in [Node -> Seq(Entry)]
  PROVE  cursor' \in [Peered -> Nat] /\ \A e \in Peered : cursor'[e] <= Len(spool'[e[1]])
<1> DEFINE o == <<n, p>>
<1>1. /\ o \in Peered /\ o[1] = n /\ cursor[o] + 1 <= Len(spool[n])
      /\ cursor \in [Peered -> Nat] /\ \A e \in Peered : cursor[e] <= Len(spool[e[1]])
      /\ spool \in [Node -> Seq(Entry)]
  BY ItemOK DEF FloodInv, TypeOK, Entry
<1>2. cursor' = [cursor EXCEPT ![o] = cursor[o] + 1]
  BY DEF Advance
<1> HIDE DEF o
<1>3. \A e \in Peered : e[1] \in Node
  BY FloodAssumption
<1>4. cursor' \in [Peered -> Nat]
  BY <1>1, <1>2
<1>5. ASSUME NEW e \in Peered
      PROVE  cursor'[e] <= Len(spool'[e[1]])
  <2>1. /\ Len(spool[e[1]]) \in Nat /\ Len(spool'[e[1]]) \in Nat
        /\ Len(spool[e[1]]) <= Len(spool'[e[1]])
    BY <1>1, <1>3
  <2>2. cursor'[e] \in Nat /\ cursor'[e] <= Len(spool[e[1]])
    BY <1>1, <1>2
  <2>3. QED
    BY <2>1, <2>2
<1>6. QED
  BY <1>4, <1>5

(* A cursor stays within what its node has. *)
LEMMA CursorStays ==
  ASSUME FloodInv, UNCHANGED cursor,
         \A m \in Node : Len(spool[m]) <= Len(spool'[m]),
         spool' \in [Node -> Seq(Entry)]
  PROVE  cursor' \in [Peered -> Nat] /\ \A e \in Peered : cursor'[e] <= Len(spool'[e[1]])
<1>1. ASSUME NEW e \in Peered
      PROVE  cursor'[e] <= Len(spool'[e[1]])
  <2>1. e[1] \in Node
    BY FloodAssumption
  <2>2. /\ Len(spool[e[1]]) \in Nat /\ Len(spool'[e[1]]) \in Nat
        /\ Len(spool[e[1]]) <= Len(spool'[e[1]])
    BY <2>1 DEF FloodInv, TypeOK, Entry
  <2>3. cursor[e] \in Nat /\ cursor[e] <= Len(spool[e[1]])
    BY DEF FloodInv, TypeOK
  <2>4. QED
    BY <2>2, <2>3
<1>2. QED
  BY <1>1 DEF FloodInv, TypeOK
-----------------------------------------------------------------------------
LEMMA WriteKeeps ==
  ASSUME FloodInv, NEW a \in Article, Write(a)
  PROVE  FloodInv'
<1>1. Origin[a] \in Node
  BY FloodAssumption
<1>2. <<>> \in Seq(Node) /\ \A m \in Node : ~Contains(<<>>, m)
  BY DEF Contains
<1>3. /\ spool' \in [Node -> Seq(Entry)] /\ groups' \in [Node -> SUBSET Group]
      /\ \A m \in Node : Len(spool[m]) <= Len(spool'[m]) /\ Has(m) \subseteq Has(m)'
      /\ WayInv' /\ KnownInv' /\ OnceInv'
  BY <1>1, <1>2, PostKeeps, WayBegins DEF Write
<1>4. UNCHANGED <<cursor, lost, gone, torn, faults>>
  BY DEF Write, files
<1>5. cursor' \in [Peered -> Nat] /\ \A e \in Peered : cursor'[e] <= Len(spool'[e[1]])
  BY <1>3, <1>4, CursorStays
<1>6. TypeOK' /\ FilesInv'
  BY <1>3, <1>4, <1>5, FaultOK, FilesStay DEF FloodInv, TypeOK, Entry
<1>7. QED
  BY <1>3, <1>6 DEF FloodInv

(* The steps that leave the nodes as they are. *)
LEMMA SkipKeeps ==
  ASSUME FloodInv, NEW n \in Node, NEW p \in Node, Skip(n, p) \/ Lose(n, p)
  PROVE  FloodInv'
<1>1. /\ HasNext(n, p) /\ Advance(n, p) /\ spool' = spool /\ groups' = groups
      /\ UNCHANGED <<gone, torn>> /\ (Fault \/ UNCHANGED faults)
  BY DEF Skip, Lose, Ready, files
<1>2. spool' \in [Node -> Seq(Entry)] /\ \A m \in Node : Len(spool[m]) <= Len(spool'[m])
  <2>1. spool \in [Node -> Seq(Entry)]
    BY DEF FloodInv, TypeOK, Entry
  <2>2. \A m \in Node : Len(spool[m]) \in Nat
    BY <2>1
  <2>3. QED
    BY <1>1, <2>1, <2>2
<1>3. cursor' \in [Peered -> Nat] /\ \A e \in Peered : cursor'[e] <= Len(spool'[e[1]])
  BY <1>1, <1>2, AdvanceKeeps
<1>4. lost' \subseteq Node \X Node \X Article
  <2>1. CASE Skip(n, p)
    BY <2>1 DEF Skip, FloodInv, TypeOK
  <2>2. CASE Lose(n, p)
    <3>1. <<n, p, Item(n, p).art>> \in Node \X Node \X Article
      BY <1>1, ItemOK
    <3>2. lost' = lost \union {<<n, p, Item(n, p).art>>}
      BY <2>2 DEF Lose
    <3>3. QED
      BY <3>1, <3>2 DEF FloodInv, TypeOK
  <2>3. QED
    BY <2>1, <2>2
<1>5. \A m \in Node : Has(m) \subseteq Has(m)'
  BY <1>1 DEF Has
<1>6. TypeOK' /\ FilesInv'
  BY <1>1, <1>2, <1>3, <1>4, <1>5, FaultOK, FilesStay DEF FloodInv, TypeOK, Entry
<1>7. WayInv' /\ KnownInv' /\ OnceInv'
  BY <1>1 DEF FloodInv, WayInv, KnownInv, OnceInv, Has
<1>8. QED
  BY <1>6, <1>7 DEF FloodInv

(* The steps that touch the files alone. *)
Spoilt == gone \union torn

TakenAway(n, a) ==
    /\ a \in Has(n) /\ <<n, a>> \notin Spoilt
    /\ Spoilt' = Spoilt \union {<<n, a>>}

LEMMA FileGoes ==
  ASSUME FloodInv, NEW n \in Node, NEW a \in Article, Withdraw(n, a) \/ Tear(n, a)
  PROVE  /\ UNCHANGED <<spool, groups, cursor, lost>> /\ Fault /\ TakenAway(n, a)
         /\ gone' \subseteq Node \X Article /\ torn' \subseteq Node \X Article
<1>1. CASE Withdraw(n, a)
  BY <1>1 DEF Withdraw, TakenAway, Spoilt, FloodInv, TypeOK
<1>2. CASE Tear(n, a)
  <2>1. spool[n] \in Seq(Entry) /\ spool[n] # <<>>
    BY <1>2 DEF FloodInv, TypeOK, Entry, Tear
  <2>2. Len(spool[n]) \in DOMAIN spool[n]
    BY <2>1
  <2>3. a \in Has(n)
    BY <1>2, <2>2 DEF Tear, Last, Has
  <2>4. QED
    BY <1>2, <2>3 DEF Tear, TakenAway, Spoilt, FloodInv, TypeOK
<1>3. QED
  BY <1>1, <1>2

LEMMA FilesKeep ==
  ASSUME FloodInv, NEW n \in Node, NEW a \in Article, Withdraw(n, a) \/ Tear(n, a)
  PROVE  FloodInv'
<1>1. /\ UNCHANGED <<spool, groups, cursor, lost>> /\ Fault /\ TakenAway(n, a)
      /\ gone' \subseteq Node \X Article /\ torn' \subseteq Node \X Article
  BY FileGoes
<1>2. FilesInv'
  BY <1>1 DEF FloodInv, FilesInv, Has, TakenAway, Spoilt
<1>3. TypeOK'
  BY <1>1, FaultOK DEF FloodInv, TypeOK
<1>4. WayInv' /\ KnownInv' /\ OnceInv'
  BY <1>1 DEF FloodInv, WayInv, KnownInv, OnceInv, Has
<1>5. QED
  BY <1>2, <1>3, <1>4 DEF FloodInv

LEMMA OfferKeeps ==
  ASSUME FloodInv, NEW n \in Node, NEW p \in Node, Offer(n, p) \/ OfferUncounted(n, p)
  PROVE  FloodInv'
<1>1. /\ HasNext(n, p) /\ Wanted(n, p) /\ lost' = lost
      /\ Post(p, n, Item(n, p).art, Item(n, p).path)
  BY DEF Offer, OfferUncounted, Ready
<1>2. /\ spool' \in [Node -> Seq(Entry)] /\ groups' \in [Node -> SUBSET Group]
      /\ \A m \in Node : Len(spool[m]) <= Len(spool'[m]) /\ Has(m) \subseteq Has(m)'
      /\ WayInv' /\ KnownInv' /\ OnceInv'
  BY <1>1, ItemOK, OfferOK, PostKeeps
<1>3. cursor' \in [Peered -> Nat] /\ \A e \in Peered : cursor'[e] <= Len(spool'[e[1]])
  <2>1. CASE Offer(n, p)
    BY <1>1, <1>2, <2>1, AdvanceKeeps DEF Offer
  <2>2. CASE OfferUncounted(n, p)
    BY <1>2, <2>2, CursorStays DEF OfferUncounted
  <2>3. QED
    BY <2>1, <2>2
<1>4. faults' \in 0 .. MaxFaults /\ UNCHANGED <<gone, torn>>
  BY FaultOK DEF Offer, OfferUncounted, files
<1>5. TypeOK' /\ FilesInv'
  BY <1>1, <1>2, <1>3, <1>4, FilesStay DEF FloodInv, TypeOK, Entry
<1>6. QED
  BY <1>2, <1>5 DEF FloodInv

LEMMA InductiveFlood == FloodInv /\ [Next]_vars => FloodInv'
<1> SUFFICES ASSUME FloodInv, [Next]_vars
             PROVE  FloodInv'
  OBVIOUS
<1>1. CASE UNCHANGED vars
  <2>1. /\ spool' = spool /\ groups' = groups /\ cursor' = cursor /\ lost' = lost
        /\ gone' = gone /\ torn' = torn /\ faults' = faults
    BY <1>1 DEF vars, files
  <2>2. TypeOK'
    BY <2>1 DEF FloodInv, TypeOK
  <2>3. WayInv' /\ KnownInv' /\ OnceInv' /\ FilesInv'
    BY <2>1 DEF FloodInv, WayInv, KnownInv, OnceInv, FilesInv, Has
  <2>4. QED
    BY <2>2, <2>3 DEF FloodInv
<1>2. CASE Next
  BY <1>2, WriteKeeps, FilesKeep, SkipKeeps, OfferKeeps DEF Next, SendMessages
<1>3. QED
  BY <1>1, <1>2
-----------------------------------------------------------------------------
(* What a feed owes and has dealt with: the numbers in the spool of the
   newgroup message, i, and of the article, j, take the place of Position. *)
Due(n, p, i, j) ==
    LET c == spool[n][i].art
        a == spool[n][j].art
    IN  /\ i <= j /\ Creates[c] # NoGroup /\ Creates[c] \in Groups[a]
        /\ p \in MayRead[Creates[c]] /\ n \in MayPost[Creates[c]]

DealtInv ==
    \A e \in Peered : \A i, j \in DOMAIN spool[e[1]] :
        Due(e[1], e[2], i, j) /\ j <= cursor[e]
            => Spread(e[1], e[2], spool[e[1]][j].art, spool[e[1]][i].art)

(* Whoever has a newgroup message has its group ... *)
CreatorInv ==
    \A n \in Node : \A i \in DOMAIN spool[n] :
        Creates[spool[n][i].art] # NoGroup => Creates[spool[n][i].art] \in groups[n]

(* ... and has one newgroup message for it. *)
CreatorOnceInv ==
    \A n \in Node : \A i, j \in DOMAIN spool[n] :
        /\ Creates[spool[n][i].art] # NoGroup
        /\ Creates[spool[n][i].art] = Creates[spool[n][j].art]
        => i = j

SettleInv == CreatorInv /\ CreatorOnceInv /\ DealtInv

(* Nothing a node has had is taken from it. *)
Grows ==
    /\ lost \subseteq lost'
    /\ \A m \in Node :
        /\ groups[m] \subseteq groups'[m]
        /\ \A i \in DOMAIN spool[m] : i \in DOMAIN spool'[m] /\ spool'[m][i] = spool[m][i]

LEMMA InitialSettle == Init => SettleInv
<1> SUFFICES ASSUME Init
             PROVE  SettleInv
  OBVIOUS
<1>1. \A n \in Node : DOMAIN spool[n] = {}
  BY DEF Init
<1>2. CreatorInv /\ CreatorOnceInv
  BY <1>1 DEF CreatorInv, CreatorOnceInv
<1>3. DealtInv
  BY <1>1, FloodAssumption DEF DealtInv
<1>4. QED
  BY <1>2, <1>3 DEF SettleInv

LEMMA SpreadStays ==
  ASSUME Grows, NEW n \in Node, NEW p \in Node, NEW a \in Article, NEW c \in Article,
         Spread(n, p, a, c)
  PROVE  Spread(n, p, a, c)'
<1>1. Has(p) \subseteq Has(p)'
  BY DEF Grows, Has
<1>2. QED
  BY <1>1 DEF Grows, Spread, Lost

(* What Post adds. *)
LEMMA PostAdds ==
  ASSUME FloodInv, NEW n \in Node, NEW from, NEW a \in Article, NEW path \in Seq(Node),
         Post(n, from, a, path), lost \subseteq lost'
  PROVE  /\ Grows
         /\ Creates[a] # NoGroup => Creates[a] \in groups'[n]
         /\ Accepts(n, from, a) => a \in Has(n)'
         /\ \A m \in Node : \A i \in DOMAIN spool'[m] :
                \/ i \in DOMAIN spool[m] /\ spool'[m][i] = spool[m][i]
                \/ /\ m = n /\ i = Len(spool[n]) + 1
                   /\ spool'[m][i].art = a /\ Accepts(n, from, a)
<1> DEFINE entry == [art |-> a, path |-> <<n>> \o path]
<1>1. spool \in [Node -> Seq(Entry)] /\ groups \in [Node -> SUBSET Group]
  BY DEF FloodInv, TypeOK, Entry
<1>2. /\ \A m \in Node : groups[m] \subseteq groups'[m]
      /\ Creates[a] # NoGroup => Creates[a] \in groups'[n]
  BY <1>1 DEF Post
<1>3. CASE ~Accepts(n, from, a)
  <2>1. spool' = spool
    BY <1>3 DEF Post
  <2>2. QED
    BY <1>2, <1>3, <2>1 DEF Grows
<1>4. CASE Accepts(n, from, a)
  <2>1. spool' = [spool EXCEPT ![n] = Append(spool[n], entry)]
    BY <1>4 DEF Post
  <2>2. entry \in Entry /\ entry.art = a
    BY Prepend DEF Entry
  <2> HIDE DEF entry
  <2>3. spool'[n] = Append(spool[n], entry) /\ \A m \in Node \ {n} : spool'[m] = spool[m]
    BY <1>1, <2>1
  <2> DEFINE k == Len(spool[n]) + 1
  <2>4. /\ DOMAIN spool[n] = 1 .. Len(spool[n]) /\ DOMAIN spool'[n] = 1 .. k
        /\ Len(spool[n]) \in Nat
        /\ spool'[n][k] = entry /\ \A i \in DOMAIN spool[n] : spool'[n][i] = spool[n][i]
    BY <1>1, <2>2, <2>3
  <2>5. DOMAIN spool[n] \subseteq DOMAIN spool'[n] /\ k \in DOMAIN spool'[n]
        /\ \A i \in DOMAIN spool'[n] : i = k \/ i \in DOMAIN spool[n]
    BY <2>4
  <2> HIDE DEF k
  <2>6. Grows
    BY <1>2, <2>3, <2>4, <2>5 DEF Grows
  <2>7. a \in Has(n)'
    BY <2>2, <2>4, <2>5 DEF Has
  <2>8. \A m \in Node : \A i \in DOMAIN spool'[m] :
            \/ i \in DOMAIN spool[m] /\ spool'[m][i] = spool[m][i]
            \/ m = n /\ i = k /\ spool'[m][i].art = a
    BY <2>2, <2>3, <2>4, <2>5
  <2>9. QED
    BY <1>2, <1>4, <2>6, <2>7, <2>8 DEF k
<1>5. QED
  BY <1>3, <1>4

(* A node takes a newgroup message only while it has not the group. *)
LEMMA CreatorsKept ==
  ASSUME FloodInv, SettleInv,
         NEW n \in Node, NEW from, NEW a \in Article, NEW path \in Seq(Node),
         Post(n, from, a, path), lost \subseteq lost'
  PROVE  CreatorInv' /\ CreatorOnceInv'
<1>1. /\ \A m \in Node : groups[m] \subseteq groups'[m]
      /\ Creates[a] # NoGroup => Creates[a] \in groups'[n]
      /\ \A m \in Node : \A i \in DOMAIN spool'[m] :
            \/ i \in DOMAIN spool[m] /\ spool'[m][i] = spool[m][i]
            \/ /\ m = n /\ i = Len(spool[n]) + 1
               /\ spool'[m][i].art = a /\ Accepts(n, from, a)
  BY PostAdds DEF Grows
<1>2. CreatorInv'
  BY <1>1 DEF SettleInv, CreatorInv
<1>3. Accepts(n, from, a) => \A i \in DOMAIN spool[n] :
            Creates[spool[n][i].art] # NoGroup => Creates[spool[n][i].art] # Creates[a]
  BY DEF SettleInv, CreatorInv, Accepts
<1>4. CreatorOnceInv'
  <2> SUFFICES ASSUME NEW m \in Node, NEW i \in DOMAIN spool'[m], NEW j \in DOMAIN spool'[m],
                      Creates[spool'[m][i].art] # NoGroup,
                      Creates[spool'[m][i].art] = Creates[spool'[m][j].art], i # j
               PROVE  FALSE
    BY DEF CreatorOnceInv
  <2>1. CASE /\ i \in DOMAIN spool[m] /\ spool'[m][i] = spool[m][i]
             /\ j \in DOMAIN spool[m] /\ spool'[m][j] = spool[m][j]
    BY <2>1 DEF SettleInv, CreatorOnceInv
  <2>2. CASE ~(/\ i \in DOMAIN spool[m] /\ spool'[m][i] = spool[m][i]
               /\ j \in DOMAIN spool[m] /\ spool'[m][j] = spool[m][j])
    BY <1>1, <1>3, <2>2
  <2>3. QED
    BY <2>1, <2>2
<1>5. QED
  BY <1>2, <1>4

(* What was dealt with before a step is dealt with after it. *)
LEMMA DealtStays ==
  ASSUME FloodInv, SettleInv, Grows, NEW e \in Peered,
         NEW i \in DOMAIN spool'[e[1]], NEW j \in DOMAIN spool'[e[1]],
         Due(e[1], e[2], i, j)', j <= cursor[e], spool' \in [Node -> Seq(Entry)]
  PROVE  Spread(e[1], e[2], spool[e[1]][j].art, spool[e[1]][i].art)'
         /\ spool'[e[1]][j] = spool[e[1]][j] /\ spool'[e[1]][i] = spool[e[1]][i]
<1>1. e[1] \in Node /\ e[2] \in Node
  BY FloodAssumption
<1>2. spool \in [Node -> Seq(Entry)] /\ cursor[e] \in Nat /\ cursor[e] <= Len(spool[e[1]])
  BY DEF FloodInv, TypeOK, Entry
<1>3. i <= j /\ i \in Nat \ {0} /\ j \in Nat \ {0}
  <2>1. DOMAIN spool'[e[1]] = 1 .. Len(spool'[e[1]]) /\ Len(spool'[e[1]]) \in Nat
    BY <1>1
  <2>2. QED
    BY <2>1 DEF Due
<1>4. i \in DOMAIN spool[e[1]] /\ j \in DOMAIN spool[e[1]]
  <2>1. DOMAIN spool[e[1]] = 1 .. Len(spool[e[1]]) /\ Len(spool[e[1]]) \in Nat
    BY <1>1, <1>2
  <2>2. QED
    BY <1>2, <1>3, <2>1
<1>5. spool'[e[1]][j] = spool[e[1]][j] /\ spool'[e[1]][i] = spool[e[1]][i]
  BY <1>1, <1>4 DEF Grows
<1>6. Due(e[1], e[2], i, j)
  BY <1>5 DEF Due
<1>7. Spread(e[1], e[2], spool[e[1]][j].art, spool[e[1]][i].art)
  BY <1>4, <1>6 DEF SettleInv, DealtInv
<1>8. spool[e[1]][j].art \in Article /\ spool[e[1]][i].art \in Article
  <2>1. spool[e[1]] \in Seq(Entry)
    BY <1>1, <1>2
  <2>2. spool[e[1]][j] \in Entry /\ spool[e[1]][i] \in Entry
    BY <1>4, <2>1
  <2>3. QED
    BY <2>2 DEF Entry
<1>9. QED
  BY <1>1, <1>5, <1>7, <1>8, SpreadStays

(* The articles a step is about. *)
LEMMA EntryOK ==
  ASSUME FloodInv, NEW n \in Node, NEW i \in DOMAIN spool[n]
  PROVE  spool[n][i].art \in Article /\ spool[n][i].art \in Has(n)
<1>1. spool[n] \in Seq(Entry)
  BY DEF FloodInv, TypeOK, Entry
<1>2. spool[n][i] \in Entry
  BY <1>1
<1>3. QED
  BY <1>2 DEF Entry, Has

(* The article at the cursor, and a newgroup message due with it: the feed has
   dealt with the newgroup message before, or it is the article itself. *)
LEMMA CreatorDealt ==
  ASSUME FloodInv, SettleInv, NEW n \in Node, NEW p \in Node, HasNext(n, p),
         NEW i \in DOMAIN spool[n], Due(n, p, i, cursor[<<n, p>>] + 1),
         i # cursor[<<n, p>>] + 1
  PROVE  <<n, p, spool[n][i].art>> \in lost \/ Creates[spool[n][i].art] \in groups[p]
<1> DEFINE e == <<n, p>>
           c == spool[n][i].art
<1>1. e \in Peered /\ e[1] = n /\ e[2] = p
  BY DEF HasNext
<1>2. c \in Article
  BY EntryOK
<1>3. i <= i /\ i <= cursor[e]
  <2>1. spool[n] \in Seq(Entry) /\ cursor[e] \in Nat
    BY <1>1 DEF FloodInv, TypeOK, Entry
  <2>2. i \in Nat
    BY <2>1
  <2>3. i <= cursor[e] + 1
    BY DEF Due
  <2>4. QED
    BY <2>1, <2>2, <2>3
<1>4. Due(n, p, i, i)
  <2>1. Groups[c] = {Creates[c]}
    BY <1>2, FloodAssumption DEF Due
  <2>2. QED
    BY <1>3, <2>1 DEF Due
<1>5. Spread(n, p, c, c)
  BY <1>1, <1>3, <1>4 DEF SettleInv, DealtInv
<1>6. QED
  BY <1>5 DEF Spread, Lost

(* The path of the article at the cursor holds the peer: the peer has it. *)
LEMMA SkipSettles ==
  ASSUME FloodInv, SettleInv, Grows, NEW n \in Node, NEW p \in Node, Skip(n, p),
         NEW i \in DOMAIN spool[n], Due(n, p, i, cursor[<<n, p>>] + 1),
         NEW a, a = Item(n, p).art, NEW c, c = spool[n][i].art
  PROVE  Spread(n, p, a, c)'
<1>1. HasNext(n, p) /\ ~Wanted(n, p)
  BY DEF Skip, Ready
<1>2. a \in Article /\ c \in Article /\ Item(n, p) = spool[n][cursor[<<n, p>>] + 1]
  BY <1>1, ItemOK, EntryOK DEF Item
<1>3. /\ Creates[c] # NoGroup /\ Creates[c] \in Groups[a] /\ p \in MayRead[Creates[c]]
  BY <1>2 DEF Due
<1>4. Creates[c] \in groups[n]
  BY <1>3 DEF SettleInv, CreatorInv
<1>5. Contains(Item(n, p).path, p)
  BY <1>1, <1>3, <1>4 DEF Wanted, Passed
<1>6. a \in Has(p)
  BY <1>1, <1>5, ItemOK
<1>7. Spread(n, p, a, c)
  <2>1. CASE i = cursor[<<n, p>>] + 1
    <3>1. a = c
      BY <1>2, <2>1
    <3>2. PICK k \in DOMAIN spool[p] : spool[p][k].art = c
      BY <1>6, <3>1 DEF Has
    <3>3. Creates[c] \in groups[p]
      BY <1>3, <3>2 DEF SettleInv, CreatorInv
    <3>4. QED
      BY <3>1, <3>3 DEF Spread
  <2>2. CASE i # cursor[<<n, p>>] + 1
    BY <1>1, <1>6, <2>2, CreatorDealt DEF Spread, Lost
  <2>3. QED
    BY <2>1, <2>2
<1>8. QED
  BY <1>2, <1>7, SpreadStays

(* The peer answers: it takes the article, or has it, or it is the newgroup
   message of a group the peer has. *)
LEMMA OfferSettles ==
  ASSUME FloodInv, SettleInv, NEW n \in Node, NEW p \in Node, Offer(n, p),
         NEW i \in DOMAIN spool[n], Due(n, p, i, cursor[<<n, p>>] + 1),
         NEW a, a = Item(n, p).art, NEW c, c = spool[n][i].art
  PROVE  Spread(n, p, a, c)'
<1>1. /\ HasNext(n, p) /\ Post(p, n, a, Item(n, p).path) /\ lost' = lost
  BY DEF Offer, Ready
<1>2. /\ a \in Article /\ c \in Article /\ Item(n, p).path \in Seq(Node)
      /\ Item(n, p) = spool[n][cursor[<<n, p>>] + 1]
      /\ cursor[<<n, p>>] + 1 \in DOMAIN spool[n]
  <2>1. cursor[<<n, p>>] + 1 \in DOMAIN spool[n]
    <3>1. spool[n] \in Seq(Entry) /\ cursor[<<n, p>>] \in Nat
      BY <1>1 DEF HasNext, FloodInv, TypeOK, Entry
    <3>2. QED
      BY <1>1, <3>1, ItemOK
  <2>2. QED
    BY <1>1, <2>1, ItemOK, EntryOK DEF Item
<1>3. /\ Creates[c] # NoGroup /\ Creates[c] \in Groups[a]
      /\ p \in MayRead[Creates[c]] /\ n \in MayPost[Creates[c]]
  BY <1>2 DEF Due
<1>4. Grows /\ (Creates[a] # NoGroup => Creates[a] \in groups'[p])
  BY <1>1, <1>2, PostAdds
<1>5. Accepts(p, n, a) => a \in Has(p)'
  BY <1>1, <1>2, PostAdds
<1>6. CASE i = cursor[<<n, p>>] + 1
  <2>1. a = c
    BY <1>2, <1>6
  <2>2. QED
    BY <1>3, <1>4, <2>1 DEF Spread
<1>7. CASE i # cursor[<<n, p>>] + 1
  <2>1. CASE <<n, p, c>> \in lost
    BY <1>1, <2>1 DEF Spread, Lost
  <2>2. CASE Creates[c] \in groups[p]
    <3>1. Creates[c] \in groups'[p]
      BY <1>4, <2>2 DEF Grows
    <3>2. Creates[a] = NoGroup
      <4>1. SUFFICES ASSUME Creates[a] # NoGroup
                     PROVE  FALSE
        OBVIOUS
      <4>2. Creates[c] = Creates[a]
        BY <1>2, <1>3, <4>1, FloodAssumption
      <4>3. QED
        BY <1>2, <1>3, <1>7, <4>2 DEF SettleInv, CreatorOnceInv
    <3>3. Creates[a] \notin groups[p]
      BY <3>2, FloodAssumption DEF FloodInv, TypeOK
    <3>4. a \in Has(p) \/ Accepts(p, n, a)
      BY <1>3, <2>2, <3>3 DEF Accepts
    <3>5. a \in Has(p)'
      <4>1. Has(p) \subseteq Has(p)'
        BY <1>4 DEF Grows, Has
      <4>2. QED
        BY <1>5, <3>4, <4>1
    <3>6. QED
      BY <3>1, <3>5 DEF Spread
  <2>3. QED
    BY <1>1, <1>7, <2>1, <2>2, CreatorDealt
<1>8. QED
  BY <1>6, <1>7

LEMMA LoseSettles ==
  ASSUME NEW n \in Node, NEW p \in Node, Lose(n, p), NEW a, a = Item(n, p).art, NEW c
  PROVE  Spread(n, p, a, c)'
<1>1. <<n, p, a>> \in lost'
  BY DEF Lose
<1>2. QED
  BY <1>1 DEF Spread, Lost

LEMMA DealtKept ==
  ASSUME FloodInv, SettleInv, Grows, UNCHANGED cursor, spool' \in [Node -> Seq(Entry)]
  PROVE  DealtInv'
<1> SUFFICES ASSUME NEW e \in Peered,
                    NEW i \in DOMAIN spool'[e[1]], NEW j \in DOMAIN spool'[e[1]],
                    Due(e[1], e[2], i, j)', j <= cursor'[e]
             PROVE  Spread(e[1], e[2], spool[e[1]][j].art, spool[e[1]][i].art)'
  BY DEF DealtInv
<1>1. QED
  BY DealtStays

(* A feed that goes on by one article has that one to answer for. *)
LEMMA DealtAdvances ==
  ASSUME FloodInv, SettleInv, Grows, spool' \in [Node -> Seq(Entry)],
         NEW n \in Node, NEW p \in Node, HasNext(n, p), Advance(n, p),
         \A i \in DOMAIN spool[n] : Due(n, p, i, cursor[<<n, p>>] + 1) =>
            \A a, c : a = Item(n, p).art /\ c = spool[n][i].art => Spread(n, p, a, c)'
  PROVE  DealtInv'
<1> SUFFICES ASSUME NEW e \in Peered,
                    NEW i \in DOMAIN spool'[e[1]], NEW j \in DOMAIN spool'[e[1]],
                    Due(e[1], e[2], i, j)', j <= cursor'[e]
             PROVE  Spread(e[1], e[2], spool[e[1]][j].art, spool[e[1]][i].art)'
  BY DEF DealtInv
<1>1. CASE j <= cursor[e]
  BY <1>1, DealtStays
<1>2. CASE ~(j <= cursor[e])
  <2>1. /\ cursor \in [Peered -> Nat] /\ <<n, p>> \in Peered /\ e[1] \in Node
        /\ spool[n] \in Seq(Entry) /\ cursor[<<n, p>>] + 1 <= Len(spool[n])
    BY ItemOK, FloodAssumption DEF FloodInv, TypeOK, Entry
  <2>2. cursor' = [cursor EXCEPT ![<<n, p>>] = cursor[<<n, p>>] + 1]
    BY DEF Advance
  <2>3. e = <<n, p>>
    BY <1>2, <2>1, <2>2
  <2>4. e[1] = n /\ e[2] = p /\ cursor'[e] = cursor[e] + 1 /\ cursor[e] \in Nat
    BY <2>1, <2>2, <2>3
  <2>5. i \in Nat \ {0} /\ j \in Nat \ {0} /\ i <= j
    <3>1. spool'[n] \in Seq(Entry)
      OBVIOUS
    <3>2. QED
      BY <2>4, <3>1 DEF Due
  <2>6. j = cursor[e] + 1
    BY <1>2, <2>4, <2>5
  <2>7. i \in DOMAIN spool[n] /\ j \in DOMAIN spool[n]
    BY <2>1, <2>3, <2>5, <2>6
  <2>8. spool'[n][i] = spool[n][i] /\ spool'[n][j] = spool[n][j]
    BY <2>7 DEF Grows
  <2>9. Due(n, p, i, j)
    BY <2>4, <2>8 DEF Due
  <2>10. Item(n, p) = spool[n][j]
    BY <2>3, <2>6 DEF Item
  <2>11. \A a, c : a = spool[n][j].art /\ c = spool[n][i].art => Spread(n, p, a, c)'
    BY <2>3, <2>6, <2>7, <2>9, <2>10
  <2>12. QED
    BY <2>4, <2>8, <2>11
<1>3. QED
  BY <1>1, <1>2

LEMMA InductiveSettle == FloodInv /\ SettleInv /\ [Next]_vars => SettleInv'
<1> SUFFICES ASSUME FloodInv, SettleInv, [Next]_vars
             PROVE  SettleInv'
  OBVIOUS
<1>1. spool' \in [Node -> Seq(Entry)]
  BY InductiveFlood DEF FloodInv, TypeOK, Entry
<1>2. ASSUME NEW a \in Article, Write(a)
      PROVE  SettleInv'
  <2>1. Origin[a] \in Node /\ <<>> \in Seq(Node) /\ lost \subseteq lost' /\ UNCHANGED cursor
    BY <1>2, FloodAssumption DEF Write
  <2>2. Grows /\ CreatorInv' /\ CreatorOnceInv'
    BY <1>2, <2>1, PostAdds, CreatorsKept DEF Write
  <2>3. QED
    BY <1>1, <2>1, <2>2, DealtKept DEF SettleInv
<1>3. ASSUME NEW n \in Node, NEW p \in Node, Skip(n, p) \/ Lose(n, p)
      PROVE  SettleInv'
  <2>1. /\ HasNext(n, p) /\ Advance(n, p) /\ UNCHANGED <<spool, groups>>
        /\ lost \subseteq lost'
    BY <1>3 DEF Skip, Lose, Ready
  <2>2. Grows
    BY <2>1 DEF Grows
  <2>3. CreatorInv' /\ CreatorOnceInv'
    BY <2>1 DEF SettleInv, CreatorInv, CreatorOnceInv
  <2>4. DealtInv'
    BY <1>1, <1>3, <2>1, <2>2, SkipSettles, LoseSettles, DealtAdvances
  <2>5. QED
    BY <2>3, <2>4 DEF SettleInv
<1>4. ASSUME NEW n \in Node, NEW p \in Node, Offer(n, p) \/ OfferUncounted(n, p)
      PROVE  SettleInv'
  <2>1. /\ HasNext(n, p) /\ Post(p, n, Item(n, p).art, Item(n, p).path) /\ lost \subseteq lost'
    BY <1>4 DEF Offer, OfferUncounted, Ready
  <2>2. Item(n, p).art \in Article /\ Item(n, p).path \in Seq(Node)
    BY <2>1, ItemOK
  <2>3. Grows /\ CreatorInv' /\ CreatorOnceInv'
    BY <2>1, <2>2, PostAdds, CreatorsKept
  <2>4. CASE Offer(n, p)
    <3>1. Advance(n, p)
      BY <2>4 DEF Offer
    <3>2. DealtInv'
      BY <1>1, <2>1, <2>3, <2>4, <3>1, OfferSettles, DealtAdvances
    <3>3. QED
      BY <2>3, <3>2 DEF SettleInv
  <2>5. CASE OfferUncounted(n, p)
    BY <1>1, <2>3, <2>5, DealtKept DEF OfferUncounted, SettleInv
  <2>6. QED
    BY <1>4, <2>4, <2>5
<1>5. CASE UNCHANGED vars \/ \E n \in Node, a \in Article : Withdraw(n, a) \/ Tear(n, a)
  <2>1. UNCHANGED <<spool, groups, cursor, lost>>
    BY <1>5 DEF vars, Withdraw, Tear
  <2>2. Grows
    BY <2>1 DEF Grows
  <2>3. CreatorInv' /\ CreatorOnceInv'
    BY <2>1 DEF SettleInv, CreatorInv, CreatorOnceInv
  <2>4. QED
    BY <1>1, <2>1, <2>2, <2>3, DealtKept DEF SettleInv
<1>6. QED
  BY <1>2, <1>3, <1>4, <1>5 DEF Next, SendMessages
-----------------------------------------------------------------------------
(* Position, of an article that is there. *)
LEMMA PositionOK ==
  ASSUME FloodInv, NEW n \in Node, NEW a \in Has(n)
  PROVE  Position(n, a) \in DOMAIN spool[n] /\ spool[n][Position(n, a)].art = a
  BY DEF Has, Position

LEMMA DealtIsSettled ==
  ASSUME FloodInv, SettleInv, NEW e \in Peered, NEW c \in Newgroups(e[1]), NEW a \in Has(e[1]),
         Owes(e[1], e[2], a, c), Position(e[1], a) <= cursor[e]
  PROVE  Spread(e[1], e[2], a, c)
<1> DEFINE i == Position(e[1], c)
           j == Position(e[1], a)
<1>1. e[1] \in Node /\ c \in Has(e[1]) /\ Creates[c] # NoGroup
  BY FloodAssumption DEF Newgroups
<1>2. /\ i \in DOMAIN spool[e[1]] /\ spool[e[1]][i].art = c
      /\ j \in DOMAIN spool[e[1]] /\ spool[e[1]][j].art = a
  BY <1>1, PositionOK
<1>3. Due(e[1], e[2], i, j)
  BY <1>1, <1>2 DEF Owes, Due
<1> HIDE DEF i, j
<1>4. j <= cursor[e]
  BY DEF j
<1>5. QED
  BY <1>2, <1>3, <1>4 DEF SettleInv, DealtInv
-----------------------------------------------------------------------------
(* What the other theorems rest on: no node ever has an article twice, and
   the nodes an article came by keep it. *)
THEOREM FloodInvariance == Spec => []FloodInv
<1>1. QED
  BY InitialFlood, InductiveFlood, PTL DEF Spec

(* Every reachable state of the network is well typed: no feed counts more
   articles as dealt with than its node has. *)
THEOREM TypeCorrectFlood == Spec => []TypeOK
<1>1. FloodInv => TypeOK
  BY DEF FloodInv
<1>2. QED
  BY <1>1, FloodInvariance, PTL

(* In any network, the path of an article is the way it came: from peer to
   peer, no node twice, from its origin, over hops the cards allow. *)
THEOREM PathsAreWays == Spec => []PathIsWay
<1>1. ASSUME FloodInv
      PROVE  PathIsWay
  <2> SUFFICES ASSUME NEW n \in Node, NEW i \in DOMAIN spool[n]
               PROVE  LET path == spool[n][i].path
                          a == spool[n][i].art
                      IN  /\ Head(path) = n /\ Last(path) = Origin[a] /\ IsInjective(path)
                          /\ \A j \in 1 .. Len(path) - 1 :
                              /\ <<path[j + 1], path[j]>> \in Peered
                              /\ a \in Has(path[j + 1])
                              /\ \E g \in Groups[a] : path[j] \in MayRead[g]
                              /\ \E g \in Groups[a] : path[j + 1] \in MayPost[g]
    BY DEF PathIsWay
  <2> DEFINE path == spool[n][i].path
             a == spool[n][i].art
  <2>1. path \in Seq(Node) /\ IsWay(n, a, path)
    <3>1. spool[n] \in Seq(Entry)
      BY <1>1 DEF FloodInv, TypeOK, Entry
    <3>2. spool[n][i] \in Entry
      BY <3>1
    <3>3. QED
      BY <1>1, <3>2 DEF FloodInv, WayInv, Entry
  <2>2. \A m \in Node : Contains(path, m) => a \in Has(m)
    BY <1>1 DEF FloodInv, KnownInv
  <2> HIDE DEF path, a
  <2>3. ASSUME NEW j \in 1 .. Len(path) - 1
        PROVE  Hop(path[j + 1], path[j], a) /\ a \in Has(path[j + 1])
    <3>1. j + 1 \in 1 .. Len(path) /\ path[j + 1] \in Node
      BY <2>1
    <3>2. Contains(path, path[j + 1])
      BY <3>1 DEF Contains
    <3>3. QED
      BY <2>1, <2>2, <3>1, <3>2 DEF IsWay
  <2>4. QED
    BY <2>1, <2>3 DEF IsWay, Hop, path, a
<1>2. QED
  BY <1>1, FloodInvariance, PTL

(* In any network no feed passes over what it owes its peer: the peer has the
   group and the article, or a dead connection has swallowed one of the two. *)
THEOREM FeedsNeverPassOver == Spec => []FeedsSettle
<1>1. Spec => []SettleInv
  BY InitialSettle, InductiveSettle, FloodInvariance, PTL DEF Spec
<1>2. FloodInv /\ SettleInv => FeedsSettle
  BY DealtIsSettled DEF FeedsSettle
<1>3. QED
  BY <1>1, <1>2, FloodInvariance, PTL

(* When every feed is through with its node's articles, everything owed has
   spread: what is left to fairness is that the feeds get there. *)
CaughtUp == \A e \in Peered : cursor[e] = Len(spool[e[1]])

THEOREM CaughtUpIsSettled == Spec => [](CaughtUp => Settled)
<1>1. ASSUME FloodInv, FeedsSettle, CaughtUp
      PROVE  Settled
  <2> SUFFICES ASSUME NEW e \in Peered, NEW c \in Newgroups(e[1]), NEW a \in Has(e[1]),
                      Owes(e[1], e[2], a, c)
               PROVE  Spread(e[1], e[2], a, c)
    BY DEF Settled
  <2>1. Position(e[1], a) <= cursor[e]
    <3>1. e[1] \in Node
      BY FloodAssumption
    <3>2. spool[e[1]] \in Seq(Entry) /\ Position(e[1], a) \in DOMAIN spool[e[1]]
      BY <1>1, <3>1, PositionOK DEF FloodInv, TypeOK, Entry
    <3>3. QED
      BY <1>1, <3>2 DEF CaughtUp
  <2>2. QED
    BY <1>1, <2>1 DEF FeedsSettle
<1>2. QED
  BY <1>1, FloodInvariance, FeedsNeverPassOver, PTL
-----------------------------------------------------------------------------
(* What a step does to the articles of node n: nothing, or it adds a. *)
Appended(n, a) ==
    /\ a \notin Has(n)
    /\ Len(spool'[n]) = Len(spool[n]) + 1
    /\ spool'[n][Len(spool[n]) + 1].art = a
    /\ \A i \in DOMAIN spool[n] : spool'[n][i] = spool[n][i]

LEMMA PostAppends ==
  ASSUME FloodInv, NEW m \in Node, NEW from, NEW a \in Article, NEW path \in Seq(Node),
         Post(m, from, a, path), NEW n \in Node
  PROVE  spool'[n] = spool[n] \/ Appended(n, a)
<1> DEFINE entry == [art |-> a, path |-> <<m>> \o path]
<1>1. spool \in [Node -> Seq(Entry)]
  BY DEF FloodInv, TypeOK, Entry
<1>2. CASE ~Accepts(m, from, a)
  BY <1>2 DEF Post
<1>3. CASE Accepts(m, from, a)
  <2>1. spool' = [spool EXCEPT ![m] = Append(spool[m], entry)]
    BY <1>3 DEF Post
  <2>2. entry \in Entry /\ entry.art = a
    BY Prepend DEF Entry
  <2> HIDE DEF entry
  <2>3. CASE n # m
    BY <1>1, <2>1, <2>3
  <2>4. CASE n = m
    <3>1. spool'[n] = Append(spool[n], entry) /\ spool[n] \in Seq(Entry)
      BY <1>1, <2>1, <2>4
    <3>2. /\ Len(spool'[n]) = Len(spool[n]) + 1
          /\ spool'[n][Len(spool[n]) + 1] = entry
          /\ \A i \in DOMAIN spool[n] : spool'[n][i] = spool[n][i]
      BY <2>2, <3>1
    <3>3. QED
      BY <1>3, <2>2, <2>4, <3>2 DEF Accepts, Appended
  <2>5. QED
    BY <2>3, <2>4
<1>4. QED
  BY <1>2, <1>3

(* Or it takes the file of an article away, of n's or another node's. *)
LEMMA NodeStep ==
  ASSUME FloodInv, [Next]_vars, NEW n \in Node
  PROVE  \/ spool'[n] = spool[n] /\ Spoilt' = Spoilt
         \/ (\E a \in Article : Appended(n, a)) /\ Spoilt' = Spoilt
         \/ spool' = spool /\ \E m \in Node, a \in Article : TakenAway(m, a)
<1>1. ASSUME NEW a \in Article, Write(a)
      PROVE  (spool'[n] = spool[n] \/ Appended(n, a)) /\ Spoilt' = Spoilt
  <2>1. Origin[a] \in Node /\ <<>> \in Seq(Node)
    BY FloodAssumption
  <2>2. QED
    BY <1>1, <2>1, PostAppends DEF Write, files, Spoilt
<1>2. ASSUME NEW m \in Node, NEW p \in Node, Offer(m, p) \/ OfferUncounted(m, p)
      PROVE  (\E a \in Article : spool'[n] = spool[n] \/ Appended(n, a)) /\ Spoilt' = Spoilt
  <2>1. HasNext(m, p) /\ Post(p, m, Item(m, p).art, Item(m, p).path)
    BY <1>2 DEF Offer, OfferUncounted, Ready
  <2>2. Spoilt' = Spoilt
    BY <1>2 DEF Offer, OfferUncounted, files, Spoilt
  <2>3. QED
    BY <2>1, <2>2, ItemOK, PostAppends
<1>3. ASSUME NEW m \in Node, NEW p \in Node, Skip(m, p) \/ Lose(m, p)
      PROVE  spool' = spool /\ Spoilt' = Spoilt
  BY <1>3 DEF Skip, Lose, files, Spoilt
<1>4. ASSUME NEW m \in Node, NEW a \in Article, Withdraw(m, a) \/ Tear(m, a)
      PROVE  spool' = spool /\ TakenAway(m, a)
  BY <1>4, FileGoes
<1>5. CASE UNCHANGED vars
  BY <1>5 DEF vars, files, Spoilt
<1>6. QED
  BY <1>1, <1>2, <1>3, <1>4, <1>5 DEF Next, SendMessages

(* No node has more articles than there are. *)
LEMMA SpoolFits ==
  ASSUME IsFiniteSet(Article), NEW s \in Seq(Entry),
         \A i, j \in DOMAIN s : s[i].art = s[j].art => i = j
  PROVE  Cardinality(Article) \in Nat /\ Len(s) <= Cardinality(Article)
<1> DEFINE f == [i \in 1 .. Len(s) |-> s[i].art]
<1>1. Len(s) \in Nat /\ DOMAIN s = 1 .. Len(s)
  OBVIOUS
<1>2. Cardinality(Article) \in Nat
  BY FS_CardinalityType
<1>3. IsFiniteSet(1 .. Len(s)) /\ Cardinality(1 .. Len(s)) = Len(s)
  BY <1>1, FS_Interval
<1>4. f \in [1 .. Len(s) -> Article]
  <2>1. \A i \in 1 .. Len(s) : s[i] \in Entry
    BY <1>1
  <2>2. QED
    BY <2>1 DEF Entry
<1>5. \A i, j \in 1 .. Len(s) : f[i] = f[j] => i = j
  BY <1>1
<1> HIDE DEF f
<1>6. ~(Cardinality(Article) < Cardinality(1 .. Len(s)))
  BY <1>3, <1>4, <1>5, FS_PigeonHole
<1>7. QED
  BY <1>1, <1>2, <1>3, <1>6

(* The numbers of a node's articles. *)
LEMMA NumbersOK ==
  ASSUME FloodInv, NEW n \in Node
  PROVE  /\ \A a \in Article : a \notin Has(n) => Numbers(n)[a] = 0
         /\ \A i \in DOMAIN spool[n] : Numbers(n)[spool[n][i].art] = i
<1>1. \A a \in Article : a \notin Has(n) => Numbers(n)[a] = 0
  BY DEF Numbers
<1>2. ASSUME NEW i \in DOMAIN spool[n]
      PROVE  Numbers(n)[spool[n][i].art] = i
  <2>1. spool[n][i].art \in Article /\ spool[n][i].art \in Has(n)
    BY EntryOK
  <2>2. Position(n, spool[n][i].art) = i
    BY <2>1, PositionOK DEF FloodInv, OnceInv
  <2>3. QED
    BY <2>1, <2>2 DEF Numbers
<1>3. QED
  BY <1>1, <1>2

Readable(n) == {a \in Has(n) : <<n, a>> \notin Spoilt}

LEMMA ReadableIs ==
  ASSUME NEW n \in Node
  PROVE  /\ Readable(n) = {a \in Has(n) : <<n, a>> \notin gone \union torn}
         /\ Readable(n)' = {a \in Has(n) : <<n, a>> \notin gone \union torn}'
BY DEF Readable, Spoilt

(* An article that is added is one that Spool accepts: its number, its place,
   is above every other. *)
LEMMA AppendedIsAccept ==
  ASSUME FloodInv, FloodInv', IsFiniteSet(Article), NEW n \in Node, NEW a \in Article,
         Appended(n, a), Spoilt' = Spoilt
  PROVE  NodeSpool(n)!SpoolNext
<1> DEFINE k == Len(spool[n]) + 1
<1>1. spool[n] \in Seq(Entry) /\ spool'[n] \in Seq(Entry)
  BY DEF FloodInv, TypeOK, Entry
<1>2. /\ Len(spool[n]) \in Nat /\ Len(spool'[n]) = k
      /\ DOMAIN spool[n] = 1 .. Len(spool[n]) /\ DOMAIN spool'[n] = 1 .. k
      /\ spool'[n][k].art = a
      /\ \A i \in DOMAIN spool[n] : spool'[n][i] = spool[n][i]
  BY <1>1 DEF Appended
<1>3. /\ k \in DOMAIN spool'[n] /\ DOMAIN spool[n] \subseteq DOMAIN spool'[n]
      /\ \A i \in DOMAIN spool'[n] : i = k \/ i \in DOMAIN spool[n]
      /\ \A i \in DOMAIN spool[n] : i < k
      /\ k > 0 /\ k \in Nat
  BY <1>2
<1>4. k <= Cardinality(Article) /\ Cardinality(Article) \in Nat
  <2>1. \A i, j \in DOMAIN spool'[n] : spool'[n][i].art = spool'[n][j].art => i = j
    BY DEF FloodInv, OnceInv
  <2>2. QED
    BY <1>1, <1>2, <2>1, SpoolFits
<1>5. k \in NodeSpool(n)!Number
  BY <1>3, <1>4 DEF NodeSpool!Number
<1> HIDE DEF k
<1>6. Has(n)' = Has(n) \union {a}
  BY <1>2, <1>3 DEF Has
<1>7. \A b \in Article : Numbers(n)[b] < k
  <2> SUFFICES ASSUME NEW b \in Article
               PROVE  Numbers(n)[b] < k
    OBVIOUS
  <2>1. CASE b \in Has(n)
    <3>1. PICK i \in DOMAIN spool[n] : spool[n][i].art = b
      BY <2>1 DEF Has
    <3>2. QED
      BY <1>3, <3>1, NumbersOK
  <2>2. CASE b \notin Has(n)
    BY <1>3, <2>2, NumbersOK
  <2>3. QED
    BY <2>1, <2>2
<1>8. \A i \in DOMAIN spool'[n] : Position(n, spool[n][i].art)' = i
  <2> SUFFICES ASSUME NEW i \in DOMAIN spool'[n]
               PROVE  Position(n, spool[n][i].art)' = i
    OBVIOUS
  <2>1. \A j \in DOMAIN spool'[n] : spool'[n][j].art = spool'[n][i].art => j = i
    BY DEF FloodInv, OnceInv
  <2>2. QED
    BY <2>1 DEF Position
<1>9. ASSUME NEW b \in Article
      PROVE  Numbers(n)'[b] = IF b = a THEN k ELSE Numbers(n)[b]
  <2>1. Numbers(n)'[b] = IF b \in Has(n)' THEN Position(n, b)' ELSE 0
    BY DEF Numbers
  <2>2. CASE b = a
    <3>1. Position(n, b)' = k
      BY <1>2, <1>3, <1>8, <2>2
    <3>2. QED
      BY <1>6, <2>1, <2>2, <3>1
  <2>3. CASE b # a /\ b \in Has(n)
    <3>1. PICK i \in DOMAIN spool[n] : spool[n][i].art = b
      BY <2>3 DEF Has
    <3>2. Position(n, b)' = i
      BY <1>2, <1>3, <1>8, <3>1
    <3>3. Numbers(n)[b] = i
      BY <3>1, NumbersOK
    <3>4. QED
      BY <1>6, <2>1, <2>3, <3>2, <3>3
  <2>4. CASE b # a /\ b \notin Has(n)
    BY <1>6, <2>1, <2>4, NumbersOK
  <2>5. QED
    BY <2>2, <2>3, <2>4
<1>10. Numbers(n)' = [Numbers(n) EXCEPT ![a] = k]
  <2>1. Numbers(n)' = [b \in Article |-> Numbers(n)'[b]]
    BY DEF Numbers
  <2>2. [Numbers(n) EXCEPT ![a] = k] = [b \in Article |-> IF b = a THEN k ELSE Numbers(n)[b]]
    BY DEF Numbers
  <2>3. QED
    BY <1>9, <2>1, <2>2
<1>11. Numbers(n)[a] = 0
  BY NumbersOK DEF Appended
<1>12. Readable(n)' = Readable(n) \union {a}
  <2>1. <<n, a>> \notin Spoilt
    BY DEF FloodInv, FilesInv, Spoilt, Appended
  <2>2. QED
    BY <1>6, <2>1 DEF Readable
<1>13. NodeSpool(n)!Accept(a)
  BY <1>5, <1>7, <1>10, <1>11, <1>12, ReadableIs DEF NodeSpool!Accept
<1>14. QED
  BY <1>13 DEF NodeSpool!SpoolNext

(* A file that is taken away is one that Spool withdraws. *)
LEMMA TakenIsWithdraw ==
  ASSUME NEW m \in Node, NEW a \in Article, TakenAway(m, a), spool' = spool, NEW n \in Node
  PROVE  [NodeSpool(n)!SpoolNext]_(NodeSpool(n)!spoolVars)
<1>1. Has(n)' = Has(n) /\ Numbers(n)' = Numbers(n)
  BY DEF Has, Numbers, Position
<1>2. CASE m = n
  <2>1. a \in Readable(n) /\ Readable(n)' = Readable(n) \ {a}
    BY <1>1, <1>2 DEF TakenAway, Readable
  <2>2. NodeSpool(n)!Withdraw(a)
    BY <1>1, <2>1, ReadableIs DEF NodeSpool!Withdraw
  <2>3. QED
    BY <2>2 DEF NodeSpool!SpoolNext
<1>3. CASE m # n
  <2>1. Readable(n)' = Readable(n)
    BY <1>1, <1>3 DEF TakenAway, Readable
  <2>2. QED
    BY <1>1, <2>1, ReadableIs DEF NodeSpool!spoolVars
<1>4. QED
  BY <1>2, <1>3

(* Every node of a network of finitely many articles is a Spool: the sequence
   that Flood has of a store promises its feeds what Store.tla's does. *)
THEOREM EachNodeIsSpool == ASSUME IsFiniteSet(Article) PROVE Spec => NodesAreSpools
<1>1. Init => \A n \in Node : NodeSpool(n)!SpoolInit
  BY DEF Init, NodeSpool!SpoolInit, Numbers, Has
<1>2. ASSUME FloodInv, FloodInv', [Next]_vars
      PROVE  \A n \in Node : [NodeSpool(n)!SpoolNext]_(NodeSpool(n)!spoolVars)
  <2> SUFFICES ASSUME NEW n \in Node
               PROVE  [NodeSpool(n)!SpoolNext]_(NodeSpool(n)!spoolVars)
    OBVIOUS
  <2>1. CASE spool'[n] = spool[n] /\ Spoilt' = Spoilt
    <3>1. Has(n)' = Has(n) /\ Numbers(n)' = Numbers(n) /\ Readable(n)' = Readable(n)
      BY <2>1 DEF Has, Numbers, Position, Readable
    <3>2. QED
      BY <3>1, ReadableIs DEF NodeSpool!spoolVars
  <2>2. CASE (\E a \in Article : Appended(n, a)) /\ Spoilt' = Spoilt
    BY <1>2, <2>2, AppendedIsAccept
  <2>3. CASE spool' = spool /\ \E m \in Node, a \in Article : TakenAway(m, a)
    BY <2>3, TakenIsWithdraw
  <2>4. QED
    BY <1>2, <2>1, <2>2, <2>3, NodeStep
<1>3. QED
  BY <1>1, <1>2, FloodInvariance, PTL DEF Spec, NodesAreSpools
=============================================================================
