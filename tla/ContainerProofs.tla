-------------------------- MODULE ContainerProofs ---------------------------
(***************************************************************************)
(* The deque and its users, for any nodes, values, keys and texts: the     *)
(* links are exact in both directions, a deque used through its iterators  *)
(* is a sequence with a place in it, a map of different keys is a function *)
(* in the order of its keys, and the scan of String::arg fills its map     *)
(* with the numbers of the text.                                           *)
(*                                                                         *)
(* The links are followed in a sequence of the nodes, s, in their order:   *)
(* Chain(e, s) says what every link of e is in terms of s, and a step      *)
(* inserts into s or removes from it.                                      *)
(***************************************************************************)
EXTENDS Containers, FiniteSetTheorems, SequenceTheorems, WellFoundedInduction, TLAPS

(* A set of natural numbers has a least one. *)
LEMMA Least ==
  ASSUME NEW S \in SUBSET Nat, S # {}
  PROVE  \E x \in S : \A y \in S : x <= y
<1>1. PICK x \in S : \A y \in S : <<y, x>> \notin OpToRel(<, Nat)
  BY NatLessThanWellFounded, WFMin
<1>2. \A y \in S : <<y, x>> \in OpToRel(<, Nat) <=> y < x
  BY DEF OpToRel
<1>3. \A y \in S : ~(y < x)
  BY <1>1, <1>2, Zenon
<1> QED BY <1>3

(* Induction, for a set. *)
LEMMA Induct ==
  ASSUME NEW S, 0 \in S, \A n \in Nat : n \in S => n + 1 \in S
  PROVE  Nat \subseteq S
<1> SUFFICES ASSUME Nat \ S # {} PROVE FALSE
  OBVIOUS
<1>1. PICK x \in Nat \ S : \A y \in Nat \ S : x <= y
  BY Least
<1> QED BY <1>1, x - 1 \in Nat

(* Sequences with an element more, and one less, at place k. *)
LEMMA InsertAtIs ==
  ASSUME NEW S, NEW s \in Seq(S), NEW k \in 1 .. Len(s) + 1, NEW x \in S
  PROVE  /\ InsertAt(s, k, x) \in Seq(S) /\ Len(InsertAt(s, k, x)) = Len(s) + 1
         /\ \A j \in 1 .. Len(s) + 1 :
              InsertAt(s, k, x)[j] = IF j < k THEN s[j] ELSE IF j = k THEN x ELSE s[j - 1]
<1> DEFINE p == SubSeq(s, 1, k - 1)
           q == SubSeq(s, k, Len(s))
<1>0. Len(s) \in Nat /\ k \in Int
  BY LenProperties
<1>1. /\ p \in Seq(S) /\ Len(p) = k - 1 /\ \A j \in 1 .. k - 1 : p[j] = s[j]
      /\ q \in Seq(S) /\ Len(q) = Len(s) - k + 1 /\ \A j \in 1 .. Len(s) - k + 1 : q[j] = s[k + j - 1]
  BY SubSeqProperties
<1> HIDE DEF p, q
<1>2. <<x>> \in Seq(S) /\ Len(<<x>>) = 1 /\ <<x>>[1] = x
  OBVIOUS
<1> DEFINE r == p \o <<x>>
<1>3. r \in Seq(S) /\ Len(r) = k /\ \A j \in 1 .. k : r[j] = IF j < k THEN s[j] ELSE x
  BY <1>1, <1>2, ConcatProperties
<1> HIDE DEF r
<1> DEFINE w == r \o q
<1>4. w \in Seq(S) /\ Len(w) = Len(s) + 1
      /\ \A j \in 1 .. Len(s) + 1 : w[j] = IF j <= k THEN r[j] ELSE q[j - k]
  <2>1. Len(r) + Len(q) = Len(s) + 1
    BY <1>0, <1>1, <1>3
  <2>2. w \in Seq(S) /\ Len(w) = Len(r) + Len(q)
        /\ \A j \in 1 .. Len(r) + Len(q) : w[j] = IF j <= Len(r) THEN r[j] ELSE q[j - Len(r)]
    BY <1>1, <1>3, ConcatProperties
  <2> QED BY <1>3, <2>1, <2>2
<1>5. InsertAt(s, k, x) = w
  BY DEF InsertAt, p, q, r
<1> HIDE DEF w
<1>6. ASSUME NEW j \in 1 .. Len(s) + 1
      PROVE  w[j] = IF j < k THEN s[j] ELSE IF j = k THEN x ELSE s[j - 1]
  <2>1. CASE j <= k
    BY <1>3, <1>4, <2>1
  <2>2. CASE j > k
    <3>1. j - k \in 1 .. Len(s) - k + 1 /\ k + (j - k) - 1 = j - 1
      BY <2>2
    <3>2. q[j - k] = s[j - 1]
      BY <1>1, <3>1
    <3> QED BY <1>4, <2>2, <3>2
  <2> QED BY <1>0, <2>1, <2>2
<1> QED BY <1>4, <1>5, <1>6

LEMMA RemoveAtIs ==
  ASSUME NEW S, NEW s \in Seq(S), NEW k \in 1 .. Len(s)
  PROVE  /\ RemoveAt(s, k) \in Seq(S) /\ Len(RemoveAt(s, k)) = Len(s) - 1
         /\ \A j \in 1 .. Len(s) - 1 : RemoveAt(s, k)[j] = IF j < k THEN s[j] ELSE s[j + 1]
<1> DEFINE p == SubSeq(s, 1, k - 1)
           q == SubSeq(s, k + 1, Len(s))
<1>0. Len(s) \in Nat /\ k \in Int
  BY LenProperties
<1>1. /\ p \in Seq(S) /\ Len(p) = k - 1 /\ \A j \in 1 .. k - 1 : p[j] = s[j]
      /\ q \in Seq(S) /\ Len(q) = Len(s) - k /\ \A j \in 1 .. Len(s) - k : q[j] = s[k + j]
  BY SubSeqProperties
<1> HIDE DEF p, q
<1> DEFINE w == p \o q
<1>2. w \in Seq(S) /\ Len(w) = Len(s) - 1
      /\ \A j \in 1 .. Len(s) - 1 : w[j] = IF j < k THEN p[j] ELSE q[j - k + 1]
  <2>1. Len(p) + Len(q) = Len(s) - 1
    BY <1>0, <1>1
  <2>2. w \in Seq(S) /\ Len(w) = Len(p) + Len(q)
        /\ \A j \in 1 .. Len(p) + Len(q) : w[j] = IF j <= Len(p) THEN p[j] ELSE q[j - Len(p)]
    BY <1>1, ConcatProperties
  <2> QED BY <1>0, <1>1, <2>1, <2>2
<1>3. RemoveAt(s, k) = w
  BY DEF RemoveAt, p, q
<1> HIDE DEF w
<1>4. ASSUME NEW j \in 1 .. Len(s) - 1
      PROVE  w[j] = IF j < k THEN s[j] ELSE s[j + 1]
  <2>1. CASE j < k
    BY <1>1, <1>2, <2>1
  <2>2. CASE j >= k
    <3>1. j - k + 1 \in 1 .. Len(s) - k /\ k + (j - k + 1) = j + 1
      BY <2>2
    <3>2. q[j - k + 1] = s[j + 1]
      BY <1>1, <3>1
    <3> QED BY <1>2, <2>2, <3>2
  <2> QED BY <1>0, <2>1, <2>2
<1> QED BY <1>2, <1>3, <1>4

-----------------------------------------------------------------------------
(* f is the places of a walk of k steps from n. *)
Steps(f, e, n, k, side) ==
  f = [j \in 0 .. k |-> IF j = 0 THEN n ELSE Read(e, f[j - 1], side)]

(* Walk is a recursive function: there is one, and it is what one expects. *)
LEMMA StepsExist ==
  ASSUME NEW e, NEW n, NEW side, NEW k \in Nat
  PROVE  \E f : Steps(f, e, n, k, side)
<1> DEFINE S == {m \in Nat : \E f : Steps(f, e, n, m, side)}
<1>1. 0 \in S
  <2> DEFINE f == [j \in 0 .. 0 |-> n]
  <2>1. Steps(f, e, n, 0, side)
    BY DEF Steps
  <2> QED BY <2>1
<1>2. ASSUME NEW m \in Nat, m \in S PROVE m + 1 \in S
  <2>1. PICK f : Steps(f, e, n, m, side)
    BY <1>2
  <2> DEFINE g == [j \in 0 .. m + 1 |-> IF j = m + 1 THEN Read(e, f[m], side) ELSE f[j]]
  <2>2. \A j \in 0 .. m : f[j] = IF j = 0 THEN n ELSE Read(e, f[j - 1], side)
    BY <2>1 DEF Steps
  <2>3. g = [j \in 0 .. m + 1 |-> IF j = 0 THEN n ELSE Read(e, g[j - 1], side)]
    BY <2>2
  <2>4. Steps(g, e, n, m + 1, side)
    BY <2>3 DEF Steps
  <2> QED BY <2>4
<1> HIDE DEF S
<1>3. Nat \subseteq S
  BY <1>1, <1>2, Induct
<1> QED BY <1>3 DEF S

LEMMA WalkSteps ==
  ASSUME NEW e, NEW n, NEW side, NEW k \in Nat
  PROVE  \E f : Steps(f, e, n, k, side) /\ Walk(e, n, k, side) = f[k]
<1> DEFINE f == CHOOSE g : Steps(g, e, n, k, side)
<1>1. Steps(f, e, n, k, side)
  BY StepsExist
<1>2. Walk(e, n, k, side) = f[k]
  BY DEF Walk, Steps
<1> QED BY <1>1, <1>2

(* A longer walk begins like a shorter one. *)
LEMMA StepsAgree ==
  ASSUME NEW e, NEW n, NEW side, NEW k \in Nat, NEW m \in Nat, k <= m,
         NEW f, Steps(f, e, n, k, side), NEW g, Steps(g, e, n, m, side)
  PROVE  \A j \in 0 .. k : f[j] = g[j]
<1> DEFINE S == {j \in Nat : j <= k => f[j] = g[j]}
<1>0. /\ \A j \in 0 .. k : f[j] = IF j = 0 THEN n ELSE Read(e, f[j - 1], side)
      /\ \A j \in 0 .. m : g[j] = IF j = 0 THEN n ELSE Read(e, g[j - 1], side)
  BY DEF Steps
<1>1. 0 \in S
  BY <1>0
<1>2. ASSUME NEW j \in Nat, j \in S PROVE j + 1 \in S
  BY <1>0, <1>2
<1> HIDE DEF S
<1>3. Nat \subseteq S
  BY <1>1, <1>2, Induct
<1> QED BY <1>3 DEF S

(* A walk of no step, and one of a step more. *)
LEMMA WalkZero ==
  ASSUME NEW e, NEW n, NEW side
  PROVE  Walk(e, n, 0, side) = n
  BY WalkSteps DEF Steps

LEMMA WalkOn ==
  ASSUME NEW e, NEW n, NEW side, NEW k \in Nat, NEW m, m = k + 1
  PROVE  Walk(e, n, m, side) = Read(e, Walk(e, n, k, side), side)
<1>1. PICK f : Steps(f, e, n, k, side) /\ Walk(e, n, k, side) = f[k]
  BY WalkSteps
<1>2. PICK g : Steps(g, e, n, m, side) /\ Walk(e, n, m, side) = g[m]
  BY WalkSteps
<1>3. f[k] = g[k]
  BY <1>1, <1>2, StepsAgree
<1>4. g[m] = Read(e, g[k], side)
  BY <1>2 DEF Steps
<1> QED BY <1>1, <1>2, <1>3, <1>4

-----------------------------------------------------------------------------
(* The members of a deque and of its nodes, and no others. *)
Shaped(e) ==
  /\ e = [node |-> e.node, first |-> e.first, mid |-> e.mid, last |-> e.last, size |-> e.size]
  /\ e.node = [n \in DOMAIN e.node |-> [val  |-> e.node[n].val, prev |-> e.node[n].prev,
                                        next |-> e.node[n].next]]
  /\ e.size \in Nat /\ (e.size = 0 <=> DOMAIN e.node = {})

AtOrNull(s, j) == IF j \in 1 .. Len(s) THEN s[j] ELSE Null

(* The nodes of e are those of s, each once, in this order by their links. *)
Chain(e, s) ==
  /\ s \in Seq(Nodes)
  /\ \A j, k \in 1 .. Len(s) : s[j] = s[k] => j = k
  /\ DOMAIN e.node = {s[j] : j \in 1 .. Len(s)}
  /\ e.first = AtOrNull(s, 1) /\ e.last = AtOrNull(s, Len(s))
  /\ \A j \in 1 .. Len(s) : /\ e.node[s[j]].prev = AtOrNull(s, j - 1)
                            /\ e.node[s[j]].next = AtOrNull(s, j + 1)

(* What one needs to know of a chain. *)
LEMMA ChainFacts ==
  ASSUME NEW e, NEW s, Chain(e, s)
  PROVE  /\ Len(s) \in Nat /\ \A j \in 1 .. Len(s) : s[j] \in Nodes /\ s[j] \in DOMAIN e.node
         /\ \A n \in DOMAIN e.node : \E j \in 1 .. Len(s) : n = s[j]
         /\ IsFiniteSet(DOMAIN e.node) /\ Cardinality(DOMAIN e.node) = Len(s)
         /\ Null \notin DOMAIN e.node /\ Junk \notin DOMAIN e.node
<1>1. s \in Seq(Nodes) /\ Len(s) \in Nat /\ \A j \in 1 .. Len(s) : s[j] \in Nodes
  BY LenProperties, ElementOfSeq DEF Chain
<1>2. DOMAIN e.node = {s[j] : j \in 1 .. Len(s)}
  BY DEF Chain
<1>3. s \in Bijection(1 .. Len(s), DOMAIN e.node)
  <2>1. s = [j \in 1 .. Len(s) |-> s[j]]
    BY <1>1, LenProperties
  <2>2. s \in [1 .. Len(s) -> DOMAIN e.node]
    BY <1>2, <2>1
  <2>3. \A j, k \in 1 .. Len(s) : s[j] = s[k] => j = k
    BY DEF Chain
  <2> QED BY <1>2, <2>2, <2>3 DEF Bijection, Injection, Surjection, IsInjective
<1>4. ExistsBijection(1 .. Len(s), DOMAIN e.node)
  BY <1>3 DEF ExistsBijection
<1>5. IsFiniteSet(DOMAIN e.node) /\ Cardinality(DOMAIN e.node) = Len(s)
  BY <1>1, <1>4, FS_NatBijection, FS_CountingElements
<1> QED BY <1>1, <1>2, <1>5, Pointers

(* Walking along next goes through s, so the order of a chain is s. *)
LEMMA WalkNext ==
  ASSUME NEW e, NEW s, Chain(e, s), NEW j \in 1 .. Len(s)
  PROVE  \A k \in Nat : j + k <= Len(s) => Walk(e, s[j], k, "next") = s[j + k]
<1> DEFINE S == {k \in Nat : j + k <= Len(s) => Walk(e, s[j], k, "next") = s[j + k]}
<1>0. Len(s) \in Nat /\ j \in Nat
  BY ChainFacts
<1>1. 0 \in S
  BY <1>0, WalkZero
<1>2. ASSUME NEW k \in Nat, k \in S PROVE k + 1 \in S
  <2> SUFFICES ASSUME j + (k + 1) <= Len(s) PROVE Walk(e, s[j], k + 1, "next") = s[j + (k + 1)]
    OBVIOUS
  <2>1. Walk(e, s[j], k, "next") = s[j + k] /\ j + k \in 1 .. Len(s) /\ j + k + 1 \in 1 .. Len(s)
    BY <1>0, <1>2
  <2>2. e.node[s[j + k]].next = s[j + k + 1]
    BY <2>1 DEF Chain, AtOrNull
  <2>3. Read(e, s[j + k], "next") = e.node[s[j + k]].next
    BY <2>1, ChainFacts DEF Read, IsNode
  <2>4. Walk(e, s[j], k + 1, "next") = Read(e, Walk(e, s[j], k, "next"), "next")
    BY WalkOn
  <2>5. j + k + 1 = j + (k + 1)
    BY <1>0
  <2> QED BY <2>1, <2>2, <2>3, <2>4, <2>5
<1> HIDE DEF S
<1>3. Nat \subseteq S
  BY <1>1, <1>2, Induct
<1> QED BY <1>3 DEF S

LEMMA OrderIs ==
  ASSUME NEW e, NEW s, Chain(e, s)
  PROVE  Order(e) = s
<1>1. Len(s) \in Nat /\ Cardinality(DOMAIN e.node) = Len(s)
  BY ChainFacts
<1>2. s = [j \in 1 .. Len(s) |-> s[j]]
  BY LenProperties DEF Chain
<1>3. ASSUME NEW j \in 1 .. Len(s) PROVE Walk(e, e.first, j - 1, "next") = s[j]
  <2>1. 1 \in 1 .. Len(s) /\ j - 1 \in Nat /\ 1 + (j - 1) = j /\ 1 + (j - 1) <= Len(s)
    BY <1>1
  <2>2. e.first = s[1]
    BY <2>1 DEF Chain, AtOrNull
  <2>3. \A k \in Nat : 1 + k <= Len(s) => Walk(e, s[1], k, "next") = s[1 + k]
    BY <2>1, WalkNext
  <2> QED BY <2>1, <2>2, <2>3
<1> QED BY <1>1, <1>2, <1>3 DEF Order

-----------------------------------------------------------------------------
(* What inserting a new node a at place k of the order makes of a deque. *)
Inserted(e, x, s, k, a, v) ==
  /\ x = [node |-> x.node, first |-> x.first, mid |-> x.mid, last |-> x.last, size |-> x.size]
  /\ x.node = [n \in DOMAIN e.node \cup {a} |->
       IF n = a THEN [val |-> v, prev |-> AtOrNull(s, k - 1), next |-> AtOrNull(s, k)]
       ELSE [val  |-> e.node[n].val,
             prev |-> IF n = AtOrNull(s, k) THEN a ELSE e.node[n].prev,
             next |-> IF n = AtOrNull(s, k - 1) THEN a ELSE e.node[n].next]]
  /\ x.first = (IF k = 1 THEN a ELSE e.first)
  /\ x.last = (IF k = Len(s) + 1 THEN a ELSE e.last)
  /\ x.size = e.size + 1

(* With the new node at place k of s, the links are exact again. *)
LEMMA InsertedChain ==
  ASSUME NEW e, Shaped(e), NEW s, Chain(e, s), NEW k \in 1 .. Len(s) + 1,
         NEW a \in Nodes \ DOMAIN e.node, NEW v, NEW x, Inserted(e, x, s, k, a, v)
  PROVE  /\ Shaped(x) /\ Chain(x, InsertAt(s, k, a)) /\ DOMAIN x.node = DOMAIN e.node \cup {a}
         /\ x.node[a].val = v
         /\ \A n \in DOMAIN e.node : x.node[n].val = e.node[n].val
<1> DEFINE z == InsertAt(s, k, a)
<1>0. Len(s) \in Nat /\ k \in Int /\ s \in Seq(Nodes)
  BY ChainFacts DEF Chain
<1>1. /\ z \in Seq(Nodes) /\ Len(z) = Len(s) + 1
      /\ \A j \in 1 .. Len(s) + 1 : z[j] = IF j < k THEN s[j] ELSE IF j = k THEN a ELSE s[j - 1]
  BY <1>0, InsertAtIs
<1> HIDE DEF z
<1>2. DOMAIN x.node = DOMAIN e.node \cup {a}
  BY DEF Inserted
<1>3. /\ x.node[a].val = v /\ x.node[a].prev = AtOrNull(s, k - 1) /\ x.node[a].next = AtOrNull(s, k)
      /\ \A n \in DOMAIN e.node :
           /\ x.node[n].val = e.node[n].val
           /\ x.node[n].prev = IF n = AtOrNull(s, k) THEN a ELSE e.node[n].prev
           /\ x.node[n].next = IF n = AtOrNull(s, k - 1) THEN a ELSE e.node[n].next
  BY DEF Inserted
<1>4. Shaped(x)
  <2>1. x.size \in Nat /\ x.size # 0
    BY DEF Inserted, Shaped
  <2>2. x.node = [n \in DOMAIN x.node |-> [val  |-> x.node[n].val, prev |-> x.node[n].prev,
                                          next |-> x.node[n].next]]
    BY DEF Inserted
  <2>3. x = [node |-> x.node, first |-> x.first, mid |-> x.mid, last |-> x.last, size |-> x.size]
    BY DEF Inserted
  <2> QED BY <1>2, <2>1, <2>2, <2>3 DEF Shaped
<1>5. /\ \A j \in 1 .. Len(s) : s[j] \in DOMAIN e.node /\ s[j] # a
      /\ \A j, m \in 1 .. Len(s) : s[j] = s[m] => j = m
      /\ DOMAIN e.node = {s[j] : j \in 1 .. Len(s)} /\ Null \notin DOMAIN e.node
  BY ChainFacts DEF Chain
<1>6. \A j, m \in 1 .. Len(z) : z[j] = z[m] => j = m
  <2> SUFFICES ASSUME NEW j \in 1 .. Len(z), NEW m \in 1 .. Len(z), j < m PROVE z[j] # z[m]
    BY <1>0, <1>1
  <2>1. \A l \in 1 .. Len(z) : /\ l < k => l \in 1 .. Len(s) /\ z[l] = s[l]
                               /\ l > k => l - 1 \in 1 .. Len(s) /\ z[l] = s[l - 1]
                               /\ l = k => z[l] = a
    BY <1>0, <1>1
  <2>2. CASE j < k /\ m > k
    <3>1. z[j] = s[j] /\ z[m] = s[m - 1] /\ j \in 1 .. Len(s) /\ m - 1 \in 1 .. Len(s) /\ j # m - 1
      BY <1>0, <2>1, <2>2
    <3> QED BY <1>5, <3>1
  <2>3. CASE m < k
    BY <1>0, <1>5, <2>1, <2>3
  <2>4. CASE j > k
    <3>1. z[j] = s[j - 1] /\ z[m] = s[m - 1] /\ j - 1 \in 1 .. Len(s) /\ m - 1 \in 1 .. Len(s)
          /\ j - 1 # m - 1
      BY <1>0, <2>1, <2>4
    <3> QED BY <1>5, <3>1
  <2>5. CASE j = k
    <3>1. z[j] = a /\ z[m] = s[m - 1] /\ m - 1 \in 1 .. Len(s)
      BY <1>0, <2>1, <2>5
    <3> QED BY <1>5, <3>1
  <2>6. CASE m = k
    <3>1. z[m] = a /\ z[j] = s[j] /\ j \in 1 .. Len(s)
      BY <1>0, <2>1, <2>6
    <3> QED BY <1>5, <3>1
  <2> QED BY <1>0, <2>2, <2>3, <2>4, <2>5, <2>6
<1>7. DOMAIN x.node = {z[j] : j \in 1 .. Len(z)}
  <2>1. ASSUME NEW n \in DOMAIN x.node PROVE \E j \in 1 .. Len(z) : n = z[j]
    <3>1. CASE n = a
      BY <1>0, <1>1, <3>1
    <3>2. CASE n # a
      <4>1. PICK j \in 1 .. Len(s) : n = s[j]
        BY <1>2, <1>5, <3>2
      <4>2. CASE j < k
        BY <1>0, <1>1, <4>1, <4>2
      <4>3. CASE j >= k
        <5>1. j + 1 \in 1 .. Len(z) /\ z[j + 1] = s[j]
          BY <1>0, <1>1, <4>3
        <5> QED BY <4>1, <5>1
      <4> QED BY <1>0, <4>2, <4>3
    <3> QED BY <3>1, <3>2
  <2>2. ASSUME NEW j \in 1 .. Len(z) PROVE z[j] \in DOMAIN x.node
    <3>1. j < k => j \in 1 .. Len(s)
      BY <1>0, <1>1
    <3>2. j > k => j - 1 \in 1 .. Len(s)
      BY <1>0, <1>1
    <3> QED BY <1>0, <1>1, <1>2, <1>5, <3>1, <3>2
  <2> QED BY <2>1, <2>2
<1>8. x.first = AtOrNull(z, 1) /\ x.last = AtOrNull(z, Len(z))
  <2>1. x.first = AtOrNull(z, 1)
    <3>1. CASE k = 1
      BY <1>0, <1>1, <3>1 DEF Inserted, AtOrNull
    <3>2. CASE k # 1
      <4>1. 1 \in 1 .. Len(s) /\ 1 \in 1 .. Len(z) /\ z[1] = s[1]
        BY <1>0, <1>1, <3>2
      <4> QED BY <3>2, <4>1 DEF Inserted, Chain, AtOrNull
    <3> QED BY <3>1, <3>2
  <2>2. x.last = AtOrNull(z, Len(z))
    <3>1. CASE k = Len(s) + 1
      BY <1>0, <1>1, <3>1 DEF Inserted, AtOrNull
    <3>2. CASE k # Len(s) + 1
      <4>1. Len(s) \in 1 .. Len(s) /\ Len(z) \in 1 .. Len(z) /\ z[Len(z)] = s[Len(s)]
        BY <1>0, <1>1, <3>2
      <4> QED BY <3>2, <4>1 DEF Inserted, Chain, AtOrNull
    <3> QED BY <3>1, <3>2
  <2> QED BY <2>1, <2>2
<1>9. ASSUME NEW j \in Int
      PROVE  AtOrNull(z, j) = IF j < k THEN AtOrNull(s, j) ELSE IF j = k THEN a
                              ELSE AtOrNull(s, j - 1)
  <2>1. CASE j < k
    BY <1>0, <1>1, <2>1 DEF AtOrNull
  <2>2. CASE j = k
    BY <1>0, <1>1, <2>2 DEF AtOrNull
  <2>3. CASE j > k
    <3>1. j \in 1 .. Len(z) <=> j - 1 \in 1 .. Len(s)
      BY <1>0, <1>1, <2>3
    <3>2. j \in 1 .. Len(z) => z[j] = s[j - 1]
      BY <1>0, <1>1, <2>3
    <3> QED BY <1>0, <2>3, <3>1, <3>2 DEF AtOrNull
  <2> QED BY <1>0, <2>1, <2>2, <2>3
<1>10. ASSUME NEW j \in 1 .. Len(s)
       PROVE  /\ x.node[s[j]].prev = IF j = k THEN a ELSE AtOrNull(s, j - 1)
              /\ x.node[s[j]].next = IF j = k - 1 THEN a ELSE AtOrNull(s, j + 1)
  <2>1. \A m \in Int : s[j] = AtOrNull(s, m) <=> j = m
    BY <1>0, <1>5 DEF AtOrNull
  <2>2. (s[j] = AtOrNull(s, k) <=> j = k) /\ (s[j] = AtOrNull(s, k - 1) <=> j = k - 1)
    BY <1>0, <2>1
  <2>3. e.node[s[j]].prev = AtOrNull(s, j - 1) /\ e.node[s[j]].next = AtOrNull(s, j + 1)
    BY DEF Chain
  <2>4. /\ x.node[s[j]].prev = IF s[j] = AtOrNull(s, k) THEN a ELSE e.node[s[j]].prev
        /\ x.node[s[j]].next = IF s[j] = AtOrNull(s, k - 1) THEN a ELSE e.node[s[j]].next
    BY <1>3, <1>5
  <2> QED BY <2>2, <2>3, <2>4
<1>11. ASSUME NEW j \in 1 .. Len(z)
      PROVE  /\ x.node[z[j]].prev = AtOrNull(z, j - 1)
             /\ x.node[z[j]].next = AtOrNull(z, j + 1)
  <2>0. j \in Int /\ j - 1 \in Int /\ j + 1 \in Int
    BY <1>0, <1>1
  <2>1. CASE j = k
    <3>1. AtOrNull(z, j - 1) = AtOrNull(s, k - 1) /\ AtOrNull(z, j + 1) = AtOrNull(s, k)
      <4>1. j - 1 < k /\ ~(j + 1 < k) /\ j + 1 # k /\ j + 1 - 1 = k
        BY <1>0, <2>1
      <4> QED BY <1>9, <2>0, <2>1, <4>1
    <3>2. z[j] = a
      BY <1>0, <1>1, <2>1
    <3> QED BY <1>3, <3>1, <3>2
  <2>2. CASE j < k
    <3>1. j \in 1 .. Len(s) /\ z[j] = s[j]
      BY <1>0, <1>1, <2>2
    <3>2. AtOrNull(z, j - 1) = AtOrNull(s, j - 1)
      BY <1>0, <1>9, <2>0, <2>2
    <3>3. AtOrNull(z, j + 1) = IF j = k - 1 THEN a ELSE AtOrNull(s, j + 1)
      BY <1>0, <1>9, <2>0, <2>2
    <3> QED BY <1>0, <1>10, <2>2, <3>1, <3>2, <3>3
  <2>3. CASE j > k
    <3>1. PICK m : m = j - 1
      OBVIOUS
    <3>2. m \in 1 .. Len(s) /\ z[j] = s[m] /\ m >= k /\ m # k - 1
      BY <1>0, <1>1, <2>3, <3>1
    <3>3. AtOrNull(z, j - 1) = IF m = k THEN a ELSE AtOrNull(s, m - 1)
      BY <1>0, <1>9, <2>0, <2>3, <3>1
    <3>4. AtOrNull(z, j + 1) = AtOrNull(s, m + 1)
      <4>1. ~(j + 1 < k) /\ j + 1 # k /\ j + 1 - 1 = m + 1
        BY <1>0, <2>3, <3>1
      <4> QED BY <1>9, <2>0, <4>1
    <3> QED BY <1>10, <3>2, <3>3, <3>4
  <2> QED BY <1>0, <1>1, <2>1, <2>2, <2>3
<1>12. Chain(x, z)
  BY <1>1, <1>6, <1>7, <1>8, <1>11 DEF Chain
<1> QED BY <1>2, <1>3, <1>4, <1>12 DEF z

(* Stores to the links of nodes. *)
Nodelike(f) ==
  f = [n \in DOMAIN f |-> [val |-> f[n].val, prev |-> f[n].prev, next |-> f[n].next]]

SetPrev(f, n, b) == [f EXCEPT ![n].prev = b]
SetNext(f, n, b) == [f EXCEPT ![n].next = b]

(* What the stores leave in the nodes. *)
LEMMA PrevSet ==
  ASSUME NEW f, Nodelike(f), NEW n \in DOMAIN f, NEW b
  PROVE  SetPrev(f, n, b) =
           [m \in DOMAIN f |-> [val  |-> f[m].val, prev |-> IF m = n THEN b ELSE f[m].prev,
                               next |-> f[m].next]]
<1>1. \A m \in DOMAIN f : f[m] = [val |-> f[m].val, prev |-> f[m].prev, next |-> f[m].next]
  BY DEF Nodelike
<1>2. [f[n] EXCEPT !.prev = b] = [val |-> f[n].val, prev |-> b, next |-> f[n].next]
  BY <1>1
<1> QED BY <1>1, <1>2 DEF SetPrev

LEMMA NextSet ==
  ASSUME NEW f, Nodelike(f), NEW n \in DOMAIN f, NEW b
  PROVE  SetNext(f, n, b) =
           [m \in DOMAIN f |-> [val  |-> f[m].val, prev |-> f[m].prev,
                               next |-> IF m = n THEN b ELSE f[m].next]]
<1>1. \A m \in DOMAIN f : f[m] = [val |-> f[m].val, prev |-> f[m].prev, next |-> f[m].next]
  BY DEF Nodelike
<1>2. [f[n] EXCEPT !.next = b] = [val |-> f[n].val, prev |-> f[n].prev, next |-> b]
  BY <1>1
<1> QED BY <1>1, <1>2 DEF SetNext

LEMMA BothSet ==
  ASSUME NEW f, Nodelike(f), NEW n \in DOMAIN f, NEW p \in DOMAIN f, NEW b, NEW c
  PROVE  SetNext(SetPrev(f, n, b), p, c) =
           [m \in DOMAIN f |-> [val  |-> f[m].val, prev |-> IF m = n THEN b ELSE f[m].prev,
                               next |-> IF m = p THEN c ELSE f[m].next]]
<1>1. PICK g : g = SetPrev(f, n, b)
  OBVIOUS
<1>2. g = [m \in DOMAIN f |-> [val  |-> f[m].val, prev |-> IF m = n THEN b ELSE f[m].prev,
                              next |-> f[m].next]]
  BY <1>1, PrevSet
<1>3. Nodelike(g) /\ DOMAIN g = DOMAIN f
  BY <1>2 DEF Nodelike
<1>4. SetNext(g, p, c) =
        [m \in DOMAIN g |-> [val |-> g[m].val, prev |-> g[m].prev,
                            next |-> IF m = p THEN c ELSE g[m].next]]
  BY <1>3, NextSet
<1> QED BY <1>1, <1>2, <1>3, <1>4

Record(e) ==
  e = [node |-> e.node, first |-> e.first, mid |-> e.mid, last |-> e.last, size |-> e.size]

(* Grown counts the element and moves mid only. *)
LEMMA GrownIs ==
  ASSUME NEW e, Record(e)
  PROVE  \E m : Grown(e) = [node |-> e.node, first |-> e.first, mid |-> m, last |-> e.last,
                            size |-> e.size + 1]
<1>1. PICK m : m = IF e.size + 1 > 2 /\ (e.size + 1) % 2 = 0 THEN Read(e, e.mid, "next") ELSE e.mid
  OBVIOUS
<1>2. Grown(e) = [e EXCEPT !.size = e.size + 1, !.mid = m]
  BY <1>1 DEF Grown
<1> QED BY <1>2 DEF Record

(* Shaped, in its parts. *)
LEMMA ShapedIs ==
  ASSUME NEW e, Shaped(e)
  PROVE  /\ Record(e) /\ Nodelike(e.node)
         /\ e.size \in Nat /\ (e.size = 0 <=> DOMAIN e.node = {})
  BY DEF Shaped, Nodelike, Record

(* The first node, one after the last and one before another are insertions. *)
LEMMA SingleInserted ==
  ASSUME NEW e, Shaped(e), e.size = 0, NEW s, Chain(e, s), NEW a \in Nodes, NEW v,
         NEW x, x = Grown(Single(e, a, v))
  PROVE  s = <<>> /\ Inserted(e, x, s, 1, a, v)
<1>1. Len(s) = 0 /\ s = <<>> /\ DOMAIN e.node = {}
  <2>1. DOMAIN e.node = {} /\ Len(s) \in Nat
    BY ChainFacts DEF Shaped
  <2>2. Len(s) = 0
    BY <2>1 DEF Chain
  <2> QED BY <2>1, <2>2 DEF Chain
<1>2. PICK y : y = Single(e, a, v)
  OBVIOUS
<1>3. y = [node |-> With(e.node, a, v, Null, Null), first |-> a, mid |-> a, last |-> a, size |-> e.size]
  <2>1. PICK g : g = With(e.node, a, v, Null, Null)
    OBVIOUS
  <2>2. y = [e EXCEPT !.node = g, !.first = a, !.mid = a, !.last = a]
    BY <1>2, <2>1 DEF Single
  <2>3. Record(e)
    BY ShapedIs
  <2>4. y = [node |-> g, first |-> a, mid |-> a, last |-> a, size |-> e.size]
    BY <2>2, <2>3 DEF Record
  <2> QED BY <2>1, <2>4
<1>4. PICK m : x = [node |-> y.node, first |-> y.first, mid |-> m, last |-> y.last, size |-> y.size + 1]
  BY <1>2, <1>3, GrownIs DEF Record
<1>5. y.node = [n \in DOMAIN e.node \cup {a} |-> IF n = a THEN [val |-> v, prev |-> Null, next |-> Null]
                                                ELSE e.node[n]]
  BY <1>3 DEF With
<1>6. AtOrNull(s, 0) = Null /\ AtOrNull(s, 1) = Null
  BY <1>1 DEF AtOrNull
<1> QED BY <1>1, <1>3, <1>4, <1>5, <1>6 DEF Inserted

LEMMA AfterInserted ==
  ASSUME NEW e, Shaped(e), NEW s, Chain(e, s), NEW a \in Nodes \ DOMAIN e.node, NEW v
  PROVE  Inserted(e, insertAfterNode(e, a, v), s, Len(s) + 1, a, v)
<1>1. CASE e.size = 0
  BY <1>1, SingleInserted DEF insertAfterNode
<1>2. CASE e.size # 0
  <2>1. PICK y : y = [e EXCEPT !.node = With([e.node EXCEPT ![e.last].next = a], a, v, e.last, Null),
                               !.last = a]
    OBVIOUS
  <2>2. insertAfterNode(e, a, v) = Grown(y)
    BY <1>2, <2>1 DEF insertAfterNode
  <2>3. Len(s) \in 1 .. Len(s) /\ e.last = s[Len(s)] /\ e.last \in DOMAIN e.node
    <3>1. Len(s) \in Nat /\ DOMAIN e.node # {}
      BY <1>2, ChainFacts DEF Shaped
    <3>2. Len(s) \in 1 .. Len(s)
      BY <3>1 DEF Chain
    <3> QED BY <3>2, ChainFacts DEF Chain, AtOrNull
  <2>4. PICK g : g = SetNext(e.node, e.last, a)
    OBVIOUS
  <2>5. g = [m \in DOMAIN e.node |-> [val  |-> e.node[m].val, prev |-> e.node[m].prev,
                                     next |-> IF m = e.last THEN a ELSE e.node[m].next]]
    BY <2>3, <2>4, ShapedIs, NextSet
  <2>6. y = [node |-> With(g, a, v, e.last, Null), first |-> e.first, mid |-> e.mid, last |-> a,
             size |-> e.size]
    <3>1. PICK h : h = With(g, a, v, e.last, Null)
      OBVIOUS
    <3>2. y = [e EXCEPT !.node = h, !.last = a]
      BY <2>1, <2>4, <3>1 DEF SetNext
    <3>3. Record(e)
      BY ShapedIs
    <3>4. y = [node |-> h, first |-> e.first, mid |-> e.mid, last |-> a, size |-> e.size]
      BY <3>2, <3>3 DEF Record
    <3> QED BY <3>1, <3>4
  <2>7. PICK m : Grown(y) = [node |-> y.node, first |-> y.first, mid |-> m, last |-> y.last,
                             size |-> y.size + 1]
    BY <2>6, GrownIs DEF Record
  <2>8. AtOrNull(s, Len(s) + 1) = Null /\ AtOrNull(s, Len(s)) = e.last /\ Len(s) + 1 - 1 = Len(s)
        /\ Len(s) + 1 # 1
    BY <2>3 DEF AtOrNull
  <2>9. Null \notin DOMAIN e.node
    BY ChainFacts
  <2>10. y.node = [n \in DOMAIN e.node \cup {a} |->
                     IF n = a THEN [val |-> v, prev |-> AtOrNull(s, Len(s)), next |-> Null]
                     ELSE [val  |-> e.node[n].val,
                           prev |-> IF n = Null THEN a ELSE e.node[n].prev,
                           next |-> IF n = AtOrNull(s, Len(s)) THEN a ELSE e.node[n].next]]
    BY <2>5, <2>6, <2>8, <2>9 DEF With
  <2> QED BY <2>2, <2>6, <2>7, <2>8, <2>10 DEF Inserted
<1> QED BY <1>1, <1>2

LEMMA BeforeInserted ==
  ASSUME NEW e, Shaped(e), e.size # 0, NEW s, Chain(e, s), NEW k \in 1 .. Len(s),
         NEW a \in Nodes \ DOMAIN e.node, NEW v
  PROVE  Inserted(e, insertBeforeNode(e, a, s[k], v), s, k, a, v)
<1>0. /\ Len(s) \in Nat /\ k \in 1 .. Len(s) + 1 /\ k # Len(s) + 1 /\ s[k] \in DOMAIN e.node
      /\ Null \notin DOMAIN e.node
  BY ChainFacts
<1>1. PICK n : n = s[k]
  OBVIOUS
<1>2. AtOrNull(s, k) = n /\ e.node[n].prev = AtOrNull(s, k - 1) /\ n \in DOMAIN e.node
  BY <1>0, <1>1 DEF AtOrNull, Chain
<1>3. PICK g : g = SetPrev(e.node, n, a)
  OBVIOUS
<1>4. g = [m \in DOMAIN e.node |-> [val  |-> e.node[m].val, prev |-> IF m = n THEN a ELSE e.node[m].prev,
                                   next |-> e.node[m].next]]
  BY <1>2, <1>3, ShapedIs, PrevSet
<1>5. n = e.first <=> k = 1
  <2>1. e.first = s[1] /\ 1 \in 1 .. Len(s)
    BY <1>0 DEF Chain, AtOrNull
  <2> QED BY <1>1, <2>1 DEF Chain
<1>6. CASE k = 1
  <2>1. PICK y : y = [e EXCEPT !.node = With(g, a, v, Null, n), !.first = a]
    OBVIOUS
  <2>2. insertBeforeNode(e, a, n, v) = Grown(y)
    BY <1>3, <1>5, <1>6, <2>1 DEF insertBeforeNode, SetPrev
  <2>3. y = [node |-> With(g, a, v, Null, n), first |-> a, mid |-> e.mid, last |-> e.last,
             size |-> e.size]
    <3>1. PICK h : h = With(g, a, v, Null, n)
      OBVIOUS
    <3>2. y = [e EXCEPT !.node = h, !.first = a] /\ Record(e)
      BY <2>1, <3>1, ShapedIs
    <3>3. y = [node |-> h, first |-> a, mid |-> e.mid, last |-> e.last, size |-> e.size]
      BY <3>2 DEF Record
    <3> QED BY <3>1, <3>3
  <2>4. PICK c : Grown(y) = [node |-> y.node, first |-> y.first, mid |-> c, last |-> y.last,
                             size |-> y.size + 1]
    BY <2>3, GrownIs DEF Record
  <2>5. AtOrNull(s, k - 1) = Null
    BY <1>6 DEF AtOrNull
  <2>6. y.node = [m \in DOMAIN e.node \cup {a} |->
                    IF m = a THEN [val |-> v, prev |-> AtOrNull(s, k - 1), next |-> AtOrNull(s, k)]
                    ELSE [val  |-> e.node[m].val,
                          prev |-> IF m = AtOrNull(s, k) THEN a ELSE e.node[m].prev,
                          next |-> IF m = AtOrNull(s, k - 1) THEN a ELSE e.node[m].next]]
    BY <1>0, <1>2, <1>4, <2>3, <2>5 DEF With
  <2> QED BY <1>0, <1>1, <1>6, <2>2, <2>3, <2>4, <2>6 DEF Inserted
<1>7. CASE k # 1
  <2>1. k - 1 \in 1 .. Len(s)
    BY <1>0, <1>7
  <2>2. PICK p : p = s[k - 1]
    OBVIOUS
  <2>3. AtOrNull(s, k - 1) = p /\ p \in DOMAIN e.node
    BY <2>1, <2>2, ChainFacts DEF AtOrNull
  <2>4. PICK h : h = SetNext(g, p, a)
    OBVIOUS
  <2>5. h = [m \in DOMAIN e.node |-> [val  |-> e.node[m].val,
                                     prev |-> IF m = n THEN a ELSE e.node[m].prev,
                                     next |-> IF m = p THEN a ELSE e.node[m].next]]
    BY <1>2, <1>3, <2>3, <2>4, ShapedIs, BothSet
  <2>6. [e.node EXCEPT ![n].prev = a, ![p].next = a] = h
    BY <1>3, <2>4 DEF SetPrev, SetNext
  <2>7. PICK y : y = [e EXCEPT !.node = With(h, a, v, p, n)]
    OBVIOUS
  <2>8. LinkBefore(e, a, n, v) = y
    BY <1>2, <2>3, <2>6, <2>7 DEF LinkBefore
  <2>9. insertBeforeNode(e, a, n, v) = Grown(y)
    BY <1>5, <1>7, <2>8 DEF insertBeforeNode
  <2>10. y = [node |-> With(h, a, v, p, n), first |-> e.first, mid |-> e.mid, last |-> e.last,
              size |-> e.size]
    <3>1. PICK w : w = With(h, a, v, p, n)
      OBVIOUS
    <3>2. y = [e EXCEPT !.node = w] /\ Record(e)
      BY <2>7, <3>1, ShapedIs
    <3>3. y = [node |-> w, first |-> e.first, mid |-> e.mid, last |-> e.last, size |-> e.size]
      BY <3>2 DEF Record
    <3> QED BY <3>1, <3>3
  <2>11. PICK c : Grown(y) = [node |-> y.node, first |-> y.first, mid |-> c, last |-> y.last,
                              size |-> y.size + 1]
    BY <2>10, GrownIs DEF Record
  <2>12. y.node = [m \in DOMAIN e.node \cup {a} |->
                    IF m = a THEN [val |-> v, prev |-> AtOrNull(s, k - 1), next |-> AtOrNull(s, k)]
                    ELSE [val  |-> e.node[m].val,
                          prev |-> IF m = AtOrNull(s, k) THEN a ELSE e.node[m].prev,
                          next |-> IF m = AtOrNull(s, k - 1) THEN a ELSE e.node[m].next]]
    BY <1>2, <2>3, <2>5, <2>10 DEF With
  <2> QED BY <1>0, <1>1, <1>7, <2>9, <2>10, <2>11, <2>12 DEF Inserted
<1> QED BY <1>6, <1>7

-----------------------------------------------------------------------------
(* What deleting place k of the order makes of a deque. *)
Removed(e, x, s, k) ==
  /\ x = [node |-> x.node, first |-> x.first, mid |-> x.mid, last |-> x.last, size |-> x.size]
  /\ x.node = [n \in DOMAIN e.node \ {s[k]} |->
       [val  |-> e.node[n].val,
        prev |-> IF n = AtOrNull(s, k + 1) THEN AtOrNull(s, k - 1) ELSE e.node[n].prev,
        next |-> IF n = AtOrNull(s, k - 1) THEN AtOrNull(s, k + 1) ELSE e.node[n].next]]
  /\ x.first = (IF k = 1 THEN AtOrNull(s, 2) ELSE e.first)
  /\ x.last = (IF k = Len(s) THEN AtOrNull(s, Len(s) - 1) ELSE e.last)
  /\ x.size = e.size

(* Without the node at place k of s, the links are exact again. *)
LEMMA RemovedChain ==
  ASSUME NEW e, Shaped(e), NEW s, Chain(e, s), Len(s) > 1, NEW k \in 1 .. Len(s),
         NEW x, Removed(e, x, s, k)
  PROVE  /\ Shaped(x) /\ Chain(x, RemoveAt(s, k)) /\ DOMAIN x.node = DOMAIN e.node \ {s[k]}
         /\ \A n \in DOMAIN x.node : x.node[n].val = e.node[n].val
<1> DEFINE z == RemoveAt(s, k)
<1>0. Len(s) \in Nat /\ k \in Int /\ s \in Seq(Nodes)
  BY ChainFacts DEF Chain
<1>1. /\ z \in Seq(Nodes) /\ Len(z) = Len(s) - 1
      /\ \A j \in 1 .. Len(s) - 1 : z[j] = IF j < k THEN s[j] ELSE s[j + 1]
  BY <1>0, RemoveAtIs
<1> HIDE DEF z
<1>2. /\ DOMAIN x.node = DOMAIN e.node \ {s[k]}
      /\ \A n \in DOMAIN x.node :
           /\ x.node[n].val = e.node[n].val
           /\ x.node[n].prev = IF n = AtOrNull(s, k + 1) THEN AtOrNull(s, k - 1) ELSE e.node[n].prev
           /\ x.node[n].next = IF n = AtOrNull(s, k - 1) THEN AtOrNull(s, k + 1) ELSE e.node[n].next
  BY DEF Removed
<1>3. /\ \A j \in 1 .. Len(s) : s[j] \in DOMAIN e.node
      /\ \A j, m \in 1 .. Len(s) : s[j] = s[m] => j = m
      /\ DOMAIN e.node = {s[j] : j \in 1 .. Len(s)} /\ Null \notin DOMAIN e.node
  BY ChainFacts DEF Chain
(* Where each node of the new order was. *)
<1> DEFINE was(j) == IF j < k THEN j ELSE j + 1
<1>4. \A j \in 1 .. Len(z) : was(j) \in 1 .. Len(s) /\ was(j) # k /\ z[j] = s[was(j)]
  BY <1>0, <1>1
<1>5. \A j, m \in 1 .. Len(z) : was(j) = was(m) => j = m
  BY <1>0, <1>1
<1>6. \A l \in 1 .. Len(s) : l # k => \E j \in 1 .. Len(z) : l = was(j)
  <2> SUFFICES ASSUME NEW l \in 1 .. Len(s), l # k PROVE \E j \in 1 .. Len(z) : l = was(j)
    OBVIOUS
  <2>1. CASE l < k
    BY <1>0, <1>1, <2>1
  <2>2. CASE l > k
    <3>1. l - 1 \in 1 .. Len(z) /\ l = was(l - 1)
      BY <1>0, <1>1, <2>2
    <3> QED BY <3>1
  <2> QED BY <1>0, <2>1, <2>2
<1>7. \A j, m \in 1 .. Len(z) : z[j] = z[m] => j = m
  <2> HIDE DEF was
  <2> QED BY <1>3, <1>4, <1>5
<1>8. DOMAIN x.node = {z[j] : j \in 1 .. Len(z)}
  <2> HIDE DEF was
  <2>1. ASSUME NEW n \in DOMAIN x.node PROVE \E j \in 1 .. Len(z) : n = z[j]
    <3>1. PICK l \in 1 .. Len(s) : n = s[l] /\ l # k
      BY <1>2, <1>3
    <3> QED BY <1>4, <1>6, <3>1
  <2>2. ASSUME NEW j \in 1 .. Len(z) PROVE z[j] \in DOMAIN x.node
    BY <1>2, <1>3, <1>4
  <2> QED BY <2>1, <2>2
<1>9. ASSUME NEW j \in Int
      PROVE  AtOrNull(z, j) = IF j < k THEN AtOrNull(s, j) ELSE AtOrNull(s, j + 1)
  <2>1. CASE j < k
    BY <1>0, <1>1, <2>1 DEF AtOrNull
  <2>2. CASE j >= k
    <3>1. j \in 1 .. Len(z) <=> j + 1 \in 1 .. Len(s)
      BY <1>0, <1>1, <2>2
    <3>2. j \in 1 .. Len(z) => z[j] = s[j + 1]
      BY <1>0, <1>1, <2>2
    <3> QED BY <1>0, <2>2, <3>1, <3>2 DEF AtOrNull
  <2> QED BY <1>0, <2>1, <2>2
<1>10. ASSUME NEW l \in 1 .. Len(s), l # k
       PROVE  /\ x.node[s[l]].prev = IF l = k + 1 THEN AtOrNull(s, k - 1) ELSE AtOrNull(s, l - 1)
              /\ x.node[s[l]].next = IF l = k - 1 THEN AtOrNull(s, k + 1) ELSE AtOrNull(s, l + 1)
  <2>1. \A m \in Int : s[l] = AtOrNull(s, m) <=> l = m
    BY <1>0, <1>3 DEF AtOrNull
  <2>2. (s[l] = AtOrNull(s, k + 1) <=> l = k + 1) /\ (s[l] = AtOrNull(s, k - 1) <=> l = k - 1)
    BY <1>0, <2>1
  <2>3. e.node[s[l]].prev = AtOrNull(s, l - 1) /\ e.node[s[l]].next = AtOrNull(s, l + 1)
    BY DEF Chain
  <2>4. s[l] \in DOMAIN x.node
    BY <1>2, <1>3, <1>10
  <2>5. /\ x.node[s[l]].prev = IF s[l] = AtOrNull(s, k + 1) THEN AtOrNull(s, k - 1) ELSE e.node[s[l]].prev
        /\ x.node[s[l]].next = IF s[l] = AtOrNull(s, k - 1) THEN AtOrNull(s, k + 1) ELSE e.node[s[l]].next
    BY <1>2, <2>4
  <2> QED BY <2>2, <2>3, <2>5
<1>11. ASSUME NEW j \in 1 .. Len(z)
      PROVE  /\ x.node[z[j]].prev = AtOrNull(z, j - 1)
             /\ x.node[z[j]].next = AtOrNull(z, j + 1)
  <2>0. j \in Int /\ j - 1 \in Int /\ j + 1 \in Int
    BY <1>0, <1>1
  <2>1. CASE j < k
    <3>1. j \in 1 .. Len(s) /\ z[j] = s[j] /\ j # k /\ j # k + 1
      BY <1>0, <1>1, <2>1
    <3>2. AtOrNull(z, j - 1) = AtOrNull(s, j - 1)
      BY <1>0, <1>9, <2>0, <2>1
    <3>3. AtOrNull(z, j + 1) = IF j = k - 1 THEN AtOrNull(s, k + 1) ELSE AtOrNull(s, j + 1)
      <4>1. CASE j = k - 1
        <5>1. ~(j + 1 < k) /\ j + 1 + 1 = k + 1
          BY <1>0, <4>1
        <5> QED BY <1>9, <2>0, <4>1, <5>1
      <4>2. CASE j # k - 1
        BY <1>0, <1>9, <2>0, <2>1, <4>2
      <4> QED BY <4>1, <4>2
    <3> QED BY <1>10, <3>1, <3>2, <3>3
  <2>2. CASE j >= k
    <3>1. PICK l : l = j + 1
      OBVIOUS
    <3>2. l \in 1 .. Len(s) /\ z[j] = s[l] /\ l # k /\ l # k - 1
      BY <1>0, <1>1, <2>2, <3>1
    <3>3. AtOrNull(z, j - 1) = IF l = k + 1 THEN AtOrNull(s, k - 1) ELSE AtOrNull(s, l - 1)
      <4>1. CASE j = k
        BY <1>0, <1>9, <2>0, <3>1, <4>1
      <4>2. CASE j # k
        <5>1. ~(j - 1 < k) /\ j - 1 + 1 = l - 1 /\ l # k + 1
          BY <1>0, <2>0, <2>2, <3>1, <4>2
        <5> QED BY <1>9, <2>0, <5>1
      <4> QED BY <4>1, <4>2
    <3>4. AtOrNull(z, j + 1) = AtOrNull(s, l + 1)
      BY <1>0, <1>9, <2>0, <2>2, <3>1
    <3> QED BY <1>10, <3>2, <3>3, <3>4
  <2> QED BY <1>0, <1>1, <2>1, <2>2
<1>12. x.first = AtOrNull(z, 1) /\ x.last = AtOrNull(z, Len(z))
  <2>1. AtOrNull(z, 1) = IF 1 < k THEN AtOrNull(s, 1) ELSE AtOrNull(s, 2)
    BY <1>9
  <2>2. AtOrNull(z, Len(z)) = IF Len(s) - 1 < k THEN AtOrNull(s, Len(s) - 1) ELSE AtOrNull(s, Len(s))
    <3>1. Len(z) \in Int /\ Len(z) = Len(s) - 1 /\ Len(z) + 1 = Len(s)
      BY <1>0, <1>1
    <3> QED BY <1>9, <3>1
  <2> QED BY <1>0, <2>1, <2>2 DEF Removed, Chain
<1>13. Chain(x, z)
  BY <1>1, <1>7, <1>8, <1>11, <1>12 DEF Chain
<1>14. Shaped(x)
  <2>1. z[1] \in DOMAIN x.node
    BY <1>0, <1>1, <1>8
  <2>2. e.size # 0 /\ x.size = e.size /\ x.size \in Nat
    BY <1>2, <2>1 DEF Removed, Shaped
  <2>3. x.node = [n \in DOMAIN x.node |-> [val  |-> x.node[n].val, prev |-> x.node[n].prev,
                                          next |-> x.node[n].next]]
    BY DEF Removed
  <2>4. x = [node |-> x.node, first |-> x.first, mid |-> x.mid, last |-> x.last, size |-> x.size]
    BY DEF Removed
  <2> QED BY <2>1, <2>2, <2>3, <2>4 DEF Shaped
<1> QED BY <1>2, <1>13, <1>14 DEF z

(* Shrunk moves mid only. *)
LEMMA ShrunkIs ==
  ASSUME NEW e, Record(e)
  PROVE  \E m : Shrunk(e) = [node |-> e.node, first |-> e.first, mid |-> m, last |-> e.last,
                             size |-> e.size]
<1>1. PICK m : m = IF e.size > 1 /\ e.size % 2 = 1 THEN Read(e, e.mid, "prev") ELSE e.mid
  OBVIOUS
<1>2. Shrunk(e) = [e EXCEPT !.mid = m]
  BY <1>1 DEF Shrunk
<1> QED BY <1>2 DEF Record

(* Deleting a node that is not the only one removes it from s. *)
LEMMA DeleteRemoves ==
  ASSUME NEW e, Shaped(e), NEW s, Chain(e, s), Len(s) > 1, NEW k \in 1 .. Len(s)
  PROVE  Removed(e, deleteNode(e, s[k]), s, k)
<1>0. /\ Len(s) \in Nat /\ \A j \in 1 .. Len(s) : s[j] \in DOMAIN e.node
      /\ Null \notin DOMAIN e.node /\ \A j, m \in 1 .. Len(s) : s[j] = s[m] => j = m
  BY ChainFacts DEF Chain
<1>1. PICK n, p, q : n = s[k] /\ p = e.node[n].prev /\ q = e.node[n].next
  OBVIOUS
<1>2. p = AtOrNull(s, k - 1) /\ q = AtOrNull(s, k + 1) /\ n \in DOMAIN e.node
  BY <1>0, <1>1 DEF Chain
<1>3. n = e.first <=> k = 1
  <2>1. e.first = s[1] /\ 1 \in 1 .. Len(s)
    BY <1>0 DEF Chain, AtOrNull
  <2> QED BY <1>0, <1>1, <2>1
<1>4. n = e.last <=> k = Len(s)
  <2>1. Len(s) \in 1 .. Len(s)
    BY <1>0
  <2>2. e.last = s[Len(s)]
    BY <2>1 DEF Chain, AtOrNull
  <2> QED BY <1>0, <1>1, <2>1, <2>2
<1> DEFINE Links == [m \in DOMAIN e.node \ {n} |->
                      [val  |-> e.node[m].val, prev |-> IF m = q THEN p ELSE e.node[m].prev,
                       next |-> IF m = p THEN q ELSE e.node[m].next]]
<1>5. ASSUME NEW x, NEW f, NEW m, NEW l,
             x = [node |-> Links, first |-> f, mid |-> m, last |-> l, size |-> e.size],
             f = (IF k = 1 THEN AtOrNull(s, 2) ELSE e.first),
             l = (IF k = Len(s) THEN AtOrNull(s, Len(s) - 1) ELSE e.last)
      PROVE  Removed(e, x, s, k)
  <2>1. x.node = Links
    BY <1>5
  <2> QED BY <1>1, <1>2, <1>5, <2>1 DEF Removed
<1>6. CASE k = 1
  <2>1. p = Null /\ q \in DOMAIN e.node /\ k # Len(s) /\ q = AtOrNull(s, 2)
    <3>1. 2 \in 1 .. Len(s) /\ k + 1 = 2 /\ k - 1 \notin 1 .. Len(s)
      BY <1>0, <1>6
    <3> QED BY <1>0, <1>2, <1>6, <3>1 DEF AtOrNull
  <2>2. PICK g : g = SetPrev(e.node, q, Null)
    OBVIOUS
  <2>3. g = [m \in DOMAIN e.node |-> [val  |-> e.node[m].val, prev |-> IF m = q THEN Null ELSE e.node[m].prev,
                                     next |-> e.node[m].next]]
    BY <2>1, <2>2, ShapedIs, PrevSet
  <2>4. PICK h : h = Without(g, n)
    OBVIOUS
  <2>5. h = Links
    BY <1>0, <2>1, <2>3, <2>4 DEF Without, Restrict
  <2>6. PICK y : y = [e EXCEPT !.node = h, !.first = q]
    OBVIOUS
  <2>7. y = [node |-> h, first |-> q, mid |-> e.mid, last |-> e.last, size |-> e.size]
    <3>1. Record(e)
      BY ShapedIs
    <3> QED BY <2>6, <3>1 DEF Record
  <2>8. deleteNode(e, n) = Shrunk(y)
    BY <1>1, <1>3, <1>6, <2>2, <2>4, <2>6 DEF deleteNode, SetPrev
  <2>9. PICK m : Shrunk(y) = [node |-> h, first |-> q, mid |-> m, last |-> e.last, size |-> e.size]
    <3>1. Record(y) /\ y.node = h /\ y.first = q /\ y.last = e.last /\ y.size = e.size
      BY <2>7 DEF Record
    <3> QED BY <3>1, ShrunkIs
  <2> QED BY <1>1, <1>5, <1>6, <2>1, <2>5, <2>8, <2>9
<1>7. CASE k # 1 /\ k = Len(s)
  <2>1. q = Null /\ p \in DOMAIN e.node /\ p = AtOrNull(s, Len(s) - 1)
    <3>1. k - 1 \in 1 .. Len(s) /\ k + 1 \notin 1 .. Len(s)
      BY <1>0, <1>7
    <3> QED BY <1>0, <1>2, <1>7, <3>1 DEF AtOrNull
  <2>2. PICK g : g = SetNext(e.node, p, Null)
    OBVIOUS
  <2>3. g = [m \in DOMAIN e.node |-> [val  |-> e.node[m].val, prev |-> e.node[m].prev,
                                     next |-> IF m = p THEN Null ELSE e.node[m].next]]
    BY <2>1, <2>2, ShapedIs, NextSet
  <2>4. PICK h : h = Without(g, n)
    OBVIOUS
  <2>5. h = Links
    BY <1>0, <2>1, <2>3, <2>4 DEF Without, Restrict
  <2>6. PICK y : y = [e EXCEPT !.node = h, !.last = p]
    OBVIOUS
  <2>7. y = [node |-> h, first |-> e.first, mid |-> e.mid, last |-> p, size |-> e.size]
    <3>1. Record(e)
      BY ShapedIs
    <3> QED BY <2>6, <3>1 DEF Record
  <2>8. deleteNode(e, n) = Shrunk(y)
    BY <1>1, <1>3, <1>4, <1>7, <2>2, <2>4, <2>6 DEF deleteNode, SetNext
  <2>9. PICK m : Shrunk(y) = [node |-> h, first |-> e.first, mid |-> m, last |-> p, size |-> e.size]
    <3>1. Record(y) /\ y.node = h /\ y.first = e.first /\ y.last = p /\ y.size = e.size
      BY <2>7 DEF Record
    <3> QED BY <3>1, ShrunkIs
  <2> QED BY <1>1, <1>5, <1>7, <2>1, <2>5, <2>8, <2>9
<1>8. CASE k # 1 /\ k # Len(s)
  <2>1. q \in DOMAIN e.node /\ p \in DOMAIN e.node
    <3>1. k - 1 \in 1 .. Len(s) /\ k + 1 \in 1 .. Len(s)
      BY <1>0, <1>8
    <3> QED BY <1>0, <1>2, <3>1 DEF AtOrNull
  <2>2. PICK g : g = SetPrev(SetNext(e.node, p, q), q, p)
    OBVIOUS
  <2>3. g = [m \in DOMAIN e.node |-> [val  |-> e.node[m].val, prev |-> IF m = q THEN p ELSE e.node[m].prev,
                                     next |-> IF m = p THEN q ELSE e.node[m].next]]
    <3>1. PICK f : f = SetNext(e.node, p, q)
      OBVIOUS
    <3>2. f = [m \in DOMAIN e.node |-> [val  |-> e.node[m].val, prev |-> e.node[m].prev,
                                       next |-> IF m = p THEN q ELSE e.node[m].next]]
      BY <2>1, <3>1, ShapedIs, NextSet
    <3>3. Nodelike(f) /\ q \in DOMAIN f
      BY <2>1, <3>2 DEF Nodelike
    <3>4. SetPrev(f, q, p) =
           [m \in DOMAIN f |-> [val  |-> f[m].val, prev |-> IF m = q THEN p ELSE f[m].prev,
                               next |-> f[m].next]]
      BY <3>3, PrevSet
    <3>5. DOMAIN f = DOMAIN e.node
          /\ \A m \in DOMAIN e.node : /\ f[m].val = e.node[m].val /\ f[m].prev = e.node[m].prev
                                      /\ f[m].next = IF m = p THEN q ELSE e.node[m].next
      BY <3>2
    <3> QED BY <2>2, <3>1, <3>4, <3>5
  <2>4. PICK h : h = Without(g, n)
    OBVIOUS
  <2>5. h = Links
    BY <1>0, <2>1, <2>3, <2>4 DEF Without, Restrict
  <2>6. PICK y : y = [e EXCEPT !.node = h]
    OBVIOUS
  <2>7. y = [node |-> h, first |-> e.first, mid |-> e.mid, last |-> e.last, size |-> e.size]
    <3>1. Record(e)
      BY ShapedIs
    <3> QED BY <2>6, <3>1 DEF Record
  <2>8. deleteNode(e, n) = Shrunk(y)
    BY <1>1, <1>3, <1>4, <1>8, <2>2, <2>4, <2>6 DEF deleteNode, SetPrev, SetNext
  <2>9. PICK m : Shrunk(y) = [node |-> h, first |-> e.first, mid |-> m, last |-> e.last, size |-> e.size]
    <3>1. Record(y) /\ y.node = h /\ y.first = e.first /\ y.last = e.last /\ y.size = e.size
      BY <2>7 DEF Record
    <3> QED BY <3>1, ShrunkIs
  <2> QED BY <1>1, <1>5, <1>8, <2>1, <2>5, <2>8, <2>9
<1> QED BY <1>6, <1>7, <1>8

(* A store to a key leaves the links. *)
LEMMA AssignChain ==
  ASSUME NEW e, Shaped(e), NEW s, Chain(e, s), NEW n \in DOMAIN e.node, NEW v
  PROVE  /\ Shaped(Assign(e, n, v)) /\ Chain(Assign(e, n, v), s)
         /\ DOMAIN Assign(e, n, v).node = DOMAIN e.node
         /\ \A m \in DOMAIN e.node :
              Assign(e, n, v).node[m].val = IF m = n THEN [e.node[m].val EXCEPT !.first = v]
                                            ELSE e.node[m].val
<1>1. PICK w : w = [e.node[n].val EXCEPT !.first = v]
  OBVIOUS
<1>2. PICK x : x = Assign(e, n, v)
  OBVIOUS
<1>3. Record(e) /\ Nodelike(e.node)
  BY ShapedIs
<1>4. PICK g : g = [e.node EXCEPT ![n].val = w]
  OBVIOUS
<1>5. x = [e EXCEPT !.node = g]
  BY <1>1, <1>2, <1>3, <1>4 DEF Assign, Record
<1>6. g = [m \in DOMAIN e.node |-> [val  |-> IF m = n THEN w ELSE e.node[m].val,
                                   prev |-> e.node[m].prev, next |-> e.node[m].next]]
  <2>1. PICK f : f = e.node
    OBVIOUS
  <2>2. \A m \in DOMAIN f : f[m] = [val |-> f[m].val, prev |-> f[m].prev, next |-> f[m].next]
    BY <1>3, <2>1 DEF Nodelike
  <2>3. [f[n] EXCEPT !.val = w] = [val |-> w, prev |-> f[n].prev, next |-> f[n].next]
    <3>1. PICK r, u, p, q : r = f[n] /\ r = [val |-> u, prev |-> p, next |-> q]
      BY <2>1, <2>2
    <3>2. [r EXCEPT !.val = w] = [val |-> w, prev |-> p, next |-> q] /\ r.prev = p /\ r.next = q
      BY <3>1
    <3> QED BY <3>1, <3>2
  <2>4. g = [f EXCEPT ![n] = [val |-> w, prev |-> f[n].prev, next |-> f[n].next]]
    BY <1>4, <2>1, <2>3
  <2>5. g = [m \in DOMAIN f |-> [val |-> IF m = n THEN w ELSE f[m].val, prev |-> f[m].prev,
                                next |-> f[m].next]]
    BY <2>2, <2>4
  <2> QED BY <2>1, <2>5
<1>7. x = [node |-> g, first |-> e.first, mid |-> e.mid, last |-> e.last, size |-> e.size]
  BY <1>3, <1>5 DEF Record
<1>8. Shaped(x)
  BY <1>6, <1>7, ShapedIs DEF Shaped
<1>9. /\ DOMAIN x.node = DOMAIN e.node /\ x.first = e.first /\ x.last = e.last
      /\ \A m \in DOMAIN e.node : /\ x.node[m].prev = e.node[m].prev /\ x.node[m].next = e.node[m].next
                                  /\ x.node[m].val = IF m = n THEN w ELSE e.node[m].val
  BY <1>6, <1>7
<1>10. Chain(x, s)
  BY <1>9, ChainFacts DEF Chain
<1> QED BY <1>1, <1>2, <1>8, <1>9, <1>10

-----------------------------------------------------------------------------
(* The calls of a deque. *)

(* insertBeforeNode inserts somewhere: in an empty deque, wherever it is told. *)
LEMMA BeforeSome ==
  ASSUME NEW e, Shaped(e), NEW s, Chain(e, s), NEW a \in Nodes \ DOMAIN e.node, NEW n, NEW v,
         IsNode(e, n) \/ e.size = 0
  PROVE  \E k \in 1 .. Len(s) + 1 : /\ Inserted(e, insertBeforeNode(e, a, n, v), s, k, a, v)
                                    /\ e.size # 0 => k \in 1 .. Len(s) /\ n = s[k]
<1>0. Len(s) \in Nat
  BY ChainFacts
<1>1. CASE e.size = 0
  <2>1. Inserted(e, insertBeforeNode(e, a, n, v), s, 1, a, v)
    BY <1>1, SingleInserted DEF insertBeforeNode
  <2> QED BY <1>0, <1>1, <2>1
<1>2. CASE e.size # 0
  <2>1. PICK k \in 1 .. Len(s) : n = s[k]
    BY <1>2, ChainFacts DEF IsNode
  <2>2. Inserted(e, insertBeforeNode(e, a, n, v), s, k, a, v)
    BY <1>2, <2>1, BeforeInserted
  <2> QED BY <1>0, <2>1, <2>2
<1> QED BY <1>1, <1>2

(* A deque whose links are exact, of the nodes S. *)
Linked(e, S) == Shaped(e) /\ (\E s : Chain(e, s)) /\ DOMAIN e.node = S

(* The operations of the deque keep it linked. *)
LEMMA BeforeLinked ==
  ASSUME NEW e, NEW S, Linked(e, S), NEW a \in Nodes \ S, NEW n, NEW v, IsNode(e, n) \/ e.size = 0
  PROVE  Linked(insertBeforeNode(e, a, n, v), S \cup {a})
<1>1. PICK s : Chain(e, s) /\ Shaped(e) /\ DOMAIN e.node = S
  BY DEF Linked
<1>2. PICK x : x = insertBeforeNode(e, a, n, v)
  OBVIOUS
<1>3. PICK k \in 1 .. Len(s) + 1 : Inserted(e, x, s, k, a, v)
  <2>1. a \in Nodes \ DOMAIN e.node
    BY <1>1
  <2>2. \E k \in 1 .. Len(s) + 1 : /\ Inserted(e, insertBeforeNode(e, a, n, v), s, k, a, v)
                                   /\ e.size # 0 => k \in 1 .. Len(s) /\ n = s[k]
    BY <1>1, <2>1, BeforeSome
  <2> QED BY <1>2, <2>2
<1>4. Shaped(x) /\ Chain(x, InsertAt(s, k, a)) /\ DOMAIN x.node = DOMAIN e.node \cup {a}
  BY <1>1, <1>3, InsertedChain
<1> QED BY <1>1, <1>2, <1>4 DEF Linked

LEMMA AfterLinked ==
  ASSUME NEW e, NEW S, Linked(e, S), NEW a \in Nodes \ S, NEW v
  PROVE  Linked(insertAfterNode(e, a, v), S \cup {a})
<1>1. PICK s : Chain(e, s) /\ Shaped(e) /\ DOMAIN e.node = S
  BY DEF Linked
<1>2. PICK x : x = insertAfterNode(e, a, v)
  OBVIOUS
<1>3. Inserted(e, x, s, Len(s) + 1, a, v) /\ Len(s) + 1 \in 1 .. Len(s) + 1
  BY <1>1, <1>2, AfterInserted, ChainFacts
<1>4. Shaped(x) /\ Chain(x, InsertAt(s, Len(s) + 1, a)) /\ DOMAIN x.node = DOMAIN e.node \cup {a}
  BY <1>1, <1>3, InsertedChain
<1> QED BY <1>1, <1>2, <1>4 DEF Linked

LEMMA DeleteLinked ==
  ASSUME NEW e, NEW S, Linked(e, S), NEW n \in S, Cardinality(S) > 1
  PROVE  Linked(deleteNode(e, n), S \ {n})
<1>1. PICK s : Chain(e, s) /\ Shaped(e) /\ DOMAIN e.node = S
  BY DEF Linked
<1>2. Len(s) > 1
  BY <1>1, ChainFacts
<1>3. PICK k \in 1 .. Len(s) : n = s[k]
  BY <1>1, ChainFacts
<1>4. PICK x : x = deleteNode(e, n)
  OBVIOUS
<1>5. Removed(e, x, s, k)
  BY <1>1, <1>2, <1>3, <1>4, DeleteRemoves
<1>6. Shaped(x) /\ Chain(x, RemoveAt(s, k)) /\ DOMAIN x.node = DOMAIN e.node \ {s[k]}
  BY <1>1, <1>2, <1>5, RemovedChain
<1> QED BY <1>1, <1>3, <1>4, <1>6 DEF Linked

LEMMA AssignLinked ==
  ASSUME NEW e, NEW S, Linked(e, S), NEW n \in S, NEW v
  PROVE  Linked(Assign(e, n, v), S)
<1>1. PICK s : Chain(e, s) /\ Shaped(e) /\ DOMAIN e.node = S
  BY DEF Linked
<1> QED BY <1>1, AssignChain DEF Linked

(* What one reads and walks to from a node or null is one, null or junk. *)
LEMMA ReadsLinked ==
  ASSUME NEW e, NEW S, Linked(e, S), NEW n \in S
  PROVE  Read(e, n, "next") \in S \cup {Null} /\ Read(e, n, "prev") \in S \cup {Null}
<1>1. PICK s : Chain(e, s) /\ Shaped(e) /\ DOMAIN e.node = S
  BY DEF Linked
<1>2. PICK j \in 1 .. Len(s) : n = s[j]
  BY <1>1, ChainFacts
<1> QED BY <1>1, <1>2, ChainFacts DEF Chain, AtOrNull, Read, IsNode

LEMMA WalksLinked ==
  ASSUME NEW e, NEW S, Linked(e, S), NEW n \in S \cup {Null, Junk}, NEW k \in Nat,
         NEW side \in {"prev", "next"}
  PROVE  Walk(e, n, k, side) \in S \cup {Null, Junk}
<1> DEFINE T == {j \in Nat : Walk(e, n, j, side) \in S \cup {Null, Junk}}
<1>1. 0 \in T
  BY WalkZero
<1>2. ASSUME NEW j \in Nat, j \in T PROVE j + 1 \in T
  <2>1. PICK m : m = Walk(e, n, j, side)
    OBVIOUS
  <2>2. Walk(e, n, j + 1, side) = Read(e, m, side)
    BY <2>1, WalkOn
  <2>3. CASE m \in S
    BY <2>2, <2>3, ReadsLinked
  <2>4. CASE m \notin S
    BY <2>2, <2>4 DEF Read, IsNode, Linked
  <2> QED BY <2>3, <2>4
<1> HIDE DEF T
<1>3. Nat \subseteq T
  BY <1>1, <1>2, Induct
<1> QED BY <1>3 DEF T

(* The ends of the deque are nodes of it. *)
LEMMA EndsLinked ==
  ASSUME NEW e, NEW S, Linked(e, S)
  PROVE  e.first \in S \cup {Null} /\ e.last \in S \cup {Null}
<1>1. PICK s : Chain(e, s) /\ Shaped(e) /\ DOMAIN e.node = S
  BY DEF Linked
<1> QED BY <1>1, ChainFacts DEF Chain, AtOrNull

(* The map finds nodes of the deque. *)
LEMMA MinIs ==
  ASSUME NEW S \in SUBSET Nat, S # {}
  PROVE  Min(S) \in S /\ \A m \in S : Min(S) <= m
  BY Least DEF Min

LEMMA NodeOfIs ==
  ASSUME NEW e, NEW s, Chain(e, s), NEW S \in SUBSET DOMAIN Order(e)
  PROVE  IF S = {} THEN NodeOf(e, S) = Null
         ELSE \E j \in S : /\ j \in 1 .. Len(s) /\ NodeOf(e, S) = s[j] /\ s[j] \in DOMAIN e.node
                           /\ \A m \in S : j <= m
<1>1. Order(e) = s /\ DOMAIN s = 1 .. Len(s) /\ Len(s) \in Nat
  BY OrderIs, ChainFacts, LenProperties DEF Chain
<1>2. S \in SUBSET Nat
  BY <1>1
<1>3. CASE S # {}
  <2>1. PICK j \in S : j = Min(S) /\ \A m \in S : j <= m
    BY <1>2, <1>3, MinIs
  <2>2. NodeOf(e, S) = s[j] /\ j \in 1 .. Len(s)
    BY <1>1, <1>3, <2>1 DEF NodeOf
  <2> QED BY <1>3, <2>1, <2>2, ChainFacts
<1> QED BY <1>3 DEF NodeOf

LEMMA FindsLinked ==
  ASSUME NEW e, NEW S, Linked(e, S), NEW k
  PROVE  NotBelow(e, k) \in S \cup {Null} /\ Equal(e, k) \in S \cup {Null}
<1>1. PICK s : Chain(e, s) /\ Shaped(e) /\ DOMAIN e.node = S
  BY DEF Linked
<1>2. \A T \in SUBSET DOMAIN Order(e) : NodeOf(e, T) \in S \cup {Null}
  BY <1>1, NodeOfIs
<1> QED BY <1>2 DEF NotBelow, Equal

(* Map::insert keeps it linked and loses no node. *)
LEMMA InsertLinked ==
  ASSUME NEW e, NEW S, Linked(e, S), NEW a \in Nodes \ S, NEW k, NEW v
  PROVE  \E T : S \subseteq T /\ Linked(insert(e, a, k, v), T)
<1>1. PICK n : n = NotBelow(e, k)
  OBVIOUS
<1>2. n \in S \cup {Null}
  BY <1>1, FindsLinked
<1>3. CASE n = Null
  <2>1. insert(e, a, k, v) = insertAfterNode(e, a, Pair(k, v))
    BY <1>1, <1>3 DEF insert
  <2>2. Linked(insertAfterNode(e, a, Pair(k, v)), S \cup {a})
    BY AfterLinked
  <2> QED BY <2>1, <2>2
<1>4. CASE n # Null /\ key(e, n) = k
  <2>1. insert(e, a, k, v) = Assign(e, n, v)
    BY <1>1, <1>4 DEF insert
  <2> QED BY <1>2, <1>4, <2>1, AssignLinked
<1>5. CASE n # Null /\ key(e, n) # k
  <2>1. insert(e, a, k, v) = insertBeforeNode(e, a, n, Pair(k, v))
    BY <1>1, <1>5 DEF insert
  <2>2. IsNode(e, n)
    BY <1>2, <1>5 DEF IsNode, Linked
  <2>3. Linked(insertBeforeNode(e, a, n, Pair(k, v)), S \cup {a})
    BY <2>2, BeforeLinked
  <2> QED BY <2>1, <2>3
<1> QED BY <1>3, <1>4, <1>5

-----------------------------------------------------------------------------
(* The links are exact and the iterator is at a node or at none, which     *)
(* String::arg relies upon for the one it stores through.                  *)
ChainInv ==
  /\ Linked(d, DOMAIN d.node)
  /\ it \in DOMAIN d.node \cup {Null, Junk} /\ (user = "multiArg" => it # Junk)
  /\ todo \in Seq(Values)

(* A step after which the deque is linked still and has lost no node. *)
LEMMA ChainGrows ==
  ASSUME ChainInv, user' = user, todo' \in Seq(Values), NEW T, DOMAIN d.node \subseteq T, Linked(d', T),
         it' = it \/ it' \in T \cup {Null} \/ (user # "multiArg" /\ it' = Junk)
  PROVE  ChainInv'
<1>1. DOMAIN d'.node = T /\ it' \in T \cup {Null, Junk} /\ (user = "multiArg" => it' # Junk)
  BY Pointers, ChainFacts DEF ChainInv, Linked
<1> QED BY <1>1 DEF ChainInv

(* A step that leaves the deque alone, with the iterator anywhere in it. *)
LEMMA ChainStays ==
  ASSUME ChainInv, user' = user, d' = d, todo' \in Seq(Values),
         \/ it' = it
         \/ it' \in DOMAIN d.node \cup {Null}
         \/ user # "multiArg" /\ it' = Junk
  PROVE  ChainInv'
<1>1. Linked(d, DOMAIN d.node) /\ Linked(d', DOMAIN d.node)
  BY DEF ChainInv
<1> QED BY <1>1, ChainGrows

(* ChainInv holds of the empty deque and is kept by each user. *)
LEMMA ChainInit == ContainersInit => ChainInv
<1> SUFFICES ASSUME ContainersInit PROVE ChainInv
  OBVIOUS
<1>1. d = Empty /\ it = Null /\ todo = <<>>
  BY DEF ContainersInit, DequeInit
<1>2. DOMAIN d.node = {} /\ d.size = 0
  BY <1>1 DEF Empty
<1>3. Shaped(d)
  BY <1>1, <1>2 DEF Empty, Shaped
<1>4. Chain(d, <<>>)
  BY <1>1, <1>2 DEF Empty, Chain, AtOrNull
<1> QED BY <1>1, <1>2, <1>3, <1>4, Pointers DEF ChainInv, Linked

LEMMA ChainDeque ==
  ASSUME ChainInv, user = "deque", user' = user, DequeNext
  PROVE  ChainInv'
<1> DEFINE S == DOMAIN d.node
<1>1. Linked(d, S) /\ it \in S \cup {Null, Junk} /\ todo \in Seq(Values)
  BY DEF ChainInv
<1>2. ASSUME NEW v \in Values, append(v) PROVE ChainInv'
  <2>1. PICK a \in New : d' = insertAfterNode(d, a, v)
    BY <1>2 DEF append
  <2>2. it' = it /\ todo' = todo
    BY <1>2 DEF append
  <2>3. Linked(d', S \cup {a})
    BY <1>1, <2>1, AfterLinked DEF New
  <2> QED BY <1>1, <2>2, <2>3, ChainGrows
<1>3. ASSUME NEW v \in Values, InsertHere(v) PROVE ChainInv'
  <2>1. CASE UNCHANGED <<d, it, todo>>
    BY <1>1, <2>1, ChainStays
  <2>2. CASE (IsNode(d, it) \/ d.size = 0) /\ todo' = todo
             /\ \E a \in New : d' = insertBeforeNode(d, a, it, v) /\ it' = Read(d', it, "prev")
    <3>1. PICK a \in New : d' = insertBeforeNode(d, a, it, v) /\ it' = Read(d', it, "prev")
      BY <2>2
    <3>2. Linked(d', S \cup {a})
      BY <1>1, <2>2, <3>1, BeforeLinked DEF New
    <3>3. it' = Junk \/ it' \in S \cup {a} \cup {Null}
      <4>1. CASE it \in S \cup {a}
        BY <3>1, <3>2, <4>1, ReadsLinked
      <4>2. CASE it \notin S \cup {a}
        BY <3>1, <3>2, <4>2 DEF Read, IsNode, Linked
      <4> QED BY <4>1, <4>2
    <3> QED BY <1>1, <2>2, <3>2, <3>3, ChainGrows
  <2> QED BY <1>3, <2>1, <2>2 DEF InsertHere, Stops
<1>4. ASSUME NEW o \in Lists, AppendDeque(o) PROVE ChainInv'
  BY <1>1, <1>4, ChainStays, Requests DEF AppendDeque
<1>5. CASE AppendNext
  <2>1. PICK a \in New : d' = insertAfterNode(d, a, Head(todo))
    BY <1>5 DEF AppendNext
  <2>2. it' = it /\ todo' = Tail(todo) /\ todo # <<>>
    BY <1>5 DEF AppendNext
  <2>3. Linked(d', S \cup {a})
    BY <1>1, <2>1, AfterLinked DEF New
  <2>4. todo' \in Seq(Values)
    BY <1>1, <2>2, HeadTailProperties
  <2> QED BY <1>1, <2>2, <2>3, <2>4, ChainGrows
<1>6. CASE begin \/ end
  <2>1. d' = d /\ todo' = todo /\ it' \in S \cup {Null}
    BY <1>1, <1>6, EndsLinked DEF begin, end
  <2> QED BY <1>1, <2>1, ChainStays
<1>7. ASSUME NEW n \in S, Deletes(n), d' = deleteNode(d, n), todo' = todo,
             it' \in (S \ {n}) \cup {Null, Junk}
      PROVE  ChainInv'
  <2>1. Linked(d', S \ {n})
    BY <1>1, <1>7, DeleteLinked DEF Deletes
  <2>2. DOMAIN d'.node = S \ {n}
    BY <2>1 DEF Linked
  <2> QED BY <1>1, <1>7, <2>1, <2>2 DEF ChainInv
<1>8. CASE DeleteHere
  <2>1. CASE UNCHANGED <<d, it, todo>>
    BY <1>1, <2>1, ChainStays
  <2>2. CASE Deletes(it) /\ it' = Read(d, it, "next") /\ d' = deleteNode(d, it) /\ todo' = todo
    <3>1. it \in S /\ it' \in S \cup {Null}
      BY <1>1, <2>2, ReadsLinked DEF Deletes, IsNode
    <3>2. it' # it
      <4>1. PICK s : Chain(d, s)
        BY <1>1 DEF Linked
      <4>2. PICK j \in 1 .. Len(s) : it = s[j]
        BY SMTT(30), <3>1, <4>1, ChainFacts
      <4>3. Read(d, it, "next") = AtOrNull(s, j + 1)
        BY <3>1, <4>1, <4>2 DEF Read, IsNode, Chain
      <4>4. Len(s) \in Nat /\ it # Null /\ j + 1 # j
        BY <3>1, <4>1, <4>2, ChainFacts
      <4> QED BY <2>2, <4>1, <4>2, <4>3, <4>4 DEF AtOrNull, Chain
    <3> QED BY <1>7, <2>2, <3>1, <3>2
  <2> QED BY <1>8, <2>1, <2>2 DEF DeleteHere, Stops
<1>9. ASSUME NEW off \in Offsets, Forward(off) \/ Backward(off) PROVE ChainInv'
  <2>1. off \in Int
    BY Requests
  <2>2. By(off) \in S \cup {Null, Junk} /\ By(-off) \in S \cup {Null, Junk}
    BY <1>1, <2>1, WalksLinked DEF By
  <2>3. d' = d /\ todo' = todo /\ it' \in {it, By(off), By(-off)}
    BY <1>9 DEF Forward, Backward, Stops
  <2> QED BY <1>1, <2>2, <2>3, ChainStays
<1>10. ASSUME NEW j \in 0 .. MaxSize, DeleteAtIndex(j) PROVE ChainInv'
  <2>1. PICK n : n = findNodeAt(d, j)
    OBVIOUS
  <2>2. CASE UNCHANGED <<d, it, todo>>
    BY <1>1, <2>2, ChainStays
  <2>3. CASE Deletes(n) /\ d' = deleteNode(d, n) /\ todo' = todo /\ it' = IF it = n THEN Null ELSE it
    <3>1. n \in S /\ it' \in (S \ {n}) \cup {Null, Junk}
      BY <1>1, <2>3 DEF Deletes, IsNode
    <3> QED BY <1>7, <2>3, <3>1
  <2> QED BY <1>10, <2>1, <2>2, <2>3 DEF DeleteAtIndex, Stops
<1>11. ASSUME NEW j \in 0 .. MaxSize, NEW v \in Values, InsertAtIndex(j, v) PROVE ChainInv'
  <2>1. PICK n : n = findNodeAt(d, j)
    OBVIOUS
  <2>2. CASE UNCHANGED <<d, it, todo>>
    BY <1>1, <2>2, ChainStays
  <2>3. CASE (IsNode(d, n) \/ d.size = 0) /\ it' = it /\ todo' = todo
             /\ \E a \in New : d' = insertBeforeNode(d, a, n, v)
    <3>1. PICK a \in New : d' = insertBeforeNode(d, a, n, v)
      BY <2>3
    <3>2. Linked(d', S \cup {a})
      BY <1>1, <2>3, <3>1, BeforeLinked DEF New
    <3> QED BY <1>1, <2>3, <3>2, ChainGrows
  <2> QED BY <1>11, <2>1, <2>2, <2>3 DEF InsertAtIndex, Stops
<1> HIDE DEF S
<1> QED BY <1>2, <1>3, <1>4, <1>5, <1>6, <1>8, <1>9, <1>10, <1>11 DEF DequeNext

(* An insertion into the map leaves the iterator where it is. *)
LEMMA ChainInsert ==
  ASSUME ChainInv, user' = user, todo' = todo, it' = it, NEW a \in New, NEW k, NEW v,
         d' = insert(d, a, k, v)
  PROVE  ChainInv'
<1>1. PICK T : DOMAIN d.node \subseteq T /\ Linked(d', T)
  BY InsertLinked DEF ChainInv, New
<1> QED BY <1>1, ChainGrows DEF ChainInv

LEMMA ChainMap ==
  ASSUME ChainInv, user = "map", user' = user, MapNext
  PROVE  ChainInv'
<1>1. ASSUME NEW k \in Keys, MapFinds(k) PROVE ChainInv'
  <2>1. d' = d /\ todo' = todo /\ it' \in DOMAIN d.node \cup {Null}
    BY <1>1, FindsLinked DEF MapFinds, ChainInv
  <2> QED BY <2>1, ChainStays DEF ChainInv
<1>2. ASSUME NEW k \in Keys, NEW v \in Images, MapInserts(k, v) PROVE ChainInv'
  BY <1>2, ChainInsert DEF MapInserts
<1> QED BY <1>1, <1>2 DEF MapNext

LEMMA ChainArg ==
  ASSUME ChainInv, user = "multiArg", user' = user, ArgNext
  PROVE  ChainInv'
<1>1. CASE ScanEscape
  <2>1. PICK a \in New : d' = insert(d, a, getEscape(text, i, 999).number, -1)
    BY <1>1 DEF ScanEscape
  <2> QED BY <1>1, <2>1, ChainInsert DEF ScanEscape
<1>2. CASE ScanEnds
  <2>1. d' = d /\ todo' = todo /\ it' \in DOMAIN d.node \cup {Null}
    BY <1>2, EndsLinked DEF ScanEnds, ChainInv
  <2> QED BY <2>1, ChainStays DEF ChainInv
<1>3. CASE AssignArg
  <2>1. it \in DOMAIN d.node
    BY <1>3 DEF AssignArg, ChainInv
  <2>2. Linked(d', DOMAIN d.node)
    BY <1>3, <2>1, AssignLinked DEF AssignArg, ChainInv
  <2>3. it' \in DOMAIN d.node \cup {Null} /\ todo' = todo
    BY <1>3, <2>1, <2>2, ReadsLinked DEF AssignArg
  <2> QED BY <2>2, <2>3, ChainGrows DEF ChainInv
<1>4. CASE UNCHANGED dequeVars
  BY <1>4, ChainStays DEF dequeVars, ChainInv
<1> QED BY <1>1, <1>2, <1>3, <1>4
        DEF ArgNext, ScanChar, AssignEnds, Replace, Returns

(* Inserting and deleting at any places, through iterators and by index,   *)
(* appending other deques, filling maps and replacing the escapes of any   *)
(* text leave the links of the nodes exact in both directions.             *)
THEOREM LinksExact == ContainersSpec => []ChainExact
<1>1. ContainersInit => ChainInv
  BY ChainInit
<1>2. ChainInv /\ [ContainersNext /\ UNCHANGED user]_<<containerVars, user>> => ChainInv'
  <2> SUFFICES ASSUME ChainInv, [ContainersNext /\ UNCHANGED user]_<<containerVars, user>>
               PROVE  ChainInv'
    OBVIOUS
  <2>1. CASE UNCHANGED <<containerVars, user>>
    BY <2>1, ChainStays DEF containerVars, dequeVars, ChainInv
  <2>2. CASE ContainersNext /\ UNCHANGED user
    BY <2>2, ChainDeque, ChainMap, ChainArg DEF ContainersNext
  <2> QED BY <2>1, <2>2
<1>3. ChainInv => ChainExact
  <2> SUFFICES ASSUME ChainInv PROVE ChainExact
    OBVIOUS
  <2>1. PICK s : Chain(d, s)
    BY DEF ChainInv, Linked
  <2>2. Order(d) = s /\ Len(s) \in Nat
    BY <2>1, OrderIs, ChainFacts
  <2> QED BY <2>1, <2>2 DEF ChainExact, Chain, AtOrNull
<1> QED BY <1>1, <1>2, <1>3, PTL DEF ContainersSpec

-----------------------------------------------------------------------------
(* A deque is a sequence. *)

Items(e)   == [j \in DOMAIN Order(e) |-> e.node[Order(e)[j]].val]
NoPlace(n) == IF n = Junk THEN -1 ELSE 0
PlaceOf(e, n) ==
  LET S == {j \in DOMAIN Order(e) : Order(e)[j] = n}
  IN  IF S # {} THEN Min(S) ELSE NoPlace(n)

(* What is in a deque of clients' values. *)
Holds(e) == \A n \in DOMAIN e.node : e.node[n].val \in Values

(* The values by their places, and the place of a node by s. *)
LEMMA ItemsIs ==
  ASSUME NEW e, NEW s, Chain(e, s), Holds(e)
  PROVE  /\ Items(e) \in Seq(Values) /\ Len(Items(e)) = Len(s)
         /\ \A j \in 1 .. Len(s) : Items(e)[j] = e.node[s[j]].val
<1>1. Order(e) = s /\ DOMAIN s = 1 .. Len(s) /\ Len(s) \in Nat
  BY OrderIs, ChainFacts, LenProperties DEF Chain
<1>2. Items(e) = [j \in 1 .. Len(s) |-> e.node[s[j]].val]
  BY <1>1 DEF Items
<1>3. \A j \in 1 .. Len(s) : e.node[s[j]].val \in Values
  BY ChainFacts DEF Holds
<1> QED BY <1>1, <1>2, <1>3

LEMMA PlaceIs ==
  ASSUME NEW e, NEW s, Chain(e, s), NEW n
  PROVE  /\ n \notin DOMAIN e.node => PlaceOf(e, n) = NoPlace(n)
         /\ \A j \in 1 .. Len(s) : n = s[j] => PlaceOf(e, n) = j
<1>1. Order(e) = s /\ DOMAIN s = 1 .. Len(s) /\ Len(s) \in Nat
  BY OrderIs, ChainFacts, LenProperties DEF Chain
<1> DEFINE S == {j \in DOMAIN s : s[j] = n}
<1>2. PlaceOf(e, n) = IF S # {} THEN Min(S) ELSE NoPlace(n)
  BY <1>1 DEF PlaceOf
<1>3. n \notin DOMAIN e.node => S = {}
  BY <1>1, ChainFacts
<1>4. ASSUME NEW j \in 1 .. Len(s), n = s[j] PROVE S = {j} /\ j \in Nat
  BY <1>1, <1>4 DEF Chain
<1> HIDE DEF S
<1>5. ASSUME NEW j \in 1 .. Len(s), n = s[j] PROVE Min(S) = j
  BY <1>4, <1>5, MinIs
<1> QED BY <1>2, <1>3, <1>4, <1>5

LEMMA PlaceType ==
  ASSUME NEW e, NEW s, Chain(e, s), NEW n
  PROVE  /\ PlaceOf(e, n) \in -1 .. Len(s)
         /\ PlaceOf(e, n) <= 0 <=> n \notin DOMAIN e.node
         /\ PlaceOf(e, n) > 0 => n = s[PlaceOf(e, n)]
<1>1. Len(s) \in Nat /\ \A j \in 1 .. Len(s) : s[j] \in DOMAIN e.node
  BY ChainFacts
<1>2. CASE n \notin DOMAIN e.node
  BY <1>1, <1>2, PlaceIs DEF NoPlace
<1>3. CASE n \in DOMAIN e.node
  <2>1. PICK j \in 1 .. Len(s) : n = s[j]
    BY <1>3, ChainFacts
  <2>2. PlaceOf(e, n) = j
    BY <2>1, PlaceIs
  <2> QED BY <1>1, <1>3, <2>1, <2>2
<1> QED BY <1>2, <1>3

(* An insertion at place k inserts the value and moves the places behind it. *)
LEMMA ItemsInserted ==
  ASSUME NEW e, Shaped(e), Holds(e), NEW s, Chain(e, s), NEW k \in 1 .. Len(s) + 1,
         NEW a \in Nodes \ DOMAIN e.node, NEW v \in Values, NEW x, Inserted(e, x, s, k, a, v)
  PROVE  /\ Holds(x) /\ Items(x) = InsertAt(Items(e), k, v) /\ Len(Items(e)) = Len(s)
         /\ PlaceOf(x, a) = k
         /\ \A n \in DOMAIN e.node \cup {Null, Junk} :
              PlaceOf(x, n) = IF PlaceOf(e, n) >= k THEN PlaceOf(e, n) + 1 ELSE PlaceOf(e, n)
<1> DEFINE z == InsertAt(s, k, a)
<1>0. Len(s) \in Nat /\ k \in Int /\ s \in Seq(Nodes) /\ a \in Nodes
  BY ChainFacts DEF Chain
<1>1. /\ z \in Seq(Nodes) /\ Len(z) = Len(s) + 1
      /\ \A j \in 1 .. Len(s) + 1 : z[j] = IF j < k THEN s[j] ELSE IF j = k THEN a ELSE s[j - 1]
  BY <1>0, InsertAtIs
<1>2. /\ Shaped(x) /\ Chain(x, z) /\ DOMAIN x.node = DOMAIN e.node \cup {a}
      /\ x.node[a].val = v
      /\ \A n \in DOMAIN e.node : x.node[n].val = e.node[n].val
  BY InsertedChain
<1> HIDE DEF z
<1>3. Holds(x)
  BY <1>2 DEF Holds
<1>4. /\ Items(e) \in Seq(Values) /\ Len(Items(e)) = Len(s)
      /\ \A j \in 1 .. Len(s) : Items(e)[j] = e.node[s[j]].val
  BY ItemsIs
<1>5. /\ Items(x) \in Seq(Values) /\ Len(Items(x)) = Len(s) + 1
      /\ \A j \in 1 .. Len(s) + 1 : Items(x)[j] = x.node[z[j]].val
  BY <1>1, <1>2, <1>3, ItemsIs
<1>6. /\ InsertAt(Items(e), k, v) \in Seq(Values) /\ Len(InsertAt(Items(e), k, v)) = Len(s) + 1
      /\ \A j \in 1 .. Len(s) + 1 :
           InsertAt(Items(e), k, v)[j] = IF j < k THEN Items(e)[j] ELSE IF j = k THEN v ELSE Items(e)[j - 1]
  BY <1>4, InsertAtIs
<1>7. ASSUME NEW j \in 1 .. Len(s) + 1 PROVE Items(x)[j] = InsertAt(Items(e), k, v)[j]
  <2>1. CASE j < k
    <3>1. j \in 1 .. Len(s) /\ z[j] = s[j]
      BY <1>0, <1>1, <2>1
    <3>2. s[j] \in DOMAIN e.node
      BY <3>1, ChainFacts
    <3> QED BY <1>2, <1>4, <1>5, <1>6, <2>1, <3>1, <3>2
  <2>2. CASE j = k
    BY <1>0, <1>1, <1>2, <1>5, <1>6, <2>2
  <2>3. CASE j > k
    <3>1. j - 1 \in 1 .. Len(s) /\ z[j] = s[j - 1] /\ ~(j < k) /\ j # k
      BY <1>0, <1>1, <2>3
    <3>2. s[j - 1] \in DOMAIN e.node
      BY <3>1, ChainFacts
    <3> QED BY ZenonT(40), <1>2, <1>4, <1>5, <1>6, <3>1, <3>2
  <2> QED BY <1>0, <2>1, <2>2, <2>3
<1>8. Items(x) = InsertAt(Items(e), k, v)
  BY <1>5, <1>6, <1>7, SeqEqual
<1>9. PlaceOf(x, a) = k
  <2>1. k \in 1 .. Len(z) /\ a = z[k]
    BY <1>0, <1>1
  <2> QED BY <1>2, <2>1, PlaceIs
<1>10. ASSUME NEW n \in DOMAIN e.node \cup {Null, Junk}
       PROVE  PlaceOf(x, n) = IF PlaceOf(e, n) >= k THEN PlaceOf(e, n) + 1 ELSE PlaceOf(e, n)
  <2>1. CASE n \in DOMAIN e.node
    <3>1. PICK j \in 1 .. Len(s) : n = s[j]
      BY <2>1, ChainFacts
    <3>2. PlaceOf(e, n) = j
      BY <3>1, PlaceIs
    <3>3. CASE j < k
      <4>1. j \in 1 .. Len(z) /\ n = z[j]
        BY <1>0, <1>1, <3>1, <3>3
      <4>2. PlaceOf(x, n) = j
        BY <1>2, <4>1, PlaceIs
      <4> QED BY <1>0, <3>2, <3>3, <4>2
    <3>4. CASE j >= k
      <4>1. j + 1 \in 1 .. Len(z) /\ n = z[j + 1]
        BY <1>0, <1>1, <3>1, <3>4
      <4>2. PlaceOf(x, n) = j + 1
        BY <1>2, <4>1, PlaceIs
      <4> QED BY <1>0, <3>2, <3>4, <4>2
    <3> QED BY <1>0, <3>3, <3>4
  <2>2. CASE n \notin DOMAIN e.node
    <3>1. n \notin DOMAIN x.node
      BY <1>2, <2>2, Pointers
    <3>2. PlaceOf(e, n) = NoPlace(n) /\ PlaceOf(x, n) = NoPlace(n)
      BY <1>2, <2>2, <3>1, PlaceIs
    <3> QED BY <1>0, <3>2 DEF NoPlace
  <2> QED BY <2>1, <2>2
<1> QED BY <1>3, <1>4, <1>8, <1>9, <1>10

(* A deletion at place k removes the value and moves the places behind it. *)
LEMMA ItemsRemoved ==
  ASSUME NEW e, Shaped(e), Holds(e), NEW s, Chain(e, s), Len(s) > 1, NEW k \in 1 .. Len(s),
         NEW x, Removed(e, x, s, k)
  PROVE  /\ Holds(x) /\ Items(x) = RemoveAt(Items(e), k) /\ Len(Items(e)) = Len(s)
         /\ \A n \in DOMAIN e.node \cup {Null, Junk} :
              n # s[k] => PlaceOf(x, n) = IF PlaceOf(e, n) > k THEN PlaceOf(e, n) - 1 ELSE PlaceOf(e, n)
<1> DEFINE z == RemoveAt(s, k)
<1>0. Len(s) \in Nat /\ k \in Int /\ s \in Seq(Nodes)
  BY ChainFacts DEF Chain
<1>1. /\ z \in Seq(Nodes) /\ Len(z) = Len(s) - 1
      /\ \A j \in 1 .. Len(s) - 1 : z[j] = IF j < k THEN s[j] ELSE s[j + 1]
  BY <1>0, RemoveAtIs
<1>2. /\ Shaped(x) /\ Chain(x, z) /\ DOMAIN x.node = DOMAIN e.node \ {s[k]}
      /\ \A n \in DOMAIN x.node : x.node[n].val = e.node[n].val
  BY RemovedChain
<1> HIDE DEF z
<1>3. Holds(x)
  BY <1>2 DEF Holds
<1>4. /\ Items(e) \in Seq(Values) /\ Len(Items(e)) = Len(s)
      /\ \A j \in 1 .. Len(s) : Items(e)[j] = e.node[s[j]].val
  BY ItemsIs
<1>5. /\ Items(x) \in Seq(Values) /\ Len(Items(x)) = Len(s) - 1
      /\ \A j \in 1 .. Len(s) - 1 : Items(x)[j] = x.node[z[j]].val
  BY <1>1, <1>2, <1>3, ItemsIs
<1>6. /\ RemoveAt(Items(e), k) \in Seq(Values) /\ Len(RemoveAt(Items(e), k)) = Len(s) - 1
      /\ \A j \in 1 .. Len(s) - 1 :
           RemoveAt(Items(e), k)[j] = IF j < k THEN Items(e)[j] ELSE Items(e)[j + 1]
  BY <1>4, RemoveAtIs
<1>7. ASSUME NEW j \in 1 .. Len(s) - 1 PROVE Items(x)[j] = RemoveAt(Items(e), k)[j]
  <2>1. PICK l \in 1 .. Len(s) : l = IF j < k THEN j ELSE j + 1
    BY <1>0
  <2>2. z[j] = s[l] /\ z[j] \in DOMAIN x.node
    BY <1>0, <1>1, <1>2, <2>1, ChainFacts
  <2>3. Items(x)[j] = e.node[s[l]].val
    BY <1>2, <1>5, <2>2
  <2>4. RemoveAt(Items(e), k)[j] = Items(e)[l]
    BY <1>6, <2>1
  <2> QED BY <1>4, <2>3, <2>4
<1>8. Items(x) = RemoveAt(Items(e), k)
  BY <1>5, <1>6, <1>7, SeqEqual
<1>9. ASSUME NEW n \in DOMAIN e.node \cup {Null, Junk}, n # s[k]
      PROVE  PlaceOf(x, n) = IF PlaceOf(e, n) > k THEN PlaceOf(e, n) - 1 ELSE PlaceOf(e, n)
  <2>1. CASE n \in DOMAIN e.node
    <3>1. PICK j \in 1 .. Len(s) : n = s[j]
      BY <2>1, ChainFacts
    <3>2. PlaceOf(e, n) = j /\ j # k
      BY <1>9, <3>1, PlaceIs
    <3>3. CASE j < k
      <4>1. j \in 1 .. Len(z) /\ n = z[j]
        BY <1>0, <1>1, <3>1, <3>3
      <4>2. PlaceOf(x, n) = j
        BY <1>2, <4>1, PlaceIs
      <4> QED BY <1>0, <3>2, <3>3, <4>2
    <3>4. CASE j > k
      <4>1. j - 1 \in 1 .. Len(z) /\ n = z[j - 1]
        BY <1>0, <1>1, <3>1, <3>4
      <4>2. PlaceOf(x, n) = j - 1
        BY <1>2, <4>1, PlaceIs
      <4> QED BY <1>0, <3>2, <3>4, <4>2
    <3> QED BY <1>0, <3>2, <3>3, <3>4
  <2>2. CASE n \notin DOMAIN e.node
    <3>1. n \notin DOMAIN x.node
      BY <1>2, <2>2
    <3>2. PlaceOf(e, n) = NoPlace(n) /\ PlaceOf(x, n) = NoPlace(n)
      BY <1>2, <2>2, <3>1, PlaceIs
    <3> QED BY <1>0, <3>2 DEF NoPlace
  <2> QED BY <2>1, <2>2
<1> QED BY <1>3, <1>4, <1>8, <1>9

(* Where walking leads an iterator: to place p of n, past which is null and *)
(* then no node.                                                            *)
Past(p, n) == IF p \in 1 .. n THEN p ELSE IF p \in {0, n + 1} THEN 0 ELSE -1

LEMMA WalkAhead ==
  ASSUME NEW e, NEW s, Chain(e, s), NEW j \in 1 .. Len(s), NEW k \in Nat
  PROVE  PlaceOf(e, Walk(e, s[j], k, "next")) = Past(j + k, Len(s))
<1> DEFINE To(m) == IF j + m <= Len(s) THEN s[j + m] ELSE IF j + m = Len(s) + 1 THEN Null ELSE Junk
           S == {m \in Nat : Walk(e, s[j], m, "next") = To(m)}
<1>0. Len(s) \in Nat /\ j \in Nat /\ \A l \in 1 .. Len(s) : s[l] \in DOMAIN e.node
      /\ Null \notin DOMAIN e.node /\ Junk \notin DOMAIN e.node
  BY ChainFacts
<1>1. 0 \in S
  BY <1>0, WalkZero
<1>2. ASSUME NEW m \in Nat, m \in S PROVE m + 1 \in S
  <2>1. PICK n : n = Walk(e, s[j], m, "next")
    OBVIOUS
  <2>2. Walk(e, s[j], m + 1, "next") = Read(e, n, "next")
    BY <2>1, WalkOn
  <2>3. CASE j + m <= Len(s)
    <3>1. n = s[j + m] /\ j + m \in 1 .. Len(s)
      BY <1>0, <1>2, <2>1, <2>3
    <3>2. Read(e, n, "next") = AtOrNull(s, j + m + 1)
      BY <1>0, <3>1 DEF Read, IsNode, Chain
    <3>3. j + (m + 1) = j + m + 1 /\ j + m + 1 \in Nat /\ j + m + 1 >= 1
      BY <1>0
    <3>4. CASE j + m + 1 <= Len(s)
      <4>1. j + m + 1 \in 1 .. Len(s)
        BY <1>0, <3>3, <3>4
      <4> QED BY <2>2, <3>2, <3>3, <4>1 DEF AtOrNull
    <3>5. CASE ~(j + m + 1 <= Len(s))
      <4>1. j + m + 1 \notin 1 .. Len(s) /\ j + (m + 1) = Len(s) + 1 /\ ~(j + (m + 1) <= Len(s))
        BY <1>0, <2>3, <3>3, <3>5
      <4> QED BY <1>0, <2>2, <3>2, <4>1 DEF AtOrNull
    <3> QED BY <3>4, <3>5
  <2>4. CASE ~(j + m <= Len(s))
    <3>1. n \notin DOMAIN e.node
      BY <1>0, <1>2, <2>1, <2>4
    <3>2. Read(e, n, "next") = Junk
      BY <3>1 DEF Read, IsNode
    <3>3. ~(j + (m + 1) <= Len(s)) /\ j + (m + 1) # Len(s) + 1
      BY <1>0, <2>4
    <3> QED BY <2>2, <3>2, <3>3
  <2> QED BY <2>3, <2>4
<1> HIDE DEF S
<1>3. k \in S
  BY <1>1, <1>2, Induct
<1>4. Walk(e, s[j], k, "next") =
        IF j + k <= Len(s) THEN s[j + k] ELSE IF j + k = Len(s) + 1 THEN Null ELSE Junk
  BY <1>3 DEF S
<1>5. CASE j + k <= Len(s)
  <2>1. j + k \in 1 .. Len(s)
    BY <1>0, <1>5
  <2> QED BY <1>4, <1>5, <2>1, PlaceIs DEF Past
<1>6. CASE ~(j + k <= Len(s))
  <2>1. /\ j + k \notin 1 .. Len(s) /\ (j + k \in {0, Len(s) + 1} <=> j + k = Len(s) + 1)
    BY <1>0, <1>6
  <2>2. PlaceOf(e, Null) = 0 /\ PlaceOf(e, Junk) = -1
    BY <1>0, PlaceIs, Pointers DEF NoPlace
  <2> QED BY <1>4, <1>6, <2>1, <2>2 DEF Past
<1> QED BY <1>5, <1>6

LEMMA WalkBack ==
  ASSUME NEW e, NEW s, Chain(e, s), NEW j \in 1 .. Len(s), NEW k \in Nat
  PROVE  PlaceOf(e, Walk(e, s[j], k, "prev")) = Past(j - k, Len(s))
<1> DEFINE To(m) == IF j - m >= 1 THEN s[j - m] ELSE IF j - m = 0 THEN Null ELSE Junk
           S == {m \in Nat : Walk(e, s[j], m, "prev") = To(m)}
<1>0. Len(s) \in Nat /\ j \in Nat /\ \A l \in 1 .. Len(s) : s[l] \in DOMAIN e.node
      /\ Null \notin DOMAIN e.node /\ Junk \notin DOMAIN e.node
  BY ChainFacts
<1>1. 0 \in S
  BY <1>0, WalkZero
<1>2. ASSUME NEW m \in Nat, m \in S PROVE m + 1 \in S
  <2>1. PICK n : n = Walk(e, s[j], m, "prev")
    OBVIOUS
  <2>2. Walk(e, s[j], m + 1, "prev") = Read(e, n, "prev")
    BY <2>1, WalkOn
  <2>3. CASE j - m >= 1
    <3>1. n = s[j - m] /\ j - m \in 1 .. Len(s)
      BY <1>0, <1>2, <2>1, <2>3
    <3>2. Read(e, n, "prev") = AtOrNull(s, j - m - 1)
      BY <1>0, <3>1 DEF Read, IsNode, Chain
    <3>3. j - (m + 1) = j - m - 1 /\ j - m - 1 \in Int
      BY <1>0
    <3>4. CASE j - (m + 1) >= 1
      BY <1>0, <2>2, <3>1, <3>2, <3>3, <3>4 DEF AtOrNull
    <3>5. CASE ~(j - (m + 1) >= 1)
      <4>1. j - (m + 1) = 0 /\ j - m - 1 \notin 1 .. Len(s)
        BY <1>0, <2>3, <3>3, <3>5
      <4> QED BY <2>2, <3>2, <3>5, <4>1 DEF AtOrNull
    <3> QED BY <3>4, <3>5
  <2>4. CASE ~(j - m >= 1)
    <3>1. n \notin DOMAIN e.node
      BY <1>0, <1>2, <2>1, <2>4
    <3>2. Read(e, n, "prev") = Junk
      BY <3>1 DEF Read, IsNode
    <3>3. ~(j - (m + 1) >= 1) /\ j - (m + 1) # 0
      BY <1>0, <2>4
    <3> QED BY <2>2, <3>2, <3>3
  <2> QED BY <2>3, <2>4
<1> HIDE DEF S
<1>3. k \in S
  BY <1>1, <1>2, Induct
<1>4. Walk(e, s[j], k, "prev") =
        IF j - k >= 1 THEN s[j - k] ELSE IF j - k = 0 THEN Null ELSE Junk
  BY <1>3 DEF S
<1>5. CASE j - k >= 1
  <2>1. j - k \in 1 .. Len(s)
    BY <1>0, <1>5
  <2> QED BY <1>4, <1>5, <2>1, PlaceIs DEF Past
<1>6. CASE ~(j - k >= 1)
  <2>1. /\ j - k \notin 1 .. Len(s) /\ (j - k \in {0, Len(s) + 1} <=> j - k = 0)
    BY <1>0, <1>6
  <2>2. PlaceOf(e, Null) = 0 /\ PlaceOf(e, Junk) = -1
    BY <1>0, PlaceIs, Pointers DEF NoPlace
  <2> QED BY <1>4, <1>6, <2>1, <2>2 DEF Past
<1> QED BY <1>5, <1>6

LEMMA WalkNowhere ==
  ASSUME NEW e, NEW s, Chain(e, s), NEW n, n \notin DOMAIN e.node, NEW k \in Nat, NEW side
  PROVE  Walk(e, n, k, side) \in {n, Junk}
<1> DEFINE S == {m \in Nat : Walk(e, n, m, side) \in {n, Junk}}
<1>1. 0 \in S
  BY WalkZero
<1>2. ASSUME NEW m \in Nat, m \in S PROVE m + 1 \in S
  <2>1. Walk(e, n, m + 1, side) = Read(e, Walk(e, n, m, side), side)
    BY WalkOn
  <2> QED BY <1>2, <2>1, ChainFacts DEF Read, IsNode
<1> HIDE DEF S
<1>3. k \in S
  BY <1>1, <1>2, Induct
<1> QED BY <1>3 DEF S

(* Inserting behind the last place is appending. *)
LEMMA AppendIs ==
  ASSUME NEW S, NEW s \in Seq(S), NEW x \in S, NEW k \in 1 .. Len(s) + 1, k > Len(s)
  PROVE  InsertAt(s, k, x) = Append(s, x)
<1>1. /\ InsertAt(s, k, x) \in Seq(S) /\ Len(InsertAt(s, k, x)) = Len(s) + 1
      /\ \A j \in 1 .. Len(s) + 1 :
           InsertAt(s, k, x)[j] = IF j < k THEN s[j] ELSE IF j = k THEN x ELSE s[j - 1]
  BY InsertAtIs
<1>2. /\ Append(s, x) \in Seq(S) /\ Len(Append(s, x)) = Len(s) + 1
      /\ \A j \in 1 .. Len(s) : Append(s, x)[j] = s[j]
      /\ Append(s, x)[Len(s) + 1] = x
  BY AppendProperties
<1>3. Len(s) \in Nat
  BY LenProperties
<1>4. \A j \in 1 .. Len(s) + 1 : InsertAt(s, k, x)[j] = Append(s, x)[j]
  BY <1>1, <1>2, <1>3
<1> QED BY <1>1, <1>2, <1>4, SeqEqual

(* The deque and its iterator, as a sequence S and a place p in it, become *)
(* T and q.                                                                *)
SequenceStep(S, p, T, q) ==
  \/ T = S /\ q = p
  \/ \E v \in Values : T = Append(S, v) /\ q = p
  \/ S = <<>> /\ (\E v \in Values : T = <<v>>) /\ q = -1
  \/ p > 0 /\ \E v \in Values : T = InsertAt(S, p, v) /\ q = p
  \/ p > 0 /\ T = RemoveAt(S, p) /\ q = IF p = Len(S) THEN 0 ELSE p
  \/ T = S /\ q = (IF S = <<>> THEN 0 ELSE 1)
  \/ T = S /\ q = Len(S)
  \/ T = S /\ \E k \in Offsets : p > (IF k < 0 THEN 1 ELSE 0) /\ q = Past(p + k, Len(S))
  \/ T = S /\ p <= 0 /\ q = -1
  \/ \E j \in 1 .. Len(S), v \in Values : T = InsertAt(S, j, v) /\ q = IF p >= j THEN p + 1 ELSE p
  \/ \E j \in 1 .. Len(S) : /\ T = RemoveAt(S, j)
                            /\ q = IF p > j THEN p - 1 ELSE IF p = j THEN 0 ELSE p

(* Such a step is a step of Sequence, or a stutter. *)
LEMMA StepRefines ==
  ASSUME user = "deque", user' = user, SequenceStep(Items(d), PlaceOf(d, it), Items(d'), PlaceOf(d', it'))
  PROVE  [Abstract!SequenceNext]_<<IF user = "deque" THEN Contents ELSE <<>>,
                                   IF user = "deque" THEN Position ELSE 0>>
<1>1. PICK S, p, T, q : /\ S = Items(d) /\ p = PlaceOf(d, it) /\ T = Items(d') /\ q = PlaceOf(d', it')
                        /\ SequenceStep(S, p, T, q)
  OBVIOUS
<1>2. /\ (IF user = "deque" THEN Contents ELSE <<>>) = S
      /\ (IF user = "deque" THEN Position ELSE 0) = p
      /\ (IF user = "deque" THEN Contents ELSE <<>>)' = T
      /\ (IF user = "deque" THEN Position ELSE 0)' = q
  BY <1>1 DEF Items, PlaceOf, NoPlace, Contents, Position
<1> QED BY <1>1, <1>2, Zenon
        DEF SequenceStep, Past, Abstract!SequenceNext, Abstract!Push, Abstract!InsertIntoEmpty,
            Abstract!InsertBefore, Abstract!Delete, Abstract!Move, Abstract!Place, Abstract!Wild, Abstract!InsertSome, Abstract!DeleteSome, Abstract!InsertAt, Abstract!RemoveAt,
            InsertAt, RemoveAt

(* An insertion while the iterator is at n, and one before the iterator. *)
LEMMA InsertedStep ==
  ASSUME NEW e, Shaped(e), Holds(e), NEW s, Chain(e, s), NEW k \in 1 .. Len(s) + 1,
         NEW a \in Nodes \ DOMAIN e.node, NEW v \in Values, NEW x, Inserted(e, x, s, k, a, v),
         NEW n \in DOMAIN e.node \cup {Null, Junk}
  PROVE  Holds(x) /\ SequenceStep(Items(e), PlaceOf(e, n), Items(x), PlaceOf(x, n))
<1>1. /\ Holds(x) /\ Items(x) = InsertAt(Items(e), k, v) /\ Len(Items(e)) = Len(s)
      /\ PlaceOf(x, n) = IF PlaceOf(e, n) >= k THEN PlaceOf(e, n) + 1 ELSE PlaceOf(e, n)
  BY ItemsInserted
<1>2. Items(e) \in Seq(Values) /\ PlaceOf(e, n) \in -1 .. Len(s) /\ Len(s) \in Nat
  BY ItemsIs, PlaceType, ChainFacts
<1>3. CASE k <= Len(s)
  <2>1. k \in 1 .. Len(Items(e))
    BY <1>1, <1>2, <1>3
  <2> QED BY <1>1, <2>1 DEF SequenceStep
<1>4. CASE k > Len(s)
  <2>1. k \in 1 .. Len(Items(e)) + 1 /\ k > Len(Items(e))
    BY <1>1, <1>4
  <2>2. InsertAt(Items(e), k, v) = Append(Items(e), v)
    BY <1>2, <2>1, AppendIs
  <2>3. PlaceOf(x, n) = PlaceOf(e, n)
    BY <1>1, <1>2, <1>4
  <2> QED BY <1>1, <2>2, <2>3 DEF SequenceStep
<1> QED BY <1>2, <1>3, <1>4

LEMMA BeforeStep ==
  ASSUME NEW e, Shaped(e), Holds(e), NEW s, Chain(e, s), NEW a \in Nodes \ DOMAIN e.node,
         NEW v \in Values, NEW n \in DOMAIN e.node \cup {Null, Junk}, IsNode(e, n) \/ e.size = 0,
         NEW x, x = insertBeforeNode(e, a, n, v)
  PROVE  Holds(x) /\ SequenceStep(Items(e), PlaceOf(e, n), Items(x), PlaceOf(x, Read(x, n, "prev")))
<1>1. PICK k \in 1 .. Len(s) + 1 : /\ Inserted(e, x, s, k, a, v)
                                   /\ e.size # 0 => k \in 1 .. Len(s) /\ n = s[k]
  <2>1. \E k \in 1 .. Len(s) + 1 : /\ Inserted(e, insertBeforeNode(e, a, n, v), s, k, a, v)
                                   /\ e.size # 0 => k \in 1 .. Len(s) /\ n = s[k]
    BY BeforeSome
  <2> QED BY <2>1
<1>2. /\ Holds(x) /\ Items(x) = InsertAt(Items(e), k, v) /\ PlaceOf(x, a) = k
      /\ PlaceOf(x, n) = IF PlaceOf(e, n) >= k THEN PlaceOf(e, n) + 1 ELSE PlaceOf(e, n)
  BY <1>1, ItemsInserted
<1>3. Len(s) \in Nat /\ DOMAIN x.node = DOMAIN e.node \cup {a}
  BY <1>1, ChainFacts DEF Inserted
<1>4. CASE e.size = 0
  <2>1. n \notin DOMAIN e.node /\ n \notin DOMAIN x.node
    BY <1>3, <1>4, Pointers DEF Shaped
  <2>2. Read(x, n, "prev") = Junk
    BY <2>1 DEF Read, IsNode
  <2>3. PICK y : Shaped(x) /\ Chain(x, y)
    BY <1>1, InsertedChain
  <2>4. PlaceOf(x, Junk) = -1
    <3>1. Junk \notin DOMAIN x.node
      BY <2>3, ChainFacts
    <3> QED BY <2>3, <3>1, PlaceIs DEF NoPlace
  <2>5. Items(e) = <<>> /\ Items(x) = <<v>>
    <3>1. Items(e) \in Seq(Values) /\ Len(Items(e)) = 0
      BY <1>4, ItemsIs, ChainFacts DEF Shaped
    <3>2. Items(e) = <<>>
      BY <3>1
    <3>3. k \in 1 .. Len(Items(e)) + 1 /\ k > Len(Items(e))
      BY <1>1, <3>1, ItemsIs
    <3>4. InsertAt(Items(e), k, v) = Append(Items(e), v)
      BY <3>1, <3>3, AppendIs
    <3>5. Append(<<>>, v) = <<v>>
      OBVIOUS
    <3> QED BY <1>2, <3>2, <3>4, <3>5
  <2> QED BY <1>2, <2>2, <2>4, <2>5 DEF SequenceStep
<1>5. CASE e.size # 0
  <2>1. k \in 1 .. Len(s) /\ n = s[k] /\ n \in DOMAIN e.node
    BY <1>1, <1>5, ChainFacts
  <2>2. PlaceOf(e, n) = k
    BY <2>1, PlaceIs
  <2>3. AtOrNull(s, k) = n /\ n # a
    BY <2>1 DEF AtOrNull
  <2>4. Read(x, n, "prev") = a
    BY <1>1, <2>1, <2>3 DEF Inserted, Read, IsNode
  <2>5. k > 0
    BY <1>3
  <2> QED BY <1>2, <2>2, <2>4, <2>5 DEF SequenceStep
<1> QED BY <1>4, <1>5

(* A deletion of node n while the iterator is at m, and one of the         *)
(* iterator's node.                                                        *)
LEMMA RemovedStep ==
  ASSUME NEW e, Shaped(e), Holds(e), NEW s, Chain(e, s), NEW n \in DOMAIN e.node,
         Cardinality(DOMAIN e.node) > 1, NEW x, x = deleteNode(e, n),
         NEW m \in DOMAIN e.node \cup {Null, Junk}, NEW l, l = IF m = n THEN Null ELSE m
  PROVE  /\ Holds(x) /\ SequenceStep(Items(e), PlaceOf(e, m), Items(x), PlaceOf(x, l))
         /\ SequenceStep(Items(e), PlaceOf(e, n), Items(x), PlaceOf(x, Read(e, n, "next")))
<1>1. PICK k \in 1 .. Len(s) : n = s[k]
  BY ChainFacts
<1>2. Len(s) > 1 /\ Len(s) \in Nat
  BY ChainFacts
<1>3. Removed(e, x, s, k)
  BY <1>1, <1>2, DeleteRemoves
<1>4. /\ Holds(x) /\ Items(x) = RemoveAt(Items(e), k) /\ Len(Items(e)) = Len(s)
      /\ \A j \in DOMAIN e.node \cup {Null, Junk} :
           j # s[k] => PlaceOf(x, j) = IF PlaceOf(e, j) > k THEN PlaceOf(e, j) - 1 ELSE PlaceOf(e, j)
  BY <1>2, <1>3, ItemsRemoved
<1>5. PlaceOf(e, n) = k /\ PlaceOf(e, Null) = 0 /\ Null # n /\ k > 0
  BY <1>1, <1>2, PlaceIs, ChainFacts, Pointers DEF NoPlace
<1>6. PlaceOf(x, Null) = 0
  BY <1>1, <1>4, <1>5
<1>7. SequenceStep(Items(e), PlaceOf(e, m), Items(x), PlaceOf(x, l))
  <2>1. PlaceOf(e, m) \in -1 .. Len(s) /\ (PlaceOf(e, m) = k => m = n)
    BY <1>1, <1>5, PlaceType
  <2>2. PlaceOf(x, l) = IF PlaceOf(e, m) > k THEN PlaceOf(e, m) - 1
                      ELSE IF PlaceOf(e, m) = k THEN 0 ELSE PlaceOf(e, m)
    <3>1. CASE m = n
      BY <1>5, <1>6, <3>1
    <3>2. CASE m # n
      BY <1>1, <1>4, <2>1, <3>2
    <3> QED BY <3>1, <3>2
  <2> QED BY <1>4, <2>2 DEF SequenceStep
<1>8. SequenceStep(Items(e), PlaceOf(e, n), Items(x), PlaceOf(x, Read(e, n, "next")))
  <2>1. Read(e, n, "next") = AtOrNull(s, k + 1)
    BY <1>1 DEF Read, IsNode, Chain
  <2>2. PlaceOf(x, AtOrNull(s, k + 1)) = IF k = Len(s) THEN 0 ELSE k
    <3>1. CASE k = Len(s)
      BY <1>2, <1>6, <3>1 DEF AtOrNull
    <3>2. CASE k # Len(s)
      <4>1. k + 1 \in 1 .. Len(s) /\ k + 1 # k
        BY <1>2, <3>2
      <4>2. s[k + 1] \in DOMAIN e.node /\ s[k + 1] # s[k] /\ PlaceOf(e, s[k + 1]) = k + 1
        <5>1. PICK h \in 1 .. Len(s) : h = k + 1
          BY <4>1
        <5>2. s[h] \in DOMAIN e.node /\ s[h] # s[k]
          BY <4>1, <5>1, ChainFacts DEF Chain
        <5>3. PlaceOf(e, s[h]) = h
          BY PlaceIs
        <5> QED BY <5>1, <5>2, <5>3
      <4>3. PlaceOf(x, s[k + 1]) = k
        BY <1>2, <1>4, <4>2
      <4> QED BY <3>2, <4>1, <4>3 DEF AtOrNull
    <3> QED BY <3>1, <3>2
  <2> QED BY <1>4, <1>5, <2>1, <2>2 DEF SequenceStep
<1> QED BY <1>4, <1>7, <1>8

(* Moving the iterator by o moves its place by o, or leaves the sequence. *)
LEMMA ByPlace ==
  ASSUME NEW s, Chain(d, s), it \in DOMAIN d.node \cup {Null, Junk}, NEW o \in Int
  PROVE  IF PlaceOf(d, it) > 0 THEN PlaceOf(d, By(o)) = Past(PlaceOf(d, it) + o, Len(s))
                               ELSE By(o) \in {it, Junk}
<1>0. Len(s) \in Nat
  BY ChainFacts
<1>1. CASE it \in DOMAIN d.node
  <2>1. PICK j \in 1 .. Len(s) : it = s[j]
    BY <1>1, ChainFacts
  <2>2. PlaceOf(d, it) = j
    BY <2>1, PlaceIs
  <2>3. CASE o < 0
    <3>1. PICK k \in Nat : k = -o
      BY <2>3
    <3>2. By(o) = Walk(d, s[j], k, "prev")
      BY <2>1, <2>3, <3>1 DEF By
    <3>3. PlaceOf(d, By(o)) = Past(j - k, Len(s))
      BY <3>2, WalkBack
    <3>4. j - k = j + o /\ j > 0
      BY <3>1
    <3> QED BY <2>2, <3>3, <3>4
  <2>4. CASE ~(o < 0)
    <3>1. PICK k \in Nat : k = o
      BY <2>4
    <3>2. By(o) = Walk(d, s[j], k, "next")
      BY <2>1, <2>4, <3>1 DEF By
    <3>3. PlaceOf(d, By(o)) = Past(j + k, Len(s))
      BY <3>2, WalkAhead
    <3> QED BY <2>2, <3>1, <3>3
  <2> QED BY <2>3, <2>4
<1>2. CASE it \notin DOMAIN d.node
  <2>1. PICK k \in Nat : \E side : By(o) = Walk(d, it, k, side)
    <3>1. CASE o < 0
      BY <3>1, -o \in Nat DEF By
    <3>2. CASE ~(o < 0)
      BY <3>2, o \in Nat DEF By
    <3> QED BY <3>1, <3>2
  <2>2. By(o) \in {it, Junk}
    BY <1>2, <2>1, WalkNowhere
  <2>3. ~(PlaceOf(d, it) > 0)
    <3>1. PlaceOf(d, it) \in -1 .. Len(s) /\ PlaceOf(d, it) <= 0
      BY <1>2, PlaceType
    <3> QED BY <3>1
  <2> QED BY <2>2, <2>3
<1> QED BY <1>1, <1>2

(* At the first place, the iterator is begin(). *)
LEMMA FirstPlace ==
  ASSUME NEW s, Chain(d, s), PlaceOf(d, it) = 1
  PROVE  AtFirst
<1>1. it = s[1] /\ 1 \in 1 .. Len(s) /\ s[1] \in DOMAIN d.node
  <2>1. it = s[1] /\ 1 \in -1 .. Len(s)
    BY PlaceType
  <2>2. Len(s) \in Nat
    BY ChainFacts
  <2>3. 1 \in 1 .. Len(s)
    BY <2>1, <2>2
  <2> QED BY <2>1, <2>3, ChainFacts
<1> QED BY <1>1 DEF AtFirst, Read, IsNode, Chain, AtOrNull

(* The links are exact, and a client's deque holds the client's values. *)
SequenceInv == ChainInv /\ (user = "deque" => Holds(d))

(* Every operation of the client of a deque is such a step. *)
LEMMA SequenceDeque ==
  ASSUME SequenceInv, user = "deque", user' = user, DequeNext
  PROVE  /\ user = "deque" => Holds(d')
         /\ [Abstract!SequenceNext]_<<IF user = "deque" THEN Contents ELSE <<>>,
                                      IF user = "deque" THEN Position ELSE 0>>
<1> DEFINE Step == Holds(d') /\ SequenceStep(Items(d), PlaceOf(d, it), Items(d'), PlaceOf(d', it'))
<1>1. SUFFICES Step
  BY StepRefines
<1>2. PICK s : Chain(d, s) /\ Shaped(d) /\ Holds(d)
  BY DEF SequenceInv, ChainInv, Linked
<1>3. it \in DOMAIN d.node \cup {Null, Junk} /\ todo \in Seq(Values)
  BY DEF SequenceInv, ChainInv
<1>4. Len(s) \in Nat /\ Len(Items(d)) = Len(s) /\ Items(d) \in Seq(Values)
  BY <1>2, ChainFacts, ItemsIs
<1>5. ASSUME d' = d, it' = it PROVE Step
  BY <1>2, <1>5 DEF SequenceStep
<1>6. ASSUME NEW a \in New, NEW v \in Values, d' = insertAfterNode(d, a, v), it' = it PROVE Step
  <2>1. Inserted(d, d', s, Len(s) + 1, a, v) /\ Len(s) + 1 \in 1 .. Len(s) + 1
    BY <1>2, <1>4, <1>6, AfterInserted DEF New
  <2> QED BY <1>2, <1>3, <1>6, <2>1, InsertedStep DEF New
<1>7. ASSUME NEW v \in Values, append(v) PROVE Step
  BY <1>6, <1>7 DEF append
<1>8. CASE AppendNext
  <2>1. Head(todo) \in Values
    BY <1>3, <1>8, HeadTailProperties DEF AppendNext
  <2> QED BY <1>6, <1>8, <2>1 DEF AppendNext
<1>9. ASSUME NEW v \in Values, InsertHere(v) PROVE Step
  <2>1. CASE (IsNode(d, it) \/ d.size = 0) /\ todo' = todo
             /\ \E a \in New : d' = insertBeforeNode(d, a, it, v) /\ it' = Read(d', it, "prev")
    <3>1. PICK a \in New : d' = insertBeforeNode(d, a, it, v) /\ it' = Read(d', it, "prev")
      BY <2>1
    <3>2. PICK x : x = insertBeforeNode(d, a, it, v)
      OBVIOUS
    <3>3. Holds(x) /\ SequenceStep(Items(d), PlaceOf(d, it), Items(x), PlaceOf(x, Read(x, it, "prev")))
      BY <1>2, <1>3, <2>1, <3>2, BeforeStep DEF New
    <3> QED BY <3>1, <3>2, <3>3
  <2> QED BY <1>5, <1>9, <2>1 DEF InsertHere, Stops
<1>10. CASE begin
  <2>1. PlaceOf(d, d.first) = IF Items(d) = <<>> THEN 0 ELSE 1
    <3>1. CASE Len(s) = 0
      <4>1. d.first = Null
        BY <1>2, <3>1 DEF Chain, AtOrNull
      <4>2. PlaceOf(d, Null) = 0 /\ Items(d) = <<>>
        BY <1>2, <1>4, <3>1, PlaceIs, ChainFacts, Pointers DEF NoPlace
      <4> QED BY <4>1, <4>2
    <3>2. CASE Len(s) # 0
      <4>1. 1 \in 1 .. Len(s) /\ Items(d) # <<>>
        BY <1>4, <3>2
      <4>2. d.first = s[1]
        BY <1>2, <4>1 DEF Chain, AtOrNull
      <4> QED BY <1>2, <4>1, <4>2, PlaceIs
    <3> QED BY <3>1, <3>2
  <2> QED BY <1>2, <1>10, <2>1 DEF begin, SequenceStep
<1>11. CASE end
  <2>1. PlaceOf(d, d.last) = Len(Items(d))
    <3>1. CASE Len(s) = 0
      <4>1. d.last = Null
        BY <1>2, <3>1 DEF Chain, AtOrNull
      <4>2. PlaceOf(d, Null) = 0
        BY <1>2, PlaceIs, ChainFacts, Pointers DEF NoPlace
      <4> QED BY <1>4, <3>1, <4>1, <4>2
    <3>2. CASE Len(s) # 0
      <4>1. Len(s) \in 1 .. Len(s)
        BY <1>4, <3>2
      <4>2. d.last = s[Len(s)]
        BY <1>2, <4>1 DEF Chain, AtOrNull
      <4> QED BY <1>2, <1>4, <4>1, <4>2, PlaceIs
    <3> QED BY <3>1, <3>2
  <2> QED BY <1>2, <1>11, <2>1 DEF end, SequenceStep
<1>12. CASE DeleteHere
  <2>1. CASE Deletes(it) /\ it' = Read(d, it, "next") /\ d' = deleteNode(d, it) /\ todo' = todo
    <3>1. it \in DOMAIN d.node /\ Cardinality(DOMAIN d.node) > 1
      BY <2>1 DEF Deletes, IsNode
    <3>2. PICK x, l : x = deleteNode(d, it) /\ l = IF it = it THEN Null ELSE it
      OBVIOUS
    <3>3. Holds(x) /\ SequenceStep(Items(d), PlaceOf(d, it), Items(x), PlaceOf(x, Read(d, it, "next")))
      BY <1>2, <1>3, <3>1, <3>2, RemovedStep
    <3> QED BY <2>1, <3>2, <3>3
  <2> QED BY <1>5, <1>12, <2>1 DEF DeleteHere, Stops
<1>13. ASSUME NEW j \in 0 .. MaxSize, DeleteAtIndex(j) PROVE Step
  <2>1. PICK n : n = findNodeAt(d, j)
    OBVIOUS
  <2>2. CASE Deletes(n) /\ d' = deleteNode(d, n) /\ todo' = todo /\ it' = IF it = n THEN Null ELSE it
    <3>1. n \in DOMAIN d.node /\ Cardinality(DOMAIN d.node) > 1
      BY <2>2 DEF Deletes, IsNode
    <3>2. PICK x, l : x = deleteNode(d, n) /\ l = IF it = n THEN Null ELSE it
      OBVIOUS
    <3>3. Holds(x) /\ SequenceStep(Items(d), PlaceOf(d, it), Items(x), PlaceOf(x, l))
      BY <1>2, <1>3, <3>1, <3>2, RemovedStep
    <3> QED BY <2>2, <3>2, <3>3
  <2> QED BY <1>5, <1>13, <2>1, <2>2 DEF DeleteAtIndex, Stops
<1>14. ASSUME NEW j \in 0 .. MaxSize, NEW v \in Values, InsertAtIndex(j, v) PROVE Step
  <2>1. PICK n : n = findNodeAt(d, j)
    OBVIOUS
  <2>2. CASE (IsNode(d, n) \/ d.size = 0) /\ it' = it /\ todo' = todo
             /\ \E a \in New : d' = insertBeforeNode(d, a, n, v)
    <3>1. PICK a \in New : d' = insertBeforeNode(d, a, n, v)
      BY <2>2
    <3>2. PICK x : x = insertBeforeNode(d, a, n, v)
      OBVIOUS
    <3>3. PICK k \in 1 .. Len(s) + 1 : Inserted(d, x, s, k, a, v)
      <4>1. \E k \in 1 .. Len(s) + 1 : /\ Inserted(d, insertBeforeNode(d, a, n, v), s, k, a, v)
                                       /\ d.size # 0 => k \in 1 .. Len(s) /\ n = s[k]
        BY <1>2, <2>2, BeforeSome DEF New
      <4> QED BY <3>2, <4>1
    <3>4. Holds(x) /\ SequenceStep(Items(d), PlaceOf(d, it), Items(x), PlaceOf(x, it))
      BY <1>2, <1>3, <3>3, InsertedStep DEF New
    <3> QED BY <2>2, <3>1, <3>2, <3>4
  <2> QED BY <1>5, <1>14, <2>1, <2>2 DEF InsertAtIndex, Stops
<1>15. ASSUME NEW o \in Lists, AppendDeque(o) PROVE Step
  BY <1>5, <1>15 DEF AppendDeque
<1>16. ASSUME NEW off \in Offsets, Forward(off) \/ Backward(off) PROVE Step
  <2>1. off \in Int /\ -off \in Int /\ -off \in Offsets
    BY Requests
  <2> DEFINE p == PlaceOf(d, it)
  <2>2. p \in -1 .. Len(s) /\ (p = 1 => AtFirst)
    BY <1>2, <1>3, FirstPlace, PlaceType
  <2>3. ASSUME NEW o \in Offsets, o \in Int, d' = d, it' = By(o), o < 0 => p # 1 PROVE Step
    <3>1. IF p > 0 THEN PlaceOf(d, By(o)) = Past(p + o, Len(s)) ELSE By(o) \in {it, Junk}
      BY <1>2, <1>3, <2>3, ByPlace
    <3>2. PlaceOf(d, Junk) = -1
      BY <1>2, PlaceIs, ChainFacts DEF NoPlace
    <3>3. PlaceOf(d, it) = p
      OBVIOUS
    <3> HIDE DEF p
    <3>4. SequenceStep(Items(d), p, Items(d), PlaceOf(d, By(o)))
      <4>1. CASE p <= 0
        <5>1. PlaceOf(d, By(o)) \in {p, -1}
          BY <2>2, <3>1, <3>2, <3>3, <4>1
        <5> QED BY <4>1, <5>1 DEF SequenceStep
      <4>2. CASE p > 0
        <5>1. p > (IF o < 0 THEN 1 ELSE 0)
          BY <1>4, <2>2, <2>3, <4>2
        <5> QED BY <1>4, <2>3, <3>1, <4>2, <5>1 DEF SequenceStep
      <4> QED BY <2>2, <4>1, <4>2
    <3> QED BY <1>2, <2>3, <3>4 DEF p
  <2> HIDE DEF p
  <2>4. CASE Forward(off)
    BY <1>5, <2>1, <2>2, <2>3, <2>4 DEF Forward, Stops
  <2>5. CASE Backward(off)
    BY <1>5, <2>1, <2>2, <2>3, <2>5 DEF Backward, Stops
  <2> QED BY <1>16, <2>4, <2>5
<1> HIDE DEF Step
<1> QED BY <1>7, <1>8, <1>9, <1>10, <1>11, <1>12, <1>13, <1>14, <1>15, <1>16 DEF DequeNext

(* A deque that is modified and read through an iterator, and by index, is *)
(* a sequence with a place in it: each call is one operation on those, and *)
(* what the deque's _mid has become is never seen but in the place that an *)
(* index finds.                                                            *)
THEOREM DequeIsSequence == ContainersSpec => ImplementsSequence
<1> DEFINE S == IF user = "deque" THEN Contents ELSE <<>>
           p == IF user = "deque" THEN Position ELSE 0
<1>1. ContainersInit => SequenceInv /\ S = <<>> /\ p = 0
  <2> SUFFICES ASSUME ContainersInit PROVE SequenceInv /\ S = <<>> /\ p = 0
    OBVIOUS
  <2>1. ChainInv
    BY ChainInit
  <2>2. d = Empty /\ it = Null /\ DOMAIN d.node = {}
    BY DEF ContainersInit, DequeInit, Empty
  <2>3. PICK s : Chain(d, s)
    BY <2>1 DEF ChainInv, Linked
  <2>4. Len(s) = 0
    BY <2>2, <2>3, ChainFacts, FS_EmptySet
  <2>5. Holds(d)
    BY <2>2 DEF Holds
  <2>6. PlaceOf(d, it) = 0 /\ Items(d) = <<>>
    BY <2>2, <2>3, <2>4, <2>5, PlaceIs, ItemsIs, Pointers DEF NoPlace
  <2>7. Contents = Items(d) /\ Position = PlaceOf(d, it)
    BY DEF Contents, Position, Items, PlaceOf, NoPlace
  <2> QED BY <2>1, <2>5, <2>6, <2>7 DEF SequenceInv
<1>2. SequenceInv /\ [ContainersNext /\ UNCHANGED user]_<<containerVars, user>>
      => SequenceInv' /\ [Abstract!SequenceNext]_<<S, p>>
  <2> SUFFICES ASSUME SequenceInv, [ContainersNext /\ UNCHANGED user]_<<containerVars, user>>
               PROVE  SequenceInv' /\ [Abstract!SequenceNext]_<<S, p>>
    OBVIOUS
  <2>1. ChainInv' /\ user' = user
    <3>1. CASE UNCHANGED <<containerVars, user>>
      BY <3>1, ChainStays DEF containerVars, dequeVars, ChainInv, SequenceInv
    <3>2. CASE ContainersNext /\ UNCHANGED user
      BY <3>2, ChainDeque, ChainMap, ChainArg DEF ContainersNext, SequenceInv
    <3> QED BY <3>1, <3>2
  <2>2. (user = "deque" => Holds(d')) /\ [Abstract!SequenceNext]_<<S, p>>
    <3>1. CASE user # "deque"
      BY <2>1, <3>1
    <3>2. CASE user = "deque" /\ UNCHANGED <<containerVars, user>>
      <4>1. SequenceStep(Items(d), PlaceOf(d, it), Items(d'), PlaceOf(d', it'))
        BY <3>2 DEF SequenceStep, containerVars, dequeVars
      <4>2. Holds(d')
        BY <3>2 DEF SequenceInv, containerVars, dequeVars
      <4> QED BY <2>1, <3>2, <4>1, <4>2, StepRefines
    <3>3. CASE user = "deque" /\ ContainersNext /\ UNCHANGED user
      <4>1. DequeNext
        BY <3>3 DEF ContainersNext
      <4> QED BY <3>3, <4>1, SequenceDeque
    <3> QED BY <3>1, <3>2, <3>3
  <2> QED BY <2>1, <2>2 DEF SequenceInv
<1> QED BY <1>1, <1>2, PTL DEF ContainersSpec, ImplementsSequence, Abstract!SequenceSpec, Abstract!EmptyInit

-----------------------------------------------------------------------------
(* A map is in the order of its keys. *)
Sorted(e, s) ==
  /\ \A j \in 1 .. Len(s) : key(e, s[j]) \in Int
  /\ \A j, m \in 1 .. Len(s) : j < m => key(e, s[j]) < key(e, s[m])

(* What inserting a key that is not there does. *)
LEMMA InsertSorted ==
  ASSUME NEW e, Shaped(e), NEW s, Chain(e, s), Sorted(e, s), NEW a \in Nodes \ DOMAIN e.node,
         NEW k \in Int, NEW v, \A n \in DOMAIN e.node : key(e, n) # k, NEW x, x = insert(e, a, k, v)
  PROVE  \E z : /\ Shaped(x) /\ Chain(x, z) /\ Sorted(x, z) /\ DOMAIN x.node = DOMAIN e.node \cup {a}
                /\ x.node[a].val = Pair(k, v)
                /\ \A n \in DOMAIN e.node : x.node[n].val = e.node[n].val
<1>0. Len(s) \in Nat /\ s \in Seq(Nodes) /\ Order(e) = s /\ DOMAIN s = 1 .. Len(s)
      /\ \A j \in 1 .. Len(s) : s[j] \in DOMAIN e.node
  BY ChainFacts, OrderIs, LenProperties DEF Chain
<1> DEFINE S == {j \in 1 .. Len(s) : key(e, s[j]) >= k}
<1>1. NotBelow(e, k) = NodeOf(e, S)
  BY <1>0 DEF NotBelow
<1>2. IF S = {} THEN NodeOf(e, S) = Null
      ELSE \E j \in S : NodeOf(e, S) = s[j] /\ \A m \in S : j <= m
  <2>1. S \in SUBSET DOMAIN Order(e)
    BY <1>0
  <2> HIDE DEF S
  <2> QED BY <2>1, NodeOfIs
<1>3. PICK p \in 1 .. Len(s) + 1 :
        /\ Inserted(e, x, s, p, a, Pair(k, v))
        /\ \A j \in 1 .. Len(s) : IF j < p THEN key(e, s[j]) < k ELSE k < key(e, s[j])
  <2>1. CASE S = {}
    <3>1. x = insertAfterNode(e, a, Pair(k, v))
      BY <1>1, <1>2, <2>1 DEF insert
    <3>2. Inserted(e, x, s, Len(s) + 1, a, Pair(k, v)) /\ Len(s) + 1 \in 1 .. Len(s) + 1
      BY <1>0, <3>1, AfterInserted
    <3>3. \A j \in 1 .. Len(s) : j < Len(s) + 1 /\ key(e, s[j]) < k
      BY <1>0, <2>1 DEF Sorted
    <3> QED BY <3>2, <3>3
  <2>2. CASE S # {}
    <3>1. PICK j \in S : NodeOf(e, S) = s[j] /\ \A m \in S : j <= m
      BY <1>2, <2>2
    <3>2. j \in 1 .. Len(s) /\ key(e, s[j]) >= k
      OBVIOUS
    <3>3. s[j] # Null /\ key(e, s[j]) # k /\ IsNode(e, s[j])
      BY <1>0, <3>2, ChainFacts DEF IsNode
    <3>4. x = insertBeforeNode(e, a, s[j], Pair(k, v))
      BY <1>1, <3>1, <3>3 DEF insert
    <3>5. e.size # 0
      BY <3>3 DEF Shaped, IsNode
    <3>6. Inserted(e, x, s, j, a, Pair(k, v)) /\ j \in 1 .. Len(s) + 1
      <4>1. PICK n : n = s[j]
        OBVIOUS
      <4>2. Inserted(e, insertBeforeNode(e, a, n, Pair(k, v)), s, j, a, Pair(k, v))
        BY <3>2, <3>5, <4>1, BeforeInserted
      <4> QED BY <1>0, <3>2, <3>4, <4>1, <4>2
    <3>7. \A m \in 1 .. Len(s) : IF m < j THEN key(e, s[m]) < k ELSE k < key(e, s[m])
      <4> SUFFICES ASSUME NEW m \in 1 .. Len(s)
                   PROVE  IF m < j THEN key(e, s[m]) < k ELSE k < key(e, s[m])
        OBVIOUS
      <4>1. key(e, s[m]) \in Int /\ key(e, s[j]) \in Int /\ (j < m => key(e, s[j]) < key(e, s[m]))
        BY <3>2 DEF Sorted
      <4>2. m < j => m \notin S
        BY <1>0, <3>1, <3>2
      <4> QED BY <1>0, <3>2, <3>3, <4>1, <4>2
    <3> QED BY <3>6, <3>7
  <2> QED BY <2>1, <2>2
<1> HIDE DEF S
<1> DEFINE z == InsertAt(s, p, a)
<1>4. /\ Shaped(x) /\ Chain(x, z) /\ DOMAIN x.node = DOMAIN e.node \cup {a}
      /\ x.node[a].val = Pair(k, v) /\ \A n \in DOMAIN e.node : x.node[n].val = e.node[n].val
  BY <1>3, InsertedChain
<1>5. /\ z \in Seq(Nodes) /\ Len(z) = Len(s) + 1
      /\ \A j \in 1 .. Len(s) + 1 : z[j] = IF j < p THEN s[j] ELSE IF j = p THEN a ELSE s[j - 1]
  BY <1>0, <1>3, InsertAtIs
<1> HIDE DEF z
<1>6. key(x, a) = k /\ \A n \in DOMAIN e.node : key(x, n) = key(e, n)
  BY <1>4 DEF key, Pair
<1>7. \A j \in 1 .. Len(s) + 1 : /\ j < p => j \in 1 .. Len(s) /\ key(x, z[j]) = key(e, s[j])
                                 /\ j = p => key(x, z[j]) = k
                                 /\ j > p => j - 1 \in 1 .. Len(s) /\ key(x, z[j]) = key(e, s[j - 1])
  BY <1>0, <1>5, <1>6
<1>8. Sorted(x, z)
  <2>1. \A j \in 1 .. Len(z) : key(x, z[j]) \in Int
    BY <1>0, <1>5, <1>7 DEF Sorted
  <2>2. ASSUME NEW j \in 1 .. Len(z), NEW m \in 1 .. Len(z), j < m
        PROVE  key(x, z[j]) < key(x, z[m])
    <3>0. j \in 1 .. Len(s) + 1 /\ m \in 1 .. Len(s) + 1 /\ p \in Int
      BY <1>0, <1>5
    <3>1. CASE m < p
      BY <1>0, <1>7, <2>2, <3>0, <3>1 DEF Sorted
    <3>2. CASE m = p
      BY <1>0, <1>3, <1>7, <2>2, <3>0, <3>2
    <3>3. CASE m > p /\ j < p
      <4>1. j \in 1 .. Len(s) /\ key(x, z[j]) = key(e, s[j]) /\ key(e, s[j]) < k
        BY <1>3, <1>7, <3>0, <3>3
      <4>2. m - 1 \in 1 .. Len(s) /\ key(x, z[m]) = key(e, s[m - 1]) /\ k < key(e, s[m - 1])
        BY <1>3, <1>7, <3>0, <3>3
      <4>3. key(e, s[j]) \in Int /\ key(e, s[m - 1]) \in Int
        BY <4>1, <4>2 DEF Sorted
      <4> QED BY <4>1, <4>2, <4>3
    <3>4. CASE j = p
      BY <1>0, <1>3, <1>7, <2>2, <3>0, <3>4
    <3>5. CASE j > p
      <4>1. j - 1 \in 1 .. Len(s) /\ key(x, z[j]) = key(e, s[j - 1])
        BY <1>7, <3>0, <3>5
      <4>2. m - 1 \in 1 .. Len(s) /\ key(x, z[m]) = key(e, s[m - 1])
        BY <1>7, <2>2, <3>0, <3>5
      <4>3. key(e, s[j - 1]) < key(e, s[m - 1])
        BY <2>2, <4>1, <4>2 DEF Sorted
      <4> QED BY <4>1, <4>2, <4>3
    <3> QED BY <3>0, <3>1, <3>2, <3>3, <3>4, <3>5
  <2> QED BY <2>1, <2>2 DEF Sorted
<1> QED BY <1>4, <1>8

(* A deque of pairs that is the function f. *)
MapIs(e, f) ==
  /\ \E s : Chain(e, s) /\ Sorted(e, s)
  /\ \A n \in DOMAIN e.node : key(e, n) \in DOMAIN f /\ e.node[n].val.second = f[key(e, n)]
  /\ \A k \in DOMAIN f : \E n \in DOMAIN e.node : key(e, n) = k

(* A new key with its value extends the function. *)
LEMMA MapInserted ==
  ASSUME NEW e, Shaped(e), NEW f, MapIs(e, f), NEW a \in Nodes \ DOMAIN e.node,
         NEW k \in Int \ DOMAIN f, NEW v, NEW x, x = insert(e, a, k, v),
         NEW g, g = [j \in DOMAIN f \cup {k} |-> IF j = k THEN v ELSE f[j]]
  PROVE  MapIs(x, g)
<1>1. PICK s : Chain(e, s) /\ Sorted(e, s)
  BY DEF MapIs
<1>2. \A n \in DOMAIN e.node : key(e, n) # k
  BY DEF MapIs
<1>3. PICK z : /\ Shaped(x) /\ Chain(x, z) /\ Sorted(x, z) /\ DOMAIN x.node = DOMAIN e.node \cup {a}
               /\ x.node[a].val = Pair(k, v)
               /\ \A n \in DOMAIN e.node : x.node[n].val = e.node[n].val
  BY <1>1, <1>2, InsertSorted
<1>4. key(x, a) = k /\ x.node[a].val.second = v
  BY <1>3 DEF key, Pair
<1>5. \A n \in DOMAIN e.node : key(x, n) = key(e, n) /\ x.node[n].val.second = e.node[n].val.second
  BY <1>3 DEF key
<1>6. DOMAIN g = DOMAIN f \cup {k} /\ g[k] = v /\ \A j \in DOMAIN f : g[j] = f[j]
  OBVIOUS
<1>7. \A n \in DOMAIN x.node : key(x, n) \in DOMAIN g /\ x.node[n].val.second = g[key(x, n)]
  BY <1>3, <1>4, <1>5, <1>6 DEF MapIs
<1>8. \A j \in DOMAIN g : \E n \in DOMAIN x.node : key(x, n) = j
  <2> SUFFICES ASSUME NEW j \in DOMAIN g PROVE \E n \in DOMAIN x.node : key(x, n) = j
    OBVIOUS
  <2>1. CASE j = k
    BY <1>3, <1>4, <2>1
  <2>2. CASE j # k
    <3>1. PICK n \in DOMAIN e.node : key(e, n) = j
      BY <1>6, <2>2 DEF MapIs
    <3> QED BY <1>3, <1>5, <3>1
  <2> QED BY <2>1, <2>2
<1> QED BY <1>3, <1>7, <1>8 DEF MapIs

(* What one finds in the map, and how much there is. *)
LEMMA EqualIs ==
  ASSUME NEW e, NEW s, Chain(e, s), NEW k, \E n \in DOMAIN e.node : key(e, n) = k
  PROVE  Equal(e, k) \in DOMAIN e.node /\ Equal(e, k) # Null /\ key(e, Equal(e, k)) = k
<1>0. Order(e) = s /\ DOMAIN s = 1 .. Len(s) /\ Len(s) \in Nat
  <2>1. Order(e) = s
    BY OrderIs
  <2>2. s \in Seq(Nodes)
    BY DEF Chain
  <2> QED BY <2>1, <2>2, LenProperties
<1> DEFINE S == {j \in 1 .. Len(s) : key(e, s[j]) = k}
<1>1. Equal(e, k) = NodeOf(e, S) /\ S \in SUBSET DOMAIN Order(e)
  BY <1>0 DEF Equal
<1>2. S # {}
  BY ChainFacts
<1>3. \A j \in S : key(e, s[j]) = k
  OBVIOUS
<1> HIDE DEF S
<1>4. PICK j \in S : NodeOf(e, S) = s[j] /\ s[j] \in DOMAIN e.node
  BY <1>1, <1>2, NodeOfIs
<1> QED BY <1>1, <1>3, <1>4, ChainFacts

LEMMA MapCounts ==
  ASSUME NEW e, NEW s, Chain(e, s), Sorted(e, s), NEW f, MapIs(e, f)
  PROVE  IsFiniteSet(DOMAIN f) /\ Cardinality(DOMAIN f) = Len(s)
<1>0. Len(s) \in Nat /\ \A j \in 1 .. Len(s) : s[j] \in DOMAIN e.node
  BY ChainFacts
<1> DEFINE b == [j \in 1 .. Len(s) |-> key(e, s[j])]
<1>1. b \in [1 .. Len(s) -> DOMAIN f]
  BY <1>0 DEF MapIs
<1>2. \A j, m \in 1 .. Len(s) : b[j] = b[m] => j = m
  <2> SUFFICES ASSUME NEW j \in 1 .. Len(s), NEW m \in 1 .. Len(s), j < m PROVE b[j] # b[m]
    BY <1>0
  <2>1. key(e, s[j]) \in Int /\ key(e, s[m]) \in Int /\ key(e, s[j]) < key(e, s[m])
    BY DEF Sorted
  <2> QED BY <2>1
<1>3. \A k \in DOMAIN f : \E j \in 1 .. Len(s) : b[j] = k
  <2> SUFFICES ASSUME NEW k \in DOMAIN f PROVE \E j \in 1 .. Len(s) : b[j] = k
    OBVIOUS
  <2>1. PICK n \in DOMAIN e.node : key(e, n) = k
    BY DEF MapIs
  <2>2. PICK j \in 1 .. Len(s) : n = s[j]
    BY ChainFacts
  <2> QED BY <2>1, <2>2
<1> HIDE DEF b
<1>4. b \in Bijection(1 .. Len(s), DOMAIN f)
  BY <1>1, <1>2, <1>3 DEF Bijection, Injection, Surjection, IsInjective
<1>5. ExistsBijection(1 .. Len(s), DOMAIN f)
  BY <1>4 DEF ExistsBijection
<1> QED BY <1>0, <1>5, FS_NatBijection, FS_CountingElements

(* The client's map is what was put into it, until a key is put again. *)
MapInv ==
  /\ ChainInv
  /\ user = "map" => /\ again \in BOOLEAN /\ DOMAIN put \subseteq Int
                     /\ ~again => MapIs(d, put)

(* A map of keys that are inserted once each, in any order, has them in    *)
(* their order, and gives for each what was inserted with it.              *)
THEOREM MapIsFunction == ContainersSpec => []MapRemembers
<1>1. ContainersInit => MapInv
  <2> SUFFICES ASSUME ContainersInit PROVE MapInv
    OBVIOUS
  <2>1. ChainInv
    BY ChainInit
  <2>2. DOMAIN d.node = {} /\ DOMAIN put = {} /\ again = FALSE
    BY DEF ContainersInit, DequeInit, MapInit, Empty
  <2>3. PICK s : Chain(d, s)
    BY <2>1 DEF ChainInv, Linked
  <2>4. Len(s) = 0
    BY <2>2, <2>3, ChainFacts, FS_EmptySet
  <2>5. Sorted(d, s)
    BY <2>4 DEF Sorted
  <2> QED BY <2>1, <2>2, <2>3, <2>5 DEF MapInv, MapIs
<1>2. MapInv /\ [ContainersNext /\ UNCHANGED user]_<<containerVars, user>> => MapInv'
  <2> SUFFICES ASSUME MapInv, [ContainersNext /\ UNCHANGED user]_<<containerVars, user>>
               PROVE  MapInv'
    OBVIOUS
  <2>1. ChainInv' /\ user' = user
    <3>1. CASE UNCHANGED <<containerVars, user>>
      BY <3>1, ChainStays DEF containerVars, dequeVars, ChainInv, MapInv
    <3>2. CASE ContainersNext /\ UNCHANGED user
      BY <3>2, ChainDeque, ChainMap, ChainArg DEF ContainersNext, MapInv
    <3> QED BY <3>1, <3>2
  <2>2. CASE user # "map"
    BY <2>1, <2>2 DEF MapInv
  <2>3. CASE user = "map" /\ d' = d /\ UNCHANGED mapVars
    BY <2>1, <2>3 DEF MapInv, mapVars
  <2>4. ASSUME user = "map", NEW k \in Keys, NEW v \in Images, MapInserts(k, v) PROVE MapInv'
    <3>1. PICK a \in New : d' = insert(d, a, k, v)
      BY <2>4 DEF MapInserts
    <3>2. /\ put' = [j \in DOMAIN put \cup {k} |-> IF j = k THEN v ELSE put[j]]
          /\ again' = (again \/ k \in DOMAIN put)
      BY <2>4 DEF MapInserts
    <3>3. k \in Int /\ again \in BOOLEAN /\ DOMAIN put \subseteq Int
      BY <2>4, KeysOrdered DEF MapInv
    <3>4. again' \in BOOLEAN /\ DOMAIN put' \subseteq Int
      BY <3>2, <3>3
    <3>5. ASSUME ~again' PROVE MapIs(d', put')
      <4>1. ~again /\ k \notin DOMAIN put
        BY <3>2, <3>5
      <4>2. MapIs(d, put) /\ Shaped(d)
        BY <2>4, <4>1 DEF MapInv, ChainInv, Linked
      <4>3. a \in Nodes \ DOMAIN d.node
        BY DEF New
      <4>4. PICK x, g : /\ x = insert(d, a, k, v)
                        /\ g = [j \in DOMAIN put \cup {k} |-> IF j = k THEN v ELSE put[j]]
        OBVIOUS
      <4>5. MapIs(x, g)
        BY <3>3, <4>1, <4>2, <4>3, <4>4, MapInserted
      <4> QED BY <3>1, <3>2, <4>4, <4>5
    <3> QED BY <2>1, <3>4, <3>5 DEF MapInv
  <2> QED BY <2>2, <2>3, <2>4
          DEF ContainersNext, MapNext, MapFinds, containerVars, dequeVars, mapVars
<1>3. MapInv => MapRemembers
  <2> SUFFICES ASSUME MapInv, user = "map", ~again PROVE MapRemembers
    BY DEF MapRemembers
  <2>1. MapIs(d, put)
    BY DEF MapInv
  <2>2. PICK s : Chain(d, s) /\ Sorted(d, s)
    BY <2>1 DEF MapIs
  <2>3. Order(d) = s /\ DOMAIN s = 1 .. Len(s) /\ Len(s) \in Nat
    BY <2>2, OrderIs, ChainFacts, LenProperties DEF Chain
  <2>4. Len(s) = Cardinality(DOMAIN put)
    BY <2>1, <2>2, MapCounts
  <2>5. \A j \in 1 .. Len(s) : j > 1 => key(d, s[j - 1]) < key(d, s[j])
    <3> SUFFICES ASSUME NEW j \in 1 .. Len(s), j > 1 PROVE key(d, s[j - 1]) < key(d, s[j])
      OBVIOUS
    <3>1. PICK m \in 1 .. Len(s) : m = j - 1 /\ m < j
      BY <2>3
    <3> QED BY <2>2, <3>1 DEF Sorted
  <2>6. ASSUME NEW k \in DOMAIN put PROVE Equal(d, k) # Null /\ value(d, Equal(d, k)) = put[k]
    <3>1. \E n \in DOMAIN d.node : key(d, n) = k
      BY <2>1 DEF MapIs
    <3>2. Equal(d, k) \in DOMAIN d.node /\ Equal(d, k) # Null /\ key(d, Equal(d, k)) = k
      BY <2>2, <3>1, EqualIs
    <3> QED BY <2>1, <3>2 DEF MapIs, value, IsNode
  <2> QED BY <2>3, <2>4, <2>5, <2>6 DEF MapRemembers
<1> QED BY <1>1, <1>2, <1>3, PTL DEF ContainersSpec

-----------------------------------------------------------------------------
(* String::arg scans its text. *)

(* The greatest of a bounded set. *)
LEMMA MaxIs ==
  ASSUME NEW b \in Int, NEW S \in SUBSET Int, S # {}, \A x \in S : x <= b
  PROVE  Max(S) \in S /\ \A x \in S : x <= Max(S)
<1> DEFINE R == {y \in Nat : b - y \in S}
<1>1. R # {}
  <2>1. PICK x \in S : x <= b
    OBVIOUS
  <2>2. b - x \in Nat /\ b - (b - x) = x
    BY <2>1
  <2> QED BY <2>2
<1>2. PICK y \in R : \A z \in R : y <= z
  BY <1>1, Least
<1>3. b - y \in S
  OBVIOUS
<1>4. ASSUME NEW x \in S PROVE x <= b - y
  <2>1. b - x \in Nat /\ b - (b - x) = x
    OBVIOUS
  <2>2. b - x \in R
    BY <2>1
  <2> QED BY <1>2, <2>2
<1>5. \E m \in S : \A x \in S : m >= x
  BY <1>3, <1>4
<1> HIDE DEF R
<1>6. Max(S) \in S /\ \A x \in S : Max(S) >= x
  BY <1>5 DEF Max
<1> QED BY <1>6

(* f is the integers that the first characters are, from the first digit, *)
(* and g is the ints that they are read as.                                *)
Sums(f, from, to) ==
  f = [j \in from - 1 .. to |-> IF j < from THEN 0 ELSE 10 * f[j - 1] + Digit[text[j]]]
Decimals(g, from, to) ==
  g = [j \in from - 1 .. to |-> IF j < from THEN 0 ELSE ToInt(10 * g[j - 1] + Digit[text[j]])]

LEMMA DigitType == \A c \in DOMAIN Digit : Digit[c] \in Nat
<1> SUFFICES ASSUME NEW c \in DOMAIN Digit PROVE Digit[c] \in Nat
  OBVIOUS
<1>1. c \in {"0", "1", "2", "3", "4", "5", "6", "7", "8", "9"}
  BY DEF Digit
<1> QED BY <1>1 DEF Digit

LEMMA SumsExist ==
  ASSUME NEW from \in Int, NEW k \in Nat, \A j \in from .. from - 1 + k : text[j] \in DOMAIN Digit
  PROVE  \E f : Sums(f, from, from - 1 + k)
<1> DEFINE S == {m \in Nat : m <= k => \E f : Sums(f, from, from - 1 + m)}
<1>1. 0 \in S
  <2> DEFINE f == [j \in from - 1 .. from - 1 + 0 |-> 0]
  <2>1. Sums(f, from, from - 1 + 0)
    BY DEF Sums
  <2> QED BY <2>1
<1>2. ASSUME NEW m \in Nat, m \in S PROVE m + 1 \in S
  <2> SUFFICES ASSUME m + 1 <= k PROVE \E f : Sums(f, from, from - 1 + (m + 1))
    OBVIOUS
  <2>1. PICK e : e = from - 1 + m /\ e \in Int
    OBVIOUS
  <2>2. PICK f : Sums(f, from, e)
    BY <1>2, <2>1
  <2>3. PICK c : c = e + 1 /\ c \in Int /\ c = from + m /\ c - 1 = e
    BY <2>1
  <2> DEFINE g == [j \in from - 1 .. c |-> IF j = c THEN 10 * f[e] + Digit[text[c]] ELSE f[j]]
  <2>4. \A j \in from - 1 .. e : f[j] = IF j < from THEN 0 ELSE 10 * f[j - 1] + Digit[text[j]]
    BY <2>2 DEF Sums
  <2>5. g = [j \in from - 1 .. c |-> IF j < from THEN 0 ELSE 10 * g[j - 1] + Digit[text[j]]]
    BY <2>1, <2>3, <2>4
  <2> HIDE DEF g
  <2>6. Sums(g, from, c)
    BY <2>5 DEF Sums
  <2>7. from - 1 + (m + 1) = c
    BY <2>1, <2>3
  <2> QED BY <2>6, <2>7
<1> HIDE DEF S
<1>3. k \in S
  BY <1>1, <1>2, Induct
<1> QED BY <1>3 DEF S

(* They are natural numbers, and the last is the greatest. *)
LEMMA SumsGrow ==
  ASSUME NEW from \in Int, NEW k \in Nat, NEW to \in Int, to = from - 1 + k,
         \A j \in from .. to : text[j] \in DOMAIN Digit, NEW f, Sums(f, from, to)
  PROVE  \A j \in from - 1 .. to : f[j] \in Nat /\ f[j] <= f[to]
<1>1. \A j \in from - 1 .. to : f[j] = IF j < from THEN 0 ELSE 10 * f[j - 1] + Digit[text[j]]
  BY DEF Sums
<1>2. \A j \in from .. to : Digit[text[j]] \in Nat
  BY DigitType
<1> DEFINE T == {m \in Nat : m <= k => f[from - 1 + m] \in Nat}
<1>3. 0 \in T
  BY <1>1
<1>4. ASSUME NEW m \in Nat, m \in T PROVE m + 1 \in T
  <2> SUFFICES ASSUME m + 1 <= k PROVE f[from - 1 + (m + 1)] \in Nat
    OBVIOUS
  <2>1. PICK c \in from .. to : c = from - 1 + (m + 1) /\ c - 1 = from - 1 + m /\ ~(c < from)
    OBVIOUS
  <2>2. f[c - 1] \in Nat /\ Digit[text[c]] \in Nat
    BY <1>2, <1>4, <2>1
  <2>3. f[c] = 10 * f[c - 1] + Digit[text[c]]
    BY <1>1, <2>1
  <2> QED BY <2>1, <2>2, <2>3
<1> HIDE DEF T
<1>5. ASSUME NEW j \in from - 1 .. to PROVE f[j] \in Nat
  <2>1. PICK m \in Nat : m <= k /\ j = from - 1 + m
    <3>1. j - (from - 1) \in Nat /\ j - (from - 1) <= k /\ j = from - 1 + (j - (from - 1))
      OBVIOUS
    <3> QED BY <3>1
  <2>2. m \in T
    BY <1>3, <1>4, Induct
  <2> QED BY <2>1, <2>2 DEF T
<1> DEFINE U == {m \in Nat : m <= k => f[to - m] <= f[to]}
<1>6. 0 \in U
  BY <1>5
<1>7. ASSUME NEW m \in Nat, m \in U PROVE m + 1 \in U
  <2> SUFFICES ASSUME m + 1 <= k PROVE f[to - (m + 1)] <= f[to]
    OBVIOUS
  <2>1. PICK c \in from .. to : c = to - m /\ c - 1 = to - (m + 1) /\ ~(c < from)
    OBVIOUS
  <2>2. /\ f[c - 1] \in Nat /\ f[c] \in Nat /\ f[to] \in Nat /\ Digit[text[c]] \in Nat
        /\ f[c] <= f[to]
    BY <1>2, <1>5, <1>7, <2>1
  <2>3. f[c] = 10 * f[c - 1] + Digit[text[c]]
    BY <1>1, <2>1
  <2> QED BY <2>1, <2>2, <2>3
<1> HIDE DEF U
<1>8. ASSUME NEW j \in from - 1 .. to PROVE f[j] <= f[to]
  <2>1. PICK m \in Nat : m <= k /\ j = to - m
    <3>1. to - j \in Nat /\ to - j <= k /\ j = to - (to - j)
      OBVIOUS
    <3> QED BY <3>1
  <2>2. m \in U
    BY <1>6, <1>7, Induct
  <2> QED BY <2>1, <2>2 DEF U
<1> QED BY <1>5, <1>8

(* Digits make a natural number, and if it fits an int reads as it. *)
LEMMA DecimalIs ==
  ASSUME NEW from \in Int, NEW k \in Nat, NEW to \in Int, to = from - 1 + k,
         \A j \in from .. to : text[j] \in DOMAIN Digit
  PROVE  /\ Natural(from, to) \in Nat
         /\ Natural(from, to) <= IntMax => Decimal(text, from, to) = Natural(from, to)
<1> DEFINE f == CHOOSE g : Sums(g, from, to)
<1>1. Natural(from, to) = f[to]
  BY DEF Natural, Sums
<1>2. Sums(f, from, to)
  BY SumsExist
<1> HIDE DEF f
<1>3. \A j \in from - 1 .. to : f[j] \in Nat /\ f[j] <= f[to]
  BY <1>2, SumsGrow
<1>4. f[to] \in Nat
  <2>1. to \in from - 1 .. to
    OBVIOUS
  <2> QED BY <1>3, <2>1
<1>5. ASSUME f[to] <= IntMax PROVE Decimal(text, from, to) = f[to]
  <2>1. \A j \in from - 1 .. to : f[j] = IF j < from THEN 0 ELSE 10 * f[j - 1] + Digit[text[j]]
    BY <1>2 DEF Sums
  <2>2. \A j \in from - 1 .. to : ToInt(f[j]) = f[j]
    BY <1>3, <1>4, <1>5, IntWidth DEF ToInt
  <2>3. f = [j \in from - 1 .. to |-> IF j < from THEN 0 ELSE 10 * f[j - 1] + Digit[text[j]]]
    BY <1>2 DEF Sums
  <2>4. f = [j \in from - 1 .. to |-> f[j]]
    BY <2>3
  <2>5. \A j \in from - 1 .. to : f[j] = IF j < from THEN 0 ELSE ToInt(10 * f[j - 1] + Digit[text[j]])
    <3> SUFFICES ASSUME NEW j \in from - 1 .. to, ~(j < from)
                 PROVE  f[j] = ToInt(10 * f[j - 1] + Digit[text[j]])
      BY <2>1
    <3>1. f[j] = 10 * f[j - 1] + Digit[text[j]]
      BY <2>1
    <3> QED BY <2>2, <3>1
  <2>6. Decimals(f, from, to)
    BY <2>4, <2>5 DEF Decimals
  <2> DEFINE h == CHOOSE g : Decimals(g, from, to)
  <2>7. Decimals(h, from, to)
    BY <2>6
  <2>8. Decimal(text, from, to) = h[to]
    BY DEF Decimal, Decimals
  <2> HIDE DEF h
  <2>9. \A j \in from - 1 .. to : h[j] = IF j < from THEN 0 ELSE ToInt(10 * h[j - 1] + Digit[text[j]])
    BY <2>7 DEF Decimals
  <2> DEFINE T == {m \in Nat : m <= k => h[from - 1 + m] = f[from - 1 + m]}
  <2>10. 0 \in T
    BY <2>5, <2>9
  <2>11. ASSUME NEW m \in Nat, m \in T PROVE m + 1 \in T
    <3> SUFFICES ASSUME m + 1 <= k PROVE h[from - 1 + (m + 1)] = f[from - 1 + (m + 1)]
      OBVIOUS
    <3>1. PICK c \in from - 1 .. to : c = from - 1 + (m + 1) /\ c - 1 = from - 1 + m /\ ~(c < from)
      OBVIOUS
    <3>2. h[c - 1] = f[c - 1]
      BY <2>11, <3>1
    <3>3. h[c] = ToInt(10 * h[c - 1] + Digit[text[c]]) /\ f[c] = ToInt(10 * f[c - 1] + Digit[text[c]])
      BY <2>5, <2>9, <3>1
    <3> QED BY <3>1, <3>2, <3>3
  <2> HIDE DEF T
  <2>12. k \in T
    BY <2>10, <2>11, Induct
  <2> QED BY <2>8, <2>12 DEF T
<1> QED BY <1>1, <1>4, <1>5

(* There is one way at most to read an escape. *)
LEMMA EscapeOnce ==
  ASSUME text \in Seq(STRING), NEW pos \in 1 .. Len(text),
         NEW from \in 1 .. Len(text), NEW to \in 1 .. Len(text), Escape(pos, from, to),
         NEW x \in 1 .. Len(text), NEW y \in 1 .. Len(text), Escape(pos, x, y)
  PROVE  x = from /\ y = to
<1>0. Len(text) \in Nat /\ pos \in Int
  BY LenProperties
<1>1. "L" \notin DOMAIN Digit
  BY DEF Digit
<1>2. text[from] \in DOMAIN Digit /\ text[x] \in DOMAIN Digit
  BY <1>0 DEF Escape
<1>3. x = from
  BY <1>0, <1>1, <1>2 DEF Escape
<1>4. ~(y < to)
  <2> SUFFICES ASSUME y < to PROVE FALSE
    OBVIOUS
  <2>1. y + 1 \in from .. to /\ y < Len(text)
    BY <1>0, <1>3 DEF Escape
  <2> QED BY <2>1 DEF Escape
<1>5. ~(to < y)
  <2> SUFFICES ASSUME to < y PROVE FALSE
    OBVIOUS
  <2>1. to + 1 \in x .. y /\ to < Len(text)
    BY <1>0, <1>3 DEF Escape
  <2> QED BY <2>1 DEF Escape
<1> QED BY <1>3, <1>4, <1>5

(* The numbers that arg() does not take for too large. *)
ArgNumbers == 0 .. 999

LEMMA ArgNumbersAre == ArgNumbers \subseteq Int \ {-1}
  BY DEF ArgNumbers

(* What getEscape reads at a '%': the number of the escape there, with     *)
(* which it goes on behind the digits, or nothing, where there is none or  *)
(* it is too large.                                                        *)
LEMMA EscapeRead ==
  ASSUME text \in Seq(STRING), NumbersFit, NEW pos \in 1 .. Len(text), text[pos] = "%",
         NEW e, e = getEscape(text, pos, 999)
  PROVE  \/ \E from, to \in 1 .. Len(text) :
              /\ Escape(pos, from, to) /\ Natural(from, to) \in ArgNumbers
              /\ e.number = Natural(from, to) /\ e.pos = to + 1
              /\ pos < to /\ \A j \in pos + 1 .. to : text[j] # "%"
         \/ /\ e.number = -1 /\ e.pos = pos
            /\ \A from, to \in 1 .. Len(text) :
                 Escape(pos, from, to) => Natural(from, to) \notin ArgNumbers
<1>0. Len(text) \in Nat /\ pos \in Int
  BY LenProperties
<1>1. PICK from : from = IF pos < Len(text) /\ text[pos + 1] = "L" THEN pos + 2 ELSE pos + 1
  OBVIOUS
<1>2. from \in pos + 1 .. Len(text) + 1 /\ \A j \in pos + 1 .. from - 1 : text[j] = "L"
  <2>1. CASE pos < Len(text) /\ text[pos + 1] = "L"
    <3>1. from = pos + 2
      BY <1>1, <2>1
    <3>2. \A j \in pos + 1 .. from - 1 : j = pos + 1
      BY <1>0, <3>1
    <3> QED BY <1>0, <2>1, <3>1, <3>2
  <2>2. CASE ~(pos < Len(text) /\ text[pos + 1] = "L")
    BY <1>0, <1>1, <2>2
  <2> QED BY <2>1, <2>2
<1> DEFINE runs == {c \in from .. Len(text) : \A j \in from .. c : text[j] \in DOMAIN Digit}
<1>3. PICK to : to = Max(runs \cup {from - 1})
  OBVIOUS
<1>4. /\ to \in from - 1 .. Len(text) /\ \A j \in from .. to : text[j] \in DOMAIN Digit
      /\ \A c \in runs : c <= to
  <2>1. PICK C : C = runs \cup {from - 1}
    OBVIOUS
  <2>2. C \in SUBSET Int /\ C # {} /\ (\A x \in C : x <= Len(text)) /\ Len(text) \in Int
    BY <1>0, <1>2, <2>1
  <2>3. Max(C) \in C /\ \A x \in C : x <= Max(C)
    BY <2>2, MaxIs
  <2>4. to \in runs \cup {from - 1} /\ \A c \in runs : c <= to
    BY <1>3, <2>1, <2>3
  <2> QED BY <1>0, <1>2, <2>4
<1>5. EscapeDigits(text, pos) = [from |-> from, to |-> to]
  BY <1>1, <1>3 DEF EscapeDigits
<1>6. e = IF to >= from /\ Decimal(text, from, to) <= 999
          THEN [number |-> Decimal(text, from, to), pos |-> to + 1] ELSE [number |-> -1, pos |-> pos]
  BY <1>5 DEF getEscape
<1>7. CASE to < from
  <2>1. e.number = -1 /\ e.pos = pos
    BY <1>0, <1>2, <1>4, <1>6, <1>7
  <2>2. ASSUME NEW x \in 1 .. Len(text), NEW y \in 1 .. Len(text), Escape(pos, x, y) PROVE FALSE
    <3>1. "L" \notin DOMAIN Digit
      BY DEF Digit
    <3>2. text[x] \in DOMAIN Digit /\ x <= Len(text)
      BY <1>0, <2>2 DEF Escape
    <3>3. x = from
      BY <1>0, <1>1, <2>2, <3>1, <3>2 DEF Escape
    <3>4. y \in runs
      BY <1>0, <2>2, <3>3 DEF Escape
    <3>5. y <= to /\ from <= y
      BY <1>4, <2>2, <3>3, <3>4 DEF Escape
    <3> QED BY <1>0, <1>2, <1>4, <1>7, <3>5
  <2> QED BY <2>1, <2>2
<1>8. CASE from <= to
  <2>1. from \in 1 .. Len(text) /\ to \in 1 .. Len(text) /\ pos < to
    BY <1>0, <1>2, <1>4, <1>8
  <2>2. to < Len(text) => text[to + 1] \notin DOMAIN Digit
    <3> SUFFICES ASSUME to < Len(text), text[to + 1] \in DOMAIN Digit PROVE FALSE
      OBVIOUS
    <3>1. to + 1 \in from .. Len(text) /\ \A j \in from .. to + 1 : j = to + 1 \/ j \in from .. to
      BY <1>0, <1>8, <2>1
    <3>2. to + 1 \in runs
      BY <1>4, <3>1
    <3> QED BY <1>0, <1>4, <2>1, <3>2
  <2>3. from = pos + 1 \/ (from = pos + 2 /\ text[pos + 1] = "L")
    BY <1>1
  <2>4. Escape(pos, from, to)
    BY <1>4, <1>8, <2>1, <2>2, <2>3 DEF Escape
  <2>5. Natural(from, to) \in Nat /\ Decimal(text, from, to) = Natural(from, to)
    <3>1. Natural(from, to) <= IntMax
      <4>1. <<pos, from, to>> \in Escapes
        BY <2>1, <2>4 DEF Escapes
      <4> QED BY <4>1 DEF NumbersFit
    <3>2. PICK k \in Nat : to = from - 1 + k
      <4>1. to - (from - 1) \in Nat /\ to = from - 1 + (to - (from - 1))
        BY <1>0, <1>8, <2>1
      <4> QED BY <4>1
    <3>3. from \in Int /\ to \in Int
      BY <2>1
    <3> QED BY <1>4, <3>1, <3>2, <3>3, DecimalIs
  <2>6. \A j \in pos + 1 .. to : text[j] # "%"
    <3>1. \A j \in pos + 1 .. to : j \in pos + 1 .. from - 1 \/ j \in from .. to
      BY <1>0, <1>2, <2>1
    <3>2. "%" \notin DOMAIN Digit
      BY DEF Digit
    <3> QED BY <1>2, <1>4, <3>1, <3>2
  <2>7. CASE Natural(from, to) <= 999
    <3>1. e.number = Natural(from, to) /\ e.pos = to + 1
      BY <1>6, <1>8, <2>1, <2>5, <2>7
    <3>2. \A n \in Nat : n <= 999 => n \in ArgNumbers
      BY DEF ArgNumbers
    <3>3. Natural(from, to) \in ArgNumbers
      BY <2>5, <2>7, <3>2
    <3> QED BY <2>1, <2>4, <2>6, <3>1, <3>3
  <2>8. CASE ~(Natural(from, to) <= 999)
    <3>1. e.number = -1 /\ e.pos = pos
      BY <1>6, <2>5, <2>8
    <3>2. \A x, y \in 1 .. Len(text) : Escape(pos, x, y) => x = from /\ y = to
      BY <2>1, <2>4, EscapeOnce
    <3>3. \A n : n \in ArgNumbers => n <= 999
      BY DEF ArgNumbers
    <3>4. Natural(from, to) \notin ArgNumbers
      BY <2>8, <3>3
    <3> QED BY <3>1, <3>2, <3>4
  <2> QED BY <2>7, <2>8
<1> QED BY <1>0, <1>2, <1>4, <1>7, <1>8

(* The escapes are triples of their places. *)
LEMMA EscapesAre ==
  ASSUME NEW e \in Escapes
  PROVE  \E j, x, y \in 1 .. Len(text) :
           e = <<j, x, y>> /\ e[1] = j /\ e[2] = x /\ e[3] = y /\ Escape(j, x, y)
<1>1. /\ e \in (1 .. Len(text)) \X (1 .. Len(text)) \X (1 .. Len(text))
      /\ Escape(e[1], e[2], e[3])
  BY DEF Escapes
<1>2. /\ e[1] \in 1 .. Len(text) /\ e[2] \in 1 .. Len(text) /\ e[3] \in 1 .. Len(text)
      /\ e = <<e[1], e[2], e[3]>>
  BY <1>1
<1> QED BY <1>1, <1>2

(* How what is found grows. *)
LEMMA NumbersMore ==
  ASSUME text \in Seq(STRING), NEW pos \in 1 .. Len(text),
         NEW from \in 1 .. Len(text), NEW to \in 1 .. Len(text), Escape(pos, from, to), pos < to,
         Natural(from, to) \in ArgNumbers, \A j \in pos + 1 .. to : text[j] # "%"
  PROVE  NumbersIn(to) = NumbersIn(pos - 1) \cup {Natural(from, to)}
<1>0. Len(text) \in Nat
  BY LenProperties
<1>1. PICK t : t = <<pos, from, to>>
  OBVIOUS
<1>2. t \in Escapes /\ t[1] = pos /\ t[2] = from /\ t[3] = to
  BY <1>1 DEF Escapes
<1> DEFINE P == {e \in Escapes : e[1] <= pos - 1}
           Q == {e \in Escapes : e[1] <= to}
<1>3. Q = P \cup {t}
  <2>1. ASSUME NEW e \in Escapes PROVE e[1] <= to <=> e[1] <= pos - 1 \/ e = t
    <3>1. PICK j \in 1 .. Len(text), x \in 1 .. Len(text), y \in 1 .. Len(text) :
            e = <<j, x, y>> /\ e[1] = j /\ Escape(j, x, y)
      BY EscapesAre
    <3>2. j = pos => x = from /\ y = to
      BY <3>1, EscapeOnce
    <3>3. j \notin pos + 1 .. to
      BY <3>1 DEF Escape
    <3>4. j = pos <=> e = t
      BY <1>1, <3>1, <3>2
    <3> QED BY <1>0, <3>1, <3>3, <3>4
  <2> QED BY <1>2, <2>1
<1>4. /\ NumbersIn(to) = {Natural(e[2], e[3]) : e \in Q} \cap ArgNumbers
      /\ NumbersIn(pos - 1) = {Natural(e[2], e[3]) : e \in P} \cap ArgNumbers
      /\ Natural(from, to) \in ArgNumbers
  BY DEF NumbersIn, ArgNumbers
<1> HIDE DEF P, Q
<1>5. {Natural(e[2], e[3]) : e \in Q} = {Natural(e[2], e[3]) : e \in P} \cup {Natural(from, to)}
  BY <1>2, <1>3
<1> QED BY <1>4, <1>5

LEMMA NumbersSame ==
  ASSUME text \in Seq(STRING), NEW pos \in 1 .. Len(text),
         \A from, to \in 1 .. Len(text) : Escape(pos, from, to) => Natural(from, to) \notin ArgNumbers
  PROVE  NumbersIn(pos) = NumbersIn(pos - 1)
<1>0. Len(text) \in Nat
  BY LenProperties
<1> DEFINE P == {e \in Escapes : e[1] <= pos - 1}
           Q == {e \in Escapes : e[1] <= pos}
<1>1. ASSUME NEW e \in Q PROVE e \in P \/ Natural(e[2], e[3]) \notin ArgNumbers
  <2>1. PICK j \in 1 .. Len(text), x \in 1 .. Len(text), y \in 1 .. Len(text) :
          e = <<j, x, y>> /\ e[1] = j /\ e[2] = x /\ e[3] = y /\ Escape(j, x, y)
    BY EscapesAre
  <2>2. j <= pos - 1 \/ j = pos
    BY <1>0, <2>1
  <2> QED BY <2>1, <2>2
<1>2. P \subseteq Q
  <2>1. ASSUME NEW e \in P PROVE e \in Q
    <3>1. e[1] \in 1 .. Len(text)
      BY EscapesAre
    <3> QED BY <1>0, <3>1
  <2> QED BY <2>1
<1>3. /\ NumbersIn(pos) = {Natural(e[2], e[3]) : e \in Q} \cap ArgNumbers
      /\ NumbersIn(pos - 1) = {Natural(e[2], e[3]) : e \in P} \cap ArgNumbers
  BY DEF NumbersIn, ArgNumbers
<1> HIDE DEF P, Q
<1> QED BY <1>1, <1>2, <1>3

(* A map of the numbers K, none of which has an argument yet. *)
Scanned(e, K) ==
  /\ \E s : Chain(e, s) /\ Sorted(e, s)
  /\ {key(e, n) : n \in DOMAIN e.node} = K
  /\ \A n \in DOMAIN e.node : e.node[n].val = Pair(key(e, n), -1)

(* The store that insert makes to a key that is there makes it -1, which   *)
(* the assert finds: so the number of an escape was not there.             *)
LEMMA ScannedNew ==
  ASSUME NEW e, Shaped(e), NEW K, Scanned(e, K), NEW k \in Int \ {-1}, NEW a,
         NEW x, x = insert(e, a, k, -1), key(x, x.last) = k
  PROVE  k \notin K
<1> SUFFICES ASSUME k \in K PROVE FALSE
  OBVIOUS
<1>1. PICK s : Chain(e, s) /\ Sorted(e, s)
  BY DEF Scanned
<1>2. Order(e) = s /\ DOMAIN s = 1 .. Len(s) /\ Len(s) \in Nat
  BY <1>1, OrderIs, ChainFacts, LenProperties DEF Chain
<1>3. PICK j \in 1 .. Len(s) : key(e, s[j]) = k
  <2>1. PICK n \in DOMAIN e.node : key(e, n) = k
    BY DEF Scanned
  <2> QED BY SMTT(30), <1>1, <2>1, ChainFacts
<1>4. PICK n : n = NotBelow(e, k)
  OBVIOUS
<1>5. n = s[j]
  <2> DEFINE S == {m \in 1 .. Len(s) : key(e, s[m]) >= k}
  <2>1. n = NodeOf(e, S) /\ S \in SUBSET DOMAIN Order(e)
    BY <1>2, <1>4 DEF NotBelow
  <2>2. j \in S
    BY <1>3
  <2>3. PICK m \in S : n = s[m] /\ \A l \in S : m <= l
    <3> HIDE DEF S
    <3> QED BY <1>1, <2>1, <2>2, NodeOfIs
  <2>4. m \in 1 .. Len(s) /\ m <= j /\ key(e, s[m]) >= k
    BY <2>2, <2>3
  <2>5. m < j => key(e, s[m]) < key(e, s[j])
    BY <1>1, <2>4 DEF Sorted
  <2>6. m = j
    BY <1>1, <1>3, <2>4, <2>5 DEF Sorted
  <2> QED BY <2>3, <2>6
<1>6. n \in DOMAIN e.node /\ n # Null /\ key(e, n) = k
  BY <1>1, <1>3, <1>5, ChainFacts
<1>7. x = Assign(e, n, -1)
  BY <1>4, <1>6 DEF insert
<1>8. /\ DOMAIN x.node = DOMAIN e.node /\ Chain(x, s)
      /\ \A m \in DOMAIN e.node : x.node[m].val = IF m = n THEN [e.node[m].val EXCEPT !.first = -1]
                                                 ELSE e.node[m].val
  BY <1>1, <1>6, <1>7, AssignChain
<1>9. key(x, n) = -1
  <2>1. PICK w : w = e.node[n].val /\ w = Pair(k, -1)
    BY <1>6 DEF Scanned
  <2>2. x.node[n].val = [w EXCEPT !.first = -1]
    BY <1>6, <1>8, <2>1
  <2> QED BY <2>1, <2>2 DEF key, Pair
<1>10. x.last = s[Len(s)] /\ s[Len(s)] \in DOMAIN e.node /\ Len(s) \in 1 .. Len(s)
  <2>1. Len(s) \in 1 .. Len(s)
    BY <1>2, <1>3
  <2> QED BY <1>1, <1>8, <2>1, ChainFacts DEF Chain, AtOrNull
<1>11. x.last # n
  BY <1>9
<1>12. key(x, x.last) = key(e, x.last)
  BY <1>8, <1>10, <1>11 DEF key
<1>13. j < Len(s)
  <2>1. j # Len(s)
    BY <1>5, <1>10, <1>11
  <2>2. j \in 1 .. Len(s) /\ Len(s) \in Nat
    BY <1>2, <1>3
  <2> QED BY <2>1, <2>2
<1>14. k < key(e, x.last) /\ key(e, x.last) \in Int
  BY <1>1, <1>3, <1>10, <1>13 DEF Sorted
<1> QED BY <1>12, <1>14

LEMMA ScannedMore ==
  ASSUME NEW e, Shaped(e), NEW K, Scanned(e, K), NEW k \in Int \ {-1}, NEW a \in Nodes \ DOMAIN e.node,
         NEW x, x = insert(e, a, k, -1), key(x, x.last) = k
  PROVE  Scanned(x, K \cup {k})
<1>1. PICK s : Chain(e, s) /\ Sorted(e, s)
  BY DEF Scanned
<1>2. k \notin K
  BY ScannedNew
<1>3. \A n \in DOMAIN e.node : key(e, n) # k
  BY <1>2 DEF Scanned
<1>4. PICK z : /\ Shaped(x) /\ Chain(x, z) /\ Sorted(x, z) /\ DOMAIN x.node = DOMAIN e.node \cup {a}
               /\ x.node[a].val = Pair(k, -1)
               /\ \A n \in DOMAIN e.node : x.node[n].val = e.node[n].val
  BY <1>1, <1>3, InsertSorted
<1>5. key(x, a) = k /\ \A n \in DOMAIN e.node : key(x, n) = key(e, n)
  BY <1>4 DEF key, Pair
<1>6. {key(x, n) : n \in DOMAIN x.node} = {key(e, n) : n \in DOMAIN e.node} \cup {k}
  BY <1>4, <1>5
<1>7. \A n \in DOMAIN x.node : x.node[n].val = Pair(key(x, n), -1)
  BY <1>4, <1>5 DEF Scanned
<1> QED BY <1>4, <1>6, <1>7 DEF Scanned

(* What the loop has found so far. *)
ScanInv ==
  /\ ChainInv
  /\ user = "multiArg" =>
       /\ text \in Strings
       /\ In("scan") /\ NumbersFit => i \in 1 .. Len(text) + 1 /\ Scanned(d, NumbersIn(i - 1))

(* A step of String::arg keeps what it has found. *)
LEMMA ScanStep ==
  ASSUME ScanInv, user = "multiArg", user' = user, ArgNext, ChainInv'
  PROVE  ScanInv'
<1>1. text \in Seq(STRING) /\ Len(text) \in Nat /\ text \in Strings
  BY ArgTexts, LenProperties DEF ScanInv
<1>2. text' = text
  BY DEF ArgNext, ScanEscape, ScanChar, ScanEnds, AssignArg, AssignEnds, Replace, Returns
<1>3. PICK c, y : c = i' /\ y = d'
  OBVIOUS
<1>4. (NumbersIn(i - 1))' = NumbersIn(c - 1) /\ Len(text)' = Len(text) /\ NumbersFit' = NumbersFit
  BY <1>2, <1>3 DEF NumbersIn, NumbersFit, Escapes, Escape, Natural
<1>5. ASSUME In("scan")' /\ NumbersFit => c \in 1 .. Len(text) + 1 /\ Scanned(y, NumbersIn(c - 1))
      PROVE  ScanInv'
  BY <1>1, <1>2, <1>3, <1>4, <1>5 DEF ScanInv
<1>6. CASE ScanEscape
  <2> SUFFICES ASSUME In("scan")', NumbersFit
               PROVE  c \in 1 .. Len(text) + 1 /\ Scanned(y, NumbersIn(c - 1))
    BY <1>5
  <2>1. PICK e : e = getEscape(text, i, 999)
    OBVIOUS
  <2>2. PICK a \in New : y = insert(d, a, e.number, -1)
    BY <1>3, <1>6, <2>1 DEF ScanEscape
  <2>3. i \in 1 .. Len(text) /\ text[i] = "%" /\ e.number # -1 /\ Scanned(d, NumbersIn(i - 1)) /\ Shaped(d)
    BY <1>1, <1>6, <2>1 DEF ScanEscape, ScanInv, ChainInv, Linked
  <2>4. PICK from, to \in 1 .. Len(text) :
          /\ Escape(i, from, to) /\ Natural(from, to) \in ArgNumbers
          /\ e.number = Natural(from, to) /\ e.pos = to + 1
          /\ i < to /\ \A j \in i + 1 .. to : text[j] # "%"
    <3>1. \/ \E from, to \in 1 .. Len(text) :
               /\ Escape(i, from, to) /\ Natural(from, to) \in ArgNumbers
               /\ e.number = Natural(from, to) /\ e.pos = to + 1
               /\ i < to /\ \A j \in i + 1 .. to : text[j] # "%"
          \/ e.number = -1
      <4>1. text \in Seq(STRING) /\ i \in 1 .. Len(text) /\ text[i] = "%"
        BY <1>1, <2>3
      <4>2. \/ \E from, to \in 1 .. Len(text) :
                 /\ Escape(i, from, to) /\ Natural(from, to) \in ArgNumbers
                 /\ e.number = Natural(from, to) /\ e.pos = to + 1
                 /\ i < to /\ \A j \in i + 1 .. to : text[j] # "%"
            \/ /\ e.number = -1 /\ e.pos = i
               /\ \A from, to \in 1 .. Len(text) :
                    Escape(i, from, to) => Natural(from, to) \notin ArgNumbers
        BY <2>1, <4>1, EscapeRead
      <4> QED BY <4>2
    <3> QED BY <2>3, <3>1
  <2>5. PICK num : num = Natural(from, to) /\ num \in Int \ {-1}
    <3>1. PICK num : num = Natural(from, to)
      OBVIOUS
    <3> QED BY <2>4, <3>1, ArgNumbersAre
  <2>6. NumbersIn(to) = NumbersIn(i - 1) \cup {num}
    <3>1. NumbersIn(to) = NumbersIn(i - 1) \cup {Natural(from, to)}
      BY <1>1, <2>3, <2>4, NumbersMore
    <3> QED BY <2>5, <3>1
  <2>7. key(y, y.last) = num /\ c = to + 1
    BY <1>3, <1>6, <2>1, <2>4, <2>5 DEF ScanEscape, In
  <2>8. Scanned(y, NumbersIn(i - 1) \cup {num})
    <3>1. y = insert(d, a, num, -1) /\ a \in Nodes \ DOMAIN d.node
      BY <2>2, <2>4, <2>5 DEF New
    <3> QED BY <2>3, <2>5, <2>7, <3>1, ScannedMore
  <2>9. c - 1 = to /\ c \in 1 .. Len(text) + 1
    BY <1>1, <2>4, <2>7
  <2> QED BY <2>6, <2>8, <2>9
<1>7. CASE ScanChar
  <2> SUFFICES ASSUME NumbersFit PROVE c \in 1 .. Len(text) + 1 /\ Scanned(y, NumbersIn(c - 1))
    BY <1>5
  <2>1. i \in 1 .. Len(text) /\ Scanned(d, NumbersIn(i - 1)) /\ y = d
    BY <1>1, <1>3, <1>7 DEF ScanChar, ScanInv, dequeVars
  <2>2. PICK e : e = getEscape(text, i, 999)
    OBVIOUS
  <2>3. /\ text[i] = "%" => e.number = -1
        /\ c = (IF text[i] = "%" THEN e.pos ELSE i) + 1
    BY <1>3, <1>7, <2>2 DEF ScanChar
  <2>4. /\ c = i + 1
        /\ \A from, to \in 1 .. Len(text) : Escape(i, from, to) => Natural(from, to) \notin ArgNumbers
    <3>1. CASE text[i] = "%"
      <4>1. \/ \E from, to \in 1 .. Len(text) : /\ Natural(from, to) \in ArgNumbers
                                                /\ e.number = Natural(from, to)
            \/ /\ e.number = -1 /\ e.pos = i
               /\ \A from, to \in 1 .. Len(text) : Escape(i, from, to) => Natural(from, to) \notin ArgNumbers
        BY <1>1, <2>1, <2>2, <3>1, EscapeRead
      <4>2. -1 \notin ArgNumbers
        BY ArgNumbersAre
      <4>3. /\ e.number = -1 /\ e.pos = i
            /\ \A from, to \in 1 .. Len(text) : Escape(i, from, to) => Natural(from, to) \notin ArgNumbers
        BY <2>3, <3>1, <4>1, <4>2
      <4> QED BY <2>3, <3>1, <4>3
    <3>2. CASE text[i] # "%"
      BY <2>3, <3>2 DEF Escape
    <3> QED BY <3>1, <3>2
  <2>5. NumbersIn(i) = NumbersIn(i - 1)
    BY <1>1, <2>1, <2>4, NumbersSame
  <2>6. c - 1 = i /\ c \in 1 .. Len(text) + 1
    BY <1>1, <2>1, <2>4
  <2> QED BY <2>1, <2>5, <2>6
<1>8. CASE phase' # "scan"
  BY <1>5, <1>8 DEF In
<1>9. CASE AssignArg \/ Replace
  BY <1>8, <1>9 DEF AssignArg, Replace, In
<1>10. CASE ScanEnds \/ AssignEnds \/ Returns
  BY <1>8, <1>10 DEF ScanEnds, AssignEnds, Returns
<1> QED BY <1>6, <1>7, <1>9, <1>10 DEF ArgNext

(* As long as the asserts of String::arg do not stop it, its map has for   *)
(* keys exactly the numbers of the escapes before the place it has come    *)
(* to, in order: no escape was inserted twice, which would have stored to  *)
(* the key of one.  Said of all texts whose numbers fit an int.            *)
THEOREM ScanExact == ContainersSpec => []ScanFills
<1>1. ContainersInit => ScanInv
  <2> SUFFICES ASSUME ContainersInit PROVE ScanInv
    OBVIOUS
  <2>1. ChainInv
    BY ChainInit
  <2>2. DOMAIN d.node = {} /\ i = 1
    BY DEF ContainersInit, DequeInit, ArgInit, Empty
  <2>3. PICK s : Chain(d, s)
    BY <2>1 DEF ChainInv, Linked
  <2>4. Len(s) = 0
    BY <2>2, <2>3, ChainFacts, FS_EmptySet
  <2>5. Sorted(d, s)
    BY <2>4 DEF Sorted
  <2>6. NumbersIn(i - 1) = {}
    BY <2>2 DEF NumbersIn, Escapes
  <2>7. Scanned(d, NumbersIn(i - 1))
    BY <2>2, <2>3, <2>5, <2>6 DEF Scanned
  <2>8. user = "multiArg" => text \in Strings /\ Len(text) \in Nat
    BY ArgTexts, LenProperties DEF ContainersInit
  <2> QED BY <2>1, <2>2, <2>7, <2>8 DEF ScanInv
<1>2. ScanInv /\ [ContainersNext /\ UNCHANGED user]_<<containerVars, user>> => ScanInv'
  <2> SUFFICES ASSUME ScanInv, [ContainersNext /\ UNCHANGED user]_<<containerVars, user>>
               PROVE  ScanInv'
    OBVIOUS
  <2>1. CASE UNCHANGED <<containerVars, user>>
    <3>1. ChainInv'
      BY <2>1, ChainStays DEF containerVars, dequeVars, ChainInv, ScanInv
    <3>2. /\ (NumbersIn(i - 1))' = NumbersIn(i - 1) /\ In("scan")' = In("scan")
          /\ NumbersFit' = NumbersFit
      BY <2>1 DEF NumbersIn, NumbersFit, Escapes, Escape, Natural, In, containerVars, dequeVars, argVars
    <3> QED BY <2>1, <3>1, <3>2 DEF ScanInv, containerVars, dequeVars, argVars
  <2>2. CASE ContainersNext /\ UNCHANGED user
    <3>1. ChainInv'
      BY <2>2, ChainDeque, ChainMap, ChainArg DEF ContainersNext, ScanInv
    <3>2. CASE user # "multiArg"
      BY <2>2, <3>1, <3>2 DEF ScanInv
    <3>3. CASE user = "multiArg"
      BY <2>2, <3>1, <3>3, ScanStep DEF ContainersNext
    <3> QED BY <3>2, <3>3
  <2> QED BY <2>1, <2>2
<1>3. ScanInv => ScanFills
  <2> SUFFICES ASSUME ScanInv, user = "multiArg", In("scan"), NumbersFit
               PROVE  /\ {key(d, Order(d)[j]) : j \in DOMAIN Order(d)} = NumbersIn(Min({i - 1, Len(text)}))
                      /\ \A j \in DOMAIN Order(d) :
                           /\ value(d, Order(d)[j]) = -1
                           /\ j > 1 => key(d, Order(d)[j - 1]) < key(d, Order(d)[j])
    BY DEF ScanFills
  <2>1. /\ i \in 1 .. Len(text) + 1 /\ Scanned(d, NumbersIn(i - 1)) /\ Len(text) \in Nat
    BY ArgTexts, LenProperties DEF ScanInv
  <2>2. Min({i - 1, Len(text)}) = i - 1
    <3>1. PICK S : S = {i - 1, Len(text)}
      OBVIOUS
    <3>2. S \in SUBSET Nat /\ S # {}
      BY <2>1, <3>1
    <3>3. Min(S) \in S /\ \A m \in S : Min(S) <= m
      BY <3>2, MinIs
    <3> QED BY <2>1, <3>1, <3>3
  <2>3. PICK s : Chain(d, s) /\ Sorted(d, s)
    BY <2>1 DEF Scanned
  <2>4. Order(d) = s /\ DOMAIN s = 1 .. Len(s) /\ Len(s) \in Nat
    BY <2>3, OrderIs, ChainFacts, LenProperties DEF Chain
  <2>5. {key(d, s[j]) : j \in 1 .. Len(s)} = {key(d, n) : n \in DOMAIN d.node}
    BY <2>3 DEF Chain
  <2>6. ASSUME NEW j \in 1 .. Len(s) PROVE value(d, s[j]) = -1
    <3>1. s[j] \in DOMAIN d.node
      BY <2>3, ChainFacts
    <3>2. d.node[s[j]].val = Pair(key(d, s[j]), -1)
      BY <2>1, <3>1 DEF Scanned
    <3> QED BY <3>1, <3>2 DEF value, IsNode, Pair
  <2>7. ASSUME NEW j \in 1 .. Len(s), j > 1 PROVE key(d, s[j - 1]) < key(d, s[j])
    <3>1. PICK m \in 1 .. Len(s) : m = j - 1 /\ m < j
      BY <2>4, <2>7
    <3> QED BY <2>3, <3>1 DEF Sorted
  <2> QED BY <2>1, <2>2, <2>4, <2>5, <2>6, <2>7 DEF Scanned
<1> QED BY <1>1, <1>2, <1>3, PTL DEF ContainersSpec
=============================================================================
