----------------------------- MODULE HeapLemmas -----------------------------
(***************************************************************************)
(* Heaps as the allocator keeps them: chunks that tile the space from      *)
(* Bottom to End, with their tags, and a list of free chunks in the order  *)
(* of their addresses.  What the stores of malloc, free and realloc make   *)
(* of one.                                                                 *)
(***************************************************************************)
EXTENDS BLMallocProofs

(* Where the chunk at h ends in the memory m. *)
EndOf(m, h) == h + 1 + m[h].c.v

Tiles(m, H) ==
  /\ H \subseteq Bottom .. End - 1 /\ Bottom \in H
  /\ \A h \in H : m[h].c.v >= 1 /\ EndOf(m, h) \in H \cup {End}
  /\ \A h, g \in H : g <= h \/ EndOf(m, h) <= g
  /\ \A h \in H : h = Bottom \/ \E g \in H : EndOf(m, g) = h

(* The footers say what the headers say, but for the constructor's; before *)
(* the first chunk and after the last one there is none.                   *)
Footers(m, H) ==
  /\ H # {Bottom} => \A h \in H : m[EndOf(m, h)].p = m[h].c
  /\ m[Bottom].p.v = 0 /\ m[End].c = Used(0)

(* g comes next after h in S. *)
Follows(S, h, g) == h < g /\ \A k \in S : k <= h \/ g <= k
IsFirst(S, h) == \A g \in S : h <= g
IsLast(S, h)  == \A g \in S : g <= h

FreeList(m, S, d) ==
  /\ IF d = End THEN S = {} ELSE d \in S /\ IsFirst(S, d)
  /\ \A h \in S :
       /\ \/ m[h + 1].c = Link(0) /\ IsLast(S, h)
          \/ \E g \in S : m[h + 1].c = Link(g + 1) /\ Follows(S, h, g)
       /\ \/ m[h + 1].p = Link(0) /\ IsFirst(S, h)
          \/ \E g \in S : m[h + 1].p = Link(g + 1) /\ Follows(S, g, h)

-----------------------------------------------------------------------------
(* Tags. *)

LEMMA TilesFacts ==
  ASSUME NEW m \in Memory, NEW H, Tiles(m, H), NEW h \in H
  PROVE  /\ h \in Int /\ h \in Addr /\ Bottom <= h /\ h < End
         /\ m[h].c \in Word /\ m[h].c.v \in Int
         /\ EndOf(m, h) \in Int /\ EndOf(m, h) \in Addr
         /\ h + 2 <= EndOf(m, h) /\ EndOf(m, h) <= End
<1>1. h \in Bottom .. End - 1 /\ End \in Int /\ Bottom \in Int
  BY Geometry DEF Tiles, End
<1>2. h \in Addr
  BY <1>1, Geometry DEF Addr, End
<1>3. m[h].c \in Word /\ m[h].c.v \in Int
  BY <1>2, CellFields, AddrInt
<1>4. m[h].c.v >= 1 /\ EndOf(m, h) \in H \cup {End}
  BY DEF Tiles
<1>5. EndOf(m, h) <= End
  <2>1. \A e \in H : e <= End
    <3>1. H \subseteq Bottom .. End - 1
      BY DEF Tiles
    <3> QED BY <1>1, <3>1
  <2> QED BY <1>1, <1>4, <2>1
<1>6. EndOf(m, h) \in Int /\ h + 2 <= EndOf(m, h)
  BY <1>1, <1>3, <1>4 DEF EndOf
<1>7. EndOf(m, h) \in Addr
  BY <1>1, <1>5, <1>6, Geometry DEF Addr, End
<1> QED BY <1>1, <1>2, <1>3, <1>5, <1>6, <1>7

LEMMA TilesAll ==
  ASSUME NEW m \in Memory, NEW H, Tiles(m, H)
  PROVE  /\ Bottom \in H /\ End \notin H /\ Bottom \in Int /\ End \in Int /\ Bottom < End
         /\ \A h \in H : /\ h \in Int /\ Bottom <= h /\ h < End
                        /\ EndOf(m, h) \in Int /\ h + 2 <= EndOf(m, h) /\ EndOf(m, h) <= End
                        /\ EndOf(m, h) \in H \cup {End} /\ EndOf(m, h) # Bottom
         /\ \A h, g \in H : g <= h \/ EndOf(m, h) <= g
<1>1. Bottom \in Int /\ End \in Int /\ Bottom < End /\ Bottom \in H
  BY Geometry DEF End, Tiles
<1>2. \A h \in H : /\ h \in Int /\ Bottom <= h /\ h < End
                  /\ EndOf(m, h) \in Int /\ h + 2 <= EndOf(m, h) /\ EndOf(m, h) <= End
  BY TilesFacts
<1> QED BY <1>1, <1>2 DEF Tiles

(* What only changes elsewhere. *)
LEMMA TilesSame ==
  ASSUME NEW m, NEW x, NEW H, Tiles(m, H), \A h \in H : x[h].c.v = m[h].c.v
  PROVE  Tiles(x, H)
<1>1. \A h \in H : EndOf(x, h) = EndOf(m, h)
  BY DEF EndOf
<1> QED BY <1>1 DEF Tiles

(* Two chunks do not end at the same place. *)
LEMMA EndsDiffer ==
  ASSUME NEW m \in Memory, NEW H, Tiles(m, H), NEW h \in H, NEW g \in H, g # h
  PROVE  EndOf(m, g) # EndOf(m, h)
<1>1. /\ g \in Int /\ h \in Int /\ EndOf(m, g) \in Int /\ EndOf(m, h) \in Int
      /\ g + 2 <= EndOf(m, g) /\ h + 2 <= EndOf(m, h)
  BY TilesFacts
<1>2. (g <= h \/ EndOf(m, h) <= g) /\ (h <= g \/ EndOf(m, g) <= h)
  BY DEF Tiles
<1> QED BY <1>1, <1>2

(* The chunk at h gets a tag of the same size, at both ends. *)
LEMMA Retag ==
  ASSUME NEW m \in Memory, NEW H, Tiles(m, H), Footers(m, H), NEW h \in H, NEW x,
         x[h].c.v = m[h].c.v, H # {Bottom} => x[EndOf(m, h)].p = x[h].c,
         \A g \in H \cup {End} : g # h => x[g].c = m[g].c,
         \A g \in H \cup {End} : g # EndOf(m, h) => x[g].p = m[g].p
  PROVE  Tiles(x, H) /\ Footers(x, H)
<1>1. Tiles(x, H)
  BY TilesSame
<1>2. \A g \in H : EndOf(x, g) = EndOf(m, g)
  BY DEF EndOf
<1>3. Bottom # EndOf(m, h) /\ Bottom \in H /\ h # End
  BY TilesAll
<1>4. ASSUME H # {Bottom}, NEW g \in H PROVE x[EndOf(m, g)].p = x[g].c
  <2>1. CASE g = h
    BY <1>4, <2>1
  <2>2. CASE g # h
    <3>1. EndOf(m, g) # EndOf(m, h) /\ EndOf(m, g) \in H \cup {End}
      BY <2>2, EndsDiffer, TilesAll
    <3> QED BY <1>4, <2>2, <3>1 DEF Footers
  <2> QED BY <2>1, <2>2
<1> QED BY <1>1, <1>2, <1>3, <1>4 DEF Footers

(* The chunk at h becomes two. *)
Splits(m, x, H, h, n) ==
  /\ h + 2 <= n /\ n + 2 <= EndOf(m, h)
  /\ x[h].c.v = n - h - 1 /\ x[n].c.v = EndOf(m, h) - n - 1
  /\ x[n].p = x[h].c /\ x[EndOf(m, h)].p = x[n].c
  /\ \A g \in H \cup {End} : g # h => x[g].c = m[g].c
  /\ \A g \in H \cup {End} : g # EndOf(m, h) => x[g].p = m[g].p

SplitAt(m, x, H, h, n) ==
  /\ Tiles(x, H \cup {n}) /\ Footers(x, H \cup {n})
  /\ EndOf(x, h) = n /\ EndOf(x, n) = EndOf(m, h) /\ n \notin H
  /\ \A g \in H \ {h} : EndOf(x, g) = EndOf(m, g)

LEMMA Split ==
  ASSUME NEW m \in Memory, NEW H, Tiles(m, H), Footers(m, H), NEW h \in H, NEW x,
         NEW n \in Int, Splits(m, x, H, h, n)
  PROVE  SplitAt(m, x, H, h, n)
<1> USE DEF Splits, SplitAt
<1> DEFINE e == EndOf(m, h)
<1>1. /\ h \in Int /\ Bottom <= h /\ e \in Int /\ e <= End /\ e \in H \cup {End}
      /\ Bottom \in Int /\ End \in Int
  BY TilesAll
<1>2. EndOf(x, h) = n /\ EndOf(x, n) = e
  BY <1>1 DEF EndOf
<1>3. \A g \in H : g # h => EndOf(x, g) = EndOf(m, g)
  BY DEF EndOf
<1>4. \A g \in H : g <= h \/ e <= g
  BY DEF Tiles
<1>5. \A g \in H : g # h => (g < h /\ EndOf(m, g) <= h) \/ e <= g
  <2>1. \A g \in H : g \in Int /\ EndOf(m, g) \in Int
    BY TilesFacts
  <2> QED BY <1>1, <1>4, <2>1 DEF Tiles
<1>6. n \notin H /\ n # End
  BY <1>1, <1>4
<1> HIDE DEF e
<1>7. Tiles(x, H \cup {n})
  <2>1. H \cup {n} \subseteq Bottom .. End - 1 /\ Bottom \in H \cup {n}
    BY <1>1 DEF Tiles, e
  <2>2. \A g \in H \cup {n} : x[g].c.v >= 1 /\ EndOf(x, g) \in H \cup {n} \cup {End}
    BY <1>1, <1>2, <1>3, <1>6 DEF Tiles, e
  <2>3. \A g, k \in H \cup {n} : k <= g \/ EndOf(x, g) <= k
    <3>1. \A g \in H : g \in Int /\ EndOf(m, g) \in Int /\ g < EndOf(m, g)
      BY TilesFacts
    <3>2. \A g, k \in H : k <= g \/ EndOf(m, g) <= k
      BY DEF Tiles
    <3> QED BY <1>1, <1>2, <1>3, <1>5, <3>1, <3>2 DEF e
  <2>4. \A g \in H \cup {n} : g = Bottom \/ \E k \in H \cup {n} : EndOf(x, k) = g
    <3>1. ASSUME NEW g \in H, g # Bottom PROVE \E k \in H \cup {n} : EndOf(x, k) = g
      <4>1. PICK k \in H : EndOf(m, k) = g
        BY <3>1 DEF Tiles
      <4> QED BY <1>2, <1>3, <4>1 DEF e
    <3> QED BY <1>2, <3>1
  <2> QED BY <2>1, <2>2, <2>3, <2>4 DEF Tiles
<1>8. Footers(x, H \cup {n})
  <2>1. ASSUME NEW g \in H, g # h PROVE x[EndOf(m, g)].p = x[g].c
    <3>1. EndOf(m, g) \in H \cup {End} /\ EndOf(m, g) # e
      BY <2>1, EndsDiffer, TilesAll DEF e
    <3>2. H # {Bottom}
      BY <2>1, TilesAll
    <3> QED BY <2>1, <3>1, <3>2, TilesFacts DEF Footers, e
  <2>2. \A g \in H \cup {n} : x[EndOf(x, g)].p = x[g].c
    BY <1>2, <1>3, <2>1 DEF e
  <2>3. x[Bottom].p.v = 0 /\ x[End].c = Used(0)
    <3>1. Bottom \in H /\ Bottom # e /\ h # End
      BY <1>1 DEF Tiles, e
    <3> QED BY <3>1 DEF Footers, e
  <2> QED BY <2>2, <2>3 DEF Footers
<1> QED BY <1>2, <1>3, <1>6, <1>7, <1>8 DEF e

(* The chunk at h takes in the next one. *)
Joins(m, x, H, h, b) ==
  /\ b = EndOf(m, h)
  /\ x[h].c.v = EndOf(m, b) - h - 1 /\ x[EndOf(m, b)].p = x[h].c
  /\ \A g \in (H \cup {End}) \ {b} : g # h => x[g].c = m[g].c
  /\ \A g \in (H \cup {End}) \ {b} : g # EndOf(m, b) => x[g].p = m[g].p

LEMMA Join ==
  ASSUME NEW m \in Memory, NEW H, Tiles(m, H), Footers(m, H), NEW h \in H, NEW b \in H,
         NEW x, Joins(m, x, H, h, b)
  PROVE  /\ Tiles(x, H \ {b}) /\ Footers(x, H \ {b})
         /\ EndOf(x, h) = EndOf(m, b)
         /\ \A g \in H \ {h, b} : EndOf(x, g) = EndOf(m, g)
<1> USE DEF Joins
<1> DEFINE e == EndOf(m, b)
<1>1. /\ h \in Int /\ b \in Int /\ h + 2 <= b /\ b + 2 <= e /\ e \in Int /\ e <= End
      /\ Bottom \in Int /\ End \in Int /\ Bottom <= h /\ e \in H \cup {End} /\ b # End
  BY TilesAll
<1>2. EndOf(x, h) = e
  <2>1. x[h].c.v = e - h - 1
    OBVIOUS
  <2>2. EndOf(x, h) = h + 1 + x[h].c.v
    BY DEF EndOf
  <2> HIDE DEF e
  <2> QED BY <1>1, <2>1, <2>2
<1> HIDE DEF e
<1>3. \A g \in H \ {h, b} : EndOf(x, g) = EndOf(m, g)
  BY DEF EndOf
<1>4. \A g \in H \ {h, b} : EndOf(m, g) # b /\ EndOf(m, g) # e
  BY EndsDiffer DEF e
<1>5. \A g \in H : g \in Int /\ EndOf(m, g) \in Int /\ g < EndOf(m, g)
  BY TilesFacts
<1>6. \A g, k \in H : k <= g \/ EndOf(m, g) <= k
  BY DEF Tiles
<1>7. Tiles(x, H \ {b})
  <2>1. H \ {b} \subseteq Bottom .. End - 1 /\ Bottom \in H \ {b}
    <3>1. H \subseteq Bottom .. End - 1 /\ Bottom \in H
      BY DEF Tiles
    <3>2. Bottom # b
      BY <1>1
    <3> QED BY <3>1, <3>2
  <2>2. \A g \in H \ {b} : x[g].c.v >= 1 /\ EndOf(x, g) \in (H \ {b}) \cup {End}
    BY <1>1, <1>2, <1>3, <1>4 DEF Tiles, e
  <2>3. \A g, k \in H \ {b} : k <= g \/ EndOf(x, g) <= k
    BY <1>1, <1>2, <1>3, <1>5, <1>6 DEF e
  <2>4. \A g \in H \ {b} : g = Bottom \/ \E k \in H \ {b} : EndOf(x, k) = g
    <3>1. ASSUME NEW g \in H \ {b}, g # Bottom PROVE \E k \in H \ {b} : EndOf(x, k) = g
      <4>1. PICK k \in H : EndOf(m, k) = g
        BY <3>1 DEF Tiles
      <4> QED BY <1>1, <1>2, <1>3, <3>1, <4>1 DEF e
    <3> QED BY <3>1
  <2> QED BY <2>1, <2>2, <2>3, <2>4 DEF Tiles
<1>8. Footers(x, H \ {b})
  <2>1. ASSUME NEW g \in H \ {h, b} PROVE x[EndOf(m, g)].p = x[g].c
    <3>1. EndOf(m, g) \in (H \cup {End}) \ {b} /\ EndOf(m, g) # e
      BY <1>4 DEF Tiles
    <3>2. H # {Bottom}
      BY <1>1
    <3> QED BY <3>1, <3>2, TilesFacts DEF Footers, e
  <2>2. \A g \in H \ {b} : x[EndOf(x, g)].p = x[g].c
    BY <1>2, <1>3, <2>1 DEF e
  <2>3. x[Bottom].p.v = 0 /\ x[End].c = Used(0)
    <3>1. Bottom \in H /\ Bottom # e /\ Bottom # b /\ h # End
      BY <1>1 DEF Tiles
    <3> QED BY <1>1, <3>1 DEF Footers, e
  <2> QED BY <2>2, <2>3 DEF Footers
<1> QED BY <1>2, <1>3, <1>7, <1>8 DEF e

-----------------------------------------------------------------------------
(* The list.  S is a set of places in the heap. *)

InHeap(S) == S \subseteq Bottom .. End - 1

LEMMA FollowsOnce ==
  ASSUME NEW S, InHeap(S), NEW h \in S, NEW g \in S, NEW k \in S
  PROVE  /\ Follows(S, h, g) /\ Follows(S, h, k) => g = k
         /\ Follows(S, g, h) /\ Follows(S, k, h) => g = k
         /\ Follows(S, h, g) => ~IsLast(S, h) /\ ~IsFirst(S, g) /\ g # h
         /\ Follows(S, h, g) => h < g
  BY Geometry DEF InHeap, Follows, IsLast, IsFirst, End

LEMMA LinksDiffer ==
  ASSUME NEW S, InHeap(S)
  PROVE  /\ \A h \in S : Link(h + 1) # Link(0) /\ h \in Int
         /\ \A h, g \in S : Link(h + 1) = Link(g + 1) <=> h = g
<1>1. \A h \in S : h \in Int /\ h + 1 # 0
  BY Geometry DEF InHeap, End
<1>2. \A a, b : Link(a) = Link(b) => a = b
  BY DEF Link
<1> QED BY <1>1, <1>2

(* What is said of a link and of its neighbours: each is the other's. *)
LEMMA ListFacts ==
  ASSUME NEW m, NEW S, NEW d, FreeList(m, S, d), InHeap(S), NEW h \in S, NEW g \in S
  PROVE  /\ m[h + 1].c = Link(g + 1) <=> Follows(S, h, g)
         /\ m[h + 1].p = Link(g + 1) <=> Follows(S, g, h)
         /\ m[h + 1].c = Link(0) <=> IsLast(S, h)
         /\ m[h + 1].p = Link(0) <=> IsFirst(S, h)
         /\ IsFirst(S, h) <=> d = h
         /\ d # End
<1>1. /\ \/ m[h + 1].c = Link(0) /\ IsLast(S, h)
         \/ \E k \in S : m[h + 1].c = Link(k + 1) /\ Follows(S, h, k)
      /\ \/ m[h + 1].p = Link(0) /\ IsFirst(S, h)
         \/ \E k \in S : m[h + 1].p = Link(k + 1) /\ Follows(S, k, h)
  BY DEF FreeList
<1>2. \A k \in S : k \in Int /\ Bottom <= k /\ k < End /\ End \in Int
  BY Geometry DEF InHeap, End
<1>3. m[h + 1].c = Link(g + 1) <=> Follows(S, h, g)
  BY <1>1, FollowsOnce, LinksDiffer
<1>4. m[h + 1].p = Link(g + 1) <=> Follows(S, g, h)
  BY <1>1, FollowsOnce, LinksDiffer
<1>5. m[h + 1].c = Link(0) <=> IsLast(S, h)
  BY <1>1, FollowsOnce, LinksDiffer
<1>6. m[h + 1].p = Link(0) <=> IsFirst(S, h)
  BY <1>1, FollowsOnce, LinksDiffer
<1>7. d # End /\ (IsFirst(S, h) <=> d = h)
  BY <1>2 DEF FreeList, IsFirst
<1> QED BY <1>3, <1>4, <1>5, <1>6, <1>7

(* What only changes elsewhere. *)
LEMMA ListSame ==
  ASSUME NEW m, NEW x, NEW S, NEW d, FreeList(m, S, d), \A h \in S : x[h + 1] = m[h + 1]
  PROVE  FreeList(x, S, d)
  BY DEF FreeList

(* relink_pointer: h leaves the list. *)
Removes(m, x, S, h) ==
  \A k \in S \ {h} :
    /\ x[k + 1].c = IF m[h + 1].p = Link(k + 1) THEN m[h + 1].c ELSE m[k + 1].c
    /\ x[k + 1].p = IF m[h + 1].c = Link(k + 1) THEN m[h + 1].p ELSE m[k + 1].p

LEMMA ListRemove ==
  ASSUME NEW m, NEW x, NEW S, NEW d, FreeList(m, S, d), InHeap(S), NEW h \in S,
         Removes(m, x, S, h)
  PROVE  /\ h # d => FreeList(x, S \ {h}, d)
         /\ h = d => FreeList(x, S \ {h}, IF Null(m[h + 1].c) THEN End ELSE m[h + 1].c.v - 1)
<1> USE DEF Removes
<1> DEFINE T == S \ {h}
<1>1. \A k \in S : k \in Int /\ Bottom <= k /\ k < End /\ End \in Int
  BY Geometry DEF InHeap, End
<1>2. ASSUME NEW k \in T
      PROVE  \/ x[k + 1].c = Link(0) /\ IsLast(T, k)
             \/ \E g \in T : x[k + 1].c = Link(g + 1) /\ Follows(T, k, g)
  <2>1. CASE Follows(S, k, h)
    <3>1. x[k + 1].c = m[h + 1].c
      BY <2>1, ListFacts
    <3>2. CASE IsLast(S, h)
      <4>1. IsLast(T, k)
        BY <1>1, <2>1, <3>2 DEF IsLast, Follows
      <4> QED BY <3>1, <3>2, <4>1, ListFacts
    <3>3. ASSUME NEW g \in S, m[h + 1].c = Link(g + 1), Follows(S, h, g)
          PROVE  g \in T /\ x[k + 1].c = Link(g + 1) /\ Follows(T, k, g)
      BY <1>1, <2>1, <3>1, <3>3 DEF Follows
    <3> QED BY <3>2, <3>3 DEF FreeList
  <2>2. CASE ~Follows(S, k, h)
    <3>1. x[k + 1].c = m[k + 1].c
      BY <2>2, ListFacts
    <3>2. CASE IsLast(S, k)
      BY <3>1, <3>2, ListFacts DEF IsLast
    <3>3. ASSUME NEW g \in S, m[k + 1].c = Link(g + 1), Follows(S, k, g)
          PROVE  g \in T /\ x[k + 1].c = Link(g + 1) /\ Follows(T, k, g)
      BY <1>1, <2>2, <3>1, <3>3 DEF Follows
    <3> QED BY <3>2, <3>3 DEF FreeList
  <2> QED BY <2>1, <2>2
<1>3. ASSUME NEW k \in T
      PROVE  \/ x[k + 1].p = Link(0) /\ IsFirst(T, k)
             \/ \E g \in T : x[k + 1].p = Link(g + 1) /\ Follows(T, g, k)
  <2>1. CASE Follows(S, h, k)
    <3>1. x[k + 1].p = m[h + 1].p
      BY <2>1, ListFacts
    <3>2. CASE IsFirst(S, h)
      <4>1. IsFirst(T, k)
        BY <1>1, <2>1, <3>2 DEF IsFirst, Follows
      <4> QED BY <3>1, <3>2, <4>1, ListFacts
    <3>3. ASSUME NEW g \in S, m[h + 1].p = Link(g + 1), Follows(S, g, h)
          PROVE  g \in T /\ x[k + 1].p = Link(g + 1) /\ Follows(T, g, k)
      BY <1>1, <2>1, <3>1, <3>3 DEF Follows
    <3> QED BY <3>2, <3>3 DEF FreeList
  <2>2. CASE ~Follows(S, h, k)
    <3>1. x[k + 1].p = m[k + 1].p
      BY <2>2, ListFacts
    <3>2. CASE IsFirst(S, k)
      BY <3>1, <3>2, ListFacts DEF IsFirst
    <3>3. ASSUME NEW g \in S, m[k + 1].p = Link(g + 1), Follows(S, g, k)
          PROVE  g \in T /\ x[k + 1].p = Link(g + 1) /\ Follows(T, g, k)
      BY <1>1, <2>2, <3>1, <3>3 DEF Follows
    <3> QED BY <3>2, <3>3 DEF FreeList
  <2> QED BY <2>1, <2>2
<1>4. ASSUME h # d PROVE d # End /\ d \in T /\ IsFirst(T, d)
  BY <1>4 DEF FreeList, IsFirst
<1>5. ASSUME h = d, Null(m[h + 1].c) PROVE T = {}
  <2>1. IsLast(S, h) /\ IsFirst(S, h)
    BY <1>5, ListFacts DEF Null
  <2> QED BY <1>1, <2>1 DEF IsLast, IsFirst
<1>6. ASSUME h = d, ~Null(m[h + 1].c)
      PROVE  LET e == m[h + 1].c.v - 1 IN e # End /\ e \in T /\ IsFirst(T, e)
  <2>1. PICK g \in S : m[h + 1].c = Link(g + 1) /\ Follows(S, h, g)
    BY <1>6 DEF FreeList, Null
  <2>2. m[h + 1].c.v - 1 = g
    BY <1>1, <2>1 DEF Link
  <2>3. IsFirst(S, h)
    BY <1>6, ListFacts
  <2> QED BY <1>1, <2>1, <2>2, <2>3 DEF IsFirst, Follows
<1> QED BY <1>2, <1>3, <1>4, <1>5, <1>6 DEF FreeList

(* h enters the list after g. *)
Inserts(m, x, S, g, h) ==
  /\ g < h /\ \A k \in S : k <= g \/ h < k
  /\ x[h + 1].p = Link(g + 1) /\ x[h + 1].c = m[g + 1].c
  /\ \A k \in S : x[k + 1].c = IF k = g THEN Link(h + 1) ELSE m[k + 1].c
  /\ \A k \in S : x[k + 1].p = IF m[g + 1].c = Link(k + 1) THEN Link(h + 1) ELSE m[k + 1].p

LEMMA ListInsert ==
  ASSUME NEW m, NEW x, NEW S, NEW d, FreeList(m, S, d), InHeap(S), NEW g \in S,
         NEW h \in Bottom .. End - 1, Inserts(m, x, S, g, h)
  PROVE  FreeList(x, S \cup {h}, d)
<1> USE DEF Inserts
<1> DEFINE T == S \cup {h}
<1>1. /\ \A k \in S : k \in Int /\ Bottom <= k /\ k < End
      /\ End \in Int /\ h \in Int /\ h \notin S
  BY Geometry DEF InHeap, End
<1>2. ASSUME NEW k \in T
      PROVE  \/ x[k + 1].c = Link(0) /\ IsLast(T, k)
             \/ \E e \in T : x[k + 1].c = Link(e + 1) /\ Follows(T, k, e)
  <2>1. CASE k = h
    <3>1. x[k + 1].c = m[g + 1].c
      BY <2>1
    <3>2. CASE IsLast(S, g)
      <4>1. IsLast(T, h)
        BY <1>1, <3>2 DEF IsLast
      <4> QED BY <2>1, <3>1, <3>2, <4>1, ListFacts
    <3>3. ASSUME NEW e \in S, m[g + 1].c = Link(e + 1), Follows(S, g, e)
          PROVE  Follows(T, h, e)
      BY <1>1, <3>3 DEF Follows
    <3> QED BY <2>1, <3>1, <3>2, <3>3 DEF FreeList
  <2>2. CASE k = g
    BY <1>1, <2>2 DEF Follows
  <2>3. CASE k # h /\ k # g
    <3>1. x[k + 1].c = m[k + 1].c /\ k \in S
      BY <2>3
    <3>2. CASE IsLast(S, k)
      <4>1. IsLast(T, k)
        BY <1>1, <2>3, <3>1, <3>2 DEF IsLast
      <4> QED BY <3>1, <3>2, <4>1, ListFacts
    <3>3. ASSUME NEW e \in S, m[k + 1].c = Link(e + 1), Follows(S, k, e)
          PROVE  Follows(T, k, e)
      BY <1>1, <2>3, <3>1, <3>3 DEF Follows
    <3> QED BY <3>1, <3>2, <3>3 DEF FreeList
  <2> QED BY <2>1, <2>2, <2>3
<1>3. ASSUME NEW k \in T
      PROVE  \/ x[k + 1].p = Link(0) /\ IsFirst(T, k)
             \/ \E e \in T : x[k + 1].p = Link(e + 1) /\ Follows(T, e, k)
  <2>1. CASE k = h
    BY <1>1, <2>1 DEF Follows
  <2>2. CASE k \in S /\ Follows(S, g, k)
    <3>1. x[k + 1].p = Link(h + 1)
      BY <2>2, ListFacts
    <3>2. Follows(T, h, k)
      BY <1>1, <2>2 DEF Follows
    <3> QED BY <3>1, <3>2
  <2>3. CASE k \in S /\ ~Follows(S, g, k)
    <3>1. x[k + 1].p = m[k + 1].p
      BY <2>3, ListFacts
    <3>2. CASE IsFirst(S, k)
      <4>1. IsFirst(T, k)
        BY <1>1, <2>3, <3>2 DEF IsFirst
      <4> QED BY <2>3, <3>1, <3>2, <4>1, ListFacts
    <3>3. ASSUME NEW e \in S, m[k + 1].p = Link(e + 1), Follows(S, e, k)
          PROVE  Follows(T, e, k)
      BY <1>1, <2>3, <3>3 DEF Follows
    <3> QED BY <2>3, <3>1, <3>2, <3>3 DEF FreeList
  <2> QED BY <2>1, <2>2, <2>3
<1>4. d # End /\ d \in T /\ IsFirst(T, d)
  BY <1>1 DEF FreeList, IsFirst
<1> QED BY <1>2, <1>3, <1>4 DEF FreeList

(* h enters the list before all others. *)
InsertsFirst(m, x, S, d, h) ==
  /\ \A k \in S : h < k
  /\ x[h + 1].p = Link(0) /\ x[h + 1].c = IF S = {} THEN Link(0) ELSE Link(d + 1)
  /\ \A k \in S : x[k + 1].c = m[k + 1].c
  /\ \A k \in S : x[k + 1].p = IF k = d THEN Link(h + 1) ELSE m[k + 1].p

LEMMA ListInsertFirst ==
  ASSUME NEW m, NEW x, NEW S, NEW d, FreeList(m, S, d), InHeap(S),
         NEW h \in Bottom .. End - 1, InsertsFirst(m, x, S, d, h)
  PROVE  FreeList(x, S \cup {h}, h)
<1> USE DEF InsertsFirst
<1> DEFINE T == S \cup {h}
<1>1. /\ \A k \in S : k \in Int /\ Bottom <= k /\ k < End
      /\ End \in Int /\ h \in Int /\ h \notin S /\ h # End
  BY Geometry DEF InHeap, End
<1>2. IsFirst(T, h) /\ h \in T
  BY <1>1 DEF IsFirst
<1>3. ASSUME S = {} PROVE FreeList(x, T, h)
  <2>1. T = {h} /\ IsLast(T, h)
    BY <1>1, <1>3 DEF IsLast
  <2> QED BY <1>1, <1>2, <1>3, <2>1 DEF FreeList
<1>4. ASSUME S # {} PROVE FreeList(x, T, h)
  <2>1. d \in S /\ IsFirst(S, d)
    BY <1>4 DEF FreeList
  <2>2. Follows(T, h, d)
    BY <1>1, <2>1 DEF Follows, IsFirst
  <2>3. ASSUME NEW k \in S
        PROVE  /\ \/ x[k + 1].c = Link(0) /\ IsLast(T, k)
                  \/ \E e \in T : x[k + 1].c = Link(e + 1) /\ Follows(T, k, e)
               /\ \/ x[k + 1].p = Link(0) /\ IsFirst(T, k)
                  \/ \E e \in T : x[k + 1].p = Link(e + 1) /\ Follows(T, e, k)
    <3>1. IsLast(S, k) => IsLast(T, k)
      BY <1>1 DEF IsLast
    <3>2. \A e \in S : Follows(S, k, e) => Follows(T, k, e)
      BY <1>1 DEF Follows
    <3>3. \A e \in S : Follows(S, e, k) => Follows(T, e, k)
      BY <1>1 DEF Follows
    <3>4. IsFirst(S, k) => k = d
      BY <2>1, ListFacts
    <3>5. \/ m[k + 1].c = Link(0) /\ IsLast(S, k)
          \/ \E e \in S : m[k + 1].c = Link(e + 1) /\ Follows(S, k, e)
      BY DEF FreeList
    <3>6. \/ m[k + 1].p = Link(0) /\ IsFirst(S, k)
          \/ \E e \in S : m[k + 1].p = Link(e + 1) /\ Follows(S, e, k)
      BY DEF FreeList
    <3> QED BY <2>2, <3>1, <3>2, <3>3, <3>4, <3>5, <3>6
  <2>4. /\ x[h + 1].p = Link(0)
        /\ \E e \in T : x[h + 1].c = Link(e + 1) /\ Follows(T, h, e)
    BY <1>4, <2>1, <2>2
  <2> QED BY <1>1, <1>2, <2>3, <2>4 DEF FreeList
<1> QED BY <1>3, <1>4

(* h takes the place of b. *)
Replaces(m, x, S, b, h) ==
  /\ h # b /\ h \notin S
  /\ \A k \in S \ {b} : (k < h <=> k < b)
  /\ x[h + 1].p = m[b + 1].p /\ x[h + 1].c = m[b + 1].c
  /\ \A k \in S \ {b} : x[k + 1].c = IF m[b + 1].p = Link(k + 1) THEN Link(h + 1) ELSE m[k + 1].c
  /\ \A k \in S \ {b} : x[k + 1].p = IF m[b + 1].c = Link(k + 1) THEN Link(h + 1) ELSE m[k + 1].p

LEMMA ListReplace ==
  ASSUME NEW m, NEW x, NEW S, NEW d, FreeList(m, S, d), InHeap(S), NEW b \in S,
         NEW h \in Bottom .. End - 1, Replaces(m, x, S, b, h)
  PROVE  FreeList(x, (S \ {b}) \cup {h}, IF d = b THEN h ELSE d)
<1> USE DEF Replaces
<1> DEFINE T == (S \ {b}) \cup {h}
<1>1. /\ \A k \in S : k \in Int /\ Bottom <= k /\ k < End
      /\ End \in Int /\ h \in Int /\ h # End
  BY Geometry DEF InHeap, End
<1>2. \A k, e \in S \ {b} : Follows(S, k, e) => Follows(T, k, e)
  BY <1>1 DEF Follows
<1>3. \A k \in S \ {b} : /\ Follows(S, k, b) <=> Follows(T, k, h)
                         /\ Follows(S, b, k) <=> Follows(T, h, k)
  BY <1>1 DEF Follows
<1>4. /\ IsFirst(S, b) => IsFirst(T, h)
      /\ IsLast(S, b) => IsLast(T, h)
  BY <1>1 DEF IsFirst, IsLast
<1>5. \A k \in S \ {b} : (IsFirst(S, k) => IsFirst(T, k)) /\ (IsLast(S, k) => IsLast(T, k))
  BY <1>1 DEF IsFirst, IsLast
<1>6. ASSUME NEW k \in S
      PROVE  /\ \/ m[k + 1].c = Link(0) /\ IsLast(S, k)
                \/ \E e \in S : m[k + 1].c = Link(e + 1) /\ Follows(S, k, e)
             /\ \/ m[k + 1].p = Link(0) /\ IsFirst(S, k)
                \/ \E e \in S : m[k + 1].p = Link(e + 1) /\ Follows(S, e, k)
  BY DEF FreeList
<1>7. \/ x[h + 1].c = Link(0) /\ IsLast(T, h)
      \/ \E e \in T : x[h + 1].c = Link(e + 1) /\ Follows(T, h, e)
  BY <1>3, <1>4, <1>6, FollowsOnce
<1>8. \/ x[h + 1].p = Link(0) /\ IsFirst(T, h)
      \/ \E e \in T : x[h + 1].p = Link(e + 1) /\ Follows(T, e, h)
  BY <1>3, <1>4, <1>6, FollowsOnce
<1>9. ASSUME NEW k \in S \ {b}
      PROVE  \/ x[k + 1].c = Link(0) /\ IsLast(T, k)
             \/ \E e \in T : x[k + 1].c = Link(e + 1) /\ Follows(T, k, e)
  <2>1. CASE Follows(S, k, b)
    <3>1. m[b + 1].p = Link(k + 1)
      BY <2>1, ListFacts
    <3> QED BY <1>3, <2>1, <3>1
  <2>2. CASE ~Follows(S, k, b)
    <3>1. x[k + 1].c = m[k + 1].c
      BY <2>2, ListFacts
    <3> QED BY <1>2, <1>5, <1>6, <2>2, <3>1
  <2> QED BY <2>1, <2>2
<1>10. ASSUME NEW k \in S \ {b}
      PROVE  \/ x[k + 1].p = Link(0) /\ IsFirst(T, k)
             \/ \E e \in T : x[k + 1].p = Link(e + 1) /\ Follows(T, e, k)
  <2>1. CASE Follows(S, b, k)
    <3>1. m[b + 1].c = Link(k + 1)
      BY <2>1, ListFacts
    <3> QED BY <1>3, <2>1, <3>1
  <2>2. CASE ~Follows(S, b, k)
    <3>1. x[k + 1].p = m[k + 1].p
      BY <2>2, ListFacts
    <3> QED BY <1>2, <1>5, <1>6, <2>2, <3>1
  <2> QED BY <2>1, <2>2
<1>11. LET e == IF d = b THEN h ELSE d IN e # End /\ e \in T /\ IsFirst(T, e)
  BY <1>1, <1>4, <1>5 DEF FreeList
<1>12. \A k \in T : k = h \/ k \in S \ {b}
  OBVIOUS
<1> HIDE DEF T
<1>13. FreeList(x, T, IF d = b THEN h ELSE d)
  BY <1>7, <1>8, <1>9, <1>10, <1>11, <1>12 DEF FreeList
<1> QED BY <1>13 DEF T

-----------------------------------------------------------------------------
(* Stores. *)

PutP(m, a, w) == [m EXCEPT ![a].p = w]
PutC(m, a, w) == [m EXCEPT ![a].c = w]
PutCell(m, a, w, y) == [m EXCEPT ![a] = [p |-> w, c |-> y]]

LEMMA StoreP ==
  ASSUME NEW m \in Memory, NEW a \in Addr, NEW w \in Word
  PROVE  /\ PutP(m, a, w) \in Memory
         /\ PutP(m, a, w)[a].p = w /\ PutP(m, a, w)[a].c = m[a].c
         /\ \A b \in Addr : b # a => PutP(m, a, w)[b] = m[b]
  BY DEF Memory, Cell, PutP

LEMMA StoreC ==
  ASSUME NEW m \in Memory, NEW a \in Addr, NEW w \in Word
  PROVE  /\ PutC(m, a, w) \in Memory
         /\ PutC(m, a, w)[a].c = w /\ PutC(m, a, w)[a].p = m[a].p
         /\ \A b \in Addr : b # a => PutC(m, a, w)[b] = m[b]
  BY DEF Memory, Cell, PutC

LEMMA StoreCell ==
  ASSUME NEW m \in Memory, NEW a \in Addr, NEW w \in Word, NEW y \in Word
  PROVE  /\ PutCell(m, a, w, y) \in Memory
         /\ PutCell(m, a, w, y)[a].p = w /\ PutCell(m, a, w, y)[a].c = y
         /\ \A b \in Addr : b # a => PutCell(m, a, w, y)[b] = m[b]
  BY DEF Memory, Cell, PutCell

LEMMA WrapIn == \A a \in Addr : Wrap(a) = a
  BY Geometry DEF Wrap, Addr

HeapOK(m, H, S, d) ==
  Tiles(m, H) /\ Footers(m, H) /\ S \subseteq H /\ FreeList(m, S, d)

(* A link is not where a tag is. *)
LEMMA LinkPlaces ==
  ASSUME NEW m \in Memory, NEW H, Tiles(m, H), NEW h \in H
  PROVE  /\ h + 1 \in Addr /\ Wrap(h + 1) = h + 1 /\ h + 1 # 0
         /\ Wrap(h + 1 - 1) = h
         /\ \A g \in H \cup {End} : g # h + 1
         /\ \A g \in H : g # h => g + 1 # h + 1
<1>1. \A g \in H : /\ g \in Int /\ Bottom <= g /\ g < End /\ EndOf(m, g) \in Int
                  /\ g + 2 <= EndOf(m, g) /\ EndOf(m, g) <= End
  BY TilesAll
<1>2. \A g \in H : g <= h \/ EndOf(m, h) <= g
  BY TilesAll
<1>3. h \in Addr /\ h + 1 \in Addr /\ h + 1 # 0
  BY <1>1, Geometry DEF Addr, End
<1>4. Wrap(h + 1 - 1) = h
  BY <1>1, <1>3, WrapIn
<1> QED BY <1>1, <1>2, <1>3, <1>4, WrapIn

LEMMA Neighbours ==
  ASSUME NEW m \in Memory, NEW H, Tiles(m, H), NEW h \in H
  PROVE  /\ NextHeader(m, h) = EndOf(m, h)
         /\ \A g \in H : EndOf(m, g) = h /\ m[h].p.v = m[g].c.v => PrevHeader(m, h) = g
<1>1. /\ h \in Addr /\ m[h].c.v \in Int /\ EndOf(m, h) \in Addr /\ Bottom <= h
      /\ h + 2 <= EndOf(m, h) /\ EndOf(m, h) = h + 1 + m[h].c.v
  BY TilesFacts DEF EndOf
<1>2. NextHeader(m, h) = EndOf(m, h)
  <2>1. h + m[h].c.v \in Addr
    BY <1>1, Geometry DEF Addr
  <2>2. Wrap(h + m[h].c.v) = h + m[h].c.v
    BY <2>1, WrapIn
  <2>3. (h + m[h].c.v) + 1 = EndOf(m, h)
    BY <1>1, AddrInt
  <2> QED BY <1>1, <2>2, <2>3, WrapIn DEF NextHeader
<1>3. ASSUME NEW g \in H, EndOf(m, g) = h, m[h].p.v = m[g].c.v
      PROVE  PrevHeader(m, h) = g
  <2>1. /\ g \in Addr /\ m[g].c.v \in Int /\ h = g + 1 + m[g].c.v /\ g + 2 <= h
    BY <1>3, TilesFacts DEF EndOf
  <2>2. h - m[h].p.v = g + 1 /\ g + 1 \in Addr
    BY SMTT(30), <1>1, <1>3, <2>1, Geometry DEF Addr
  <2>3. Wrap(h - m[h].p.v) = g + 1 /\ g + 1 - 1 = g
    BY <2>1, <2>2, WrapIn, AddrInt
  <2> QED BY <2>1, <2>3, WrapIn DEF PrevHeader
<1> QED BY <1>2, <1>3

(* A link field is stored only where the link is not null. *)
LEMMA SetNextCells ==
  ASSUME NEW m \in Memory, NEW w \in Word, NEW y \in Word
  PROVE  LET x == SetNext(m, w, y)
         IN  /\ x \in Memory
             /\ \A a \in Addr : x[a].p = m[a].p
             /\ \A a \in Addr : ~(a = w.v /\ w # Link(0)) => x[a] = m[a]
             /\ w # Link(0) => x[w.v].c = y
<1>1. w.v \in Addr
  BY DEF Word
<1>2. CASE Null(w)
  BY <1>2 DEF SetNext, Null
<1>3. CASE ~Null(w)
  <2>1. SetNext(m, w, y) = PutC(m, w.v, y) /\ w # Link(0)
    BY <1>3 DEF SetNext, Null, PutC
  <2>2. LET x == PutC(m, w.v, y)
        IN  /\ x \in Memory /\ x[w.v].c = y /\ x[w.v].p = m[w.v].p
            /\ \A b \in Addr : b # w.v => x[b] = m[b]
    BY <1>1, StoreC
  <2> QED BY <1>1, <2>1, <2>2
<1> QED BY <1>2, <1>3

LEMMA SetPrevCells ==
  ASSUME NEW m \in Memory, NEW w \in Word, NEW y \in Word
  PROVE  LET x == SetPrev(m, w, y)
         IN  /\ x \in Memory
             /\ \A a \in Addr : x[a].c = m[a].c
             /\ \A a \in Addr : ~(a = w.v /\ w # Link(0)) => x[a] = m[a]
             /\ w # Link(0) => x[w.v].p = y
<1>1. w.v \in Addr
  BY DEF Word
<1>2. CASE Null(w)
  BY <1>2 DEF SetPrev, Null
<1>3. CASE ~Null(w)
  <2>1. SetPrev(m, w, y) = PutP(m, w.v, y) /\ w # Link(0)
    BY <1>3 DEF SetPrev, Null, PutP
  <2>2. LET x == PutP(m, w.v, y)
        IN  /\ x \in Memory /\ x[w.v].p = y /\ x[w.v].c = m[w.v].c
            /\ \A b \in Addr : b # w.v => x[b] = m[b]
    BY <1>1, StoreP
  <2> QED BY <1>1, <2>1, <2>2
<1> QED BY <1>2, <1>3

(* The same, as facts about the stored memory. *)
SetsNext(m, x, w, y) ==
  /\ x \in Memory
  /\ \A a \in Addr : x[a].p = m[a].p
  /\ \A a \in Addr : ~(a = w.v /\ w # Link(0)) => x[a] = m[a]
  /\ w # Link(0) => x[w.v].c = y

SetsPrev(m, x, w, y) ==
  /\ x \in Memory
  /\ \A a \in Addr : x[a].c = m[a].c
  /\ \A a \in Addr : ~(a = w.v /\ w # Link(0)) => x[a] = m[a]
  /\ w # Link(0) => x[w.v].p = y

LEMMA NextSet ==
  ASSUME NEW m \in Memory, NEW w \in Word, NEW y \in Word
  PROVE  SetsNext(m, SetNext(m, w, y), w, y)
  BY SetNextCells DEF SetsNext

LEMMA PrevSet ==
  ASSUME NEW m \in Memory, NEW w \in Word, NEW y \in Word
  PROVE  SetsPrev(m, SetPrev(m, w, y), w, y)
  BY SetPrevCells DEF SetsPrev

(* A link field is null or leads to a link. *)
LEMMA LinkCases ==
  ASSUME NEW m, NEW S, NEW d, FreeList(m, S, d), InHeap(S), NEW h \in S
  PROVE  /\ m[h + 1].c = Link(0) \/ \E g \in S \ {h} : m[h + 1].c = Link(g + 1)
         /\ m[h + 1].p = Link(0) \/ \E g \in S \ {h} : m[h + 1].p = Link(g + 1)
         /\ \A g \in S : m[h + 1].c = Link(g + 1) \/ m[h + 1].p = Link(g + 1) => g # h
<1>1. \A g \in S : g \in Int
  BY Geometry DEF InHeap, End
<1> QED BY <1>1, ListFacts DEF FreeList, Follows

LEMMA LinkField == \A a, b : (Link(a) = Link(b) <=> a = b) /\ Link(a).v = a
  BY DEF Link

LEMMA RelinkCells ==
  ASSUME NEW m \in Memory, NEW S, InHeap(S), NEW d, FreeList(m, S, d), NEW h \in S
  PROVE  LET x == Relink(m, h + 1)
         IN  /\ x \in Memory
             /\ \A a \in Addr : (\A k \in S \ {h} : a # k + 1) => x[a] = m[a]
             /\ \A k \in S \ {h} :
                  /\ x[k + 1].c = IF m[h + 1].p = Link(k + 1) THEN m[h + 1].c ELSE m[k + 1].c
                  /\ x[k + 1].p = IF m[h + 1].c = Link(k + 1) THEN m[h + 1].p ELSE m[k + 1].p
<1> DEFINE prev == m[h + 1].p
           next == m[h + 1].c
           y == SetNext(m, prev, next)
           x == SetPrev(y, next, prev)
<1>2. \A k \in S : k + 1 \in Addr
  BY Geometry DEF InHeap, End, Addr
<1>3. prev \in Word /\ next \in Word
  BY <1>2, CellFields
<1>4. /\ prev = Link(0) \/ \E g \in S \ {h} : prev = Link(g + 1)
      /\ next = Link(0) \/ \E g \in S \ {h} : next = Link(g + 1)
  BY LinkCases
<1>5. Relink(m, h + 1) = x
  BY DEF Relink
<1>6. \A k \in S : Link(k + 1) # Link(0)
  BY LinksDiffer
<1> HIDE DEF prev, next
<1>7. /\ y \in Memory
      /\ \A a \in Addr : y[a].p = m[a].p
      /\ \A a \in Addr : ~(a = prev.v /\ prev # Link(0)) => y[a] = m[a]
      /\ prev # Link(0) => y[prev.v].c = next
  BY <1>3, SetNextCells
<1> HIDE DEF y
<1>8. /\ x \in Memory
      /\ \A a \in Addr : x[a].c = y[a].c
      /\ \A a \in Addr : ~(a = next.v /\ next # Link(0)) => x[a] = y[a]
      /\ next # Link(0) => x[next.v].p = prev
  BY <1>3, <1>7, SetPrevCells
<1> HIDE DEF x
<1>9. \A a \in Addr : (\A k \in S \ {h} : a # k + 1) => x[a] = m[a]
  BY <1>4, <1>7, <1>8, LinkField
<1>10. ASSUME NEW k \in S \ {h}
       PROVE  /\ x[k + 1].c = IF prev = Link(k + 1) THEN next ELSE m[k + 1].c
              /\ x[k + 1].p = IF next = Link(k + 1) THEN prev ELSE m[k + 1].p
  <2>1. x[k + 1].c = IF prev = Link(k + 1) THEN next ELSE m[k + 1].c
    BY <1>2, <1>4, <1>6, <1>7, <1>8, LinkField
  <2>2. x[k + 1].p = IF next = Link(k + 1) THEN prev ELSE m[k + 1].p
    BY <1>2, <1>4, <1>6, <1>7, <1>8, LinkField
  <2> QED BY <2>1, <2>2
<1> QED BY <1>5, <1>8, <1>9, <1>10 DEF prev, next

-----------------------------------------------------------------------------
(* What the functions' stores make of a heap.                              *)

(* The cells of the chunk at h between its tags. *)
Inside(m, h) == h + 1 .. EndOf(m, h) - 1

(* What the chunks of H but those of T hold. *)
Keeps(m, x, H, T) == \A g \in H \ T : \A a \in Inside(m, g) : x[a] = m[a]

LEMMA InsideApart ==
  ASSUME NEW m \in Memory, NEW H, Tiles(m, H), NEW g \in H, NEW a \in Inside(m, g)
  PROVE  /\ a \in Addr /\ a \in Int /\ a \notin H /\ a # End
         /\ \A k \in H : k # g => a \notin Inside(m, k) /\ a # k + 1
<1>1. \A k \in H : /\ k \in Int /\ Bottom <= k /\ EndOf(m, k) \in Int
                  /\ k + 2 <= EndOf(m, k) /\ EndOf(m, k) <= End
  BY TilesAll
<1>2. \A k, e \in H : e <= k \/ EndOf(m, k) <= e
  BY TilesAll
<1>3. a \in Int /\ g + 1 <= a /\ a < EndOf(m, g)
  BY <1>1 DEF Inside
<1>4. a \in Addr /\ a # End
  BY <1>1, <1>3, Geometry DEF Addr, End
<1>5. ASSUME NEW k \in H PROVE a # k
  BY <1>1, <1>2, <1>3
<1>6. ASSUME NEW k \in H, k # g PROVE a < k + 1 \/ EndOf(m, k) <= a
  <2>1. EndOf(m, g) <= k \/ EndOf(m, k) <= g
    BY <1>1, <1>2, <1>6
  <2> QED BY <1>1, <1>3, <2>1
<1> QED BY <1>1, <1>3, <1>4, <1>5, <1>6 DEF Inside

(* A change of cells that are not between the tags of the chunks of U, nor *)
(* tags.                                                                   *)
LEMMA HeapSame ==
  ASSUME NEW m \in Memory, NEW H, NEW S, NEW d, HeapOK(m, H, S, d), NEW x,
         \A g \in H \cup {End} : x[g] = m[g], \A k \in S : x[k + 1] = m[k + 1]
  PROVE  /\ HeapOK(x, H, S, d)
         /\ \A g \in H : EndOf(x, g) = EndOf(m, g)
<1>1. Tiles(x, H)
  BY TilesSame DEF HeapOK
<1>2. \A g \in H : EndOf(x, g) = EndOf(m, g) /\ EndOf(m, g) \in H \cup {End}
  BY TilesAll DEF EndOf, HeapOK
<1>3. Footers(x, H)
  BY <1>2, TilesAll DEF Footers, HeapOK
<1>4. FreeList(x, S, d)
  BY ListSame DEF HeapOK
<1> QED BY <1>1, <1>2, <1>3, <1>4 DEF HeapOK

(* The two tags of a chunk. *)
LEMMA TagPair ==
  ASSUME NEW m \in Memory, NEW h \in Addr, NEW e \in Addr, NEW w \in Word
  PROVE  LET x == PutP(PutC(m, h, w), e, w)
         IN  /\ x \in Memory /\ x[h].c = w /\ x[e].p = w
             /\ \A a \in Addr : a # h => x[a].c = m[a].c
             /\ \A a \in Addr : a # e => x[a].p = m[a].p
             /\ \A a \in Addr : a # h /\ a # e => x[a] = m[a]
<1> DEFINE y == PutC(m, h, w)
           x == PutP(y, e, w)
<1>1. /\ y \in Memory /\ y[h].c = w /\ y[h].p = m[h].p
      /\ \A b \in Addr : b # h => y[b] = m[b]
  BY StoreC
<1> HIDE DEF y
<1>2. /\ x \in Memory /\ x[e].p = w /\ x[e].c = y[e].c
      /\ \A b \in Addr : b # e => x[b] = y[b]
  BY <1>1, StoreP
<1> HIDE DEF x
<1>3. /\ x \in Memory /\ x[h].c = w /\ x[e].p = w
      /\ \A a \in Addr : a # h => x[a].c = m[a].c
      /\ \A a \in Addr : a # e => x[a].p = m[a].p
      /\ \A a \in Addr : a # h /\ a # e => x[a] = m[a]
  BY <1>1, <1>2
<1> QED BY <1>3 DEF x, y

(* What changes nothing but tags. *)
LEMMA TagsOnly ==
  ASSUME NEW m \in Memory, NEW H, Tiles(m, H), NEW x, NEW h \in H, NEW e \in H \cup {End},
         \A a \in Addr : a # h /\ a # e => x[a] = m[a]
  PROVE  /\ \A k \in H : x[k + 1] = m[k + 1]
         /\ Keeps(m, x, H, {})
<1>1. \A k \in H : x[k + 1] = m[k + 1]
  BY LinkPlaces
<1>2. \A g \in H : \A a \in Inside(m, g) : x[a] = m[a]
  BY InsideApart
<1> QED BY <1>1, <1>2 DEF Keeps

(* malloc's perfect match: the chunk at h leaves the list, with new tags.  *)
TakenWhole(m, x, H, S, d, h, w) ==
  /\ HeapOK(x, H, S \ {h},
            IF h # d THEN d ELSE IF Null(m[h + 1].c) THEN End ELSE m[h + 1].c.v - 1)
  /\ x[h].c = w
  /\ \A g \in H \cup {End} : g # h => x[g].c = m[g].c
  /\ Keeps(m, x, H, S)

LEMMA TakeWhole ==
  ASSUME NEW m \in Memory, NEW H, NEW S, NEW d, HeapOK(m, H, S, d), NEW h \in S,
         NEW w \in Word, w.v = m[h].c.v
  PROVE  TakenWhole(m, Relink(PutP(PutC(m, h, w), EndOf(m, h), w), h + 1), H, S, d, h, w)
<1> DEFINE e == EndOf(m, h)
           y == PutP(PutC(m, h, w), e, w)
           x == Relink(y, h + 1)
<1>1. Tiles(m, H) /\ Footers(m, H) /\ S \subseteq H /\ FreeList(m, S, d) /\ h \in H
  BY DEF HeapOK
<1>2. h \in Addr /\ e \in Addr /\ e \in H \cup {End} /\ \A g \in H \cup {End} : g \in Addr
  BY <1>1, TilesFacts, TilesAll, AddrFacts
<1> HIDE DEF e
<1>3. /\ y \in Memory /\ y[h].c = w /\ y[e].p = w
      /\ \A a \in Addr : a # h => y[a].c = m[a].c
      /\ \A a \in Addr : a # e => y[a].p = m[a].p
      /\ \A a \in Addr : a # h /\ a # e => y[a] = m[a]
  BY <1>2, TagPair
<1> HIDE DEF y
<1>4. Tiles(y, H) /\ Footers(y, H)
  BY <1>1, <1>2, <1>3, Retag DEF e
<1>5. (\A k \in H : y[k + 1] = m[k + 1]) /\ Keeps(m, y, H, {})
  BY <1>1, <1>2, <1>3, TagsOnly
<1>6. FreeList(y, S, d)
  BY <1>1, <1>5, ListSame
<1>7. InHeap(S)
  BY <1>1 DEF Tiles, InHeap
<1>8. /\ x \in Memory
      /\ \A a \in Addr : (\A k \in S \ {h} : a # k + 1) => x[a] = y[a]
      /\ \A k \in S \ {h} :
           /\ x[k + 1].c = IF y[h + 1].p = Link(k + 1) THEN y[h + 1].c ELSE y[k + 1].c
           /\ x[k + 1].p = IF y[h + 1].c = Link(k + 1) THEN y[h + 1].p ELSE y[k + 1].p
  BY <1>3, <1>6, <1>7, RelinkCells
<1> HIDE DEF x
<1>9. FreeList(x, S \ {h}, IF h # d THEN d ELSE IF Null(m[h + 1].c) THEN End ELSE m[h + 1].c.v - 1)
  <2>1. m[h + 1].c = y[h + 1].c
    BY <1>1, <1>5
  <2>2. /\ h # d => FreeList(x, S \ {h}, d)
        /\ h = d => FreeList(x, S \ {h}, IF Null(y[h + 1].c) THEN End ELSE y[h + 1].c.v - 1)
    BY <1>6, <1>7, <1>8, ListRemove DEF Removes
  <2> QED BY <2>1, <2>2
<1>10. \A g \in H \cup {End} : x[g] = y[g]
  <2>1. \A g \in H \cup {End} : \A k \in S : g # k + 1
    BY <1>1, LinkPlaces
  <2> QED BY <1>2, <1>8, <2>1
<1>11. Tiles(x, H) /\ Footers(x, H)
  <2>1. HeapOK(y, H, {}, End)
    BY <1>4 DEF HeapOK, FreeList
  <2> QED BY <1>3, <1>10, <2>1, HeapSame DEF HeapOK
<1>12. Keeps(m, x, H, S)
  <2>1. ASSUME NEW g \in H \ S, NEW a \in Inside(m, g) PROVE x[a] = m[a]
    <3>1. a \in Addr /\ \A k \in S : a # k + 1
      BY <1>1, <2>1, InsideApart
    <3>2. x[a] = y[a] /\ y[a] = m[a]
      BY <1>5, <1>8, <2>1, <3>1 DEF Keeps
    <3> QED BY <3>2
  <2> QED BY <2>1 DEF Keeps
<1>13. x[h].c = w /\ \A g \in H \cup {End} : g # h => x[g].c = m[g].c
  BY <1>1, <1>2, <1>3, <1>10
<1>14. HeapOK(x, H, S \ {h}, IF h # d THEN d ELSE IF Null(m[h + 1].c) THEN End ELSE m[h + 1].c.v - 1)
  BY <1>1, <1>9, <1>11 DEF HeapOK
<1> QED BY <1>12, <1>13, <1>14 DEF x, y, e, TakenWhole

(* The chunk at h, of tag w1 from now on, ends at n, where a new chunk of  *)
(* tag w2 begins.                                                          *)
SplitTags(m, h, n, w1, w2) ==
  /\ h + 2 <= n /\ n + 2 <= EndOf(m, h)
  /\ w1.v = n - h - 1 /\ w2.v = EndOf(m, h) - n - 1

CutAt(m, x, H, S, d, h, n, w1, w2) ==
  /\ HeapOK(x, H \cup {n}, S, d) /\ n \notin H
  /\ x[h].c = w1 /\ x[n].c = w2
  /\ \A g \in H \cup {End} : g # h => x[g].c = m[g].c
  /\ EndOf(x, h) = n /\ EndOf(x, n) = EndOf(m, h)
  /\ \A g \in H \ {h} : EndOf(x, g) = EndOf(m, g)
  /\ Keeps(m, x, H, {h})
  /\ \A a \in Addr : h < a /\ a < n => x[a] = m[a]

LEMMA Cut ==
  ASSUME NEW m \in Memory, NEW H, NEW S, NEW d, HeapOK(m, H, S, d), NEW h \in H,
         NEW n \in Int, NEW w1 \in Word, NEW w2 \in Word, SplitTags(m, h, n, w1, w2)
  PROVE  CutAt(m, PutP(PutC(PutCell(m, n, w1, w2), h, w1), EndOf(m, h), w2), H, S, d, h, n, w1, w2)
<1> USE DEF SplitTags
<1> DEFINE e == EndOf(m, h)
           y == PutCell(m, n, w1, w2)
           z == PutP(PutC(y, h, w1), e, w2)
<1>1. Tiles(m, H) /\ Footers(m, H) /\ S \subseteq H /\ FreeList(m, S, d)
  BY DEF HeapOK
<1>2. /\ h \in Addr /\ e \in Addr /\ e \in H \cup {End} /\ h \in Int /\ e \in Int
      /\ \A g \in H \cup {End} : g \in Addr /\ g \in Int
  BY <1>1, TilesFacts, TilesAll, AddrFacts
<1>3. n \in Addr /\ n # h /\ n # e /\ h # e
  BY <1>2, Geometry DEF Addr
<1>4. \A g \in H \cup {End} : g <= h \/ e <= g
  BY <1>1, <1>2, TilesAll
<1>5. n \notin H \cup {End}
  BY <1>2, <1>4
<1> HIDE DEF e
<1>6. /\ y \in Memory /\ y[n].p = w1 /\ y[n].c = w2
      /\ \A a \in Addr : a # n => y[a] = m[a]
  BY <1>3, StoreCell
<1> HIDE DEF y
<1> DEFINE q == PutC(y, h, w1)
<1>7. /\ q \in Memory /\ q[h].c = w1 /\ q[h].p = y[h].p
      /\ \A a \in Addr : a # h => q[a] = y[a]
  BY <1>2, <1>6, StoreC
<1>8. /\ z \in Memory /\ z[e].p = w2 /\ z[e].c = q[e].c
      /\ \A a \in Addr : a # e => z[a] = q[a]
  BY <1>2, <1>7, StoreP
<1> HIDE DEF q, z
<1>9. /\ z \in Memory /\ z[h].c = w1 /\ z[n].c = w2 /\ z[n].p = w1 /\ z[e].p = w2
      /\ \A g \in H \cup {End} : g # h => z[g].c = m[g].c
      /\ \A g \in H \cup {End} : g # e => z[g].p = m[g].p
      /\ \A a \in Addr : a # h /\ a # e /\ a # n => z[a] = m[a]
  <2>1. \A a \in Addr : a # h /\ a # e /\ a # n => z[a] = m[a]
    BY <1>6, <1>7, <1>8
  <2>2. z[h].c = w1 /\ z[h].p = m[h].p
    BY <1>2, <1>3, <1>6, <1>7, <1>8
  <2>3. z[e].c = m[e].c /\ z[e].p = w2
    BY <1>2, <1>3, <1>6, <1>7, <1>8
  <2>4. z[n].c = w2 /\ z[n].p = w1
    BY <1>3, <1>6, <1>7, <1>8
  <2>5. ASSUME NEW g \in H \cup {End}
        PROVE  /\ g # h => z[g].c = m[g].c
               /\ g # e => z[g].p = m[g].p
    <3>1. g \in Addr /\ g # n
      BY <1>2, <1>5
    <3>2. CASE g = h
      BY <2>2, <3>2
    <3>3. CASE g = e
      BY <2>3, <3>3
    <3>4. CASE g # h /\ g # e
      BY <2>1, <3>1, <3>4
    <3> QED BY <3>2, <3>3, <3>4
  <2> QED BY <1>8, <2>1, <2>2, <2>3, <2>4, <2>5
<1>10. /\ Tiles(z, H \cup {n}) /\ Footers(z, H \cup {n})
       /\ EndOf(z, h) = n /\ EndOf(z, n) = e /\ n \notin H
       /\ \A g \in H \ {h} : EndOf(z, g) = EndOf(m, g)
  <2>1. Splits(m, z, H, h, n)
    BY <1>9 DEF e, Splits
  <2>2. SplitAt(m, z, H, h, n)
    BY <1>1, <2>1, Split
  <2> QED BY <2>2 DEF SplitAt, e
<1>11. \A k \in S : z[k + 1] = m[k + 1]
  <2>1. \A k \in H : k + 1 \in Addr /\ k + 1 # h /\ k + 1 # e
    BY <1>1, <1>2, LinkPlaces
  <2>2. \A k \in H : k + 1 # n
    BY <1>2, <1>4 DEF e
  <2> QED BY <1>1, <1>9, <2>1, <2>2
<1>12. FreeList(z, S, d)
  BY <1>1, <1>11, ListSame
<1>13. Keeps(m, z, H, {h})
  <2>1. ASSUME NEW g \in H \ {h}, NEW a \in Inside(m, g) PROVE z[a] = m[a]
    <3>1. a \in Addr /\ a \notin H \cup {End} /\ a \notin Inside(m, h)
      BY <1>1, <2>1, InsideApart
    <3>2. n \in Inside(m, h)
      BY <1>2 DEF Inside, e
    <3> QED BY <1>2, <1>9, <3>1, <3>2
  <2> QED BY <2>1 DEF Keeps
<1>14. \A a \in Addr : h < a /\ a < n => z[a] = m[a]
  BY <1>2, <1>9, AddrInt DEF e
<1>15. HeapOK(z, H \cup {n}, S, d)
  BY <1>1, <1>10, <1>12 DEF HeapOK
<1>16. /\ HeapOK(z, H \cup {n}, S, d) /\ n \notin H
       /\ z[h].c = w1 /\ z[n].c = w2
       /\ \A g \in H \cup {End} : g # h => z[g].c = m[g].c
       /\ EndOf(z, h) = n /\ EndOf(z, n) = e
       /\ \A g \in H \ {h} : EndOf(z, g) = EndOf(m, g)
       /\ Keeps(m, z, H, {h})
       /\ \A a \in Addr : h < a /\ a < n => z[a] = m[a]
  BY <1>9, <1>10, <1>13, <1>14, <1>15
<1> QED BY <1>16 DEF z, y, e, CutAt

(* The chunk at h takes in the next one, as the two tags written say.  The *)
(* list is not touched yet.                                                *)
Spans(m, h, b, w) == b = EndOf(m, h) /\ w.v = EndOf(m, b) - h - 1

Glued(m, x, H, S, d, h, b, w) ==
  /\ x \in Memory /\ Tiles(x, H \ {b}) /\ Footers(x, H \ {b}) /\ FreeList(x, S, d)
  /\ EndOf(x, h) = EndOf(m, b)
  /\ \A g \in H \ {h, b} : EndOf(x, g) = EndOf(m, g)
  /\ x[h].c = w /\ \A g \in H \cup {End} : g # h => x[g].c = m[g].c
  /\ \A k \in H : x[k + 1] = m[k + 1]
  /\ Keeps(m, x, H, {})

LEMMA Glue ==
  ASSUME NEW m \in Memory, NEW H, NEW S, NEW d, HeapOK(m, H, S, d), NEW h \in H, NEW b \in H,
         NEW w \in Word, Spans(m, h, b, w)
  PROVE  Glued(m, PutP(PutC(m, h, w), EndOf(m, b), w), H, S, d, h, b, w)
<1> DEFINE e == EndOf(m, b)
           x == PutP(PutC(m, h, w), e, w)
<1> USE DEF Spans
<1>1. Tiles(m, H) /\ Footers(m, H) /\ S \subseteq H /\ FreeList(m, S, d)
  BY DEF HeapOK
<1>2. h \in Addr /\ e \in Addr /\ e \in H \cup {End} /\ \A g \in H \cup {End} : g \in Addr
  BY <1>1, TilesFacts, TilesAll, AddrFacts
<1> HIDE DEF e
<1>3. /\ x \in Memory /\ x[h].c = w /\ x[e].p = w
      /\ \A a \in Addr : a # h => x[a].c = m[a].c
      /\ \A a \in Addr : a # e => x[a].p = m[a].p
      /\ \A a \in Addr : a # h /\ a # e => x[a] = m[a]
  BY <1>2, TagPair
<1> HIDE DEF x
<1>4. /\ Tiles(x, H \ {b}) /\ Footers(x, H \ {b})
      /\ EndOf(x, h) = e
      /\ \A g \in H \ {h, b} : EndOf(x, g) = EndOf(m, g)
  <2>1. \A g \in (H \cup {End}) \ {b} : g # h => x[g].c = m[g].c
    BY <1>2, <1>3
  <2>2. \A g \in (H \cup {End}) \ {b} : g # e => x[g].p = m[g].p
    BY <1>2, <1>3
  <2>3. Joins(m, x, H, h, b)
    BY <1>3, <2>1, <2>2 DEF e, Joins
  <2>4. Tiles(m, H) /\ Footers(m, H) /\ m \in Memory /\ h \in H /\ b \in H
    BY <1>1
  <2>5. \A y : Joins(m, y, H, h, b) =>
          /\ Tiles(y, H \ {b}) /\ Footers(y, H \ {b})
          /\ EndOf(y, h) = EndOf(m, b)
          /\ \A g \in H \ {h, b} : EndOf(y, g) = EndOf(m, g)
    BY <2>4, Join
  <2> QED BY <2>3, <2>5 DEF e
<1>5. (\A k \in H : x[k + 1] = m[k + 1]) /\ Keeps(m, x, H, {})
  BY <1>1, <1>2, <1>3, TagsOnly
<1>6. FreeList(x, S, d)
  BY <1>1, <1>5, ListSame
<1>7. x[h].c = w /\ \A g \in H \cup {End} : g # h => x[g].c = m[g].c
  BY <1>2, <1>3
<1>8. /\ x \in Memory /\ Tiles(x, H \ {b}) /\ Footers(x, H \ {b}) /\ FreeList(x, S, d)
      /\ EndOf(x, h) = e
      /\ \A g \in H \ {h, b} : EndOf(x, g) = EndOf(m, g)
      /\ x[h].c = w /\ \A g \in H \cup {End} : g # h => x[g].c = m[g].c
      /\ \A k \in H : x[k + 1] = m[k + 1]
      /\ Keeps(m, x, H, {})
  BY <1>3, <1>4, <1>5, <1>6, <1>7
<1> QED BY <1>8 DEF x, e, Glued

LEMMA FlaggedStores ==
  ASSUME NEW m, NEW ptr, NEW nxt
  PROVE  LET y == PutCell(m, ptr, Link(0), Link(0))
             z == PutP(y, nxt, Freed(y[nxt].p.v))
             c == Wrap(ptr - 1)
         IN  Flagged(m, ptr, nxt) = PutC(z, c, Freed(z[c].c.v))
  BY DEF Flagged, PutCell, PutP, PutC

(* What free stores first, in a chunk that is not listed. *)
FlaggedAt(m, x, H, S, d, h) ==
  /\ x \in Memory /\ HeapOK(x, H, S, d)
  /\ x[h].c = Freed(m[h].c.v)
  /\ \A g \in H \cup {End} : g # h => x[g].c = m[g].c
  /\ \A g \in H : EndOf(x, g) = EndOf(m, g)
  /\ x[h + 1].p = Link(0) /\ x[h + 1].c = Link(0)
  /\ Keeps(m, x, H, {h})

LEMMA Flag ==
  ASSUME NEW m \in Memory, NEW H, NEW S, NEW d, HeapOK(m, H, S, d), NEW h \in H \ S
  PROVE  FlaggedAt(m, Flagged(m, h + 1, EndOf(m, h)), H, S, d, h)
<1> DEFINE e == EndOf(m, h)
           y == PutCell(m, h + 1, Link(0), Link(0))
           z == PutP(y, e, Freed(y[e].p.v))
           x == PutC(z, h, Freed(z[h].c.v))
<1>1. Tiles(m, H) /\ Footers(m, H) /\ S \subseteq H /\ FreeList(m, S, d)
  BY DEF HeapOK
<1>2. /\ h \in Addr /\ e \in Addr /\ e \in H \cup {End} /\ h + 1 \in Addr
      /\ \A g \in H \cup {End} : g \in Addr /\ g # h + 1
  BY <1>1, TilesFacts, TilesAll, AddrFacts, LinkPlaces
<1>3. h # e /\ Wrap(h + 1 - 1) = h
  BY <1>1, TilesAll, LinkPlaces
<1>4. Flagged(m, h + 1, e) = x
  <2> DEFINE p == h + 1
             u == PutCell(m, p, Link(0), Link(0))
             v == PutP(u, e, Freed(u[e].p.v))
             c == Wrap(p - 1)
  <2> HIDE DEF p, e
  <2>1. Flagged(m, p, e) = PutC(v, c, Freed(v[c].c.v))
    BY FlaggedStores
  <2> HIDE DEF c
  <2>2. c = h
    BY <1>2, <1>3, AddrInt DEF c, p
  <2> QED BY <2>1, <2>2 DEF p
<1> HIDE DEF e
<1>5. /\ y \in Memory /\ y[h + 1].p = Link(0) /\ y[h + 1].c = Link(0)
      /\ \A b \in Addr : b # h + 1 => y[b] = m[b]
  <2>1. Link(0) \in Word
    BY AddrFacts, WordType
  <2> QED BY <1>2, <2>1, StoreCell
<1> HIDE DEF y
<1>6. Freed(y[e].p.v) \in Word
  BY <1>2, <1>5, CellFields, WordType
<1>7. /\ z \in Memory /\ z[e].p = Freed(y[e].p.v) /\ z[e].c = y[e].c
      /\ \A b \in Addr : b # e => z[b] = y[b]
  BY <1>2, <1>5, <1>6, StoreP
<1> HIDE DEF z
<1>8. Freed(z[h].c.v) \in Word
  BY <1>2, <1>7, CellFields, WordType
<1>9. /\ x \in Memory /\ x[h].c = Freed(z[h].c.v) /\ x[h].p = z[h].p
      /\ \A b \in Addr : b # h => x[b] = z[b]
  BY <1>2, <1>7, <1>8, StoreC
<1> HIDE DEF x
<1>10. /\ x[h].c = Freed(m[h].c.v) /\ x[e].p = Freed(m[e].p.v)
       /\ \A g \in H \cup {End} : g # h => x[g].c = m[g].c
       /\ \A g \in H \cup {End} : g # e => x[g].p = m[g].p
       /\ \A a \in Addr : a # h /\ a # e /\ a # h + 1 => x[a] = m[a]
       /\ x[h + 1].p = Link(0) /\ x[h + 1].c = Link(0)
  BY <1>2, <1>3, <1>5, <1>7, <1>9
<1>11. Tiles(x, H) /\ Footers(x, H)
  <2>1. x[h].c.v = m[h].c.v
    BY <1>10 DEF Freed
  <2>2. H # {Bottom} => x[e].p = x[h].c
    BY <1>1, <1>10 DEF Footers, e
  <2> QED BY <1>1, <1>10, <2>1, <2>2, Retag DEF e
<1>12. FreeList(x, S, d)
  <2>1. \A k \in S : k + 1 \in Addr /\ k + 1 # h + 1 /\ k + 1 # h /\ k + 1 # e
    BY <1>1, <1>2, LinkPlaces
  <2> QED BY <1>1, <1>10, <2>1, ListSame
<1>13. Keeps(m, x, H, {h})
  <2>1. ASSUME NEW g \in H \ {h}, NEW a \in Inside(m, g) PROVE x[a] = m[a]
    <3>1. a \in Addr /\ a \notin H \cup {End} /\ a # h + 1
      BY <1>1, <2>1, InsideApart
    <3> QED BY <1>2, <1>10, <3>1
  <2> QED BY <2>1 DEF Keeps
<1>14. \A g \in H : EndOf(x, g) = EndOf(m, g)
  BY <1>10 DEF EndOf, Freed
<1>15. HeapOK(x, H, S, d)
  BY <1>1, <1>11, <1>12 DEF HeapOK
<1> QED BY <1>4, <1>9, <1>10, <1>13, <1>14, <1>15 DEF e, FlaggedAt

(* The size of two chunks that become one. *)
LEMMA JoinedSize ==
  ASSUME NEW m \in Memory, NEW H, Tiles(m, H), NEW h \in H, NEW b \in H, b = EndOf(m, h)
  PROVE  /\ Joined(m, h, b) = Freed(EndOf(m, b) - h - 1)
         /\ EndOf(m, b) - h - 1 = m[h].c.v + m[b].c.v + 1
         /\ EndOf(m, b) - h - 1 \in Addr
         /\ Joined(m, h, b) \in Word /\ Spans(m, h, b, Joined(m, h, b))
<1> DEFINE v == m[h].c.v
           w == m[b].c.v
           e == EndOf(m, b)
<1>1. /\ h \in Int /\ Bottom <= h /\ b \in Int /\ h + 2 <= b /\ b + 2 <= e /\ e <= End /\ e \in Int
      /\ v \in Int /\ w \in Int
  BY TilesFacts
<1>2. b = h + 1 + v /\ e = b + 1 + w
  BY DEF EndOf
<1> HIDE DEF v, w, e
<1>3. v + w + 1 = e - h - 1 /\ v + w \in Addr /\ (v + w) + 1 \in Addr
  BY <1>1, <1>2, Geometry DEF Addr, End
<1>4. Wrap(Wrap(v + w) + 1) = e - h - 1
  BY <1>3, WrapIn
<1>5. Joined(m, h, b) = Freed(e - h - 1)
  BY <1>4 DEF Joined, v, w
<1>6. Freed(e - h - 1) \in Word /\ Freed(e - h - 1).v = e - h - 1
  BY <1>3, WordType DEF Freed
<1> QED BY <1>3, <1>5, <1>6 DEF v, w, e, Spans

(* merge_prev_area: b, which is not listed, becomes part of h. *)
MergedAbove(m, x, H, S, d, h, b) ==
  /\ x \in Memory /\ HeapOK(x, H \ {b}, S, d)
  /\ EndOf(x, h) = EndOf(m, b)
  /\ \A g \in H \ {h, b} : EndOf(x, g) = EndOf(m, g)
  /\ x[h].c.f /\ \A g \in (H \cup {End}) \ {h, b} : x[g].c = m[g].c
  /\ Keeps(m, x, H, {})

LEMMA MergedPrev ==
  ASSUME NEW m \in Memory, NEW H, NEW S, NEW d, HeapOK(m, H, S, d), NEW h \in H, NEW b \in H \ S,
         b = EndOf(m, h), m[b].p = m[h].c
  PROVE  MergedAbove(m, MergePrev(m, b), H, S, d, h, b)
<1> DEFINE e == EndOf(m, b)
           w == Joined(m, h, b)
           y == PutP(PutC(m, h, w), e, w)
           x == PutCell(y, b, Used(0), Used(0))
<1>1. Tiles(m, H) /\ Footers(m, H) /\ S \subseteq H /\ FreeList(m, S, d)
  BY DEF HeapOK
<1>2. MergePrev(m, b) = x
  <2>1. PrevHeader(m, b) = h /\ NextHeader(m, b) = e
    BY <1>1, Neighbours
  <2> QED BY <2>1 DEF MergePrev, PutCell, PutP, PutC
<1>3. w \in Word /\ Spans(m, h, b, w) /\ w.f
  BY <1>1, JoinedSize DEF Freed
<1> HIDE DEF w
<1>4. /\ y \in Memory /\ Tiles(y, H \ {b}) /\ Footers(y, H \ {b}) /\ FreeList(y, S, d)
      /\ EndOf(y, h) = e
      /\ \A g \in H \ {h, b} : EndOf(y, g) = EndOf(m, g)
      /\ y[h].c = w /\ \A g \in H \cup {End} : g # h => y[g].c = m[g].c
      /\ \A k \in H : y[k + 1] = m[k + 1]
      /\ Keeps(m, y, H, {})
  <2>1. Glued(m, y, H, S, d, h, b, w)
    BY <1>1, <1>3, Glue
  <2> QED BY <2>1 DEF Glued
<1>5. b \in Addr /\ h # b
  BY <1>1, TilesFacts, TilesAll
<1> HIDE DEF y, w, e
<1>6. /\ x \in Memory /\ \A a \in Addr : a # b => x[a] = y[a]
  <2>1. Used(0) \in Word
    BY AddrFacts, WordType
  <2> QED BY <1>4, <1>5, <2>1, StoreCell
<1> HIDE DEF x
<1>7. \A g \in (H \cup {End}) \ {b} : x[g] = y[g] /\ g \in Addr
  BY <1>1, <1>6, TilesFacts, AddrFacts
<1>8. \A k \in H : x[k + 1] = m[k + 1]
  BY <1>1, <1>4, <1>6, LinkPlaces
<1>9. /\ HeapOK(x, H \ {b}, S, d)
      /\ \A g \in H \ {b} : EndOf(x, g) = EndOf(y, g)
  <2>1. HeapOK(y, H \ {b}, S, d)
    BY <1>1, <1>4 DEF HeapOK
  <2>2. \A g \in (H \ {b}) \cup {End} : x[g] = y[g]
    BY <1>1, <1>7, TilesAll
  <2>3. \A k \in S : x[k + 1] = y[k + 1]
    BY <1>1, <1>4, <1>8
  <2> QED BY <1>4, <2>1, <2>2, <2>3, HeapSame
<1>10. Keeps(m, x, H, {})
  <2>1. ASSUME NEW g \in H, NEW a \in Inside(m, g) PROVE x[a] = m[a]
    BY <1>1, <1>4, <1>6, <2>1, InsideApart DEF Keeps
  <2> QED BY <2>1 DEF Keeps
<1>11. /\ EndOf(x, h) = e
       /\ \A g \in H \ {h, b} : EndOf(x, g) = EndOf(m, g)
       /\ x[h].c.f /\ \A g \in (H \cup {End}) \ {h, b} : x[g].c = m[g].c
  BY <1>3, <1>4, <1>5, <1>7, <1>9, TilesAll
<1> QED BY <1>2, <1>6, <1>9, <1>10, <1>11 DEF e, MergedAbove

SameTags(x, y, H) == \A g \in H \cup {End} : x[g] = y[g]

(* merge_next_area, when the chunk at h is listed and when it is not yet:  *)
(* the next one, b, which is, becomes part of it.                          *)
MergedBelow(m, x, H, S, T, d, h, b) ==
  /\ HeapOK(x, H \ {b}, T, d)
  /\ EndOf(x, h) = EndOf(m, b)
  /\ \A g \in H \ {h, b} : EndOf(x, g) = EndOf(m, g)
  /\ x[h].c.f /\ \A g \in (H \cup {End}) \ {h, b} : x[g].c = m[g].c
  /\ Keeps(m, x, H, S \cup {h})

(* Its stores: the tags, the next link of h, and the link after b. *)
NextMerged(m, t, b) ==
  LET w == Joined(m, t, b)
      y == PutP(PutC(m, t, w), EndOf(m, b), w)
  IN  SetPrev(PutC(y, t + 1, m[b + 1].c), m[b + 1].c, Link(t + 1))

LEMMA MergeNextUnfold ==
  ASSUME NEW m, NEW t, NEW d
  PROVE  LET b    == NextHeader(m, t)
             t_f  == Wrap(t + 1)
             b_f  == Wrap(b + 1)
             w    == Joined(m, t, b)
             prev == m[b_f].p
             next == m[b_f].c
             y    == PutP(PutC(m, t, w), NextHeader(m, b), w)
             x    == SetPrev(PutC(y, t_f, next), next, Link(t_f))
         IN  MergeNext(m, t, d) = IF ~Null(m[t_f].p) \/ t = d THEN x
                                  ELSE PutC(PutP(x, t_f, prev), prev.v, Link(t_f))
  BY DEF MergeNext, PutP, PutC

LEMMA MergeNextStores ==
  ASSUME NEW m \in Memory, NEW H, Tiles(m, H), NEW h \in H, NEW b \in H, b = EndOf(m, h), NEW d
  PROVE  MergeNext(m, h, d) =
           LET x == NextMerged(m, h, b)
               prev == m[b + 1].p
           IN  IF ~Null(m[h + 1].p) \/ h = d THEN x
               ELSE PutC(PutP(x, h + 1, prev), prev.v, Link(h + 1))
<1> DEFINE e == EndOf(m, b)
           t_f == h + 1
           b_f == b + 1
           w == Joined(m, h, b)
           prev == m[b_f].p
           next == m[b_f].c
           y == PutP(PutC(m, h, w), e, w)
           x == SetPrev(PutC(y, t_f, next), next, Link(t_f))
<1>1. NextHeader(m, h) = b /\ NextHeader(m, b) = e
  BY Neighbours
<1>2. Wrap(h + 1) = t_f /\ Wrap(b + 1) = b_f
  BY LinkPlaces
<1> HIDE DEF e, t_f, b_f
<1>3. MergeNext(m, h, d) = IF ~Null(m[t_f].p) \/ h = d THEN x
                           ELSE PutC(PutP(x, t_f, prev), prev.v, Link(t_f))
  BY <1>1, <1>2, MergeNextUnfold
<1> QED BY <1>3 DEF e, t_f, b_f, NextMerged

NextLinks(m, x, H, S, h, b) ==
  /\ x \in Memory
  /\ SameTags(x, PutP(PutC(m, h, Joined(m, h, b)), EndOf(m, b), Joined(m, h, b)), H)
  /\ x[h + 1].c = m[b + 1].c /\ x[h + 1].p = m[h + 1].p
  /\ \A k \in H \ {h} : x[k + 1].c = m[k + 1].c
  /\ \A k \in S \ {h, b} :
       x[k + 1].p = IF m[b + 1].c = Link(k + 1) THEN Link(h + 1) ELSE m[k + 1].p
  /\ Keeps(m, x, H, S \cup {h})

LEMMA NextMergedCells ==
  ASSUME NEW m \in Memory, NEW H, NEW S, NEW d, HeapOK(m, H, S, d), NEW h \in H, NEW b \in S,
         b = EndOf(m, h)
  PROVE  NextLinks(m, NextMerged(m, h, b), H, S, h, b)
<1> DEFINE e == EndOf(m, b)
           w == Joined(m, h, b)
           next == m[b + 1].c
           t_f == h + 1
           y == PutP(PutC(m, h, w), e, w)
           z == PutC(y, t_f, next)
           x == SetPrev(z, next, Link(t_f))
<1>1. Tiles(m, H) /\ Footers(m, H) /\ S \subseteq H /\ FreeList(m, S, d) /\ b \in H
  BY DEF HeapOK
<1>2. InHeap(S)
  BY <1>1 DEF Tiles, InHeap
<1>3. /\ \A g \in H \cup {End} : g \in Addr
      /\ \A k \in H : k + 1 \in Addr /\ (\A g \in H \cup {End} : g # k + 1)
      /\ \A k \in H : k # h => k + 1 # t_f
      /\ t_f \in Addr
  BY <1>1, TilesFacts, AddrFacts, LinkPlaces
<1>4. w \in Word /\ Spans(m, h, b, w)
  BY <1>1, JoinedSize
<1>5. next \in Word /\ Link(t_f) \in Word
  BY <1>1, <1>3, CellFields, WordType
<1>6. next = Link(0) \/ \E g \in S \ {b} : next = Link(g + 1)
  BY <1>1, <1>2, LinkCases
<1>7. next # Link(h + 1)
  <2>1. CASE h \in S
    <3>1. h < b
      BY <1>1, TilesAll
    <3>2. ~Follows(S, b, h)
      BY <1>1, <3>1, TilesAll DEF Follows
    <3> QED BY <1>1, <1>2, <2>1, <3>2, ListFacts
  <2>2. CASE h \notin S
    <3>1. \A g \in S : g + 1 # h + 1
      BY <1>1, <2>2, LinkPlaces
    <3> QED BY <1>6, <3>1, <1>3, AddrInt, LinkField
  <2> QED BY <2>1, <2>2
<1> HIDE DEF w, e, next, t_f
<1>8. /\ y \in Memory
      /\ \A k \in H : y[k + 1] = m[k + 1]
      /\ Keeps(m, y, H, {})
  <2>1. Glued(m, y, H, S, d, h, b, w)
    BY <1>1, <1>4, Glue DEF e
  <2> QED BY <2>1 DEF Glued
<1> HIDE DEF y
<1>9. /\ z \in Memory /\ z[t_f].c = next /\ z[t_f].p = y[t_f].p
      /\ \A a \in Addr : a # t_f => z[a] = y[a]
  BY <1>3, <1>5, <1>8, StoreC
<1> HIDE DEF z
<1>10. /\ x \in Memory
       /\ \A a \in Addr : x[a].c = z[a].c
       /\ \A a \in Addr : ~(a = next.v /\ next # Link(0)) => x[a] = z[a]
       /\ next # Link(0) => x[next.v].p = Link(t_f)
  BY <1>5, <1>9, SetPrevCells
<1> HIDE DEF x
<1>11. \A a \in Addr : (\A k \in S \ {h, b} : a # k + 1) => x[a] = z[a]
  <2>1. next = Link(0) \/ \E g \in S \ {h, b} : next = Link(g + 1)
    BY <1>6, <1>7
  <2> QED BY <1>10, <2>1, LinkField
<1>12. SameTags(x, y, H)
  BY <1>1, <1>3, <1>9, <1>11 DEF t_f, SameTags
<1>13. x[t_f].c = next /\ x[t_f].p = m[h + 1].p
  BY <1>1, <1>3, <1>8, <1>9, <1>11 DEF t_f
<1>14. \A k \in H \ {h} : x[k + 1].c = m[k + 1].c
  BY <1>3, <1>8, <1>9, <1>10
<1>15. ASSUME NEW k \in S \ {h, b}
       PROVE  x[k + 1].p = IF next = Link(k + 1) THEN Link(h + 1) ELSE m[k + 1].p
  <2>1. z[k + 1] = m[k + 1] /\ k + 1 \in Addr
    BY <1>1, <1>3, <1>8, <1>9
  <2>2. Link(k + 1) # Link(0)
    BY <1>1, <1>2, LinksDiffer
  <2>3. CASE next = Link(k + 1)
    BY <1>10, <2>2, <2>3, LinkField DEF t_f
  <2>4. CASE next # Link(k + 1)
    <3>1. ~(k + 1 = next.v /\ next # Link(0))
      BY <1>6, <2>4, LinkField
    <3> QED BY <1>10, <2>1, <2>4, <3>1
  <2> QED BY <2>3, <2>4
<1>16. Keeps(m, x, H, S \cup {h})
  <2>1. ASSUME NEW g \in H \ (S \cup {h}), NEW a \in Inside(m, g) PROVE x[a] = m[a]
    <3>1. a \in Addr /\ (\A k \in S : a # k + 1) /\ a # t_f
      BY <1>1, <2>1, InsideApart DEF t_f
    <3>2. x[a] = z[a] /\ z[a] = y[a] /\ y[a] = m[a]
      BY <1>8, <1>9, <1>11, <2>1, <3>1 DEF Keeps
    <3> QED BY <3>2
  <2> QED BY <2>1 DEF Keeps
<1> QED BY <1>10, <1>12, <1>13, <1>14, <1>15, <1>16
        DEF NextLinks, NextMerged, x, z, y, w, e, next, t_f

TagsGlued(m, x, H, h, b, w) ==
  /\ Tiles(x, H \ {b}) /\ Footers(x, H \ {b})
  /\ EndOf(x, h) = EndOf(m, b)
  /\ \A g \in H \ {h, b} : EndOf(x, g) = EndOf(m, g)
  /\ x[h].c = w /\ \A g \in (H \cup {End}) \ {h, b} : x[g].c = m[g].c

LEMMA GluedTags ==
  ASSUME NEW m \in Memory, NEW H, NEW S, NEW d, HeapOK(m, H, S, d), NEW h \in H, NEW b \in H,
         NEW w \in Word, Spans(m, h, b, w), NEW x,
         SameTags(x, PutP(PutC(m, h, w), EndOf(m, b), w), H)
  PROVE  TagsGlued(m, x, H, h, b, w)
<1> DEFINE y == PutP(PutC(m, h, w), EndOf(m, b), w)
<1>1. \A g \in H \cup {End} : x[g] = y[g]
  BY DEF SameTags
<1>2. Glued(m, y, H, S, d, h, b, w)
  BY Glue
<1> HIDE DEF y
<1>3. /\ y \in Memory /\ Tiles(y, H \ {b}) /\ Footers(y, H \ {b})
      /\ EndOf(y, h) = EndOf(m, b)
      /\ \A g \in H \ {h, b} : EndOf(y, g) = EndOf(m, g)
      /\ y[h].c = w /\ \A g \in H \cup {End} : g # h => y[g].c = m[g].c
  BY <1>2 DEF Glued
<1>4. HeapOK(y, H \ {b}, {}, End)
  BY <1>3 DEF HeapOK, FreeList
<1>5. /\ HeapOK(x, H \ {b}, {}, End)
      /\ \A g \in H \ {b} : EndOf(x, g) = EndOf(y, g)
  <2>1. \A g \in (H \ {b}) \cup {End} : x[g] = y[g]
    BY <1>1
  <2> QED BY <1>3, <1>4, <2>1, HeapSame
<1>6. h # b
  <2>1. Tiles(m, H)
    BY DEF HeapOK
  <2>2. b = EndOf(m, h)
    BY DEF Spans
  <2> QED BY <2>1, <2>2, TilesAll
<1> QED BY <1>1, <1>3, <1>5, <1>6 DEF HeapOK, TagsGlued

LEMMA MergedNextListed ==
  ASSUME NEW m \in Memory, NEW H, NEW S, NEW d, HeapOK(m, H, S, d), NEW h \in S, NEW b \in S,
         b = EndOf(m, h)
  PROVE  MergedBelow(m, MergeNext(m, h, d), H, S, S \ {b}, d, h, b)
<1> DEFINE x == NextMerged(m, h, b)
           w == Joined(m, h, b)
<1>1. Tiles(m, H) /\ Footers(m, H) /\ S \subseteq H /\ FreeList(m, S, d) /\ b \in H /\ h \in H
  BY DEF HeapOK
<1>2. InHeap(S) /\ h < b
  <2>1. InHeap(S)
    BY <1>1 DEF Tiles, InHeap
  <2>2. h < b
    BY <1>1, TilesAll
  <2> QED BY <2>1, <2>2
<1>3. Follows(S, h, b)
  BY <1>1, <1>2, TilesAll DEF Follows
<1>4. MergeNext(m, h, d) = x
  <2>1. m[h + 1].p = Link(0) => h = d
    BY <1>1, <1>2, ListFacts
  <2> QED BY <1>1, <2>1, MergeNextStores DEF Null
<1>5. w \in Word /\ Spans(m, h, b, w) /\ w.f
  BY <1>1, JoinedSize DEF Freed
<1>6. /\ x \in Memory
      /\ SameTags(x, PutP(PutC(m, h, w), EndOf(m, b), w), H)
      /\ x[h + 1].c = m[b + 1].c /\ x[h + 1].p = m[h + 1].p
      /\ \A k \in H \ {h} : x[k + 1].c = m[k + 1].c
      /\ \A k \in S \ {h, b} :
           x[k + 1].p = IF m[b + 1].c = Link(k + 1) THEN Link(h + 1) ELSE m[k + 1].p
      /\ Keeps(m, x, H, S \cup {h})
  <2>1. NextLinks(m, NextMerged(m, h, b), H, S, h, b)
    BY <1>1, NextMergedCells
  <2> QED BY <2>1 DEF NextLinks
<1> HIDE DEF x, w
<1>7. /\ Tiles(x, H \ {b}) /\ Footers(x, H \ {b})
      /\ EndOf(x, h) = EndOf(m, b)
      /\ \A g \in H \ {h, b} : EndOf(x, g) = EndOf(m, g)
      /\ x[h].c = w /\ \A g \in (H \cup {End}) \ {h, b} : x[g].c = m[g].c
  <2>1. TagsGlued(m, x, H, h, b, w)
    BY <1>1, <1>5, <1>6, GluedTags
  <2> QED BY <2>1 DEF TagsGlued
<1>8. FreeList(x, S \ {b}, d)
  <2>1. m[b + 1].p = Link(h + 1)
    BY <1>1, <1>2, <1>3, ListFacts
  <2>2. \A k \in S \ {b} : m[b + 1].p = Link(k + 1) <=> k = h
    BY <1>2, <2>1, LinksDiffer
  <2>3. m[b + 1].c # Link(h + 1)
    <3>1. ~Follows(S, b, h)
      BY <1>1, <1>2, TilesAll DEF Follows
    <3> QED BY <1>1, <1>2, <3>1, ListFacts
  <2>4. b # d
    <3>1. ~IsFirst(S, b)
      BY <1>1, <1>2, TilesAll DEF IsFirst
    <3> QED BY <1>1, <1>2, <3>1, ListFacts
  <2>5. Removes(m, x, S, b)
    BY <1>1, <1>6, <2>1, <2>2, <2>3 DEF Removes
  <2> QED BY <1>1, <1>2, <2>4, <2>5, ListRemove
<1>9. HeapOK(x, H \ {b}, S \ {b}, d)
  BY <1>1, <1>7, <1>8 DEF HeapOK
<1> QED BY <1>4, <1>5, <1>6, <1>7, <1>9 DEF MergedBelow

LEMMA MergedNextUnlisted ==
  ASSUME NEW m \in Memory, NEW H, NEW S, NEW d, HeapOK(m, H, S, d), NEW h \in H \ S, NEW b \in S,
         b = EndOf(m, h), Null(m[h + 1].p)
  PROVE  MergedBelow(m, MergeNext(m, h, Lowest(d, h)), H, S, (S \ {b}) \cup {h}, Lowest(d, h), h, b)
<1> DEFINE y == NextMerged(m, h, b)
           w == Joined(m, h, b)
           prev == m[b + 1].p
           x == IF d = b THEN y ELSE PutC(PutP(y, h + 1, prev), prev.v, Link(h + 1))
<1>1. /\ Tiles(m, H) /\ Footers(m, H) /\ S \subseteq H /\ FreeList(m, S, d) /\ b \in H /\ h \in H
      /\ h \notin S
  BY DEF HeapOK
<1>2. InHeap(S) /\ h < b /\ \A k \in S \ {b} : k # h /\ (k < h <=> k < b)
  <2>1. InHeap(S)
    BY <1>1 DEF Tiles, InHeap
  <2>2. h < b
    BY <1>1, TilesAll
  <2>3. ASSUME NEW k \in S, k # b PROVE k # h /\ (k < h <=> k < b)
    BY <1>1, <2>2, <2>3, TilesAll
  <2> QED BY <2>1, <2>2, <2>3
<1>3. d \in S /\ IsFirst(S, d) /\ d \in Int /\ h \in Int
  BY <1>1, TilesAll DEF FreeList
<1>4. Lowest(d, h) = IF d = b THEN h ELSE d
  <2>1. CASE d = b
    BY <1>2, <1>3, <2>1 DEF Lowest
  <2>2. CASE d # b
    <3>1. d < b
      BY <1>1, <1>2, <1>3, <2>2, TilesAll DEF IsFirst
    <3>2. d < h
      BY <1>2, <1>3, <2>2, <3>1
    <3> QED BY <1>3, <2>2, <3>2 DEF Lowest
  <2> QED BY <2>1, <2>2
<1>5. MergeNext(m, h, Lowest(d, h)) = x
  <2>1. d # b => h # d
    BY <1>1, <1>3
  <2> QED BY <1>1, <1>4, <2>1, MergeNextStores
<1>6. w \in Word /\ Spans(m, h, b, w) /\ w.f
  BY <1>1, JoinedSize DEF Freed
<1>7. /\ y \in Memory
      /\ SameTags(y, PutP(PutC(m, h, w), EndOf(m, b), w), H)
      /\ y[h + 1].c = m[b + 1].c /\ y[h + 1].p = m[h + 1].p
      /\ \A k \in H \ {h} : y[k + 1].c = m[k + 1].c
      /\ \A k \in S \ {h, b} :
           y[k + 1].p = IF m[b + 1].c = Link(k + 1) THEN Link(h + 1) ELSE m[k + 1].p
      /\ Keeps(m, y, H, S \cup {h})
  <2>1. NextLinks(m, NextMerged(m, h, b), H, S, h, b)
    BY <1>1, NextMergedCells
  <2> QED BY <2>1 DEF NextLinks
<1>8. /\ h + 1 \in Addr /\ \A g \in H \cup {End} : g \in Addr /\ g # h + 1
      /\ \A k \in S : k + 1 \in Addr /\ k + 1 # h + 1 /\ (\A g \in H \cup {End} : g # k + 1)
  BY <1>1, LinkPlaces, TilesFacts, AddrFacts
<1>9. prev \in Word /\ Link(h + 1) \in Word
  BY <1>1, <1>8, CellFields, WordType
<1>10. d = b => prev = Link(0)
  BY <1>1, <1>2, ListFacts
<1>11. d # b => \E g \in S \ {b} : prev = Link(g + 1)
  BY <1>1, <1>2, LinkCases, ListFacts
<1> HIDE DEF y, w, prev
<1>12. /\ x \in Memory
       /\ \A a \in Addr : a # h + 1 /\ (\A k \in S \ {b} : a # k + 1) => x[a] = y[a]
       /\ x[h + 1].c = m[b + 1].c /\ x[h + 1].p = prev
       /\ \A k \in S \ {b} : /\ x[k + 1].p = y[k + 1].p
                             /\ x[k + 1].c = IF prev = Link(k + 1) THEN Link(h + 1) ELSE y[k + 1].c
  <2>1. CASE d = b
    <3>1. \A k \in S \ {b} : prev # Link(k + 1)
      BY <1>2, <1>10, <2>1, LinksDiffer
    <3> QED BY <1>7, <1>10, <2>1, <3>1 DEF Null
  <2>2. CASE d # b
    <3> DEFINE z == PutP(y, h + 1, prev)
               q == PutC(z, prev.v, Link(h + 1))
    <3>1. PICK g \in S \ {b} : prev = Link(g + 1)
      BY <1>11, <2>2
    <3>2. prev.v = g + 1 /\ g + 1 \in Addr /\ g + 1 # h + 1
      BY <1>8, <3>1, LinkField
    <3>3. /\ z \in Memory /\ z[h + 1].p = prev /\ z[h + 1].c = y[h + 1].c
          /\ \A a \in Addr : a # h + 1 => z[a] = y[a]
      BY <1>7, <1>8, <1>9, StoreP
    <3> HIDE DEF z
    <3>4. /\ q \in Memory /\ q[prev.v].c = Link(h + 1) /\ q[prev.v].p = z[prev.v].p
          /\ \A a \in Addr : a # prev.v => q[a] = z[a]
      BY <1>9, <3>2, <3>3, StoreC
    <3>5. \A k \in S \ {b} : k # g => prev # Link(k + 1) /\ k + 1 # prev.v
      BY <1>2, <3>1, LinksDiffer, LinkField
    <3>6. x = q
      BY <2>2 DEF z
    <3> HIDE DEF q, x
    <3>7. \A a \in Addr : a # h + 1 /\ (\A k \in S \ {b} : a # k + 1) => x[a] = y[a]
      BY <3>2, <3>3, <3>4, <3>6
    <3>8. x[h + 1].c = m[b + 1].c /\ x[h + 1].p = prev
      BY <1>7, <1>8, <3>2, <3>3, <3>4, <3>6
    <3>9. ASSUME NEW k \in S \ {b}
          PROVE  /\ x[k + 1].p = y[k + 1].p
                 /\ x[k + 1].c = IF prev = Link(k + 1) THEN Link(h + 1) ELSE y[k + 1].c
      <4>1. CASE k = g
        BY <1>8, <3>1, <3>2, <3>3, <3>4, <3>6, <4>1
      <4>2. CASE k # g
        BY <1>8, <3>3, <3>4, <3>5, <3>6, <4>2
      <4> QED BY <4>1, <4>2
    <3> QED BY <3>4, <3>6, <3>7, <3>8, <3>9
  <2> QED BY <2>1, <2>2
<1> HIDE DEF x
<1>13. SameTags(x, PutP(PutC(m, h, w), EndOf(m, b), w), H)
  BY <1>7, <1>8, <1>12 DEF SameTags
<1>14. /\ Tiles(x, H \ {b}) /\ Footers(x, H \ {b})
       /\ EndOf(x, h) = EndOf(m, b)
       /\ \A g \in H \ {h, b} : EndOf(x, g) = EndOf(m, g)
       /\ x[h].c = w /\ \A g \in (H \cup {End}) \ {h, b} : x[g].c = m[g].c
  <2>1. TagsGlued(m, x, H, h, b, w)
    BY <1>1, <1>6, <1>13, GluedTags
  <2> QED BY <2>1 DEF TagsGlued
<1>15. FreeList(x, (S \ {b}) \cup {h}, IF d = b THEN h ELSE d)
  <2>1. h \in Bottom .. End - 1 /\ h # b
    BY <1>1, <1>2 DEF Tiles
  <2>2. x[h + 1].p = m[b + 1].p /\ x[h + 1].c = m[b + 1].c
    BY <1>12 DEF prev
  <2>3. \A k \in S \ {b} :
          /\ x[k + 1].c = IF m[b + 1].p = Link(k + 1) THEN Link(h + 1) ELSE m[k + 1].c
          /\ x[k + 1].p = IF m[b + 1].c = Link(k + 1) THEN Link(h + 1) ELSE m[k + 1].p
    BY <1>1, <1>7, <1>12 DEF prev
  <2>4. Replaces(m, x, S, b, h)
    BY <1>1, <1>2, <2>1, <2>2, <2>3 DEF Replaces
  <2> QED BY <1>1, <1>2, <2>1, <2>4, ListReplace
<1>16. HeapOK(x, H \ {b}, (S \ {b}) \cup {h}, Lowest(d, h))
  BY <1>1, <1>2, <1>4, <1>14, <1>15 DEF HeapOK
<1>17. Keeps(m, x, H, S \cup {h})
  <2>1. ASSUME NEW g \in H \ (S \cup {h}), NEW a \in Inside(m, g) PROVE x[a] = m[a]
    <3>1. a \in Addr /\ (\A k \in S : a # k + 1) /\ a # h + 1
      BY <1>1, <2>1, InsideApart
    <3> QED BY <1>7, <1>12, <2>1, <3>1 DEF Keeps
  <2> QED BY <2>1 DEF Keeps
<1> QED BY <1>5, <1>6, <1>14, <1>16, <1>17 DEF MergedBelow

(* assign_ptr: the chunk at h, which has its tags, enters the list. *)
Entered(m, x, H, S, d, h) ==
  /\ HeapOK(x, H, S \cup {h}, d)
  /\ \A g \in H \cup {End} : x[g] = m[g]
  /\ \A g \in H : EndOf(x, g) = EndOf(m, g)
  /\ Keeps(m, x, H, S \cup {h})

(* A change of links, to those of a larger list. *)
LEMMA EnteredIf ==
  ASSUME NEW m \in Memory, NEW H, NEW S, NEW d, HeapOK(m, H, S, d), NEW h \in H, NEW x,
         NEW e, FreeList(x, S \cup {h}, e),
         \A a \in Addr : (\A k \in S \cup {h} : a # k + 1) => x[a] = m[a]
  PROVE  Entered(m, x, H, S, e, h)
<1>1. Tiles(m, H) /\ Footers(m, H) /\ S \subseteq H
  BY DEF HeapOK
<1>2. \A g \in H \cup {End} : g \in Addr /\ \A k \in H : g # k + 1
  BY <1>1, TilesFacts, AddrFacts, LinkPlaces
<1>3. \A g \in H \cup {End} : x[g] = m[g]
  BY <1>1, <1>2
<1>4. HeapOK(m, H, {}, End)
  BY <1>1 DEF HeapOK, FreeList
<1>5. HeapOK(x, H, {}, End) /\ \A g \in H : EndOf(x, g) = EndOf(m, g)
  BY <1>3, <1>4, HeapSame
<1>6. HeapOK(x, H, S \cup {h}, e)
  BY <1>1, <1>5 DEF HeapOK
<1>7. Keeps(m, x, H, S \cup {h})
  <2>1. ASSUME NEW g \in H \ (S \cup {h}), NEW a \in Inside(m, g) PROVE x[a] = m[a]
    <3>1. a \in Addr /\ \A k \in S \cup {h} : a # k + 1
      BY <1>1, <2>1, InsideApart
    <3> QED BY <3>1
  <2> QED BY <2>1 DEF Keeps
<1> QED BY <1>3, <1>5, <1>6, <1>7 DEF Entered

LEMMA EnterEmpty ==
  ASSUME NEW m \in Memory, NEW H, NEW S, HeapOK(m, H, S, End), NEW h \in H,
         m[h + 1].p = Link(0), m[h + 1].c = Link(0)
  PROVE  Entered(m, m, H, S, h, h)
<1>1. S = {}
  BY DEF HeapOK, FreeList
<1>2. FreeList(m, S, End) /\ InHeap(S) /\ h \in Bottom .. End - 1
  BY DEF HeapOK, Tiles, InHeap
<1>3. InsertsFirst(m, m, S, End, h)
  BY <1>1 DEF InsertsFirst
<1>4. FreeList(m, S \cup {h}, h)
  BY <1>2, <1>3, ListInsertFirst
<1> QED BY <1>4, EnteredIf

LEMMA EnterFirst ==
  ASSUME NEW m \in Memory, NEW H, NEW S, NEW d, HeapOK(m, H, S, d), NEW h \in H,
         d # End, \A k \in S : h < k
  PROVE  Entered(m, PutP(PutCell(m, h + 1, Link(0), Link(d + 1)), d + 1, Link(h + 1)),
                 H, S, h, h)
<1> DEFINE y == PutCell(m, h + 1, Link(0), Link(d + 1))
           x == PutP(y, d + 1, Link(h + 1))
<1>1. /\ Tiles(m, H) /\ S \subseteq H /\ FreeList(m, S, d) /\ InHeap(S)
      /\ h \in Bottom .. End - 1
  BY DEF HeapOK, Tiles, InHeap
<1>2. d \in S
  BY <1>1 DEF FreeList
<1>3. h \notin S
  BY <1>1, TilesAll
<1>4. /\ h + 1 \in Addr /\ \A k \in S : k + 1 \in Addr /\ k + 1 # h + 1
      /\ \A k \in S : k # d => k + 1 # d + 1
  BY <1>1, <1>2, <1>3, LinkPlaces
<1>5. Link(0) \in Word /\ Link(d + 1) \in Word /\ Link(h + 1) \in Word
  BY <1>2, <1>4, AddrFacts, WordType
<1>6. /\ y \in Memory /\ y[h + 1].p = Link(0) /\ y[h + 1].c = Link(d + 1)
      /\ \A a \in Addr : a # h + 1 => y[a] = m[a]
  BY <1>4, <1>5, StoreCell
<1> HIDE DEF y
<1>7. /\ x \in Memory /\ x[d + 1].p = Link(h + 1) /\ x[d + 1].c = y[d + 1].c
      /\ \A a \in Addr : a # d + 1 => x[a] = y[a]
  <2> DEFINE d_f == d + 1
             w == Link(h + 1)
             q == PutP(y, d_f, w)
  <2>1. d_f \in Addr /\ w \in Word /\ y \in Memory
    BY <1>2, <1>4, <1>5, <1>6
  <2> HIDE DEF d_f, w
  <2>2. /\ q \in Memory /\ q[d_f].p = w /\ q[d_f].c = y[d_f].c
        /\ \A a \in Addr : a # d_f => q[a] = y[a]
    BY <2>1, StoreP
  <2> QED BY <2>2 DEF d_f, w
<1> HIDE DEF x
<1>8. InsertsFirst(m, x, S, d, h)
  <2>1. S # {} /\ x[h + 1].p = Link(0) /\ x[h + 1].c = Link(d + 1)
    BY <1>2, <1>4, <1>6, <1>7
  <2>2. \A k \in S : x[k + 1].c = m[k + 1].c
    BY <1>2, <1>4, <1>6, <1>7
  <2>3. \A k \in S : x[k + 1].p = IF k = d THEN Link(h + 1) ELSE m[k + 1].p
    BY <1>2, <1>4, <1>6, <1>7
  <2> QED BY <2>1, <2>2, <2>3 DEF InsertsFirst
<1>9. FreeList(x, S \cup {h}, h)
  BY <1>1, <1>8, ListInsertFirst
<1>10. \A a \in Addr : (\A k \in S \cup {h} : a # k + 1) => x[a] = m[a]
  BY <1>2, <1>6, <1>7
<1> QED BY <1>9, <1>10, EnteredIf DEF x, y

(* After g, the last listed chunk before h. *)
LEMMA EnterAfter ==
  ASSUME NEW m \in Memory, NEW H, NEW S, NEW d, HeapOK(m, H, S, d), NEW h \in H,
         NEW g \in S, g < h, \A k \in S : k <= g \/ h < k
  PROVE  LET y == SetPrev(m, m[g + 1].c, Link(h + 1))
             z == PutCell(y, h + 1, Link(g + 1), m[g + 1].c)
         IN  Entered(m, PutC(z, g + 1, Link(h + 1)), H, S, d, h)
<1> DEFINE h_f == h + 1
           g_f == g + 1
           next == m[g + 1].c
           v == Link(g + 1)
           w == Link(h + 1)
           y == SetPrev(m, next, w)
           z == PutCell(y, h_f, v, next)
           x == PutC(z, g_f, w)
<1>1. /\ Tiles(m, H) /\ S \subseteq H /\ FreeList(m, S, d) /\ InHeap(S)
      /\ h \in Bottom .. End - 1
  BY DEF HeapOK, Tiles, InHeap
<1>2. h \notin S
  BY <1>1, TilesAll
<1>3. /\ h + 1 \in Addr /\ \A k \in S : k + 1 \in Addr /\ k + 1 # h + 1
      /\ \A k \in S : k # g => k + 1 # g + 1
  BY <1>1, <1>2, LinkPlaces
<1>4. Link(g + 1) \in Word /\ Link(h + 1) \in Word /\ next \in Word
  BY <1>3, WordType, CellFields
<1>5. next = Link(0) \/ \E k \in S \ {g} : next = Link(k + 1)
  <2>1. m[g + 1].c = Link(0) \/ \E k \in S \ {g} : m[g + 1].c = Link(k + 1)
    BY <1>1, LinkCases
  <2> QED BY <2>1
<1>6. \A k \in S : Link(k + 1) # Link(0)
  BY <1>1, LinksDiffer
<1>7. h_f \in Addr /\ g_f \in Addr /\ h_f # g_f /\ v \in Word /\ w \in Word
  BY <1>3, <1>4
<1> HIDE DEF next, h_f, g_f, v, w
<1>8. /\ y \in Memory
      /\ \A a \in Addr : y[a].c = m[a].c
      /\ \A a \in Addr : ~(a = next.v /\ next # Link(0)) => y[a] = m[a]
      /\ next # Link(0) => y[next.v].p = w
  <2>1. SetsPrev(m, y, next, w)
    BY <1>4, <1>7, PrevSet
  <2> HIDE DEF y
  <2> QED BY <2>1 DEF SetsPrev
<1> HIDE DEF y
<1>9. /\ z \in Memory /\ z[h_f].p = v /\ z[h_f].c = next
      /\ \A a \in Addr : a # h_f => z[a] = y[a]
  <2>1. y \in Memory /\ h_f \in Addr /\ v \in Word /\ next \in Word
    BY <1>4, <1>7, <1>8
  <2>2. /\ PutCell(y, h_f, v, next) \in Memory
        /\ PutCell(y, h_f, v, next)[h_f].p = v /\ PutCell(y, h_f, v, next)[h_f].c = next
        /\ \A a \in Addr : a # h_f => PutCell(y, h_f, v, next)[a] = y[a]
    BY <2>1, StoreCell
  <2> QED BY <2>2
<1> HIDE DEF z
<1>10. /\ x \in Memory /\ x[g_f].c = w /\ x[g_f].p = z[g_f].p
       /\ \A a \in Addr : a # g_f => x[a] = z[a]
  BY <1>4, <1>7, <1>9, StoreC
<1> HIDE DEF x
<1>11. x[h + 1].p = Link(g + 1) /\ x[h + 1].c = next
  BY <1>7, <1>9, <1>10 DEF h_f, v
<1>12. \A k \in S : x[k + 1].c = IF k = g THEN Link(h + 1) ELSE m[k + 1].c
  BY <1>3, <1>7, <1>8, <1>9, <1>10 DEF h_f, g_f, w
<1>13. \A k \in S : x[k + 1].p = IF next = Link(k + 1) THEN Link(h + 1) ELSE m[k + 1].p
  <2>1. \A k \in S : x[k + 1].p = y[k + 1].p
    BY <1>3, <1>9, <1>10 DEF h_f, g_f
  <2>2. ASSUME NEW k \in S PROVE y[k + 1].p = IF next = Link(k + 1) THEN w ELSE m[k + 1].p
    BY <1>3, <1>5, <1>6, <1>8, LinkField
  <2> QED BY <2>1, <2>2 DEF w
<1>14. Inserts(m, x, S, g, h)
  BY <1>11, <1>12, <1>13 DEF Inserts, next
<1>15. FreeList(x, S \cup {h}, d)
  BY <1>1, <1>14, ListInsert
<1>16. \A a \in Addr : (\A k \in S \cup {h} : a # k + 1) => x[a] = m[a]
  <2>1. ASSUME NEW a \in Addr, \A k \in S \cup {h} : a # k + 1 PROVE x[a] = m[a]
    <3>1. a # h_f /\ a # g_f
      BY <2>1 DEF h_f, g_f
    <3>2. y[a] = m[a]
      BY <1>5, <1>8, <2>1, LinkField
    <3> QED BY <1>9, <1>10, <3>1, <3>2
  <2> QED BY <2>1
<1>17. Entered(m, x, H, S, d, h)
  BY <1>15, <1>16, EnteredIf
<1> QED BY <1>17 DEF x, y, z, next, h_f, g_f, v, w

(* merge_perfect_size: b, which is listed but not first, becomes part of   *)
(* the chunk at h, of tag w from now on.                                   *)
Absorbed(m, x, H, S, d, h, b, w) ==
  /\ HeapOK(x, H \ {b}, S \ {b}, d)
  /\ EndOf(x, h) = EndOf(m, b)
  /\ \A g \in H \ {h, b} : EndOf(x, g) = EndOf(m, g)
  /\ x[h].c = w /\ \A g \in (H \cup {End}) \ {h, b} : x[g].c = m[g].c
  /\ Keeps(m, x, H, S)

LEMMA Absorb ==
  ASSUME NEW m \in Memory, NEW H, NEW S, NEW d, HeapOK(m, H, S, d), NEW h \in H, NEW b \in S,
         b # d, NEW w \in Word, Spans(m, h, b, w)
  PROVE  Absorbed(m, Relink(PutP(PutC(m, h, w), EndOf(m, b), w), b + 1), H, S, d, h, b, w)
<1> DEFINE y == PutP(PutC(m, h, w), EndOf(m, b), w)
           x == Relink(y, b + 1)
<1>1. Tiles(m, H) /\ Footers(m, H) /\ S \subseteq H /\ FreeList(m, S, d) /\ b \in H
  BY DEF HeapOK
<1>2. InHeap(S)
  BY <1>1 DEF Tiles, InHeap
<1>3. Glued(m, y, H, S, d, h, b, w)
  BY <1>1, Glue
<1> HIDE DEF y
<1>4. /\ y \in Memory /\ Tiles(y, H \ {b}) /\ Footers(y, H \ {b}) /\ FreeList(y, S, d)
      /\ EndOf(y, h) = EndOf(m, b)
      /\ \A g \in H \ {h, b} : EndOf(y, g) = EndOf(m, g)
      /\ y[h].c = w /\ \A g \in H \cup {End} : g # h => y[g].c = m[g].c
      /\ \A k \in H : y[k + 1] = m[k + 1]
      /\ Keeps(m, y, H, {})
  BY <1>3 DEF Glued
<1>5. /\ x \in Memory
      /\ \A a \in Addr : (\A k \in S \ {b} : a # k + 1) => x[a] = y[a]
      /\ \A k \in S \ {b} :
           /\ x[k + 1].c = IF y[b + 1].p = Link(k + 1) THEN y[b + 1].c ELSE y[k + 1].c
           /\ x[k + 1].p = IF y[b + 1].c = Link(k + 1) THEN y[b + 1].p ELSE y[k + 1].p
  BY <1>2, <1>4, RelinkCells
<1> HIDE DEF x
<1>6. FreeList(x, S \ {b}, d)
  <2>1. Removes(y, x, S, b)
    BY <1>5 DEF Removes
  <2> QED BY <1>2, <1>4, <2>1, ListRemove
<1>7. \A g \in H \cup {End} : g \in Addr /\ x[g] = y[g]
  BY <1>1, <1>5, TilesFacts, AddrFacts, LinkPlaces
<1>8. /\ Tiles(x, H \ {b}) /\ Footers(x, H \ {b})
      /\ \A g \in H \ {b} : EndOf(x, g) = EndOf(y, g)
  <2>1. HeapOK(y, H \ {b}, {}, End)
    BY <1>4 DEF HeapOK, FreeList
  <2> QED BY <1>4, <1>7, <2>1, HeapSame DEF HeapOK
<1>9. Keeps(m, x, H, S)
  <2>1. ASSUME NEW g \in H \ S, NEW a \in Inside(m, g) PROVE x[a] = m[a]
    <3>1. a \in Addr /\ \A k \in S : a # k + 1
      BY <1>1, <2>1, InsideApart
    <3>2. x[a] = y[a] /\ y[a] = m[a]
      BY <1>4, <1>5, <2>1, <3>1 DEF Keeps
    <3> QED BY <3>2
  <2> QED BY <2>1 DEF Keeps
<1>10. h # b
  BY <1>1, TilesAll DEF Spans
<1>11. HeapOK(x, H \ {b}, S \ {b}, d)
  BY <1>1, <1>6, <1>8 DEF HeapOK
<1>12. /\ EndOf(x, h) = EndOf(m, b)
       /\ \A g \in H \ {h, b} : EndOf(x, g) = EndOf(m, g)
       /\ x[h].c = w /\ \A g \in (H \cup {End}) \ {h, b} : x[g].c = m[g].c
  BY <1>4, <1>7, <1>8, <1>10
<1>13. Absorbed(m, x, H, S, d, h, b, w)
  BY <1>9, <1>11, <1>12 DEF Absorbed
<1> QED BY <1>13 DEF x, y

PutCopy(m, a, y) == [m EXCEPT ![a] = y]

LEMMA StoreCopy ==
  ASSUME NEW m \in Memory, NEW a \in Addr, NEW y \in Cell
  PROVE  /\ PutCopy(m, a, y) \in Memory /\ PutCopy(m, a, y)[a] = y
         /\ \A b \in Addr : b # a => PutCopy(m, a, y)[b] = m[b]
  BY DEF Memory, PutCopy

(* The tags and the links realloc_upgrade moves. *)
Moved(m, h, f, n, e, y, w1, w2) ==
  PutP(PutCell(PutCopy(PutC(m, h, w1), f, y), n, w1, w2), e, w2)

StoredCell(m, x, a, w, y) ==
  /\ x \in Memory /\ x[a].p = w /\ x[a].c = y
  /\ \A b \in Addr : b # a => x[b] = m[b]

LEMMA CellStored ==
  ASSUME NEW m \in Memory, NEW a \in Addr, NEW w \in Word, NEW y \in Word
  PROVE  StoredCell(m, PutCell(m, a, w, y), a, w, y)
  BY StoreCell DEF StoredCell

MovedAs(m, x, h, f, n, e, y, w1, w2) ==
  /\ x \in Memory
  /\ x[h].c = w1 /\ x[h].p = m[h].p
  /\ x[f] = y
  /\ x[n].p = w1 /\ x[n].c = w2
  /\ x[e].p = w2 /\ x[e].c = m[e].c
  /\ \A a \in Addr : a # h /\ a # f /\ a # n /\ a # e => x[a] = m[a]

LEMMA MovedCells ==
  ASSUME NEW m \in Memory, NEW h \in Addr, NEW f \in Addr, NEW n \in Addr, NEW e \in Addr,
         h # f, h # n, h # e, f # n, f # e, n # e,
         NEW y \in Cell, NEW w1 \in Word, NEW w2 \in Word
  PROVE  MovedAs(m, Moved(m, h, f, n, e, y, w1, w2), h, f, n, e, y, w1, w2)
<1> DEFINE y1 == PutC(m, h, w1)
           y2 == PutCopy(y1, f, y)
           y3 == PutCell(y2, n, w1, w2)
           y4 == PutP(y3, e, w2)
<1>1. /\ y1 \in Memory /\ y1[h].c = w1 /\ y1[h].p = m[h].p
      /\ \A a \in Addr : a # h => y1[a] = m[a]
  BY StoreC
<1> HIDE DEF y1
<1>2. /\ y2 \in Memory /\ y2[f] = y /\ \A a \in Addr : a # f => y2[a] = y1[a]
  BY <1>1, StoreCopy
<1> HIDE DEF y2
<1>3. /\ y3 \in Memory /\ y3[n].p = w1 /\ y3[n].c = w2
      /\ \A a \in Addr : a # n => y3[a] = y2[a]
  <2>1. StoredCell(y2, y3, n, w1, w2)
    BY <1>2, CellStored
  <2> QED BY <2>1 DEF StoredCell
<1> HIDE DEF y3
<1>4. /\ y4 \in Memory /\ y4[e].p = w2 /\ y4[e].c = y3[e].c
      /\ \A a \in Addr : a # e => y4[a] = y3[a]
  BY <1>3, StoreP
<1> HIDE DEF y4
<1>5. /\ y4 \in Memory
      /\ y4[h].c = w1 /\ y4[h].p = m[h].p
      /\ y4[f] = y
      /\ y4[n].p = w1 /\ y4[n].c = w2
      /\ y4[e].p = w2 /\ y4[e].c = m[e].c
      /\ \A a \in Addr : a # h /\ a # f /\ a # n /\ a # e => y4[a] = m[a]
  BY <1>1, <1>2, <1>3, <1>4
<1> QED BY <1>5 DEF Moved, MovedAs, y4, y3, y2, y1

(* realloc_upgrade: the chunk at h, of tag w1 from now on, grows over the  *)
(* header of the next one, b, which is listed but not first; the rest of b *)
(* begins at n, of tag w2, and has its place in the list.                  *)
GrowTags(m, h, b, n, w1, w2) ==
  /\ b = EndOf(m, h) /\ b < n /\ n + 2 <= EndOf(m, b)
  /\ w1.v = n - h - 1 /\ w2.v = EndOf(m, b) - n - 1

Grown(m, x, H, S, d, h, b, n, w1, w2) ==
  /\ HeapOK(x, (H \ {b}) \cup {n}, (S \ {b}) \cup {n}, d) /\ n \notin H
  /\ EndOf(x, h) = n /\ EndOf(x, n) = EndOf(m, b)
  /\ \A g \in H \ {h, b} : EndOf(x, g) = EndOf(m, g)
  /\ x[h].c = w1 /\ x[n].c = w2 /\ \A g \in (H \cup {End}) \ {h, b} : x[g].c = m[g].c
  /\ Keeps(m, x, H, S \cup {h})
  /\ \A a \in Addr : h < a /\ a < b => x[a] = m[a]

(* Where things are. *)
GrowPlaces(H, S, h, b, n, e) ==
  /\ h \in Int /\ h \in Addr /\ n \in Addr /\ n + 1 \in Addr /\ e \in Addr
  /\ h # n + 1 /\ h # n /\ h # e /\ n + 1 # n /\ n + 1 # e /\ n # e
  /\ n \notin H /\ n + 1 \notin H /\ n \notin S /\ n # End /\ n + 1 # End /\ e \in H \cup {End}
  /\ n \in Bottom .. End - 1 /\ n # b
  /\ \A k \in S \ {b} : k + 1 \in Addr /\ k + 1 \notin {h, n + 1, n, e} /\ (k < n <=> k < b)
  /\ \A g \in H \cup {End} : g \in Addr /\ \A k \in S : g # k + 1

LEMMA GrowApart ==
  ASSUME NEW m \in Memory, NEW H, NEW S, NEW d, HeapOK(m, H, S, d), NEW h \in H, NEW b \in S,
         NEW n \in Int, NEW w1 \in Word, NEW w2 \in Word, GrowTags(m, h, b, n, w1, w2)
  PROVE  GrowPlaces(H, S, h, b, n, EndOf(m, b))
<1> DEFINE e == EndOf(m, b)
<1>1. Tiles(m, H) /\ S \subseteq H /\ b \in H
  BY DEF HeapOK
<1>2. /\ h \in Int /\ Bottom <= h /\ b \in Int /\ h + 2 <= b /\ b < n /\ n + 2 <= e
      /\ e \in Int /\ e <= End /\ e \in H \cup {End} /\ b < End
      /\ \A g \in H : g \in Int /\ (g <= h \/ b <= g) /\ (g <= b \/ e <= g) /\ g < End
  BY <1>1, TilesAll DEF GrowTags
<1> HIDE DEF e
<1>3. \A g \in H : g <= h \/ g = b \/ e <= g
  BY <1>2
<1>4. \A g \in H \cup {End} : g \in Addr /\ \A k \in S : g # k + 1
  BY <1>1, TilesFacts, AddrFacts, LinkPlaces
<1>5. n \in Addr /\ n + 1 \in Addr /\ e \in Addr /\ n \in Bottom .. End - 1
  BY <1>2, Geometry DEF Addr, End
<1>6. n \notin H /\ n + 1 \notin H /\ n # End /\ n + 1 # End
  BY <1>2, <1>3, Geometry DEF End
<1>7. ASSUME NEW k \in S \ {b}
      PROVE  k + 1 \in Addr /\ k + 1 \notin {h, n + 1, n, e} /\ (k < n <=> k < b)
  <2>1. k \in H /\ k \in Int /\ (k <= h \/ e <= k)
    BY <1>1, <1>2, <1>3
  <2>2. k + 1 \in Addr
    BY <1>1, LinkPlaces
  <2>3. k + 1 # h /\ k + 1 # e
    BY <1>1, <1>2, <1>4
  <2> QED BY <1>2, <2>1, <2>2, <2>3
<1>8. h # n + 1 /\ h # n /\ h # e /\ n + 1 # n /\ n + 1 # e /\ n # e /\ n # b
  BY <1>2
<1>9. h \in Addr /\ n \notin S
  BY <1>1, <1>4, <1>6
<1> QED BY <1>2, <1>4, <1>5, <1>6, <1>7, <1>8, <1>9 DEF e, GrowPlaces

LEMMA Grow ==
  ASSUME NEW m \in Memory, NEW H, NEW S, NEW d, HeapOK(m, H, S, d), NEW h \in H \ S, NEW b \in S,
         b # d, NEW n \in Int, NEW w1 \in Word, NEW w2 \in Word, GrowTags(m, h, b, n, w1, w2)
  PROVE  LET y == Moved(m, h, n + 1, n, EndOf(m, b), m[b + 1], w1, w2)
             z == SetNext(y, m[b + 1].p, Link(n + 1))
         IN  Grown(m, SetPrev(z, m[b + 1].c, Link(n + 1)), H, S, d, h, b, n, w1, w2)
<1> DEFINE e == EndOf(m, b)
           f == n + 1
           prev == m[b + 1].p
           next == m[b + 1].c
           w == Link(n + 1)
           y == Moved(m, h, f, n, e, m[b + 1], w1, w2)
           z == SetNext(y, prev, w)
           x == SetPrev(z, next, w)
<1>1. Tiles(m, H) /\ Footers(m, H) /\ S \subseteq H /\ FreeList(m, S, d) /\ b \in H
  BY DEF HeapOK
<1>2. InHeap(S)
  BY <1>1 DEF Tiles, InHeap
<1>3. GrowPlaces(H, S, h, b, n, e)
  BY GrowApart
<1>4. m[b + 1] \in Cell /\ prev \in Word /\ next \in Word /\ w \in Word /\ b + 1 \in Addr
  <2>1. b + 1 \in Addr /\ n + 1 \in Addr
    BY <1>1, <1>3, LinkPlaces DEF GrowPlaces
  <2> QED BY <2>1, CellFields, WordType DEF Memory
<1>5. /\ prev = Link(0) \/ \E g \in S \ {b} : prev = Link(g + 1)
      /\ next = Link(0) \/ \E g \in S \ {b} : next = Link(g + 1)
  <2>1. /\ m[b + 1].p = Link(0) \/ \E g \in S \ {b} : m[b + 1].p = Link(g + 1)
        /\ m[b + 1].c = Link(0) \/ \E g \in S \ {b} : m[b + 1].c = Link(g + 1)
    BY <1>1, <1>2, LinkCases
  <2> QED BY <2>1
<1>6. \A k \in S : Link(k + 1) # Link(0)
  BY <1>2, LinksDiffer
<1>7. /\ f \in Addr /\ n \in Addr /\ e \in Addr /\ h \in Addr
      /\ h # f /\ h # n /\ h # e /\ f # n /\ f # e /\ n # e
  BY <1>3 DEF GrowPlaces
<1>8. \A k \in S \ {b} : k + 1 \in Addr /\ k + 1 # h /\ k + 1 # f /\ k + 1 # n /\ k + 1 # e
  BY <1>3 DEF GrowPlaces
<1> HIDE DEF e, f
<1>9. /\ y \in Memory
      /\ y[h].c = w1 /\ y[h].p = m[h].p
      /\ y[f] = m[b + 1]
      /\ y[n].p = w1 /\ y[n].c = w2
      /\ y[e].p = w2 /\ y[e].c = m[e].c
      /\ \A a \in Addr : a # h /\ a # f /\ a # n /\ a # e => y[a] = m[a]
  <2> DEFINE q == m[b + 1]
  <2>1. q \in Cell /\ q = m[b + 1]
    BY <1>4
  <2> HIDE DEF q
  <2>2. MovedAs(m, Moved(m, h, f, n, e, q, w1, w2), h, f, n, e, q, w1, w2)
    BY <1>7, <2>1, MovedCells
  <2> QED BY <2>1, <2>2 DEF MovedAs
<1> HIDE DEF prev, next, w, y
<1>10. /\ z \in Memory
       /\ \A a \in Addr : z[a].p = y[a].p
       /\ \A a \in Addr : ~(a = prev.v /\ prev # Link(0)) => z[a] = y[a]
       /\ prev # Link(0) => z[prev.v].c = w
  <2>1. SetsNext(y, z, prev, w)
    BY <1>4, <1>9, NextSet
  <2> HIDE DEF z
  <2> QED BY <2>1 DEF SetsNext
<1> HIDE DEF z
<1>11. /\ x \in Memory
       /\ \A a \in Addr : x[a].c = z[a].c
       /\ \A a \in Addr : ~(a = next.v /\ next # Link(0)) => x[a] = z[a]
       /\ next # Link(0) => x[next.v].p = w
  <2>1. SetsPrev(z, x, next, w)
    BY <1>4, <1>10, PrevSet
  <2> QED BY <2>1 DEF SetsPrev
<1> HIDE DEF x
<1>12. \A a \in Addr : (\A k \in S \ {b} : a # k + 1) => x[a] = y[a]
  <2>1. ASSUME NEW a \in Addr, \A k \in S \ {b} : a # k + 1 PROVE x[a] = y[a]
    <3>1. ~(a = prev.v /\ prev # Link(0))
      BY <1>5, <2>1, LinkField
    <3>2. ~(a = next.v /\ next # Link(0))
      BY <1>5, <2>1, LinkField
    <3> QED BY <1>10, <1>11, <3>1, <3>2
  <2> QED BY <2>1
<1>13. x[h] = y[h] /\ x[f] = y[f] /\ x[n] = y[n] /\ x[e] = y[e]
  BY <1>7, <1>8, <1>12
<1>14. \A a \in Addr : a # h /\ a # f /\ a # n /\ a # e /\ (\A k \in S : a # k + 1) => x[a] = m[a]
  BY <1>9, <1>12
<1>15. ASSUME NEW k \in S \ {b}
       PROVE  /\ x[k + 1].c = IF prev = Link(k + 1) THEN w ELSE m[k + 1].c
              /\ x[k + 1].p = IF next = Link(k + 1) THEN w ELSE m[k + 1].p
  <2>1. y[k + 1] = m[k + 1] /\ k + 1 \in Addr
    BY <1>8, <1>9
  <2>2. x[k + 1].c = IF prev = Link(k + 1) THEN w ELSE m[k + 1].c
    BY <1>5, <1>6, <1>10, <1>11, <2>1, LinkField
  <2>3. x[k + 1].p = IF next = Link(k + 1) THEN w ELSE m[k + 1].p
    BY <1>5, <1>6, <1>10, <1>11, <2>1, LinkField
  <2> QED BY <2>2, <2>3
<1>16. FreeList(x, (S \ {b}) \cup {n}, d)
  <2>1. n # b /\ n \notin S /\ n \in Bottom .. End - 1 /\ \A k \in S \ {b} : (k < n <=> k < b)
    BY <1>3 DEF GrowPlaces
  <2>2. x[n + 1].p = m[b + 1].p /\ x[n + 1].c = m[b + 1].c
    BY <1>9, <1>13 DEF f
  <2>3. Replaces(m, x, S, b, n)
    BY <1>15, <2>1, <2>2 DEF Replaces, prev, next, w
  <2> QED BY <1>1, <1>2, <2>1, <2>3, ListReplace
<1>17. \A g \in H \cup {End} : /\ g \in Addr /\ g # f /\ g # n /\ \A k \in S : g # k + 1
                               /\ g # h => x[g].c = m[g].c
                               /\ g # e => x[g].p = m[g].p
  <2>1. \A g \in H \cup {End} : g \in Addr /\ g # f /\ g # n /\ \A k \in S : g # k + 1
    BY <1>3 DEF GrowPlaces, f
  <2> QED BY <1>9, <1>12, <2>1
<1>18. /\ Tiles(x, (H \ {b}) \cup {n}) /\ Footers(x, (H \ {b}) \cup {n})
       /\ EndOf(x, h) = n /\ EndOf(x, n) = e
       /\ \A g \in H \ {h, b} : EndOf(x, g) = EndOf(m, g)
  <2> DEFINE u == Freed(EndOf(m, b) - h - 1)
             q == PutP(PutC(m, h, u), EndOf(m, b), u)
  <2>1. u \in Word /\ Spans(m, h, b, u)
    <3>1. b = EndOf(m, h)
      BY DEF GrowTags
    <3>2. Joined(m, h, b) = Freed(EndOf(m, b) - h - 1) /\ Joined(m, h, b) \in Word /\ Spans(m, h, b, Joined(m, h, b))
      BY <1>1, <3>1, JoinedSize
    <3> QED BY <3>2
  <2> HIDE DEF u
  <2>2. Glued(m, q, H, S, d, h, b, u)
    BY <1>1, <2>1, Glue
  <2>3. e = EndOf(m, b)
    BY DEF e
  <2>4. \A a \in Addr : a # EndOf(m, b) => q[a].p = m[a].p
    <3>1. PutP(PutC(m, h, u), e, u) \in Memory /\ \A a \in Addr : a # e => PutP(PutC(m, h, u), e, u)[a].p = m[a].p
      BY <1>7, <2>1, TagPair
    <3> QED BY <2>3, <3>1
  <2> HIDE DEF q
  <2>5. /\ q \in Memory /\ Tiles(q, H \ {b}) /\ Footers(q, H \ {b})
        /\ EndOf(q, h) = e
        /\ \A g \in H \ {h, b} : EndOf(q, g) = EndOf(m, g)
        /\ \A g \in H \cup {End} : g # h => q[g].c = m[g].c
    BY <2>2 DEF Glued, e
  <2>6. h \in H \ {b} /\ h + 2 <= n /\ n + 2 <= e /\ w1.v = n - h - 1 /\ w2.v = e - n - 1
    <3>1. h + 2 <= b /\ b \in Int /\ h \in Int
      BY <1>1, TilesAll DEF GrowTags
    <3> QED BY <3>1 DEF GrowTags, e
  <2>7. Splits(q, x, H \ {b}, h, n)
    <3>1. x[h].c.v = n - h - 1 /\ x[n].c.v = e - n - 1 /\ x[n].p = x[h].c /\ x[e].p = x[n].c
      BY <1>9, <1>13, <2>6
    <3>2. \A g \in (H \ {b}) \cup {End} : g # h => x[g].c = q[g].c
      BY <1>17, <2>5
    <3>3. \A g \in (H \ {b}) \cup {End} : g # e => x[g].p = q[g].p
      BY <1>17, <2>4 DEF e
    <3> QED BY <2>5, <2>6, <3>1, <3>2, <3>3 DEF Splits
  <2>8. /\ Tiles(x, (H \ {b}) \cup {n}) /\ Footers(x, (H \ {b}) \cup {n})
        /\ EndOf(x, h) = n /\ EndOf(x, n) = EndOf(q, h)
        /\ \A g \in (H \ {b}) \ {h} : EndOf(x, g) = EndOf(q, g)
    <3> DEFINE G == H \ {b}
    <3>1. q \in Memory /\ Tiles(q, G) /\ Footers(q, G) /\ h \in G /\ Splits(q, x, G, h, n)
      BY <2>5, <2>6, <2>7
    <3> HIDE DEF G
    <3>2. SplitAt(q, x, G, h, n)
      BY <3>1, Split
    <3> QED BY <3>2 DEF SplitAt, G
  <2> QED BY <2>5, <2>8
<1>19. HeapOK(x, (H \ {b}) \cup {n}, (S \ {b}) \cup {n}, d)
  BY <1>1, <1>16, <1>18 DEF HeapOK
<1>20. Keeps(m, x, H, S \cup {h})
  <2>1. ASSUME NEW g \in H \ (S \cup {h}), NEW a \in Inside(m, g) PROVE x[a] = m[a]
    <3>1. a \in Addr /\ a \in Int /\ (\A k \in S : a # k + 1) /\ a \notin H /\ a # End /\ a \notin Inside(m, b)
      BY <1>1, <2>1, InsideApart
    <3>2. n \in Inside(m, b) /\ n + 1 \in Inside(m, b)
      <4>1. b < n /\ n + 2 <= EndOf(m, b) /\ b \in Int /\ EndOf(m, b) \in Int
        BY <1>1, TilesAll DEF GrowTags
      <4> QED BY <4>1 DEF Inside
    <3>3. e \in H \cup {End}
      BY <1>1, TilesAll DEF e
    <3>4. a # h /\ a # f /\ a # n /\ a # e
      BY <3>1, <3>2, <3>3 DEF f
    <3> QED BY <1>14, <3>1, <3>4
  <2> QED BY <2>1 DEF Keeps
<1>21. \A a \in Addr : h < a /\ a < b => x[a] = m[a]
  <2>1. ASSUME NEW a \in Addr, h < a, a < b PROVE x[a] = m[a]
    <3>1. /\ h \in Int /\ b \in Int /\ e \in Int /\ b < n /\ n + 2 <= e /\ a \in Int
          /\ b = EndOf(m, h)
      BY <1>1, TilesAll, AddrInt DEF GrowTags, e
    <3>2. a # h /\ a # f /\ a # n /\ a # e
      BY <2>1, <3>1 DEF f
    <3>3. \A k \in S : a # k + 1
      <4>1. a \in Inside(m, h)
        BY <2>1, <3>1 DEF Inside
      <4> QED BY <1>1, <4>1, InsideApart
    <3> QED BY <1>14, <2>1, <3>2, <3>3
  <2> QED BY <2>1
<1>22. /\ n \notin H
       /\ x[h].c = w1 /\ x[n].c = w2 /\ \A g \in (H \cup {End}) \ {h, b} : x[g].c = m[g].c
  BY <1>9, <1>13, <1>17
<1>23. Grown(m, x, H, S, d, h, b, n, w1, w2)
  BY <1>18, <1>19, <1>20, <1>21, <1>22 DEF Grown, e
<1> QED BY <1>23 DEF x, y, z, prev, next, w, e, f
=============================================================================
